---------------------------- MODULE CodexUpdate ----------------------------
(***************************************************************************)
(* The update of a Codex installation (perform_codex_update of             *)
(* src/quorum/codex_update.py) with the installation of the seat helper    *)
(* that it ends with (src/quorum/agents/seat_helper.py), on a machine      *)
(* where launchd restarts helpers and releases come out at any time.       *)
(*                                                                         *)
(* Every command may fail, and what was done before it stays done; the     *)
(* user then runs the update again.  A release is a number, an allowed     *)
(* root a model value.  helper.json outlives its writer: fresh says that   *)
(* its heartbeat is recent and its process lives.                          *)
(***************************************************************************)
EXTENDS Naturals, FiniteSets

CONSTANTS
  Legacy,       \* the two default roots of old releases
  Default,      \* the default roots that are built in
  Exports,      \* bound: what CODE_QUORUM_HELPER_ALLOWED_ROOTS may be set to
  Choices,      \* bound: sets of roots that the user may have installed
  Bumps,        \* releases that raise the helper's protocol version
  MaxVersion,   \* bound: the last release
  MaxMishaps,   \* bound: failures, edits of the approvals, needless updates
  None

ASSUME UpdateAssumption ==
  /\ Legacy \subseteq Default /\ Default # {}
  /\ {} \notin Choices \cup Exports
  /\ MaxVersion \in Nat \ {0} /\ MaxMishaps \in Nat
  /\ Bumps \subseteq 1 .. MaxVersion

Version == 1 .. MaxVersion
Roots == Default \cup (UNION Choices) \cup (UNION Exports)
Served == [version : Version, roots : SUBSET Roots]
Agent == [roots : SUBSET Roots]

ASSUME NoneAssumption == None \notin Served \cup Agent

VARIABLES
  origin,   \* the release on origin/main
  tree,     \* the release in the checkout
  venv,     \* the release its environment was prepared for
  market,   \* the release in Codex's copy of the marketplace
  plugin,   \* the release of the installed plugin
  plist,    \* the roots in the LaunchAgent's file
  loaded,   \* the agent that launchd has loaded
  helper,   \* the helper process that runs
  file,     \* what helper.json says
  fresh,    \* it was written by a helper that lives, and just now
  step,     \* the next command of the update, or how it ended
  code,     \* the release whose code runs it
  live,     \* live_roots
  target,   \* the version it read from the checkout
  changed,  \* the approvals differ from its snapshot
  mishaps,  \* failures, edits and needless updates so far
  chosen,   \* the roots the user installed first
  defaults, \* default_allowed_roots() in the environment of this update
  blind,    \* this update could not ask a helper for its roots
  waived    \* roots were given up: see Waives

machine == <<plist, loaded, helper, file, fresh>>
releases == <<tree, venv, market, plugin>>
taken == <<code, live, target, changed, defaults, blind, waived>>
updateVars == <<origin, releases, machine, step, taken, mishaps, chosen>>

Over == {"idle", "failed", "done"}
Command == {"pull", "sync", "market", "add", "validate",
            "write", "bootout", "bootstrap", "kickstart", "status", "compare"}

UpdateTypeOK ==
  /\ {origin, tree, venv, market, plugin, code, target} \subseteq Version
  /\ plist \in SUBSET Roots
  /\ loaded \in Agent \cup {None}
  /\ helper \in Served \cup {None}
  /\ file \in Served
  /\ step \in Over \cup Command
  /\ live \in SUBSET Roots
  /\ defaults \in {Default} \cup Exports
  /\ chosen \in Choices
  /\ {fresh, changed, blind, waived} \subseteq BOOLEAN
  /\ mishaps \in 0 .. MaxMishaps

UpdateInit ==
  /\ origin = 1 /\ tree = 1 /\ venv = 1 /\ market = 1 /\ plugin = 1
  /\ chosen \in Choices
  /\ plist = chosen
  /\ loaded = [roots |-> chosen]
  /\ helper = [version |-> 1, roots |-> chosen]
  /\ file = helper
  /\ fresh = TRUE
  /\ step = "idle"
  /\ code = 1
  /\ live = chosen
  /\ target = 1
  /\ changed = FALSE
  /\ defaults = Default
  /\ blind = FALSE
  /\ waived = FALSE
  /\ mishaps = 0

-----------------------------------------------------------------------------
(* The update *)

\* HELPER_PROTOCOL_VERSION as of release v.
Protocol(v) == Cardinality({b \in Bumps : b <= v})

\* helper.json shows a live helper whose protocol this code knows.
Compatible == fresh /\ Protocol(file.version) = Protocol(tree)

\* Mutant of IsLegacy: any of the old roots makes it the old default.
IsLegacyByOne(r) == r \cap Legacy # {}

IsLegacy(r) == r = Legacy

\* What the agent is written with: nothing is passed on for the old default,
\* and the command that installs takes default_allowed_roots() again.
Installed(r) == IF IsLegacy(r) THEN defaults ELSE r

\* The update writes the agent without having asked a helper, or exported
\* roots that do not cover the old default which it replaces by them.
Waives == blind \/ (IsLegacy(live) /\ ~(Legacy \subseteq defaults))

StepFails ==
  /\ mishaps < MaxMishaps
  /\ mishaps' = mishaps + 1
  /\ step' = "failed"

\* The last update did not bring the last release.
Behind == step # "done" \/ target # origin

\* The checks of the checkout, the snapshot of the approvals, the roots.  What
\* the user's shell exports takes the place of the default roots.
Begin ==
  /\ step \in Over
  /\ Behind \/ mishaps < MaxMishaps
  /\ mishaps' = IF Behind THEN mishaps ELSE mishaps + 1
  /\ step' = "pull"
  /\ code' = tree
  /\ defaults' \in {Default} \cup Exports
  /\ live' = IF Compatible THEN file.roots ELSE defaults'
  /\ blind' = ~Compatible
  /\ changed' = FALSE
  /\ UNCHANGED <<origin, releases, machine, target, waived, chosen>>

\* One command fails, or the user interrupts the update.
Breaks ==
  /\ step \in Command
  /\ StepFails
  /\ UNCHANGED <<origin, releases, machine, taken, chosen>>

Goes(from, to) ==
  /\ step = from
  /\ step' = to
  /\ UNCHANGED <<origin, mishaps, chosen>>

Pull ==
  /\ Goes("pull", "sync")
  /\ tree' = origin
  /\ target' = origin
  /\ UNCHANGED <<venv, market, plugin, machine, code, live, changed, defaults, blind, waived>>

Sync ==
  /\ Goes("sync", "market")
  /\ venv' = tree
  /\ UNCHANGED <<tree, market, plugin, machine, taken>>

\* The marketplace has what is released by now, the checkout what was then.
Upgrade ==
  /\ Goes("market", "add")
  /\ market' = origin
  /\ UNCHANGED <<tree, venv, plugin, machine, taken>>

\* Mutant of Add: whatever version was installed will do.
AddAny ==
  /\ Goes("add", "validate")
  /\ plugin' = market
  /\ UNCHANGED <<tree, venv, market, machine, taken>>

\* Another version than the checkout's ends the update, installed though.
Add ==
  /\ step = "add"
  /\ plugin' = market
  /\ step' = IF market = target THEN "validate" ELSE "failed"
  /\ UNCHANGED <<origin, tree, venv, market, machine, taken, mishaps, chosen>>

Validate ==
  /\ Goes("validate", "write")
  /\ UNCHANGED <<releases, machine, taken>>

\* install_launchagent: the file is replaced in one step.
Write ==
  /\ Goes("write", "bootout")
  /\ plist' = Installed(live)
  /\ waived' = (waived \/ Waives)
  /\ UNCHANGED <<releases, loaded, helper, file, fresh, code, live, target,
                 changed, defaults, blind>>

\* Mutant of Bootout: an agent whose file did not change is left alone.
BootoutIfChanged ==
  /\ Goes("bootout", IF loaded = [roots |-> plist] THEN "status" ELSE "bootstrap")
  /\ IF loaded = [roots |-> plist] THEN UNCHANGED <<loaded, helper, fresh>>
     ELSE loaded' = None /\ helper' = None /\ fresh' = FALSE
  /\ UNCHANGED <<releases, plist, file, taken>>

\* The old helper gets a SIGTERM, which leaves its helper.json behind.
Bootout ==
  /\ Goes("bootout", "bootstrap")
  /\ loaded' = None
  /\ helper' = None
  /\ fresh' = FALSE
  /\ UNCHANGED <<releases, plist, file, taken>>

\* Its failure is not looked at; the bootstrap then finds the old agent.
BootoutIgnored ==
  /\ step = "bootout"
  /\ mishaps < MaxMishaps
  /\ mishaps' = mishaps + 1
  /\ step' = "bootstrap"
  /\ UNCHANGED <<origin, releases, machine, taken, chosen>>

Bootstrap ==
  /\ step = "bootstrap"
  /\ step' = IF loaded = None THEN "kickstart" ELSE "failed"
  /\ loaded' = IF loaded = None THEN [roots |-> plist] ELSE loaded
  /\ UNCHANGED <<origin, releases, plist, helper, file, fresh, taken, mishaps, chosen>>

Kickstart ==
  /\ Goes("kickstart", "status")
  /\ helper' = None
  /\ fresh' = FALSE
  /\ UNCHANGED <<releases, plist, loaded, file, taken>>

\* seat-helper-status prints the version that helper.json has, also when no
\* helper runs.  The loop asks again for five seconds; Breaks is its end.
Status ==
  /\ Goes("status", "compare")
  /\ file.version = target
  /\ UNCHANGED <<releases, machine, taken>>

Compare ==
  /\ Goes("compare", IF changed THEN "failed" ELSE "done")
  /\ UNCHANGED <<releases, machine, taken>>

-----------------------------------------------------------------------------
(* The machine *)

\* launchd starts the helper of an agent that is loaded, and restarts it.
Launch ==
  /\ loaded # None /\ helper = None
  /\ helper' = [version |-> tree, roots |-> loaded.roots]
  /\ UNCHANGED <<origin, releases, plist, loaded, file, fresh, step, taken, mishaps, chosen>>

\* _write_state, at the start of a helper and every second.
HelperBeats ==
  /\ helper # None /\ ~(fresh /\ file = helper)
  /\ file' = helper
  /\ fresh' = TRUE
  /\ UNCHANGED <<origin, releases, plist, loaded, helper, step, taken, mishaps, chosen>>

\* A helper is killed, or its heartbeat stalls for as long as it counts.
HelperFails ==
  /\ mishaps < MaxMishaps /\ helper # None
  /\ mishaps' = mishaps + 1
  /\ fresh' = FALSE
  /\ helper' \in {helper, None}
  /\ UNCHANGED <<origin, releases, plist, loaded, file, step, taken, chosen>>

\* The user edits the approvals while the update runs.
Reapproves ==
  /\ step \in Command /\ mishaps < MaxMishaps
  /\ mishaps' = mishaps + 1
  /\ changed' = TRUE
  /\ UNCHANGED <<origin, releases, machine, step, code, live, target, defaults,
                 blind, waived, chosen>>

Release ==
  /\ origin < MaxVersion
  /\ origin' = origin + 1
  /\ UNCHANGED <<releases, machine, step, taken, mishaps, chosen>>

Runs ==
  \/ Pull \/ Sync \/ Upgrade \/ Add \/ Validate
  \/ Write \/ Bootout \/ Bootstrap \/ Kickstart \/ Status \/ Compare

UpdateNext ==
  \/ Begin \/ Breaks \/ Runs \/ BootoutIgnored
  \/ Launch \/ HelperBeats \/ HelperFails \/ Reapproves \/ Release

UpdateSpec == UpdateInit /\ [][UpdateNext]_updateVars

\* An update goes on, the user runs it again while it has not brought the
\* last release, and launchd and the helper do their part.
UpdateFairness ==
  /\ WF_updateVars(Runs) /\ WF_updateVars(Begin /\ Behind)
  /\ WF_updateVars(Launch) /\ WF_updateVars(HelperBeats)

FairUpdateSpec == UpdateSpec /\ UpdateFairness

-----------------------------------------------------------------------------

\* Nothing that the user's helper may serve is lost by updates, failed and
\* repeated ones included, unless one of them wrote the agent without a helper
\* to ask, or replaced the old default by exported roots that do not cover it
\* (codex_update.py:253-270).
RootsKept ==
  ~waived =>
    /\ chosen \subseteq plist
    /\ loaded # None => chosen \subseteq loaded.roots
    /\ helper # None => chosen \subseteq helper.roots

\* A helper on the old pair loses nothing that it allowed, and gains the new
\* default root: so says codex_update.py:260-266.  That is not so in a shell
\* that exports CODE_QUORUM_HELPER_ALLOWED_ROOTS.
LegacyKept ==
  [][step = "write" /\ step' = "bootout" /\ IsLegacy(live) => live \subseteq plist']_updateVars

\* Not so either once an update begins while the helper is down, its
\* helper.json stale or of another protocol: after one that failed at the
\* restart of the helper, or between a pull that raised the protocol and that
\* restart.  It installs the default roots.
ChosenStay == chosen \subseteq plist

\* An update that reports success leaves one release: the checkout, its
\* environment, the plugin and the agent are those it read, and so is the
\* helper when launchd runs one.  A release, an interrupt and a crash at any
\* command notwithstanding (codex_update.py:301-312, 332-365).
DoneIsWhole ==
  step = "done" =>
    /\ {tree, venv, plugin} = {target} /\ ~changed
    /\ loaded = [roots |-> plist]
    /\ helper # None => helper = [version |-> target, roots |-> plist]

\* Whatever failed half way, an update that is run again gets there: checkout,
\* environment, plugin and helper are of the last release (README.md:324-328).
Current ==
  /\ {tree, venv, plugin} = {origin}
  /\ helper # None /\ helper.version = origin

CatchesUp == <>[]Current
=============================================================================
