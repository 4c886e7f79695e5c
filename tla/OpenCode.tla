------------------------------ MODULE OpenCode ------------------------------
(***************************************************************************)
(* One run of the OpenCode seat (OpenCodeAgent.run,                        *)
(* src/quorum/agents/opencode.py) with its relay, on a machine where other *)
(* runs rebuild the same sandbox home, other processes write the same      *)
(* database, and hooks prune it.                                           *)
(*                                                                         *)
(* A step ends at an await, and only there can the run be cancelled.  The  *)
(* rebuilding of the home has no await, but runs in other processes        *)
(* interleave with each of its file operations.  A text is 0 for none, 1   *)
(* for a stub of the answer and 2 for all of it.  What Containment models  *)
(* is one step here: when it leaves, the opencode process is dead.         *)
(***************************************************************************)
EXTENDS OpenRouterRelay, PruneOpencodeDb

CONSTANTS
  MaxCancels,    \* bound: the cancellations delivered to the run
  MaxRebuilds    \* bound: the rebuilds by other runs

ASSUME OpenCodeAssumption == MaxCancels \in Nat /\ MaxRebuilds \in Nat

VARIABLES
  step,       \* the await the run stands at, or the file operation it is in
  attempt,    \* the attempts begun
  session,    \* the session of the last one
  said,       \* what its opencode wrote to stdout
  wrote,      \* what it wrote to the database
  exit,       \* how it ended
  read,       \* what came of reading the database
  result,     \* the AgentResult of the last attempt
  ending,     \* how run() is left
  cancels,    \* cancellations so far
  reported,   \* the requests the summary counted
  home,       \* the configuration in the sandbox home
  other,      \* the next file operation of another run's rebuild
  rebuilds    \* how many there were

runVars  == <<step, attempt, session, said, wrote, exit, read, result, ending, cancels,
              reported>>
homeVars == <<home, other, rebuilds>>
vars     == <<relayVars, pruneVars, runVars, homeVars>>

Text == 0 .. 2
IdleRC == 124   \* OPENCODE_IDLE_TIMEOUT_RC
EmptyRC == 125  \* OPENCODE_NO_OUTPUT_RC
Result == [rc : {0, 1, 2, 127, IdleRC, EmptyRC}, text : Text]
NoResult == [rc |-> 2, text |-> 0]
Attempts == 2   \* 1 + OPENCODE_EMPTY_OUTPUT_RETRIES

TypeOK ==
  /\ RelayTypeOK /\ PruneTypeOK
  /\ step \in {"key", "starting", "home", "agent", "pins", "npm", "spawning", "running",
               "recovering", "capturing", "leaving", "stopping", "over"}
  /\ attempt \in 0 .. Attempts /\ session \in 0 .. created
  /\ said \in Text /\ wrote \in Text
  /\ exit \in {"none", "clean", "error", "idle"}
  /\ read \in {"none", "done", "failed"}
  /\ result \in Result
  /\ ending \in {"none", "returned", "raised"}
  /\ cancels \in 0 .. MaxCancels
  /\ reported \subseteq Conn
  /\ home \in {"empty", "agent", "whole"}
  /\ other \in {"idle", "agent", "pins"}
  /\ rebuilds \in 0 .. MaxRebuilds

\* The home may be left from an older version, or from a process that was
\* killed while it wrote it.
Init ==
  /\ RelayInit /\ PruneInit
  /\ step = "key" /\ attempt = 0 /\ session = 0 /\ said = 0 /\ wrote = 0
  /\ exit = "none" /\ read = "none" /\ result = NoResult /\ ending = "none"
  /\ cancels = 0 /\ reported = {}
  /\ home \in {"empty", "agent", "whole"} /\ other = "idle" /\ rebuilds = 0

Goes(from, to) == step = from /\ step' = to
\* What the steps of the run before its first attempt leave alone.
Unasked == UNCHANGED <<pruneVars, attempt, session, said, wrote, exit, read, result,
                       cancels, reported>>

-----------------------------------------------------------------------------
(* Leaving run(): the finally block stops the relay *)

Leave ==
  IF life = "serving"
  THEN step' = "stopping" /\ Stop
  ELSE step' = "over" /\ UNCHANGED relayVars
EndsAs(how) == ending' = IF ending = "none" THEN how ELSE ending

Leaves ==
  /\ step = "leaving" /\ Leave
  /\ UNCHANGED <<pruneVars, homeVars, attempt, session, said, wrote, exit, read, result,
                 ending, cancels, reported>>

RelayStops ==
  /\ step = "stopping" /\ (WaitEnds \/ WaitTimesOut \/ GatherEnds)
  /\ UNCHANGED <<pruneVars, runVars, homeVars>>

\* stop() returns, and _report_served reads the summary.
Reports ==
  /\ Goes("stopping", "over") /\ CloseEnds
  /\ reported' = turns
  /\ UNCHANGED <<pruneVars, homeVars, attempt, session, said, wrote, exit, read,
                 result, ending, cancels>>

-----------------------------------------------------------------------------
(* Up to the first attempt *)

NoKey ==
  /\ Goes("key", "over") /\ ending' = "returned"
  /\ UNCHANGED <<relayVars, homeVars>> /\ Unasked

\* A relay for an OpenRouter model, unless it is switched off.
StartsRelay ==
  /\ Goes("key", "starting") /\ Bind
  /\ UNCHANGED <<homeVars, ending>> /\ Unasked

\* Otherwise, and when it cannot bind, the run goes direct.
GoesDirect ==
  /\ Goes("key", "home")
  /\ UNCHANGED <<relayVars, homeVars, ending>> /\ Unasked

RelayStarts ==
  /\ Goes("starting", "home") /\ Started
  /\ UNCHANGED <<homeVars, ending>> /\ Unasked

\* _ensure_sandbox_home removes what there is.  If another run is at it, too,
\* that may fail.  (Slip: a home that is there is taken as it is.)
WipesMissing ==
  /\ UNCHANGED <<relayVars, other, rebuilds, ending, home>> /\ Unasked
  /\ IF home = "empty" THEN Goes("home", "agent") ELSE Goes("home", "npm")
Wipes ==
  /\ UNCHANGED <<relayVars, other, rebuilds>> /\ Unasked
  /\ \/ Goes("home", "agent") /\ home' = "empty" /\ UNCHANGED ending
     \/ other # "idle" /\ Goes("home", "leaving") /\ EndsAs("raised") /\ UNCHANGED home

\* The directory is made, and may be wiped by another run before the file is
\* written.
WithAgent == IF home = "empty" THEN "agent" ELSE home
WritesAgent ==
  /\ UNCHANGED <<relayVars, other, rebuilds>> /\ Unasked
  /\ \/ Goes("agent", "pins") /\ home' = WithAgent /\ UNCHANGED ending
     \/ other = "agent" /\ Goes("agent", "leaving") /\ EndsAs("raised") /\ UNCHANGED home

\* The directory may be gone again; that raises.
WritesPins ==
  /\ UNCHANGED <<relayVars, other, rebuilds>> /\ Unasked
  /\ IF home = "empty"
     THEN Goes("pins", "leaving") /\ EndsAs("raised") /\ UNCHANGED home
     ELSE Goes("pins", "npm") /\ home' = "whole" /\ UNCHANGED ending

\* The npm cache is measured, and verified if it has grown; a failure is logged.
PrunesNpm ==
  /\ Goes("npm", "spawning")
  /\ UNCHANGED <<relayVars, homeVars, ending>> /\ Unasked

-----------------------------------------------------------------------------
(* An attempt *)

\* opencode starts: it reads the configuration and begins a session.
Spawns ==
  /\ Goes("spawning", "running")
  /\ SessionOf(TRUE)
  /\ attempt' = attempt + 1 /\ session' = created + 1
  /\ caller' = TRUE
  /\ UNCHANGED <<life, listening, client, conn, turns, served, waited, late, cancelled,
                 pruner, doomed, said, wrote, exit, read, result, ending, cancels, reported,
                 home, other, rebuilds>>

\* The binary is missing; any other OSError of the spawn is not caught.
NotInstalled ==
  /\ Goes("spawning", "leaving")
  /\ attempt' = attempt + 1
  /\ \/ result' = [rc |-> 127, text |-> 0] /\ EndsAs("returned")
     \/ EndsAs("raised") /\ UNCHANGED result
  /\ UNCHANGED <<relayVars, pruneVars, homeVars, session, said, wrote, exit, read,
                 cancels, reported>>

\* opencode is gone; t is what stdout brought, w what the database has.
Gone(how, t, w) ==
  /\ step = "running"
  /\ caller' = FALSE /\ exit' = how /\ said' = t /\ wrote' = w
  /\ UNCHANGED <<life, listening, client, conn, turns, served, waited, late, cancelled,
                 pruneVars, homeVars, attempt, session, read, ending, cancels, reported>>

\* It exits without an error event.  The database has all of the answer or
\* none; stdout may lack part of it.
ExitsClean(t, w) ==
  /\ Gone("clean", t, w)
  /\ step' = "recovering" /\ UNCHANGED result

\* An error event, whatever the code, or a code of its own.  What there is of
\* an answer goes with the error; it is left out.
ExitsInError ==
  /\ Gone("error", 0, 0)
  /\ step' = "capturing" /\ result' = [rc |-> 1, text |-> 0]

\* No output for OPENCODE_IDLE_TIMEOUT_S: the group is torn down.
Stalls ==
  /\ Gone("idle", 0, 0)
  /\ step' = "capturing" /\ result' = [rc |-> IdleRC, text |-> 0]

\* The longer text wins.  (Slip: only if stdout had nothing.)
LongerIfEmpty(t, w) == IF t = 0 THEN w ELSE t
Longer(t, w) == IF w > t THEN w ELSE t
OfText(t) == [rc |-> IF t = 0 THEN EmptyRC ELSE 0, text |-> t]

\* _recover_text_from_db: the session is known by an event on stdout, the
\* database can be read, and the session is in it.
Recovers(readable) ==
  /\ Goes("recovering", "capturing")
  /\ read' = IF readable THEN "done" ELSE "failed"
  /\ result' = OfText(IF readable /\ session \in stored THEN Longer(said, wrote) ELSE said)
  /\ UNCHANGED <<relayVars, pruneVars, homeVars, attempt, session, said, wrote, exit,
                 ending, cancels, reported>>

\* The raw streams of a failed attempt are written to a file, and _attempt
\* returns.  An empty answer is asked for again.
Captures ==
  /\ step = "capturing"
  /\ IF result.rc = EmptyRC /\ attempt < Attempts
     THEN step' = "spawning" /\ UNCHANGED ending
     ELSE step' = "leaving" /\ EndsAs("returned")
  /\ said' = 0 /\ wrote' = 0 /\ exit' = "none" /\ read' = "none"
  /\ UNCHANGED <<relayVars, pruneVars, homeVars, attempt, session, result, cancels,
                 reported>>

-----------------------------------------------------------------------------
(* Cancellations, and the machine around the run *)

\* The council's timeout, or a job that is cancelled.  The relay is stopped,
\* unless it is still starting, or this interrupts its stop().
Cancel ==
  /\ cancels < MaxCancels
  /\ cancels' = cancels + 1
  /\ EndsAs("raised")
  /\ \/ /\ step \in {"key", "npm", "spawning", "recovering", "capturing"}
        /\ step' = "leaving" /\ UNCHANGED relayVars
     \/ /\ Goes("running", "leaving") /\ caller' = FALSE
        /\ UNCHANGED <<life, listening, client, conn, turns, served, waited, late, cancelled>>
     \/ Goes("starting", "over") /\ StartCancelled
     \/ Goes("stopping", "over") /\ StopCancelled
  /\ said' = 0 /\ wrote' = 0 /\ exit' = "none" /\ read' = "none"
  /\ UNCHANGED <<pruneVars, homeVars, attempt, session, result, reported>>

\* The timeout of the council is one such cancellation, and it comes.
HardTimeout == cancels = 0 /\ Cancel

\* Bounds: other processes are followed as long as the run may see what they
\* do: to the home until an opencode has read it, to the database until the
\* run has its answer.
Preparing == step \in {"key", "starting", "home", "agent", "pins", "npm", "spawning"}
Asking == Preparing \/ step \in {"running", "recovering", "capturing"}

\* Another run rebuilds the home.
OtherWipes ==
  /\ other = "idle" /\ rebuilds < MaxRebuilds
  /\ other' = "agent" /\ home' = "empty" /\ rebuilds' = rebuilds + 1
OtherWritesAgent ==
  /\ other = "agent" /\ UNCHANGED rebuilds
  /\ \/ other' = "pins" /\ home' = WithAgent
     \/ step = "agent" /\ other' = "idle" /\ UNCHANGED home
OtherWritesPins ==
  /\ other = "pins"
  /\ other' = "idle" /\ home' = IF home = "empty" THEN home ELSE "whole"
  /\ UNCHANGED rebuilds
OtherRun ==
  /\ Preparing
  /\ OtherWipes \/ OtherWritesAgent \/ OtherWritesPins
  /\ UNCHANGED <<relayVars, pruneVars, runVars>>

\* Bound: several connections, or other processes, but not both: they only
\* share that opencode is alive.
Connections == Cardinality({c \in Conn : conn[c] # "new"})
Undisturbed ==
  /\ rebuilds = 0 /\ created = attempt /\ stored = 1 .. created
  /\ \A p \in Pruner : pruner[p] = "idle"

Relaying == \E c \in Conn :
  \/ Connect(c) /\ (Connections = 0 \/ Undisturbed)
  \/ Handler(c)

Run ==
  \/ NoKey \/ StartsRelay \/ GoesDirect \/ RelayStarts
  \/ Wipes \/ WritesAgent \/ WritesPins \/ PrunesNpm
  \/ Spawns \/ NotInstalled
  \/ \E t \in Text, w \in {0, 2} : ExitsClean(t, w)
  \/ ExitsInError \/ Stalls
  \/ \E readable \in BOOLEAN : Recovers(readable)
  \/ Captures \/ Leaves \/ RelayStops \/ Reports

Next ==
  \/ Run \/ Cancel
  \/ Connections <= 1 /\ OtherRun
  \/ Relaying /\ UNCHANGED <<pruneVars, runVars, homeVars>>
  \/ /\ \/ \E p \in Pruner : Prune(p, caller)
        \/ OtherSession
     /\ Asking /\ Connections <= 1
     /\ UNCHANGED <<relayVars, runVars, homeVars>>

Spec == Init /\ [][Next]_vars

\* What happens to a connection without the upstream's help.
Settles(c) ==
  \/ Register(c) \/ Unwinds(c) \/ Flushed(c)
  \/ ~caller /\ (HangsUp(c) \/ Forward(c))
  \/ client = "closed" /\ Fails(c)

\* The loop serves what is ready, the timeouts fire, file operations end.
\* opencode, npm and the upstream may never answer.
Fairness ==
  /\ WF_vars(HardTimeout)
  /\ WF_vars(Leaves \/ RelayStops \/ Reports)
  /\ WF_vars(RelayStarts \/ Wipes \/ WritesAgent \/ WritesPins)
  /\ \A c \in Conn : WF_vars(Settles(c) /\ UNCHANGED <<pruneVars, runVars, homeVars>>)
FairSpec == Spec /\ Fairness

-----------------------------------------------------------------------------
(* Properties *)

\* The summary a run reads when stop() returned has every request whose
\* handler was there when stop() began and that a backend served
\* (openrouter_relay.py:231-233), those that it cut off included.
Audited ==
  life = "stopped" =>
    served \ late \subseteq reported

\* The user's sessions, and the newest of the council's, are never pruned
\* (prune_opencode_db.py:65-70), however many hooks work on stale listings.
PruneSpares ==
  \A s \in 1 .. created :
    s \notin stored => s \in council /\ Cardinality(Newer(s, council)) >= Keep

\* An answer that opencode wrote to its database is what the run returns,
\* though stdout lost it and a hook pruned between the end of the process and
\* the recovery (opencode.py:1064-1086), unless that many newer sessions
\* have begun since.
AnswerKept ==
  /\ exit = "clean" /\ read = "done"
  /\ Cardinality(Newer(session, council)) < Keep
  => result.text >= said /\ result.text >= wrote /\ (result.rc = 0) = (result.text # 0)

\* Each opencode starts with the whole configuration of the seat
\* (opencode.py:448-471), whatever a killed run left of it, or another run is
\* rebuilding it that very moment.
StartsConfigured ==
  [][step' = "running" /\ step # "running" => home = "whole" \/ other # "idle"]_vars

\* A run ends, and unless its start() or stop() was cancelled its relay leaves
\* nothing: no listener, no upstream client, no handler
\* (openrouter_relay.py:222-238), though the upstream never answers.
RunEnds ==
  <>[](/\ step = "over"
       /\ life # "abandoned" => ~listening /\ client # "open" /\ Tasks = {})

\* The relay listens for the life of one run (openrouter_relay.py:11,
\* SECURITY.md:138-139).  Not so for a run cancelled while the relay starts.
ListenerEndsWithRun == step = "over" => ~listening

\* Nothing else leaves it listening, and what does has no upstream client yet
\* (openrouter_relay.py:209-220).
OnlyStartLeaks == step = "over" /\ listening => life = "abandoned" /\ client = "none"
=============================================================================
