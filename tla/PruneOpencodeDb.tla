-------------------------- MODULE PruneOpencodeDb --------------------------
(***************************************************************************)
(* The pruning of OpenCode's session database by a hook at the start of a  *)
(* host session (src/scripts/prune_opencode_db.py), beside the processes   *)
(* that write the database.  Sessions are numbered in the order of their   *)
(* time_created.  An opencode process other than that of the run that is   *)
(* observed only matters through its sessions: where it makes the hook     *)
(* give up, the hook might as well not have started.                       *)
(***************************************************************************)
EXTENDS Integers, FiniteSets

CONSTANTS
  Pruner,        \* hooks that may run at the same time
  Keep,          \* KEEP_RECENT_SESSIONS
  MaxSessions    \* bound: others begin none when there are so many

ASSUME PruneAssumption == Keep \in Nat /\ MaxSessions \in Nat

VARIABLES
  created,    \* how many sessions were created
  council,    \* those of the agent "council"
  stored,     \* those in the database
  pruner,     \* where each hook stands
  doomed      \* what it has selected

pruneVars == <<created, council, stored, pruner, doomed>>

PruneTypeOK ==
  /\ created \in Nat
  /\ council \subseteq 1 .. created
  /\ stored \subseteq 1 .. created
  /\ pruner \in [Pruner -> {"idle", "cleared", "selected"}]
  /\ doomed \in [Pruner -> SUBSET (1 .. created)]

PruneInit ==
  /\ created = 0 /\ council = {} /\ stored = {}
  /\ pruner = [p \in Pruner |-> "idle"]
  /\ doomed = [p \in Pruner |-> {}]

-----------------------------------------------------------------------------
(* The rows the hook reads *)

Newer(s, S) == {t \in S : t > s}

\* session_costs: the council's sessions.
Costs == council \cap stored

\* All but the newest, which are the tail of the list.  (Slip: the head of it
\* is spared.)
EligibleHead(S) == {s \in S : Cardinality({t \in S : t < s}) >= Keep}
Eligible(S) == {s \in S : Cardinality(Newer(s, S)) >= Keep}

\* The oldest ones until enough is freed, however much that takes.
Oldest(S) == {D \in SUBSET S : D # {} /\ \A d \in D, s \in S \ D : d < s}

-----------------------------------------------------------------------------
(* Processes that use the database *)

\* A session of opencode begins; a is who runs it.
SessionOf(isCouncil) ==
  /\ created' = created + 1
  /\ stored' = stored \cup {created + 1}
  /\ council' = IF isCouncil THEN council \cup {created + 1} ELSE council

OtherSession ==
  /\ created < MaxSessions
  /\ \E isCouncil \in BOOLEAN : SessionOf(isCouncil)
  /\ UNCHANGED <<pruner, doomed>>

-----------------------------------------------------------------------------
(* The hook *)

At(p, from, to) == pruner[p] = from /\ pruner' = [pruner EXCEPT ![p] = to]

\* The database is over its cap, and no opencode runs.
PruneChecks(p, running) ==
  /\ At(p, "idle", "cleared") /\ ~running
  /\ UNCHANGED <<created, council, stored, doomed>>

\* It reads the sessions and selects.
PruneSelects(p) ==
  /\ At(p, "cleared", "selected")
  /\ \E D \in Oldest(Eligible(Costs)) : doomed' = [doomed EXCEPT ![p] = D]
  /\ UNCHANGED <<created, council, stored>>

\* One transaction: events, sequences, sessions with what cascades from them.
\* The VACUUM after it may be refused; that only costs space.
PruneDeletes(p) ==
  /\ At(p, "selected", "idle")
  /\ stored' = stored \ doomed[p]
  /\ doomed' = [doomed EXCEPT ![p] = {}]
  /\ UNCHANGED <<created, council>>

\* Nothing to select, or a locked database.
PruneEnds(p) ==
  /\ \E from \in {"cleared", "selected"} : At(p, from, "idle")
  /\ doomed' = [doomed EXCEPT ![p] = {}]
  /\ UNCHANGED <<created, council, stored>>

Prune(p, running) ==
  PruneChecks(p, running) \/ PruneSelects(p) \/ PruneDeletes(p) \/ PruneEnds(p)
=============================================================================
