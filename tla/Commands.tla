------------------------------ MODULE Commands ------------------------------
(***************************************************************************)
(* The runner of git and gh commands (src/quorum/context.py): tasks of one *)
(* event loop that run their commands one after the other, each under a    *)
(* timeout, and that may be cancelled at every await, more than once.      *)
(*                                                                         *)
(* step[t] is the await task t stands at, child[t] the process of its      *)
(* command.  A cancellation sets flag[t], and the task meets it at its     *)
(* await: between two awaits nothing else runs.  Which command follows is  *)
(* up to the module that extends this one: it passes the step to go to.    *)
(***************************************************************************)
EXTENDS Naturals

CONSTANT Task

VARIABLES
  step,    \* the await of a task, or how it ended
  child,   \* the process of its command
  reaper,  \* the task of _kill_and_reap that waits for the exit
  flag,    \* a cancellation was requested and not met yet
  caught,  \* the kill in progress will end with CancelledError
  asked    \* the task was ever asked to cancel

runVars == <<step, child, reaper, flag, caught, asked>>

Over == {"returned", "cancelled"}
Step == {"new", "spawning", "talking", "reaping"} \cup Over
Child == {"none", "running", "ok", "bad", "killed", "dead"}
Gone == {"ok", "bad", "dead"}

RunTypeOK ==
  /\ step \in [Task -> Step]
  /\ child \in [Task -> Child]
  /\ reaper \in [Task -> {"none", "waiting", "done"}]
  /\ flag \in [Task -> BOOLEAN]
  /\ caught \in [Task -> BOOLEAN]
  /\ asked \in [Task -> BOOLEAN]

RunInit ==
  /\ step = [t \in Task |-> "new"]
  /\ child = [t \in Task |-> "none"]
  /\ reaper = [t \in Task |-> "none"]
  /\ flag = [t \in Task |-> FALSE]
  /\ caught = [t \in Task |-> FALSE]
  /\ asked = [t \in Task |-> FALSE]

-----------------------------------------------------------------------------

\* The task goes on without a cancellation to meet.
Free(t, at) == step[t] = at /\ ~flag[t]

\* The task meets its cancellation.
Meets(t, at) ==
  /\ step[t] = at
  /\ flag[t]
  /\ flag' = [flag EXCEPT ![t] = FALSE]
  /\ UNCHANGED asked

\* A command is over, its process forgotten, and the task goes on.
GoesOn(t, to) ==
  /\ step' = [step EXCEPT ![t] = to]
  /\ child' = [child EXCEPT ![t] = "none"]
  /\ UNCHANGED <<flag, asked>>

Begin(t, to) ==
  /\ Free(t, "new")
  /\ GoesOn(t, to)
  /\ UNCHANGED <<reaper, caught>>

\* A task cancelled before its first step never runs.
BeginCut(t) ==
  /\ Meets(t, "new")
  /\ step' = [step EXCEPT ![t] = "cancelled"]
  /\ UNCHANGED <<child, reaper, caught>>

\* The tool is missing, or the process cannot be made.
SpawnFails(t, to) ==
  /\ Free(t, "spawning")
  /\ GoesOn(t, to)
  /\ UNCHANGED <<reaper, caught>>

Spawned(t) ==
  /\ Free(t, "spawning")
  /\ step' = [step EXCEPT ![t] = "talking"]
  /\ child' = [child EXCEPT ![t] = "running"]
  /\ UNCHANGED <<reaper, flag, caught, asked>>

\* asyncio itself closes the transport of a spawn that is cut short, which
\* kills the process.
SpawnCut(t) ==
  /\ Meets(t, "spawning")
  /\ step' = [step EXCEPT ![t] = "cancelled"]
  /\ \E c \in {"none", "killed"} : child' = [child EXCEPT ![t] = c]
  /\ UNCHANGED <<reaper, caught>>

\* The process exits on its own, with code 0 or another.
Exits(t, c) ==
  /\ child[t] = "running"
  /\ child' = [child EXCEPT ![t] = c]
  /\ UNCHANGED <<step, reaper, flag, caught, asked>>

\* A killed process dies when the kernel lets it.
Dies(t) ==
  /\ child[t] = "killed"
  /\ child' = [child EXCEPT ![t] = "dead"]
  /\ UNCHANGED <<step, reaper, flag, caught, asked>>

\* communicate() returns, and the code tells an empty answer from a failure.
Answered(t, to) ==
  /\ Free(t, "talking")
  /\ child[t] \in {"ok", "bad"}
  /\ GoesOn(t, to)
  /\ UNCHANGED <<reaper, caught>>

\* The start of _kill_and_reap, for a timeout or for a cancellation.
KillsAndReaps(t, cut) ==
  /\ step' = [step EXCEPT ![t] = "reaping"]
  /\ child' = [child EXCEPT ![t] = IF @ = "running" THEN "killed" ELSE @]
  /\ reaper' = [reaper EXCEPT ![t] = "waiting"]
  /\ caught' = [caught EXCEPT ![t] = cut]

TimesOut(t) ==
  /\ Free(t, "talking")
  /\ KillsAndReaps(t, FALSE)
  /\ UNCHANGED <<flag, asked>>

Cut(t) ==
  /\ Meets(t, "talking")
  /\ KillsAndReaps(t, TRUE)

Reaped(t) ==
  /\ reaper[t] = "waiting"
  /\ child[t] \in Gone
  /\ reaper' = [reaper EXCEPT ![t] = "done"]
  /\ UNCHANGED <<step, child, flag, caught, asked>>

\* Mutant of ReapGivesUp: the reaper waits for the exit without a limit.
ReapWaitsOn(t) == FALSE

\* The reaper waits two seconds and no longer.
ReapGivesUp(t) ==
  /\ reaper[t] = "waiting"
  /\ child[t] = "killed"
  /\ reaper' = [reaper EXCEPT ![t] = "done"]
  /\ UNCHANGED <<step, child, flag, caught, asked>>

\* Mutants of ReapCut: the cancellation is swallowed; the shield is awaited
\* once, which leaves the reaper behind.
ReapCutForgets(t) ==
  /\ Meets(t, "reaping")
  /\ UNCHANGED <<step, child, reaper, caught>>

ReapCutLeaves(t) ==
  /\ Meets(t, "reaping")
  /\ step' = [step EXCEPT ![t] = "cancelled"]
  /\ UNCHANGED <<child, reaper, caught>>

\* The shield keeps one cancellation from the reaper; the loop waits on.
ReapCut(t) ==
  /\ Meets(t, "reaping")
  /\ caught' = [caught EXCEPT ![t] = TRUE]
  /\ UNCHANGED <<step, child, reaper>>

ReapOver(t, to) ==
  /\ Free(t, "reaping")
  /\ reaper[t] = "done"
  /\ GoesOn(t, IF caught[t] THEN "cancelled" ELSE to)
  /\ reaper' = [reaper EXCEPT ![t] = "none"]
  /\ caught' = [caught EXCEPT ![t] = FALSE]

\* The tasks of set S are asked to cancel, those that are over excepted.
AskToCancel(S) ==
  LET live == {t \in S : step[t] \notin Over} IN
  /\ flag' = [t \in Task |-> flag[t] \/ t \in live]
  /\ asked' = [t \in Task |-> asked[t] \/ t \in live]
=============================================================================
