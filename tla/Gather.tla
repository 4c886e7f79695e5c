------------------------------- MODULE Gather -------------------------------
(***************************************************************************)
(* The context of a council (resolve of src/quorum/context.py): asyncio's  *)
(* gather waits for a task that asks git and one that asks gh.  The caller *)
(* may be cancelled more than once, the first of the two that ends with    *)
(* CancelledError ends the wait, and at the end of the program the loop    *)
(* cancels what is left.  What the commands answer is wording here, but    *)
(* for what decides which command follows.                                 *)
(***************************************************************************)
EXTENDS Commands

CONSTANTS
  Mentions,   \* files the prompt names, of which at most 3 are looked up
  MaxCancels  \* bound: requests to cancel the caller

ASSUME GatherAssumption ==
  /\ Task = {"git", "gh"}
  /\ Mentions \in 0 .. 3
  /\ MaxCancels \in Nat

VARIABLES
  command,   \* the command a task is at, "end" when there is none
  logs,      \* files whose log was read
  top,       \* how resolve ended, or that it waits
  topAsked,  \* it was asked to cancel
  cancels,   \* requests so far
  closing    \* the loop is shutting down

vars == <<runVars, command, logs, top, topAsked, cancels, closing>>

Command == {"gitdir", "branch", "status", "log", "prs", "end"}

TypeOK ==
  /\ RunTypeOK
  /\ command \in [Task -> Command]
  /\ logs \in 0 .. Mentions
  /\ top \in {"waiting"} \cup Over
  /\ topAsked \in BOOLEAN
  /\ cancels \in 0 .. MaxCancels
  /\ closing \in BOOLEAN

Init ==
  /\ RunInit
  /\ command = [t \in Task |-> IF t = "git" THEN "gitdir" ELSE "prs"]
  /\ logs = 0
  /\ top = "waiting"
  /\ topAsked = FALSE
  /\ cancels = 0
  /\ closing = FALSE

-----------------------------------------------------------------------------

topVars == <<top, topAsked, cancels, closing>>

\* What may follow command c: git's answers decide whether there is a
\* repository, and whether the logs read so far reach the limit of commits.
Follows(c, ok) ==
  CASE c = "gitdir" -> IF ok THEN {"branch", "end"} ELSE {"end"}
    [] c = "branch" -> {"status"}
    [] c = "status" -> IF Mentions > 0 THEN {"log"} ELSE {"end"}
    [] c = "log" -> (IF logs < Mentions THEN {"log"} ELSE {})
                      \cup (IF ok \/ logs = Mentions THEN {"end"} ELSE {})
    [] OTHER -> {"end"}

To(c) == IF c = "end" THEN "returned" ELSE "spawning"

\* Task t goes on to command c.
Turns(t, c) ==
  /\ command' = [command EXCEPT ![t] = c]
  /\ logs' = IF c = "log" THEN logs + 1 ELSE logs
  /\ UNCHANGED topVars

\* A tool that is not installed, or nothing to ask it, ends a task at once.
Starts(t) ==
  \E c \in {command[t], "end"} : Begin(t, To(c)) /\ Turns(t, c)

Goes(t) ==
  \E c \in Command :
    /\ \/ c \in Follows(command[t], FALSE) /\ (SpawnFails(t, To(c)) \/ ReapOver(t, To(c)))
       \/ c \in Follows(command[t], child[t] = "ok") /\ Answered(t, To(c))
    /\ IF step'[t] = "cancelled" THEN UNCHANGED <<command, logs, topVars>> ELSE Turns(t, c)

Inner(t) ==
  /\ \/ BeginCut(t) \/ Spawned(t) \/ SpawnCut(t) \/ TimesOut(t) \/ Cut(t)
     \/ Reaped(t) \/ ReapGivesUp(t) \/ ReapCut(t)
  /\ UNCHANGED <<command, logs, topVars>>

World(t) ==
  /\ Dies(t) \/ \E c \in {"ok", "bad"} : Exits(t, c)
  /\ UNCHANGED <<command, logs, topVars>>

\* gather's future is done when both tasks are over, or one was cancelled.
Done == (\A t \in Task : step[t] \in Over) \/ \E t \in Task : step[t] = "cancelled"

\* resolve is asked to cancel; gather passes it on while it is not done.
CancelTop ==
  /\ top = "waiting"
  /\ cancels < MaxCancels
  /\ cancels' = cancels + 1
  /\ topAsked' = TRUE
  /\ IF Done THEN UNCHANGED <<flag, asked>> ELSE AskToCancel(Task)
  /\ UNCHANGED <<step, child, reaper, caught, command, logs, top, closing>>

\* resolve goes on.  The loop wakes in order: the tasks met their
\* cancellation before the one of them that ended woke resolve.
Resume ==
  /\ top = "waiting"
  /\ Done
  /\ \A t \in Task : ~flag[t]
  /\ top' = IF topAsked \/ \E t \in Task : step[t] = "cancelled"
            THEN "cancelled" ELSE "returned"
  /\ UNCHANGED <<runVars, command, logs, topAsked, cancels, closing>>

\* The end of asyncio.run: every task left is cancelled, the reapers too.
Shutdown ==
  /\ top # "waiting"
  /\ ~closing
  /\ closing' = TRUE
  /\ AskToCancel(Task)
  /\ reaper' = [t \in Task |-> IF reaper[t] = "waiting" THEN "done" ELSE reaper[t]]
  /\ UNCHANGED <<step, child, caught, command, logs, top, topAsked, cancels>>

\* Nothing is left to happen.
Rests ==
  /\ closing
  /\ \A t \in Task : step[t] \in Over /\ child[t] # "killed"
  /\ UNCHANGED vars

Moves(t) == Starts(t) \/ Goes(t) \/ Inner(t)

Next ==
  \/ \E t \in Task : Moves(t) \/ World(t)
  \/ CancelTop \/ Resume \/ Shutdown \/ Rests

Spec == Init /\ [][Next]_vars

\* The loop runs what is ready and its timers fire.  Nothing is assumed of
\* the processes: git may hang, and a killed one may be slow to die.
Fairness == WF_vars(Resume) /\ \A t \in Task : WF_vars(Moves(t))

FairSpec == Spec /\ Fairness

-----------------------------------------------------------------------------

\* A cancellation is never lost: not the one that meets a task while it
\* handles a timeout or another cancellation, not the one that comes when the
\* answers are in (context.py:127-131, 150-153).
CancelKept ==
  /\ \A t \in Task : asked[t] => step[t] # "returned"
  /\ topAsked => top # "returned"

\* No command outlives its task unkilled, no reaper is left dangling, and
\* when the caller goes on no command runs, though a task may still be
\* reaping (context.py:122-131).
NothingRunsOn ==
  /\ \A t \in Task : step[t] \in Over => reaper[t] # "waiting" /\ child[t] # "running"
  /\ top # "waiting" => \A t \in Task : child[t] # "running"

\* Gathering ends, whatever git and gh do and however it is cancelled
\* (context.py:129-130, 156).
GatherEnds == <>(top # "waiting" /\ \A t \in Task : step[t] \in Over)
=============================================================================
