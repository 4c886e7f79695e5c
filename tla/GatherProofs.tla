---------------------------- MODULE GatherProofs ----------------------------
(***************************************************************************)
(* That no cancellation of the gathering is lost and no command runs on,   *)
(* for any number of files, of cancellations, and any order in which they  *)
(* meet timeouts, exits and each other.                                    *)
(***************************************************************************)
EXTENDS Gather, TLAPS

\* The runner's part: what each task owes to the cancellations it was asked
\* for, and which step its process and its reaper belong to.
Owes(t) ==
  /\ flag[t] \/ caught[t] \/ step[t] = "cancelled" => asked[t]
  /\ asked[t] => flag[t] \/ (step[t] = "reaping" /\ caught[t]) \/ step[t] = "cancelled"
  /\ step[t] \in Over => ~flag[t]

Holds(t) ==
  /\ child[t] = "running" => step[t] = "talking"
  /\ reaper[t] # "none" <=> step[t] = "reaping"

\* gather asks every task at once.
AllAsked == \A t, u \in Task : asked[t] => asked[u] \/ step[u] \in Over

\* When the caller goes on, each task is over or on its way out.
Leaving == top # "waiting" => \A t \in Task : step[t] \in Over \/ (step[t] = "reaping" /\ caught[t])

\* Where the script is, and that the logs read so far are those of its loop.
Script ==
  /\ command["gh"] \in {"prs", "end"}
  /\ command["git"] \in {"gitdir", "branch", "status"} => logs = 0
  /\ \A t \in Task : step[t] = "new" => command[t] # "log"

IInv ==
  /\ TypeOK
  /\ Script
  /\ \A t \in Task : Owes(t) /\ Holds(t)
  /\ AllAsked
  /\ Leaving
  /\ topAsked => top # "returned"

LEMMA InitIInv == Init => IInv
<1> SUFFICES ASSUME Init PROVE IInv
  OBVIOUS
<1>1. TypeOK
  <2>1. RunTypeOK
    BY DEF Init, RunInit, RunTypeOK, Step, Child
  <2>2. command \in [Task -> Command]
    BY DEF Init, Command
  <2>3. logs \in 0 .. Mentions /\ cancels \in 0 .. MaxCancels
    BY GatherAssumption DEF Init
  <2> QED BY <2>1, <2>2, <2>3 DEF Init, TypeOK
<1>2. Script
  BY GatherAssumption DEF Init, RunInit, Script
<1>3. (\A t \in Task : Owes(t) /\ Holds(t)) /\ AllAsked /\ Leaving /\ (topAsked => top # "returned")
  BY DEF Init, RunInit, Owes, Holds, AllAsked, Leaving, Over
<1> QED BY <1>1, <1>2, <1>3 DEF IInv

-----------------------------------------------------------------------------
(* Steps of a task *)

\* What any step of task t leaves to prove: the other tasks are as they were,
\* and the caller too.
Elsewhere(t) ==
  /\ \A u \in Task \ {t} :
       /\ step'[u] = step[u] /\ child'[u] = child[u] /\ reaper'[u] = reaper[u]
       /\ flag'[u] = flag[u] /\ caught'[u] = caught[u]
  /\ asked' = asked
  /\ UNCHANGED topVars

\* A step of t that keeps t in order keeps everything in order.
LEMMA LocalStep ==
  ASSUME IInv, TypeOK', Script', NEW t \in Task, Elsewhere(t), Owes(t)', Holds(t)',
         step[t] \in Over => step'[t] = step[t],
         step[t] = "reaping" /\ caught[t] => step'[t] = "cancelled" \/ (step'[t] = "reaping" /\ caught'[t])
  PROVE  IInv'
<1>1. \A u \in Task : Owes(u)' /\ Holds(u)'
  BY DEF IInv, Elsewhere, Owes, Holds
<1>2. AllAsked'
  BY DEF IInv, AllAsked, Elsewhere
<1>3. Leaving' /\ (topAsked => top # "returned")'
  BY DEF IInv, Leaving, Elsewhere, topVars, Over
<1> QED BY <1>1, <1>2, <1>3 DEF IInv

LEMMA InnerStep ==
  ASSUME IInv, NEW t \in Task, Inner(t)
  PROVE  IInv'
<1> USE DEF IInv, TypeOK, RunTypeOK, Owes, Holds, Step, Child, Over, Free, Meets, KillsAndReaps, Gone
<1>1. TypeOK' /\ Elsewhere(t)
  <2>1. CASE BeginCut(t) \/ Spawned(t)
    BY <2>1 DEF Inner, Elsewhere, topVars, BeginCut, Spawned
  <2>4. CASE SpawnCut(t)
    <3>1. PICK c \in {"none", "killed"} : child' = [child EXCEPT ![t] = c]
      BY <2>4 DEF SpawnCut
    <3>2. child' \in [Task -> Child] /\ \A u \in Task \ {t} : child'[u] = child[u]
      BY <3>1
    <3>3. step' \in [Task -> Step] /\ flag' \in [Task -> BOOLEAN]
      BY <2>4 DEF SpawnCut
    <3> QED BY <2>4, <3>2, <3>3 DEF Inner, Elsewhere, topVars, SpawnCut
  <2>2. CASE TimesOut(t) \/ Cut(t)
    <3>1. step' \in [Task -> Step] /\ \A u \in Task \ {t} : step'[u] = step[u]
      BY <2>2 DEF TimesOut, Cut
    <3>2. child' \in [Task -> Child] /\ \A u \in Task \ {t} : child'[u] = child[u]
      BY <2>2 DEF TimesOut, Cut
    <3>3. /\ reaper' \in [Task -> {"none", "waiting", "done"}]
          /\ \A u \in Task \ {t} : reaper'[u] = reaper[u]
      BY <2>2 DEF TimesOut, Cut
    <3>4. /\ flag' \in [Task -> BOOLEAN] /\ caught' \in [Task -> BOOLEAN] /\ asked' = asked
          /\ \A u \in Task \ {t} : flag'[u] = flag[u] /\ caught'[u] = caught[u]
      BY <2>2 DEF TimesOut, Cut
    <3> QED BY <3>1, <3>2, <3>3, <3>4 DEF Inner, Elsewhere, topVars
  <2>3. CASE Reaped(t)
    BY <2>3 DEF Inner, Elsewhere, topVars, Reaped
  <2>5. CASE ReapGivesUp(t)
    BY <2>5 DEF Inner, Elsewhere, topVars, ReapGivesUp
  <2>6. CASE ReapCut(t)
    BY <2>6 DEF Inner, Elsewhere, topVars, ReapCut
  <2> QED BY <2>1, <2>2, <2>3, <2>4, <2>5, <2>6 DEF Inner
<1>2. Owes(t)' /\ Holds(t)'
  BY DEF Inner, BeginCut, Spawned, SpawnCut, TimesOut, Cut, Reaped, ReapGivesUp, ReapCut
<1>3. /\ step[t] \in Over => step'[t] = step[t]
      /\ step[t] = "reaping" /\ caught[t] => step'[t] = "cancelled" \/ (step'[t] = "reaping" /\ caught'[t])
  BY DEF Inner, BeginCut, Spawned, SpawnCut, TimesOut, Cut, Reaped, ReapGivesUp, ReapCut
<1>4. Script'
  BY <1>2 DEF Script, Inner, World, BeginCut, Spawned, SpawnCut, TimesOut, Cut, Reaped, ReapGivesUp, ReapCut, Dies, Exits
<1> HIDE DEF IInv, TypeOK, Owes, Holds
<1> QED BY <1>1, <1>2, <1>3, <1>4, LocalStep

LEMMA WorldStep ==
  ASSUME IInv, NEW t \in Task, World(t)
  PROVE  IInv'
<1> USE DEF IInv, TypeOK, RunTypeOK, Owes, Holds, Step, Child, Over
<1>1. TypeOK' /\ Elsewhere(t)
  BY DEF World, Dies, Exits, Elsewhere, topVars
<1>2. Owes(t)' /\ Holds(t)'
  BY DEF World, Dies, Exits
<1>3. /\ step[t] \in Over => step'[t] = step[t]
      /\ step[t] = "reaping" /\ caught[t] => step'[t] = "cancelled" \/ (step'[t] = "reaping" /\ caught'[t])
  BY DEF World, Dies, Exits
<1>4. Script'
  BY <1>2 DEF Script, Inner, World, BeginCut, Spawned, SpawnCut, TimesOut, Cut, Reaped, ReapGivesUp, ReapCut, Dies, Exits
<1> HIDE DEF IInv, TypeOK, Owes, Holds
<1> QED BY <1>1, <1>2, <1>3, <1>4, LocalStep

LEMMA StartStep ==
  ASSUME IInv, NEW t \in Task, Starts(t)
  PROVE  IInv'
<1> PICK c \in {command[t], "end"} : Begin(t, To(c)) /\ Turns(t, c)
  BY DEF Starts
<1> USE DEF IInv, TypeOK, RunTypeOK, Owes, Holds, Step, Child, Over, Begin, Free, GoesOn, To, Turns
<1>1. c # "log" /\ c \in Command
  BY DEF Script, Command
<1>2. TypeOK' /\ Elsewhere(t)
  BY <1>1 DEF Elsewhere, topVars
<1>3. Script'
  BY <1>1, GatherAssumption DEF Script, Command
<1>4. Owes(t)' /\ Holds(t)'
  OBVIOUS
<1>5. /\ step[t] \in Over => step'[t] = step[t]
      /\ step[t] = "reaping" /\ caught[t] => step'[t] = "cancelled" \/ (step'[t] = "reaping" /\ caught'[t])
  OBVIOUS
<1> HIDE DEF IInv, TypeOK, Owes, Holds
<1> QED BY <1>2, <1>3, <1>4, <1>5, LocalStep

LEMMA GoStep ==
  ASSUME IInv, NEW t \in Task, Goes(t)
  PROVE  IInv'
<1> PICK c \in Command :
      /\ \/ c \in Follows(command[t], FALSE) /\ (SpawnFails(t, To(c)) \/ ReapOver(t, To(c)))
         \/ c \in Follows(command[t], child[t] = "ok") /\ Answered(t, To(c))
      /\ IF step'[t] = "cancelled" THEN UNCHANGED <<command, logs, topVars>> ELSE Turns(t, c)
  BY DEF Goes
<1> USE DEF IInv, TypeOK, RunTypeOK, Owes, Holds, Step, Child, Over, Free, GoesOn, To,
            SpawnFails, ReapOver, Answered
<1>1. \E ok \in BOOLEAN : c \in Follows(command[t], ok)
  OBVIOUS
<1>2. Elsewhere(t)
  BY DEF Elsewhere, Turns, topVars
<1>3. /\ c = "log" => t = "git" /\ logs < Mentions
      /\ c \in {"gitdir", "branch", "status"} => t = "git" /\ command[t] \in {"gitdir", "branch", "status"}
      /\ t = "gh" => c = "end"
  BY <1>1, GatherAssumption DEF Follows, Script, Command
<1>4. TypeOK'
  <2>1. RunTypeOK'
    OBVIOUS
  <2>2. logs' \in 0 .. Mentions
    BY <1>3, GatherAssumption DEF Turns
  <2>3. command' \in [Task -> Command] /\ UNCHANGED topVars
    BY DEF Turns
  <2> QED BY <2>1, <2>2, <2>3 DEF topVars
<1>5. Script'
  <2>1. command'["gh"] \in {"prs", "end"}
    BY <1>3, GatherAssumption DEF Turns, Script
  <2>2. command'["git"] \in {"gitdir", "branch", "status"} => logs' = 0
    BY <1>3, GatherAssumption DEF Turns, Script
  <2>3. \A u \in Task : step'[u] = "new" => command'[u] # "log"
    <3>1. step'[t] # "new"
      OBVIOUS
    <3>2. \A u \in Task \ {t} : step'[u] = step[u] /\ command'[u] = command[u]
      BY <1>2, GatherAssumption DEF Turns, Elsewhere
    <3> QED BY <3>1, <3>2 DEF Script
  <2> QED BY <2>1, <2>2, <2>3 DEF Script
<1>6. Owes(t)' /\ Holds(t)'
  OBVIOUS
<1>7. /\ step[t] \in Over => step'[t] = step[t]
      /\ step[t] = "reaping" /\ caught[t] => step'[t] = "cancelled" \/ (step'[t] = "reaping" /\ caught'[t])
  OBVIOUS
<1> HIDE DEF IInv, TypeOK, Owes, Holds
<1> QED BY <1>2, <1>4, <1>5, <1>6, <1>7, LocalStep

-----------------------------------------------------------------------------
(* Steps of the caller and of the loop *)

LEMMA CancelTopStep == IInv /\ CancelTop => IInv'
<1> SUFFICES ASSUME IInv, CancelTop PROVE IInv'
  OBVIOUS
<1> USE DEF IInv, CancelTop
<1>1. TypeOK' /\ Script'
  <2>1. RunTypeOK'
    BY DEF TypeOK, RunTypeOK, AskToCancel
  <2>2. cancels' \in 0 .. MaxCancels
    BY GatherAssumption DEF TypeOK
  <2> QED BY <2>1, <2>2 DEF TypeOK, Script
<1>2. (\A t \in Task : Owes(t)' /\ Holds(t)') /\ AllAsked'
  BY DEF TypeOK, RunTypeOK, AskToCancel, Owes, Holds, AllAsked, Over
<1> QED BY <1>1, <1>2 DEF Leaving

LEMMA ResumeStep == IInv /\ Resume => IInv'
<1> SUFFICES ASSUME IInv, Resume PROVE IInv'
  OBVIOUS
<1>1. TypeOK' /\ Script'
  BY DEF IInv, Resume, TypeOK, RunTypeOK, Script, runVars, Over
<1>2. (\A t \in Task : Owes(t)' /\ Holds(t)') /\ AllAsked'
  BY DEF IInv, Resume, Owes, Holds, AllAsked, runVars
<1>3. \A t \in Task : step[t] \in Over \/ (step[t] = "reaping" /\ caught[t])
  BY DEF IInv, Resume, Done, Owes, AllAsked, Over
<1>4. Leaving'
  BY <1>3 DEF Resume, Leaving, runVars
<1>5. (topAsked => top # "returned")'
  BY DEF Resume
<1> QED BY <1>1, <1>2, <1>4, <1>5 DEF IInv

LEMMA ShutdownStep == IInv /\ Shutdown => IInv'
<1> SUFFICES ASSUME IInv, Shutdown PROVE IInv'
  OBVIOUS
<1>1. TypeOK' /\ Script'
  BY DEF IInv, Shutdown, TypeOK, RunTypeOK, AskToCancel, Script
<1>2. (\A t \in Task : Owes(t)' /\ Holds(t)') /\ AllAsked'
  BY DEF IInv, Shutdown, TypeOK, RunTypeOK, AskToCancel, Owes, Holds, AllAsked, Over
<1>3. Leaving' /\ (topAsked => top # "returned")'
  BY DEF IInv, Shutdown, Leaving
<1> QED BY <1>1, <1>2, <1>3 DEF IInv

LEMMA NextStep == IInv /\ [Next]_vars => IInv'
<1> SUFFICES ASSUME IInv, [Next]_vars PROVE IInv'
  OBVIOUS
<1>1. CASE UNCHANGED vars
  BY <1>1 DEF vars, runVars, IInv, TypeOK, RunTypeOK, Script, Owes, Holds, AllAsked, Leaving
<1>2. CASE \E t \in Task : Moves(t) \/ World(t)
  BY <1>2, InnerStep, StartStep, GoStep, WorldStep DEF Moves
<1> QED BY <1>1, <1>2, CancelTopStep, ResumeStep, ShutdownStep DEF Next, Rests

THEOREM Invariance == Spec => []IInv
  BY InitIInv, NextStep, PTL DEF Spec

-----------------------------------------------------------------------------

\* The state of the two tasks and of their caller keeps its type: no order of
\* answers reads more logs than there are files.
THEOREM TypeCorrect == Spec => []TypeOK
<1>1. IInv => TypeOK
  BY DEF IInv
<1> QED BY <1>1, Invariance, PTL

\* No cancellation is lost, whatever it races with (context.py:127-153).
THEOREM CancellationsKept == Spec => []CancelKept
<1>1. IInv => CancelKept
  BY DEF IInv, CancelKept, Owes, Over
<1> QED BY <1>1, Invariance, PTL

\* No command and no reaper outlives its task, and no command runs when the
\* caller goes on (context.py:121-153, 249).
THEOREM NoneRunsOn == Spec => []NothingRunsOn
<1>1. IInv => NothingRunsOn
  BY DEF IInv, NothingRunsOn, Holds, Leaving, Over
<1> QED BY <1>1, Invariance, PTL
=============================================================================
