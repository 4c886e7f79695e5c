----------------------------- MODULE JobsProofs -----------------------------
(***************************************************************************)
(* Safety of the job registry and of the session beside it, for any number *)
(* of jobs, callers and any times: the inductive invariant of Jobs and     *)
(* what follows from it; then that a turn the hook lets end as clear       *)
(* leaves no job behind.  That rests on the core of the registry's         *)
(* invariant, which also survives a restart of the server, and on the      *)
(* transcript never taking a start for older than its job is.              *)
(***************************************************************************)
EXTENDS StopHook, TLAPS

\* A call that took a job has set its flag, and flags are on started jobs.
HoldersClaim ==
  /\ \A c \in Caller : Held(c) => target[c] \in claimed
  /\ \A j \in registered \cup claimed : Started(j)

\* While the server runs, a registered task was cancelled by nobody, and a
\* waiting call sees its task cancelled only because the job expired.
StopCause ==
  serving =>
    /\ \A j \in registered : task[j] \notin {"cancelling", "cancelled"}
    /\ \A c \in Caller :
         call[c] = "waiting" /\ task[target[c]] \in {"cancelling", "cancelled"}
           => Expired(target[c])

\* A call that has ended left no entry behind (the finally of jobs.py:196).
EndedIsGone ==
  \A c \in Caller : call[c] \in Endings => target[c] \notin registered

\* A job's age is counted from its start (created_at, jobs.py:160).
AgeFromStart == \A j \in Job : ~Started(j) => age[j] = 0

\* The reaper is up as soon as there is an entry, and what is left of its
\* sleep fits in what is left of every entry's lifetime.
ReaperInTime ==
  serving =>
    \A j \in registered : reaperOn /\ age[j] + reaperLeft <= TTL + Interval

\* Core is inductive alone; that unclaimed jobs are retained is inductive on
\* top of it, and false of a server that was started again.
Core ==
  /\ TypeOK
  /\ HoldersClaim
  /\ EndedIsGone
  /\ AgeFromStart
  /\ OneTaker
  /\ NoOrphanTask
  /\ ReaperInTime
  /\ StopCause
  /\ ExpiredIsHonest

IInv == Core /\ RetainedForTTL

USE NoJobAssumption, TimesAssumption

-----------------------------------------------------------------------------

\* The initial state has its type (jobs.py:48-55).
LEMMA InitType == Init => TypeOK
<1> SUFFICES ASSUME Init PROVE TypeOK
  OBVIOUS
<1>1. 0 \in 0..AgeCap /\ Interval \in 0..Interval
  BY DEF AgeCap
<1>2. {"none", "idle"} \subseteq Tasks \cup Calls /\ "none" \in Tasks /\ "idle" \in Calls
  BY DEF Tasks, Calls
<1> QED
  BY <1>1, <1>2 DEF Init, TypeOK

\* Every step of the loop keeps the types, the capped ages and the running
\* timers included.
LEMMA StepType == TypeOK /\ HoldersClaim /\ [Next]_vars => TypeOK'
<1> SUFFICES ASSUME TypeOK, HoldersClaim, [Next]_vars PROVE TypeOK'
  OBVIOUS
<1> USE DEF TypeOK, Calls, Tasks, Endings, Refusals, Done, Free, Scanned
<1>1. ASSUME NEW j \in Job, StartJob(j) PROVE TypeOK'
  BY <1>1 DEF StartJob
<1>2. ASSUME NEW j \in Job, TaskEnds(j) PROVE TypeOK'
  BY <1>2 DEF TaskEnds
<1>3. ASSUME NEW c \in Caller, NEW j \in Job, AwaitRefused(c, j) PROVE TypeOK'
  BY <1>3 DEF AwaitRefused, Request
<1>4. ASSUME NEW c \in Caller, NEW j \in Job, AwaitClaims(c, j) PROVE TypeOK'
  BY <1>4 DEF AwaitClaims, Request
<1>5. ASSUME NEW c \in Caller, NEW j \in Job, AwaitDone(c, j) PROVE TypeOK'
  BY <1>5 DEF AwaitDone, Request, EndingOf
<1>6. ASSUME NEW c \in Caller, Disconnect(c) PROVE TypeOK'
  BY <1>6 DEF Disconnect
<1>7. ASSUME NEW c \in Caller, ResumeWithTask(c) PROVE TypeOK'
  BY <1>7 DEF ResumeWithTask, EndingOf
<1>8. ASSUME NEW c \in Caller, ResumeCancelled(c) PROVE TypeOK'
  <2> USE <1>8 DEF ResumeCancelled
  <2>1. task' \in [Job -> Tasks]
    BY DEF CancelAndDrain, CancelTasks
  <2>2. drains' \subseteq [job : Job, by : {"reaper", "await"}, left : 0..DrainTimeout]
    BY DEF CancelAndDrain, HoldersClaim, Held
  <2> QED
    BY <2>1, <2>2
<1>9. CASE Reap
  BY <1>9 DEF Reap, CancelAndDrain, CancelTasks
<1>10. ASSUME NEW d \in drains, DrainEnds(d) PROVE TypeOK'
  BY <1>10 DEF DrainEnds
<1>11. CASE Shutdown
  BY <1>11 DEF Shutdown, CancelTasks
<1>12. CASE Tick
  BY <1>12 DEF Tick, Older, AgeCap
<1>13. CASE UNCHANGED vars
  BY <1>13 DEF vars
<1> QED
  BY <1>1, <1>2, <1>3, <1>4, <1>5, <1>6, <1>7, <1>8, <1>9, <1>10, <1>11,
     <1>12, <1>13 DEF Next, Resume
-----------------------------------------------------------------------------

\* The inductive invariant holds when the server starts.
LEMMA InitIInv == Init => IInv
<1> SUFFICES ASSUME Init PROVE IInv
  OBVIOUS
<1>1. TypeOK
  BY InitType
<1> QED
  BY <1>1 DEF IInv, Core, Init, HoldersClaim, EndedIsGone, AgeFromStart, OneTaker, NoOrphanTask, ReaperInTime,
     RetainedForTTL, StopCause, ExpiredIsHonest, Held, Endings, Started

\* Every step of the loop keeps the core of it.
LEMMA StepCore == Core /\ [Next]_vars => Core'
<1> SUFFICES ASSUME Core, [Next]_vars PROVE Core'
  OBVIOUS
<1>t. TypeOK'
  BY StepType DEF Core
<1> USE DEF Core
<1> USE <1>t DEF TypeOK, HoldersClaim, EndedIsGone, AgeFromStart, OneTaker, NoOrphanTask, ReaperInTime,
        StopCause, ExpiredIsHonest, Held, Endings, Started, Expired, Free, Scanned
<1>1. ASSUME NEW j \in Job, StartJob(j) PROVE Core'
  BY <1>1 DEF StartJob
<1>2. ASSUME NEW j \in Job, TaskEnds(j) PROVE Core'
  BY <1>2 DEF TaskEnds, Done
<1>3. ASSUME NEW c \in Caller, NEW j \in Job, AwaitRefused(c, j) PROVE Core'
  BY <1>3 DEF AwaitRefused, Request
<1>4. ASSUME NEW c \in Caller, NEW j \in Job, AwaitClaims(c, j) PROVE Core'
  BY <1>4 DEF AwaitClaims, Request
<1>5. ASSUME NEW c \in Caller, NEW j \in Job, AwaitDone(c, j) PROVE Core'
  BY <1>5 DEF AwaitDone, Request, EndingOf, IsDone, Done
<1>6. ASSUME NEW c \in Caller, Disconnect(c) PROVE Core'
  BY <1>6 DEF Disconnect
<1>7. ASSUME NEW c \in Caller, ResumeWithTask(c) PROVE Core'
  BY <1>7 DEF ResumeWithTask, EndingOf, IsDone, Done
<1>8. ASSUME NEW c \in Caller, ResumeCancelled(c) PROVE Core'
  <2> USE <1>8 DEF ResumeCancelled, CancelAndDrain, CancelTasks
  <2>1. \A d \in Caller \ {c} : call[d] = "waiting" => target[d] # target[c]
    OBVIOUS
  <2>2. OneTaker' /\ HoldersClaim' /\ EndedIsGone' /\ AgeFromStart'
    OBVIOUS
  <2>3. NoOrphanTask' /\ ReaperInTime'
    OBVIOUS
  <2>4. StopCause' /\ ExpiredIsHonest'
    BY <2>1
  <2> QED
    BY <2>2, <2>3, <2>4
<1>9. CASE Reap
  BY <1>9 DEF Reap, CancelAndDrain, CancelTasks, IsDone, Done
<1>10. ASSUME NEW d \in drains, DrainEnds(d) PROVE Core'
  BY <1>10 DEF DrainEnds
<1>11. CASE Shutdown
  BY <1>11 DEF Shutdown, CancelTasks
<1>12. CASE Tick
  BY <1>12 DEF Tick, Older, AgeCap
<1>13. CASE UNCHANGED vars
  BY <1>13 DEF vars
<1> QED
  BY <1>1, <1>2, <1>3, <1>4, <1>5, <1>6, <1>7, <1>8, <1>9, <1>10, <1>11,
     <1>12, <1>13 DEF Next, Resume

\* Only an await that claims it, or a scan that finds it too old, takes an
\* entry away (jobs.py:130-133, 196-197).
LEMMA StepRetained == Core /\ RetainedForTTL /\ [Next]_vars => RetainedForTTL'
<1> SUFFICES ASSUME Core, RetainedForTTL, [Next]_vars PROVE RetainedForTTL'
  OBVIOUS
<1> USE DEF Core, TypeOK, HoldersClaim, RetainedForTTL, Held, Started, Expired
<1>1. ASSUME NEW j \in Job, StartJob(j) \/ TaskEnds(j) PROVE RetainedForTTL'
  BY <1>1 DEF StartJob, TaskEnds, Done
<1>2. ASSUME NEW c \in Caller, NEW j \in Job,
             AwaitRefused(c, j) \/ AwaitClaims(c, j) \/ AwaitDone(c, j)
      PROVE  RetainedForTTL'
  BY <1>2 DEF AwaitRefused, AwaitClaims, AwaitDone, Request
<1>3. ASSUME NEW c \in Caller, Disconnect(c) PROVE RetainedForTTL'
  BY <1>3 DEF Disconnect
<1>4. ASSUME NEW c \in Caller, Resume(c) PROVE RetainedForTTL'
  <2>1. target[c] \in claimed
    BY <1>4 DEF Resume, ResumeWithTask, ResumeCancelled
  <2>2. /\ registered' = registered \ {target[c]}
        /\ UNCHANGED <<claimed, age>>
        /\ \A j \in Job : task'[j] = "none" <=> task[j] = "none"
    BY <1>4 DEF Resume, ResumeWithTask, ResumeCancelled, CancelAndDrain, CancelTasks
  <2> QED
    BY <2>1, <2>2
<1>5. CASE Reap
  BY <1>5 DEF Reap, Scanned, CancelAndDrain, CancelTasks
<1>6. ASSUME NEW d \in drains, DrainEnds(d) PROVE RetainedForTTL'
  BY <1>6 DEF DrainEnds
<1>7. CASE Shutdown
  BY <1>7 DEF Shutdown, CancelTasks
<1>8. CASE Tick
  BY <1>8 DEF Tick, Older, AgeCap
<1>9. CASE UNCHANGED vars
  BY <1>9 DEF vars
<1> QED
  BY <1>1, <1>2, <1>3, <1>4, <1>5, <1>6, <1>7, <1>8, <1>9 DEF Next

-----------------------------------------------------------------------------

\* The registry of any size stays in its inductive invariant.
THEOREM Invariance == Spec => []IInv
  BY InitIInv, StepCore, StepRetained, PTL DEF Spec, IInv

\* The registry's state keeps its type (jobs.py:41-55).
THEOREM TypeCorrect == Spec => []TypeOK
<1>1. IInv => TypeOK
  BY DEF IInv, Core
<1> QED
  BY <1>1, Invariance, PTL

\* Two q_await requests never both take a job (jobs.py:180-182).
THEOREM AtMostOneTaker == Spec => []OneTaker
<1>1. IInv => OneTaker
  BY DEF IInv, Core
<1> QED
  BY <1>1, Invariance, PTL

\* Work that nobody has cancelled is always behind a registered entry,
\* through every race of the reaper, the requests and their cancellations
\* (jobs.py:133-135, 185-197).
THEOREM NoWorkOrphaned == Spec => []NoOrphanTask
<1>1. IInv => NoOrphanTask
  BY DEF IInv, Core
<1> QED
  BY <1>1, Invariance, PTL

\* An entry never outlives the TTL and one reaper interval, so the bound
\* the stop hook takes from the two constants is right (jobs.py:125-135).
THEOREM LifetimeBounded == Spec => []EntryLifetime
<1>1. IInv => EntryLifetime
  BY DEF IInv, Core, EntryLifetime, ReaperInTime, TypeOK, AgeCap
<1> QED
  BY <1>1, Invariance, PTL

\* A job nobody claims stays awaitable for its whole TTL (jobs.py:130).
THEOREM UnclaimedRetained == Spec => []RetainedForTTL
<1>1. IInv => RetainedForTTL
  BY DEF IInv
<1> QED
  BY <1>1, Invariance, PTL

\* The "TTL exceeded or server shutdown" answer is only given for these two
\* reasons (jobs.py:186-189).
THEOREM ExpiryHonest == Spec => []ExpiredIsHonest
<1>1. IInv => ExpiredIsHonest
  BY DEF IInv, Core
<1> QED
  BY <1>1, Invariance, PTL
-----------------------------------------------------------------------------

\* No call holds a job that is not claimed, so the contract sees it free.
LEMMA UnclaimedIsFree ==
  ASSUME IInv, NEW j \in Job, j \notin claimed
  PROVE  /\ holdersOf[j] = {}
         /\ ~Refers(j, {"value", "error"})
         /\ ~Refers(j, {"waiting"})
  BY DEF IInv, Core, HoldersClaim, holdersOf, Refers, Held, Endings

\* While a call waits for a job, it is the only one that took it: the
\* contract sees the job taken.
LEMMA WaitedIsTaken ==
  ASSUME IInv, NEW c \in Caller, call[c] = "waiting"
  PROVE  /\ target[c] \in Job
         /\ entryOf[target[c]] = "taken"
  <1>1. target[c] \in claimed /\ target[c] \in Job /\ Started(target[c])
    BY DEF IInv, Core, HoldersClaim, Held, TypeOK
  <1>2. Refers(target[c], {"waiting"}) /\ ~Refers(target[c], {"value", "error"})
    BY DEF IInv, Core, OneTaker, Held, Endings, Refers
  <1> QED
    BY <1>1, <1>2 DEF entryOf, Started

\* An entry that is registered and free is open in the contract, whatever
\* its task does.
LEMMA FreeIsOpen ==
  ASSUME IInv, NEW j \in registered, j \notin claimed
  PROVE  j \in Job /\ entryOf[j] = "open"
  <1>1. j \in Job /\ Started(j)
    BY DEF IInv, Core, TypeOK, HoldersClaim
  <1> QED
    BY <1>1, UnclaimedIsFree DEF entryOf, Started

\* Taking a job adds the call to its holders, and to no other's.
LEMMA TakingHolds ==
  ASSUME TypeOK, NEW c \in Caller, NEW j \in Job, NEW e \in {"waiting"} \cup Endings,
         call[c] = "idle",
         call' = [call EXCEPT ![c] = e],
         target' = [target EXCEPT ![c] = j]
  PROVE  holdersOf' = [holdersOf EXCEPT ![j] = @ \cup {c}]
<1> DEFINE H(k) == {d \in Caller : target[d] = k /\ Held(d)}
<1>1. \A d \in Caller, k \in Job :
        target'[d] = k /\ Held(d)' <=> (target[d] = k /\ Held(d)) \/ (d = c /\ k = j)
  BY DEF Held, Endings, TypeOK
<1>2. \A k \in Job : H(k)' = IF k = j THEN H(k) \cup {c} ELSE H(k)
  BY <1>1
<1>3. holdersOf = [k \in Job |-> H(k)] /\ holdersOf' = [k \in Job |-> H(k)']
  BY DEF holdersOf
<1> HIDE DEF H
<1> QED
  BY <1>2, <1>3

\* A call that ends keeps its place among the holders.
LEMMA EndingHolds ==
  ASSUME TypeOK, NEW c \in Caller, NEW e \in Endings,
         call[c] = "waiting", call' = [call EXCEPT ![c] = e], UNCHANGED target
  PROVE  UNCHANGED holdersOf
<1>1. \A d \in Caller : Held(d)' <=> Held(d)
  BY DEF Held, Endings, TypeOK
<1> QED
  BY <1>1 DEF holdersOf

\* The server starts with nothing promised.
LEMMA InitContract == Init => Contract!Init
  BY DEF Init, Contract!Init, entryOf, holdersOf, workOf, Held, Endings, IsDone, Done

\* Every step of the registry is a step of the contract or changes nothing
\* that the contract speaks of.
LEMMA StepContract ==
  IInv /\ IInv' /\ [Next]_vars => [Contract!Next]_(Contract!vars)
<1> SUFFICES ASSUME IInv, IInv', [Next]_vars
             PROVE  Contract!Next \/ UNCHANGED <<entryOf, holdersOf, workOf>>
  BY DEF Contract!vars
<1>t. TypeOK /\ TypeOK' /\ HoldersClaim /\ OneTaker /\ EndedIsGone
  BY DEF IInv, Core
<1> USE <1>t DEF TypeOK, Refers, Held, Endings, Refusals, Started, Free
<1>1. ASSUME NEW j \in Job, StartJob(j) PROVE Contract!Accept(j)
  <2> USE <1>1 DEF StartJob
  <2>1. entryOf[j] = "unused" /\ entryOf' = [entryOf EXCEPT ![j] = "open"]
    BY UnclaimedIsFree DEF entryOf, HoldersClaim
  <2>2. workOf' = [workOf EXCEPT ![j] = "going"]
    BY DEF workOf, IsDone, Done
  <2>3. UNCHANGED holdersOf
    BY DEF holdersOf
  <2> QED
    BY <2>1, <2>2, <2>3 DEF Contract!Accept
<1>2. ASSUME NEW j \in Job, TaskEnds(j) PROVE Contract!Finish(j)
  <2> USE <1>2 DEF TaskEnds
  <2>1. workOf[j] \in {"going", "stopping"} /\ workOf' = [workOf EXCEPT ![j] = "over"]
    BY DEF workOf, IsDone, Done
  <2>2. UNCHANGED <<entryOf, holdersOf>>
    BY DEF entryOf, holdersOf, Done
  <2> QED
    BY <2>1, <2>2 DEF Contract!Finish
<1>3. ASSUME NEW c \in Caller, NEW j \in Job, AwaitRefused(c, j)
      PROVE  UNCHANGED <<entryOf, holdersOf, workOf>>
  <2> USE <1>3 DEF AwaitRefused, Request
  <2>1. UNCHANGED workOf
    BY DEF workOf, IsDone
  <2>2. UNCHANGED holdersOf
    BY DEF holdersOf
  <2>3. \A k \in Job, S \in {{"waiting"}, {"value", "error"}} : Refers(k, S)' = Refers(k, S)
    OBVIOUS
  <2> QED
    BY <2>1, <2>2, <2>3 DEF entryOf
<1>4. ASSUME NEW c \in Caller, NEW j \in Job, AwaitClaims(c, j)
      PROVE  Contract!Take(c, j)
  <2> USE <1>4 DEF AwaitClaims, Request
  <2>1. entryOf[j] = "open" /\ workOf[j] # "over"
    BY FreeIsOpen DEF workOf
  <2>2. entryOf' = [entryOf EXCEPT ![j] = "taken"]
    BY UnclaimedIsFree DEF entryOf, HoldersClaim
  <2>3. holdersOf' = [holdersOf EXCEPT ![j] = @ \cup {c}]
    BY TakingHolds
  <2>4. UNCHANGED workOf
    BY DEF workOf, IsDone
  <2> QED
    BY <2>1, <2>2, <2>3, <2>4 DEF Contract!Take
<1>5. ASSUME NEW c \in Caller, NEW j \in Job, AwaitDone(c, j)
      PROVE  Contract!Take(c, j)
  <2> USE <1>5 DEF AwaitDone, Request
  <2>1. entryOf[j] = "open" /\ workOf[j] = "over" /\ EndingOf(j) \in Endings
    BY FreeIsOpen DEF workOf, EndingOf, Done
  <2>2. entryOf' = [entryOf EXCEPT ![j] = IF EndingOf(j) \in {"value", "error"}
                                          THEN "given" ELSE "lost"]
    BY <2>1, UnclaimedIsFree DEF entryOf, HoldersClaim
  <2>3. holdersOf' = [holdersOf EXCEPT ![j] = @ \cup {c}]
    BY <2>1, TakingHolds
  <2>4. UNCHANGED workOf
    BY DEF workOf, IsDone
  <2> QED
    BY <2>1, <2>2, <2>3, <2>4 DEF Contract!Take
<1>6. ASSUME NEW c \in Caller, Disconnect(c)
      PROVE  UNCHANGED <<entryOf, holdersOf, workOf>>
  BY <1>6 DEF Disconnect, entryOf, holdersOf, workOf, IsDone
<1>7. ASSUME NEW c \in Caller, ResumeWithTask(c)
      PROVE  Contract!Give(target[c]) \/ Contract!Lose(target[c])
  <2> USE <1>7 DEF ResumeWithTask
  <2> DEFINE j == target[c]
             e == EndingOf(j)
  <2>1. j \in Job /\ entryOf[j] = "taken" /\ workOf[j] = "over" /\ e \in Endings
    BY WaitedIsTaken DEF workOf, EndingOf
  <2>2. \A d \in Caller \ {c} : target[d] = j => ~Held(d)
    BY DEF OneTaker
  <2>3. entryOf' = [entryOf EXCEPT ![j] = IF e \in {"value", "error"}
                                          THEN "given" ELSE "lost"]
    BY <2>1, <2>2 DEF entryOf
  <2>4. UNCHANGED holdersOf
    BY <2>1, EndingHolds
  <2>5. UNCHANGED workOf /\ workOf = Contract!Stopped({j})
    BY <2>1 DEF workOf, IsDone, Contract!Stopped
  <2> QED
    BY <2>1, <2>3, <2>4, <2>5 DEF Contract!Give, Contract!Lose
<1>8. ASSUME NEW c \in Caller, ResumeCancelled(c)
      PROVE  Contract!Lose(target[c])
  <2> USE <1>8 DEF ResumeCancelled
  <2> DEFINE j == target[c]
  <2>1. j \in Job /\ entryOf[j] = "taken"
    BY WaitedIsTaken
  <2>2. \A d \in Caller \ {c} : target[d] = j => ~Held(d)
    BY DEF OneTaker
  <2>3. PICK e \in Endings \ {"value", "error"} : call' = [call EXCEPT ![c] = e]
    OBVIOUS
  <2>4. entryOf' = [entryOf EXCEPT ![j] = "lost"]
    <3>1. \A k \in Job : (task[k] = "none")' <=> task[k] = "none"
      BY DEF CancelAndDrain, CancelTasks
    <3>2. \A k \in Job \ {j} :
            /\ Refers(k, {"waiting"})' <=> Refers(k, {"waiting"})
            /\ Refers(k, {"value", "error"})' <=> Refers(k, {"value", "error"})
      BY <2>3
    <3>3. ~Refers(j, {"waiting"})' /\ ~Refers(j, {"value", "error"})'
      BY <2>2, <2>3
    <3>4. task[j] # "none" /\ registered' = registered \ {j}
      BY DEF HoldersClaim
    <3> HIDE DEF Refers
    <3> QED
      BY <2>1, <3>1, <3>2, <3>3, <3>4 DEF entryOf
  <2>5. UNCHANGED holdersOf
    BY <2>3, EndingHolds
  <2>6. workOf' = Contract!Stopped({j})
    BY <2>1 DEF workOf, IsDone, Done, Contract!Stopped, CancelAndDrain, CancelTasks
  <2> QED
    BY <2>1, <2>4, <2>5, <2>6 DEF Contract!Lose
<1>9. ASSUME Reap PROVE \E js \in SUBSET Job : Contract!Expire(js)
  <2> USE <1>9 DEF Reap, Scanned
  <2> DEFINE gone == {j \in registered : Expired(j)}
  <2>1. task' = [j \in Job |-> IF j \in gone /\ task[j] = "running"
                               THEN "cancelling" ELSE task[j]]
    <3>1. \A j \in Job : task[j] = "running" => ~IsDone(j)
      BY DEF IsDone, Done
    <3> QED
      BY <3>1 DEF CancelAndDrain, CancelTasks
  <2>2. \A j \in gone : entryOf[j] \in {"open", "taken"}
    BY DEF entryOf, EndedIsGone, HoldersClaim
  <2>3. entryOf' = [j \in Job |-> IF j \in gone /\ entryOf[j] = "open"
                                  THEN "lost" ELSE entryOf[j]]
    BY <2>1 DEF entryOf
  <2>4. workOf' = Contract!Stopped(gone)
    BY <2>1 DEF workOf, IsDone, Done, Contract!Stopped
  <2>5. UNCHANGED holdersOf
    BY DEF holdersOf
  <2> QED
    BY <2>2, <2>3, <2>4, <2>5 DEF Contract!Expire
<1>10. ASSUME NEW d \in drains, DrainEnds(d)
       PROVE  UNCHANGED <<entryOf, holdersOf, workOf>>
  BY <1>10 DEF DrainEnds, entryOf, holdersOf, workOf, IsDone
<1>11. ASSUME Shutdown PROVE Contract!StopAll
  <2> USE <1>11 DEF Shutdown, CancelTasks
  <2>1. workOf' = Contract!Stopped(Job)
    BY DEF workOf, IsDone, Done, Contract!Stopped
  <2>2. UNCHANGED <<entryOf, holdersOf>>
    BY DEF entryOf, holdersOf
  <2> QED
    BY <2>1, <2>2 DEF Contract!StopAll
<1>12. ASSUME Tick PROVE UNCHANGED <<entryOf, holdersOf, workOf>>
  BY <1>12 DEF Tick, entryOf, holdersOf, workOf, IsDone
<1>13. ASSUME UNCHANGED vars PROVE UNCHANGED <<entryOf, holdersOf, workOf>>
  BY <1>13 DEF vars, entryOf, holdersOf, workOf, IsDone
<1>14. \A c \in Caller : Resume(c) => target[c] \in Job
  BY DEF Resume, ResumeWithTask, ResumeCancelled, HoldersClaim
<1> QED
  BY <1>1, <1>2, <1>3, <1>4, <1>5, <1>6, <1>7, <1>8, <1>9, <1>10, <1>11,
     <1>12, <1>13, <1>14 DEF Next, Resume, Contract!Next

\* The registry implements the contract: its tasks, claims, reaper and
\* drainers never break what q_*_start and q_await promise (jobs.py:1-16).
THEOREM RegistryKeepsContract == Spec => ImplementsContract
  BY InitContract, StepContract, Invariance, PTL
  DEF Spec, ImplementsContract, Contract!Spec

-----------------------------------------------------------------------------
(* The Stop hook *)

\* What the transcript knows of is a started job, and its timestamp is not
\* before created_at.
TranscriptLags ==
  \A j \in Job :
    /\ start[j] \in Recorded \cup {"asked"} => Started(j)
    /\ start[j] \in {"unmade", "asked"} => since[j] = 0
    /\ start[j] \in Recorded => since[j] <= age[j]

\* The assistant does not end its turn in the middle of a start call.
NothingAsked == turn # "working" => \A j \in Job : start[j] # "asked"

HInv ==
  /\ Core
  /\ HTypeOK
  /\ serving
  /\ TranscriptLags
  /\ NothingAsked
  /\ NothingLeftBehind

USE TimesAssumption

\* The invariant holds in a new session beside a new server.
LEMMA InitHInv == HInit => HInv
<1> SUFFICES ASSUME HInit PROVE HInv
  OBVIOUS
<1>1. Core
  BY InitIInv DEF HInit, IInv
<1>2. HTypeOK
  <2>1. 0 \in 0..AgeCap
    BY DEF AgeCap
  <2> QED
    BY <2>1 DEF HInit, HTypeOK, Starts, Recorded, Turns
<1>3. TranscriptLags /\ NothingAsked /\ NothingLeftBehind
  BY DEF HInit, Recorded, TranscriptLags, NothingAsked, NothingLeftBehind
<1>4. serving
  BY DEF HInit, Init
<1> QED
  BY <1>1, <1>2, <1>3, <1>4 DEF HInv

\* The core survives a server that dies and starts again with nothing.
LEMMA RestartCore == Core /\ serving /\ ServerRestarts => Core'
<1> SUFFICES ASSUME Core, serving, ServerRestarts PROVE Core'
  OBVIOUS
<1> USE DEF Core, ServerRestarts
<1>1. TypeOK'
  BY DEF TypeOK, Tasks, Calls, Endings, Refusals, Done
<1>2. HoldersClaim' /\ EndedIsGone' /\ AgeFromStart' /\ OneTaker'
  BY DEF TypeOK, HoldersClaim, EndedIsGone, AgeFromStart, OneTaker, Held, Endings, Started
<1>3. NoOrphanTask' /\ ReaperInTime' /\ StopCause' /\ ExpiredIsHonest'
  BY DEF TypeOK, NoOrphanTask, ReaperInTime, StopCause, ExpiredIsHonest,
     IsDone, Done, Started, Expired
<1> QED
  BY <1>1, <1>2, <1>3

\* Every step of the composition is a step of the registry, a restart, or
\* leaves the registry alone; so it keeps the core.
LEMMA StepHCore == Core /\ serving /\ [HNext]_hvars => Core' /\ serving'
<1> SUFFICES ASSUME Core, serving, [HNext]_hvars PROVE Core' /\ serving'
  OBVIOUS
<1>1. CASE ServerRestarts
  BY <1>1, RestartCore DEF ServerRestarts
<1>2. ASSUME NEW j \in Job, HostStarts(j) \/ HostRecords(j) PROVE Core' /\ serving'
  <2>1. [Next]_vars
    BY <1>2 DEF HostStarts, HostRecords, Next, vars
  <2> QED
    BY <1>2, <2>1, StepCore DEF HostStarts, HostRecords, StartJob, vars
<1>3. ASSUME NEW c \in Caller, NEW j \in Job, HostAwaits(c, j) PROVE Core' /\ serving'
  <2>1. [Next]_vars
    BY <1>3 DEF HostAwaits, Next
  <2> QED
    BY <1>3, <2>1, StepCore
    DEF HostAwaits, AwaitRefused, AwaitClaims, AwaitDone, Request, vars
<1>4. CASE HostStops \/ UserReturns \/ UNCHANGED hvars
  <2>1. UNCHANGED vars
    BY <1>4 DEF HostStops, UserReturns, hvars
  <2> QED
    BY <2>1, StepCore DEF vars
<1>5. CASE ServerStep
  <2>1. [Next]_vars
    BY <1>5 DEF ServerStep, Next
  <2> QED
    BY <1>5, <2>1, StepCore DEF ServerStep, TaskEnds, Disconnect, Resume,
       ResumeWithTask, ResumeCancelled, Reap, DrainEnds
<1>6. CASE TimePasses
  BY <1>6, StepCore DEF TimePasses, Tick, Next
<1> QED
  BY <1>1, <1>2, <1>3, <1>4, <1>5, <1>6 DEF HNext

\* A job whose start the hook takes for too old has no entry left.
LEMMA TooOldIsGone ==
  ASSUME HInv, NEW j \in registered, start[j] \in Recorded
  PROVE  ~TooOld(j)
<1>1. j \in Job /\ age[j] <= TTL + Interval /\ since[j] <= age[j]
  BY DEF HInv, Core, TypeOK, ReaperInTime, TranscriptLags, AgeCap
<1>2. age[j] \in Nat /\ since[j] \in Nat
  BY <1>1 DEF HInv, HTypeOK, Core, TypeOK
<1> QED
  BY <1>1, <1>2 DEF TooOld, MaxJobAge

\* Every step of the session, the server and the clock keeps the invariant.
LEMMA StepHInv == HInv /\ [HNext]_hvars => HInv'
<1> SUFFICES ASSUME HInv, [HNext]_hvars PROVE HInv'
  OBVIOUS
<1>c. Core /\ serving /\ Core' /\ serving'
  BY StepHCore DEF HInv
<1>r. /\ \A j \in Job : Started(j) => Started(j)'
      /\ \A j \in Job : ~Started(j)' => ~Started(j)
      /\ TypeOK /\ TypeOK' /\ HTypeOK
      /\ \A j \in registered \cup claimed : Started(j)
  <2>1. TypeOK /\ TypeOK' /\ HTypeOK /\ HoldersClaim
    BY <1>c DEF HInv, Core
  <2>2. \A j \in Job : Started(j) => Started(j)'
    BY <2>1 DEF TypeOK, Started, HNext, hvars, vars, HostStarts, HostRecords, HostAwaits,
       HostStops, UserReturns, ServerRestarts, ServerStep, TimePasses, StartJob, TaskEnds,
       AwaitRefused, AwaitClaims, AwaitDone, Disconnect, Resume, ResumeWithTask,
       ResumeCancelled, Reap, DrainEnds, Tick, CancelAndDrain, CancelTasks, Done
  <2> QED
    BY <2>1, <2>2 DEF HoldersClaim
<1> USE <1>c, <1>r DEF HInv, HTypeOK, TypeOK, Turns, Starts, Recorded, TranscriptLags,
        NothingAsked, NothingLeftBehind
<1>1. ASSUME NEW j \in Job, HostStarts(j) PROVE HInv'
  <2> USE <1>1 DEF HostStarts, StartJob
  <2>1. HTypeOK' /\ NothingAsked' /\ NothingLeftBehind'
    OBVIOUS
  <2>2. TranscriptLags'
    BY DEF Started
  <2> QED
    BY <2>1, <2>2
<1>2. ASSUME NEW j \in Job, HostRecords(j) PROVE HInv'
  BY <1>2 DEF HostRecords, vars
<1>3. ASSUME NEW c \in Caller, NEW j \in Job, HostAwaits(c, j) PROVE HInv'
  <2>1. UNCHANGED <<age, start, since, turn, active>> /\ turn = "working"
    BY <1>3 DEF HostAwaits, vars, AwaitRefused, AwaitClaims, AwaitDone
  <2>2. HTypeOK' /\ NothingAsked' /\ NothingLeftBehind'
    BY <1>3, <2>1 DEF HostAwaits
  <2>3. TranscriptLags'
    BY <2>1
  <2> QED
    BY <2>2, <2>3
<1>4. CASE HostStops
  <2>1. turn' = "clear" => Pending = {}
    BY <1>4 DEF HostStops
  <2>2. UNCHANGED <<vars, start, since, awaited>> /\ HTypeOK'
    BY <1>4 DEF HostStops
  <2>3. NothingLeftBehind'
    BY <2>1, <2>2, TooOldIsGone DEF Pending, vars
  <2> QED
    BY <1>4, <2>2, <2>3 DEF HostStops, vars
<1>5. CASE UserReturns
  BY <1>5 DEF UserReturns, vars
<1>6. CASE ServerRestarts
  BY <1>6 DEF ServerRestarts
<1>7. CASE ServerStep
  <2>1. UNCHANGED <<age, start, since, awaited, turn, active>>
    BY <1>7 DEF ServerStep, hostVars, TaskEnds, Disconnect, Resume, ResumeWithTask,
       ResumeCancelled, Reap, DrainEnds
  <2>2. registered' \subseteq registered /\ claimed' = claimed
    BY <1>7 DEF ServerStep, TaskEnds, Disconnect, Resume, ResumeWithTask,
       ResumeCancelled, Reap, DrainEnds
  <2> QED
    BY <2>1, <2>2
<1>8. CASE TimePasses
  <2>1. \A j \in Job : start[j] \in Recorded => since'[j] <= age'[j]
    BY <1>8 DEF TimePasses, Tick, Older, AgeCap
  <2>2. since' \in [Job -> 0..AgeCap]
    BY <1>8 DEF TimePasses, Older, AgeCap
  <2> QED
    BY <1>8, <2>1, <2>2 DEF TimePasses, Tick
<1>9. CASE UNCHANGED hvars
  BY <1>9 DEF hvars, hostVars, vars
<1> QED
  BY <1>1, <1>2, <1>3, <1>4, <1>5, <1>6, <1>7, <1>8, <1>9 DEF HNext

\* The session and the server beside it stay in the invariant.
THEOREM HInvariance == HSpec => []HInv
  BY InitHInv, StepHInv, PTL DEF HSpec

\* The session's record and the hook's verdict keep their types, the record's
\* ages stay within the registry's cap (unawaited_job_stop_hook.py:97-136).
THEOREM HTypeCorrect == HSpec => []HTypeOK
<1>1. HInv => HTypeOK
  BY DEF HInv
<1> QED
  BY <1>1, HInvariance, PTL

\* A turn that the hook lets end as clear leaves no uncollected job on the
\* server, although the hook drops a start by a copy of the server's two
\* times and sees neither its registry nor its clock
\* (unawaited_job_stop_hook.py:27-29, 128-136).
THEOREM ClearTurnLeavesNothing == HSpec => []NothingLeftBehind
<1>1. HInv => NothingLeftBehind
  BY DEF HInv
<1> QED
  BY <1>1, HInvariance, PTL
=============================================================================
