-------------------------------- MODULE Jobs --------------------------------
(***************************************************************************)
(* The in-process job registry of the MCP server (src/quorum_mcp/jobs.py): *)
(* a q_*_start request registers an asyncio task, a q_await request claims *)
(* it and waits for it, a reaper drops the entries older than a TTL, and a *)
(* cancelled task is observed by a bounded drainer.                        *)
(*                                                                         *)
(* Everything runs on one event loop, so an action is one run of a         *)
(* coroutine from an await to the next.  What interleaves is the order in  *)
(* which the loop serves the job tasks, the q_await requests, the reaper,  *)
(* the drainers and the cancellations that the MCP transport delivers.     *)
(*                                                                         *)
(* Time advances in ticks.  The loop is taken to serve a timer when it is  *)
(* due: Tick waits for the reaper's sleep and for the drain deadlines.     *)
(***************************************************************************)
EXTENDS Integers, FiniteSets

CONSTANTS
  Job,            \* the job ids start_job may hand out, each at most once
  Caller,         \* the q_await requests, each a single call of await_job
  NoJob,          \* the target of a request that was not made yet
  TTL,            \* JOB_TTL_SECONDS
  Interval,       \* REAPER_INTERVAL_SECONDS
  DrainTimeout    \* DRAIN_TIMEOUT_SECONDS

ASSUME NoJobAssumption == NoJob \notin Job
ASSUME TimesAssumption ==
  /\ TTL \in Nat
  /\ Interval \in Nat \ {0}
  /\ DrainTimeout \in Nat

VARIABLES
  registered,     \* the keys of _jobs
  claimed,        \* the jobs whose claimed flag is set
  age,            \* time since created_at, for every job started
  task,           \* the state of the job's asyncio.Task
  call,           \* where each await_job call is, or how it ended
  target,         \* the job_id of the call
  disconnected,   \* the calls whose request the client has cancelled
  reaperOn,       \* _reaper_task is alive
  reaperLeft,     \* what is left of the reaper's sleep
  drains,         \* _drain_tasks
  serving         \* FALSE once the event loop is shutting down

vars == <<registered, claimed, age, task, call, target, disconnected,
          reaperOn, reaperLeft, drains, serving>>

\* What a call returns or raises: the task's result, the task's exception,
\* the two ValueErrors of a refused call, the ValueError of a job that was
\* cancelled from outside, or the CancelledError of the request.
Refusals == {"not_found", "in_use"}
Endings  == {"value", "error", "expired", "cancelled"}
Calls    == {"idle", "waiting"} \cup Refusals \cup Endings

Done  == {"returned", "raised", "cancelled"}
Tasks == {"none", "running", "cancelling"} \cup Done

\* Nothing compares an age beyond this one: the count stops there.
AgeCap == TTL + Interval + 1

TypeOK ==
  /\ registered \subseteq Job
  /\ claimed \subseteq Job
  /\ age \in [Job -> 0..AgeCap]
  /\ task \in [Job -> Tasks]
  /\ call \in [Caller -> Calls]
  /\ target \in [Caller -> Job \cup {NoJob}]
  /\ disconnected \subseteq Caller
  /\ reaperOn \in BOOLEAN
  /\ reaperLeft \in 0..Interval
  /\ drains \subseteq [job : Job, by : {"reaper", "await"}, left : 0..DrainTimeout]
  /\ serving \in BOOLEAN

Init ==
  /\ registered = {}
  /\ claimed = {}
  /\ age = [j \in Job |-> 0]
  /\ task = [j \in Job |-> "none"]
  /\ call = [c \in Caller |-> "idle"]
  /\ target = [c \in Caller |-> NoJob]
  /\ disconnected = {}
  /\ reaperOn = FALSE
  /\ reaperLeft = Interval
  /\ drains = {}
  /\ serving = TRUE

-----------------------------------------------------------------------------

Started(j) == task[j] # "none"
IsDone(j)  == task[j] \in Done
Expired(j) == age[j] > TTL

\* An entry that await_job may take.  (Slip: it forgets the claimed flag.)
FreeUnflagged(j) == j \in registered
Free(j) == j \in registered \ claimed

\* The entries a scan of the reaper takes.  (Slips: it spares the jobs that
\* somebody awaits; it takes a job that has just reached its TTL.)
ScannedUnclaimed == {j \in registered \ claimed : Expired(j)}
ScannedEarly     == {j \in registered : age[j] >= TTL}
Scanned == {j \in registered : Expired(j)}

\* (Slip: the entry goes, the task is left alone.)
CancelNothing(js) == UNCHANGED task

\* task.cancel() on the tasks of js that are not done.
CancelTasks(js) ==
  task' = [j \in Job |-> IF j \in js /\ task[j] = "running"
                         THEN "cancelling" ELSE task[j]]

\* _cancel_and_drain, called by the reaper or by an await_job.
CancelAndDrain(js, who) ==
  /\ CancelTasks(js)
  /\ drains' = drains \cup
       {[job |-> j, by |-> who, left |-> DrainTimeout] : j \in js}

\* start_job: the reaper is started by the first call.  The lock is never
\* contended, because nothing awaits while it is held: the call is one step.
StartJob(j) ==
  /\ serving
  /\ task[j] = "none"
  /\ registered' = registered \cup {j}
  /\ task' = [task EXCEPT ![j] = "running"]
  /\ reaperOn' = TRUE
  /\ reaperLeft' = IF reaperOn THEN reaperLeft ELSE Interval
  /\ UNCHANGED <<claimed, age, call, target, disconnected, drains, serving>>

\* The job's coroutine runs to its end.  One that was told to cancel may
\* still return or raise something else.
TaskEnds(j) ==
  /\ \/ task[j] = "running"    /\ \E e \in {"returned", "raised"} :
                                     task' = [task EXCEPT ![j] = e]
     \/ task[j] = "cancelling" /\ \E e \in Done :
                                     task' = [task EXCEPT ![j] = e]
  /\ UNCHANGED <<registered, claimed, age, call, target, disconnected,
                 reaperOn, reaperLeft, drains, serving>>

\* How a call that finds the task done ends.
EndingOf(j) == CASE task[j] = "returned" -> "value"
                 [] task[j] = "raised"   -> "error"
                 [] OTHER                -> "expired"

Request(c, j) ==
  /\ serving
  /\ call[c] = "idle"
  /\ target' = [target EXCEPT ![c] = j]

\* await_job refuses an id it does not hold, or one somebody awaits.
AwaitRefused(c, j) ==
  /\ Request(c, j)
  /\ \/ j \notin registered /\ call' = [call EXCEPT ![c] = "not_found"]
     \/ /\ j \in registered \cap claimed
        /\ call' = [call EXCEPT ![c] = "in_use"]
  /\ UNCHANGED <<registered, claimed, age, task, disconnected,
                 reaperOn, reaperLeft, drains, serving>>

\* await_job claims the job: it suspends on shield(task) ...
AwaitClaims(c, j) ==
  /\ Request(c, j)
  /\ Free(j)
  /\ ~IsDone(j)
  /\ claimed' = claimed \cup {j}
  /\ call' = [call EXCEPT ![c] = "waiting"]
  /\ UNCHANGED <<registered, age, task, disconnected,
                 reaperOn, reaperLeft, drains, serving>>

\* ... or, when the task is done already, does not suspend at all.
AwaitDone(c, j) ==
  /\ Request(c, j)
  /\ Free(j)
  /\ IsDone(j)
  /\ claimed' = claimed \cup {j}
  /\ call' = [call EXCEPT ![c] = EndingOf(j)]
  /\ registered' = registered \ {j}
  /\ UNCHANGED <<age, task, disconnected, reaperOn, reaperLeft, drains, serving>>

\* The client goes away: the request's task is told to cancel.  The
\* coroutine sees it when the loop next serves it.
Disconnect(c) ==
  /\ call[c] = "waiting"
  /\ disconnected' = disconnected \cup {c}
  /\ UNCHANGED <<registered, claimed, age, task, call, target,
                 reaperOn, reaperLeft, drains, serving>>

\* A suspended await_job resumes with what the task left, and pops the entry.
ResumeWithTask(c) ==
  /\ call[c] = "waiting"
  /\ IsDone(target[c])
  /\ c \notin disconnected
  /\ call' = [call EXCEPT ![c] = EndingOf(target[c])]
  /\ registered' = registered \ {target[c]}
  /\ UNCHANGED <<claimed, age, task, target, disconnected,
                 reaperOn, reaperLeft, drains, serving>>

\* It resumes with its own CancelledError.  A task that was cancelled from
\* outside in the meantime turns it into the ValueError; otherwise the task
\* is cancelled and drained, even one that has just finished.
ResumeCancelled(c) ==
  /\ call[c] = "waiting"
  /\ c \in disconnected
  /\ \/ /\ task[target[c]] = "cancelled"
        /\ call' = [call EXCEPT ![c] = "expired"]
        /\ UNCHANGED <<task, drains>>
     \/ /\ task[target[c]] # "cancelled"
        /\ call' = [call EXCEPT ![c] = "cancelled"]
        /\ CancelAndDrain({target[c]}, "await")
  /\ registered' = registered \ {target[c]}
  /\ UNCHANGED <<claimed, age, target, disconnected, reaperOn, reaperLeft, serving>>

\* One scan of the reaper: it pops every expired entry, awaited or not, and
\* cancels the tasks that still run.
Reap ==
  /\ reaperOn /\ reaperLeft = 0
  /\ reaperLeft' = Interval
  /\ registered' = registered \ Scanned
  /\ CancelAndDrain({j \in Scanned : ~IsDone(j)}, "reaper")
  /\ UNCHANGED <<claimed, age, call, target, disconnected, reaperOn, serving>>

\* A drainer leaves when it sees the task done or its deadline past.
DrainEnds(d) ==
  /\ d \in drains
  /\ IsDone(d.job) \/ d.left = 0
  /\ drains' = drains \ {d}
  /\ UNCHANGED <<registered, claimed, age, task, call, target, disconnected,
                 reaperOn, reaperLeft, serving>>

\* The loop shuts down: every task on it is told to cancel.  A drainer
\* swallows that and goes on to its deadline.
Shutdown ==
  /\ serving
  /\ serving' = FALSE
  /\ reaperOn' = FALSE
  /\ CancelTasks(Job)
  /\ disconnected' = disconnected \cup {c \in Caller : call[c] = "waiting"}
  /\ UNCHANGED <<registered, claimed, age, call, target, reaperLeft, drains>>

Older(n) == IF n < AgeCap THEN n + 1 ELSE AgeCap

Tick ==
  /\ reaperOn => reaperLeft > 0
  /\ \A d \in drains : d.left > 0
  /\ age' = [j \in Job |-> IF Started(j) THEN Older(age[j]) ELSE age[j]]
  /\ reaperLeft' = IF reaperOn THEN reaperLeft - 1 ELSE reaperLeft
  /\ drains' = {[d EXCEPT !.left = d.left - 1] : d \in drains}
  /\ UNCHANGED <<registered, claimed, task, call, target, disconnected,
                 reaperOn, serving>>

Resume(c) == ResumeWithTask(c) \/ ResumeCancelled(c)

Next ==
  \/ \E j \in Job : StartJob(j) \/ TaskEnds(j)
  \/ \E c \in Caller, j \in Job :
       AwaitRefused(c, j) \/ AwaitClaims(c, j) \/ AwaitDone(c, j)
  \/ \E c \in Caller : Disconnect(c) \/ Resume(c)
  \/ Reap
  \/ \E d \in drains : DrainEnds(d)
  \/ Shutdown
  \/ Tick

Spec == Init /\ [][Next]_vars

\* The loop serves what is ready and time passes.  A task that was told to
\* cancel ends, which the agent layer's bounded teardown sees to; nothing
\* says that one left alone ever does, nor that anybody awaits it.
Fairness ==
  /\ WF_vars(Tick)
  /\ WF_vars(Reap)
  /\ \A c \in Caller : WF_vars(Resume(c))
  /\ WF_vars(\E d \in drains : DrainEnds(d))
  /\ \A j \in Job : WF_vars(task[j] = "cancelling" /\ TaskEnds(j))

FairSpec == Spec /\ Fairness

-----------------------------------------------------------------------------

Held(c) == call[c] \in {"waiting"} \cup Endings

\* A job has one taker: two calls of await_job never both claim it, so its
\* result reaches one caller at most (the one-shot claimed flag, jobs.py:180).
OneTaker ==
  \A c, d \in Caller : Held(c) /\ Held(d) /\ target[c] = target[d] => c = d

\* No agent work is left running out of reach: a task that nobody told to
\* cancel still has its entry, where a caller or the reaper will find it
\* (jobs.py:133-135, 190-197).
NoOrphanTask ==
  \A j \in Job : task[j] = "running" => j \in registered

\* An entry lives no longer than the TTL and one reaper interval, the bound
\* that the stop hook's MAX_JOB_AGE takes from it (jobs.py:125-135).
EntryLifetime ==
  serving => \A j \in registered : age[j] <= TTL + Interval

\* A job nobody has claimed stays awaitable for its TTL, finished or not
\* (one-shot retention, jobs.py:167-171).
RetainedForTTL ==
  \A j \in Job : Started(j) /\ j \notin claimed /\ ~Expired(j) => j \in registered

\* The ValueError "was cancelled (TTL exceeded or server shutdown)" tells the
\* truth: no caller gets it because another one went away (jobs.py:186-189).
ExpiredIsHonest ==
  \A c \in Caller : call[c] = "expired" => ~serving \/ Expired(target[c])

\* Every call of await_job resolves, though the agent behind it may hang for
\* ever: the reaper cancels an awaited job too (jobs.py:167-170).
AwaitResolves ==
  \A c \in Caller : call[c] = "waiting" ~> call[c] # "waiting"

\* A job that is never retrieved does not leak its work: its task ends
\* (jobs.py:121-135).
WorkEnds ==
  \A j \in Job : Started(j) ~> IsDone(j)

-----------------------------------------------------------------------------

Refers(j, endings) == \E c \in Caller : target[c] = j /\ call[c] \in endings

\* The registry read as the promise it makes (JobContract).
entryOf ==
  [j \in Job |-> IF task[j] = "none" THEN "unused"
                 ELSE IF Refers(j, {"value", "error"}) THEN "given"
                 ELSE IF Refers(j, {"waiting"}) THEN "taken"
                 ELSE IF j \in registered THEN "open" ELSE "lost"]

holdersOf == [j \in Job |-> {c \in Caller : target[c] = j /\ Held(c)}]

workOf ==
  [j \in Job |-> IF IsDone(j) THEN "over"
                 ELSE IF task[j] = "running" THEN "going"
                 ELSE IF task[j] = "cancelling" THEN "stopping" ELSE "none"]

Contract == INSTANCE JobContract
              WITH entry <- entryOf, holders <- holdersOf, work <- workOf

\* The registry keeps the promise of the start/await surface: one taker, one
\* outcome, no work behind a lost entry (jobs.py:1-16).
ImplementsContract == Contract!Spec
=============================================================================
