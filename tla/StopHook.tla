------------------------------ MODULE StopHook ------------------------------
(***************************************************************************)
(* The host's session beside the job registry: the assistant calls         *)
(* q_*_start and q_await, its transcript records the calls, and the Stop   *)
(* hook (src/scripts/unawaited_job_stop_hook.py) reads the transcript      *)
(* whenever the assistant ends its turn.  The registry is Jobs; what is    *)
(* added is the transcript, the turn and a server that may restart, which  *)
(* takes every job with it.                                                *)
(***************************************************************************)
EXTENDS Jobs

VARIABLES
  start,      \* what became of the start call of each job
  since,      \* time since the timestamp of the start's result
  awaited,    \* the job ids of the q_await calls in the transcript
  turn,       \* the assistant works, or how its turn ended
  active      \* stop_hook_active

hostVars == <<start, since, awaited, turn, active>>
hvars    == <<vars, hostVars>>

\* A turn ends with the hook's leave because nothing is pending, because it
\* has blocked once already, or because it cannot read the transcript.
Turns  == {"working", "clear", "forced", "unread"}

\* The result of a start holds an id and a timestamp, an id without a
\* timestamp the hook can use, or no id at all.
Starts   == {"unmade", "asked", "known", "undated", "failed"}
Recorded == {"known", "undated"}

HTypeOK ==
  /\ start \in [Job -> Starts]
  /\ since \in [Job -> 0..AgeCap]
  /\ awaited \subseteq Job
  /\ turn \in Turns
  /\ active \in BOOLEAN

HInit ==
  /\ Init
  /\ start = [j \in Job |-> "unmade"]
  /\ since = [j \in Job |-> 0]
  /\ awaited = {}
  /\ turn = "working"
  /\ active = FALSE

-----------------------------------------------------------------------------

\* MAX_JOB_AGE, the literal copy of the server's two times.  (Slip: it
\* forgets the interval between two scans of the reaper.)
MaxJobAgeTTL == TTL
MaxJobAge == TTL + Interval

\* _expired: a start whose job the server cannot hold any more.  One without
\* a timestamp, with one that does not parse or has no time zone never is.
\* (Slip: the timestamp is not looked at.)
TooOldNever(j) == FALSE
TooOld(j) == start[j] # "undated" /\ since[j] > MaxJobAge

\* unawaited_jobs: a start whose result holds an id and is not too old, and
\* that no q_await names.  An await that failed counts as made.
Pending == {j \in Job : start[j] \in Recorded /\ ~TooOld(j) /\ j \notin awaited}

\* The assistant calls q_*_start; the server answers with the job id ...
HostStarts(j) ==
  /\ turn = "working"
  /\ start[j] = "unmade"
  /\ StartJob(j)
  /\ start' = [start EXCEPT ![j] = "asked"]
  /\ UNCHANGED <<since, awaited, turn, active>>

\* ... which the transcript records, with a timestamp of its own or without
\* one the hook can use, or does not.
HostRecords(j) ==
  /\ start[j] = "asked"
  /\ \E s \in Recorded \cup {"failed"} : start' = [start EXCEPT ![j] = s]
  /\ UNCHANGED <<vars, since, awaited, turn, active>>

\* The assistant calls q_await.  The call is in the transcript whether it
\* reaches the server or not.
HostAwaits(c, j) ==
  /\ turn = "working"
  /\ start[j] \in Recorded
  /\ awaited' = awaited \cup {j}
  /\ \/ AwaitRefused(c, j) \/ AwaitClaims(c, j) \/ AwaitDone(c, j)
     \/ UNCHANGED vars
  /\ UNCHANGED <<start, since, turn, active>>

\* The assistant ends its turn and the hook decides.  It blocks once in a
\* stop sequence, and never when it cannot read what it is given.
HostStops ==
  /\ turn = "working"
  /\ \A j \in Job : start[j] # "asked"
  /\ \/ /\ Pending # {} /\ ~active
        /\ active' = TRUE
        /\ UNCHANGED turn
     \/ /\ active
        /\ turn' = IF Pending = {} THEN "clear" ELSE "forced"
        /\ UNCHANGED active
     \/ /\ Pending = {} /\ ~active
        /\ turn' = "clear"
        /\ UNCHANGED active
     \/ /\ turn' = "unread"
        /\ UNCHANGED active
  /\ UNCHANGED <<vars, start, since, awaited>>

\* The user comes back: a new turn, and a new stop sequence.
UserReturns ==
  /\ turn # "working"
  /\ turn' = "working"
  /\ active' = FALSE
  /\ UNCHANGED <<vars, start, since, awaited>>

\* The server dies and is started again: its memory is gone, and the calls
\* that waited on it have failed.
ServerRestarts ==
  /\ registered' = {}
  /\ task' = [j \in Job |-> IF Started(j) /\ ~IsDone(j) THEN "raised" ELSE task[j]]
  /\ call' = [c \in Caller |-> IF call[c] = "waiting" THEN "error" ELSE call[c]]
  /\ drains' = {}
  /\ reaperOn' = FALSE
  /\ start' = [j \in Job |-> IF start[j] = "asked" THEN "failed" ELSE start[j]]
  /\ UNCHANGED <<claimed, age, target, disconnected, reaperLeft, serving,
                 since, awaited, turn, active>>

\* What the server does by itself, and the client's cancelled requests.
ServerStep ==
  /\ \/ \E j \in Job : TaskEnds(j)
     \/ \E c \in Caller : Disconnect(c) \/ Resume(c)
     \/ Reap
     \/ \E d \in drains : DrainEnds(d)
  /\ UNCHANGED hostVars

TimePasses ==
  /\ Tick
  /\ since' = [j \in Job |-> IF start[j] \in Recorded THEN Older(since[j]) ELSE since[j]]
  /\ UNCHANGED <<start, awaited, turn, active>>

HNext ==
  \/ \E j \in Job : HostStarts(j) \/ HostRecords(j)
  \/ \E c \in Caller, j \in Job : HostAwaits(c, j)
  \/ HostStops
  \/ UserReturns
  \/ ServerRestarts
  \/ ServerStep
  \/ TimePasses

HSpec == HInit /\ [][HNext]_hvars

\* Time passes, and the server serves its timers.  The assistant stops when
\* it will, the user comes back or not.
HFairness ==
  /\ WF_hvars(TimePasses)
  /\ WF_hvars(Reap /\ UNCHANGED hostVars)
  /\ WF_hvars((\E d \in drains : DrainEnds(d)) /\ UNCHANGED hostVars)

HFairSpec == HSpec /\ HFairness

-----------------------------------------------------------------------------

\* A turn the hook lets end as clear leaves no job behind: what the server
\* still holds for this session has been asked for with q_await
\* (unawaited_job_stop_hook.py:27-29, 136).
NothingLeftBehind ==
  turn = "clear" =>
    \A j \in registered \ claimed : start[j] \in Recorded => j \in awaited

\* A job whose start the transcript dates stops blocking the turns of the
\* session although nobody ever awaits it, even after a restart that lost it
\* (unawaited_job_stop_hook.py:27-29, 46-56).  A start the hook cannot date is
\* the exception the code makes: it holds up every later turn once, until a
\* q_await names it.
StopsBlocking ==
  \A j \in Job :
    j \in Pending ~> j \notin Pending \/ start[j] = "undated"
=============================================================================
