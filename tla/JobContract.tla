---------------------------- MODULE JobContract -----------------------------
(***************************************************************************)
(* What the start/await tool surface promises of a job, whatever tasks,    *)
(* flags, reapers and drainers it is made of: a job is accepted once, has  *)
(* one taker, hands its outcome over once, and no work goes on unattended  *)
(* behind an entry that is lost.                                           *)
(***************************************************************************)
CONSTANTS Job, Caller

VARIABLES
  entry,     \* what can still be had of each job
  holders,   \* the calls that took it
  work       \* the agents' work behind it

vars == <<entry, holders, work>>

Entries == {"unused", "open", "taken", "given", "lost"}
Works   == {"none", "going", "stopping", "over"}

ContractTypeOK ==
  /\ entry \in [Job -> Entries]
  /\ holders \in [Job -> SUBSET Caller]
  /\ work \in [Job -> Works]

Init ==
  /\ entry = [j \in Job |-> "unused"]
  /\ holders = [j \in Job |-> {}]
  /\ work = [j \in Job |-> "none"]

Stopped(js) ==
  [j \in Job |-> IF j \in js /\ work[j] = "going" THEN "stopping" ELSE work[j]]

Accept(j) ==
  /\ entry[j] = "unused"
  /\ entry' = [entry EXCEPT ![j] = "open"]
  /\ work' = [work EXCEPT ![j] = "going"]
  /\ UNCHANGED holders

Finish(j) ==
  /\ work[j] \in {"going", "stopping"}
  /\ work' = [work EXCEPT ![j] = "over"]
  /\ UNCHANGED <<entry, holders>>

\* A caller takes an open job; if the work is over it has the outcome, or
\* learns of the loss, in the same step.
Take(c, j) ==
  /\ entry[j] = "open"
  /\ \E e \in IF work[j] = "over" THEN {"given", "lost"} ELSE {"taken"} :
       entry' = [entry EXCEPT ![j] = e]
  /\ holders' = [holders EXCEPT ![j] = @ \cup {c}]
  /\ UNCHANGED work

Give(j) ==
  /\ entry[j] = "taken"
  /\ work[j] = "over"
  /\ entry' = [entry EXCEPT ![j] = "given"]
  /\ UNCHANGED <<holders, work>>

\* The taker goes away, or learns that the work was stopped: what is left
\* of the work stops with the entry.
Lose(j) ==
  /\ entry[j] = "taken"
  /\ entry' = [entry EXCEPT ![j] = "lost"]
  /\ work' = Stopped({j})
  /\ UNCHANGED holders

\* Jobs too old to keep: the open ones are lost, a taken one is still its
\* taker's to hear about, and the work behind them stops.
Expire(js) ==
  /\ \A j \in js : entry[j] \in {"open", "taken"}
  /\ entry' = [j \in Job |-> IF j \in js /\ entry[j] = "open"
                             THEN "lost" ELSE entry[j]]
  /\ work' = Stopped(js)
  /\ UNCHANGED holders

\* The server stops everything it runs.
StopAll ==
  /\ work' = Stopped(Job)
  /\ UNCHANGED <<entry, holders>>

Next ==
  \/ \E j \in Job : Accept(j) \/ Finish(j) \/ Give(j) \/ Lose(j)
  \/ \E c \in Caller, j \in Job : Take(c, j)
  \/ \E js \in SUBSET Job : Expire(js)
  \/ StopAll

Spec == Init /\ [][Next]_vars
=============================================================================
