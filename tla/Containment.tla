----------------------------- MODULE Containment -----------------------------
(***************************************************************************)
(* The containment of a seat's process tree (src/quorum/agents/base.py):   *)
(* _contained around communicate_or_kill or communicate_lines_or_kill, the *)
(* monitor that watches for descendants, the teardown that kills the       *)
(* process group and the descendants that left it, and the registry that   *)
(* a terminated parent kills.                                              *)
(*                                                                         *)
(* The task runs from an await to the next; a cancellation may arrive at   *)
(* any await.  Around it live the leader of the group, one more process of *)
(* the group, and descendants that made a session of their own.  A kernel  *)
(* reuses pids, but is taken not to do so in the seconds between the last  *)
(* look at the processes and the kill (base.py:474-486).                   *)
(***************************************************************************)
EXTENDS Integers, FiniteSets

CONSTANTS
  Pid,          \* the pids that descendants outside the group may have
  MaxCancels    \* bound: the cancellations the task is sent

ASSUME MaxCancelsAssumption == MaxCancels \in Nat

VARIABLES
  step,         \* the await the task is at
  inBody,       \* the teardown was called by the read loop
  raising,      \* the exception under way
  outcome,      \* how the context was left
  cancels,      \* cancellations sent so far
  inTime,       \* one arrived while the seat's own work was awaited (history)
  cutIn,        \* a cancellation arrived during a teardown
  degraded,     \* a pass of a teardown failed or was cut short
  monitor,      \* the background task
  known,        \* the descendants captured, with their start times
  snap,         \* the processes the last look found
  leader, child,  \* the processes of the group
  world,        \* who has each pid
  hidden,       \* descendants no look could catch (history)
  registered,   \* the group is in _LIVE_PGIDS
  parent

task == <<step, inBody, raising, outcome, cancels, inTime, cutIn, degraded, monitor,
          known, snap>>
procs == <<leader, child, world, hidden>>
vars == <<task, procs, registered, parent>>

TeardownSteps == {"stop_monitor", "last_snap", "looked", "verify", "wait"}
Steps == {"first_snap", "body", "stderr", "closing", "over"} \cup TeardownSteps

\* The monitor watches, reaps a ps it gave up on, has been cancelled, or has
\* ended.
Monitors == {"none", "watching", "reaping", "cancelled", "stopped"}

\* A linked descendant is a child of what still leads to the leader; one
\* adrift has lost that.  Both carry the start time that known records.
Ours == {"linked", "adrift"}
Occupants == {"free", "stranger", "shot"} \cup Ours

TypeOK ==
  /\ step \in Steps
  /\ inBody \in BOOLEAN
  /\ raising \in {"none", "error", "cancelled"}
  /\ outcome \in {"none", "ok", "idle", "error", "cancelled"}
  /\ cancels \in 0 .. MaxCancels
  /\ inTime \in BOOLEAN /\ cutIn \in BOOLEAN /\ degraded \in BOOLEAN
  /\ monitor \in Monitors
  /\ known \subseteq Pid
  /\ snap \in [Pid -> Occupants]
  /\ leader \in {"up", "gone"} /\ child \in {"up", "gone"}
  /\ world \in [Pid -> Occupants]
  /\ hidden \subseteq Pid
  /\ registered \in BOOLEAN
  /\ parent \in {"up", "dead"}

NoSnap == [p \in Pid |-> "free"]

\* The group was spawned and registered; the first look is under way.
Init ==
  /\ step = "first_snap" /\ inBody = FALSE
  /\ raising = "none" /\ outcome = "none"
  /\ cancels = 0 /\ inTime = FALSE /\ cutIn = FALSE /\ degraded = FALSE
  /\ monitor = "none" /\ known = {} /\ snap = NoSnap
  /\ leader = "up" /\ child \in {"up", "gone"}
  /\ world = NoSnap /\ hidden = {}
  /\ registered = TRUE /\ parent = "up"

-----------------------------------------------------------------------------
(* The processes *)

Linked == {p \in Pid : world[p] = "linked"}

\* setsid in a child of the leader.  What comes after the last look of a
\* teardown is not in it.
Fork(p) ==
  /\ leader = "up" /\ world[p] = "free" /\ p \notin known
  /\ world' = [world EXCEPT ![p] = "linked"]
  /\ hidden' = IF step = "looked" THEN hidden \cup {p} ELSE hidden \ {p}
  /\ UNCHANGED <<task, leader, child, registered, parent>>

SetAdrift == [p \in Pid |-> IF world[p] = "linked" THEN "adrift" ELSE world[p]]

LeaderExits ==
  /\ leader = "up"
  /\ leader' = "gone"
  /\ world' = SetAdrift
  /\ hidden' = hidden \cup (Linked \ known)
  /\ UNCHANGED <<task, child, registered, parent>>

ChildExits ==
  /\ child = "up"
  /\ child' = "gone"
  /\ UNCHANGED <<task, leader, world, hidden, registered, parent>>

EscapeeExits(p) ==
  /\ world[p] \in Ours
  /\ world' = [world EXCEPT ![p] = "free"]
  /\ UNCHANGED <<task, leader, child, hidden, registered, parent>>

\* The pid goes to a process that is not the one on record: somebody else's,
\* or a later descendant, because known keeps the first start time it saw.
Recycle(p) ==
  /\ step \notin {"looked", "verify"}
  /\ world[p] = "free"
  /\ world' = [world EXCEPT ![p] = "stranger"]
  /\ UNCHANGED <<task, leader, child, hidden, registered, parent>>

-----------------------------------------------------------------------------
(* The body of the context *)

aside == UNCHANGED <<inBody, cancels, inTime, cutIn>>

\* The first look seeds known and the monitor starts.
FirstSnap ==
  /\ step = "first_snap"
  /\ known' \in {Linked, {}}
  /\ monitor' = "watching"
  /\ step' = "body"
  /\ aside
  /\ UNCHANGED <<raising, outcome, degraded, snap, procs, registered, parent>>

MonitorIs(was, becomes) ==
  /\ monitor = was /\ monitor' = becomes
  /\ UNCHANGED <<step, inBody, raising, outcome, cancels, inTime, cutIn, degraded, snap,
                 procs, registered, parent>>

MonitorLooks ==
  /\ MonitorIs("watching", "watching")
  /\ known' = known \cup Linked

\* The monitor's ps does not answer and is killed; until that one is reaped
\* the monitor swallows a cancellation, and watches on.
MonitorStalls == MonitorIs("watching", "reaping") /\ UNCHANGED known
MonitorReaps  == MonitorIs("reaping", "watching") /\ UNCHANGED known

\* What the monitor is after it is sent a cancellation.
Halted ==
  CASE monitor = "watching" -> "cancelled"
    [] monitor = "reaping"  -> "watching"
    [] OTHER                -> monitor

Leave(how) ==
  /\ step' = "over"
  /\ outcome' = how
  /\ registered' = FALSE

\* The pipes are closed and the leader has exited: the monitor is cancelled
\* and awaited, and the context is left.
BodyEnds ==
  /\ step = "body" /\ leader = "gone"
  /\ step' = "closing"
  /\ monitor' = Halted
  /\ aside
  /\ UNCHANGED <<raising, outcome, degraded, known, snap, procs, registered, parent>>

Closed ==
  /\ step = "closing" /\ monitor = "cancelled"
  /\ monitor' = "stopped"
  /\ Leave("ok")
  /\ aside
  /\ UNCHANGED <<raising, degraded, known, snap, procs, parent>>

\* An exception escapes the body: the teardown starts by cancelling the
\* monitor, if there is one that runs.
Escape(e) ==
  /\ raising' = e
  /\ inBody' = FALSE
  /\ step' = IF monitor \in {"none", "stopped"} THEN "last_snap" ELSE "stop_monitor"
  /\ monitor' = Halted

\* The child closed its pipes before it read its prompt, say.  (Slip: the
\* group is taken off the registry before it is killed.)
BodyRaisesUnregistered ==
  /\ step = "body"
  /\ Escape("error")
  /\ registered' = FALSE
  /\ UNCHANGED <<outcome, cancels, inTime, cutIn, degraded, known, snap, procs, parent>>
BodyRaises ==
  /\ step = "body"
  /\ Escape("error")
  /\ UNCHANGED <<outcome, cancels, inTime, cutIn, degraded, known, snap, procs,
                 registered, parent>>

\* Nothing was read for idle_timeout, or the leader closed its pipe and does
\* not exit: the read loop calls the teardown itself ...
BodyIdles ==
  /\ step = "body"
  /\ inBody' = TRUE
  /\ step' = "stop_monitor"
  /\ monitor' = Halted
  /\ UNCHANGED <<raising, outcome, cancels, inTime, cutIn, degraded, known, snap,
                 procs, registered, parent>>

\* ... and collects stderr for a bounded time before it returns.
StderrEnds ==
  /\ step = "stderr"
  /\ Leave("idle")
  /\ aside
  /\ UNCHANGED <<raising, degraded, monitor, known, snap, procs, parent>>

-----------------------------------------------------------------------------
(* _teardown_process_tree *)

\* The await of the monitor has no timeout.
MonitorStops ==
  /\ step = "stop_monitor" /\ monitor = "cancelled"
  /\ monitor' = "stopped"
  /\ step' = "last_snap"
  /\ aside
  /\ UNCHANGED <<raising, outcome, degraded, known, snap, procs, registered, parent>>

\* The last look answers, or it fails and finds nothing.  (Slip: what it
\* finds is not added to known.)
LastLookUncaptured ==
  /\ step = "last_snap"
  /\ step' = "looked"
  /\ snap' = world
  /\ aside
  /\ UNCHANGED <<raising, outcome, degraded, monitor, known, procs, registered, parent>>
LastLook ==
  /\ step = "last_snap"
  /\ step' = "looked"
  /\ \/ /\ snap' = world
        /\ known' = known \cup Linked
        /\ UNCHANGED degraded
     \/ /\ snap' = NoSnap
        /\ degraded' = TRUE
        /\ UNCHANGED known
  /\ aside
  /\ UNCHANGED <<raising, outcome, monitor, procs, registered, parent>>

\* The captured pids the last look did not find, and those it found with
\* the start time on record.  (Slip: any process that has the pid.)
Unfound == {p \in known : snap[p] = "free"}
FoundBlindly(s) == {p \in known : s[p] # "free"}
Found(s) == {p \in known : s[p] \in Ours}

\* SIGKILL to ps, in the world w.
Killed(w, ps) == [p \in Pid |-> IF p \notin ps THEN w[p]
                                ELSE IF w[p] \in Ours THEN "free"
                                ELSE IF w[p] = "stranger" THEN "shot" ELSE w[p]]

\* killpg, whatever became of the last look; the pids it left in doubt are
\* looked at once more.
KillGroup ==
  /\ step = "looked"
  /\ leader' = "gone" /\ child' = "gone"
  /\ IF Unfound = {}
       THEN step' = "wait" /\ world' = Killed(SetAdrift, Found(snap))
       ELSE step' = "verify" /\ world' = SetAdrift
  /\ aside
  /\ UNCHANGED <<raising, outcome, degraded, monitor, known, snap, hidden, registered, parent>>

\* _verify_lstart_batch answers for them, or it does not, and they are left.
Verify ==
  /\ step = "verify"
  /\ step' = "wait"
  /\ \/ /\ world' = Killed(world, Found(snap) \cup (Unfound \cap Found(world)))
        /\ UNCHANGED degraded
     \/ /\ world' = Killed(world, Found(snap))
        /\ degraded' = TRUE
  /\ aside
  /\ UNCHANGED <<raising, outcome, monitor, known, snap, leader, child, hidden,
                 registered, parent>>

\* The teardown returns to the read loop, or to the exception under way.
TornDown ==
  IF inBody
    THEN step' = "stderr" /\ UNCHANGED <<outcome, registered>>
    ELSE Leave(raising)

WaitEnds ==
  /\ step = "wait"
  /\ TornDown
  /\ aside
  /\ UNCHANGED <<raising, degraded, monitor, known, snap, procs, parent>>

\* A process that does not die is given up after _WAIT_BOUND_S.  (Slip: it
\* is waited for.)
WaitForEver == FALSE
WaitTimesOut ==
  /\ step = "wait"
  /\ TornDown
  /\ aside
  /\ UNCHANGED <<raising, degraded, monitor, known, snap, procs, parent>>

-----------------------------------------------------------------------------
(* Cancellations *)

Cancelled ==
  /\ cancels < MaxCancels
  /\ cancels' = cancels + 1

\* At an await of the body it escapes like any exception.
CancelBody ==
  /\ step \in {"first_snap", "body", "stderr"}
  /\ Cancelled
  /\ inTime' = (inTime \/ step # "first_snap")
  /\ Escape("cancelled")
  /\ UNCHANGED <<outcome, cutIn, degraded, known, snap, procs, registered, parent>>

\* While the first look reaps a ps that did not answer it is swallowed.
CancelFirstReap ==
  /\ step = "first_snap"
  /\ Cancelled
  /\ step' = "body"
  /\ monitor' = "watching"
  /\ UNCHANGED <<inBody, raising, outcome, inTime, cutIn, degraded, known, snap, procs,
                 registered, parent>>

\* While the monitor is awaited it goes to the monitor, and no further.
CancelMonitorWait ==
  /\ step \in {"stop_monitor", "closing"}
  /\ Cancelled
  /\ cutIn' = (cutIn \/ step = "stop_monitor")
  /\ monitor' = Halted
  /\ UNCHANGED <<step, inBody, raising, outcome, inTime, degraded, known, snap, procs,
                 registered, parent>>

\* During the last look it is swallowed, too, and the look fails.  (Slip: it
\* escapes.)
CancelLookEscapes ==
  /\ step = "last_snap"
  /\ Cancelled
  /\ cutIn' = TRUE
  /\ Leave("cancelled")
  /\ UNCHANGED <<inBody, raising, inTime, degraded, monitor, known, snap, procs, parent>>
CancelLook ==
  /\ step = "last_snap"
  /\ Cancelled
  /\ cutIn' = TRUE
  /\ step' = "looked"
  /\ snap' = NoSnap
  /\ degraded' = TRUE
  /\ UNCHANGED <<inBody, raising, outcome, inTime, monitor, known, procs, registered, parent>>

\* During the second look it escapes the teardown: from the read loop's into
\* another teardown, from that one out of the context.
CancelVerify ==
  /\ step = "verify"
  /\ Cancelled
  /\ cutIn' = TRUE
  /\ degraded' = TRUE
  /\ IF inBody
       THEN Escape("cancelled") /\ UNCHANGED <<outcome, registered>>
       ELSE Leave("cancelled") /\ UNCHANGED <<inBody, raising, monitor>>
  /\ UNCHANGED <<inTime, known, snap, procs, parent>>

\* While the second look reaps its ps it is swallowed, and who was in doubt
\* is left.
CancelVerifyReap ==
  /\ step = "verify"
  /\ Cancelled
  /\ cutIn' = TRUE
  /\ degraded' = TRUE
  /\ step' = "wait"
  /\ world' = Killed(world, Found(snap))
  /\ UNCHANGED <<inBody, raising, outcome, inTime, monitor, known, snap, leader, child,
                 hidden, registered, parent>>

\* While the leader is waited for it is swallowed.
CancelWait ==
  /\ step = "wait"
  /\ Cancelled
  /\ cutIn' = TRUE
  /\ TornDown
  /\ UNCHANGED <<inBody, raising, inTime, degraded, monitor, known, snap, procs, parent>>

CancelTeardown ==
  \/ CancelMonitorWait \/ CancelLook \/ CancelVerify \/ CancelVerifyReap \/ CancelWait

\* SIGTERM or SIGHUP: the handler kills the registered groups and the parent
\* goes.
ParentTerminates ==
  /\ step # "over"
  /\ parent' = "dead"
  /\ step' = "over"
  /\ IF registered
       THEN leader' = "gone" /\ child' = "gone" /\ world' = SetAdrift
       ELSE UNCHANGED <<leader, child, world>>
  /\ registered' = FALSE
  /\ monitor' = "stopped"
  /\ UNCHANGED <<inBody, raising, outcome, cancels, inTime, cutIn, degraded, known, snap,
                 hidden>>

TeardownStep == Closed \/ MonitorStops \/ LastLook \/ KillGroup \/ Verify \/ WaitTimesOut

ProcessStep ==
  \/ \E p \in Pid : Fork(p) \/ EscapeeExits(p) \/ Recycle(p)
  \/ LeaderExits
  \/ ChildExits

Next ==
  \/ FirstSnap \/ MonitorLooks \/ MonitorStalls \/ MonitorReaps
  \/ BodyEnds \/ BodyRaises \/ BodyIdles \/ StderrEnds
  \/ TeardownStep \/ WaitEnds
  \/ CancelBody \/ CancelFirstReap \/ CancelTeardown
  \/ ParentTerminates
  \/ ProcessStep

Spec == Init /\ [][Next]_vars

\* The looks, the wait for the leader and that for stderr have timeouts, a
\* monitor that is cancelled ends, and a ps that is killed is reaped.  The
\* body may wait for ever, and a killed leader may never be reaped.
Fairness == WF_vars(TeardownStep) /\ WF_vars(StderrEnds) /\ WF_vars(MonitorReaps)

FairSpec == Spec /\ Fairness

-----------------------------------------------------------------------------

TornOut == outcome \in {"idle", "error", "cancelled"}

\* A run that did not end by itself leaves no process of its group behind,
\* however many cancellations arrive during its cleanup (base.py:638-640).
NoGroupLeft == TornOut => leader = "gone" /\ child = "gone"

\* A parent that is terminated takes the group along, also in the middle of
\* a cleanup (base.py:230-235, 659-662).
GroupDiesWithParent == parent = "dead" => leader = "gone" /\ child = "gone"

\* No process that only has the pid of a former descendant is ever killed
\* (base.py:514-523).
NoStrangerKilled == \A p \in Pid : world[p] # "shot"

\* A cleanup that no failure and no cancellation cut short leaves alive only
\* descendants that no look at the processes could have caught
\* (base.py:578-581).
EscapeesDie ==
  TornOut /\ ~degraded => \A p \in Pid : world[p] \in Ours => p \in hidden

\* The monitor is awaited, and did not hear that it was cancelled.
Deaf == step \in {"stop_monitor", "closing"} /\ monitor \in {"watching", "reaping"}

\* An exception on its way, a stall or the end of the body leaves the context
\* in bounded time, unless the monitor is deaf (base.py:569-571).
TeardownEnds == step \in TeardownSteps \cup {"closing"} ~> step = "over" \/ Deaf

\* "Our cleanup window after cancellation is bounded at a few seconds"
\* (base.py:482), whatever the monitor was doing.
CleanupBounded ==
  raising = "cancelled" /\ step \in TeardownSteps ~> step = "over"

\* "A cancellation arriving DURING teardown must win -- swallowing it would
\* make the task ignore its cancel signal" (base.py:666-668).
CancelWins == cutIn /\ outcome # "none" => outcome = "cancelled"

\* One that arrives while the seat's own work is awaited does win, whatever
\* arrives after it, and so does every exception but against a cancellation.
\* Not so one that arrives at the reaping of a ps (base.py:363-364), at the
\* await of the monitor (586-587, 680-683), in the last look (590) or in the
\* wait for the leader (598).
CancelHeard ==
  outcome # "none" =>
    /\ inTime => outcome = "cancelled"
    /\ raising # "none" => outcome \in {raising, "cancelled"}
=============================================================================
