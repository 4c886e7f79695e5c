-------------------------- MODULE ContainmentProofs --------------------------
(***************************************************************************)
(* Theorems about Containment, for any number of descendants and of        *)
(* cancellations.  The invariant follows one teardown: until it is over    *)
(* the group is registered, from the kill on the group is gone, from the   *)
(* last look to the kill no pid changes hands, and a descendant that is    *)
(* adrift was captured or could not be.                                    *)
(***************************************************************************)
EXTENDS Containment, TLAPS

USE MaxCancelsAssumption

\* The group stays registered, in a parent that lives, until the context is
\* left; a terminated parent killed it.
StillRegistered ==
  /\ step # "over" => registered /\ parent = "up"
  /\ GroupDiesWithParent

\* From the kill on the group is gone.
GroupKilled ==
  step \in {"verify", "wait", "stderr"} \/ TornOut => leader = "gone" /\ child = "gone"

\* From the last look to the kill a descendant that was found may exit, and
\* nobody else gets its pid.
LookIsFresh ==
  step \in {"looked", "verify"} =>
    \A p \in Pid : snap[p] \in Ours => world[p] \in Ours \cup {"free"}

\* While no pass was cut short: who is adrift was captured, or hidden from
\* every look; the last look found all the others; the kill spares nobody.
Captured ==
  parent = "up" /\ ~degraded =>
    /\ step = "first_snap" => known = {} /\ monitor = "none"
    /\ \A p \in Pid : world[p] = "adrift" => p \in known \cup hidden
    /\ step \in {"looked", "verify"} =>
         \A p \in Pid : world[p] \in Ours => p \in hidden \/ (p \in known /\ snap[p] \in Ours)
    /\ step \in {"wait", "stderr"} \/ TornOut =>
         \A p \in Pid : world[p] \in Ours => p \in hidden

\* A context that was left is over, and the parent did not die in it.
LeftIsOver ==
  /\ outcome # "none" => step = "over"
  /\ parent = "dead" => outcome = "none"

IInv ==
  /\ TypeOK
  /\ LeftIsOver
  /\ StillRegistered
  /\ GroupKilled
  /\ LookIsFresh
  /\ NoStrangerKilled
  /\ Captured

Flow == LeftIsOver /\ StillRegistered /\ GroupKilled
Looks == LookIsFresh /\ NoStrangerKilled

LEMMA CancelsType ==
  ASSUME TypeOK, Cancelled
  PROVE  cancels' \in 0 .. MaxCancels
BY DEF TypeOK, Cancelled

LEMMA SnapTypes ==
  /\ NoSnap \in [Pid -> Occupants] /\ Linked \subseteq Pid
  /\ world \in [Pid -> Occupants] => \A ps : Killed(world, ps) \in [Pid -> Occupants]
BY DEF NoSnap, Occupants, Ours, Linked, Killed

LEMMA InitIInv == Init => IInv
<1> SUFFICES ASSUME Init PROVE IInv
  OBVIOUS
<1>1. TypeOK
  <2>1. cancels \in 0 .. MaxCancels
    BY DEF Init
  <2>2. step \in Steps
    BY DEF Init, Steps, Monitors
  <2> QED BY <2>1, <2>2, SnapTypes DEF Init, TypeOK, Monitors
<1>2. Flow
  BY DEF Init, Flow, LeftIsOver, StillRegistered, GroupDiesWithParent, GroupKilled,
     TornOut
<1>3. Looks /\ Captured
  BY DEF Init, NoSnap, Looks, LookIsFresh, NoStrangerKilled, Captured, Ours, TornOut
<1> QED BY <1>1, <1>2, <1>3 DEF IInv, Flow, Looks

\* What most steps leave alone, so that only the flow is at stake.
LEMMA LooksKept ==
  ASSUME IInv, UNCHANGED <<world, snap>>,
         step' \in {"looked", "verify"} => step \in {"looked", "verify"}
  PROVE  Looks'
BY DEF IInv, Looks, LookIsFresh, NoStrangerKilled

\* The processes around the task fork, exit and get their pids reused.
LEMMA ProcessSteps ==
  ASSUME IInv,
         \/ \E p \in Pid : Fork(p) \/ EscapeeExits(p) \/ Recycle(p)
         \/ LeaderExits
         \/ ChildExits
  PROVE  IInv'
<1>1. ASSUME NEW p \in Pid, Fork(p) PROVE IInv'
  <2>1. TypeOK'
    BY <1>1 DEF IInv, TypeOK, Steps, TeardownSteps, Monitors, Halted, Occupants, Ours, Fork, Linked, task
  <2>2. Flow'
    BY <1>1 DEF IInv, Flow, LeftIsOver, StillRegistered, GroupDiesWithParent,
       GroupKilled, TornOut, TypeOK, Fork, Linked, task
  <2>3. Looks'
    BY <1>1 DEF IInv, Looks, LookIsFresh, NoStrangerKilled, TypeOK, Occupants, Ours,
       Fork, Linked, task
  <2>4. Captured'
    BY <1>1 DEF IInv, Captured, TornOut, LeftIsOver, StillRegistered, GroupKilled,
       TypeOK, Occupants, Ours, Fork, Linked, task
  <2> QED BY <2>1, <2>2, <2>3, <2>4 DEF IInv, Flow, Looks
<1>2. ASSUME NEW p \in Pid, EscapeeExits(p) PROVE IInv'
  <2>1. TypeOK'
    BY <1>2 DEF IInv, TypeOK, Steps, TeardownSteps, Monitors, Halted, Occupants, Ours, EscapeeExits, task
  <2>2. Flow'
    BY <1>2 DEF IInv, Flow, LeftIsOver, StillRegistered, GroupDiesWithParent,
       GroupKilled, TornOut, TypeOK, EscapeeExits, task
  <2>3. Looks'
    BY <1>2 DEF IInv, Looks, LookIsFresh, NoStrangerKilled, TypeOK, Occupants, Ours,
       EscapeeExits, task
  <2>4. Captured'
    BY <1>2 DEF IInv, Captured, TornOut, LeftIsOver, StillRegistered, GroupKilled,
       TypeOK, Occupants, Ours, EscapeeExits, task
  <2> QED BY <2>1, <2>2, <2>3, <2>4 DEF IInv, Flow, Looks
<1>3. ASSUME NEW p \in Pid, Recycle(p) PROVE IInv'
  <2>1. TypeOK'
    BY <1>3 DEF IInv, TypeOK, Steps, TeardownSteps, Monitors, Halted, Occupants, Ours, Recycle, task
  <2>2. Flow'
    BY <1>3 DEF IInv, Flow, LeftIsOver, StillRegistered, GroupDiesWithParent,
       GroupKilled, TornOut, TypeOK, Recycle, task
  <2>3. Looks'
    BY <1>3 DEF IInv, Looks, LookIsFresh, NoStrangerKilled, TypeOK, Occupants, Ours,
       Recycle, task
  <2>4. Captured'
    BY <1>3 DEF IInv, Captured, TornOut, LeftIsOver, StillRegistered, GroupKilled,
       TypeOK, Occupants, Ours, Recycle, task
  <2> QED BY <2>1, <2>2, <2>3, <2>4 DEF IInv, Flow, Looks
<1>4. ASSUME LeaderExits PROVE IInv'
  <2>1. TypeOK'
    BY <1>4 DEF IInv, TypeOK, Steps, TeardownSteps, Monitors, Halted, Occupants, Ours, LeaderExits,
       SetAdrift, Linked, task
  <2>2. Flow'
    BY <1>4 DEF IInv, Flow, LeftIsOver, StillRegistered, GroupDiesWithParent,
       GroupKilled, TornOut, TypeOK, LeaderExits, SetAdrift, Linked, task
  <2>3. Looks'
    BY <1>4 DEF IInv, Looks, LookIsFresh, NoStrangerKilled, TypeOK, Occupants, Ours,
       LeaderExits, SetAdrift, Linked, task
  <2>4. Captured'
    BY <1>4 DEF IInv, Captured, TornOut, LeftIsOver, StillRegistered, GroupKilled,
       TypeOK, Occupants, Ours, LeaderExits, SetAdrift, Linked, task
  <2> QED BY <2>1, <2>2, <2>3, <2>4 DEF IInv, Flow, Looks
<1>5. ASSUME ChildExits PROVE IInv'
  <2>1. TypeOK'
    BY <1>5 DEF IInv, TypeOK, Steps, TeardownSteps, Monitors, Halted, ChildExits, task
  <2>2. Flow'
    BY <1>5 DEF IInv, Flow, LeftIsOver, StillRegistered, GroupDiesWithParent,
       GroupKilled, TornOut, TypeOK, ChildExits, task
  <2>3. Looks'
    BY <1>5 DEF IInv, Looks, LookIsFresh, NoStrangerKilled, TypeOK, Occupants, Ours,
       ChildExits, task
  <2>4. Captured'
    BY <1>5 DEF IInv, Captured, TornOut, LeftIsOver, StillRegistered, GroupKilled,
       TypeOK, Occupants, Ours, ChildExits, task
  <2> QED BY <2>1, <2>2, <2>3, <2>4 DEF IInv, Flow, Looks
<1> QED BY <1>1, <1>2, <1>3, <1>4, <1>5

\* The context is entered, watched and left, or something escapes from it.
LEMMA BodySteps ==
  ASSUME IInv,
         \/ FirstSnap \/ MonitorLooks \/ MonitorStalls \/ MonitorReaps
         \/ BodyEnds \/ BodyRaises \/ BodyIdles \/ StderrEnds
  PROVE  IInv'
<1>1. ASSUME FirstSnap PROVE IInv'
  <2>1. TypeOK'
    BY <1>1 DEF IInv, TypeOK, Steps, TeardownSteps, Monitors, Halted, FirstSnap, Linked, aside, procs
  <2>2. Flow'
    BY <1>1 DEF IInv, Flow, LeftIsOver, StillRegistered, GroupDiesWithParent,
       GroupKilled, TornOut, TypeOK, FirstSnap, Linked, aside, procs
  <2>3. Looks'
    BY <1>1, LooksKept DEF FirstSnap, Linked, procs
  <2>4. Captured'
    BY <1>1 DEF IInv, Captured, TornOut, LeftIsOver, StillRegistered, GroupKilled,
       TypeOK, Occupants, Ours, FirstSnap, Linked, aside, procs
  <2> QED BY <2>1, <2>2, <2>3, <2>4 DEF IInv, Flow, Looks
<1>2. ASSUME MonitorLooks PROVE IInv'
  <2>1. TypeOK'
    BY <1>2 DEF IInv, TypeOK, Steps, TeardownSteps, Monitors, Halted, MonitorLooks, MonitorIs, Linked, procs
  <2>2. Flow'
    BY <1>2 DEF IInv, Flow, LeftIsOver, StillRegistered, GroupDiesWithParent,
       GroupKilled, TornOut, TypeOK, MonitorLooks, MonitorIs, Linked, procs
  <2>3. Looks'
    BY <1>2, LooksKept DEF MonitorLooks, MonitorIs, Linked, procs
  <2>4. Captured'
    BY <1>2 DEF IInv, Captured, TornOut, LeftIsOver, StillRegistered, GroupKilled,
       TypeOK, Occupants, Ours, MonitorLooks, MonitorIs, Linked, procs
  <2> QED BY <2>1, <2>2, <2>3, <2>4 DEF IInv, Flow, Looks
<1>3. ASSUME BodyEnds PROVE IInv'
  <2>1. TypeOK'
    BY <1>3 DEF IInv, TypeOK, Steps, TeardownSteps, Monitors, Halted, BodyEnds, Halted, aside, procs
  <2>2. Flow'
    BY <1>3 DEF IInv, Flow, LeftIsOver, StillRegistered, GroupDiesWithParent,
       GroupKilled, TornOut, TypeOK, BodyEnds, Halted, aside, procs
  <2>3. Looks'
    BY <1>3, LooksKept DEF BodyEnds, procs
  <2>4. Captured'
    BY <1>3 DEF IInv, Captured, TornOut, LeftIsOver, StillRegistered, GroupKilled,
       TypeOK, Occupants, Ours, BodyEnds, Halted, aside, procs
  <2> QED BY <2>1, <2>2, <2>3, <2>4 DEF IInv, Flow, Looks
<1>4. ASSUME BodyRaises PROVE IInv'
  <2>1. TypeOK'
    BY <1>4 DEF IInv, TypeOK, Steps, TeardownSteps, Monitors, Halted, BodyRaises, Escape, Halted, procs
  <2>2. Flow'
    BY <1>4 DEF IInv, Flow, LeftIsOver, StillRegistered, GroupDiesWithParent,
       GroupKilled, TornOut, TypeOK, BodyRaises, Escape, Halted, procs
  <2>3. Looks'
    BY <1>4, LooksKept DEF BodyRaises, Escape, Halted, procs
  <2>4. Captured'
    BY <1>4 DEF IInv, Captured, TornOut, LeftIsOver, StillRegistered, GroupKilled,
       TypeOK, Occupants, Ours, BodyRaises, Escape, Halted, procs
  <2> QED BY <2>1, <2>2, <2>3, <2>4 DEF IInv, Flow, Looks
<1>5. ASSUME BodyIdles PROVE IInv'
  <2>1. TypeOK'
    BY <1>5 DEF IInv, TypeOK, Steps, TeardownSteps, Monitors, Halted, BodyIdles, Halted, procs
  <2>2. Flow'
    BY <1>5 DEF IInv, Flow, LeftIsOver, StillRegistered, GroupDiesWithParent,
       GroupKilled, TornOut, TypeOK, BodyIdles, Halted, procs
  <2>3. Looks'
    BY <1>5, LooksKept DEF BodyIdles, Halted, procs
  <2>4. Captured'
    BY <1>5 DEF IInv, Captured, TornOut, LeftIsOver, StillRegistered, GroupKilled,
       TypeOK, Occupants, Ours, BodyIdles, Halted, procs
  <2> QED BY <2>1, <2>2, <2>3, <2>4 DEF IInv, Flow, Looks
<1>6. ASSUME StderrEnds PROVE IInv'
  <2>1. TypeOK'
    BY <1>6 DEF IInv, TypeOK, Steps, TeardownSteps, StderrEnds, Leave, aside, procs
  <2>2. Flow'
    BY <1>6 DEF IInv, Flow, LeftIsOver, StillRegistered, GroupDiesWithParent,
       GroupKilled, TornOut, TypeOK, StderrEnds, Leave, aside, procs
  <2>3. Looks'
    BY <1>6, LooksKept DEF StderrEnds, Leave, procs
  <2>4. Captured'
    BY <1>6 DEF IInv, Captured, TornOut, LeftIsOver, StillRegistered, GroupKilled,
       TypeOK, Occupants, Ours, StderrEnds, Leave, aside, procs
  <2> QED BY <2>1, <2>2, <2>3, <2>4 DEF IInv, Flow, Looks
<1>7. ASSUME MonitorStalls PROVE IInv'
  <2>1. TypeOK'
    BY <1>7 DEF IInv, TypeOK, Steps, TeardownSteps, Monitors, Halted,
       MonitorStalls, MonitorIs, procs
  <2>2. Flow'
    BY <1>7 DEF IInv, Flow, LeftIsOver, StillRegistered, GroupDiesWithParent,
       GroupKilled, TornOut, TypeOK, MonitorStalls, MonitorIs, procs
  <2>3. Looks'
    BY <1>7, LooksKept DEF MonitorStalls, MonitorIs, procs
  <2>4. Captured'
    BY <1>7 DEF IInv, Captured, TornOut, LeftIsOver, StillRegistered, GroupKilled,
       TypeOK, Occupants, Ours, MonitorStalls, MonitorIs, procs
  <2> QED BY <2>1, <2>2, <2>3, <2>4 DEF IInv, Flow, Looks
<1>8. ASSUME MonitorReaps PROVE IInv'
  <2>1. TypeOK'
    BY <1>8 DEF IInv, TypeOK, Steps, TeardownSteps, Monitors, Halted,
       MonitorReaps, MonitorIs, procs
  <2>2. Flow'
    BY <1>8 DEF IInv, Flow, LeftIsOver, StillRegistered, GroupDiesWithParent,
       GroupKilled, TornOut, TypeOK, MonitorReaps, MonitorIs, procs
  <2>3. Looks'
    BY <1>8, LooksKept DEF MonitorReaps, MonitorIs, procs
  <2>4. Captured'
    BY <1>8 DEF IInv, Captured, TornOut, LeftIsOver, StillRegistered, GroupKilled,
       TypeOK, Occupants, Ours, MonitorReaps, MonitorIs, procs
  <2> QED BY <2>1, <2>2, <2>3, <2>4 DEF IInv, Flow, Looks
<1> QED BY <1>1, <1>2, <1>3, <1>4, <1>5, <1>6, <1>7, <1>8

\* The teardown stops the monitor, looks, kills and waits.
LEMMA TearingDown ==
  ASSUME IInv,
         TeardownStep \/ WaitEnds
  PROVE  IInv'
<1>1. ASSUME MonitorStops PROVE IInv'
  <2>1. TypeOK'
    BY <1>1 DEF IInv, TypeOK, Steps, TeardownSteps, Monitors, Halted, MonitorStops, aside, procs
  <2>2. Flow'
    BY <1>1 DEF IInv, Flow, LeftIsOver, StillRegistered, GroupDiesWithParent,
       GroupKilled, TornOut, TypeOK, MonitorStops, aside, procs
  <2>3. Looks'
    BY <1>1, LooksKept DEF MonitorStops, procs
  <2>4. Captured'
    BY <1>1 DEF IInv, Captured, TornOut, LeftIsOver, StillRegistered, GroupKilled,
       TypeOK, Occupants, Ours, MonitorStops, aside, procs
  <2> QED BY <2>1, <2>2, <2>3, <2>4 DEF IInv, Flow, Looks
<1>2. ASSUME LastLook PROVE IInv'
  <2>1. TypeOK'
    <3>1. snap' \in [Pid -> Occupants] /\ known' \subseteq Pid
      BY <1>2, SnapTypes DEF IInv, TypeOK, LastLook
    <3>2. degraded' \in BOOLEAN
      BY <1>2 DEF IInv, TypeOK, LastLook
    <3> QED BY <1>2, <3>1, <3>2 DEF IInv, TypeOK, Steps, TeardownSteps, Monitors, Halted, LastLook, aside,
       procs
  <2>2. Flow'
    BY <1>2 DEF IInv, Flow, LeftIsOver, StillRegistered, GroupDiesWithParent,
       GroupKilled, TornOut, TypeOK, LastLook, Linked, NoSnap, aside, procs
  <2>3. Looks'
    BY <1>2 DEF IInv, Looks, LookIsFresh, NoStrangerKilled, TypeOK, Occupants, Ours,
       LastLook, Linked, NoSnap, aside, procs
  <2>4. Captured'
    BY <1>2 DEF IInv, Captured, TornOut, LeftIsOver, StillRegistered, GroupKilled,
       TypeOK, Occupants, Ours, LastLook, Linked, NoSnap, aside, procs
  <2> QED BY <2>1, <2>2, <2>3, <2>4 DEF IInv, Flow, Looks
<1>3. ASSUME KillGroup PROVE IInv'
  <2>1. TypeOK'
    BY <1>3 DEF IInv, TypeOK, Steps, TeardownSteps, Monitors, Halted, Occupants, Ours, KillGroup, Killed,
       SetAdrift, Found, Unfound, aside
  <2>2. Flow'
    BY <1>3 DEF IInv, Flow, LeftIsOver, StillRegistered, GroupDiesWithParent,
       GroupKilled, TornOut, TypeOK, KillGroup, Killed, SetAdrift, Found, Unfound, aside
  <2>3. Looks'
    BY <1>3 DEF IInv, Looks, LookIsFresh, NoStrangerKilled, TypeOK, Occupants, Ours,
       KillGroup, Killed, SetAdrift, Found, Unfound, aside
  <2>4. Captured'
    BY <1>3 DEF IInv, Captured, TornOut, LeftIsOver, StillRegistered, GroupKilled,
       TypeOK, Occupants, Ours, KillGroup, Killed, SetAdrift, Found, Unfound, aside
  <2> QED BY <2>1, <2>2, <2>3, <2>4 DEF IInv, Flow, Looks
<1>4. ASSUME Verify PROVE IInv'
  <2>1. TypeOK'
    <3>1. world' \in [Pid -> Occupants]
      BY <1>4, SnapTypes DEF IInv, TypeOK, Verify
    <3>2. degraded' \in BOOLEAN
      BY <1>4 DEF IInv, TypeOK, Verify
    <3> QED BY <1>4, <3>1, <3>2 DEF IInv, TypeOK, Steps, TeardownSteps, Monitors, Halted, Verify, aside
  <2>2. Flow'
    BY <1>4 DEF IInv, Flow, LeftIsOver, StillRegistered, GroupDiesWithParent,
       GroupKilled, TornOut, TypeOK, Verify, Killed, Found, Unfound, aside
  <2>3. Looks'
    BY <1>4 DEF IInv, Looks, LookIsFresh, NoStrangerKilled, TypeOK, Occupants, Ours,
       Verify, Killed, Found, Unfound, aside
  <2>4. Captured'
    BY <1>4 DEF IInv, Captured, TornOut, LeftIsOver, StillRegistered, GroupKilled,
       TypeOK, Occupants, Ours, Verify, Killed, Found, Unfound, aside
  <2> QED BY <2>1, <2>2, <2>3, <2>4 DEF IInv, Flow, Looks
<1>5. ASSUME WaitTimesOut PROVE IInv'
  <2>1. TypeOK'
    BY <1>5 DEF IInv, TypeOK, Steps, TeardownSteps, WaitTimesOut, TornDown, Leave,
       aside, procs
  <2>2. Flow'
    BY <1>5 DEF IInv, Flow, LeftIsOver, StillRegistered, GroupDiesWithParent,
       GroupKilled, TornOut, TypeOK, WaitTimesOut, TornDown, Leave, aside, procs
  <2>3. Looks'
    BY <1>5, LooksKept DEF WaitTimesOut, TornDown, Leave, procs
  <2>4. Captured'
    BY <1>5 DEF IInv, Captured, TornOut, LeftIsOver, StillRegistered, GroupKilled,
       TypeOK, Occupants, Ours, WaitTimesOut, TornDown, Leave, aside, procs
  <2> QED BY <2>1, <2>2, <2>3, <2>4 DEF IInv, Flow, Looks
<1>6. ASSUME WaitEnds PROVE IInv'
  <2>1. TypeOK'
    BY <1>6 DEF IInv, TypeOK, Steps, TeardownSteps, WaitEnds, TornDown, Leave, aside,
       procs
  <2>2. Flow'
    BY <1>6 DEF IInv, Flow, LeftIsOver, StillRegistered, GroupDiesWithParent,
       GroupKilled, TornOut, TypeOK, WaitEnds, TornDown, Leave, aside, procs
  <2>3. Looks'
    BY <1>6, LooksKept DEF WaitEnds, TornDown, Leave, procs
  <2>4. Captured'
    BY <1>6 DEF IInv, Captured, TornOut, LeftIsOver, StillRegistered, GroupKilled,
       TypeOK, Occupants, Ours, WaitEnds, TornDown, Leave, aside, procs
  <2> QED BY <2>1, <2>2, <2>3, <2>4 DEF IInv, Flow, Looks
<1>7. ASSUME Closed PROVE IInv'
  <2>1. TypeOK'
    BY <1>7 DEF IInv, TypeOK, Steps, TeardownSteps, Monitors, Halted,
       Closed, Leave, aside, procs
  <2>2. Flow'
    BY <1>7 DEF IInv, Flow, LeftIsOver, StillRegistered, GroupDiesWithParent,
       GroupKilled, TornOut, TypeOK, Closed, Leave, aside, procs
  <2>3. Looks'
    BY <1>7, LooksKept DEF Closed, Leave, aside, procs
  <2>4. Captured'
    BY <1>7 DEF IInv, Captured, TornOut, LeftIsOver, StillRegistered, GroupKilled,
       TypeOK, Occupants, Ours, Closed, Leave, aside, procs
  <2> QED BY <2>1, <2>2, <2>3, <2>4 DEF IInv, Flow, Looks
<1> QED BY <1>1, <1>2, <1>3, <1>4, <1>5, <1>6, <1>7 DEF TeardownStep

\* A cancellation arrives at one of the awaits.
LEMMA CancelSteps ==
  ASSUME IInv,
         CancelBody \/ CancelFirstReap \/ CancelTeardown
  PROVE  IInv'
<1>1. ASSUME CancelBody PROVE IInv'
  <2>1. TypeOK'
    BY <1>1, CancelsType DEF IInv, TypeOK, Steps, TeardownSteps, Monitors, Halted, CancelBody, Escape,
       procs
  <2>2. Flow'
    BY <1>1 DEF IInv, Flow, LeftIsOver, StillRegistered, GroupDiesWithParent,
       GroupKilled, TornOut, TypeOK, CancelBody, Cancelled, Escape, Halted, procs
  <2>3. Looks'
    BY <1>1, LooksKept DEF CancelBody, Cancelled, Escape, Halted, procs
  <2>4. Captured'
    BY <1>1 DEF IInv, Captured, TornOut, LeftIsOver, StillRegistered, GroupKilled,
       TypeOK, Occupants, Ours, CancelBody, Cancelled, Escape, Halted, procs
  <2> QED BY <2>1, <2>2, <2>3, <2>4 DEF IInv, Flow, Looks
<1>2. ASSUME CancelMonitorWait PROVE IInv'
  <2>1. TypeOK'
    BY <1>2, CancelsType DEF IInv, TypeOK, Steps, TeardownSteps, Monitors, Halted, CancelMonitorWait,
       procs
  <2>2. Flow'
    BY <1>2 DEF IInv, Flow, LeftIsOver, StillRegistered, GroupDiesWithParent,
       GroupKilled, TornOut, TypeOK, CancelMonitorWait, Cancelled, Halted, procs
  <2>3. Looks'
    BY <1>2, LooksKept DEF CancelMonitorWait, Cancelled, Halted, procs
  <2>4. Captured'
    BY <1>2 DEF IInv, Captured, TornOut, LeftIsOver, StillRegistered, GroupKilled,
       TypeOK, Occupants, Ours, CancelMonitorWait, Cancelled, Halted, procs
  <2> QED BY <2>1, <2>2, <2>3, <2>4 DEF IInv, Flow, Looks
<1>3. ASSUME CancelLook PROVE IInv'
  <2>1. TypeOK'
    <3>1. snap' \in [Pid -> Occupants]
      BY <1>3, SnapTypes DEF IInv, TypeOK, CancelLook
    <3> QED BY <1>3, <3>1, CancelsType DEF IInv, TypeOK, Steps, TeardownSteps, Monitors, Halted,
       CancelLook, procs
  <2>2. Flow'
    BY <1>3 DEF IInv, Flow, LeftIsOver, StillRegistered, GroupDiesWithParent,
       GroupKilled, TornOut, TypeOK, CancelLook, Cancelled, NoSnap, procs
  <2>3. Looks'
    BY <1>3 DEF IInv, Looks, LookIsFresh, NoStrangerKilled, TypeOK, Occupants, Ours,
       CancelLook, Cancelled, NoSnap, procs
  <2>4. Captured'
    BY <1>3 DEF IInv, Captured, TornOut, LeftIsOver, StillRegistered, GroupKilled,
       TypeOK, Occupants, Ours, CancelLook, Cancelled, NoSnap, procs
  <2> QED BY <2>1, <2>2, <2>3, <2>4 DEF IInv, Flow, Looks
<1>4. ASSUME CancelVerify PROVE IInv'
  <2>1. TypeOK'
    BY <1>4, CancelsType DEF IInv, TypeOK, Steps, TeardownSteps, Monitors, Halted, CancelVerify, Escape,
       Leave, procs
  <2>2. Flow'
    BY <1>4 DEF IInv, Flow, LeftIsOver, StillRegistered, GroupDiesWithParent,
       GroupKilled, TornOut, TypeOK, CancelVerify, Cancelled, Escape, Halted, Leave, procs
  <2>3. Looks'
    BY <1>4, LooksKept DEF CancelVerify, Cancelled, Escape, Halted, Leave, procs
  <2>4. Captured'
    BY <1>4 DEF IInv, Captured, TornOut, LeftIsOver, StillRegistered, GroupKilled,
       TypeOK, Occupants, Ours, CancelVerify, Cancelled, Escape, Halted, Leave, procs
  <2> QED BY <2>1, <2>2, <2>3, <2>4 DEF IInv, Flow, Looks
<1>5. ASSUME CancelWait PROVE IInv'
  <2>1. TypeOK'
    BY <1>5, CancelsType DEF IInv, TypeOK, Steps, TeardownSteps, CancelWait, TornDown,
       Leave, procs
  <2>2. Flow'
    BY <1>5 DEF IInv, Flow, LeftIsOver, StillRegistered, GroupDiesWithParent,
       GroupKilled, TornOut, TypeOK, CancelWait, Cancelled, TornDown, Leave, procs
  <2>3. Looks'
    BY <1>5, LooksKept DEF CancelWait, Cancelled, TornDown, Leave, procs
  <2>4. Captured'
    BY <1>5 DEF IInv, Captured, TornOut, LeftIsOver, StillRegistered, GroupKilled,
       TypeOK, Occupants, Ours, CancelWait, Cancelled, TornDown, Leave, procs
  <2> QED BY <2>1, <2>2, <2>3, <2>4 DEF IInv, Flow, Looks
<1>6. ASSUME CancelFirstReap PROVE IInv'
  <2>1. TypeOK'
    BY <1>6, CancelsType DEF IInv, TypeOK, Steps, TeardownSteps, Monitors, Halted,
       CancelFirstReap, Cancelled, procs
  <2>2. Flow'
    BY <1>6 DEF IInv, Flow, LeftIsOver, StillRegistered, GroupDiesWithParent,
       GroupKilled, TornOut, TypeOK, CancelFirstReap, Cancelled, procs
  <2>3. Looks'
    BY <1>6, LooksKept DEF CancelFirstReap, Cancelled, procs
  <2>4. Captured'
    BY <1>6 DEF IInv, Captured, TornOut, LeftIsOver, StillRegistered, GroupKilled,
       TypeOK, Occupants, Ours, CancelFirstReap, Cancelled, procs
  <2> QED BY <2>1, <2>2, <2>3, <2>4 DEF IInv, Flow, Looks
<1>7. ASSUME CancelVerifyReap PROVE IInv'
  <2>1. TypeOK'
    <3>1. world' \in [Pid -> Occupants]
      BY <1>7, SnapTypes DEF IInv, TypeOK, CancelVerifyReap
    <3> QED BY <1>7, <3>1, CancelsType DEF IInv, TypeOK, Steps, TeardownSteps, Monitors,
       CancelVerifyReap
  <2>2. Flow'
    BY <1>7 DEF IInv, Flow, LeftIsOver, StillRegistered, GroupDiesWithParent,
       GroupKilled, TornOut, TypeOK, CancelVerifyReap, Cancelled
  <2>3. Looks'
    BY <1>7 DEF IInv, Looks, LookIsFresh, NoStrangerKilled, TypeOK, Occupants, Ours,
       CancelVerifyReap, Cancelled, Killed, Found
  <2>4. Captured'
    BY <1>7 DEF IInv, Captured, TornOut, LeftIsOver, CancelVerifyReap, TypeOK
  <2> QED BY <2>1, <2>2, <2>3, <2>4 DEF IInv, Flow, Looks
<1> QED BY <1>1, <1>2, <1>3, <1>4, <1>5, <1>6, <1>7 DEF CancelTeardown

\* The parent is terminated.
LEMMA ParentStep ==
  ASSUME IInv,
         ParentTerminates
  PROVE  IInv'
<1>1. ASSUME ParentTerminates PROVE IInv'
  <2>1. TypeOK'
    BY <1>1 DEF IInv, TypeOK, Steps, TeardownSteps, Monitors, Halted, Occupants, Ours, ParentTerminates,
       SetAdrift
  <2>2. Flow'
    BY <1>1 DEF IInv, Flow, LeftIsOver, StillRegistered, GroupDiesWithParent,
       GroupKilled, TornOut, TypeOK, ParentTerminates, SetAdrift
  <2>3. Looks'
    BY <1>1 DEF IInv, Looks, LookIsFresh, NoStrangerKilled, TypeOK, Occupants, Ours,
       ParentTerminates, SetAdrift
  <2>4. Captured'
    BY <1>1 DEF IInv, Captured, TornOut, LeftIsOver, StillRegistered, GroupKilled,
       TypeOK, Occupants, Ours, ParentTerminates, SetAdrift
  <2> QED BY <2>1, <2>2, <2>3, <2>4 DEF IInv, Flow, Looks
<1> QED BY <1>1

LEMMA StutterStep ==
  ASSUME IInv, UNCHANGED vars
  PROVE  IInv'
BY DEF vars, task, procs, IInv, TypeOK, LeftIsOver, StillRegistered, GroupDiesWithParent,
       GroupKilled, TornOut, LookIsFresh, NoStrangerKilled, Captured

\* The invariant is inductive.
THEOREM Invariance == Spec => []IInv
<1>1. IInv /\ [Next]_vars => IInv'
  BY ProcessSteps, BodySteps, TearingDown, CancelSteps, ParentStep, StutterStep
  DEF Next, ProcessStep
<1> QED BY <1>1, InitIInv, PTL DEF Spec

\* The containment's state keeps its type (base.py:563-684).
THEOREM TypeCorrect == Spec => []TypeOK
<1>1. IInv => TypeOK
  BY DEF IInv
<1> QED BY <1>1, Invariance, PTL

\* However many cancellations arrive, a run that did not end by itself leaves
\* no process of its group behind (base.py:638-640).
THEOREM GroupNeverLeaks == Spec => []NoGroupLeft
<1>1. IInv => NoGroupLeft
  BY DEF IInv, GroupKilled, NoGroupLeft
<1> QED BY <1>1, Invariance, PTL

\* A parent that is terminated takes the group along (base.py:230-235).
THEOREM ParentTakesGroup == Spec => []GroupDiesWithParent
<1>1. IInv => GroupDiesWithParent
  BY DEF IInv, StillRegistered
<1> QED BY <1>1, Invariance, PTL

\* No process is killed for having the pid of a former descendant
\* (base.py:514-523).
THEOREM OnlyOwnKilled == Spec => []NoStrangerKilled
<1>1. IInv => NoStrangerKilled
  BY DEF IInv
<1> QED BY <1>1, Invariance, PTL

\* A cleanup that nothing cut short spares only descendants that no look
\* could have caught (base.py:578-581).
THEOREM EscapeesCaught == Spec => []EscapeesDie
<1>1. IInv => EscapeesDie
  <2> SUFFICES ASSUME IInv, TornOut, ~degraded
                  PROVE  \A p \in Pid : world[p] \in Ours => p \in hidden
    BY DEF EscapeesDie
  <2>1. CASE parent = "up"
    BY <2>1 DEF IInv, Captured
  <2>2. CASE parent = "dead"
    BY <2>2 DEF IInv, LeftIsOver, TornOut
  <2> QED BY <2>1, <2>2 DEF IInv, TypeOK
<1> QED BY <1>1, Invariance, PTL

-----------------------------------------------------------------------------
(* Cancellations *)

\* While the body runs or ends, and while the read loop's own cleanup does,
\* nothing is under way; what is stays so until the context is left, unless
\* another cancellation takes its place.
Heard ==
  /\ step \in {"first_snap", "body", "stderr", "closing"} \/ inBody => raising = "none"
  /\ inTime => raising = "cancelled"
  /\ CancelHeard

LEMMA HeardStep == ASSUME TypeOK, LeftIsOver, Heard, [Next]_vars PROVE Heard'
<1> USE DEF Heard, LeftIsOver, CancelHeard, TypeOK, Steps, TeardownSteps, Monitors
<1>1. CASE TeardownStep \/ WaitEnds
  BY <1>1 DEF TeardownStep, Closed, MonitorStops, LastLook, KillGroup, Verify, WaitTimesOut,
     WaitEnds, TornDown, Leave, aside
<1>2. CASE FirstSnap \/ MonitorLooks \/ MonitorStalls \/ MonitorReaps
  BY <1>2 DEF FirstSnap, MonitorLooks, MonitorStalls, MonitorReaps, MonitorIs, aside
<1>3. CASE BodyEnds \/ BodyRaises \/ BodyIdles \/ StderrEnds
  BY <1>3 DEF BodyEnds, BodyRaises, BodyIdles, StderrEnds, Escape, Leave, aside
<1>4. CASE CancelBody \/ CancelFirstReap \/ CancelTeardown
  BY <1>4 DEF CancelBody, CancelFirstReap, CancelTeardown, CancelMonitorWait, CancelLook,
     CancelVerify, CancelVerifyReap, CancelWait, Cancelled, Escape, Leave, TornDown
<1>5. CASE ParentTerminates
  BY <1>5 DEF ParentTerminates
<1>6. CASE ProcessStep \/ UNCHANGED vars
  BY <1>6 DEF ProcessStep, Fork, EscapeeExits, Recycle, LeaderExits, ChildExits, vars, task
<1> QED BY <1>1, <1>2, <1>3, <1>4, <1>5, <1>6 DEF Next

\* What is true of the claim that a cancellation wins (base.py:666-668): one
\* that arrives while the seat's own work is awaited does, though others
\* follow it into the cleanup, and a cleanup hands on the exception it found
\* (base.py:664-684).  One that arrives in the cleanup, or while a ps is
\* reaped before it, may be swallowed.
THEOREM CancelsHeard == Spec => []CancelHeard
<1>1. Init => Heard
  BY DEF Init, Heard, CancelHeard
<1>2. Heard => CancelHeard
  BY DEF Heard
<1>3. IInv => TypeOK /\ LeftIsOver
  BY DEF IInv
<1> QED BY <1>1, <1>2, <1>3, HeardStep, Invariance, PTL DEF Spec
=============================================================================
