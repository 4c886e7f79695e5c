-------------------------- MODULE SeatHelperProofs --------------------------
(***************************************************************************)
(* Safety of the seat helper's spool for any number of requests and helper *)
(* processes, with any number of crashes, restarts and clients that die,   *)
(* and that it implements SpoolContract; then of the update that installs  *)
(* the helper, for any releases, roots and number of mishaps.              *)
(***************************************************************************)
EXTENDS SeatHelper, CodexUpdate, TLAPS

\* A request file is there for a request nobody has claimed, of a client
\* that has not left yet; a seat starts after the claim and only once.
RequestFresh ==
  \A r \in Request :
    /\ r \in requests => run[r] = "none" /\ client[r] \notin {"idle", "done"}
    /\ client[r] = "idle" => run[r] = "none"
    /\ run[r] \in {"none", "queued"} => starts[r] = 0
    /\ starts[r] \in {0, 1}

IInv == TypeOK /\ RequestFresh /\ InflightIsLive

USE NoHelperAssumption, BoundsAssumption

\* The empty spool satisfies the invariant.
LEMMA InitIInv == Init => IInv
  BY DEF Init, IInv, TypeOK, RequestFresh, InflightIsLive, ClientSteps, Outcomes,
     RunSteps, LiveSteps

\* Every file operation of a client keeps it.
LEMMA ClientStepIInv ==
  ASSUME IInv, NEW r \in Request,
         Submit(r) \/ SubmitUnavailable(r) \/ ClientStep(r) \/ ClientDies(r)
  PROVE  IInv'
<1> USE DEF IInv, TypeOK, RequestFresh, InflightIsLive, ClientSteps, Outcomes,
        ClientGoes, helperUnchanged, spool
<1>1. CASE Submit(r)
  BY <1>1 DEF Submit
<1>2. CASE SubmitUnavailable(r)
  BY <1>2 DEF SubmitUnavailable
<1>3. CASE Observe(r) \/ GiveUp(r) \/ CheckRequest(r) \/ LeaveMarker(r)
  BY <1>3 DEF Observe, GiveUp, CheckRequest, LeaveMarker
<1>4. CASE DropResult(r) \/ DropRequest(r)
  BY <1>4 DEF DropResult, DropRequest
<1>5. CASE ClientDies(r)
  BY <1>5 DEF ClientDies, Fails
<1> QED
  BY <1>1, <1>2, <1>3, <1>4, <1>5 DEF ClientStep

\* Every step of a helper on a request keeps it: only the rename of the
\* request file leads to a start, and the file is gone with it.
LEMMA HelperStepIInv ==
  ASSUME IInv, NEW h \in Helper, NEW r \in Request, Claim(h, r) \/ HelperStep(h, r)
  PROVE  IInv'
<1> USE DEF IInv, TypeOK, RequestFresh, InflightIsLive, RunSteps, LiveSteps,
        RunGoes, clientUnchanged, spool
<1>1. CASE Claim(h, r)
  BY <1>1 DEF Claim
<1>2. CASE StartRun(h, r)
  BY <1>2 DEF StartRun
<1>3. CASE RunEnds(h, r) \/ SeeMarker(h, r) \/ WriteResult(h, r)
  BY <1>3 DEF RunEnds, SeeMarker, WriteResult
<1>4. CASE RunRaises(h, r) \/ StopRun(h, r) \/ Unclaim(h, r)
  BY <1>4 DEF RunRaises, StopRun, Unclaim
<1> QED
  BY <1>1, <1>2, <1>3, <1>4 DEF HelperStep

\* Helpers that start, beat, stop or are killed keep it, and so does a sweep.
LEMMA ProcessIInv ==
  ASSUME IInv,
         Sweep \/ \E h \in Helper : \/ HelperStarts(h) \/ Heartbeat(h)
                                    \/ HelperStops(h) \/ HelperCrashes(h)
  PROVE  IInv'
<1> USE DEF IInv, TypeOK, RequestFresh, InflightIsLive, RunSteps, LiveSteps,
        RunsLost, Live, Fails, clientUnchanged, spool
<1>1. ASSUME NEW h \in Helper, HelperStarts(h) \/ Heartbeat(h) PROVE IInv'
  BY <1>1 DEF HelperStarts, Heartbeat
<1>2. ASSUME NEW h \in Helper, HelperStops(h) PROVE IInv'
  BY <1>2 DEF HelperStops
<1>3. ASSUME NEW h \in Helper, HelperCrashes(h) PROVE IInv'
  BY <1>3 DEF HelperCrashes
<1>4. CASE Sweep
  BY <1>4 DEF Sweep
<1> QED
  BY <1>1, <1>2, <1>3, <1>4

\* The invariant holds of every spool.
THEOREM Invariance == Spec => []IInv
<1>1. IInv /\ [Next]_vars => IInv'
  <2> SUFFICES ASSUME IInv, [Next]_vars PROVE IInv'
    OBVIOUS
  <2>1. CASE UNCHANGED vars
    BY <2>1 DEF vars, spool, IInv, TypeOK, RequestFresh, InflightIsLive
  <2> QED
    BY <2>1, ClientStepIInv, HelperStepIInv, ProcessIInv DEF Next
<1> QED
  BY <1>1, InitIInv, PTL DEF Spec

\* The spool's directories and both sides' states keep their type.
THEOREM TypeCorrect == Spec => []TypeOK
<1>1. IInv => TypeOK
  BY DEF IInv
<1> QED
  BY <1>1, Invariance, PTL

\* No seat is started twice for one request, however many helpers share the
\* spool and however often they are restarted or killed
\* (seat_helper.py:842-851).
THEOREM AtMostOneRun == Spec => []OneRun
<1>1. IInv => OneRun
  BY DEF IInv, RequestFresh, OneRun
<1> QED
  BY <1>1, Invariance, PTL

\* A client that has left can no longer have its request claimed
\* (seat_helper.py:636-645).
THEOREM WithdrawnWhenGone == Spec => []GoneIsWithdrawn
<1>1. IInv => GoneIsWithdrawn
  BY DEF IInv, RequestFresh, GoneIsWithdrawn
<1> QED
  BY <1>1, Invariance, PTL

\* The inflight directory holds exactly the runs under way, but for those of
\* a helper that was killed (seat_helper.py:842-874).
THEOREM InflightExact == Spec => []InflightIsLive
<1>1. IInv => InflightIsLive
  BY DEF IInv
<1> QED
  BY <1>1, Invariance, PTL
-----------------------------------------------------------------------------
(* The spool implements SpoolContract *)

\* What ties the caller's view to the files: a request that is neither on
\* offer nor claimed is one of a caller that has not begun or has returned; a
\* result is of a run that wrote it; a caller between two files has heard
\* what it will return.
ViewIsSound ==
  \A r \in Request :
    /\ run[r] = "none" /\ r \notin requests => client[r] \in {"idle", "done"}
    /\ r \in results => run[r] \in {"written", "over", "lost"}
    /\ client[r] \in {"idle", "polling"} => outcome[r] = "none"
    /\ client[r] \in {"check", "mark", "drop_result", "drop_request"}
         => outcome[r] \in {"result", "gave_up"}
    /\ client[r] = "done" => outcome[r] # "none"
    /\ outcome[r] = "unavailable" =>
         client[r] = "done" /\ run[r] = "none" /\ r \notin requests

RInv == IInv /\ ViewIsSound

LEMMA InitView == Init => ViewIsSound
  BY DEF Init, ViewIsSound

LEMMA ClientStepView ==
  ASSUME RInv, NEW r \in Request,
         Submit(r) \/ SubmitUnavailable(r) \/ ClientStep(r) \/ ClientDies(r)
  PROVE  ViewIsSound'
<1> USE DEF RInv, IInv, TypeOK, RequestFresh, ViewIsSound, ClientGoes, helperUnchanged, spool
<1>1. CASE Submit(r) \/ SubmitUnavailable(r)
  BY <1>1 DEF Submit, SubmitUnavailable
<1>2. CASE Observe(r) \/ GiveUp(r)
  BY <1>2 DEF Observe, GiveUp
<1>3. CASE CheckRequest(r) \/ LeaveMarker(r) \/ DropResult(r) \/ DropRequest(r)
  BY <1>3 DEF CheckRequest, LeaveMarker, DropResult, DropRequest
<1>4. CASE ClientDies(r)
  BY <1>4 DEF ClientDies, Fails
<1> QED BY <1>1, <1>2, <1>3, <1>4 DEF ClientStep

LEMMA HelperStepView ==
  ASSUME RInv, NEW h \in Helper, NEW r \in Request, Claim(h, r) \/ HelperStep(h, r)
  PROVE  ViewIsSound'
<1> USE DEF RInv, IInv, TypeOK, RequestFresh, ViewIsSound, RunGoes, clientUnchanged, spool
<1>1. CASE Claim(h, r)
  BY <1>1 DEF Claim
<1>2. CASE StartRun(h, r) \/ RunEnds(h, r) \/ RunRaises(h, r) \/ SeeMarker(h, r)
  BY <1>2 DEF StartRun, RunEnds, RunRaises, SeeMarker
<1>3. CASE StopRun(h, r) \/ WriteResult(h, r) \/ Unclaim(h, r)
  BY <1>3 DEF StopRun, WriteResult, Unclaim
<1> QED BY <1>1, <1>2, <1>3 DEF HelperStep

LEMMA ProcessView ==
  ASSUME RInv,
         Sweep \/ \E h \in Helper : \/ HelperStarts(h) \/ Heartbeat(h)
                                    \/ HelperStops(h) \/ HelperCrashes(h)
  PROVE  ViewIsSound'
<1> USE DEF RInv, IInv, TypeOK, RequestFresh, ViewIsSound, RunsLost, Live, LiveSteps,
        Fails, clientUnchanged, spool
<1>1. ASSUME NEW h \in Helper, HelperStarts(h) \/ Heartbeat(h) PROVE ViewIsSound'
  BY <1>1 DEF HelperStarts, Heartbeat
<1>2. ASSUME NEW h \in Helper, HelperStops(h) \/ HelperCrashes(h) PROVE ViewIsSound'
  BY <1>2 DEF HelperStops, HelperCrashes
<1>3. CASE Sweep
  BY <1>3 DEF Sweep
<1> QED BY <1>1, <1>2, <1>3

LEMMA ViewInvariance == Spec => []RInv
<1>1. IInv /\ ViewIsSound /\ IInv' /\ [Next]_vars => ViewIsSound'
  <2> SUFFICES ASSUME RInv, [Next]_vars PROVE ViewIsSound'
    BY DEF RInv
  <2>1. CASE UNCHANGED vars
    BY <2>1 DEF vars, spool, RInv, ViewIsSound
  <2> QED
    BY <2>1, ClientStepView, HelperStepView, ProcessView DEF Next
<1>2. RInv <=> IInv /\ ViewIsSound
  BY DEF RInv
<1> QED BY <1>1, <1>2, InitView, Invariance, PTL DEF Spec

\* What the contract sees of a request depends on that request alone.
Same(r) ==
  /\ r \in requests' <=> r \in requests
  /\ r \in results' <=> r \in results
  /\ run'[r] = run[r]
  /\ client'[r] = client[r]
  /\ outcome'[r] = outcome[r]

LEMMA SameView ==
  ASSUME NEW r \in Request, Same(r)
  PROVE  /\ WorkOf(r)' = WorkOf(r) /\ HeardOf(r)' = HeardOf(r)
         /\ r \in leftOf' <=> r \in leftOf
  BY DEF Same, WorkOf, HeardOf, leftOf

\* So a step that touches one request changes the contract's state at one.
LEMMA OneRequest ==
  ASSUME NEW q \in Request, \A r \in Request \ {q} : Same(r)
  PROVE  /\ workOf' = [workOf EXCEPT ![q] = WorkOf(q)']
         /\ heardOf' = [heardOf EXCEPT ![q] = HeardOf(q)']
         /\ WorkOf(q)' = WorkOf(q) => workOf' = workOf
         /\ HeardOf(q)' = HeardOf(q) => heardOf' = heardOf
         /\ q \in leftOf' => leftOf' = leftOf \cup {q}
         /\ (q \in leftOf <=> q \in leftOf') => leftOf' = leftOf
<1>1. \A r \in Request \ {q} : /\ WorkOf(r)' = WorkOf(r) /\ HeardOf(r)' = HeardOf(r)
                               /\ r \in leftOf' <=> r \in leftOf
  BY SameView
<1>2. workOf' = [workOf EXCEPT ![q] = WorkOf(q)']
  BY <1>1 DEF workOf
<1>3. heardOf' = [heardOf EXCEPT ![q] = HeardOf(q)']
  BY <1>1 DEF heardOf
<1>4. leftOf \subseteq Request /\ leftOf' \subseteq Request
  BY DEF leftOf
<1>5. WorkOf(q)' = WorkOf(q) => workOf' = workOf
  BY <1>1 DEF workOf
<1>6. HeardOf(q)' = HeardOf(q) => heardOf' = heardOf
  BY <1>1 DEF heardOf
<1> QED BY <1>1, <1>2, <1>3, <1>4, <1>5, <1>6

LEMMA InitContract == Init => Contract!Init
  BY DEF Init, Contract!Init, workOf, WorkOf, heardOf, HeardOf, leftOf

\* What the caller does is an offer, a refusal, something it hears, a result
\* it throws away, its return, or nothing the contract sees.
LEMMA ClientStepContract ==
  ASSUME RInv, NEW q \in Request,
         Submit(q) \/ SubmitUnavailable(q) \/ ClientStep(q) \/ ClientDies(q)
  PROVE  \/ Contract!Offer(q) \/ Contract!Refuse(q) \/ Contract!Learn(q)
         \/ Contract!Discard(q) \/ Contract!Leave(q)
         \/ UNCHANGED <<workOf, heardOf, leftOf>>
<1> USE DEF RInv, IInv, TypeOK, RequestFresh, ViewIsSound, RunSteps, LiveSteps,
        ClientGoes, helperUnchanged, spool
<1>0. /\ workOf[q] = WorkOf(q) /\ heardOf[q] = HeardOf(q)
      /\ q \in leftOf <=> client[q] = "done"
      /\ q \in leftOf' <=> client'[q] = "done"
  BY DEF workOf, heardOf, leftOf
<1>1. \A r \in Request \ {q} : Same(r)
  <2>1. CASE Submit(q) \/ SubmitUnavailable(q) \/ Observe(q) \/ GiveUp(q)
    BY <2>1 DEF Submit, SubmitUnavailable, Observe, GiveUp, Same
  <2>2. CASE CheckRequest(q) \/ LeaveMarker(q) \/ DropResult(q) \/ DropRequest(q)
    BY <2>2 DEF CheckRequest, LeaveMarker, DropResult, DropRequest, Same
  <2>3. CASE ClientDies(q)
    BY <2>3 DEF ClientDies, Same
  <2> QED BY <2>1, <2>2, <2>3 DEF ClientStep
<1> USE <1>0, <1>1, OneRequest DEF WorkOf, HeardOf
<1>2. CASE Submit(q)
  BY <1>2 DEF Submit, Contract!Offer, Contract!Moves
<1>3. CASE SubmitUnavailable(q)
  BY <1>3 DEF SubmitUnavailable, Contract!Refuse, Contract!Hears
<1>4. CASE Observe(q)
  BY <1>4 DEF Observe, Contract!Learn, Contract!Hears
<1>5. CASE GiveUp(q)
  <2>1. workOf[q] # "none"
    BY <1>5 DEF GiveUp
  <2>2. UNCHANGED <<workOf, leftOf>>
    BY <1>5 DEF GiveUp
  <2>3. heardOf[q] = "none" /\ heardOf' = [heardOf EXCEPT ![q] = "gave_up"]
    BY <1>5 DEF GiveUp
  <2> QED BY <2>1, <2>2, <2>3 DEF Contract!Learn, Contract!Hears
<1>6. CASE CheckRequest(q) \/ LeaveMarker(q)
  BY <1>6 DEF CheckRequest, LeaveMarker
<1>7. CASE DropResult(q)
  BY <1>7 DEF DropResult, Contract!Discard, Contract!Moves
<1>8. CASE DropRequest(q)
  <2>1. heardOf[q] \in {"result", "gave_up"} /\ q \notin leftOf
    BY <1>8 DEF DropRequest
  <2>2. leftOf' = leftOf \cup {q} /\ heardOf' = heardOf
    BY <1>8 DEF DropRequest
  <2>3. WorkOf(q)' = IF WorkOf(q) = "offered" THEN "withdrawn" ELSE WorkOf(q)
    BY <1>8 DEF DropRequest
  <2>4. workOf' = [workOf EXCEPT ![q] = IF @ = "offered" THEN "withdrawn" ELSE @]
    <3> HIDE DEF WorkOf
    <3> QED BY <2>3
  <2> QED BY <2>1, <2>2, <2>4 DEF Contract!Leave
<1>9. CASE ClientDies(q)
  <2>1. UNCHANGED <<workOf, leftOf>>
    BY <1>9 DEF ClientDies
  <2>2. CASE outcome[q] = "none"
    <3>1. workOf[q] # "none"
      BY <1>9, <2>2 DEF ClientDies, ClientSteps
    <3>2. heardOf[q] = "none" /\ heardOf' = [heardOf EXCEPT ![q] = "died"]
      BY <1>9, <2>2 DEF ClientDies
    <3> QED BY <2>1, <3>1, <3>2 DEF Contract!Learn, Contract!Hears
  <2>3. CASE outcome[q] # "none"
    BY <1>9, <2>1, <2>3 DEF ClientDies
  <2> QED BY <2>2, <2>3
<1> QED BY <1>2, <1>3, <1>4, <1>5, <1>6, <1>7, <1>8, <1>9 DEF ClientStep

\* What a helper does with one request is a claim, a start, an answer, an end,
\* or nothing the contract sees.
LEMMA HelperStepContract ==
  ASSUME RInv, NEW h \in Helper, NEW q \in Request, Claim(h, q) \/ HelperStep(h, q)
  PROVE  \/ Contract!Take(q) \/ Contract!Start(q) \/ Contract!Answer(q) \/ Contract!End(q)
         \/ UNCHANGED <<workOf, heardOf, leftOf>>
<1> USE DEF RInv, IInv, TypeOK, RequestFresh, ViewIsSound, RunSteps, LiveSteps,
        RunGoes, clientUnchanged, spool
<1>0. /\ workOf[q] = WorkOf(q) /\ heardOf[q] = HeardOf(q)
      /\ q \in leftOf <=> client[q] = "done"
      /\ q \in leftOf' <=> client'[q] = "done"
  BY DEF workOf, heardOf, leftOf
<1>1. (\A r \in Request \ {q} : Same(r)) /\ client' = client /\ outcome' = outcome
  <2>1. CASE Claim(h, q) \/ StartRun(h, q) \/ RunEnds(h, q) \/ RunRaises(h, q)
    BY <2>1 DEF Claim, StartRun, RunEnds, RunRaises, Same
  <2>2. CASE SeeMarker(h, q) \/ StopRun(h, q) \/ WriteResult(h, q) \/ Unclaim(h, q)
    BY <2>2 DEF SeeMarker, StopRun, WriteResult, Unclaim, Same
  <2> QED BY <2>1, <2>2 DEF HelperStep
<1>2. UNCHANGED <<heardOf, leftOf>>
  BY <1>0, <1>1, OneRequest DEF HeardOf
<1> USE <1>0, <1>1, <1>2, OneRequest DEF WorkOf, Contract!Moves
<1>3. CASE Claim(h, q)
  <2>1. WorkOf(q) = "offered" /\ q \notin leftOf
    BY <1>3 DEF Claim
  <2>2. WorkOf(q)' = "taken"
    BY <1>3 DEF Claim
  <2> HIDE DEF WorkOf
  <2> QED BY <2>1, <2>2 DEF Contract!Take
<1>4. CASE StartRun(h, q)
  BY <1>4 DEF StartRun, Contract!Start
<1>5. CASE RunEnds(h, q) \/ SeeMarker(h, q) \/ Unclaim(h, q)
  BY <1>5 DEF RunEnds, SeeMarker, Unclaim
<1>6. CASE RunRaises(h, q) \/ StopRun(h, q)
  BY <1>6 DEF RunRaises, StopRun, Contract!End
<1>7. CASE WriteResult(h, q)
  BY <1>7 DEF WriteResult, Contract!Answer
<1> QED BY <1>3, <1>4, <1>5, <1>6, <1>7 DEF HelperStep

\* A helper that goes takes down the runs that have not written a result; a
\* sweep throws away results nobody polls for.
LEMMA ProcessContract ==
  ASSUME RInv,
         Sweep \/ \E h \in Helper : \/ HelperStarts(h) \/ Heartbeat(h)
                                    \/ HelperStops(h) \/ HelperCrashes(h)
  PROVE  \/ \E qs \in SUBSET Request : Contract!Lose(qs)
         \/ \E q \in Request : Contract!Discard(q)
         \/ UNCHANGED <<workOf, heardOf, leftOf>>
<1> USE DEF RInv, IInv, TypeOK, RequestFresh, ViewIsSound, RunSteps, LiveSteps,
        clientUnchanged, spool
<1>1. UNCHANGED <<heardOf, leftOf>>
  BY DEF Sweep, HelperStarts, Heartbeat, HelperStops, HelperCrashes, heardOf, HeardOf, leftOf
<1>2. ASSUME NEW h \in Helper, HelperStarts(h) \/ Heartbeat(h) PROVE UNCHANGED workOf
  BY <1>2 DEF HelperStarts, Heartbeat, workOf, WorkOf
<1>3. ASSUME NEW h \in Helper, HelperStops(h) \/ HelperCrashes(h)
      PROVE  \E qs \in SUBSET Request : Contract!Lose(qs)
  <2> DEFINE qs == {r \in Live(h) : run[r] # "written"}
  <2>1. /\ requests' = requests /\ results' = results /\ client' = client /\ outcome' = outcome
        /\ run' = [r \in Request |-> IF r \in Live(h) THEN "lost" ELSE run[r]]
    BY <1>3 DEF HelperStops, HelperCrashes, RunsLost
  <2>2. \A r \in qs : WorkOf(r) \in {"taken", "going"} /\ WorkOf(r)' = "over"
    BY <2>1 DEF WorkOf, Live, LiveSteps
  <2>3. \A r \in Request \ qs : WorkOf(r)' = WorkOf(r)
    BY <2>1 DEF WorkOf, Live, LiveSteps
  <2>4. qs \subseteq Request
    BY DEF Live
  <2>5. \A q \in qs : workOf[q] \in {"taken", "going"}
    BY <2>2, <2>4 DEF workOf
  <2>6. workOf' = [q \in Request |-> IF q \in qs THEN "over" ELSE workOf[q]]
    BY <2>2, <2>3, <2>4 DEF workOf
  <2> HIDE DEF qs
  <2> QED BY <1>1, <2>4, <2>5, <2>6 DEF Contract!Lose
<1>4. ASSUME Sweep, results' # results PROVE \E q \in Request : Contract!Discard(q)
  <2>1. PICK q \in results : client[q] # "polling" /\ results' = results \ {q}
    BY <1>4 DEF Sweep
  <2>2. q \in Request /\ \A r \in Request \ {q} : Same(r)
    BY <1>4, <2>1 DEF Sweep, Same
  <2>3. workOf[q] = "answered" /\ WorkOf(q)' = "over"
    BY <1>4, <2>1, <2>2 DEF Sweep, workOf, WorkOf
  <2>4. heardOf[q] # "none"
    BY <2>1, <2>2 DEF heardOf, HeardOf, ClientSteps
  <2> QED BY <1>1, <2>2, <2>3, <2>4, OneRequest DEF Contract!Discard, Contract!Moves
<1>5. ASSUME Sweep, results' = results PROVE UNCHANGED workOf
  BY <1>5 DEF Sweep, workOf, WorkOf
<1> QED BY <1>1, <1>2, <1>3, <1>4, <1>5

LEMMA StepContract == RInv /\ [Next]_vars => [Contract!Next]_(Contract!vars)
<1> SUFFICES ASSUME RInv, [Next]_vars
             PROVE  Contract!Next \/ UNCHANGED <<workOf, heardOf, leftOf>>
  BY DEF Contract!vars
<1>1. CASE UNCHANGED vars
  BY <1>1 DEF vars, spool, workOf, WorkOf, heardOf, HeardOf, leftOf
<1>2. ASSUME NEW q \in Request,
             Submit(q) \/ SubmitUnavailable(q) \/ ClientStep(q) \/ ClientDies(q)
      PROVE  Contract!Next \/ UNCHANGED <<workOf, heardOf, leftOf>>
  BY <1>2, ClientStepContract DEF Contract!Next
<1>3. ASSUME NEW h \in Helper, NEW q \in Request, Claim(h, q) \/ HelperStep(h, q)
      PROVE  Contract!Next \/ UNCHANGED <<workOf, heardOf, leftOf>>
  BY <1>3, HelperStepContract DEF Contract!Next
<1>4. CASE Sweep \/ \E h \in Helper : \/ HelperStarts(h) \/ Heartbeat(h)
                                      \/ HelperStops(h) \/ HelperCrashes(h)
  BY <1>4, ProcessContract DEF Contract!Next
<1> QED BY <1>1, <1>2, <1>3, <1>4 DEF Next

\* The spool keeps SpoolContract, whatever helpers overlap, restart or crash and
\* wherever a client dies (seat_helper.py:564-653, 842-875).
THEOREM SpoolKeepsContract == Spec => ImplementsContract
  BY InitContract, StepContract, ViewInvariance, PTL
  DEF Spec, ImplementsContract, Contract!Spec
-----------------------------------------------------------------------------
(* CodexUpdate *)

USE UpdateAssumption, NoneAssumption

\* As long as no update gave roots up, the user's are in every place the next
\* ones are taken from: the file of the agent, what launchd has loaded, the
\* helper, helper.json and the roots of an update that asked for them.
Carried ==
  ~waived =>
    /\ ~blind => chosen \subseteq live
    /\ chosen \subseteq plist
    /\ chosen \subseteq file.roots
    /\ loaded # None => chosen \subseteq loaded.roots
    /\ helper # None => chosen \subseteq helper.roots

\* What an update has achieved when it has come to a command.
Verified  == {"validate", "write", "bootout", "bootstrap", "kickstart", "status", "compare", "done"}
Restarted == {"status", "compare", "done"}

Achieved ==
  /\ step \in {"sync", "market", "add"} \cup Verified => tree = target
  /\ step \in {"market", "add"} \cup Verified => venv = target
  /\ step \in Verified => plugin = target
  /\ step \in {"kickstart"} \cup Restarted => loaded = [roots |-> plist]
  /\ step \in Restarted /\ helper # None => helper = [version |-> target, roots |-> plist]
  /\ step = "done" => ~changed

UpdateInv == UpdateTypeOK /\ Carried /\ Achieved

LEMMA RootsType ==
  /\ Default \subseteq Roots /\ Legacy \subseteq Roots
  /\ \A c \in Choices \cup Exports : c \subseteq Roots
  /\ 1 \in Version
<1>1. Default \subseteq Roots /\ \A c \in Choices \cup Exports : c \subseteq Roots
  BY DEF Roots
<1> QED BY <1>1 DEF Version

LEMMA InitUpdate == UpdateInit => UpdateInv
<1> SUFFICES ASSUME UpdateInit PROVE UpdateInv
  OBVIOUS
<1>1. chosen \in SUBSET Roots /\ helper = [version |-> 1, roots |-> chosen]
  BY RootsType DEF UpdateInit
<1>2. helper \in Served /\ loaded \in Agent /\ file = helper
  BY <1>1, RootsType DEF UpdateInit, Served, Agent
<1>3. UpdateTypeOK
  <2>1. {origin, tree, venv, market, plugin, code, target} \subseteq Version
    BY RootsType DEF UpdateInit
  <2>2. mishaps \in 0 .. MaxMishaps
    BY DEF UpdateInit
  <2>3. plist \in SUBSET Roots /\ live \in SUBSET Roots
    BY <1>1 DEF UpdateInit
  <2>4. {fresh, changed, blind, waived} \subseteq BOOLEAN
    BY DEF UpdateInit
  <2> QED BY <1>2, <2>1, <2>2, <2>3, <2>4 DEF UpdateInit, UpdateTypeOK, Over
<1>4. Carried
  BY <1>1 DEF UpdateInit, Carried
<1>5. Achieved
  BY DEF UpdateInit, Achieved, Verified, Restarted
<1> QED BY <1>3, <1>4, <1>5 DEF UpdateInv

\* The roots an update writes contain those it begins with, unless it asked
\* nobody or the exported ones do not cover the old default.
LEMMA InstalledKeeps ==
  ASSUME UpdateTypeOK
  PROVE  /\ Installed(live) \in SUBSET Roots
         /\ Waives \/ live \subseteq Installed(live)
  BY RootsType DEF Installed, IsLegacy, Waives, UpdateTypeOK

LEMMA BeginStep == UpdateInv /\ Begin => UpdateInv'
<1> SUFFICES ASSUME UpdateInv, Begin PROVE UpdateInv'
  OBVIOUS
<1> USE DEF UpdateInv, Begin, releases, machine
<1>1. defaults' \in {Default} \cup Exports /\ live' \in SUBSET Roots
  BY RootsType DEF UpdateTypeOK, Served
<1>2. mishaps' \in 0 .. MaxMishaps
  BY DEF UpdateTypeOK
<1>3. UpdateTypeOK'
  BY <1>1, <1>2 DEF UpdateTypeOK, Command
<1>4. Carried'
  BY DEF Carried
<1>5. Achieved'
  BY DEF Achieved, Verified, Restarted
<1> QED BY <1>3, <1>4, <1>5

\* A command that fails, and whatever else ends the update.
LEMMA BreakStep == UpdateInv /\ (Breaks \/ BootoutIgnored) => UpdateInv'
<1> SUFFICES ASSUME UpdateInv, Breaks \/ BootoutIgnored PROVE UpdateInv'
  OBVIOUS
<1> USE DEF UpdateInv, Breaks, BootoutIgnored, StepFails, releases, machine, taken
<1>1. mishaps' \in 0 .. MaxMishaps
  BY DEF UpdateTypeOK
<1>2. UpdateTypeOK'
  BY <1>1 DEF UpdateTypeOK, Command, Over
<1>3. Carried'
  BY DEF Carried
<1>4. Achieved'
  BY DEF Achieved, Verified, Restarted
<1> QED BY <1>2, <1>3, <1>4

\* The commands up to the validation of the plugin.
LEMMA InstallStep == UpdateInv /\ (Pull \/ Sync \/ Upgrade \/ Add \/ Validate) => UpdateInv'
<1> SUFFICES ASSUME UpdateInv, Pull \/ Sync \/ Upgrade \/ Add \/ Validate PROVE UpdateInv'
  OBVIOUS
<1> USE DEF UpdateInv, Pull, Sync, Upgrade, Add, Validate, Goes, releases, machine, taken
<1>1. UpdateTypeOK'
  BY DEF UpdateTypeOK, Command, Over
<1>2. Carried'
  BY DEF Carried
<1>3. Achieved'
  BY DEF Achieved, Verified, Restarted
<1> QED BY <1>1, <1>2, <1>3

\* The installation of the agent, and what follows it.
LEMMA AgentStep ==
  UpdateInv /\ (Write \/ Bootout \/ Bootstrap \/ Kickstart \/ Status \/ Compare) => UpdateInv'
<1> SUFFICES ASSUME UpdateInv, Write \/ Bootout \/ Bootstrap \/ Kickstart \/ Status \/ Compare
             PROVE  UpdateInv'
  OBVIOUS
<1> USE DEF UpdateInv, Goes, releases, machine, taken
<1>1. CASE Write
  <2>1. plist' \in SUBSET Roots /\ (waived' \/ live \subseteq plist')
    BY <1>1, InstalledKeeps DEF Write
  <2>2. UpdateTypeOK'
    BY <1>1, <2>1 DEF Write, UpdateTypeOK, Command, Over
  <2>3. Carried'
    BY <1>1, <2>1 DEF Write, Carried, Waives
  <2>4. Achieved'
    BY <1>1 DEF Write, Achieved, Verified, Restarted
  <2> QED BY <2>2, <2>3, <2>4
<1>2. CASE Bootout \/ Kickstart
  <2>1. UpdateTypeOK'
    BY <1>2 DEF Bootout, Kickstart, UpdateTypeOK, Command, Over
  <2>2. Carried'
    BY <1>2 DEF Bootout, Kickstart, Carried
  <2>3. Achieved'
    BY <1>2 DEF Bootout, Kickstart, Achieved, Verified, Restarted
  <2> QED BY <2>1, <2>2, <2>3
<1>3. CASE Bootstrap
  <2>1. loaded' \in Agent \cup {None}
    BY <1>3 DEF Bootstrap, UpdateTypeOK, Agent
  <2>2. UpdateTypeOK'
    BY <1>3, <2>1 DEF Bootstrap, UpdateTypeOK, Command, Over
  <2>3. Carried'
    BY <1>3 DEF Bootstrap, Carried
  <2>4. Achieved'
    BY <1>3 DEF Bootstrap, Achieved, Verified, Restarted
  <2> QED BY <2>2, <2>3, <2>4
<1>4. CASE Status \/ Compare
  <2>1. UpdateTypeOK'
    BY <1>4 DEF Status, Compare, UpdateTypeOK, Command, Over
  <2>2. Carried'
    BY <1>4 DEF Status, Compare, Carried
  <2>3. Achieved'
    BY <1>4 DEF Status, Compare, Achieved, Verified, Restarted
  <2> QED BY <2>1, <2>2, <2>3
<1> QED BY <1>1, <1>2, <1>3, <1>4

\* launchd, the helper, the user and the maintainers.
LEMMA MachineStep ==
  UpdateInv /\ (Launch \/ HelperBeats \/ HelperFails \/ Reapproves \/ Release) => UpdateInv'
<1> SUFFICES ASSUME UpdateInv, Launch \/ HelperBeats \/ HelperFails \/ Reapproves \/ Release
             PROVE  UpdateInv'
  OBVIOUS
<1> USE DEF UpdateInv, releases, machine, taken
<1>1. CASE Launch
  <2>1. helper' \in Served
    BY <1>1 DEF Launch, UpdateTypeOK, Served, Agent
  <2>2. UpdateTypeOK'
    BY <1>1, <2>1 DEF Launch, UpdateTypeOK
  <2>3. Carried'
    BY <1>1 DEF Launch, Carried
  <2>4. Achieved'
    BY <1>1 DEF Launch, Achieved, Verified, Restarted
  <2> QED BY <2>2, <2>3, <2>4
<1>2. CASE HelperBeats
  BY <1>2 DEF HelperBeats, UpdateTypeOK, Carried, Achieved
<1>3. CASE HelperFails
  <2>1. mishaps' \in 0 .. MaxMishaps
    BY <1>3 DEF HelperFails, UpdateTypeOK
  <2>2. UpdateTypeOK'
    BY <1>3, <2>1 DEF HelperFails, UpdateTypeOK
  <2>3. Carried' /\ Achieved'
    BY <1>3 DEF HelperFails, Carried, Achieved
  <2> QED BY <2>2, <2>3
<1>4. CASE Reapproves
  <2>1. mishaps' \in 0 .. MaxMishaps
    BY <1>4 DEF Reapproves, UpdateTypeOK
  <2>2. UpdateTypeOK'
    BY <1>4, <2>1 DEF Reapproves, UpdateTypeOK
  <2>3. Carried' /\ Achieved'
    BY <1>4 DEF Reapproves, Carried, Achieved, Command, Verified
  <2> QED BY <2>2, <2>3
<1>5. CASE Release
  BY <1>5 DEF Release, UpdateTypeOK, Carried, Achieved, Version
<1> QED BY <1>1, <1>2, <1>3, <1>4, <1>5

THEOREM UpdateInvariance == UpdateSpec => []UpdateInv
<1>1. UpdateInv /\ [UpdateNext]_updateVars => UpdateInv'
  <2> SUFFICES ASSUME UpdateInv, [UpdateNext]_updateVars PROVE UpdateInv'
    OBVIOUS
  <2>1. CASE UNCHANGED updateVars
    BY <2>1 DEF updateVars, releases, machine, taken, UpdateInv, UpdateTypeOK, Carried, Achieved
  <2> QED
    BY <2>1, BeginStep, BreakStep, InstallStep, AgentStep, MachineStep DEF UpdateNext, Runs
<1> QED BY <1>1, InitUpdate, PTL DEF UpdateSpec

\* The state of an installation and of its update keeps its type, for any
\* releases, roots and number of mishaps.
THEOREM UpdateTypeCorrect == UpdateSpec => []UpdateTypeOK
<1>1. UpdateInv => UpdateTypeOK
  BY DEF UpdateInv
<1> QED BY <1>1, UpdateInvariance, PTL

\* Updates, failed and repeated ones included, lose none of the user's roots
\* while each could ask a helper for them (codex_update.py:253-270).
THEOREM RootsAlwaysKept == UpdateSpec => []RootsKept
<1>1. UpdateInv => RootsKept
  BY DEF UpdateInv, Carried, RootsKept
<1> QED BY <1>1, UpdateInvariance, PTL

\* An update that reports success leaves one release and one agent, whatever
\* happened between its commands (codex_update.py:301-312, 332-365).
THEOREM SuccessIsWhole == UpdateSpec => []DoneIsWhole
<1>1. UpdateInv => DoneIsWhole
  BY DEF UpdateInv, Achieved, DoneIsWhole, Verified, Restarted
<1> QED BY <1>1, UpdateInvariance, PTL
=============================================================================
