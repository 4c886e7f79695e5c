----------------------------- MODULE SeatHelper -----------------------------
(***************************************************************************)
(* The spool between a sandboxed host and the seat helper                  *)
(* (src/quorum/agents/seat_helper.py).  A client writes a request file and *)
(* polls for a result file; a helper process claims a request by renaming  *)
(* it, runs the seat when the limiter has a slot and writes the result; a  *)
(* client that gives up on a claimed request leaves a cancel marker.       *)
(*                                                                         *)
(* Clients and helpers are different processes, so every file operation of *)
(* the client's cleanup is a step of its own.  Time is left out: a client  *)
(* may give up whenever it polls (its deadline, or the host cancelling     *)
(* it), and a file is swept (RESULT_TTL_S) only when nobody polls for it,  *)
(* because a poll comes every fraction of a second.                        *)
(***************************************************************************)
EXTENDS Integers, FiniteSets

CONSTANTS
  Request,       \* request ids, each one call of _submit
  Helper,        \* helper processes, two of them when one replaces another
  NoHelper,
  MaxInflight,   \* HELPER_MAX_INFLIGHT
  MaxFailures    \* bound: how often a helper stops, crashes or a client dies

ASSUME NoHelperAssumption == NoHelper \notin Helper
ASSUME BoundsAssumption == MaxInflight \in Nat \ {0} /\ MaxFailures \in Nat

VARIABLES
  requests, inflight, results, markers,   \* the four directories of the spool
  stateFile,   \* whose heartbeat helper.json holds
  client,      \* where each _submit is
  outcome,     \* what it has for its caller
  owner,       \* the helper that claimed the request
  run,         \* where that helper's _process_one_request is
  starts,      \* how often the seat was started for the request
  up,          \* the helper processes that run
  failures

spool == <<requests, inflight, results, markers>>
vars == <<spool, stateFile, client, outcome, owner, run, starts, up, failures>>

ClientSteps == {"idle", "polling", "check", "mark", "drop_result", "drop_request",
                "done", "dead"}
Outcomes == {"none", "result", "gave_up", "unavailable"}
LiveSteps == {"queued", "running", "stopping", "finished", "written"}
RunSteps == {"none", "over", "lost"} \cup LiveSteps

TypeOK ==
  /\ requests \subseteq Request /\ inflight \subseteq Request
  /\ results \subseteq Request /\ markers \subseteq Request
  /\ stateFile \in Helper \cup {NoHelper}
  /\ client \in [Request -> ClientSteps]
  /\ outcome \in [Request -> Outcomes]
  /\ owner \in [Request -> Helper \cup {NoHelper}]
  /\ run \in [Request -> RunSteps]
  /\ starts \in [Request -> Nat]
  /\ up \subseteq Helper
  /\ failures \in Nat

Init ==
  /\ requests = {} /\ inflight = {} /\ results = {} /\ markers = {}
  /\ stateFile = NoHelper
  /\ client = [r \in Request |-> "idle"]
  /\ outcome = [r \in Request |-> "none"]
  /\ owner = [r \in Request |-> NoHelper]
  /\ run = [r \in Request |-> "none"]
  /\ starts = [r \in Request |-> 0]
  /\ up = {}
  /\ failures = 0

-----------------------------------------------------------------------------
(* The client: SeatHelperAgent._submit *)

\* helper_compatibility_error: a fresh heartbeat of a process that lives.
HelperSeen == stateFile \in up

helperUnchanged == UNCHANGED <<stateFile, owner, run, starts, up, failures>>

ClientGoes(r, from, to) ==
  /\ client[r] = from
  /\ client' = [client EXCEPT ![r] = to]

Submit(r) ==
  /\ HelperSeen
  /\ ClientGoes(r, "idle", "polling")
  /\ requests' = requests \cup {r}
  /\ UNCHANGED <<inflight, results, markers, outcome>>
  /\ helperUnchanged

\* No helper is seen, the spool cannot be made, or the request not be written.
SubmitUnavailable(r) ==
  /\ ClientGoes(r, "idle", "done")
  /\ outcome' = [outcome EXCEPT ![r] = "unavailable"]
  /\ UNCHANGED spool
  /\ helperUnchanged

\* The result is there: the client reads it, and asks for no cancellation.
Observe(r) ==
  /\ r \in results
  /\ ClientGoes(r, "polling", "drop_result")
  /\ outcome' = [outcome EXCEPT ![r] = "result"]
  /\ UNCHANGED spool
  /\ helperUnchanged

\* The deadline is past, or the host cancels the run.
GiveUp(r) ==
  /\ ClientGoes(r, "polling", "check")
  /\ outcome' = [outcome EXCEPT ![r] = "gave_up"]
  /\ UNCHANGED spool
  /\ helperUnchanged

\* The cleanup: a request that is gone has been claimed, so a marker asks
\* for the run to stop; then the two files go.
CheckRequest(r) ==
  /\ ClientGoes(r, "check", IF r \in requests THEN "drop_result" ELSE "mark")
  /\ UNCHANGED <<spool, outcome>>
  /\ helperUnchanged

LeaveMarker(r) ==
  /\ ClientGoes(r, "mark", "drop_result")
  /\ markers' = markers \cup {r}
  /\ UNCHANGED <<requests, inflight, results, outcome>>
  /\ helperUnchanged

DropResult(r) ==
  /\ ClientGoes(r, "drop_result", "drop_request")
  /\ results' = results \ {r}
  /\ UNCHANGED <<requests, inflight, markers, outcome>>
  /\ helperUnchanged

\* (Slip: the request file is left to the helper.)
DropRequestNot(r) ==
  /\ ClientGoes(r, "drop_request", "done")
  /\ UNCHANGED <<spool, outcome>>
  /\ helperUnchanged
DropRequest(r) ==
  /\ ClientGoes(r, "drop_request", "done")
  /\ requests' = requests \ {r}
  /\ UNCHANGED <<inflight, results, markers, outcome>>
  /\ helperUnchanged

ClientStep(r) ==
  Observe(r) \/ GiveUp(r) \/ CheckRequest(r) \/ LeaveMarker(r)
  \/ DropResult(r) \/ DropRequest(r)

Fails == failures < MaxFailures /\ failures' = failures + 1

\* The host process dies in the middle of whatever it was doing.
ClientDies(r) ==
  /\ Fails
  /\ client[r] \notin {"idle", "done", "dead"}
  /\ client' = [client EXCEPT ![r] = "dead"]
  /\ UNCHANGED <<spool, stateFile, outcome, owner, run, starts, up>>

-----------------------------------------------------------------------------
(* The helper: serve_helper and _process_one_request *)

clientUnchanged == UNCHANGED <<client, outcome>>

RunGoes(h, r, from, to) ==
  /\ h \in up /\ owner[r] = h
  /\ run[r] = from
  /\ run' = [run EXCEPT ![r] = to]

\* os.replace(requests/r, inflight/r): whoever renames it owns it.  (Slip:
\* the request is copied, and unlinked with the rest at the end.)
ClaimByCopy(h, r) ==
  /\ h \in up
  /\ r \in requests
  /\ inflight' = inflight \cup {r}
  /\ owner' = [owner EXCEPT ![r] = h]
  /\ run' = [run EXCEPT ![r] = "queued"]
  /\ UNCHANGED <<requests, results, markers, stateFile, starts, up, failures>>
  /\ clientUnchanged
Claim(h, r) ==
  /\ h \in up
  /\ r \in requests
  /\ requests' = requests \ {r}
  /\ inflight' = inflight \cup {r}
  /\ owner' = [owner EXCEPT ![r] = h]
  /\ run' = [run EXCEPT ![r] = "queued"]
  /\ UNCHANGED <<results, markers, stateFile, starts, up, failures>>
  /\ clientUnchanged

\* The limiter: what holds one of its slots in this helper.
Holding(h) == {r \in Request : owner[r] = h /\ run[r] \in {"running", "stopping"}}

StartRun(h, r) ==
  /\ Cardinality(Holding(h)) < MaxInflight
  /\ RunGoes(h, r, "queued", "running")
  /\ starts' = [starts EXCEPT ![r] = @ + 1]
  /\ UNCHANGED <<spool, stateFile, owner, up, failures>>
  /\ clientUnchanged

\* The seat ends by itself.  Its result counts, marker or not ...
RunEnds(h, r) ==
  /\ RunGoes(h, r, "running", "finished")
  /\ UNCHANGED <<spool, stateFile, owner, starts, up, failures>>
  /\ clientUnchanged

\* ... unless it raised: then no result is written at all.
RunRaises(h, r) ==
  /\ RunGoes(h, r, "running", "over")
  /\ inflight' = inflight \ {r}
  /\ UNCHANGED <<requests, results, markers, stateFile, owner, starts, up, failures>>
  /\ clientUnchanged

\* The helper polls for the marker while the seat runs, and only then.  (Slip:
\* it never looks.)
SeeMarkerNever(h, r) == FALSE
SeeMarker(h, r) ==
  /\ r \in markers
  /\ RunGoes(h, r, "running", "stopping")
  /\ UNCHANGED <<spool, stateFile, owner, starts, up, failures>>
  /\ clientUnchanged

\* The cancelled seat is gone: the marker and the claim go, with no result.
StopRun(h, r) ==
  /\ RunGoes(h, r, "stopping", "over")
  /\ markers' = markers \ {r}
  /\ inflight' = inflight \ {r}
  /\ UNCHANGED <<requests, results, stateFile, owner, starts, up, failures>>
  /\ clientUnchanged

WriteResult(h, r) ==
  /\ RunGoes(h, r, "finished", "written")
  /\ results' = results \cup {r}
  /\ UNCHANGED <<requests, inflight, markers, stateFile, owner, starts, up, failures>>
  /\ clientUnchanged

Unclaim(h, r) ==
  /\ RunGoes(h, r, "written", "over")
  /\ inflight' = inflight \ {r}
  /\ UNCHANGED <<requests, results, markers, stateFile, owner, starts, up, failures>>
  /\ clientUnchanged

HelperStep(h, r) ==
  StartRun(h, r) \/ RunEnds(h, r) \/ RunRaises(h, r) \/ SeeMarker(h, r)
  \/ StopRun(h, r) \/ WriteResult(h, r) \/ Unclaim(h, r)

HelperStarts(h) ==
  /\ h \notin up
  /\ up' = up \cup {h}
  /\ stateFile' = h
  /\ UNCHANGED <<spool, owner, run, starts, failures>>
  /\ clientUnchanged

Heartbeat(h) ==
  /\ h \in up
  /\ stateFile' = h
  /\ UNCHANGED <<spool, owner, run, starts, up, failures>>
  /\ clientUnchanged

\* The tasks a helper takes down with it.
Live(h) == {r \in Request : owner[r] = h /\ run[r] \in LiveSteps}

RunsLost(h) == run' = [r \in Request |-> IF r \in Live(h) THEN "lost" ELSE run[r]]

\* A helper told to stop cancels its tasks, which drop their claims, and
\* removes helper.json, whoever wrote it last.  It does not stop between
\* writing a result and dropping the claim, where nothing awaits.
HelperStops(h) ==
  /\ Fails
  /\ h \in up
  /\ \A r \in Live(h) : run[r] \notin {"finished", "written"}
  /\ up' = up \ {h}
  /\ RunsLost(h)
  /\ inflight' = inflight \ Live(h)
  /\ stateFile' = NoHelper
  /\ UNCHANGED <<requests, results, markers, owner, starts>>
  /\ clientUnchanged

\* A helper that is killed leaves everything as it is.
HelperCrashes(h) ==
  /\ Fails
  /\ h \in up
  /\ up' = up \ {h}
  /\ RunsLost(h)
  /\ UNCHANGED <<spool, stateFile, owner, starts>>
  /\ clientUnchanged

\* _sweep_stale_results, by a helper or by another client: whatever nobody
\* polls for grows old.  A request that waits for a slot does not poll.
\* (Slip: only results/ is swept, as an older helper does.)
SweepResultsOnly ==
  /\ \E r \in results :
       /\ client[r] # "polling"
       /\ results' = results \ {r}
       /\ UNCHANGED markers
  /\ UNCHANGED <<requests, inflight, stateFile, owner, run, starts, up, failures>>
  /\ clientUnchanged
Sweep ==
  /\ \/ \E r \in results :
          /\ client[r] # "polling"
          /\ results' = results \ {r}
          /\ UNCHANGED markers
     \/ \E r \in markers :
          /\ run[r] \notin {"running", "stopping"}
          /\ markers' = markers \ {r}
          /\ UNCHANGED results
  /\ UNCHANGED <<requests, inflight, stateFile, owner, run, starts, up, failures>>
  /\ clientUnchanged

Next ==
  \/ \E r \in Request :
       Submit(r) \/ SubmitUnavailable(r) \/ ClientStep(r) \/ ClientDies(r)
  \/ \E h \in Helper, r \in Request : Claim(h, r) \/ HelperStep(h, r)
  \/ \E h \in Helper :
       HelperStarts(h) \/ Heartbeat(h) \/ HelperStops(h) \/ HelperCrashes(h)
  \/ Sweep

Spec == Init /\ [][Next]_vars

\* Clients poll and clean up, helpers poll, write and clean up, launchd keeps
\* a helper running (KeepAlive), old files are swept.  A seat may run for
\* ever: nothing says that RunEnds or RunRaises is taken.
Fairness ==
  /\ \A r \in Request :
       /\ WF_vars(ClientStep(r))
       /\ WF_vars(\E h \in Helper : \/ SeeMarker(h, r) \/ StopRun(h, r)
                                   \/ WriteResult(h, r) \/ Unclaim(h, r))
  /\ WF_vars(\E h \in Helper : HelperStarts(h))
  /\ WF_vars(Sweep)

FairSpec == Spec /\ Fairness

-----------------------------------------------------------------------------

\* The spool read as the promise it makes (SpoolContract).
WorkOf(r) ==
  CASE run[r] = "none" -> IF r \in requests THEN "offered"
                          ELSE IF client[r] = "done" /\ outcome[r] # "unavailable"
                          THEN "withdrawn" ELSE "none"
    [] run[r] = "queued" -> "taken"
    [] run[r] \in {"running", "stopping", "finished"} -> "going"
    [] run[r] \in {"written", "over", "lost"} -> IF r \in results THEN "answered" ELSE "over"

HeardOf(r) ==
  IF client[r] = "dead" /\ outcome[r] = "none" THEN "died" ELSE outcome[r]

workOf == [r \in Request |-> WorkOf(r)]
heardOf == [r \in Request |-> HeardOf(r)]
leftOf == {r \in Request : client[r] = "done"}

Contract == INSTANCE SpoolContract WITH work <- workOf, heard <- heardOf, left <- leftOf

\* Whatever helpers overlap, restart or crash around a request, its caller
\* and its seat see what the contract promises: no prompt is paid for twice,
\* no result is lost to a caller that waits, nothing is run for a caller that
\* was refused or had withdrawn (seat_helper.py:564-653, 842-875).
ImplementsContract == Contract!Spec

\* A request runs a seat at most once, whatever helpers overlap, restart or
\* crash around it: no prompt is paid for twice (seat_helper.py:842-851).
OneRun == \A r \in Request : starts[r] <= 1

\* A client that is gone has withdrawn what nobody claimed: no helper can
\* still pick the request up (seat_helper.py:636-645).
GoneIsWithdrawn == \A r \in Request : client[r] = "done" => r \notin requests

\* The inflight files are the runs under way: a file outlives its task only
\* when the helper was killed (seat_helper.py:842-874).
InflightIsLive ==
  \A r \in Request :
    /\ run[r] \in LiveSteps => r \in inflight
    /\ r \in inflight => run[r] \in LiveSteps \cup {"lost"}

\* Runs whose clients left a marker stop, though their seats may hang for
\* ever: there is always a later moment without one (seat_helper.py:856-865).
MarkedRunStops == []<>(\A r \in Request : r \in markers => run[r] # "running")

\* The spool does not fill up with results and markers that nobody collects,
\* whichever side failed (seat_helper.py:244-255, 569-571).
SpoolDrains == <>[](results \cup markers = {})

\* "A client that gives up leaves a marker in the spool's `cancel`
\* directory, and the helper then stops that run and writes no result"
\* (SECURITY.md:104-106).  Not so for a request claimed after the client's look
\* at it, or a run that ends within one poll of the marker.
GivenUpWritesNothing ==
  [][\A r \in Request :
       outcome[r] = "gave_up" /\ client[r] = "done" /\ r \in results' => r \in results]_vars
=============================================================================
