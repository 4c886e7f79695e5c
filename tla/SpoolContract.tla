--------------------------- MODULE SpoolContract ---------------------------
(***************************************************************************)
(* What the seat helper promises a sandboxed host, whatever files, helper  *)
(* processes and crashes it is made of: a request is taken and run at most *)
(* once, by somebody who took it before its caller left; the caller hears  *)
(* one thing, and a result only if one was written; a result is not        *)
(* thrown away while its caller waits for it; and who hears that there is  *)
(* no helper has started nothing.                                          *)
(***************************************************************************)
CONSTANT Request

VARIABLES
  work,    \* how far the run of each request is
  heard,   \* what its caller has heard, or that it died without
  left     \* the callers that returned

vars == <<work, heard, left>>

Works == {"none", "offered", "withdrawn", "taken", "going", "answered", "over"}
Heards == {"none", "result", "gave_up", "unavailable", "died"}

Init ==
  /\ work = [q \in Request |-> "none"]
  /\ heard = [q \in Request |-> "none"]
  /\ left = {}

Moves(q, from, to) ==
  /\ work[q] \in from
  /\ work' = [work EXCEPT ![q] = to]

Hears(q, what) ==
  /\ heard[q] = "none"
  /\ heard' = [heard EXCEPT ![q] = what]

Offer(q) ==
  /\ heard[q] = "none"
  /\ Moves(q, {"none"}, "offered")
  /\ UNCHANGED <<heard, left>>

Refuse(q) ==
  /\ work[q] = "none"
  /\ Hears(q, "unavailable")
  /\ left' = left \cup {q}
  /\ UNCHANGED work

Take(q) ==
  /\ q \notin left
  /\ Moves(q, {"offered"}, "taken")
  /\ UNCHANGED <<heard, left>>

Start(q) == Moves(q, {"taken"}, "going") /\ UNCHANGED <<heard, left>>

Answer(q) == Moves(q, {"going"}, "answered") /\ UNCHANGED <<heard, left>>

\* A run that fails or was told to stop leaves nothing.
End(q) == Moves(q, {"going"}, "over") /\ UNCHANGED <<heard, left>>

\* A helper is gone, and its runs with it.
Lose(qs) ==
  /\ \A q \in qs : work[q] \in {"taken", "going"}
  /\ work' = [q \in Request |-> IF q \in qs THEN "over" ELSE work[q]]
  /\ UNCHANGED <<heard, left>>

Discard(q) ==
  /\ heard[q] # "none"
  /\ Moves(q, {"answered"}, "over")
  /\ UNCHANGED <<heard, left>>

Learn(q) ==
  /\ \/ work[q] = "answered" /\ Hears(q, "result")
     \/ work[q] # "none" /\ \E what \in {"gave_up", "died"} : Hears(q, what)
  /\ UNCHANGED <<work, left>>

\* The caller returns; a request that nobody took is withdrawn.
Leave(q) ==
  /\ heard[q] \in {"result", "gave_up"} /\ q \notin left
  /\ left' = left \cup {q}
  /\ work' = [work EXCEPT ![q] = IF @ = "offered" THEN "withdrawn" ELSE @]
  /\ UNCHANGED heard

Next ==
  \/ \E q \in Request :
       \/ Offer(q) \/ Refuse(q) \/ Take(q) \/ Start(q) \/ Answer(q) \/ End(q)
       \/ Discard(q) \/ Learn(q) \/ Leave(q)
  \/ \E qs \in SUBSET Request : Lose(qs)

Spec == Init /\ [][Next]_vars
=============================================================================
