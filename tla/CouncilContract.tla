-------------------------- MODULE CouncilContract --------------------------
(***************************************************************************)
(* What a council promises its caller, whatever its seats do and however   *)
(* stances, prompts and timeouts are handled: rounds in step, each of the  *)
(* seats that answered the round before; every one of them is shown the    *)
(* same answers, those just given, uncompressed; and the matrix returned   *)
(* has one row for every seat of every round, or there is none.            *)
(***************************************************************************)
EXTENDS Naturals

CONSTANTS Seat, Rounds

VARIABLES
  state,   \* "asking", "over" or "cancelled"
  round,
  seats,   \* the seats asked in it
  shown,   \* the answers each was shown: of which round, whose, "full" or a "stub"
  rows     \* the matrix so far: round, seat, "ok" or "failed"

vars == <<state, round, seats, shown, rows>>

Init ==
  /\ state = "asking" /\ round = 0
  /\ seats = Seat
  /\ shown = [s \in Seat |-> {}]
  /\ rows = {}

\* The answers of the seats that gave one, as all of them will see them.
Given(answered) == {<<round, t, "full">> : t \in answered}

\* Every seat has ended: a row for each.
Collect(answered) ==
  /\ state = "asking"
  /\ answered \subseteq seats
  /\ rows' = rows \cup {<<round, s, IF s \in answered THEN "ok" ELSE "failed">> : s \in seats}

GoOn(answered) ==
  /\ Collect(answered)
  /\ answered # {} /\ round + 1 < Rounds
  /\ round' = round + 1
  /\ seats' = answered
  /\ shown' = [s \in Seat |-> IF s \in answered THEN Given(answered) ELSE {}]
  /\ UNCHANGED state

Return(answered) ==
  /\ Collect(answered)
  /\ answered = {} \/ round + 1 = Rounds
  /\ state' = "over"
  /\ UNCHANGED <<round, seats, shown>>

Withdraw ==
  /\ state = "asking"
  /\ state' = "cancelled"
  /\ UNCHANGED <<round, seats, shown, rows>>

Next ==
  \/ \E answered \in SUBSET Seat : GoOn(answered) \/ Return(answered)
  \/ Withdraw

Spec == Init /\ [][Next]_vars
=============================================================================
