----------------------------- MODULE CouncilProofs -----------------------------
(***************************************************************************)
(* Theorems about Council, for any number of seats, stances and rounds,    *)
(* and about Review, for any number of edits, pushes, checkouts and        *)
(* cancellations.                                                          *)
(*                                                                         *)
(* Council's inductive invariant says of a round under way what the next   *)
(* one will rely on: the rounds not collected are empty, the active seats  *)
(* answered the round before, the prompts show just that round, and in the *)
(* round of the rotation the stances are those of the round before,        *)
(* shifted by one active seat.  Review's says which answers the task has   *)
(* at each command, and in which order the world gave them.                *)
(***************************************************************************)
EXTENDS Council, Review, TLAPS, WellFoundedInduction, FiniteSetTheorems

LEMMA PositionFacts ==
  /\ Position \in [Seat -> Nat]
  /\ \A s, t \in Seat : Position[s] = Position[t] => s = t
  /\ \E n \in Nat : \A s \in Seat : Position[s] < n
<1>1. Cardinality(Seat) \in Nat
  BY PositionAssumption, FS_CardinalityType
<1>2. \A s \in Seat : Position[s] \in 0 .. Cardinality(Seat) - 1
  BY PositionAssumption
<1>3. \A s \in Seat : Position[s] \in Nat /\ Position[s] < Cardinality(Seat)
  BY <1>1, <1>2
<1> QED BY <1>1, <1>3, PositionAssumption

USE PositionFacts, RoundsAssumption

-----------------------------------------------------------------------------
(* The ring of the seats *)

\* Every nonempty set of naturals has a least element: what stands for an
\* induction below.
LEMMA LeastNat ==
  ASSUME NEW D \in SUBSET Nat, D # {}
  PROVE  \E x \in D : \A y \in D : x <= y
<1> DEFINE R == {ss \in Nat \X Nat : ss[1] < ss[2]}
<1>1. IsWellFoundedOn(R, Nat)
  BY NatLessThanWellFounded DEF OpToRel
<1>2. PICK x \in D : \A y \in D : ~ (<<y, x>> \in R)
  <2> HIDE DEF R
  <2> QED BY <1>1, WFMin
<1>3. ASSUME NEW y \in D PROVE x <= y
  <2>1. y \in Nat /\ x \in Nat
    OBVIOUS
  <2>2. <<y, x>> \in Nat \X Nat /\ <<y, x>>[1] = y /\ <<y, x>>[2] = x
    BY <2>1
  <2>3. ~(y < x)
    <3>1. SUFFICES ASSUME y < x PROVE FALSE
      OBVIOUS
    <3>2. <<y, x>> \in R
      BY <2>2, <3>1
    <3> HIDE DEF R
    <3> QED BY <3>2, <1>2
  <2> QED BY <2>1, <2>3
<1> QED BY <1>3

\* Last finds the last seat of a nonempty set.
LEMMA LastIsLast ==
  ASSUME NEW A \in SUBSET Seat, A # {}
  PROVE  Last(A) \in A /\ \A u \in A : Position[u] <= Position[Last(A)]
<1>1. PICK n \in Nat : \A s \in Seat : Position[s] < n
  OBVIOUS
<1> DEFINE D == {n - Position[u] : u \in A}
<1>2. D \in SUBSET Nat
  <2>1. ASSUME NEW u \in A PROVE n - Position[u] \in Nat
    <3>1. Position[u] \in Nat /\ Position[u] < n
      BY <1>1
    <3> QED BY <3>1
  <2> QED BY <2>1
<1>3. D # {}
  <2>1. PICK u \in A : TRUE
    OBVIOUS
  <2>2. n - Position[u] \in D
    OBVIOUS
  <2> QED BY <2>2
<1>4. PICK x \in D : \A y \in D : x <= y
  <2> HIDE DEF D
  <2> QED BY <1>2, <1>3, LeastNat
<1>5. PICK t \in A : x = n - Position[t]
  BY <1>4
<1>6. ASSUME NEW u \in A PROVE Position[u] <= Position[t]
  <2>1. n - Position[t] <= n - Position[u]
    BY <1>4, <1>5
  <2>2. Position[t] \in Nat /\ Position[u] \in Nat
    OBVIOUS
  <2> QED BY <2>1, <2>2
<1> QED BY <1>5, <1>6 DEF Last

\* The seat before one of A is one of A.
LEMMA PreviousIn ==
  ASSUME NEW A \in SUBSET Seat, NEW s \in A
  PROVE  Previous(A, s) \in A
<1>1. CASE Before(A, s) = {}
  BY <1>1, LastIsLast DEF Previous
<1>2. CASE Before(A, s) # {}
  <2>1. Before(A, s) \in SUBSET Seat /\ Before(A, s) \subseteq A
    BY DEF Before
  <2>2. Last(Before(A, s)) \in Before(A, s)
    BY <1>2, <2>1, LastIsLast
  <2> QED BY <1>2, <2>1, <2>2 DEF Previous
<1> QED BY <1>1, <1>2

\* Two seats of A have different seats before them.
LEMMA PreviousInjective ==
  ASSUME NEW A \in SUBSET Seat, NEW s \in A, NEW t \in A,
         Previous(A, s) = Previous(A, t)
  PROVE  s = t
<1> DEFINE p == Previous(A, s)
<1>1. Position[s] \in Nat /\ Position[t] \in Nat
  OBVIOUS
<1>2. ASSUME NEW u \in A, NEW v \in A, Position[u] < Position[v],
             Previous(A, u) = Previous(A, v)
      PROVE  FALSE
  <2>1. u \in Before(A, v) /\ Before(A, v) \in SUBSET Seat
    BY <1>2 DEF Before
  <2>2. /\ Last(Before(A, v)) \in Before(A, v)
        /\ Position[u] <= Position[Last(Before(A, v))]
    BY <2>1, LastIsLast
  <2>3. Previous(A, v) = Last(Before(A, v))
    BY <2>1 DEF Previous
  <2>4. CASE Before(A, u) = {}
    <3>1. Previous(A, u) = Last(A)
      BY <2>4 DEF Previous
    <3>2. Position[v] <= Position[Last(A)]
      BY LastIsLast
    <3>3. Position[Last(Before(A, v))] < Position[v]
      BY <2>2 DEF Before
    <3>4. Last(A) = Last(Before(A, v)) /\ Last(A) \in A
      BY <1>2, <2>3, <3>1, LastIsLast
    <3>5. Position[Last(A)] \in Nat /\ Position[v] \in Nat
      BY <3>4
    <3> QED BY <3>2, <3>3, <3>4, <3>5
  <2>5. CASE Before(A, u) # {}
    <3>1. Previous(A, u) = Last(Before(A, u))
      BY <2>5 DEF Previous
    <3>2. Before(A, u) \in SUBSET Seat
      BY DEF Before
    <3>3. Last(Before(A, u)) \in Before(A, u)
      BY <2>5, <3>2, LastIsLast
    <3>4. Last(Before(A, u)) \in A /\ Position[Last(Before(A, u))] < Position[u]
      BY <3>3 DEF Before
    <3>5. Position[Last(Before(A, u))] \in Nat /\ Position[u] \in Nat
      BY <3>4
    <3> QED BY <1>2, <2>2, <2>3, <3>1, <3>4, <3>5
  <2> QED BY <2>4, <2>5
<1>3. ~(Position[s] < Position[t]) /\ ~(Position[t] < Position[s])
  BY <1>2
<1>4. Position[s] = Position[t]
  BY <1>1, <1>3
<1> QED BY <1>4

\* Rotation keeps the roles stances, and gives a seat another one where the
\* stances all differ.
LEMMA RotatedType ==
  ASSUME NEW A \in SUBSET Seat, current \in [Seat -> Stance]
  PROVE  Rotated(A) \in [Seat -> Stance]
BY PreviousIn DEF Rotated

-----------------------------------------------------------------------------
(* The inductive invariant *)

\* The rounds that are not collected yet have no rows.
RowsAhead ==
  \A k \in RoundNo : (k > r \/ (k = r /\ phase # "over")) =>
    \A s \in Seat : board[k][s] = "absent"

\* Who is active answered the round before.
ActiveAnswered ==
  r > 0 => \A s \in active : board[r - 1][s] = "ok"

\* The stances of the rotation round are those before, shifted.
Shifted(now, was, A) ==
  now = [s \in Seat |-> IF s \in A THEN was[Previous(A, s)] ELSE was[s]]
RotationShape == Rotates(r) => Shifted(current, prior, active)

Core == TypeOK /\ RowsAhead /\ ActiveAnswered /\ RotationShape
Views == TagsTruthful /\ SameFreshBoard
IInv == Core /\ Views /\ DroppedStayOut
LEMMA InitIInv == Init => IInv
<1> SUFFICES ASSUME Init PROVE IInv
  OBVIOUS
<1>1. 0 \in RoundNo
  BY DEF RoundNo
<1>2. Nothing \in Prompt
  BY DEF Nothing, Prompt
<1>3. TypeOK
  BY <1>1, <1>2 DEF Init, TypeOK, Endings, Failures
<1>4. RowsAhead /\ ActiveAnswered /\ RotationShape
  BY DEF Init, RowsAhead, ActiveAnswered, RotationShape, Rotates
<1>5. Views
  BY DEF Init, Views, TagsTruthful, SameFreshBoard, Shown, Nothing
<1>6. DroppedStayOut
  <2>1. \A k \in 1 .. Rounds - 1 : k \in RoundNo
    BY DEF RoundNo
  <2> QED BY <2>1 DEF Init, DroppedStayOut
<1> QED BY <1>3, <1>4, <1>5, <1>6 DEF IInv, Core

\* What the steps of the seats and a cancellation leave alone.
Still == UNCHANGED <<r, active, current, prior, prompt, board>>

LEMMA StillKeeps ==
  ASSUME IInv, Still, phase = "asking", TypeOK'
  PROVE  IInv'
<1> USE DEF IInv, Core, Still
<1>1. RowsAhead'
  BY DEF RowsAhead
<1>2. ActiveAnswered'
  BY DEF ActiveAnswered
<1>3. RotationShape'
  BY DEF RotationShape, Rotates, Shifted
<1>4. Views'
  BY DEF Views, TagsTruthful, SameFreshBoard, Shown
<1>5. DroppedStayOut'
  BY DEF DroppedStayOut
<1> QED BY <1>1, <1>2, <1>3, <1>4, <1>5

\* An answer of the round, and what the next round is shown of it.
LEMMA AnswerFacts ==
  ASSUME TypeOK, NEW s \in Seat
  PROVE  /\ AnswerOf(s) \in Answer
         /\ AnswerOf(s).author = s
         /\ AnswerOf(s).round = r
         /\ AnswerOf(s).stance = current[s]
         /\ r + 1 < Rounds => ~AnswerOf(s).terse
<1>1. TerseIn(r) \in BOOLEAN
  BY DEF TerseIn
<1>2. r \in RoundNo /\ current[s] \in Stance /\ r \in Nat /\ Rounds \in Nat
  BY DEF TypeOK, RoundNo
<1>3. r + 1 < Rounds => ~TerseIn(r)
  BY <1>2 DEF TerseIn
<1> QED BY <1>1, <1>2, <1>3 DEF AnswerOf, Answer

LEMMA BoardNowType ==
  ASSUME TypeOK, RoundEnded
  PROVE  /\ BoardNow \in [RoundNo -> [Seat -> {"absent"} \cup Endings]]
         /\ \A k \in RoundNo : k # r => BoardNow[k] = board[k]
         /\ \A s \in Seat : BoardNow[r][s] = IF s \in active THEN seat[s] ELSE "absent"
BY DEF TypeOK, RoundEnded, BoardNow
\* The seats end their turns and the job is cancelled.
LEMMA SeatSteps ==
  ASSUME IInv,
         \/ \E s \in Seat : SeatAnswers(s) \/ SeatFails(s) \/ SeatTimesOut(s)
         \/ Cancel
  PROVE  IInv'
<1>1. TypeOK
  BY DEF IInv, Core
<1>2. CASE Cancel
  <2>1. TypeOK'
    BY <1>1, <1>2 DEF Cancel, TypeOK, Endings, Failures
  <2>2. Still /\ phase = "asking"
    BY <1>2 DEF Cancel, Still
  <2> QED BY <2>1, <2>2, StillKeeps
<1>3. ASSUME NEW s \in Seat, SeatAnswers(s) \/ SeatFails(s) \/ SeatTimesOut(s)
      PROVE  IInv'
  <2>1. TypeOK'
    BY <1>1, <1>3 DEF SeatAnswers, SeatFails, SeatTimesOut, TypeOK, Endings, Failures
  <2>2. Still /\ phase = "asking"
    BY <1>3 DEF SeatAnswers, SeatFails, SeatTimesOut, Still
  <2> QED BY <2>1, <2>2, StillKeeps
<1> QED BY <1>2, <1>3

\* A round is collected: its row joins the board.
LEMMA CollectedRows ==
  ASSUME IInv, RoundEnded
  PROVE  /\ \A k \in RoundNo : k > r => \A s \in Seat : BoardNow[k][s] = "absent"
         /\ \A k \in 1 .. Rounds - 1 : \A s \in Seat :
              BoardNow[k][s] # "absent" => BoardNow[k - 1][s] = "ok"
<1> USE DEF IInv, Core
<1>1. r \in RoundNo /\ r \in Nat /\ Rounds \in Nat /\ active \subseteq Seat
  BY DEF TypeOK, RoundNo
<1>2. \A k \in RoundNo : k # r => BoardNow[k] = board[k]
  BY BoardNowType
<1>3. \A k \in RoundNo : k > r => \A s \in Seat : BoardNow[k][s] = "absent"
  BY <1>1, <1>2 DEF RowsAhead, RoundNo
<1>4. ASSUME NEW k \in 1 .. Rounds - 1, NEW s \in Seat, BoardNow[k][s] # "absent"
      PROVE  BoardNow[k - 1][s] = "ok"
  <2>1. k \in RoundNo /\ k - 1 \in RoundNo /\ k - 1 # k /\ k \in Nat
    BY <1>1 DEF RoundNo
  <2>2. k <= r
    BY <1>1, <1>3, <1>4, <2>1
  <2>3. k - 1 # r /\ BoardNow[k - 1] = board[k - 1]
    BY <1>1, <1>2, <2>1, <2>2
  <2>4. CASE k = r
    <3>1. s \in active
      BY <1>4, <2>4, BoardNowType
    <3> QED BY <1>1, <2>1, <2>3, <2>4, <3>1 DEF ActiveAnswered
  <2>5. CASE k # r
    <3>1. board[k][s] # "absent"
      BY <1>2, <1>4, <2>1, <2>5
    <3> QED BY <2>3, <3>1 DEF DroppedStayOut
  <2> QED BY <2>4, <2>5
<1> QED BY <1>3, <1>4

LEMMA FinishStep ==
  ASSUME IInv, Finish
  PROVE  IInv'
<1>1. TypeOK /\ RoundEnded
  BY DEF IInv, Core, Finish
<1>2. TypeOK'
  BY <1>1, BoardNowType DEF Finish, TypeOK
<1>3. RowsAhead' /\ DroppedStayOut'
  <2>1. RowsAhead'
    BY <1>1, CollectedRows DEF Finish, RowsAhead
  <2>2. DroppedStayOut'
    BY <1>1, CollectedRows DEF Finish, DroppedStayOut
  <2> QED BY <2>1, <2>2
<1>4. ActiveAnswered'
  <2>1. r \in RoundNo /\ r - 1 # r /\ (r > 0 => r - 1 \in RoundNo)
    BY <1>1 DEF TypeOK, RoundNo
  <2>2. r > 0 => BoardNow[r - 1] = board[r - 1]
    BY <1>1, <2>1, BoardNowType
  <2> QED BY <2>2 DEF IInv, Core, Finish, ActiveAnswered
<1>5. RotationShape'
  BY DEF IInv, Core, Finish, RotationShape, Rotates, Shifted
<1>6. Views'
  BY DEF IInv, Finish, Views, TagsTruthful, SameFreshBoard, Shown
<1> QED BY <1>2, <1>3, <1>4, <1>5, <1>6 DEF IInv, Core
\* The next round is asked: each seat left is shown the answers of all the
\* seats left, each under the stance that produced it.
LEMMA NextViews ==
  ASSUME IInv, NextRound, current' \in [Seat -> Stance], NEW s \in Survivors
  PROVE  /\ prompt'[s] \in Prompt
         /\ \A p \in prompt'[s].tagged : p.tag = p.answer.stance
         /\ {a.author : a \in Shown(s)'} = Survivors
         /\ \A a \in Shown(s)' : a.round = r /\ ~a.terse
<1>1. TypeOK /\ r + 1 < Rounds
  BY DEF IInv, Core, NextRound
<1>2. Survivors \subseteq Seat
  BY <1>1 DEF Survivors, TypeOK
<1>3. \A t \in Survivors : /\ AnswerOf(t) \in Answer
                           /\ AnswerOf(t).author = t
                           /\ AnswerOf(t).round = r
                           /\ AnswerOf(t).stance = current[t]
                           /\ ~AnswerOf(t).terse
  BY <1>1, <1>2, AnswerFacts
<1>4. CASE Rotates(r + 1)
  <2>1. prompt'[s] = RotationPrompt(current', prior') /\ prior' = current
    BY <1>2, <1>4 DEF NextRound
  <2> DEFINE row(t) == [answer |-> AnswerOf(t), tag |-> current[t]]
  <2>2. prompt'[s] = [own |-> {}, tagged |-> {row(t) : t \in Survivors}]
    BY <2>1 DEF RotationPrompt
  <2>3. \A t \in Survivors : row(t) \in Tagged
    BY <1>1, <1>2, <1>3 DEF Tagged, TypeOK
  <2>4. prompt'[s] \in Prompt
    BY <2>2, <2>3 DEF Prompt
  <2>5. \A p \in prompt'[s].tagged : p.tag = p.answer.stance
    BY <1>3, <2>2
  <2>6. Shown(s)' = {AnswerOf(t) : t \in Survivors}
    <3>1. Shown(s)' = {p.answer : p \in {row(t) : t \in Survivors}}
      BY <2>2 DEF Shown
    <3>2. \A t \in Survivors : row(t).answer = AnswerOf(t)
      OBVIOUS
    <3> HIDE DEF row
    <3> QED BY <3>1, <3>2
  <2> HIDE DEF row
  <2> QED BY <1>3, <2>4, <2>5, <2>6
<1>5. CASE ~Rotates(r + 1)
  <2>1. prompt'[s] = RoundPrompt(s, current') /\ current' = current
    BY <1>2, <1>5 DEF NextRound
  <2> DEFINE row(t) == [answer |-> AnswerOf(t), tag |-> current[t]]
  <2>2. prompt'[s] = [own |-> {AnswerOf(s)}, tagged |-> {row(t) : t \in Survivors \ {s}}]
    BY <2>1 DEF RoundPrompt
  <2>3. \A t \in Survivors : row(t) \in Tagged
    BY <1>1, <1>2, <1>3 DEF Tagged, TypeOK
  <2>4. prompt'[s] \in Prompt
    BY <1>3, <2>2, <2>3 DEF Prompt
  <2>5. \A p \in prompt'[s].tagged : p.tag = p.answer.stance
    BY <1>3, <2>2
  <2>6. Shown(s)' = {AnswerOf(t) : t \in Survivors}
    <3>1. Shown(s)' = {AnswerOf(s)} \cup {p.answer : p \in {row(t) : t \in Survivors \ {s}}}
      BY <2>2 DEF Shown
    <3>2. \A t \in Survivors : row(t).answer = AnswerOf(t)
      OBVIOUS
    <3> HIDE DEF row
    <3> QED BY <3>1, <3>2
  <2> HIDE DEF row
  <2> QED BY <1>3, <2>4, <2>5, <2>6
<1> QED BY <1>4, <1>5

LEMMA NextRoundStep ==
  ASSUME IInv, NextRound
  PROVE  IInv'
<1>1. /\ TypeOK /\ RoundEnded /\ r \in Nat /\ Rounds \in Nat /\ r + 1 < Rounds
      /\ r' = r + 1 /\ r' - 1 = r /\ r' > 0
  BY DEF IInv, Core, NextRound, TypeOK, RoundNo
<1>2. Survivors \subseteq Seat /\ active' = Survivors /\ prior' = current /\ board' = BoardNow
  BY <1>1 DEF NextRound, Survivors, TypeOK
<1>3. current' \in [Seat -> Stance]
  BY <1>1, <1>2, RotatedType DEF NextRound, TypeOK
<1>4. TypeOK'
  <2>1. r' \in RoundNo
    BY <1>1 DEF RoundNo
  <2>2. Nothing \in Prompt
    BY DEF Nothing, Prompt
  <2>3. prompt' \in [Seat -> Prompt]
    <3>1. \A s \in Survivors : prompt'[s] \in Prompt
      BY <1>3, NextViews
    <3>2. \A s \in Seat : s \notin Survivors => prompt'[s] = Nothing
      BY DEF NextRound
    <3>3. prompt' = [s \in Seat |-> prompt'[s]]
      BY DEF NextRound
    <3> QED BY <2>2, <3>1, <3>2, <3>3
  <2>4. seat' \in [Seat -> {"idle", "running"} \cup Endings]
    BY DEF NextRound
  <2>5. phase' = phase
    BY DEF NextRound
  <2> QED BY <1>1, <1>2, <1>3, <2>1, <2>3, <2>4, <2>5, BoardNowType DEF TypeOK
<1>5. RowsAhead'
  <2>1. \A k \in RoundNo : (k > r' \/ k = r') => k > r
    BY <1>1 DEF RoundNo
  <2> QED BY <1>1, <1>2, <2>1, CollectedRows DEF RowsAhead
<1>6. ActiveAnswered'
  <2>1. \A s \in Survivors : BoardNow[r][s] = "ok"
    BY <1>1, <1>2, BoardNowType DEF Survivors
  <2> QED BY <1>1, <1>2, <2>1 DEF ActiveAnswered
<1>7. RotationShape'
  BY <1>1, <1>2 DEF NextRound, Rotated, RotationShape, Shifted, Rotates
<1>8. DroppedStayOut'
  BY <1>1, <1>2, CollectedRows DEF DroppedStayOut
<1>9. Views'
  <2>1. \A s \in Survivors : \A p \in prompt'[s].tagged : p.tag = p.answer.stance
    BY <1>3, NextViews
  <2>2. \A s \in Survivors : {a.author : a \in Shown(s)'} = Survivors
    BY <1>3, NextViews
  <2>3. \A s \in Survivors : \A a \in Shown(s)' : a.round = r /\ ~a.terse
    BY <1>3, NextViews
  <2>4. TagsTruthful'
    BY <1>2, <2>1 DEF TagsTruthful
  <2>5. SameFreshBoard'
    BY <1>1, <1>2, <2>2, <2>3 DEF SameFreshBoard
  <2> QED BY <2>4, <2>5 DEF Views
<1> QED BY <1>4, <1>5, <1>6, <1>7, <1>8, <1>9 DEF IInv, Core

-----------------------------------------------------------------------------

LEMMA StutterStep ==
  ASSUME IInv, UNCHANGED vars
  PROVE  IInv'
<1> USE DEF vars, IInv, Core
<1>1. TypeOK' /\ RowsAhead'
  BY DEF TypeOK, RowsAhead
<1>2. ActiveAnswered' /\ RotationShape'
  BY DEF ActiveAnswered, RotationShape, Rotates, Shifted
<1>3. Views'
  BY DEF Views, TagsTruthful, SameFreshBoard, Shown
<1>4. DroppedStayOut'
  BY DEF DroppedStayOut
<1> QED BY <1>1, <1>2, <1>3, <1>4

\* The invariant is inductive.
THEOREM Invariance == Spec => []IInv
<1>1. IInv /\ [Next]_vars => IInv'
  BY SeatSteps, FinishStep, NextRoundStep, StutterStep DEF Next
<1> QED BY <1>1, InitIInv, PTL DEF Spec

\* The council's state keeps its type: no tag is anything but a stance, no
\* prompt holds an answer of a round to come (council.py:167-289).
THEOREM TypeCorrect == Spec => []TypeOK
<1>1. IInv => TypeOK
  BY DEF IInv, Core
<1> QED BY <1>1, Invariance, PTL

\* A prior answer is always tagged with the stance that produced it, however
\* many rounds, seats and failures (council.py:121, 234).
THEOREM TagsAlwaysTruthful == Spec => []TagsTruthful
<1>1. IInv => TagsTruthful
  BY DEF IInv, Views
<1> QED BY <1>1, Invariance, PTL

\* Every seat is shown the answers of the seats still active, of the round
\* before and of no other, none of them compressed (council.py:84-99, 224-288).
THEOREM BoardSameAndFresh == Spec => []SameFreshBoard
<1>1. IInv => SameFreshBoard
  BY DEF IInv, Views
<1> QED BY <1>1, Invariance, PTL

\* A seat that failed stays out of all the rounds that follow (council.py:227).
THEOREM FailedStayOut == Spec => []DroppedStayOut
<1>1. IInv => DroppedStayOut
  BY DEF IInv
<1> QED BY <1>1, Invariance, PTL

-----------------------------------------------------------------------------
(* The council keeps its contract *)

LEMMA ContractInit == Init => Contract!Init
<1> SUFFICES ASSUME Init PROVE Contract!Init
  OBVIOUS
<1>1. shownOf = [s \in Seat |-> {}]
  BY DEF Init, shownOf, Shown, Nothing
<1>2. rowsOf = {}
  BY DEF Init, rowsOf
<1> QED BY <1>1, <1>2 DEF Init, Contract!Init

\* The round's rows join the matrix: nobody of it was in it before, and every
\* seat that was asked is in it now.
LEMMA RowsCollected ==
  ASSUME IInv, RoundEnded, board' = BoardNow
  PROVE  Contract!Collect(Survivors)
<1>1. /\ TypeOK /\ r \in RoundNo /\ active \subseteq Seat /\ Survivors \subseteq active
      /\ phase = "asking" /\ \A s \in active : seat[s] \in Endings
  BY DEF IInv, Core, TypeOK, RoundEnded, Survivors
<1>2. \A s \in Seat : board[r][s] = "absent"
  BY <1>1 DEF IInv, Core, RowsAhead
<1>3. \A k \in RoundNo : k # r => board'[k] = board[k]
  BY <1>1, BoardNowType
<1>4. \A s \in Seat : board'[r][s] = IF s \in active THEN seat[s] ELSE "absent"
  BY <1>1, BoardNowType
<1> DEFINE now == {<<r, s, IF s \in Survivors THEN "ok" ELSE "failed">> : s \in active}
<1>5. ASSUME NEW x \in RoundNo \X Seat \X {"ok", "failed"}
      PROVE  x \in rowsOf' <=> x \in rowsOf \/ x \in now
  <2>1. x[1] \in RoundNo /\ x[2] \in Seat /\ x = <<x[1], x[2], x[3]>>
    OBVIOUS
  <2>2. CASE x[1] # r
    <3>1. x \notin now
      BY <2>2
    <3> QED BY <1>3, <2>1, <2>2, <3>1 DEF rowsOf
  <2>3. CASE x[1] = r
    <3>1. x \notin rowsOf
      BY <1>2, <2>1, <2>3 DEF rowsOf
    <3>2. x \in rowsOf' <=> x[2] \in active /\ x[3] = Outcome(seat[x[2]])
      BY <1>1, <1>4, <2>1, <2>3 DEF rowsOf, Endings, Failures
    <3>3. x[2] \in active => (Outcome(seat[x[2]]) = IF x[2] \in Survivors THEN "ok" ELSE "failed")
      BY DEF Outcome, Survivors
    <3>4. x \in now <=> x[2] \in active /\ x[3] = IF x[2] \in Survivors THEN "ok" ELSE "failed"
      BY <2>1, <2>3
    <3> QED BY <3>1, <3>2, <3>3, <3>4
  <2> QED BY <2>2, <2>3
<1>6. /\ rowsOf \subseteq RoundNo \X Seat \X {"ok", "failed"}
      /\ rowsOf' \subseteq RoundNo \X Seat \X {"ok", "failed"}
      /\ now \subseteq RoundNo \X Seat \X {"ok", "failed"}
  BY <1>1 DEF rowsOf
<1>7. rowsOf' = rowsOf \cup now
  <2> HIDE DEF now
  <2> QED BY <1>5, <1>6
<1> QED BY <1>1, <1>7 DEF Contract!Collect

LEMMA NextRoundGoesOn ==
  ASSUME IInv, NextRound
  PROVE  Contract!GoOn(Survivors)
<1>1. /\ TypeOK /\ RoundEnded /\ board' = BoardNow /\ current' \in [Seat -> Stance]
      /\ Survivors \subseteq Seat
  BY RotatedType DEF IInv, Core, NextRound, Survivors, TypeOK
<1>2. ASSUME NEW s \in Survivors
      PROVE  shownOf'[s] = Contract!Given(Survivors)
  <2> DEFINE told(a) == <<a.round, a.author, IF a.terse THEN "stub" ELSE "full">>
  <2>1. shownOf'[s] = {told(a) : a \in Shown(s)'}
    BY <1>1 DEF shownOf
  <2>2. \A a \in Shown(s)' : told(a) = <<r, a.author, "full">>
    BY <1>1, NextViews
  <2>3. {a.author : a \in Shown(s)'} = Survivors
    BY <1>1, NextViews
  <2>4. {<<r, a.author, "full">> : a \in Shown(s)'} = {<<r, t, "full">> : t \in Survivors}
    BY <2>3
  <2> HIDE DEF told
  <2> QED BY <2>1, <2>2, <2>4 DEF Contract!Given
<1>3. ASSUME NEW s \in Seat, s \notin Survivors
      PROVE  shownOf'[s] = {}
  <2>1. prompt'[s] = Nothing
    BY <1>3 DEF NextRound
  <2> QED BY <2>1 DEF shownOf, Shown, Nothing
<1>4. shownOf' = [s \in Seat |-> IF s \in Survivors THEN Contract!Given(Survivors) ELSE {}]
  <2>1. shownOf' = [s \in Seat |-> shownOf'[s]]
    BY DEF shownOf
  <2> QED BY <1>2, <1>3, <2>1
<1> QED BY <1>1, <1>4, RowsCollected DEF NextRound, Contract!GoOn

LEMMA ContractStep ==
  ASSUME IInv, [Next]_vars
  PROVE  [Contract!Next]_Contract!vars
<1>1. ASSUME UNCHANGED <<phase, r, active, prompt, board>>
      PROVE  UNCHANGED Contract!vars
  BY <1>1 DEF Contract!vars, shownOf, Shown, rowsOf
<1>2. CASE \E s \in Seat : SeatAnswers(s) \/ SeatFails(s) \/ SeatTimesOut(s)
  BY <1>1, <1>2 DEF SeatAnswers, SeatFails, SeatTimesOut
<1>3. Survivors \in SUBSET Seat
  BY DEF IInv, Core, TypeOK, Survivors
<1>4. CASE NextRound
  BY <1>3, <1>4, NextRoundGoesOn DEF Contract!Next
<1>5. CASE Finish
  <2>1. Contract!Return(Survivors)
    BY <1>5, RowsCollected DEF Finish, Contract!Return, shownOf, Shown
  <2> QED BY <1>3, <2>1 DEF Contract!Next
<1>6. CASE Cancel
  BY <1>6 DEF Cancel, Contract!Next, Contract!Withdraw, shownOf, Shown, rowsOf
<1>7. CASE UNCHANGED vars
  BY <1>1, <1>7 DEF vars
<1> QED BY <1>2, <1>4, <1>5, <1>6, <1>7 DEF Next

\* A council of any number of seats and rounds keeps its contract: rounds in
\* step, the same fresh answers for every seat left, a row for each seat of
\* each round (council.py:84-99, 210-289).
THEOREM KeepsContract == Spec => ImplementsContract
<1> QED BY ContractInit, ContractStep, Invariance, PTL
        DEF Spec, ImplementsContract, Contract!Spec

-----------------------------------------------------------------------------
(* The rotation deals the stances *)

\* Every seat of A is the one before some seat of A.
LEMMA PreviousOnto ==
  ASSUME NEW A \in SUBSET Seat, NEW u \in A
  PROVE  \E s \in A : Previous(A, s) = u
<1> DEFINE f == [s \in A |-> Previous(A, s)]
<1>1. f \in Injection(A, A)
  BY PreviousIn, PreviousInjective DEF Injection, IsInjective
<1>2. IsFiniteSet(A)
  BY PositionAssumption, FS_Subset
<1>3. f \in Surjection(A, A)
  <2> HIDE DEF f
  <2> QED BY <1>1, <1>2, FS_Injection
<1> QED BY <1>3 DEF Surjection

\* With two seats or more, the one before is another one.
LEMMA PreviousOther ==
  ASSUME NEW A \in SUBSET Seat, Cardinality(A) > 1, NEW s \in A
  PROVE  Previous(A, s) # s
<1> SUFFICES ASSUME Previous(A, s) = s PROVE FALSE
  OBVIOUS
<1>1. CASE Before(A, s) # {}
  <2>1. Last(Before(A, s)) \in Before(A, s)
    BY <1>1, LastIsLast DEF Before
  <2>2. Position[s] < Position[s]
    BY <1>1, <2>1 DEF Previous, Before
  <2> QED BY <2>2
<1>2. CASE Before(A, s) = {}
  <2>1. \A u \in A : Position[u] <= Position[s]
    BY <1>2, LastIsLast DEF Previous
  <2>2. \A u \in A : ~(Position[u] < Position[s])
    BY <1>2 DEF Before
  <2>3. ASSUME NEW u \in A PROVE u = s
    <3>1. Position[u] \in Nat /\ Position[s] \in Nat
      OBVIOUS
    <3>2. Position[u] = Position[s]
      BY <2>1, <2>2, <3>1
    <3> QED BY <3>2
  <2>4. A = {s}
    BY <2>3
  <2>5. Cardinality(A) = 1
    BY <2>4, FS_Singleton
  <2> QED BY <2>5
<1> QED BY <1>1, <1>2

\* Shifting the stances along the ring deals them anew.
LEMMA ShiftDeals ==
  ASSUME NEW A \in SUBSET Seat, NEW was, NEW now, Shifted(now, was, A)
  PROVE  /\ \A x : Cardinality({s \in A : now[s] = x}) = Cardinality({s \in A : was[s] = x})
         /\ (/\ Cardinality(A) > 1
             /\ \A s, t \in A : was[s] = was[t] => s = t)
              => \A s \in A : now[s] # was[s]
<1>1. \A s \in A : now[s] = was[Previous(A, s)]
  BY DEF Shifted
<1>2. ASSUME NEW x
      PROVE  Cardinality({s \in A : now[s] = x}) = Cardinality({s \in A : was[s] = x})
  <2> DEFINE S == {s \in A : now[s] = x}
             D == {s \in A : was[s] = x}
             f == [s \in S |-> Previous(A, s)]
  <2>1. f \in Injection(S, D)
    BY <1>1, PreviousIn, PreviousInjective DEF Injection, IsInjective
  <2>2. f \in Surjection(S, D)
    <3>1. ASSUME NEW t \in D PROVE \E s \in S : f[s] = t
      BY <1>1, PreviousOnto
    <3> QED BY <2>1, <3>1 DEF Surjection, Injection
  <2>3. IsFiniteSet(S)
    BY PositionAssumption, FS_Subset
  <2> HIDE DEF S, D, f
  <2>4. ExistsBijection(S, D)
    BY <2>1, <2>2 DEF ExistsBijection, Bijection
  <2>5. Cardinality(D) = Cardinality(S)
    BY <2>3, <2>4, FS_Bijection
  <2> QED BY <2>5 DEF S, D
<1>3. ASSUME Cardinality(A) > 1, \A s, t \in A : was[s] = was[t] => s = t, NEW s \in A
      PROVE  now[s] # was[s]
  <2>1. Previous(A, s) \in A /\ Previous(A, s) # s
    BY <1>3, PreviousIn, PreviousOther
  <2> QED BY <1>1, <1>3, <2>1
<1> QED BY <1>2, <1>3

\* In the round of the rotation the seats that are left hold the stances they
\* held before, none lost and none doubled, and nobody keeps its own where
\* they all differ (roles.py:286-300).
THEOREM RotationAlwaysDeals == Spec => []RotationDeals
<1>1. IInv => RotationDeals
  <2> SUFFICES ASSUME IInv, Rotates(r) PROVE RotationDeals
    BY DEF RotationDeals
  <2>1. active \in SUBSET Seat /\ Shifted(current, prior, active)
    BY DEF IInv, Core, TypeOK, RotationShape
  <2> QED BY <2>1, ShiftDeals DEF RotationDeals
<1> QED BY <1>1, Invariance, PTL
-----------------------------------------------------------------------------
(* Review: what the target of a review resolves to *)

\* The commands before there is a diff.
Early == {"isrepo", "view", "symref", "ref", "mergebase", "diff"}

\* What the task knows at the command it is at.
Course ==
  /\ command \in Early => diff = Unknown /\ new = Unknown /\ end = Unknown /\ read = Unknown
  /\ command \notin Early => diff # Unknown
  /\ command = "status" => kind \in Local /\ new = Unknown
  /\ command \in {"isrepo", "symref"} => ref = 0

\* A command that exited well has said what it saw, what was learnt later was
\* seen later, the head of the change only moves on, and until the user edits
\* there are the new files that there were.
InOrder ==
  /\ world.tip = moves.pushes + 1
  /\ child[T] = "ok" => said # Unknown
  /\ said # Unknown => said.tip <= world.tip
  /\ said # Unknown /\ diff # Unknown => diff.tip <= said.tip
  /\ diff # Unknown => diff.tip <= world.tip
  /\ end # Unknown => diff # Unknown /\ diff.tip <= end /\ end <= world.tip
  /\ moves.edits = 0 => /\ said # Unknown => said.new = world.new
                        /\ new # Unknown => new = world.new

\* What the task owes to the cancellations it was asked for.
Owes ==
  /\ caught[T] => step[T] = "reaping"
  /\ asked[T] => flag[T] \/ caught[T] \/ step[T] = "cancelled"
  /\ step[T] \in Over => ~flag[T]

\* The result is what the answers make of it, an empty one included.
Earned ==
  /\ step[T] # "returned" => result = None
  /\ result.shape = "text" => diff # Unknown /\ result = Ending("text")
  /\ NoFalseEmpty

ReviewInv ==
  /\ ReviewTypeOK
  /\ InOrder
  /\ Owes
  /\ Earned
  /\ step[T] \notin Over => Course

USE ReviewAssumption DEF T

\* No answer is Unknown.
LEMMA UnknownApart ==
  /\ \A w \in World : w # Unknown
  /\ \A b \in BOOLEAN : b # Unknown
  /\ \A i \in Nat : i # Unknown
  /\ Revision \subseteq Nat
  BY DEF Revision

LEMMA InitReview == ReviewInit => ReviewInv
<1> SUFFICES ASSUME ReviewInit PROVE ReviewInv
  OBVIOUS
<1> USE UnknownApart DEF ReviewInit, RunInit
<1>1. world \in World /\ world.tip = 1
  BY DEF World, Revision
<1>2. RunTypeOK
  BY DEF RunTypeOK, Step, Child
<1>3. result \in Result
  BY DEF Result, None
<1>4. moves \in [edits : 0 .. MaxEdits, pushes : 0 .. MaxPushes,
                 checkouts : 0 .. MaxCheckouts, cancels : 0 .. MaxCancels]
  OBVIOUS
<1>5. ReviewTypeOK
  BY <1>1, <1>2, <1>3, <1>4 DEF ReviewTypeOK, Command
<1>6. Course /\ InOrder /\ Owes
  BY <1>1 DEF Course, InOrder, Owes, Over, Early
<1>7. Earned
  BY DEF Earned, NoFalseEmpty, None, NoChanges
<1> QED BY <1>5, <1>6, <1>7 DEF ReviewInv

-----------------------------------------------------------------------------
(* From one command to the next *)

\* Where the script goes on to: what is asked before there is a diff, what
\* only after it, and when there is nothing.
LEMMA FollowsFacts ==
  ASSUME ReviewTypeOK, Course, NEW ok \in BOOLEAN, NEW c \in Follows(command, ok)
  PROVE  /\ c \in Command \cup {"error", "whole", "nothing", "text"}
         /\ c # "isrepo"
         /\ c \in Early => command \in Early \ {"diff"}
         /\ c \in (Command \ Early) \cup {"text", "nothing"} =>
              command \notin Early \/ (command = "diff" /\ ok)
         /\ c = "status" => command = "diff" /\ kind \in Local
         /\ c = "symref" => command = "isrepo"
         /\ c = "ref" => ref < 4
         /\ c = "nothing" =>
              \/ command = "diff" /\ kind \notin Local /\ said.diff = "empty"
              \/ command = "status" /\ diff.diff = "empty" /\ ~(ok /\ said.new)
<1> USE DEF Follows, Early, Command, Course, Local
<1>1. CASE command \in {"isrepo", "view", "symref", "mergebase"}
  BY <1>1 DEF Opens
<1>2. CASE command = "ref"
  BY <1>2
<1>3. CASE command = "diff"
  BY <1>3 DEF AfterDiff
<1>4. CASE command = "status"
  BY <1>4 DEF AfterStatus, Truncates
<1>5. CASE command \in {"headoid", "head", "where", "meta", "names", "stat"}
  BY <1>5 DEF Truncates
<1> QED BY <1>1, <1>2, <1>3, <1>4, <1>5 DEF ReviewTypeOK

LEMMA EndingType ==
  \A e \in {"error", "whole", "nothing", "text"} :
    Ending(e) \in Result /\ Ending(e).shape = e /\ (e = "nothing" <=> Ending(e) = NoChanges)
<1> TAKE e \in {"error", "whole", "nothing", "text"}
<1>1. Told \in Notice /\ Points \in {"cwd", "revision", "source"}
  BY DEF Told, Notice, Points
<1>2. CASE e = "text"
  <2> DEFINE t == [shape |-> "text", notice |-> Told, marker |-> new = TRUE,
                   full |-> diff.diff # "big", at |-> Points]
  <2>1. Ending(e) = t
    BY <1>2 DEF Ending
  <2>2. t \in [shape : {"text"}, notice : Notice, marker : BOOLEAN, full : BOOLEAN,
               at : {"cwd", "revision", "source"}]
    BY <1>1
  <2>3. t.shape = "text" /\ NoChanges.shape = "nothing"
    BY DEF NoChanges
  <2> QED BY <1>2, <2>1, <2>2, <2>3 DEF Result
<1>3. CASE e # "text"
  BY <1>3 DEF Ending, Result, NoChanges
<1> QED BY <1>2, <1>3

\* A turn of the script keeps what is known in order, and a result it brings
\* is earned.
LEMMA TurnStep ==
  ASSUME ReviewInv, step[T] \notin Over, NEW ok \in BOOLEAN, ok => child[T] = "ok",
         NEW c \in Follows(command, ok), Turns(c, ok), UNCHANGED <<kind, world, moves>>,
         RunTypeOK', Owes', step'[T] = To(c), child'[T] = "none"
  PROVE  ReviewInv'
<1> DEFINE E == {"error", "whole", "nothing", "text"}
<1>0. ReviewTypeOK /\ InOrder /\ Earned /\ Course
  BY DEF ReviewInv
<1>1. result = None
  BY <1>0 DEF Earned, Over
<1>2. ok => said \in World
  BY <1>0 DEF InOrder, ReviewTypeOK
<1>3. /\ c \in Command \cup E
      /\ c \notin Command => c \in E
  BY <1>0, FollowsFacts
<1>4. /\ diff' \in World \cup {Unknown} /\ new' \in BOOLEAN \cup {Unknown}
      /\ end' \in Revision \cup {Unknown} /\ read' \in Revision \cup {Unknown}
      /\ said' = Unknown
  BY <1>0, <1>2 DEF Turns, Learns, ReviewTypeOK, World
<1>5. InOrder'
  <2>1. CASE ok /\ command = "diff"
    BY <1>0, <1>2, <1>4, <2>1 DEF InOrder, Turns, Learns, Course, Early
  <2>2. CASE ok /\ command = "headoid"
    BY <1>0, <1>2, <1>4, <2>2, UnknownApart DEF InOrder, Turns, Learns, Course, Early
  <2>3. CASE ~ok \/ command \notin {"diff", "headoid"}
    BY <1>0, <1>4, <2>3 DEF InOrder, Turns, Learns
  <2> QED BY <2>1, <2>2, <2>3
<1>6. c \in (Command \ Early) \cup {"text", "nothing"} => diff' # Unknown
  BY <1>0, <1>2, FollowsFacts, UnknownApart DEF Turns, Learns, Course
<1>7. CASE c \in Command
  <2>1. ReviewTypeOK'
    <3>1. ref' \in 0 .. 4
      BY <1>0, <1>7, FollowsFacts DEF Turns, ReviewTypeOK
    <3> QED BY <1>0, <1>4, <1>7, <3>1 DEF Turns, ReviewTypeOK
  <2>2. Course'
    <3>1. c \in Early => diff' = Unknown /\ new' = Unknown /\ end' = Unknown /\ read' = Unknown
      BY <1>0, <1>7, FollowsFacts DEF Turns, Learns, Course, Early
    <3>2. c = "status" => kind' \in Local /\ new' = Unknown
      BY <1>0, <1>7, FollowsFacts DEF Turns, Learns, Course, Early
    <3>3. c \in {"isrepo", "symref"} => ref' = 0
      BY <1>0, <1>7, FollowsFacts DEF Turns, Course
    <3> QED BY <1>6, <1>7, <3>1, <3>2, <3>3 DEF Turns, Course
  <2>3. Earned'
    <3>1. None.shape = "none" /\ NoChanges.shape = "nothing"
      BY DEF None, NoChanges
    <3>2. result' = None
      BY <1>1, <1>7 DEF Turns
    <3> QED BY <3>1, <3>2 DEF Earned, NoFalseEmpty
  <2> QED BY <1>5, <2>1, <2>2, <2>3 DEF ReviewInv
<1>8. CASE c \notin Command
  <2>1. c \in E /\ step'[T] = "returned" /\ result' = Ending(c)'
    BY <1>3, <1>8 DEF Turns, To
  <2>2. Ending(c)' \in Result /\ Ending(c)'.shape = c /\ (c = "nothing" <=> Ending(c)' = NoChanges)
    <3>1. (\A e \in {"error", "whole", "nothing", "text"} :
             Ending(e) \in Result /\ Ending(e).shape = e /\ (e = "nothing" <=> Ending(e) = NoChanges))'
      BY EndingType, PTL
    <3> QED BY <2>1, <3>1
  <2>3. ReviewTypeOK'
    BY <1>0, <1>4, <1>8, <2>1, <2>2 DEF Turns, ReviewTypeOK
  <2>4. c = "nothing" => diff'.diff = "empty" /\ (kind' \in Local => new' # TRUE)
    BY <1>0, <1>2, FollowsFacts, UnknownApart DEF Turns, Learns, Course, Early
  <2>5. Earned'
    BY <1>6, <2>1, <2>2, <2>4 DEF Earned, NoFalseEmpty
  <2> QED BY <1>5, <2>1, <2>3, <2>5 DEF ReviewInv, Over
<1> QED BY <1>7, <1>8

-----------------------------------------------------------------------------
(* Steps of the task *)

LEMMA StartReview ==
  ASSUME ReviewInv, Starts
  PROVE  ReviewInv'
<1> USE DEF ReviewInv, ReviewTypeOK, RunTypeOK, Step, Child, Starts, Begin, Free, GoesOn, script
<1>1. ReviewTypeOK'
  OBVIOUS
<1>2. InOrder' /\ Owes'
  BY DEF InOrder, Owes, Over
<1>3. Earned'
  <2>1. result' = None
    BY DEF Earned
  <2>2. None.shape = "none" /\ NoChanges.shape = "nothing"
    BY DEF None, NoChanges
  <2> QED BY <2>1, <2>2 DEF Earned, NoFalseEmpty
<1>4. Course'
  BY DEF Course, Over
<1> QED BY <1>1, <1>2, <1>3, <1>4

\* A step inside a command tells the script nothing.
LEMMA QuietStep ==
  ASSUME ReviewInv, RunTypeOK', Owes', UNCHANGED <<kind, world, moves, script>>,
         child'[T] = "ok" => child[T] = "ok",
         step[T] \in Over => step'[T] = step[T], step'[T] # "returned" \/ step[T] = "returned"
  PROVE  ReviewInv'
<1> USE DEF ReviewInv, script
<1>1. ReviewTypeOK'
  BY DEF ReviewTypeOK
<1>2. InOrder'
  BY DEF InOrder
<1>3. Earned'
  BY DEF Earned, NoFalseEmpty, Ending, Told, Points, Aligned, Over
<1>4. step'[T] \notin Over => Course'
  BY DEF Course, Over
<1> QED BY <1>1, <1>2, <1>3, <1>4

LEMMA InnerReview ==
  ASSUME ReviewInv, Inner
  PROVE  ReviewInv'
<1> USE DEF ReviewInv, ReviewTypeOK, RunTypeOK, Owes, Step, Child, Over, Free, Meets, KillsAndReaps, Gone
<1>1. RunTypeOK'
  <2>1. CASE BeginCut(T) \/ Spawned(T)
    BY <2>1 DEF BeginCut, Spawned
  <2>2. CASE SpawnCut(T)
    <3>1. PICK c \in {"none", "killed"} : child' = [child EXCEPT ![T] = c]
      BY <2>2 DEF SpawnCut
    <3> QED BY <2>2, <3>1 DEF SpawnCut
  <2>3. CASE TimesOut(T) \/ Cut(T)
    BY <2>3 DEF TimesOut, Cut
  <2>4. CASE Reaped(T) \/ ReapGivesUp(T) \/ ReapCut(T)
    BY <2>4 DEF Reaped, ReapGivesUp, ReapCut
  <2> QED BY <2>1, <2>2, <2>3, <2>4 DEF Inner
<1>2. Owes'
  BY DEF Inner, BeginCut, Spawned, SpawnCut, TimesOut, Cut, Reaped, ReapGivesUp, ReapCut
<1>3. /\ child'[T] = "ok" => child[T] = "ok"
      /\ step[T] \in Over => step'[T] = step[T]
      /\ step'[T] # "returned" \/ step[T] = "returned"
  BY DEF Inner, BeginCut, Spawned, SpawnCut, TimesOut, Cut, Reaped, ReapGivesUp, ReapCut
<1>4. ReviewInv
  OBVIOUS
<1>5. UNCHANGED <<kind, world, moves, script>>
  BY DEF Inner
<1> HIDE DEF ReviewInv, ReviewTypeOK, RunTypeOK, Owes
<1> QED BY <1>1, <1>2, <1>3, <1>4, <1>5, QuietStep

LEMMA GoReview ==
  ASSUME ReviewInv, Goes
  PROVE  ReviewInv'
<1> USE DEF RunTypeOK, Step, Child, Over, Free, GoesOn, To
<1>0. ReviewInv /\ RunTypeOK /\ Owes /\ UNCHANGED <<kind, world, moves>>
  BY DEF ReviewInv, ReviewTypeOK, Goes
<1>1. ASSUME NEW c \in Follows(command, child[T] = "ok"), Answered(T, To(c)), Turns(c, child[T] = "ok")
      PROVE  ReviewInv'
  <2>1. step[T] \notin Over /\ RunTypeOK' /\ step'[T] = To(c) /\ child'[T] = "none"
    BY <1>0, <1>1 DEF Answered
  <2>2. Owes'
    BY <1>0, <1>1 DEF Answered, Owes
  <2>3. (child[T] = "ok") \in BOOLEAN
    OBVIOUS
  <2> HIDE DEF To, Over, RunTypeOK
  <2> QED BY <1>0, <1>1, <2>1, <2>2, <2>3, TurnStep
<1>2. ASSUME NEW c \in Follows(command, FALSE), SpawnFails(T, To(c)) \/ ReapOver(T, To(c)),
             IF step'[T] = "cancelled" THEN UNCHANGED script ELSE Turns(c, FALSE)
      PROVE  ReviewInv'
  <2>1. step[T] \notin Over /\ RunTypeOK' /\ child'[T] = "none"
    BY <1>0, <1>2 DEF SpawnFails, ReapOver
  <2>2. Owes'
    BY <1>0, <1>2 DEF SpawnFails, ReapOver, Owes
  <2>3. CASE step'[T] = "cancelled"
    <3> HIDE DEF To, Over, RunTypeOK
    <3> QED BY <1>0, <1>2, <2>1, <2>2, <2>3, QuietStep
  <2>4. CASE step'[T] # "cancelled"
    <3>1. step'[T] = To(c)
      BY <1>0, <1>2, <2>4 DEF SpawnFails, ReapOver
    <3> HIDE DEF To, Over, RunTypeOK
    <3> QED BY <1>0, <1>2, <2>1, <2>2, <2>4, <3>1, TurnStep
  <2> QED BY <2>3, <2>4
<1> QED BY <1>1, <1>2 DEF Goes

LEMMA ReplyReview ==
  ASSUME ReviewInv, Replies
  PROVE  ReviewInv'
<1> USE DEF ReviewInv, Replies
<1>1. PICK c \in {"ok", "bad"} : Exits(T, c) /\ said' = IF c = "ok" THEN world ELSE Unknown
  OBVIOUS
<1>2. RunTypeOK' /\ Owes'
  BY <1>1 DEF ReviewTypeOK, RunTypeOK, Step, Child, Owes, Exits
<1>3. ReviewTypeOK'
  BY <1>1, <1>2 DEF ReviewTypeOK
<1>4. InOrder'
  <2>1. world \in World /\ world.tip <= world.tip
    <3>1. world \in World /\ world.tip \in Nat
      BY UnknownApart DEF ReviewTypeOK, World
    <3> QED BY <3>1
  <2>2. CASE c = "ok"
    BY <1>1, <2>1, <2>2, UnknownApart DEF InOrder
  <2>3. CASE c = "bad"
    BY <1>1, <2>3 DEF InOrder, Exits, ReviewTypeOK, RunTypeOK
  <2> QED BY <2>2, <2>3
<1>5. Earned'
  BY <1>1 DEF Earned, NoFalseEmpty, Ending, Told, Points, Aligned, Exits
<1>6. step'[T] \notin Over => Course'
  BY <1>1 DEF Course, Exits
<1> QED BY <1>3, <1>4, <1>5, <1>6, <1>2

LEMMA DyingReview ==
  ASSUME ReviewInv, Dying
  PROVE  ReviewInv'
<1>1. RunTypeOK' /\ Owes'
  BY DEF ReviewInv, ReviewTypeOK, RunTypeOK, Child, Owes, Dying, Dies
<1>2. child'[T] # "ok" /\ step' = step
  BY DEF ReviewInv, ReviewTypeOK, RunTypeOK, Dying, Dies
<1> QED BY <1>1, <1>2, QuietStep DEF Dying

-----------------------------------------------------------------------------
(* Steps of the user and of the world *)

LEMMA CancelReviewStep ==
  ASSUME ReviewInv, CancelReview
  PROVE  ReviewInv'
<1> USE DEF ReviewInv, CancelReview, script
<1>1. RunTypeOK' /\ Owes'
  BY DEF ReviewTypeOK, RunTypeOK, AskToCancel, Owes
<1>2. ReviewTypeOK'
  <2>1. moves' \in [edits : 0 .. MaxEdits, pushes : 0 .. MaxPushes,
                    checkouts : 0 .. MaxCheckouts, cancels : 0 .. MaxCancels]
    BY DEF ReviewTypeOK
  <2> QED BY <1>1, <2>1 DEF ReviewTypeOK
<1>3. InOrder'
  BY DEF InOrder, ReviewTypeOK
<1>4. Earned'
  BY DEF Earned, NoFalseEmpty, Ending, Told, Points, Aligned
<1>5. Course'
  BY DEF Course
<1> QED BY <1>1, <1>2, <1>3, <1>4, <1>5

\* The world under the task moves: the head of the change never back.
LEMMA WorldMoves ==
  ASSUME ReviewInv, step[T] \notin Over, UNCHANGED <<runVars, kind, script>>,
         world' \in World, world.tip <= world'.tip, world'.tip = moves'.pushes + 1,
         moves'.edits = 0 => moves.edits = 0 /\ world'.new = world.new,
         moves' \in [edits : 0 .. MaxEdits, pushes : 0 .. MaxPushes,
                     checkouts : 0 .. MaxCheckouts, cancels : 0 .. MaxCancels]
  PROVE  ReviewInv'
<1> USE DEF ReviewInv, script, runVars
<1>1. ReviewTypeOK'
  BY DEF ReviewTypeOK, RunTypeOK
<1>2. Owes' /\ Course'
  BY DEF Owes, Course
<1>3. Earned'
  BY DEF Earned, NoFalseEmpty, Ending, Told, Points, Aligned
<1>4. InOrder'
  <2>1. world.tip \in Nat /\ world'.tip \in Nat
    BY UnknownApart DEF ReviewTypeOK, World
  <2>2. /\ said # Unknown => said.tip \in Nat
        /\ diff # Unknown => diff.tip \in Nat
        /\ end # Unknown => end \in Nat
    BY UnknownApart DEF ReviewTypeOK, World
  <2> QED BY <2>1, <2>2 DEF InOrder
<1> QED BY <1>1, <1>2, <1>3, <1>4

LEMMA EditStep ==
  ASSUME ReviewInv, Edit
  PROVE  ReviewInv'
<1>1. PICK d \in Size, n \in BOOLEAN : world' = [world EXCEPT !.diff = d, !.new = n]
  BY DEF Edit
<1>2. world \in World /\ world.tip = moves.pushes + 1
  BY DEF ReviewInv, ReviewTypeOK, InOrder
<1>3. world' \in World /\ world'.tip = world.tip /\ world.tip \in Nat
  BY <1>1, <1>2, UnknownApart DEF World
<1>4. /\ moves' \in [edits : 0 .. MaxEdits, pushes : 0 .. MaxPushes,
                     checkouts : 0 .. MaxCheckouts, cancels : 0 .. MaxCancels]
      /\ moves'.pushes = moves.pushes /\ moves'.edits # 0
  BY DEF ReviewInv, ReviewTypeOK, Edit
<1> QED BY <1>2, <1>3, <1>4, WorldMoves DEF Edit

LEMMA PushStep ==
  ASSUME ReviewInv, Push
  PROVE  ReviewInv'
<1>1. PICK d \in Size, h \in {world.head, world.tip + 1} :
        world' = [world EXCEPT !.diff = d, !.tip = @ + 1, !.head = h]
  BY DEF Push
<1>2. world \in World /\ world.tip = moves.pushes + 1
  BY DEF ReviewInv, ReviewTypeOK, InOrder
<1>3. /\ moves' \in [edits : 0 .. MaxEdits, pushes : 0 .. MaxPushes,
                     checkouts : 0 .. MaxCheckouts, cancels : 0 .. MaxCancels]
      /\ moves'.pushes = moves.pushes + 1 /\ moves.pushes \in Nat /\ moves.pushes < MaxPushes
      /\ moves'.edits = moves.edits
  BY DEF ReviewInv, ReviewTypeOK, Push
<1>4. world.tip + 1 \in Revision /\ h \in Revision
  BY <1>2, <1>3 DEF World, Revision
<1>5. world' \in World /\ world'.tip = world.tip + 1 /\ world.tip \in Nat /\ world'.new = world.new
  BY <1>1, <1>2, <1>4, UnknownApart DEF World
<1> QED BY <1>2, <1>3, <1>5, WorldMoves DEF Push

LEMMA CheckoutStep ==
  ASSUME ReviewInv, Checkout
  PROVE  ReviewInv'
<1>1. PICK h \in 0 .. world.tip : world' = [world EXCEPT !.head = h]
  BY DEF Checkout
<1>2. world \in World /\ world.tip = moves.pushes + 1
  BY DEF ReviewInv, ReviewTypeOK, InOrder
<1>3. h \in Revision
  BY <1>2 DEF World, Revision
<1>4. world' \in World /\ world'.tip = world.tip /\ world.tip \in Nat /\ world'.new = world.new
  BY <1>1, <1>2, <1>3, UnknownApart DEF World
<1>5. /\ moves' \in [edits : 0 .. MaxEdits, pushes : 0 .. MaxPushes,
                     checkouts : 0 .. MaxCheckouts, cancels : 0 .. MaxCancels]
      /\ moves'.pushes = moves.pushes /\ moves'.edits = moves.edits
  BY DEF ReviewInv, ReviewTypeOK, Checkout
<1> QED BY <1>2, <1>4, <1>5, WorldMoves DEF Checkout

LEMMA RestStep ==
  ASSUME ReviewInv, UNCHANGED reviewVars
  PROVE  ReviewInv'
<1>1. RunTypeOK' /\ Owes'
  BY DEF ReviewInv, ReviewTypeOK, RunTypeOK, Owes, reviewVars, runVars
<1> QED BY <1>1, QuietStep DEF reviewVars, runVars, script

LEMMA ReviewStep == ReviewInv /\ [ReviewNext]_reviewVars => ReviewInv'
  BY StartReview, GoReview, InnerReview, ReplyReview, DyingReview, CancelReviewStep,
     EditStep, PushStep, CheckoutStep, RestStep DEF ReviewNext, Rests

\* A review's answers come in an order that its result can rely on.
THEOREM ReviewInvariance == ReviewSpec => []ReviewInv
  BY InitReview, ReviewStep, PTL DEF ReviewSpec

-----------------------------------------------------------------------------

\* The state of a review and of the world it asks keeps its type: no order of
\* answers tries a fifth candidate for the default branch.
THEOREM ReviewTypeCorrect == ReviewSpec => []ReviewTypeOK
<1>1. ReviewInv => ReviewTypeOK
  BY DEF ReviewInv
<1> QED BY <1>1, ReviewInvariance, PTL

\* "No changes" is said only for a diff that was asked for, answered and empty,
\* and for a local target only after a listing that named no new file or was
\* not answered (orchestration.py:628-630, 743-764).
THEOREM EmptyIsEarned == ReviewSpec => []NoFalseEmpty
<1>1. ReviewInv => NoFalseEmpty
  BY DEF ReviewInv, Earned
<1> QED BY <1>1, ReviewInvariance, PTL

\* A seat that is told nothing about the tree finds the diffed change in it,
\* unless the change moved on after its diff (orchestration.py:600-601,
\* 645-649).
THEOREM SilenceJustified == ReviewSpec => []SilenceHolds
<1>1. ReviewInv => SilenceHolds
  <2>1. SUFFICES ASSUME ReviewInv, diff # Unknown, world.tip = diff.tip, result.shape = "text"
                 PROVE  /\ kind \notin Local /\ result.notice = "none" => read = diff.tip
                        /\ ~result.full /\ result.at = "cwd" => result.notice # "diverges"
    BY DEF SilenceHolds, SilenceProven
  <2>2. result = Ending("text")
    BY <2>1 DEF ReviewInv, Earned
  <2>3. result.notice = Told /\ result.at = Points
    BY <2>2 DEF Ending
  <2>4. ASSUME kind \notin Local, Told = "none" PROVE read = diff.tip
    <3>1. read = end /\ end # Unknown
      BY <2>4 DEF Told, Aligned
    <3>2. diff.tip <= end /\ end <= world.tip /\ end \in Nat /\ diff.tip \in Nat
      BY <2>1, <3>1, UnknownApart DEF ReviewInv, InOrder, ReviewTypeOK, World
    <3> QED BY <2>1, <3>1, <3>2
  <2>5. Points = "cwd" => Told # "diverges"
    BY DEF Points, Told
  <2> QED BY <2>3, <2>4, <2>5
<1> QED BY <1>1, ReviewInvariance, PTL

\* A review that was asked to cancel, at whatever point, ends with the
\* cancellation and brings no result (context.py:127-131, 150-153).
THEOREM CancelledIsSilent == ReviewSpec => [](asked[T] => result = None)
<1>1. ReviewInv => (asked[T] => result = None)
  BY DEF ReviewInv, Earned, Owes, Over
<1> QED BY <1>1, ReviewInvariance, PTL

\* New files that the listing named are surfaced, also where nothing else
\* changed (orchestration.py:706).
THEOREM ListedAlwaysSurfaced == ReviewSpec => []ListedSurfaced
<1>1. ReviewInv => ListedSurfaced
  <2>1. SUFFICES ASSUME ReviewInv, new # Unknown, kind \in Local, world.new, moves.edits = 0,
                        result.shape \in {"nothing", "text"}
                 PROVE  result.shape = "text" /\ result.marker
    BY DEF ListedSurfaced, UntrackedSurfaced
  <2>2. new = TRUE
    <3>1. world \in World /\ new = world.new
      BY <2>1 DEF ReviewInv, InOrder, ReviewTypeOK
    <3>2. world.new \in BOOLEAN
      BY <3>1 DEF World
    <3> QED BY <2>1, <3>1, <3>2
  <2>3. result.shape # "nothing"
    <3>1. result \in Result /\ result # NoChanges
      BY <2>1, <2>2 DEF ReviewInv, ReviewTypeOK, Earned, NoFalseEmpty
    <3>2. \A q \in Result : q.shape = "nothing" => q = NoChanges
      BY DEF Result, NoChanges
    <3> QED BY <3>1, <3>2
  <2>4. result.marker = (new = TRUE)
    BY <2>1, <2>3 DEF ReviewInv, Earned, Ending
  <2> QED BY <2>1, <2>2, <2>3, <2>4
<1> QED BY <1>1, ReviewInvariance, PTL
=============================================================================
