------------------------------- MODULE Council -------------------------------
(***************************************************************************)
(* The rounds of a council (src/quorum/council.py, rotate_roles of         *)
(* src/quorum/roles.py).  In a round every active seat runs on its own and *)
(* ends with an answer, a failure or the hard timeout; when all have ended *)
(* the council collects the usable answers, drops the other seats, rotates *)
(* the stances in the third round and prompts the next round with what was *)
(* said in this one.                                                       *)
(*                                                                         *)
(* An answer is its author, round, stance and form; a prompt is the        *)
(* answers it shows.  The words of both are left out.                      *)
(***************************************************************************)
EXTENDS Integers, FiniteSets

CONSTANTS
  Seat,
  Position,     \* where each seat stands in the list of agents
  Stance,
  Rounds,       \* 1, 2, or 4 when the council is extended
  Rotate,       \* stances rotate in the third round
  Terse         \* a review that revises, without --verbose

ASSUME PositionAssumption ==
  /\ IsFiniteSet(Seat)
  /\ Position \in [Seat -> 0 .. Cardinality(Seat) - 1]
  /\ \A s, t \in Seat : Position[s] = Position[t] => s = t
ASSUME RoundsAssumption == Rounds \in Nat \ {0} /\ Rotate \in BOOLEAN /\ Terse \in BOOLEAN

VARIABLES
  r,          \* the round under way, counted from 0 as in the code
  phase,      \* "asking", or how the council ended
  active,     \* the seats of this round
  current,    \* current_roles
  prior,      \* prior_roles
  prompt,     \* what each seat was shown in this round
  seat,       \* how far each seat is in this round
  board       \* all_rounds: how each seat ended each round

vars == <<r, phase, active, current, prior, prompt, seat, board>>

Failures  == {"failed", "timeout"}
Endings   == {"ok"} \cup Failures
RoundNo   == 0 .. Rounds - 1
Answer    == [author : Seat, round : RoundNo, stance : Stance, terse : BOOLEAN]
Tagged    == [answer : Answer, tag : Stance]
Prompt    == [own : SUBSET Answer, tagged : SUBSET Tagged]

TypeOK ==
  /\ r \in RoundNo
  /\ phase \in {"asking", "over", "cancelled"}
  /\ active \subseteq Seat
  /\ current \in [Seat -> Stance]
  /\ prior \in [Seat -> Stance]
  /\ prompt \in [Seat -> Prompt]
  /\ seat \in [Seat -> {"idle", "running"} \cup Endings]
  /\ board \in [RoundNo -> [Seat -> {"absent"} \cup Endings]]

Nothing == [own |-> {}, tagged |-> {}]

\* Round 1: every seat is asked, in its own stance, and shown nothing.
Init ==
  /\ r = 0
  /\ phase = "asking"
  /\ active = Seat
  /\ current \in [Seat -> Stance]
  /\ prior = current
  /\ prompt = [s \in Seat |-> Nothing]
  /\ seat = [s \in Seat |-> "running"]
  /\ board = [k \in RoundNo |-> [s \in Seat |-> "absent"]]

-----------------------------------------------------------------------------

\* A seat ends its turn: agent.run returns an answer ...
SeatAnswers(s) ==
  /\ phase = "asking" /\ seat[s] = "running"
  /\ seat' = [seat EXCEPT ![s] = "ok"]
  /\ UNCHANGED <<r, phase, active, current, prior, prompt, board>>

\* ... or a nonzero code, nothing at all, or raises, which is contained ...
SeatFails(s) ==
  /\ phase = "asking" /\ seat[s] = "running"
  /\ seat' = [seat EXCEPT ![s] = "failed"]
  /\ UNCHANGED <<r, phase, active, current, prior, prompt, board>>

\* ... or runs into the hard ceiling.  (Slip: there is none.)
SeatHangs(s) == FALSE
SeatTimesOut(s) ==
  /\ phase = "asking" /\ seat[s] = "running"
  /\ seat' = [seat EXCEPT ![s] = "timeout"]
  /\ UNCHANGED <<r, phase, active, current, prior, prompt, board>>

\* gather has every result of the round.
RoundEnded == phase = "asking" /\ \A s \in active : seat[s] \in Endings

\* The rows the council returns, this round's included.
BoardNow == [board EXCEPT ![r] = [s \in Seat |-> IF s \in active THEN seat[s] ELSE "absent"]]

\* prior_outputs: the seats whose answer is usable.
Survivors == {s \in active : seat[s] = "ok"}

\* The instruction that asks for compressed findings.
TerseIn(k) == Terse /\ k > 0 /\ k = Rounds - 1

AnswerOf(s) == [author |-> s, round |-> r, stance |-> current[s], terse |-> TerseIn(r)]

\* The seat before s in the ring of the seats A.  (Slip: the first has no
\* seat before it.)
Before(A, s) == {t \in A : Position[t] < Position[s]}
Last(A) == CHOOSE t \in A : \A u \in A : Position[u] <= Position[t]
PreviousNoWrap(A, s) == IF Before(A, s) = {} THEN s ELSE Last(Before(A, s))
Previous(A, s) == IF Before(A, s) = {} THEN Last(A) ELSE Last(Before(A, s))

\* rotate_roles: every seat of A takes the stance of the one before it.
Rotated(A) == [s \in Seat |-> IF s \in A THEN current[Previous(A, s)] ELSE current[s]]

Rotates(k) == Rotate /\ k = 2

\* build_round_prompt: a seat's own answer and its peers', with the stances
\* of the round to come, which are still those of the round that ended.  (Slip:
\* peers that did not answer are shown too.)
RoundPromptAll(s, roles) ==
  [own    |-> {AnswerOf(s)},
   tagged |-> {[answer |-> AnswerOf(t), tag |-> roles[t]] : t \in active \ {s}}]
RoundPrompt(s, roles) ==
  [own    |-> {AnswerOf(s)},
   tagged |-> {[answer |-> AnswerOf(t), tag |-> roles[t]] : t \in Survivors \ {s}}]

\* build_rotation_prompt: all answers alike, each with the stance that
\* produced it.  (Slip: with the stance its author has now.)
RotationPromptNow(roles, was) ==
  [own    |-> {},
   tagged |-> {[answer |-> AnswerOf(t), tag |-> roles[t]] : t \in Survivors}]
RotationPrompt(roles, was) ==
  [own    |-> {},
   tagged |-> {[answer |-> AnswerOf(t), tag |-> was[t]] : t \in Survivors}]

\* The round is collected and the next one is asked.
NextRound ==
  /\ RoundEnded
  /\ r + 1 < Rounds /\ Survivors # {}
  /\ board' = BoardNow
  /\ r' = r + 1
  /\ prior' = current
  /\ active' = Survivors
  /\ current' = IF Rotates(r + 1) THEN Rotated(Survivors) ELSE current
  /\ prompt' = [s \in Seat |->
                  IF s \notin Survivors THEN Nothing
                  ELSE IF Rotates(r + 1) THEN RotationPrompt(current', prior')
                  ELSE RoundPrompt(s, current')]
  /\ seat' = [s \in Seat |-> IF s \in Survivors THEN "running" ELSE "idle"]
  /\ UNCHANGED phase

\* The last round was collected, or nobody is left to ask.
Finish ==
  /\ RoundEnded
  /\ r + 1 = Rounds \/ Survivors = {}
  /\ board' = BoardNow
  /\ phase' = "over"
  /\ UNCHANGED <<r, active, current, prior, prompt, seat>>

\* The job that runs the council is cancelled: the seats are, too, and
\* nothing is returned.
Cancel ==
  /\ phase = "asking"
  /\ phase' = "cancelled"
  /\ seat' = [s \in Seat |-> IF seat[s] = "running" THEN "failed" ELSE seat[s]]
  /\ UNCHANGED <<r, active, current, prior, prompt, board>>

Next ==
  \/ \E s \in Seat : SeatAnswers(s) \/ SeatFails(s) \/ SeatTimesOut(s)
  \/ NextRound
  \/ Finish
  \/ Cancel

Spec == Init /\ [][Next]_vars

\* The event loop collects a round that has ended, and the timeout of a seat
\* fires.  Nothing says that a seat ever ends by itself.
Fairness ==
  /\ WF_vars(NextRound) /\ WF_vars(Finish)
  /\ \A s \in Seat : WF_vars(SeatTimesOut(s))

FairSpec == Spec /\ Fairness

-----------------------------------------------------------------------------

Shown(s) == prompt[s].own \cup {p.answer : p \in prompt[s].tagged}

\* A prior answer is tagged with the stance that produced it, also in the
\* round that rotates the stances and in the one after (council.py:121, 234).
TagsTruthful ==
  \A s \in active : \A p \in prompt[s].tagged : p.tag = p.answer.stance

\* Every seat sees the same board, itself included: the answers of exactly
\* the seats still active, all of the round before, none of an earlier one and
\* none compressed, which only the last round's may be (council.py:84-96,
\* 224-288).
SameFreshBoard ==
  \A s \in active :
    IF r = 0 THEN Shown(s) = {}
    ELSE /\ {a.author : a \in Shown(s)} = active
         /\ \A a \in Shown(s) : a.round = r - 1 /\ ~a.terse

\* The council in the contract's terms.
shownOf ==
  [s \in Seat |-> {<<a.round, a.author, IF a.terse THEN "stub" ELSE "full">> : a \in Shown(s)}]
Outcome(how) == IF how = "ok" THEN "ok" ELSE "failed"
rowsOf ==
  {x \in RoundNo \X Seat \X {"ok", "failed"} :
     board[x[1]][x[2]] # "absent" /\ x[3] = Outcome(board[x[1]][x[2]])}
Contract == INSTANCE CouncilContract
              WITH state <- phase, round <- r, seats <- active, shown <- shownOf, rows <- rowsOf

\* The council keeps its contract: the rounds go in step, their seats all see
\* the same fresh answers, and the matrix misses no seat of any round, also
\* when seats fail or hang, stances rotate, and answers are compressed
\* (council.py:84-99, 210-289).
ImplementsContract == Contract!Spec

\* A seat that failed is never asked again, nor shown again (council.py:227).
DroppedStayOut ==
  \A k \in 1 .. Rounds - 1 : \A s \in Seat :
    board[k][s] # "absent" => board[k - 1][s] = "ok"

\* Rotation deals the stances of the seats that are left, none lost and none
\* doubled, and gives every seat another one where they all differ
\* (roles.py:286-300).
RotationDeals ==
  Rotates(r) =>
    /\ \A x \in Stance : Cardinality({s \in active : current[s] = x})
                           = Cardinality({s \in active : prior[s] = x})
    /\ (/\ Cardinality(active) > 1
        /\ \A s, t \in active : prior[s] = prior[t] => s = t)
         => \A s \in active : current[s] # prior[s]

\* A council ends, whatever its seats do (council.py:170-186).
Ends == <>(phase # "asking")
=============================================================================
