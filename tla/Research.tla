------------------------------ MODULE Research ------------------------------
(***************************************************************************)
(* One call of research_topic (src/quorum/research.py): its sources are    *)
(* asked at the same time, each for one query lane after the other, with   *)
(* at most one retry for each; then the rows make a verdict.               *)
(*                                                                         *)
(* A step ends at an await.  Other calls in the same process share the     *)
(* queue of polite slots, calls in any process the marker of arXiv's       *)
(* refusal.  What an attempt brings is "none" (no hit), "few" (too few to  *)
(* score), "apt" (on the topic), "mixed" or "stray" (off the topic, with   *)
(* or without single hits that are on it, which is told apart for papers), *)
(* or the class of its error.  Times are what is left of them.             *)
(***************************************************************************)
EXTENDS Integers, FiniteSets

CONSTANTS
  Source,      \* the sources that are asked
  Paper,       \* _PAPER_SOURCES
  Arxiv,       \* the one with a fallback
  Github, Hf,  \* those that send one request per term
  Lanes,       \* the query lanes of a paper source
  Pause,       \* _RATE_PAUSE_S
  MaxWait,     \* _MAX_RATE_WAIT_S
  Delay        \* _TRANSIENT_RETRY_DELAY_S

ASSUME ResearchAssumption ==
  /\ Paper \subseteq Source /\ Arxiv \in Paper
  /\ Github \subseteq Source \ Paper /\ Hf \subseteq Source \ (Paper \cup Github)
  /\ Lanes \in Nat \ {0}
  /\ Pause \in Nat \ {0} /\ MaxWait \in Nat /\ Pause <= MaxWait /\ Delay \in Nat

VARIABLES
  anchored,   \* the topic has distinctive terms
  stage,      \* where each source stands
  lane,       \* the lane it is at
  tries,      \* the attempts at that one
  left,       \* the time it still sleeps
  slot,       \* _rate_next_free: the time until the next free polite slot
  refused,    \* the marker that export.arxiv.org refuses this machine
  fan,        \* the requests of a source that sends several, in this attempt
  row,        \* what each lane of each source brought
  noted       \* the sources whose partial coverage the digest notes

srcVars == <<stage, lane, tries, left, fan, row, noted>>
vars    == <<anchored, slot, refused, srcVars>>

Union   == Github \cup Hf
Hits    == {"none", "few", "apt", "mixed", "stray"}
Failure == {"rate", "transient", "config", "query"}
HitsOf(s) == IF s \in Paper THEN Hits ELSE Hits \ {"mixed"}
\* What a row says of a failure (_error_class).
Blames(e) == IF e \in {"rate", "transient"} THEN "outage" ELSE e
Asking  == {"asking", "index", "fulltext"}
Asleep  == {"queued", "sleeping", "resting"}
LanesOf(s) == IF s \in Paper THEN 1 .. Lanes ELSE 1 .. 1
\* Whether the sub-queries found something, the first error among them or
\* "fulltext" if only the full-text query failed, and whether they are those
\* of the escalation.
Fan == [found : BOOLEAN, lost : Failure \cup {"none", "outage", "fulltext"}, broad : BOOLEAN]
NoFan == [found |-> FALSE, lost |-> "none", broad |-> FALSE]
BroadFan == [found |-> FALSE, lost |-> "none", broad |-> TRUE]
\* What is left to say of it once it has ended.
Gist(f) == [found |-> f.found, lost |-> Blames(f.lost), broad |-> FALSE]

TypeOK ==
  /\ anchored \in BOOLEAN
  /\ stage \in [Source -> Asking \cup Asleep \cup {"done"}]
  /\ lane \in [Source -> 1 .. Lanes] /\ tries \in [Source -> 1 .. 2]
  /\ left \in [Source -> Nat] /\ slot \in Nat
  /\ refused \in BOOLEAN
  /\ fan \in [Source -> Fan]
  /\ row \in [Source -> [1 .. Lanes -> Hits \cup {"outage", "config", "query", "open"}]]
  /\ noted \subseteq Source

\* arXiv's own interface, unless the marker says that it refuses.
Entry(s) == IF s = Arxiv /\ refused THEN "index" ELSE "asking"

Init ==
  /\ anchored \in BOOLEAN /\ refused \in BOOLEAN
  /\ stage = [s \in Source |-> Entry(s)]
  /\ lane = [s \in Source |-> 1] /\ tries = [s \in Source |-> 1]
  /\ left = [s \in Source |-> 0] /\ slot = 0
  /\ fan = [s \in Source |-> NoFan]
  /\ row = [s \in Source |-> [l \in 1 .. Lanes |-> "open"]]
  /\ noted = {}

-----------------------------------------------------------------------------
(* _contained: one attempt, one retry *)

Goes(s, st, t) ==
  /\ stage' = [stage EXCEPT ![s] = st]
  /\ left' = [left EXCEPT ![s] = t]
Begins(s) == Goes(s, Entry(s), 0) /\ fan' = [fan EXCEPT ![s] = NoFan]

\* _claim_rate_slot.  (Slip: everybody waits the same.)
FireSame == Pause
Fire == IF slot > Pause THEN slot ELSE Pause
MayRetry(s) == tries[s] = 1
SlotFree == Fire <= MaxWait

\* The lane has its row; on to the next one.  f is the fan-out it ends with,
\* kept when it is all there is to say of a row without a hit.
Records(s, o, f) ==
  /\ row' = [row EXCEPT ![s][lane[s]] = o]
  /\ UNCHANGED <<slot, refused, anchored>>
  /\ \/ /\ lane[s] + 1 \in LanesOf(s)
        /\ lane' = [lane EXCEPT ![s] = @ + 1] /\ tries' = [tries EXCEPT ![s] = 1]
        /\ IF s = Arxiv THEN Goes(s, "resting", Pause) /\ UNCHANGED fan ELSE Begins(s)
     \/ /\ lane[s] + 1 \notin LanesOf(s)
        /\ Goes(s, "done", 0) /\ UNCHANGED lane /\ tries' = [tries EXCEPT ![s] = 1]
        /\ fan' = [fan EXCEPT ![s] = IF o = "none" THEN Gist(f) ELSE NoFan]

\* A configuration is not retried, a query without a shorter form cannot be,
\* and a refusal only if there is a slot for it.
GivesUp(s, e, f) ==
  /\ ~MayRetry(s) \/ e \in {"config", "query"} \/ (e = "rate" /\ ~SlotFree)
  /\ Records(s, Blames(e), f) /\ UNCHANGED noted

Retries(s) ==
  /\ MayRetry(s)
  /\ tries' = [tries EXCEPT ![s] = 2] /\ fan' = [fan EXCEPT ![s] = NoFan]
  /\ UNCHANGED <<refused, anchored, lane, row, noted>>
Reworks(s, e) == e = "query" /\ Retries(s) /\ Goes(s, Entry(s), 0) /\ UNCHANGED slot
Queues(s, e) ==
  /\ e = "rate" /\ SlotFree
  /\ Retries(s) /\ Goes(s, "queued", Fire)
  /\ slot' = Fire + Pause
Sleeps(s, e) ==
  /\ e = "transient"
  /\ Retries(s) /\ Goes(s, "sleeping", Delay) /\ UNCHANGED slot

Fails(s, e, f) == GivesUp(s, e, f) \/ Reworks(s, e) \/ Queues(s, e) \/ Sleeps(s, e)

\* The sleep is over, perhaps later than asked for.
Wakes(s) ==
  /\ stage[s] \in Asleep /\ left[s] = 0
  /\ Begins(s)
  /\ UNCHANGED <<anchored, slot, refused, lane, tries, row, noted>>

-----------------------------------------------------------------------------
(* The sources *)

\* A source that sends one request, or several at once and fails with any.
\* Only arXiv's 400 counts against the query, its index's too.
Answers(s) ==
  /\ stage[s] \in {"asking", "index"} /\ s \notin Union
  /\ \E o \in HitsOf(s) : Records(s, o, NoFan) /\ UNCHANGED noted
Errs(s) ==
  /\ stage[s] \in {"asking", "index"} /\ s \notin Union
  /\ \E e \in Failure : (e = "query" => s = Arxiv) /\ Fails(s, e, NoFan)

\* export.arxiv.org answers 403, 406 or 503; OpenAlex has an index of it.  The
\* marker may not be writable.
Refuses ==
  /\ stage[Arxiv] = "asking"
  /\ refused' \in {refused, TRUE} /\ Goes(Arxiv, "index", 0)
  /\ UNCHANGED <<anchored, slot, lane, tries, fan, row, noted>>

\* _search_union: its sub-queries are sent one by one, until one is refused;
\* they share nothing with other sources, so they are one step.  Without
\* distinctive terms it is a single one.  An answer that cannot be parsed ends
\* the attempt with that error, whatever was found.
Fanned(s, f) ==
  /\ stage[s] = "asking" /\ s \in Union
  /\ f.lost \notin {"query", "outage", "fulltext"} /\ f.broad = fan[s].broad
  /\ f.found /\ f.lost # "none" => anchored \/ f.broad

\* Nothing found without an error: once, a union of the topic's words.
Escalates(s, f) ==
  /\ ~anchored /\ ~f.found /\ f.lost = "none" /\ ~f.broad
  /\ fan' = [fan EXCEPT ![s] = BroadFan]
  /\ UNCHANGED <<anchored, slot, refused, stage, lane, tries, left, row, noted>>

\* The hits are ranked, which shows what they are worth; Hugging Face is asked
\* for full text first.
Ranks(s, f) ==
  /\ noted' = IF f.found /\ f.lost # "none" THEN noted \cup {s} ELSE noted
  /\ IF s \in Hf
     THEN /\ Goes(s, "fulltext", 0) /\ fan' = [fan EXCEPT ![s] = Gist(f)]
          /\ UNCHANGED <<anchored, slot, refused, lane, tries, row>>
     ELSE \E o \in IF f.found THEN HitsOf(s) \ {"none"} ELSE {"none"} : Records(s, o, f)

\* _escalate_union: nothing but errors is an error, and the first one is
\* raised.  Other words are not tried if they would be the same query.  (Slip:
\* what failed is dropped.)
SettlesSilently(s, f) == Escalates(s, f) \/ Ranks(s, f)
Settles(s, f) ==
  \/ Escalates(s, f)
  \/ f.lost # "none" /\ ~f.found /\ Fails(s, f.lost, f)
  \/ (f.lost = "none" \/ f.found) /\ Ranks(s, f)

\* The full-text search; its failure is swallowed: no error is kept and nothing
\* is noted.  What it brings is filtered together with the hits of the union,
\* and may be nothing.
WithFullText(f, ok) == IF ok \/ f.lost # "none" THEN f ELSE [f EXCEPT !.lost = "fulltext"]
FullText(s, ok) ==
  /\ stage[s] = "fulltext"
  /\ \E o \in IF ok \/ fan[s].found THEN HitsOf(s) ELSE {"none"} :
       Records(s, o, WithFullText(fan[s], ok))
  /\ UNCHANGED noted

Ends(s) ==
  \/ Answers(s) \/ Errs(s)
  \/ s = Arxiv /\ Refuses
  \/ \E f \in Fan : Fanned(s, f) /\ Settles(s, f)
  \/ \E ok \in BOOLEAN : FullText(s, ok)

-----------------------------------------------------------------------------
(* Around the call *)

\* Another call in the process claims a slot.
OtherClaims ==
  /\ SlotFree /\ slot' = Fire + Pause
  /\ UNCHANGED <<anchored, refused, srcVars>>

\* The marker expires, or another process writes it.
MarkerChanges ==
  /\ refused' = ~refused
  /\ UNCHANGED <<anchored, slot, srcVars>>

Less(n) == IF n = 0 THEN 0 ELSE n - 1
Tick ==
  /\ slot > 0 \/ \E s \in Source : left[s] > 0
  /\ slot' = Less(slot) /\ left' = [s \in Source |-> Less(left[s])]
  /\ UNCHANGED <<anchored, refused, stage, lane, tries, fan, row, noted>>

Finished == \A s \in Source : stage[s] = "done"
\* Bound: the surroundings are followed until the call has its rows.
Next ==
  /\ ~Finished
  /\ \/ \E s \in Source : Ends(s) \/ Wakes(s)
     \/ OtherClaims \/ MarkerChanges \/ Tick

Spec == Init /\ [][Next]_vars

-----------------------------------------------------------------------------
(* The verdict *)

Rows == {rl \in Source \X (1 .. Lanes) : rl[2] \in LanesOf(rl[1])}
PaperRows == {rl \in Rows : rl[1] \in Paper}
Of(rl) == row[rl[1]][rl[2]]

\* _source_lane_status, without the name that research_topic gives an empty row
\* beside one on the topic: no verdict looks at it.
Code(rl) ==
  CASE Of(rl) = "config" -> "CONFIG"
    [] Of(rl) \in {"query", "mixed", "stray"} -> "QUERY-COLLISION"
    [] Of(rl) = "outage" -> "INFRASTRUCTURE"
    [] Of(rl) \in {"none", "few"} -> "THIN"
    [] OTHER -> "ON-TOPIC"
Some(rl) == Of(rl) \in Hits \ {"none"}
Coded(R, c) == {rl \in R : Code(rl) = c}
AnySome(R) == \E rl \in R : Some(rl)

\* What is on topic decides, for papers if there are any.  (Slip: anything.)
UsableAny == Coded(Rows, "ON-TOPIC") # {}
Usable == Coded(IF PaperRows # {} THEN PaperRows ELSE Rows, "ON-TOPIC") # {}

Collisions == Coded(Rows, "QUERY-COLLISION")
Outage == Coded(Rows, "INFRASTRUCTURE") # {}

\* compute_status, in its order, for a "grounded" or an "exploratory" call;
\* what is asked does not depend on that.
Verdict(mode) ==
  IF Coded(Rows, "CONFIG") # {} THEN "CONFIG"
  ELSE IF PaperRows # {} /\ ~AnySome(PaperRows) THEN "RETRY-REQUIRED"
  ELSE IF mode = "grounded" /\ Collisions # {}
  THEN IF Usable /\ \A rl \in Collisions : Some(rl) THEN "DEGRADED" ELSE "RETRY-REQUIRED"
  ELSE IF Outage THEN IF AnySome(Rows) THEN "DEGRADED" ELSE "RETRY-REQUIRED"
  ELSE IF Coded(Rows, "ON-TOPIC") # {} THEN "OK"
  ELSE IF Collisions # {} THEN "LOW-OVERLAP"
  ELSE IF AnySome(Rows) THEN "OK" ELSE "RETRY-REQUIRED"

\* The candidates of a row that the digest keeps: a grounded call drops those
\* off the topic from a colliding row.
Kept(rl, mode) == Of(rl) \in {"few", "apt", "mixed"} \/ (mode = "exploratory" /\ Of(rl) = "stray")

-----------------------------------------------------------------------------
(* Properties *)

\* Retries after a refusal are due one polite pause apart and within the
\* bound, whoever else claims slots in between (research.py:608-625).
SlotsPolite ==
  \A s \in Source : stage[s] = "queued" /\ left[s] > 0 =>
    /\ left[s] <= MaxWait
    /\ \A t \in Source \ {s} :
         stage[t] = "queued" /\ left[t] > 0
         => left[s] >= left[t] + Pause \/ left[t] >= left[s] + Pause

\* A source that reads as having found nothing got an answer to each query of
\* its union, or the digest notes the partial coverage
\* (research.py:1549-1575): a false zero would read as "no prior art".  The
\* full-text query of Hugging Face is outside the union, and its failure is
\* swallowed on purpose (1827-1828).
NoFalseZero ==
  \A s \in Union :
    stage[s] = "done" /\ row[s][1] = "none"
    => fan[s].lost \in {"none", "fulltext"} \/ s \in noted

\* "failures surfaced into the digest rather than swallowed" (research.py:3-4),
\* the full-text query included.
FailuresSurfaced ==
  \A s \in Union :
    stage[s] = "done" /\ row[s][1] = "none" => fan[s].lost = "none" \/ s \in noted

\* The digest has a paper whenever papers were asked for and the verdict lets
\* the caller go on, though a colliding row lost its candidates; and a probe
\* across domains that brought papers is never sent back
\* (research.py:2341-2356).
EvidenceBehindVerdict ==
  Finished /\ PaperRows # {} =>
    /\ \A mode \in {"grounded", "exploratory"} :
         Verdict(mode) \in {"OK", "DEGRADED", "LOW-OVERLAP"}
         => \E rl \in PaperRows : Kept(rl, mode)
    /\ AnySome(PaperRows) => Verdict("exploratory") # "RETRY-REQUIRED"
=============================================================================
