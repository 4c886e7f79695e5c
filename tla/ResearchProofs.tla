--------------------------- MODULE ResearchProofs ---------------------------
(***************************************************************************)
(* Theorems about Research, for any sources, lanes, pauses and bounds.     *)
(* The polite slots are kept apart because every claim that is still to    *)
(* come due lies a pause before the next free slot.  What failed on the    *)
(* way to a row without a hit is in the notes before the row is written.   *)
(***************************************************************************)
EXTENDS Research, TLAPS

USE ResearchAssumption

RowValue == Hits \cup {"outage", "config", "query"}

-----------------------------------------------------------------------------
(* Types *)

CallTypeOK ==
  /\ anchored \in BOOLEAN
  /\ stage \in [Source -> Asking \cup Asleep \cup {"done"}]
  /\ lane \in [Source -> 1 .. Lanes] /\ tries \in [Source -> 1 .. 2]
  /\ left \in [Source -> Nat] /\ slot \in Nat
  /\ refused \in BOOLEAN
  /\ fan \in [Source -> Fan]
  /\ row \in [Source -> [1 .. Lanes -> Hits \cup {"outage", "config", "query", "open"}]]

LEMMA TypeParts == CallTypeOK' /\ noted' \subseteq Source => TypeOK'
BY DEF TypeOK, CallTypeOK

LEMMA Updated ==
  ASSUME NEW D, NEW R, NEW g \in [D -> R], NEW d \in D, NEW v \in R
  PROVE  [g EXCEPT ![d] = v] \in [D -> R]
OBVIOUS

LEMMA GistFan == ASSUME NEW f \in Fan PROVE Gist(f) \in Fan
BY DEF Gist, Fan, Blames, Failure

LEMMA NoFanFan == NoFan \in Fan
BY DEF NoFan, Fan

LEMMA EntryStage == ASSUME NEW s \in Source PROVE Entry(s) \in Asking
BY DEF Entry, Asking

LEMMA FireNat == ASSUME slot \in Nat PROVE Fire \in Nat /\ Fire >= slot /\ Fire >= Pause
BY DEF Fire

LEMMA BlamesRow == ASSUME NEW e \in Failure PROVE Blames(e) \in RowValue
BY DEF Blames, Failure, RowValue

LEMMA GoesType ==
  ASSUME TypeOK, NEW s \in Source, NEW st \in Asking \cup Asleep \cup {"done"}, NEW t \in Nat,
         Goes(s, st, t)
  PROVE  /\ stage' \in [Source -> Asking \cup Asleep \cup {"done"}]
         /\ left' \in [Source -> Nat]
BY DEF Goes, TypeOK

LEMMA BeginsType ==
  ASSUME TypeOK, NEW s \in Source, Begins(s)
  PROVE  /\ stage' \in [Source -> Asking \cup Asleep \cup {"done"}]
         /\ left' \in [Source -> Nat] /\ fan' \in [Source -> Fan]
BY GoesType, EntryStage, NoFanFan DEF Begins, TypeOK

LEMMA RecordsType ==
  ASSUME TypeOK, NEW s \in Source, NEW o \in RowValue, NEW f \in Fan, Records(s, o, f)
  PROVE  CallTypeOK'
<1>1. row' \in [Source -> [1 .. Lanes -> Hits \cup {"outage", "config", "query", "open"}]]
  BY DEF Records, TypeOK, RowValue
<1>2. lane[s] + 1 \in LanesOf(s) => lane[s] + 1 \in 1 .. Lanes
  BY DEF LanesOf
<1>3. stage' \in [Source -> Asking \cup Asleep \cup {"done"}] /\ left' \in [Source -> Nat]
  <2>1. "resting" \in Asleep
    BY DEF Asleep
  <2> QED BY <2>1, GoesType, BeginsType DEF Records
<1>4. lane' \in [Source -> 1 .. Lanes] /\ tries' \in [Source -> 1 .. 2]
  <2>1. lane \in [Source -> 1 .. Lanes] /\ tries \in [Source -> 1 .. 2] /\ 1 \in 1 .. 2
    BY DEF TypeOK
  <2>2. tries' = [tries EXCEPT ![s] = 1]
    BY DEF Records
  <2>3. \/ lane' = lane
        \/ lane' = [lane EXCEPT ![s] = lane[s] + 1] /\ lane[s] + 1 \in 1 .. Lanes
    BY <1>2 DEF Records
  <2> QED BY <2>1, <2>2, <2>3, Updated
<1>5. fan' \in [Source -> Fan]
  <2>1. fan \in [Source -> Fan]
    BY DEF TypeOK
  <2>2. CASE fan' = fan
    BY <2>1, <2>2
  <2>3. CASE Begins(s)
    BY <2>3, BeginsType
  <2>4. CASE fan' = [fan EXCEPT ![s] = IF o = "none" THEN Gist(f) ELSE NoFan]
    <3>1. (IF o = "none" THEN Gist(f) ELSE NoFan) \in Fan
      BY GistFan, NoFanFan
    <3> QED BY <2>1, <2>4, <3>1, Updated
  <2> QED BY <2>2, <2>3, <2>4 DEF Records
<1> QED BY <1>1, <1>3, <1>4, <1>5 DEF Records, CallTypeOK, TypeOK

LEMMA FailsType ==
  ASSUME TypeOK, NEW s \in Source, NEW e \in Failure, NEW f \in Fan, Fails(s, e, f)
  PROVE  TypeOK'
<1>1. CASE GivesUp(s, e, f)
  BY <1>1, RecordsType, BlamesRow, TypeParts DEF GivesUp, TypeOK
<1>2. CASE Reworks(s, e) \/ Queues(s, e) \/ Sleeps(s, e)
  <2>1. tries' \in [Source -> 1 .. 2] /\ fan' \in [Source -> Fan]
    <3>1. Retries(s)
      BY <1>2 DEF Reworks, Queues, Sleeps
    <3>2. tries \in [Source -> 1 .. 2] /\ fan \in [Source -> Fan]
      BY DEF TypeOK
    <3> QED BY <3>1, <3>2, NoFanFan, Updated DEF Retries
  <2>2. stage' \in [Source -> Asking \cup Asleep \cup {"done"}] /\ left' \in [Source -> Nat]
    <3>1. "queued" \in Asleep /\ "sleeping" \in Asleep /\ Fire \in Nat
      BY FireNat DEF Asleep, TypeOK
    <3> QED BY <1>2, <3>1, GoesType, EntryStage DEF Reworks, Queues, Sleeps
  <2>3. slot' \in Nat
    BY <1>2, FireNat DEF Reworks, Queues, Sleeps, TypeOK
  <2> QED BY <1>2, <2>1, <2>2, <2>3 DEF Reworks, Queues, Sleeps, Retries, TypeOK
<1> QED BY <1>1, <1>2 DEF Fails

LEMMA HitRow == ASSUME NEW s \in Source PROVE HitsOf(s) \subseteq RowValue
BY DEF HitsOf, RowValue, Hits

LEMMA EndsType ==
  ASSUME TypeOK, NEW s \in Source, Ends(s)
  PROVE  TypeOK'
<1>1. CASE Answers(s)
  BY <1>1, RecordsType, HitRow, NoFanFan, TypeParts DEF Answers, TypeOK
<1>2. CASE Errs(s)
  BY <1>2, FailsType, NoFanFan DEF Errs
<1>3. CASE s = Arxiv /\ Refuses
  <2>1. "index" \in Asking
    BY DEF Asking
  <2> QED BY <1>3, <2>1, GoesType DEF Refuses, TypeOK
<1>4. ASSUME NEW f \in Fan, Fanned(s, f), Settles(s, f) PROVE TypeOK'
  <2>1. CASE Escalates(s, f)
    <3>1. BroadFan \in Fan
      BY DEF BroadFan, Fan
    <3> QED BY <2>1, <3>1 DEF Escalates, TypeOK
  <2>2. CASE f.lost # "none" /\ Fails(s, f.lost, f)
    <3>1. f.lost \in Failure
      BY <1>4, <2>2 DEF Fanned, Fan
    <3> QED BY <2>2, <3>1, FailsType
  <2>3. CASE Ranks(s, f)
    <3>1. noted' \subseteq Source
      BY <2>3 DEF Ranks, TypeOK
    <3>2. CASE s \in Hf
      <4>1. "fulltext" \in Asking
        BY DEF Asking
      <4>2. Goes(s, "fulltext", 0)
        BY <2>3, <3>2 DEF Ranks
      <4>3. fan' \in [Source -> Fan]
        BY <2>3, <3>2, GistFan DEF Ranks, TypeOK
      <4>4. stage' \in [Source -> Asking \cup Asleep \cup {"done"}] /\ left' \in [Source -> Nat]
        BY <4>1, <4>2, GoesType
      <4> QED BY <2>3, <3>1, <3>2, <4>3, <4>4 DEF Ranks, TypeOK
    <3>3. CASE s \notin Hf
      <4>1. PICK o \in RowValue : Records(s, o, f)
        BY <2>3, <3>3, HitRow DEF Ranks, RowValue, Hits
      <4> QED BY <3>1, <4>1, RecordsType, TypeParts
    <3> QED BY <3>2, <3>3
  <2> QED BY <1>4, <2>1, <2>2, <2>3 DEF Settles
<1>5. ASSUME NEW ok \in BOOLEAN, FullText(s, ok) PROVE TypeOK'
  <2>1. PICK o \in RowValue : Records(s, o, WithFullText(fan[s], ok))
    BY <1>5, HitRow DEF FullText, RowValue, Hits
  <2>2. WithFullText(fan[s], ok) \in Fan
    BY DEF TypeOK, WithFullText, Fan
  <2> QED BY <1>5, <2>1, <2>2, RecordsType, TypeParts DEF FullText, TypeOK
<1> QED BY <1>1, <1>2, <1>3, <1>4, <1>5 DEF Ends

\* The variables keep their types.
THEOREM TypeCorrect == Spec => []TypeOK
<1>1. Init => TypeOK
  BY EntryStage, NoFanFan DEF Init, TypeOK
<1>2. TypeOK /\ [Next]_vars => TypeOK'
  <2> SUFFICES ASSUME TypeOK, [Next]_vars PROVE TypeOK'
    OBVIOUS
  <2>1. ASSUME NEW s \in Source, Ends(s) PROVE TypeOK'
    BY <2>1, EndsType
  <2>2. ASSUME NEW s \in Source, Wakes(s) PROVE TypeOK'
    BY <2>2, BeginsType DEF Wakes, TypeOK
  <2>3. CASE OtherClaims
    BY <2>3, FireNat DEF OtherClaims, TypeOK, srcVars
  <2>4. CASE MarkerChanges
    BY <2>4 DEF MarkerChanges, TypeOK, srcVars
  <2>5. CASE Tick
    BY <2>5 DEF Tick, Less, TypeOK
  <2>6. CASE UNCHANGED vars
    BY <2>6 DEF vars, srcVars, TypeOK
  <2> QED BY <2>1, <2>2, <2>3, <2>4, <2>5, <2>6 DEF Next
<1> QED BY <1>1, <1>2, PTL DEF Spec
-----------------------------------------------------------------------------
(* The polite slots *)

\* The claims are a pause apart, and the next free slot is one behind them.
Spaced ==
  \A s \in Source : stage[s] = "queued" /\ left[s] > 0 =>
    /\ left[s] <= MaxWait /\ left[s] + Pause <= slot
    /\ \A t \in Source \ {s} :
         stage[t] = "queued" /\ left[t] > 0
         => left[s] >= left[t] + Pause \/ left[t] >= left[s] + Pause

\* A source that goes anywhere else leaves the queue alone.
LEMMA SpacedKept ==
  ASSUME TypeOK, Spaced, NEW s \in Source, NEW st, st # "queued", NEW n, Goes(s, st, n),
         slot' = slot
  PROVE  Spaced'
BY DEF Goes, TypeOK, Spaced

LEMMA RecordsSpaced ==
  ASSUME TypeOK, Spaced, NEW s \in Source, NEW o, NEW f, Records(s, o, f)
  PROVE  Spaced'
<1>1. Entry(s) # "queued"
  BY DEF Entry
<1> QED BY <1>1, SpacedKept DEF Records, Begins

LEMMA FailsSpaced ==
  ASSUME TypeOK, Spaced, NEW s \in Source, NEW e, NEW f, Fails(s, e, f)
  PROVE  Spaced'
<1>1. CASE GivesUp(s, e, f)
  BY <1>1, RecordsSpaced DEF GivesUp
<1>2. CASE Reworks(s, e)
  <2>1. Entry(s) # "queued"
    BY DEF Entry
  <2> QED BY <1>2, <2>1, SpacedKept DEF Reworks
<1>3. CASE Queues(s, e)
  <2>1. Fire \in Nat /\ Fire >= slot /\ Fire <= MaxWait /\ slot' = Fire + Pause
    BY <1>3, FireNat DEF Queues, SlotFree, TypeOK
  <2>2. stage' = [stage EXCEPT ![s] = "queued"] /\ left' = [left EXCEPT ![s] = Fire]
    BY <1>3 DEF Queues, Goes
  <2>3. /\ left \in [Source -> Nat] /\ slot \in Nat
        /\ stage \in [Source -> Asking \cup Asleep \cup {"done"}]
    BY DEF TypeOK
  <2> QED BY <2>1, <2>2, <2>3 DEF Spaced
<1>4. CASE Sleeps(s, e)
  BY <1>4, SpacedKept DEF Sleeps
<1> QED BY <1>1, <1>2, <1>3, <1>4 DEF Fails

LEMMA EndsSpaced ==
  ASSUME TypeOK, Spaced, NEW s \in Source, Ends(s)
  PROVE  Spaced'
<1>1. CASE Answers(s)
  BY <1>1, RecordsSpaced DEF Answers
<1>2. CASE Errs(s)
  BY <1>2, FailsSpaced DEF Errs
<1>3. CASE s = Arxiv /\ Refuses
  BY <1>3, SpacedKept DEF Refuses
<1>4. ASSUME NEW f \in Fan, Settles(s, f) PROVE Spaced'
  <2>1. CASE Escalates(s, f)
    BY <2>1 DEF Escalates, Spaced
  <2>2. CASE Fails(s, f.lost, f)
    BY <2>2, FailsSpaced
  <2>3. CASE Ranks(s, f)
    BY <2>3, SpacedKept, RecordsSpaced DEF Ranks
  <2> QED BY <1>4, <2>1, <2>2, <2>3 DEF Settles
<1>5. ASSUME NEW ok \in BOOLEAN, FullText(s, ok) PROVE Spaced'
  BY <1>5, RecordsSpaced DEF FullText
<1> QED BY <1>1, <1>2, <1>3, <1>4, <1>5 DEF Ends

LEMMA TickSpaced ==
  ASSUME TypeOK, Spaced, Tick
  PROVE  Spaced'
<1>1. left \in [Source -> Nat] /\ slot \in Nat
  BY DEF TypeOK
<1>2. stage' = stage /\ slot' = Less(slot) /\ left' = [s \in Source |-> Less(left[s])]
  BY DEF Tick
<1>3. \A n \in Nat : Less(n) \in Nat /\ (Less(n) > 0 => Less(n) = n - 1 /\ n > 0)
  BY DEF Less
<1> SUFFICES ASSUME NEW s \in Source, stage[s] = "queued", Less(left[s]) > 0
             PROVE  /\ Less(left[s]) <= MaxWait /\ Less(left[s]) + Pause <= Less(slot)
                    /\ \A t \in Source \ {s} :
                         stage[t] = "queued" /\ Less(left[t]) > 0
                         => \/ Less(left[s]) >= Less(left[t]) + Pause
                            \/ Less(left[t]) >= Less(left[s]) + Pause
  BY <1>2 DEF Spaced
<1>4. left[s] > 0 /\ Less(left[s]) = left[s] - 1
  BY <1>1, <1>3
<1>5. left[s] <= MaxWait /\ left[s] + Pause <= slot
  BY <1>4 DEF Spaced
<1>6. Less(left[s]) <= MaxWait /\ Less(left[s]) + Pause <= Less(slot)
  BY <1>1, <1>4, <1>5 DEF Less
<1>7. ASSUME NEW t \in Source \ {s}, stage[t] = "queued", Less(left[t]) > 0
      PROVE  Less(left[s]) >= Less(left[t]) + Pause \/ Less(left[t]) >= Less(left[s]) + Pause
  <2>1. left[t] > 0 /\ Less(left[t]) = left[t] - 1
    BY <1>1, <1>3, <1>7
  <2>2. left[s] >= left[t] + Pause \/ left[t] >= left[s] + Pause
    BY <1>4, <1>7, <2>1 DEF Spaced
  <2> QED BY <1>1, <1>4, <2>1, <2>2
<1> QED BY <1>6, <1>7

\* Retries after a refusal are a polite pause apart and within the bound, for
\* any number of sources and of other claims.
THEOREM RetriesPolite == Spec => []SlotsPolite
<1>1. Init => Spaced
  BY EntryStage DEF Init, Spaced, Asking
<1>2. TypeOK /\ Spaced /\ [Next]_vars => Spaced'
  <2> SUFFICES ASSUME TypeOK, Spaced, [Next]_vars PROVE Spaced'
    OBVIOUS
  <2>1. ASSUME NEW s \in Source, Ends(s) PROVE Spaced'
    BY <2>1, EndsSpaced
  <2>2. ASSUME NEW s \in Source, Wakes(s) PROVE Spaced'
    <3>1. Entry(s) # "queued"
      BY DEF Entry
    <3> QED BY <2>2, <3>1, SpacedKept DEF Wakes, Begins
  <2>3. CASE OtherClaims
    <3>1. slot \in Nat /\ Fire \in Nat /\ Fire >= slot /\ left \in [Source -> Nat]
      BY FireNat DEF TypeOK
    <3>2. slot' = Fire + Pause /\ stage' = stage /\ left' = left
      BY <2>3 DEF OtherClaims, srcVars
    <3> QED BY <3>1, <3>2 DEF Spaced
  <2>4. CASE MarkerChanges
    BY <2>4 DEF MarkerChanges, srcVars, Spaced
  <2>5. CASE Tick
    BY <2>5, TickSpaced
  <2>6. CASE UNCHANGED vars
    BY <2>6 DEF vars, srcVars, Spaced
  <2> QED BY <2>1, <2>2, <2>3, <2>4, <2>5, <2>6 DEF Next
<1>3. Spaced => SlotsPolite
  BY DEF Spaced, SlotsPolite
<1> QED BY <1>1, <1>2, <1>3, TypeCorrect, PTL DEF Spec

-----------------------------------------------------------------------------
(* Empty rows *)

\* What failed on the way is noted before an empty row can say so: from the
\* ranking on, and in the row of a source that asks only once.  The union is
\* whole if nothing failed, or only the full-text query beside it.
Whole == {"none", "fulltext"}

Told ==
  \A s \in Union :
    /\ lane[s] = 1
    /\ stage[s] = "fulltext" => fan[s].lost \in Whole \/ s \in noted
    /\ stage[s] = "done" /\ row[s][1] = "none" => fan[s].lost \in Whole \/ s \in noted

\* A step of one source tells nothing new of another.
LEMMA ToldOthers ==
  ASSUME Told, NEW s, noted \subseteq noted',
         \A u \in Union \ {s} : /\ stage'[u] = stage[u] /\ lane'[u] = lane[u]
                                /\ fan'[u] = fan[u] /\ row'[u] = row[u],
         s \in Union =>
           /\ lane'[s] = 1
           /\ stage'[s] = "fulltext" => fan'[s].lost \in Whole \/ s \in noted'
           /\ stage'[s] = "done" /\ row'[s][1] = "none"
              => fan'[s].lost \in Whole \/ s \in noted'
  PROVE  Told'
BY DEF Told

LEMMA GistLost == ASSUME NEW f, f.lost \in Whole PROVE Gist(f).lost \in Whole
BY DEF Gist, Blames, Whole

LEMMA UnionSources == Union \subseteq Source \ Paper
BY DEF Union

LEMMA RecordsTold ==
  ASSUME TypeOK, Told, NEW s \in Source, NEW o, NEW f, Records(s, o, f),
         noted \subseteq noted', o = "none" /\ s \in Union => f.lost \in Whole \/ s \in noted'
  PROVE  Told'
<1>1. /\ lane \in [Source -> 1 .. Lanes] /\ fan \in [Source -> Fan]
      /\ stage \in [Source -> Asking \cup Asleep \cup {"done"}]
      /\ row \in [Source -> [1 .. Lanes -> Hits \cup {"outage", "config", "query", "open"}]]
  BY DEF TypeOK
<1>2. \A u \in Source \ {s} : /\ stage'[u] = stage[u] /\ lane'[u] = lane[u]
                              /\ fan'[u] = fan[u] /\ row'[u] = row[u]
  BY <1>1 DEF Records, Begins, Goes
<1>3. ASSUME s \in Union
      PROVE  /\ lane'[s] = 1
             /\ stage'[s] = "fulltext" => fan'[s].lost \in Whole \/ s \in noted'
             /\ stage'[s] = "done" /\ row'[s][1] = "none"
                => fan'[s].lost \in Whole \/ s \in noted'
  <2>1. lane[s] = 1 /\ LanesOf(s) = 1 .. 1
    BY <1>3, UnionSources DEF Told, LanesOf
  <2>2. /\ Goes(s, "done", 0) /\ UNCHANGED lane
        /\ fan' = [fan EXCEPT ![s] = IF o = "none" THEN Gist(f) ELSE NoFan]
    BY <2>1 DEF Records
  <2>3. row'[s][1] = o
    BY <1>1, <2>1 DEF Records
  <2>4. CASE o = "none"
    BY <1>1, <1>3, <2>1, <2>2, <2>4, GistLost DEF Goes
  <2>5. CASE o # "none"
    BY <1>1, <2>1, <2>2, <2>3, <2>5 DEF Goes
  <2> QED BY <2>4, <2>5
<1> QED BY <1>2, <1>3, ToldOthers, UnionSources

\* A step that records nothing and ends no fan-out.
LEMMA GoesTold ==
  ASSUME TypeOK, Told, NEW s \in Source, NEW st \in {"asking", "index"} \cup Asleep, NEW n,
         Goes(s, st, n), fan' = fan \/ fan' = [fan EXCEPT ![s] = NoFan],
         UNCHANGED <<lane, row, noted>>
  PROVE  Told'
<1>1. fan \in [Source -> Fan] /\ stage \in [Source -> Asking \cup Asleep \cup {"done"}]
  BY DEF TypeOK
<1>2. \A u \in Source \ {s} : stage'[u] = stage[u] /\ fan'[u] = fan[u]
  BY <1>1 DEF Goes
<1>3. stage'[s] = st /\ st # "fulltext" /\ st # "done"
  BY <1>1 DEF Goes, Asleep
<1> QED BY <1>2, <1>3, ToldOthers, UnionSources DEF Told

LEMMA EntryTold == ASSUME NEW s PROVE Entry(s) \in {"asking", "index"} \cup Asleep
BY DEF Entry

LEMMA FailsTold ==
  ASSUME TypeOK, Told, NEW s \in Source, NEW e \in Failure, NEW f, Fails(s, e, f)
  PROVE  Told'
<1>1. CASE GivesUp(s, e, f)
  <2>1. Blames(e) # "none"
    BY DEF Blames, Failure
  <2> QED BY <1>1, <2>1, RecordsTold DEF GivesUp
<1>2. CASE Reworks(s, e) \/ Queues(s, e) \/ Sleeps(s, e)
  <2>1. Retries(s)
    BY <1>2 DEF Reworks, Queues, Sleeps
  <2>2. PICK st \in {"asking", "index"} \cup Asleep : \E n : Goes(s, st, n)
    BY <1>2, EntryTold DEF Reworks, Queues, Sleeps, Asleep
  <2> QED BY <2>1, <2>2, GoesTold DEF Retries
<1> QED BY <1>1, <1>2 DEF Fails

LEMMA EndsTold ==
  ASSUME TypeOK, Told, NEW s \in Source, Ends(s)
  PROVE  Told'
<1>1. CASE Answers(s)
  BY <1>1, RecordsTold DEF Answers
<1>2. CASE Errs(s)
  BY <1>2, FailsTold DEF Errs
<1>3. CASE s = Arxiv /\ Refuses
  BY <1>3, GoesTold DEF Refuses
<1>4. ASSUME NEW f \in Fan, Fanned(s, f), Settles(s, f) PROVE Told'
  <2>1. CASE Escalates(s, f)
    <3>1. fan \in [Source -> Fan] /\ stage[s] = "asking" /\ s \in Union
      BY <1>4 DEF TypeOK, Fanned
    <3> QED BY <2>1, <3>1, ToldOthers, UnionSources DEF Escalates, Told
  <2>2. CASE f.lost # "none" /\ Fails(s, f.lost, f)
    <3>1. f.lost \in Failure
      BY <1>4, <2>2 DEF Fanned, Fan
    <3> QED BY <2>2, <3>1, FailsTold
  <2>3. CASE (f.lost = "none" \/ f.found) /\ Ranks(s, f)
    <3>1. noted \subseteq noted' /\ (f.lost \in Whole \/ s \in noted')
      BY <2>3 DEF Ranks, Whole
    <3>2. CASE s \in Hf
      <4>1. /\ Goes(s, "fulltext", 0) /\ fan' = [fan EXCEPT ![s] = Gist(f)]
            /\ UNCHANGED <<lane, row>>
        BY <2>3, <3>2 DEF Ranks
      <4>2. fan \in [Source -> Fan] /\ stage \in [Source -> Asking \cup Asleep \cup {"done"}]
        BY DEF TypeOK
      <4>3. \A u \in Source \ {s} : stage'[u] = stage[u] /\ fan'[u] = fan[u]
        BY <4>1, <4>2 DEF Goes
      <4>4. stage'[s] = "fulltext" /\ fan'[s] = Gist(f)
        BY <4>1, <4>2 DEF Goes
      <4> QED BY <3>1, <4>1, <4>3, <4>4, GistLost, ToldOthers, UnionSources DEF Told
    <3>3. CASE s \notin Hf
      BY <2>3, <3>1, <3>3, RecordsTold DEF Ranks
    <3> QED BY <3>2, <3>3
  <2> QED BY <1>4, <2>1, <2>2, <2>3 DEF Settles
<1>5. ASSUME NEW ok \in BOOLEAN, FullText(s, ok) PROVE Told'
  <2>1. s \in Union => WithFullText(fan[s], ok).lost \in Whole \/ s \in noted
    <3>1. s \in Union => fan[s].lost \in Whole \/ s \in noted
      BY <1>5 DEF FullText, Told
    <3>2. fan[s] \in Fan
      BY DEF TypeOK
    <3> QED BY <3>1, <3>2 DEF WithFullText, Fan, Whole
  <2> QED BY <1>5, <2>1, RecordsTold DEF FullText
<1> QED BY <1>1, <1>2, <1>3, <1>4, <1>5 DEF Ends

\* A source that reads as having found nothing had no failure among the queries
\* of its union that the digest does not note, however they and the full-text
\* query end; a failure of that one alone is swallowed
\* (research.py:1549-1575, 1827-1840).
THEOREM ZerosTold == Spec => []NoFalseZero
<1>1. Init => Told
  BY UnionSources, EntryTold DEF Init, Told, Asleep
<1>2. TypeOK /\ Told /\ [Next]_vars => Told'
  <2> SUFFICES ASSUME TypeOK, Told, [Next]_vars PROVE Told'
    OBVIOUS
  <2>1. ASSUME NEW s \in Source, Ends(s) PROVE Told'
    BY <2>1, EndsTold
  <2>2. ASSUME NEW s \in Source, Wakes(s) PROVE Told'
    BY <2>2, GoesTold, EntryTold DEF Wakes, Begins
  <2>3. CASE OtherClaims \/ MarkerChanges \/ Tick \/ UNCHANGED vars
    BY <2>3 DEF OtherClaims, MarkerChanges, Tick, vars, srcVars, Told
  <2> QED BY <2>1, <2>2, <2>3 DEF Next
<1>3. Told => NoFalseZero
  BY DEF Told, NoFalseZero, Whole
<1> QED BY <1>1, <1>2, <1>3, TypeCorrect, PTL DEF Spec

-----------------------------------------------------------------------------
(* The verdict *)

\* The rows of the lanes that are behind a source are written.
Filled ==
  \A s \in Source :
    /\ lane[s] \in LanesOf(s)
    /\ \A l \in 1 .. Lanes : l < lane[s] => row[s][l] # "open"
    /\ stage[s] = "done" => \A l \in LanesOf(s) : row[s][l] # "open"

\* Nothing but the writing of a row ends a source or moves it to its next lane.
LEMMA FilledKept ==
  ASSUME TypeOK, Filled, lane' = lane, row' = row,
         \A s \in Source : stage'[s] = "done" => stage[s] = "done"
  PROVE  Filled'
BY DEF Filled, LanesOf

LEMMA GoesFilled ==
  ASSUME TypeOK, Filled, NEW s \in Source, NEW st, st # "done", NEW n, Goes(s, st, n),
         UNCHANGED <<lane, row>>
  PROVE  Filled'
<1>1. \A t \in Source : stage'[t] = "done" => stage[t] = "done"
  BY DEF Goes, TypeOK
<1> QED BY <1>1, FilledKept

LEMMA RecordsFilled ==
  ASSUME TypeOK, Filled, NEW s \in Source, NEW o, o # "open", NEW f, Records(s, o, f)
  PROVE  Filled'
<1>1. /\ lane \in [Source -> 1 .. Lanes]
      /\ stage \in [Source -> Asking \cup Asleep \cup {"done"}]
      /\ row \in [Source -> [1 .. Lanes -> Hits \cup {"outage", "config", "query", "open"}]]
  BY DEF TypeOK
<1>2. row'[s] = [row[s] EXCEPT ![lane[s]] = o]
  BY <1>1 DEF Records
<1>3. \A l \in 1 .. Lanes : l <= lane[s] => row'[s][l] # "open"
  <2> SUFFICES ASSUME NEW l \in 1 .. Lanes, l <= lane[s] PROVE row'[s][l] # "open"
    OBVIOUS
  <2>1. CASE l = lane[s]
    BY <1>1, <1>2, <2>1
  <2>2. CASE l < lane[s]
    BY <1>1, <1>2, <2>2 DEF Filled
  <2> QED BY <1>1, <2>1, <2>2
<1>4. lane[s] \in LanesOf(s) /\ LanesOf(s) \subseteq 1 .. Lanes
  BY DEF Filled, LanesOf
<1>5. /\ lane'[s] \in LanesOf(s)
      /\ \A l \in 1 .. Lanes : l < lane'[s] => row'[s][l] # "open"
      /\ stage'[s] = "done" => \A l \in LanesOf(s) : row'[s][l] # "open"
  <2>1. CASE lane[s] + 1 \in LanesOf(s)
    <3>1. lane'[s] = lane[s] + 1
      BY <1>1, <2>1 DEF Records
    <3>2. stage'[s] # "done"
      BY <1>1, <2>1, EntryStage DEF Records, Begins, Goes, Asking
    <3> QED BY <1>1, <1>3, <2>1, <3>1, <3>2
  <2>2. CASE lane[s] + 1 \notin LanesOf(s)
    <3>1. lane' = lane
      BY <2>2 DEF Records
    <3>2. \A l \in LanesOf(s) : l <= lane[s]
      BY <1>1, <1>4, <2>2 DEF LanesOf
    <3> QED BY <1>1, <1>3, <1>4, <3>1, <3>2
  <2> QED BY <2>1, <2>2
<1>6. \A t \in Source \ {s} : stage'[t] = stage[t] /\ lane'[t] = lane[t] /\ row'[t] = row[t]
  BY <1>1 DEF Records, Begins, Goes
<1>7. \A t \in Source : LanesOf(t)' = LanesOf(t)
  BY DEF LanesOf
<1> QED BY <1>5, <1>6, <1>7 DEF Filled

LEMMA FailsFilled ==
  ASSUME TypeOK, Filled, NEW s \in Source, NEW e \in Failure, NEW f, Fails(s, e, f)
  PROVE  Filled'
<1>1. Blames(e) # "open" /\ Entry(s) # "done"
  BY DEF Blames, Failure, Entry
<1> QED BY <1>1, RecordsFilled, GoesFilled DEF Fails, GivesUp, Reworks, Queues, Sleeps, Retries

LEMMA HitNotOpen == ASSUME NEW s PROVE "open" \notin HitsOf(s) \cup {"none"}
BY DEF HitsOf, Hits

LEMMA EndsFilled ==
  ASSUME TypeOK, Filled, NEW s \in Source, Ends(s)
  PROVE  Filled'
<1>1. CASE Answers(s)
  BY <1>1, RecordsFilled, HitNotOpen DEF Answers
<1>2. CASE Errs(s)
  BY <1>2, FailsFilled DEF Errs
<1>3. CASE s = Arxiv /\ Refuses
  BY <1>3, GoesFilled DEF Refuses
<1>4. ASSUME NEW f \in Fan, Fanned(s, f), Settles(s, f) PROVE Filled'
  <2>1. CASE Escalates(s, f)
    BY <2>1, FilledKept DEF Escalates
  <2>2. CASE f.lost # "none" /\ Fails(s, f.lost, f)
    <3>1. f.lost \in Failure
      BY <1>4, <2>2 DEF Fanned, Fan
    <3> QED BY <2>2, <3>1, FailsFilled
  <2>3. CASE Ranks(s, f)
    <3>1. CASE s \in Hf
      BY <2>3, <3>1, GoesFilled DEF Ranks
    <3>2. CASE s \notin Hf
      <4>1. PICK o \in HitsOf(s) \cup {"none"} : Records(s, o, f)
        BY <2>3, <3>2 DEF Ranks
      <4> QED BY <4>1, RecordsFilled, HitNotOpen
    <3> QED BY <3>1, <3>2
  <2> QED BY <1>4, <2>1, <2>2, <2>3 DEF Settles
<1>5. ASSUME NEW ok \in BOOLEAN, FullText(s, ok) PROVE Filled'
  <2>1. PICK o \in HitsOf(s) \cup {"none"} : Records(s, o, WithFullText(fan[s], ok))
    BY <1>5 DEF FullText
  <2> QED BY <2>1, RecordsFilled, HitNotOpen
<1> QED BY <1>1, <1>2, <1>3, <1>4, <1>5 DEF Ends

\* A verdict that lets a grounded caller go on has a paper row it keeps: if a
\* row collides, one on the topic is asked for; if none does, no row is cut.
LEMMA GroundedEvidence ==
  ASSUME PaperRows # {}, \A rl \in PaperRows : Of(rl) # "open", \A rl \in Rows : Of(rl) \in RowValue,
         Verdict("grounded") \in {"OK", "DEGRADED", "LOW-OVERLAP"}
  PROVE  \E rl \in PaperRows : Kept(rl, "grounded")
<1>1. AnySome(PaperRows)
  BY DEF Verdict
<1>2. PICK rl \in PaperRows : Some(rl)
  BY <1>1 DEF AnySome
<1>3. PaperRows \subseteq Rows
  BY DEF PaperRows
<1>4. CASE Collisions = {}
  <2>1. Code(rl) # "QUERY-COLLISION"
    BY <1>2, <1>3, <1>4 DEF Collisions, Coded
  <2>2. Of(rl) \in {"few", "apt"}
    BY <1>2, <2>1 DEF Code, Some, Hits
  <2> QED BY <1>2, <2>2 DEF Kept
<1>5. CASE Collisions # {}
  <2>1. Usable
    BY <1>1, <1>5 DEF Verdict
  <2>2. PICK pl \in PaperRows : Code(pl) = "ON-TOPIC"
    BY <2>1 DEF Usable, Coded
  <2>3. Of(pl) = "apt"
    BY <1>3, <2>2 DEF Code, RowValue, Hits
  <2> QED BY <2>2, <2>3 DEF Kept
<1> QED BY <1>4, <1>5

\* An exploratory call cuts nothing, so some paper is enough; and with some
\* paper no branch of its verdict sends it back.
LEMMA ExploratoryEvidence ==
  ASSUME PaperRows # {}
  PROVE  /\ Verdict("exploratory") \in {"OK", "DEGRADED", "LOW-OVERLAP"}
            => \E rl \in PaperRows : Kept(rl, "exploratory")
         /\ AnySome(PaperRows) => Verdict("exploratory") # "RETRY-REQUIRED"
<1>1. ASSUME Verdict("exploratory") \in {"OK", "DEGRADED", "LOW-OVERLAP"}
      PROVE  \E rl \in PaperRows : Kept(rl, "exploratory")
  <2>1. AnySome(PaperRows)
    BY <1>1 DEF Verdict
  <2> QED BY <2>1 DEF AnySome, Some, Hits, Kept
<1>2. ASSUME AnySome(PaperRows)
      PROVE  Verdict("exploratory") # "RETRY-REQUIRED"
  <2>1. AnySome(Rows)
    BY <1>2 DEF AnySome, PaperRows
  <2> QED BY <1>2, <2>1 DEF Verdict
<1> QED BY <1>1, <1>2

\* A finished digest whose verdict lets the caller go on has a paper, in either
\* mode and for any sources and lanes.
THEOREM VerdictsBacked == Spec => []EvidenceBehindVerdict
<1>1. Init => Filled
  BY EntryStage DEF Init, Filled, LanesOf, Asking
<1>2. TypeOK /\ Filled /\ [Next]_vars => Filled'
  <2> SUFFICES ASSUME TypeOK, Filled, [Next]_vars PROVE Filled'
    OBVIOUS
  <2>1. ASSUME NEW s \in Source, Ends(s) PROVE Filled'
    BY <2>1, EndsFilled
  <2>2. ASSUME NEW s \in Source, Wakes(s) PROVE Filled'
    <3>1. Entry(s) # "done"
      BY DEF Entry
    <3> QED BY <2>2, <3>1, GoesFilled DEF Wakes, Begins
  <2>3. CASE OtherClaims \/ MarkerChanges \/ Tick \/ UNCHANGED vars
    BY <2>3, FilledKept DEF OtherClaims, MarkerChanges, Tick, vars, srcVars
  <2> QED BY <2>1, <2>2, <2>3 DEF Next
<1>3. TypeOK /\ Filled => EvidenceBehindVerdict
  <2> SUFFICES ASSUME TypeOK, Filled, Finished, PaperRows # {}
               PROVE  /\ \A mode \in {"grounded", "exploratory"} :
                           Verdict(mode) \in {"OK", "DEGRADED", "LOW-OVERLAP"}
                           => \E rl \in PaperRows : Kept(rl, mode)
                      /\ AnySome(PaperRows) => Verdict("exploratory") # "RETRY-REQUIRED"
    BY DEF EvidenceBehindVerdict
  <2>1. \A rl \in Rows : Of(rl) \in RowValue
    BY DEF Rows, Of, Filled, Finished, TypeOK, RowValue
  <2>2. \A rl \in PaperRows : Of(rl) # "open"
    BY <2>1 DEF PaperRows, RowValue, Hits
  <2> QED BY <2>1, <2>2, GroundedEvidence, ExploratoryEvidence
<1> QED BY <1>1, <1>2, <1>3, TypeCorrect, PTL DEF Spec
=============================================================================
