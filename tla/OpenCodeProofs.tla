--------------------------- MODULE OpenCodeProofs ---------------------------
(***************************************************************************)
(* Theorems about OpenCode, for any number of connections, hooks, sessions *)
(* and rebuilds.  The inductive invariant has a part for each of the three *)
(* things a run shares: what the hooks have selected stays superseded,     *)
(* because the council only gets newer sessions; a connection that stop()  *)
(* does not wait for never was accepted, is closed, or was late; and the   *)
(* home is whole from the moment this run has written it, unless another   *)
(* run is at it.                                                           *)
(***************************************************************************)
EXTENDS OpenCode, TLAPS, FiniteSetTheorems

USE PruneAssumption, OpenCodeAssumption

-----------------------------------------------------------------------------
(* Newer sessions *)

LEMMA NewerFinite ==
  ASSUME NEW n \in Nat, NEW S \in SUBSET (1 .. n), NEW s \in Nat
  PROVE  IsFiniteSet(Newer(s, S)) /\ Cardinality(Newer(s, S)) \in Nat
<1>1. IsFiniteSet(1 .. n)
  BY FS_Interval
<1>2. Newer(s, S) \subseteq 1 .. n
  BY DEF Newer
<1> QED BY <1>1, <1>2, FS_Subset, FS_CardinalityType

\* The more sessions there are, the more are newer.
LEMMA NewerGrows ==
  ASSUME NEW n \in Nat, NEW S \in SUBSET (1 .. n), NEW T \in SUBSET S, NEW s \in Nat
  PROVE  Cardinality(Newer(s, T)) <= Cardinality(Newer(s, S))
<1>1. IsFiniteSet(Newer(s, S))
  BY NewerFinite
<1>2. Newer(s, T) \subseteq Newer(s, S)
  BY DEF Newer
<1> QED BY <1>1, <1>2, FS_Subset

-----------------------------------------------------------------------------
(* Types and steps *)

Attempting == {"spawning", "running", "recovering", "capturing"}

\* What each step of the run may rely on.
Steps ==
  /\ step \notin Attempting \cup {"leaving", "stopping", "over"} => attempt = 0
  /\ step = "spawning" => attempt < Attempts
  /\ step \in {"running", "recovering", "capturing"} => session \in 1 .. created
  /\ exit = "clean" => step \in {"recovering", "capturing"}
  /\ read # "none" => step = "capturing"

Typed == TypeOK /\ Steps

RunTypeOK ==
  /\ step \in {"key", "starting", "home", "agent", "pins", "npm", "spawning", "running",
               "recovering", "capturing", "leaving", "stopping", "over"}
  /\ attempt \in 0 .. Attempts /\ session \in 0 .. created
  /\ said \in Text /\ wrote \in Text
  /\ exit \in {"none", "clean", "error", "idle"}
  /\ read \in {"none", "done", "failed"}
  /\ result \in Result
  /\ ending \in {"none", "returned", "raised"}
  /\ cancels \in 0 .. MaxCancels
  /\ reported \subseteq Conn

HomeTypeOK ==
  /\ home \in {"empty", "agent", "whole"}
  /\ other \in {"idle", "agent", "pins"}
  /\ rebuilds \in 0 .. MaxRebuilds

LEMMA TypeParts == TypeOK <=> RelayTypeOK /\ PruneTypeOK /\ RunTypeOK /\ HomeTypeOK
BY DEF TypeOK, RunTypeOK, HomeTypeOK

LEMMA TypedInit == Init => Typed
<1> SUFFICES ASSUME Init PROVE Typed
  OBVIOUS
<1>1. RelayTypeOK
  BY DEF Init, RelayInit, RelayTypeOK, Life, Stage, Handling
<1>2. PruneTypeOK
  BY DEF Init, PruneInit, PruneTypeOK
<1>3. RunTypeOK
  BY DEF Init, PruneInit, RunTypeOK, Attempts, Text, Result, NoResult, IdleRC, EmptyRC
<1>4. HomeTypeOK
  BY DEF Init, HomeTypeOK
<1>5. Steps
  BY DEF Init, Steps, Attempting
<1> QED BY <1>1, <1>2, <1>3, <1>4, <1>5, TypeParts DEF Typed

\* What the handlers, start() and stop() do to the relay.
RelayNext ==
  \/ \E c \in Conn : Connect(c) \/ Handler(c)
  \/ Bind \/ Started \/ StartCancelled \/ Stop \/ WaitEnds \/ WaitTimesOut \/ GatherEnds
  \/ CloseEnds \/ StopCancelled

LEMMA RelayTyped ==
  ASSUME RelayTypeOK, RelayNext
  PROVE  RelayTypeOK'
<1>1. ASSUME NEW c \in Conn, Connect(c) \/ Handler(c) PROVE RelayTypeOK'
  BY <1>1 DEF RelayTypeOK, Connect, Handler, Register, HangsUp, Forward, Answers, Completes,
       Fails, CallerGone, Flushed, Unwinds, Moves, Elsewhere, Recorded, Stage, Handling
<1>2. CASE Bind \/ Started \/ StartCancelled \/ Stop
  BY <1>2 DEF RelayTypeOK, Bind, Started, StartCancelled, Stop, Life, Tasks
<1>3. CASE WaitEnds \/ WaitTimesOut \/ GatherEnds \/ CloseEnds \/ StopCancelled
  BY <1>3 DEF RelayTypeOK, WaitEnds, WaitTimesOut, GatherEnds, CloseEnds, StopCancelled,
       CloseClient, Life
<1> QED BY <1>1, <1>2, <1>3 DEF RelayNext

\* Only opencode's start and end change it otherwise.
CallerOnly == caller' \in BOOLEAN /\ UNCHANGED <<life, listening, client, conn, turns,
                                                 served, waited, late, cancelled>>

LEMMA RelaySteps ==
  ASSUME [Next]_vars
  PROVE  RelayNext \/ CallerOnly \/ UNCHANGED relayVars
<1>1. CASE NoKey \/ StartsRelay \/ GoesDirect \/ RelayStarts \/ Wipes \/ WritesAgent
           \/ WritesPins \/ PrunesNpm
  BY <1>1 DEF NoKey, StartsRelay, GoesDirect, RelayStarts, Wipes, WritesAgent, WritesPins,
       PrunesNpm, RelayNext
<1>2. CASE Spawns \/ ExitsInError \/ Stalls \/ \E t \in Text, w \in {0, 2} : ExitsClean(t, w)
  BY <1>2 DEF Spawns, ExitsInError, Stalls, ExitsClean, Gone, CallerOnly
<1>3. CASE NotInstalled \/ Captures \/ \E r \in BOOLEAN : Recovers(r)
  BY <1>3 DEF NotInstalled, Captures, Recovers
<1>4. CASE Leaves \/ RelayStops \/ Reports
  BY <1>4 DEF Leaves, Leave, RelayStops, Reports, RelayNext
<1>5. CASE Cancel
  BY <1>5 DEF Cancel, CallerOnly, RelayNext, relayVars
<1>6. CASE Connections <= 1 /\ OtherRun
  BY <1>6 DEF OtherRun
<1>7. CASE Relaying
  BY <1>7 DEF Relaying, RelayNext
<1>8. CASE UNCHANGED relayVars
  BY <1>8
<1>9. CASE UNCHANGED vars
  BY <1>9 DEF vars
<1> QED
  BY <1>1, <1>2, <1>3, <1>4, <1>5, <1>6, <1>7, <1>8, <1>9 DEF Next, Run

\* What becomes of the sessions: another begins, or a hook goes on.
PruneNext ==
  \/ \E isCouncil \in BOOLEAN : SessionOf(isCouncil) /\ UNCHANGED <<pruner, doomed>>
  \/ \E p \in Pruner : Prune(p, caller)

LEMMA PruneSteps ==
  ASSUME [Next]_vars
  PROVE  PruneNext \/ UNCHANGED pruneVars
<1>1. CASE NoKey \/ StartsRelay \/ GoesDirect \/ RelayStarts \/ Wipes \/ WritesAgent
           \/ WritesPins \/ PrunesNpm
  BY <1>1 DEF NoKey, StartsRelay, GoesDirect, RelayStarts, Wipes, WritesAgent, WritesPins,
       PrunesNpm, Unasked
<1>2. CASE Spawns
  BY <1>2 DEF Spawns, PruneNext
<1>3. CASE ExitsInError \/ Stalls \/ \E t \in Text, w \in {0, 2} : ExitsClean(t, w)
  BY <1>3 DEF ExitsInError, Stalls, ExitsClean, Gone
<1>4. CASE NotInstalled \/ Captures \/ \E r \in BOOLEAN : Recovers(r)
  BY <1>4 DEF NotInstalled, Captures, Recovers
<1>5. CASE Leaves \/ RelayStops \/ Reports \/ Cancel \/ (Connections <= 1 /\ OtherRun)
  BY <1>5 DEF Leaves, RelayStops, Reports, Cancel, OtherRun
<1>6. CASE (\E p \in Pruner : Prune(p, caller)) \/ OtherSession
  BY <1>6 DEF PruneNext, OtherSession
<1>7. CASE UNCHANGED pruneVars
  BY <1>7
<1>8. CASE UNCHANGED vars
  BY <1>8 DEF vars
<1> QED
  BY <1>1, <1>2, <1>3, <1>4, <1>5, <1>6, <1>7, <1>8 DEF Next, Run

LEMMA PruneTyped ==
  ASSUME PruneTypeOK, PruneNext
  PROVE  PruneTypeOK'
<1>1. ASSUME NEW b \in BOOLEAN, SessionOf(b), UNCHANGED <<pruner, doomed>>
      PROVE  PruneTypeOK'
  <2>1. created' \in Nat /\ 1 .. created \subseteq 1 .. created' /\ created' \in 1 .. created'
    BY <1>1 DEF SessionOf, PruneTypeOK
  <2> QED BY <1>1, <2>1 DEF SessionOf, PruneTypeOK
<1>2. ASSUME NEW p \in Pruner, Prune(p, caller)
      PROVE  PruneTypeOK'
  <2>1. CASE PruneSelects(p)
    BY <2>1 DEF PruneSelects, At, PruneTypeOK, Oldest, Eligible, Costs
  <2>2. CASE PruneChecks(p, caller) \/ PruneDeletes(p) \/ PruneEnds(p)
    BY <2>2 DEF PruneChecks, PruneDeletes, PruneEnds, At, PruneTypeOK
  <2> QED BY <1>2, <2>1, <2>2 DEF Prune
<1> QED BY <1>1, <1>2 DEF PruneNext

\* Sessions are numbered on.
LEMMA CreatedGrows ==
  ASSUME PruneTypeOK, [Next]_vars
  PROVE  created \in Nat /\ created' \in Nat /\ created <= created'
<1>1. ASSUME NEW p \in Pruner, Prune(p, caller) PROVE created' = created
  BY <1>1 DEF Prune, PruneChecks, PruneSelects, PruneDeletes, PruneEnds
<1>2. ASSUME NEW b \in BOOLEAN, SessionOf(b) PROVE created' = created + 1
  BY <1>2 DEF SessionOf
<1> QED BY <1>1, <1>2, PruneSteps DEF PruneNext, PruneTypeOK, pruneVars

RunTyped == RunTypeOK /\ Steps

LEMMA RunStepTyped ==
  ASSUME Typed, [Next]_vars
  PROVE  RunTyped'
<1> USE TypeParts DEF Typed
<1>1. created \in Nat /\ created' \in Nat /\ created <= created'
  BY CreatedGrows
<1>2. 0 .. created \subseteq 0 .. created' /\ 1 .. created \subseteq 1 .. created'
  BY <1>1
<1>3. CASE NoKey \/ StartsRelay \/ GoesDirect \/ RelayStarts
  BY <1>2, <1>3 DEF NoKey, StartsRelay, GoesDirect, RelayStarts, Goes, Unasked,
       RunTyped, RunTypeOK, Steps, Attempting
<1>4. CASE Wipes \/ WritesAgent \/ WritesPins
  BY <1>2, <1>4 DEF Wipes, WritesAgent, WritesPins, Goes, Unasked, EndsAs, RunTyped,
       RunTypeOK, Steps, Attempting
<1>5. CASE PrunesNpm
  BY <1>2, <1>5 DEF PrunesNpm, Goes, Unasked, RunTyped, RunTypeOK, Steps, Attempting, Attempts
<1>6. CASE Spawns
  <2>1. created' = created + 1 /\ session' \in 1 .. created' /\ attempt' \in 0 .. Attempts
    BY <1>1, <1>6 DEF Spawns, SessionOf, Goes, RunTypeOK, Steps, Attempts
  <2>2. 1 .. created' \subseteq 0 .. created'
    BY <1>1
  <2> QED BY <1>6, <2>1, <2>2 DEF Spawns, Goes, RunTyped, RunTypeOK, Steps, Attempting
<1>7. CASE NotInstalled
  <2>1. attempt' \in 0 .. Attempts
    BY <1>7 DEF NotInstalled, Goes, RunTypeOK, Steps, Attempts
  <2>2. result' \in Result
    BY <1>7 DEF NotInstalled, Result, Text, RunTypeOK
  <2> QED BY <1>2, <1>7, <2>1, <2>2 DEF NotInstalled, Goes, EndsAs, RunTyped, RunTypeOK,
            Steps, Attempting
<1>8. ASSUME NEW t \in Text, NEW w \in {0, 2}, ExitsClean(t, w) PROVE RunTyped'
  <2>1. w \in Text
    BY DEF Text
  <2> QED BY <1>2, <1>8, <2>1 DEF ExitsClean, Gone, RunTyped, RunTypeOK, Steps, Attempting
<1>9. CASE ExitsInError \/ Stalls
  <2>1. result' \in Result /\ 0 \in Text
    BY <1>9 DEF ExitsInError, Stalls, Result, Text, IdleRC
  <2> QED BY <1>2, <1>9, <2>1 DEF ExitsInError, Stalls, Gone, RunTyped, RunTypeOK, Steps,
            Attempting
<1>10. ASSUME NEW r \in BOOLEAN, Recovers(r) PROVE RunTyped'
  <2>1. \A t \in Text : OfText(t) \in Result
    BY DEF OfText, Result, Text, EmptyRC
  <2>2. \A t, w \in Text : Longer(t, w) \in Text
    BY DEF Longer
  <2>3. result' \in Result
    BY <1>10, <2>1, <2>2 DEF Recovers, RunTypeOK
  <2> QED BY <1>2, <1>10, <2>3 DEF Recovers, Goes, RunTyped, RunTypeOK, Steps, Attempting
<1>11. CASE Captures
  <2>1. 0 \in Text
    BY DEF Text
  <2> QED BY <1>2, <1>11, <2>1 DEF Captures, EndsAs, RunTyped, RunTypeOK, Steps, Attempting
<1>12. CASE Leaves \/ RelayStops
  BY <1>2, <1>12 DEF Leaves, Leave, RelayStops, runVars, RunTyped, RunTypeOK, Steps, Attempting
<1>13. CASE Reports
  <2>1. turns \subseteq Conn
    BY DEF RelayTypeOK
  <2> QED BY <1>2, <1>13, <2>1 DEF Reports, Goes, RunTyped, RunTypeOK, Steps, Attempting
<1>14. CASE Cancel
  <2>1. cancels' \in 0 .. MaxCancels /\ 0 \in Text
    BY <1>14 DEF Cancel, RunTypeOK, Text
  <2>2. step' \in {"leaving", "over"}
    BY <1>14 DEF Cancel, Goes
  <2> QED BY <1>2, <1>14, <2>1, <2>2 DEF Cancel, EndsAs, RunTyped, RunTypeOK, Steps, Attempting
<1>15. CASE UNCHANGED runVars
  BY <1>2, <1>15 DEF runVars, RunTyped, RunTypeOK, Steps, Attempting
<1> QED
  BY <1>3, <1>4, <1>5, <1>6, <1>7, <1>8, <1>9, <1>10, <1>11, <1>12, <1>13, <1>14, <1>15
  DEF Next, Run, OtherRun, vars

\* The home is whole once this run has written it, or another run is at it;
\* and that one has written the agent it will want, unless this one wiped it.
HomeInv ==
  /\ step \in {"npm"} \cup Attempting => home = "whole" \/ other # "idle"
  /\ other = "pins" => home # "empty" \/ step = "agent"

HomeTyped == HomeTypeOK /\ HomeInv

LEMMA HomeSteps ==
  ASSUME Typed, HomeInv, [Next]_vars
  PROVE  HomeTyped'
<1> USE TypeParts DEF Typed, HomeTyped, HomeTypeOK, HomeInv, Attempting
<1>1. CASE Wipes \/ WritesAgent \/ WritesPins
  BY <1>1 DEF Wipes, WritesAgent, WritesPins, Goes, WithAgent
<1>2. CASE OtherRun
  BY <1>2 DEF OtherRun, OtherWipes, OtherWritesAgent, OtherWritesPins, WithAgent, runVars
<1>3. CASE NoKey \/ StartsRelay \/ GoesDirect \/ RelayStarts \/ PrunesNpm
  BY <1>3 DEF NoKey, StartsRelay, GoesDirect, RelayStarts, PrunesNpm, Goes, homeVars
<1>4. CASE Spawns \/ NotInstalled
  BY <1>4 DEF Spawns, NotInstalled, Goes, homeVars
<1>5. CASE ExitsInError \/ Stalls \/ \E t \in Text, w \in {0, 2} : ExitsClean(t, w)
  BY <1>5 DEF ExitsInError, Stalls, ExitsClean, Gone, homeVars
<1>6. CASE Captures \/ \E r \in BOOLEAN : Recovers(r)
  BY <1>6 DEF Captures, Recovers, Goes, homeVars
<1>7. CASE Leaves \/ RelayStops \/ Reports
  BY <1>7 DEF Leaves, Leave, RelayStops, Reports, Goes, homeVars, runVars
<1>8. CASE Cancel
  BY <1>8 DEF Cancel, Goes, homeVars
<1>9. CASE UNCHANGED <<runVars, homeVars>>
  BY <1>9 DEF runVars, homeVars
<1> QED
  BY <1>1, <1>2, <1>3, <1>4, <1>5, <1>6, <1>7, <1>8, <1>9 DEF Next, Run, vars

LEMMA TypedStep == ASSUME Typed, [Next]_vars PROVE RelayTypeOK' /\ PruneTypeOK' /\ RunTyped'
<1>1. RelayTypeOK'
  BY RelaySteps, RelayTyped, TypeParts DEF Typed, CallerOnly, RelayTypeOK, relayVars
<1>2. PruneTypeOK'
  BY PruneSteps, PruneTyped, TypeParts DEF Typed, PruneTypeOK, pruneVars
<1> QED BY <1>1, <1>2, RunStepTyped

-----------------------------------------------------------------------------
(* The sessions *)

\* Enough newer ones of the council.
Superseded(s) == s \in council /\ Cardinality(Newer(s, council)) >= Keep

\* What a hook has selected, it may delete whenever it gets to it.
PruneInv ==
  /\ \A p \in Pruner : \A s \in doomed[p] : Superseded(s)
  /\ \A s \in 1 .. created : s \notin stored => Superseded(s)

\* No step takes a session from the council.
LEMMA CouncilGrows == [Next]_vars => council \subseteq council'
<1> SUFFICES ASSUME [Next]_vars PROVE council \subseteq council'
  OBVIOUS
<1>1. ASSUME NEW p \in Pruner, Prune(p, caller) PROVE council' = council
  BY <1>1 DEF Prune, PruneChecks, PruneSelects, PruneDeletes, PruneEnds
<1>2. ASSUME NEW b \in BOOLEAN, SessionOf(b) PROVE council \subseteq council'
  BY <1>2 DEF SessionOf
<1> QED BY <1>1, <1>2, PruneSteps DEF PruneNext, pruneVars

\* No step leaves fewer newer ones.
LEMMA SupersededStays ==
  ASSUME PruneTypeOK, PruneTypeOK', [Next]_vars,
         NEW s \in 1 .. created, Superseded(s)
  PROVE  Superseded(s)'
<1>1. council \subseteq council'
  BY CouncilGrows
<1>2. created \in Nat /\ created' \in Nat /\ s \in Nat
  BY DEF PruneTypeOK
<1>3. council' \in SUBSET (1 .. created') /\ council \in SUBSET council'
      /\ council \in SUBSET (1 .. created)
  BY <1>1 DEF PruneTypeOK
<1>4. Cardinality(Newer(s, council)) <= Cardinality(Newer(s, council'))
  BY <1>2, <1>3, NewerGrows
<1>5. Cardinality(Newer(s, council)) \in Nat /\ Cardinality(Newer(s, council')) \in Nat
  BY <1>2, <1>3, NewerFinite
<1>6. Newer(s, council)' = Newer(s, council')
  BY DEF Newer
<1> QED BY <1>1, <1>4, <1>5, <1>6 DEF Superseded

\* The hook reads the sessions that are left; the council has as many or more.
LEMMA EligibleSuperseded ==
  ASSUME PruneTypeOK, NEW s \in Eligible(Costs)
  PROVE  Superseded(s)
<1>1. created \in Nat /\ council \in SUBSET (1 .. created) /\ Costs \in SUBSET council
  BY DEF PruneTypeOK, Costs
<1>2. s \in council /\ s \in Nat /\ Cardinality(Newer(s, Costs)) >= Keep
  BY <1>1 DEF Eligible
<1>3. Costs \in SUBSET (1 .. created)
  BY <1>1
<1>4. Cardinality(Newer(s, Costs)) <= Cardinality(Newer(s, council))
  BY <1>1, <1>2, NewerGrows
<1>5. Cardinality(Newer(s, Costs)) \in Nat /\ Cardinality(Newer(s, council)) \in Nat
  BY <1>1, <1>2, <1>3, NewerFinite
<1> QED BY <1>2, <1>4, <1>5 DEF Superseded

LEMMA PruneInductive ==
  ASSUME PruneTypeOK, PruneTypeOK', PruneInv, [Next]_vars
  PROVE  PruneInv'
<1>1. \A s \in 1 .. created : Superseded(s) => Superseded(s)'
  BY SupersededStays
<1>2. \A p \in Pruner : doomed[p] \subseteq 1 .. created
  BY DEF PruneTypeOK
<1>3. ASSUME NEW b \in BOOLEAN, SessionOf(b), UNCHANGED <<pruner, doomed>>
      PROVE  PruneInv'
  <2>1. \A s \in 1 .. created' : s \in 1 .. created \/ s = created + 1
    BY <1>3 DEF SessionOf, PruneTypeOK
  <2> QED BY <1>1, <1>2, <1>3, <2>1 DEF SessionOf, PruneInv
<1>4. ASSUME NEW p \in Pruner, Prune(p, caller) PROVE PruneInv'
  <2>1. CASE PruneSelects(p)
    <3>1. PICK D \in Oldest(Eligible(Costs)) : doomed' = [doomed EXCEPT ![p] = D]
      BY <2>1 DEF PruneSelects
    <3>2. \A s \in D : Superseded(s)
      BY <3>1, EligibleSuperseded DEF Oldest
    <3>3. D \subseteq 1 .. created
      BY <3>1 DEF Oldest, Eligible, Costs, PruneTypeOK
    <3>4. \A q \in Pruner : \A s \in doomed'[q] : Superseded(s) /\ s \in 1 .. created
      BY <1>2, <3>1, <3>2, <3>3 DEF PruneInv, PruneTypeOK
    <3> QED BY <1>1, <2>1, <3>4 DEF PruneSelects, PruneInv
  <2>2. CASE PruneDeletes(p) \/ PruneEnds(p)
    <3>1. \A q \in Pruner : doomed'[q] \subseteq doomed[q]
      BY <2>2 DEF PruneDeletes, PruneEnds, PruneTypeOK
    <3>2. \A s \in 1 .. created : s \notin stored' => Superseded(s)
      BY <2>2 DEF PruneDeletes, PruneEnds, PruneInv
    <3>3. created' = created
      BY <2>2 DEF PruneDeletes, PruneEnds
    <3> QED BY <1>1, <1>2, <3>1, <3>2, <3>3 DEF PruneInv
  <2>3. CASE PruneChecks(p, caller)
    BY <1>1, <1>2, <2>3 DEF PruneChecks, PruneInv
  <2> QED BY <1>4, <2>1, <2>2, <2>3 DEF Prune
<1>5. CASE UNCHANGED pruneVars
  BY <1>1, <1>2, <1>5 DEF pruneVars, PruneInv
<1> QED BY <1>3, <1>4, <1>5, PruneSteps DEF PruneNext

-----------------------------------------------------------------------------
(* The answer *)

\* The steps that leave a recovered answer where it is.
LEMMA AnswerSteps ==
  ASSUME Typed, RunTyped', [Next]_vars, exit' = "clean", read' = "done"
  PROVE  Recovers(TRUE) \/ (UNCHANGED runVars /\ exit = "clean" /\ read = "done")
<1> USE DEF Typed, RunTyped, Steps, Attempting
<1>1. CASE NoKey \/ StartsRelay \/ GoesDirect \/ RelayStarts \/ Wipes \/ WritesAgent
           \/ WritesPins \/ PrunesNpm
  BY <1>1 DEF NoKey, StartsRelay, GoesDirect, RelayStarts, Wipes, WritesAgent,
       WritesPins, PrunesNpm, Goes, Unasked
<1>2. CASE Spawns \/ NotInstalled
  BY <1>2 DEF Spawns, NotInstalled, Goes
<1>3. CASE ExitsInError \/ Stalls \/ \E t \in Text, w \in {0, 2} : ExitsClean(t, w)
  BY <1>3 DEF ExitsInError, Stalls, ExitsClean, Gone
<1>4. CASE Captures \/ Cancel
  BY <1>4 DEF Captures, Cancel
<1>5. CASE \E r \in BOOLEAN : Recovers(r)
  BY <1>5 DEF Recovers
<1>6. CASE Leaves \/ Reports
  BY <1>6 DEF Leaves, Reports, Goes
<1>7. CASE UNCHANGED runVars
  BY <1>7 DEF runVars
<1> QED
  BY <1>1, <1>2, <1>3, <1>4, <1>5, <1>6, <1>7 DEF Next, Run, RelayStops, OtherRun, vars

LEMMA AnswerInductive ==
  ASSUME Typed, PruneTypeOK', RunTyped', PruneInv, AnswerKept, [Next]_vars
  PROVE  AnswerKept'
<1> SUFFICES ASSUME exit' = "clean", read' = "done",
                    Cardinality(Newer(session', council')) < Keep
             PROVE  /\ result'.text >= said' /\ result'.text >= wrote'
                    /\ (result'.rc = 0) = (result'.text # 0)
  BY DEF AnswerKept, Newer
<1> USE TypeParts DEF Typed
<1>1. created \in Nat /\ council \in SUBSET (1 .. created)
  BY DEF PruneTypeOK
<1>2. CASE Recovers(TRUE)
  <2>1. council' = council /\ session' = session /\ session \in 1 .. created
        /\ said' = said /\ wrote' = wrote
    BY <1>2 DEF Recovers, Goes, Steps, pruneVars
  <2>2. session \in stored
    <3>1. session \in Nat
      BY <1>1, <2>1
    <3>2. Cardinality(Newer(session, council)) \in Nat
      BY <1>1, <3>1, NewerFinite
    <3>3. Cardinality(Newer(session, council)) < Keep
      BY <2>1
    <3>4. ~ Superseded(session)
      BY <3>2, <3>3 DEF Superseded
    <3> QED BY <2>1, <3>4 DEF PruneInv
  <2>3. result' = OfText(Longer(said, wrote))
    BY <1>2, <2>2 DEF Recovers
  <2>4. said \in Text /\ wrote \in Text
    BY DEF RunTypeOK
  <2>5. Longer(said, wrote) \in Text /\ Longer(said, wrote) >= said
        /\ Longer(said, wrote) >= wrote
    BY <2>4 DEF Longer, Text
  <2>6. result'.text = Longer(said, wrote)
        /\ result'.rc = IF Longer(said, wrote) = 0 THEN EmptyRC ELSE 0
    BY <2>3 DEF OfText
  <2>7. (result'.rc = 0) = (result'.text # 0)
    BY <2>5, <2>6 DEF EmptyRC, Text
  <2> QED BY <2>1, <2>5, <2>6, <2>7
<1>3. CASE UNCHANGED runVars /\ exit = "clean" /\ read = "done"
  <2>1. session' = session /\ said' = said /\ wrote' = wrote /\ result' = result
    BY <1>3 DEF runVars
  <2>2. session \in 1 .. created
    BY <1>3 DEF Steps
  <2>3. Cardinality(Newer(session, council)) < Keep
    <3>1. session \in Nat
      BY <1>1, <2>2
    <3>2. Cardinality(Newer(session, council)) \in Nat
      BY <1>1, <3>1, NewerFinite
    <3>3. created' \in Nat /\ council' \in SUBSET (1 .. created')
      BY DEF PruneTypeOK
    <3>4. Cardinality(Newer(session, council')) \in Nat
      BY <3>1, <3>3, NewerFinite
    <3>5. council \in SUBSET council'
      BY CouncilGrows
    <3>6. Cardinality(Newer(session, council)) <= Cardinality(Newer(session, council'))
      BY <3>1, <3>3, <3>5, NewerGrows
    <3> QED BY <2>1, <3>2, <3>4, <3>6
  <2> QED BY <1>3, <2>1, <2>3 DEF AnswerKept
<1> QED BY <1>2, <1>3, AnswerSteps

-----------------------------------------------------------------------------
(* The requests *)

Stopping == {"waiting", "gathering", "closing", "stopped"}

\* A request that was answered has its row when its handler gets to its last
\* step; and once stop() has begun, every handler is waited for, was there
\* before, or is late.
RelayInv ==
  /\ \A c \in served : conn[c] \in {"streaming", "flushing", "closed"}
  /\ \A c \in served : conn[c] # "streaming" => c \in turns
  /\ life \in Stopping => ~listening
  /\ life \in {"waiting", "gathering"} =>
       \A c \in Conn \ late : c \in waited \/ conn[c] \in {"new", "closed"}
  /\ life \in {"closing", "stopped"} => \A c \in Conn \ late : conn[c] \in {"new", "closed"}

LEMMA RelayInductive ==
  ASSUME RelayTypeOK, RelayInv, RelayNext
  PROVE  RelayInv'
<1> USE DEF RelayTypeOK, RelayInv, Stopping
<1>1. ASSUME NEW c \in Conn, Connect(c) PROVE RelayInv'
  BY <1>1 DEF Connect, Moves, Elsewhere
<1>2. ASSUME NEW c \in Conn, Register(c) \/ HangsUp(c) \/ Flushed(c) PROVE RelayInv'
  BY <1>2 DEF Register, HangsUp, Flushed, Moves, Elsewhere
<1>3. ASSUME NEW c \in Conn, Forward(c) PROVE RelayInv'
  BY <1>3 DEF Forward, Moves, Elsewhere, Recorded
<1>4. ASSUME NEW c \in Conn, Answers(c) PROVE RelayInv'
  BY <1>4 DEF Answers, Moves
<1>5. ASSUME NEW c \in Conn, Completes(c) \/ Fails(c) \/ CallerGone(c) PROVE RelayInv'
  BY <1>5 DEF Completes, Fails, CallerGone, Moves, Recorded
<1>6. ASSUME NEW c \in Conn, Unwinds(c) PROVE RelayInv'
  BY <1>6 DEF Unwinds, Moves, Recorded
<1>7. CASE Bind \/ Started \/ StartCancelled \/ CloseEnds \/ StopCancelled
  BY <1>7 DEF Bind, Started, StartCancelled, CloseEnds, StopCancelled
<1>8. CASE Stop
  <2>1. \A c \in Conn \ late' : c \in Tasks \/ conn[c] \in {"new", "closed"}
    BY <1>8 DEF Stop, Tasks, Stage, Handling
  <2> QED BY <1>8, <2>1 DEF Stop
<1>9. CASE WaitEnds \/ WaitTimesOut \/ GatherEnds
  BY <1>9 DEF WaitEnds, WaitTimesOut, GatherEnds, CloseClient, Ended
<1> QED
  BY <1>1, <1>2, <1>3, <1>4, <1>5, <1>6, <1>7, <1>8, <1>9 DEF RelayNext, Handler

\* Only then is the summary read.
LEMMA ReportSteps ==
  ASSUME [Next]_vars
  PROVE  Reports \/ (reported' = reported /\ (life' = "stopped" => life = "stopped"))
<1>1. CASE NoKey \/ StartsRelay \/ GoesDirect \/ RelayStarts \/ Wipes \/ WritesAgent
           \/ WritesPins \/ PrunesNpm
  BY <1>1 DEF NoKey, StartsRelay, GoesDirect, RelayStarts, Wipes, WritesAgent, WritesPins,
       PrunesNpm, Unasked, relayVars, Bind, Started
<1>2. CASE Spawns \/ NotInstalled
  BY <1>2 DEF Spawns, NotInstalled, relayVars
<1>3. CASE ExitsInError \/ Stalls \/ \E t \in Text, w \in {0, 2} : ExitsClean(t, w)
  BY <1>3 DEF ExitsInError, Stalls, ExitsClean, Gone
<1>4. CASE Captures \/ \E r \in BOOLEAN : Recovers(r)
  BY <1>4 DEF Captures, Recovers, relayVars
<1>5. CASE Leaves \/ RelayStops
  BY <1>5 DEF Leaves, Leave, RelayStops, Stop, WaitEnds, WaitTimesOut, GatherEnds,
       CloseClient, relayVars, runVars
<1>6. CASE Cancel
  BY <1>6 DEF Cancel, StartCancelled, StopCancelled, relayVars
<1>7. ASSUME NEW c \in Conn, Connect(c) \/ Handler(c) PROVE life' = life
  BY <1>7 DEF Connect, Handler, Register, HangsUp, Forward, Answers, Completes,
       Fails, CallerGone, Flushed, Unwinds, Moves, Elsewhere, Recorded
<1>8. CASE Relaying /\ UNCHANGED runVars
  BY <1>7, <1>8 DEF Relaying, runVars
<1>9. CASE UNCHANGED <<relayVars, runVars>>
  BY <1>9 DEF relayVars, runVars
<1> QED
  BY <1>1, <1>2, <1>3, <1>4, <1>5, <1>6, <1>8, <1>9 DEF Next, Run, OtherRun, vars

LEMMA AuditInductive ==
  ASSUME RelayTypeOK, RelayInv, Audited, [Next]_vars
  PROVE  RelayInv' /\ Audited'
<1>1. RelayInv'
  <2>1. CASE CallerOnly \/ UNCHANGED relayVars
    BY <2>1 DEF CallerOnly, relayVars, RelayInv
  <2> QED BY <2>1, RelaySteps, RelayInductive
<1>2. Audited'
  <2>1. CASE Reports
    BY <1>1, <2>1 DEF Reports, CloseEnds, RelayTypeOK, RelayInv, Audited, Stopping
  <2>2. ASSUME life = "stopped", life' = "stopped", reported' = reported PROVE Audited'
    <3>1. ASSUME NEW c \in Conn, Connect(c) \/ Handler(c) PROVE served' \ late' \subseteq reported
      BY <2>2, <3>1 DEF Connect, Handler, Register, HangsUp, Forward, Answers, Completes,
           Fails, CallerGone, Flushed, Unwinds, Moves, Elsewhere, Recorded, RelayTypeOK,
           RelayInv, Audited
    <3>2. CASE RelayNext
      BY <2>2, <3>1, <3>2 DEF RelayNext, Bind, Started, StartCancelled, Stop, WaitEnds,
           WaitTimesOut, GatherEnds, CloseEnds, StopCancelled, Audited
    <3>3. CASE CallerOnly \/ UNCHANGED relayVars
      BY <2>2, <3>3 DEF CallerOnly, relayVars, Audited
    <3> QED BY <3>2, <3>3, RelaySteps
  <2> QED BY <2>1, <2>2, ReportSteps DEF Audited
<1> QED BY <1>1, <1>2

-----------------------------------------------------------------------------
(* The theorems *)

IInv == Typed /\ HomeInv /\ PruneInv /\ AnswerKept /\ RelayInv /\ Audited

LEMMA InitInductive == Init => IInv
<1> SUFFICES ASSUME Init PROVE IInv
  OBVIOUS
<1>1. Typed
  BY TypedInit
<1>2. HomeInv /\ AnswerKept
  BY DEF Init, HomeInv, AnswerKept, Attempting
<1>3. PruneInv
  BY DEF Init, PruneInit, PruneInv
<1>4. RelayInv /\ Audited
  BY DEF Init, RelayInit, RelayInv, Audited, Stopping
<1> QED BY <1>1, <1>2, <1>3, <1>4 DEF IInv

LEMMA NextInductive == IInv /\ [Next]_vars => IInv'
<1> SUFFICES ASSUME IInv, [Next]_vars PROVE IInv'
  OBVIOUS
<1> USE DEF IInv
<1>1. RelayTypeOK' /\ PruneTypeOK' /\ RunTyped'
  BY TypedStep
<1>2. HomeTyped'
  BY HomeSteps
<1>3. Typed'
  BY <1>1, <1>2 DEF Typed, TypeOK, RunTyped, RunTypeOK, HomeTyped, HomeTypeOK
<1>4. RelayTypeOK /\ PruneTypeOK
  BY TypeParts DEF Typed
<1>5. PruneInv' /\ AnswerKept' /\ RelayInv' /\ Audited'
  BY <1>1, <1>4, PruneInductive, AnswerInductive, AuditInductive
<1> QED BY <1>2, <1>3, <1>5 DEF HomeTyped

\* The variables keep their types.
THEOREM TypeCorrect == Spec => []TypeOK
<1>1. IInv => TypeOK
  BY DEF IInv, Typed
<1> QED BY <1>1, InitInductive, NextInductive, PTL DEF Spec

\* The pruning hooks never take a session of the user's, or one of the newest
\* Keep of the council (prune_opencode_db.py:65-70), though what they selected
\* is stale when they delete it.
THEOREM SessionsSpared == Spec => []PruneSpares
<1>1. IInv => PruneSpares
  BY DEF IInv, PruneInv, Superseded, PruneSpares
<1> QED BY <1>1, InitInductive, NextInductive, PTL DEF Spec

\* An answer in the database is returned, if fewer than Keep newer sessions
\* of the council have begun (opencode.py:1064-1086).
THEOREM AnswerSurvives == Spec => []AnswerKept
<1>1. IInv => AnswerKept
  BY DEF IInv
<1> QED BY <1>1, InitInductive, NextInductive, PTL DEF Spec

\* The summary lacks no request that was served and whose handler had begun
\* when stop() did (openrouter_relay.py:231-233).
THEOREM RequestsAudited == Spec => []Audited
<1>1. IInv => Audited
  BY DEF IInv
<1> QED BY <1>1, InitInductive, NextInductive, PTL DEF Spec

\* opencode starts in a whole home, or one that another run is rebuilding
\* (opencode.py:448-471).
THEOREM HomeConfigured == Spec => StartsConfigured
<1>1. ASSUME IInv, [Next]_vars, step' = "running", step # "running"
      PROVE  home = "whole" \/ other # "idle"
  <2>1. step = "spawning"
    BY <1>1 DEF Next, Run, vars, NoKey, StartsRelay, GoesDirect, RelayStarts, Wipes,
         WritesAgent, WritesPins, PrunesNpm, Spawns, NotInstalled, ExitsInError, Stalls,
         ExitsClean, Gone, Recovers, Captures, Leaves, Leave, RelayStops, Reports, Cancel,
         OtherRun, Goes, runVars
  <2> QED BY <1>1, <2>1 DEF IInv, HomeInv, Attempting
<1>2. IInv /\ [Next]_vars
      => [step' = "running" /\ step # "running" => home = "whole" \/ other # "idle"]_vars
  BY <1>1
<1> QED BY <1>2, InitInductive, NextInductive, PTL DEF Spec, StartsConfigured

-----------------------------------------------------------------------------
(* The listener *)

\* It is open in start(), while the relay serves, and after a start() that was
\* cut short; only the second of them has a client, and run() is not left in it.
ListenInv ==
  /\ listening => life \in {"binding", "serving", "abandoned"}
  /\ (life = "binding") <=> (step = "starting")
  /\ step = "key" => life = "unbound"
  /\ life = "serving" => step \notin {"starting", "stopping", "over"}
  /\ life \in {"unbound", "binding"} \/ (life = "abandoned" /\ listening) => client = "none"

LEMMA ListenStep ==
  ASSUME ListenInv, [Next]_vars
  PROVE  ListenInv'
<1> USE DEF ListenInv
<1>1. CASE NoKey \/ StartsRelay \/ GoesDirect \/ RelayStarts \/ Wipes \/ WritesAgent
           \/ WritesPins \/ PrunesNpm
  BY <1>1 DEF NoKey, StartsRelay, GoesDirect, RelayStarts, Wipes, WritesAgent, WritesPins,
       PrunesNpm, Goes, Bind, Started, relayVars
<1>2. CASE Spawns \/ NotInstalled
  <2>1. /\ step = "spawning" /\ step' \in {"running", "leaving"}
        /\ UNCHANGED <<life, listening, client>>
    BY <1>2 DEF Spawns, NotInstalled, Goes, relayVars
  <2> QED BY <2>1
<1>3. CASE ExitsInError \/ Stalls \/ \E t \in Text, w \in {0, 2} : ExitsClean(t, w)
  BY <1>3 DEF ExitsInError, Stalls, ExitsClean, Gone
<1>4. CASE Captures \/ \E b \in BOOLEAN : Recovers(b)
  BY <1>4 DEF Captures, Recovers, Goes, relayVars
<1>5. CASE Leaves
  BY <1>5 DEF Leaves, Leave, Stop, relayVars
<1>6. CASE RelayStops
  BY <1>6 DEF RelayStops, WaitEnds, WaitTimesOut, GatherEnds, CloseClient, runVars
<1>7. CASE Reports
  BY <1>7 DEF Reports, Goes, CloseEnds
<1>8. CASE Cancel
  BY <1>8 DEF Cancel, Goes, StartCancelled, StopCancelled, relayVars
<1>9. ASSUME NEW c \in Conn, Connect(c) \/ Handler(c)
      PROVE  UNCHANGED <<life, listening, client>>
  BY <1>9 DEF Connect, Handler, Register, HangsUp, Forward, Answers, Completes,
       Fails, CallerGone, Flushed, Unwinds, Moves, Elsewhere, Recorded
<1>10. CASE Relaying /\ UNCHANGED runVars
  BY <1>9, <1>10 DEF Relaying, runVars
<1>11. CASE UNCHANGED <<relayVars, runVars>>
  BY <1>11 DEF relayVars, runVars
<1> QED
  BY <1>1, <1>2, <1>3, <1>4, <1>5, <1>6, <1>7, <1>8, <1>10, <1>11 DEF Next, Run, OtherRun, vars

\* What is true of the claim that the relay listens for the life of one run
\* (openrouter_relay.py:11): only a start() that is cancelled between the bind
\* and the client leaves a listener behind, whatever becomes of the run, of
\* its connections and of stop() (openrouter_relay.py:209-238).
THEOREM ListenerLeaks == Spec => []OnlyStartLeaks
<1>1. Init => ListenInv
  BY DEF Init, RelayInit, ListenInv
<1>2. ListenInv => OnlyStartLeaks
  BY DEF ListenInv, OnlyStartLeaks
<1> QED BY <1>1, <1>2, ListenStep, PTL DEF Spec
=============================================================================
