--------------------------- MODULE GeminiCliProofs ---------------------------
(***************************************************************************)
(* Proofs about a run of the Gemini CLI seat.  The inductive invariant     *)
(* says how far the run is and by when every attempt must have started     *)
(* (Course), what its logs show (Fresh), when it reports (Unsaid), which   *)
(* logs are safe (Saved), what is on the disk (Disk) and how the tokens    *)
(* relate (Tokens).  Every action preserves each part, given the others.   *)
(***************************************************************************)
EXTENDS GeminiCli, TLAPS

Types ==
  /\ pinned \in Model /\ recorded \in BOOLEAN
  /\ stage \in {"preflight", "attempt", "crashPause", "refreshPause", "reporting",
                "retiring", "replacing", "ended"}
  /\ says \in [Attempt -> LogText]
  /\ pool \subseteq Attempt /\ kept \subseteq Attempt
  /\ result \in Result
  /\ ending \in {"none", "returned", "raised"}
  /\ scratch \subseteq {"home", "profile", "handoff"}
  /\ copyFailed \in BOOLEAN

\* The latest start of an attempt, by its reason.
StartBy(why) ==
  CASE why = "first"        -> PreflightMax
    [] why = "afterCrash"   -> PreflightMax + CrashWindow + CrashDelay
    [] why = "afterRefresh" -> RefreshGate + RefreshDelay
    [] OTHER                -> QuotaGate

\* How many attempts a run of which the last was made for this reason has made.
Triable(why) ==
  CASE why = "first"        -> {0, 1}
    [] why = "afterCrash"   -> {2}
    [] why = "afterRefresh" -> {2, 3}
    [] OTHER                -> {2, 3, 4}

Course ==
  /\ phase \in Phase
  /\ now \in 0 .. Cap
  /\ tries \in Triable(phase)
  /\ active \in {0, tries}
  /\ waiting \in 0 .. tries
  /\ stage = "preflight" => tries = 0 /\ now = 0 /\ phase = "first"
  /\ stage \in {"attempt", "crashPause", "refreshPause", "reporting"} => tries > 0
  /\ stage = "attempt" => now <= StartBy(phase)
  /\ stage = "crashPause" => phase = "first" /\ now <= PreflightMax + CrashWindow
  /\ stage = "refreshPause" =>
       phase \in {"first", "afterCrash"} /\ now <= RefreshGate /\ active # 0

\* The log of an attempt to come, or under way, shows nothing yet.
Fresh ==
  /\ \A n \in Attempt : n > tries => says[n] = "none"
  /\ active = 0 /\ tries > 0 => says[tries] = "none"
  /\ stage = "attempt" => says[tries] = "none"

\* Nothing is reported before the last attempt has ended.
Unsaid ==
  stage \in {"preflight", "attempt", "crashPause", "refreshPause"} => result.shape = "none"

\* The logs of the attempts before the last one are kept, or are about to be.
Saved ==
  /\ stage = "attempt" =>
       \A n \in Attempt : n < tries /\ says[n] # "none" => n \in kept \cup {waiting}
  /\ stage = "refreshPause" =>
       \A n \in Attempt : n < tries /\ says[n] # "none" => n \in kept
  /\ result.shape \in Shape \ {"answer"} =>
       \A n \in Attempt : says[n] # "none" => n \in kept

Disk ==
  /\ stage = "preflight" => scratch = {} /\ pool = {} /\ tries = 0
  /\ stage \in {"retiring", "replacing"} =>
       /\ pool = {}
       /\ scratch \subseteq {"home", "profile"}
       /\ tries > 0 => scratch \subseteq {"home"}
  /\ LeavesNothing

Tokens ==
  /\ issued \in 1 .. MaxTokens
  /\ real \in 0 .. issued /\ seed \in 0 .. issued /\ mine \in 0 .. issued
  /\ seen \in -1 .. issued
  /\ stage = "preflight" => seed = 0
  /\ stage = "replacing" /\ seed # 0 /\ seen # seed => real # seed
  /\ RefreshKept

IInv == Types /\ Course /\ Fresh /\ Unsaid /\ Saved /\ SwapsOnOwnEvidence /\ EngineNamed /\ Disk /\ Tokens

-----------------------------------------------------------------------------

LEMMA InitIInv == Init => IInv
<1> SUFFICES ASSUME Init PROVE IInv
  OBVIOUS
<1>1. Types
  BY DEF Init, Types, Unreported, Result, Reason, Model, Fallback, LogText
<1>2. Course
  BY TimesAssumption DEF Init, Course, Phase, Triable
<1>3. Fresh /\ Unsaid /\ Saved
  <2>1. result.shape = "none" /\ result.shape \notin Shape
    BY DEF Init, Unreported, Shape, FailedTurn
  <2>2. tries = 0 /\ stage = "preflight" /\ \A n \in Attempt : says[n] = "none"
    BY DEF Init
  <2> QED
    BY <2>1, <2>2 DEF Fresh, Unsaid, Saved
<1>4. SwapsOnOwnEvidence /\ EngineNamed
  BY DEF Init, Unreported, SwapsOnOwnEvidence, EngineNamed
<1>5. Disk /\ Tokens
  BY TimesAssumption DEF Init, Disk, LeavesNothing, Tokens, RefreshKept
<1> QED
  BY <1>1, <1>2, <1>3, <1>4, <1>5 DEF IInv

\* What a log can show is among the texts named.
LEMMA TextsAreLogTexts == ASSUME NEW shape \in Shape PROVE Texts(shape) \subseteq LogText
  BY DEF Texts, LogText, Shape, FailedTurn

\* What the routing check makes of an answer is a result, and an answer or a
\* mismatch.
LEMMA AnsweredResult ==
  ASSUME pinned \in Model, NEW text
  PROVE  Answered(text) \in Result /\ Answered(text).shape \in {"answer", "mismatch"}
<1>1. Unreported \in Result /\ Unreported.shape = "none"
  BY DEF Unreported, Result, Reason
<1>2. Asked \in Model
  BY DEF Asked, Model
<1> QED
  BY <1>1, <1>2 DEF Answered, Result, Reason, Shape

\* What becomes of a failure is a result of the same shape.
LEMMA FailedResult ==
  ASSUME pinned \in Model, NEW shape \in Shape, NEW text
  PROVE  Failed(shape, text) \in Result /\ Failed(shape, text).shape = shape
<1>1. OwnReason(shape) \in Reason
  BY DEF OwnReason, Reason
<1>2. Asked \in Model
  BY DEF Asked, Model
<1> QED
  BY <1>1, <1>2 DEF Failed, Result, Reason

\* The values of the run stay what they should be.
LEMMA TypesStep == IInv /\ [Next]_vars => Types'
<1> SUFFICES ASSUME IInv, [Next]_vars PROVE Types'
  OBVIOUS
<1>1. CASE Refuse
  BY <1>1 DEF IInv, Course, Types, Unreported, Result, Shape, FailedTurn, Reason, who, log,
         token, Refuse
<1>2. CASE Begin
  BY <1>2 DEF IInv, Course, Types, Attempts, Triable, Phase, Attempt, who, Begin
<1>3. CASE ProfileFails
  BY <1>3 DEF IInv, Course, Types, who, log, token, ProfileFails
<1>4. ASSUME NEW d \in AttemptTimes, NEW shape \in Shape, NEW text \in Texts(shape),
            CrashesAtStart(shape, text, d)
     PROVE  Types'
  BY <1>4, TextsAreLogTexts DEF IInv, Course, Types, Collects, StartupCrash, Triable,
         Phase, Attempt, Repeated, who, token, CrashesAtStart
<1>5. ASSUME NEW d \in AttemptTimes, NEW shape \in Shape, NEW text \in Texts(shape),
            FailsRefresh(shape, text, d)
     PROVE  Types'
  BY <1>5, TextsAreLogTexts DEF IInv, Course, Types, Collects, RetriesRefresh,
         RefreshFailure, Triable, Phase, Attempt, Repeated, who, token, FailsRefresh
<1>6. ASSUME NEW d \in AttemptTimes, NEW shape \in Shape, NEW text \in Texts(shape),
            FallsBack(shape, text, d)
     PROVE  Types'
  BY <1>6, TextsAreLogTexts DEF IInv, Course, Types, Collects, QuotaReflex, Attempts,
         Triable, Phase, Attempt, Repeated, who, token, FallsBack
<1>7. ASSUME NEW d \in AttemptTimes, NEW shape \in Shape, NEW text \in Texts(shape),
            HandoffFails(shape, text, d)
     PROVE  Types'
  BY <1>7, TextsAreLogTexts DEF IInv, Course, Types, Collects, QuotaReflex, Leaves,
         Triable, Phase, Attempt, Repeated, who, token, HandoffFails
<1>8. ASSUME NEW d \in AttemptTimes, NEW shape \in Shape, NEW text \in Texts(shape),
            Concludes(shape, text, d)
     PROVE  Types'
  <2>1. result' \in Result
    BY <1>8, AnsweredResult, FailedResult DEF IInv, Types, Concludes
  <2>2. KeptAtEnd(shape, text) \subseteq Attempt
    BY <1>8 DEF IInv, Course, Triable, Phase, Attempt, KeptAtEnd, Repeated, Collects, Concludes
  <2> QED
    BY <1>8, <2>1, <2>2, TextsAreLogTexts DEF IInv, Course, Types, Collects, Triable, Phase,
         Attempt, who, token, Concludes
<1>9. CASE RetryAfterCrash
  BY <1>9 DEF IInv, Course, Types, Attempts, Triable, Phase, Attempt, who, token,
         RetryAfterCrash
<1>10. CASE RetryAfterRefresh
  BY <1>10 DEF IInv, Course, Types, Attempts, Triable, Phase, Attempt, who, token,
         RetryAfterRefresh
<1>11. CASE Return
  BY <1>11 DEF IInv, Course, Types, Leaves, Explained, Result, Shape, FailedTurn, Reason,
         who, token, Return
<1>12. CASE Cancelled
  BY <1>12 DEF IInv, Course, Types, Leaves, who, log, token, Cancelled
<1>13. CASE ReadsRealToken
  BY <1>13 DEF IInv, Course, Types, who, log, token, ReadsRealToken
<1>14. CASE AgyRefreshed
  BY <1>14 DEF IInv, Course, Types, who, log, token, AgyRefreshed
<1>15. CASE Retire
  BY <1>15 DEF IInv, Course, Types, who, log, token, Retire
<1>16. CASE OthersRewrite
  BY <1>16 DEF IInv, Course, Types, who, log, token, OthersRewrite
<1>17. CASE UNCHANGED vars
  BY <1>17 DEF IInv, Course, Types, vars, who, log, token
<1> QED
  BY <1>1, <1>2, <1>3, <1>4, <1>5, <1>6, <1>7, <1>8, <1>9, <1>10, <1>11, <1>12, <1>13,
         <1>14, <1>15, <1>16, <1>17 DEF Next

\* Every attempt starts in time: what the pauses and the gates allow adds up.
LEMMA CourseStep == IInv /\ [Next]_vars => Course'
<1> SUFFICES ASSUME IInv, [Next]_vars PROVE Course'
  OBVIOUS
<1> USE TimesAssumption, BudgetAssumption
<1>1. CASE Refuse
  BY <1>1 DEF IInv, Course, Phase, Triable, StartBy, who, log, token, Refuse
<1>2. CASE Begin
  BY <1>2 DEF IInv, Course, Phase, Triable, StartBy, Attempts, who, log, token, Begin
<1>3. CASE ProfileFails
  BY <1>3 DEF IInv, Course, Phase, Triable, StartBy, who, log, token, ProfileFails
<1>4. ASSUME NEW d \in AttemptTimes, NEW shape \in Shape, NEW text \in Texts(shape),
            CrashesAtStart(shape, text, d)
     PROVE  Course'
  BY <1>4 DEF IInv, Course, Phase, Triable, StartBy, Collects, StartupCrash, who, log,
         token, CrashesAtStart
<1>5. ASSUME NEW d \in AttemptTimes, NEW shape \in Shape, NEW text \in Texts(shape),
            FailsRefresh(shape, text, d)
     PROVE  Course'
  BY <1>5 DEF IInv, Course, Phase, Triable, StartBy, Collects, RetriesRefresh,
         RefreshFailure, who, log, token, FailsRefresh
<1>6. ASSUME NEW d \in AttemptTimes, NEW shape \in Shape, NEW text \in Texts(shape),
            FallsBack(shape, text, d)
     PROVE  Course'
  BY <1>6 DEF IInv, Course, Phase, Triable, StartBy, Collects, QuotaReflex, Attempts, who,
         log, token, FallsBack
<1>7. ASSUME NEW d \in AttemptTimes, NEW shape \in Shape, NEW text \in Texts(shape),
            HandoffFails(shape, text, d)
     PROVE  Course'
  BY <1>7 DEF IInv, Course, Phase, Triable, StartBy, Collects, QuotaReflex, Leaves, who,
         log, token, HandoffFails
<1>8. ASSUME NEW d \in AttemptTimes, NEW shape \in Shape, NEW text \in Texts(shape),
            Concludes(shape, text, d)
     PROVE  Course'
  BY <1>8 DEF IInv, Course, Phase, Triable, StartBy, Collects, who, log, token, Concludes
<1>9. CASE RetryAfterCrash
  BY <1>9 DEF IInv, Course, Phase, Triable, StartBy, Attempts, who, log, token,
         RetryAfterCrash
<1>10. CASE RetryAfterRefresh
  BY <1>10 DEF IInv, Course, Phase, Triable, StartBy, Attempts, who, log, token,
         RetryAfterRefresh
<1>11. CASE Return
  BY <1>11 DEF IInv, Course, Phase, Triable, StartBy, Leaves, who, log, token, Return
<1>12. CASE Cancelled
  BY <1>12 DEF IInv, Course, Phase, Triable, StartBy, Leaves, who, log, token, Cancelled
<1>13. CASE ReadsRealToken
  BY <1>13 DEF IInv, Course, Phase, Triable, StartBy, who, log, token, ReadsRealToken
<1>14. CASE AgyRefreshed
  BY <1>14 DEF IInv, Course, Phase, Triable, StartBy, who, log, token, AgyRefreshed
<1>15. CASE Retire
  BY <1>15 DEF IInv, Course, Phase, Triable, StartBy, who, log, token, Retire
<1>16. CASE OthersRewrite
  BY <1>16 DEF IInv, Course, Phase, Triable, StartBy, who, log, token, OthersRewrite
<1>17. CASE UNCHANGED vars
  BY <1>17 DEF IInv, Course, Phase, Triable, StartBy, vars, who, log, token
<1> QED
  BY <1>1, <1>2, <1>3, <1>4, <1>5, <1>6, <1>7, <1>8, <1>9, <1>10, <1>11, <1>12, <1>13,
         <1>14, <1>15, <1>16, <1>17 DEF Next

\* Before the last attempt has ended there is no result.
LEMMA NothingReported ==
  IInv /\ stage \in {"preflight", "attempt", "crashPause", "refreshPause"} =>
    result.shape = "none" /\ result.shape \notin Shape
  BY DEF IInv, Unsaid, Shape, FailedTurn

\* A log shows something only once its attempt has ended.
LEMMA FreshStep == IInv /\ [Next]_vars => Fresh'
<1> SUFFICES ASSUME IInv, [Next]_vars PROVE Fresh'
  OBVIOUS
<1>1. CASE Refuse
  BY <1>1 DEF IInv, Types, Course, Triable, Phase, Attempt, Fresh, who, log, token, Refuse
<1>2. CASE Begin
  BY <1>2 DEF IInv, Types, Course, Triable, Phase, Attempt, Fresh, Attempts, who, log,
         token, Begin
<1>3. CASE ProfileFails
  BY <1>3 DEF IInv, Types, Course, Triable, Phase, Attempt, Fresh, who, log, token,
         ProfileFails
<1>4. ASSUME NEW d \in AttemptTimes, NEW shape \in Shape, NEW text \in Texts(shape),
            CrashesAtStart(shape, text, d)
     PROVE  Fresh'
  BY <1>4 DEF IInv, Types, Course, Triable, Phase, Attempt, Fresh, Collects, StartupCrash,
         who, log, token, CrashesAtStart
<1>5. ASSUME NEW d \in AttemptTimes, NEW shape \in Shape, NEW text \in Texts(shape),
            FailsRefresh(shape, text, d)
     PROVE  Fresh'
  BY <1>5 DEF IInv, Types, Course, Triable, Phase, Attempt, Fresh, Collects,
         RetriesRefresh, RefreshFailure, who, log, token, FailsRefresh
<1>6. ASSUME NEW d \in AttemptTimes, NEW shape \in Shape, NEW text \in Texts(shape),
            FallsBack(shape, text, d)
     PROVE  Fresh'
  BY <1>6 DEF IInv, Types, Course, Triable, Phase, Attempt, Fresh, Collects, QuotaReflex,
         Attempts, who, log, token, FallsBack
<1>7. ASSUME NEW d \in AttemptTimes, NEW shape \in Shape, NEW text \in Texts(shape),
            HandoffFails(shape, text, d)
     PROVE  Fresh'
  BY <1>7 DEF IInv, Types, Course, Triable, Phase, Attempt, Fresh, Collects, QuotaReflex,
         Leaves, who, log, token, HandoffFails
<1>8. ASSUME NEW d \in AttemptTimes, NEW shape \in Shape, NEW text \in Texts(shape),
            Concludes(shape, text, d)
     PROVE  Fresh'
  BY <1>8 DEF IInv, Types, Course, Triable, Phase, Attempt, Fresh, Collects, who, log,
         token, Concludes
<1>9. CASE RetryAfterCrash
  BY <1>9 DEF IInv, Types, Course, Triable, Phase, Attempt, Fresh, Attempts, who, log,
         token, RetryAfterCrash
<1>10. CASE RetryAfterRefresh
  BY <1>10 DEF IInv, Types, Course, Triable, Phase, Attempt, Fresh, Attempts, who, log,
         token, RetryAfterRefresh
<1>11. CASE Return
  BY <1>11 DEF IInv, Types, Course, Triable, Phase, Attempt, Fresh, Leaves, who, log,
         token, Return
<1>12. CASE Cancelled
  BY <1>12 DEF IInv, Types, Course, Triable, Phase, Attempt, Fresh, Leaves, who, log,
         token, Cancelled
<1>13. CASE ReadsRealToken
  BY <1>13 DEF IInv, Types, Course, Triable, Phase, Attempt, Fresh, who, log, token,
         ReadsRealToken
<1>14. CASE AgyRefreshed
  BY <1>14 DEF IInv, Types, Course, Triable, Phase, Attempt, Fresh, who, log, token,
         AgyRefreshed
<1>15. CASE Retire
  BY <1>15 DEF IInv, Types, Course, Triable, Phase, Attempt, Fresh, who, log, token, Retire
<1>16. CASE OthersRewrite
  BY <1>16 DEF IInv, Types, Course, Triable, Phase, Attempt, Fresh, who, log, token,
         OthersRewrite
<1>17. CASE UNCHANGED vars
  BY <1>17 DEF IInv, Types, Course, Triable, Phase, Attempt, Fresh, vars, who, log, token
<1> QED
  BY <1>1, <1>2, <1>3, <1>4, <1>5, <1>6, <1>7, <1>8, <1>9, <1>10, <1>11, <1>12, <1>13,
         <1>14, <1>15, <1>16, <1>17 DEF Next

\* The result comes with the end of the last attempt.
LEMMA UnsaidStep == IInv /\ [Next]_vars => Unsaid'
<1> SUFFICES ASSUME IInv, [Next]_vars PROVE Unsaid'
  OBVIOUS
<1>1. CASE Refuse
  BY <1>1 DEF IInv, Unsaid, who, log, token, Refuse
<1>2. CASE Begin
  BY <1>2 DEF IInv, Unsaid, Attempts, who, log, token, Begin
<1>3. CASE ProfileFails
  BY <1>3 DEF IInv, Unsaid, who, log, token, ProfileFails
<1>4. ASSUME NEW d \in AttemptTimes, NEW shape \in Shape, NEW text \in Texts(shape),
            CrashesAtStart(shape, text, d)
     PROVE  Unsaid'
  BY <1>4 DEF IInv, Unsaid, Collects, StartupCrash, who, log, token, CrashesAtStart
<1>5. ASSUME NEW d \in AttemptTimes, NEW shape \in Shape, NEW text \in Texts(shape),
            FailsRefresh(shape, text, d)
     PROVE  Unsaid'
  BY <1>5 DEF IInv, Unsaid, Collects, RetriesRefresh, RefreshFailure, who, log, token,
         FailsRefresh
<1>6. ASSUME NEW d \in AttemptTimes, NEW shape \in Shape, NEW text \in Texts(shape),
            FallsBack(shape, text, d)
     PROVE  Unsaid'
  BY <1>6 DEF IInv, Unsaid, Collects, QuotaReflex, Attempts, who, log, token, FallsBack
<1>7. ASSUME NEW d \in AttemptTimes, NEW shape \in Shape, NEW text \in Texts(shape),
            HandoffFails(shape, text, d)
     PROVE  Unsaid'
  BY <1>7 DEF IInv, Unsaid, Collects, QuotaReflex, Leaves, who, log, token, HandoffFails
<1>8. ASSUME NEW d \in AttemptTimes, NEW shape \in Shape, NEW text \in Texts(shape),
            Concludes(shape, text, d)
     PROVE  Unsaid'
  BY <1>8 DEF IInv, Unsaid, Collects, who, log, token, Concludes
<1>9. CASE RetryAfterCrash
  BY <1>9 DEF IInv, Unsaid, Attempts, who, log, token, RetryAfterCrash
<1>10. CASE RetryAfterRefresh
  BY <1>10 DEF IInv, Unsaid, Attempts, who, log, token, RetryAfterRefresh
<1>11. CASE Return
  BY <1>11 DEF IInv, Unsaid, Leaves, who, log, token, Return
<1>12. CASE Cancelled
  BY <1>12 DEF IInv, Unsaid, Leaves, who, log, token, Cancelled
<1>13. CASE ReadsRealToken
  BY <1>13 DEF IInv, Unsaid, who, log, token, ReadsRealToken
<1>14. CASE AgyRefreshed
  BY <1>14 DEF IInv, Unsaid, who, log, token, AgyRefreshed
<1>15. CASE Retire
  BY <1>15 DEF IInv, Unsaid, who, log, token, Retire
<1>16. CASE OthersRewrite
  BY <1>16 DEF IInv, Unsaid, who, log, token, OthersRewrite
<1>17. CASE UNCHANGED vars
  BY <1>17 DEF IInv, Unsaid, vars, who, log, token
<1> QED
  BY <1>1, <1>2, <1>3, <1>4, <1>5, <1>6, <1>7, <1>8, <1>9, <1>10, <1>11, <1>12, <1>13,
         <1>14, <1>15, <1>16, <1>17 DEF Next

\* The logs of the attempts before the last one are kept or about to be.
LEMMA SavedStep == IInv /\ [Next]_vars => Saved'
<1> SUFFICES ASSUME IInv, [Next]_vars PROVE Saved'
  OBVIOUS
<1>1. CASE Refuse
  BY <1>1 DEF IInv, Types, Course, Triable, Phase, Attempt, Fresh, Saved, Unreported,
         Shape, FailedTurn, who, log, token, Refuse
<1>2. CASE Begin
  BY <1>2, NothingReported DEF IInv, Types, Course, Triable, Phase, Attempt, Fresh, Saved,
         Attempts, who, log, token, Begin
<1>3. CASE ProfileFails
  BY <1>3, NothingReported DEF IInv, Types, Course, Triable, Phase, Attempt, Fresh, Saved,
         who, log, token, ProfileFails
<1>4. ASSUME NEW d \in AttemptTimes, NEW shape \in Shape, NEW text \in Texts(shape),
            CrashesAtStart(shape, text, d)
     PROVE  Saved'
  BY <1>4, NothingReported DEF IInv, Types, Course, Triable, Phase, Attempt, Fresh, Saved,
         Collects, StartupCrash, who, log, token, CrashesAtStart
<1>5. ASSUME NEW d \in AttemptTimes, NEW shape \in Shape, NEW text \in Texts(shape),
            FailsRefresh(shape, text, d)
     PROVE  Saved'
  BY <1>5, NothingReported DEF IInv, Types, Course, Triable, Phase, Attempt, Fresh, Saved,
         Collects, RetriesRefresh, RefreshFailure, Repeated, who, log, token, FailsRefresh
<1>6. ASSUME NEW d \in AttemptTimes, NEW shape \in Shape, NEW text \in Texts(shape),
            FallsBack(shape, text, d)
     PROVE  Saved'
  BY <1>6, NothingReported DEF IInv, Types, Course, Triable, Phase, Attempt, Fresh, Saved,
         Collects, QuotaReflex, Attempts, Repeated, who, log, token, FallsBack
<1>7. ASSUME NEW d \in AttemptTimes, NEW shape \in Shape, NEW text \in Texts(shape),
            HandoffFails(shape, text, d)
     PROVE  Saved'
  BY <1>7, NothingReported DEF IInv, Types, Course, Triable, Phase, Attempt, Fresh, Saved,
         Collects, QuotaReflex, Leaves, who, log, token, HandoffFails
<1>8. ASSUME NEW d \in AttemptTimes, NEW shape \in Shape, NEW text \in Texts(shape),
            Concludes(shape, text, d)
     PROVE  Saved'
  <2>1. result'.shape \in Shape \ {"answer"} => shape # "answer"
    BY <1>8, AnsweredResult DEF IInv, Types, Shape, FailedTurn, Concludes
  <2>2. ASSUME shape # "answer", NEW n \in Attempt, says'[n] # "none"
        PROVE  n \in kept'
    BY <1>8, <2>2 DEF IInv, Types, Course, Triable, Phase, Attempt, Fresh, Saved, Collects,
         KeptAtEnd, Repeated, Concludes
  <2> QED
    BY <1>8, <2>1, <2>2 DEF Saved, Concludes
<1>9. CASE RetryAfterCrash
  BY <1>9, NothingReported DEF IInv, Types, Course, Triable, Phase, Attempt, Fresh, Saved,
         Attempts, who, log, token, RetryAfterCrash
<1>10. CASE RetryAfterRefresh
  BY <1>10, NothingReported DEF IInv, Types, Course, Triable, Phase, Attempt, Fresh, Saved,
         Attempts, who, log, token, RetryAfterRefresh
<1>11. CASE Return
  BY <1>11 DEF IInv, Types, Course, Triable, Phase, Attempt, Fresh, Saved, Leaves,
         Explained, ReadsLogAgain, Shape, FailedTurn, who, log, token, Return
<1>12. CASE Cancelled
  BY <1>12 DEF IInv, Types, Course, Triable, Phase, Attempt, Fresh, Saved, Leaves, who,
         log, token, Cancelled
<1>13. CASE ReadsRealToken
  BY <1>13 DEF IInv, Types, Course, Triable, Phase, Attempt, Fresh, Saved, who, log, token,
         ReadsRealToken
<1>14. CASE AgyRefreshed
  BY <1>14 DEF IInv, Types, Course, Triable, Phase, Attempt, Fresh, Saved, who, log, token,
         AgyRefreshed
<1>15. CASE Retire
  BY <1>15 DEF IInv, Types, Course, Triable, Phase, Attempt, Fresh, Saved, who, log, token,
         Retire
<1>16. CASE OthersRewrite
  BY <1>16 DEF IInv, Types, Course, Triable, Phase, Attempt, Fresh, Saved, who, log, token,
         OthersRewrite
<1>17. CASE UNCHANGED vars
  BY <1>17 DEF IInv, Types, Course, Triable, Phase, Attempt, Fresh, Saved, vars, who, log,
         token
<1> QED
  BY <1>1, <1>2, <1>3, <1>4, <1>5, <1>6, <1>7, <1>8, <1>9, <1>10, <1>11, <1>12, <1>13,
         <1>14, <1>15, <1>16, <1>17 DEF Next

\* The evidence of a fallback stays where it is.
LEMMA SwapsStep == IInv /\ [Next]_vars => SwapsOnOwnEvidence'
<1> SUFFICES ASSUME IInv, [Next]_vars PROVE SwapsOnOwnEvidence'
  OBVIOUS
<1>1. CASE Refuse
  BY <1>1 DEF IInv, Types, Course, Triable, Phase, Attempt, SwapsOnOwnEvidence, who, log,
         token, Refuse
<1>2. CASE Begin
  BY <1>2 DEF IInv, Types, Course, Triable, Phase, Attempt, SwapsOnOwnEvidence, Attempts,
         who, log, token, Begin
<1>3. CASE ProfileFails
  BY <1>3 DEF IInv, Types, Course, Triable, Phase, Attempt, SwapsOnOwnEvidence, who, log,
         token, ProfileFails
<1>4. ASSUME NEW d \in AttemptTimes, NEW shape \in Shape, NEW text \in Texts(shape),
            CrashesAtStart(shape, text, d)
     PROVE  SwapsOnOwnEvidence'
  BY <1>4 DEF IInv, Types, Course, Triable, Phase, Attempt, SwapsOnOwnEvidence, Collects,
         StartupCrash, who, log, token, CrashesAtStart
<1>5. ASSUME NEW d \in AttemptTimes, NEW shape \in Shape, NEW text \in Texts(shape),
            FailsRefresh(shape, text, d)
     PROVE  SwapsOnOwnEvidence'
  BY <1>5 DEF IInv, Types, Course, Triable, Phase, Attempt, SwapsOnOwnEvidence, Collects,
         RetriesRefresh, RefreshFailure, who, log, token, FailsRefresh
<1>6. ASSUME NEW d \in AttemptTimes, NEW shape \in Shape, NEW text \in Texts(shape),
            FallsBack(shape, text, d)
     PROVE  SwapsOnOwnEvidence'
  BY <1>6 DEF IInv, Types, Course, Triable, Phase, Attempt, SwapsOnOwnEvidence, Collects,
         QuotaReflex, Attempts, Repeated, who, log, token, FallsBack
<1>7. ASSUME NEW d \in AttemptTimes, NEW shape \in Shape, NEW text \in Texts(shape),
            HandoffFails(shape, text, d)
     PROVE  SwapsOnOwnEvidence'
  BY <1>7 DEF IInv, Types, Course, Triable, Phase, Attempt, SwapsOnOwnEvidence, Collects,
         QuotaReflex, Leaves, who, log, token, HandoffFails
<1>8. ASSUME NEW d \in AttemptTimes, NEW shape \in Shape, NEW text \in Texts(shape),
            Concludes(shape, text, d)
     PROVE  SwapsOnOwnEvidence'
  BY <1>8 DEF IInv, Types, Course, Triable, Phase, Attempt, SwapsOnOwnEvidence, Collects,
         who, log, token, Concludes
<1>9. CASE RetryAfterCrash
  BY <1>9 DEF IInv, Types, Course, Triable, Phase, Attempt, SwapsOnOwnEvidence, Attempts,
         who, log, token, RetryAfterCrash
<1>10. CASE RetryAfterRefresh
  BY <1>10 DEF IInv, Types, Course, Triable, Phase, Attempt, SwapsOnOwnEvidence, Attempts,
         who, log, token, RetryAfterRefresh
<1>11. CASE Return
  BY <1>11 DEF IInv, Types, Course, Triable, Phase, Attempt, SwapsOnOwnEvidence, Leaves,
         who, log, token, Return
<1>12. CASE Cancelled
  BY <1>12 DEF IInv, Types, Course, Triable, Phase, Attempt, SwapsOnOwnEvidence, Leaves,
         who, log, token, Cancelled
<1>13. CASE ReadsRealToken
  BY <1>13 DEF IInv, Types, Course, Triable, Phase, Attempt, SwapsOnOwnEvidence, who, log,
         token, ReadsRealToken
<1>14. CASE AgyRefreshed
  BY <1>14 DEF IInv, Types, Course, Triable, Phase, Attempt, SwapsOnOwnEvidence, who, log,
         token, AgyRefreshed
<1>15. CASE Retire
  BY <1>15 DEF IInv, Types, Course, Triable, Phase, Attempt, SwapsOnOwnEvidence, who, log,
         token, Retire
<1>16. CASE OthersRewrite
  BY <1>16 DEF IInv, Types, Course, Triable, Phase, Attempt, SwapsOnOwnEvidence, who, log,
         token, OthersRewrite
<1>17. CASE UNCHANGED vars
  BY <1>17 DEF IInv, Types, Course, Triable, Phase, Attempt, SwapsOnOwnEvidence, vars, who,
         log, token
<1> QED
  BY <1>1, <1>2, <1>3, <1>4, <1>5, <1>6, <1>7, <1>8, <1>9, <1>10, <1>11, <1>12, <1>13,
         <1>14, <1>15, <1>16, <1>17 DEF Next

\* What is reported about the engine is what the last log says.
LEMMA EngineStep == IInv /\ [Next]_vars => EngineNamed'
<1> SUFFICES ASSUME IInv, [Next]_vars PROVE EngineNamed'
  OBVIOUS
<1>1. CASE Refuse
  BY <1>1 DEF IInv, Types, Course, EngineNamed, Asked, Unreported, who, log, token, Refuse
<1>2. CASE Begin
  BY <1>2, NothingReported DEF IInv, Types, Course, EngineNamed, Asked, Attempts, who, log,
         token, Begin
<1>3. CASE ProfileFails
  BY <1>3, NothingReported DEF IInv, Types, Course, EngineNamed, Asked, who, log, token,
         ProfileFails
<1>4. ASSUME NEW d \in AttemptTimes, NEW shape \in Shape, NEW text \in Texts(shape),
            CrashesAtStart(shape, text, d)
     PROVE  EngineNamed'
  BY <1>4, NothingReported DEF IInv, Types, Course, EngineNamed, Asked, Collects,
         StartupCrash, who, log, token, CrashesAtStart
<1>5. ASSUME NEW d \in AttemptTimes, NEW shape \in Shape, NEW text \in Texts(shape),
            FailsRefresh(shape, text, d)
     PROVE  EngineNamed'
  BY <1>5, NothingReported DEF IInv, Types, Course, EngineNamed, Asked, Collects,
         RetriesRefresh, RefreshFailure, who, log, token, FailsRefresh
<1>6. ASSUME NEW d \in AttemptTimes, NEW shape \in Shape, NEW text \in Texts(shape),
            FallsBack(shape, text, d)
     PROVE  EngineNamed'
  BY <1>6, NothingReported DEF IInv, Types, Course, EngineNamed, Asked, Collects,
         QuotaReflex, Attempts, who, log, token, FallsBack
<1>7. ASSUME NEW d \in AttemptTimes, NEW shape \in Shape, NEW text \in Texts(shape),
            HandoffFails(shape, text, d)
     PROVE  EngineNamed'
  BY <1>7, NothingReported DEF IInv, Types, Course, EngineNamed, Asked, Collects,
         QuotaReflex, Leaves, who, log, token, HandoffFails
<1>8. ASSUME NEW d \in AttemptTimes, NEW shape \in Shape, NEW text \in Texts(shape),
            Concludes(shape, text, d)
     PROVE  EngineNamed'
  <2>1. CASE shape # "answer"
    BY <1>8, <2>1, FailedResult DEF IInv, Types, EngineNamed, Concludes
  <2>2. CASE shape = "answer"
    <3>1. text \in {"nothing", "asked", "other"} /\ result' = Answered(text)
      BY <1>8, <2>2 DEF Texts, Concludes
    <3>2. active # 0 => active = tries /\ tries \in Attempt /\ says'[tries] = text
      BY <1>8 DEF IInv, Types, Course, Triable, Phase, Attempt, Collects, Concludes
    <3>3. active' = active /\ tries' = tries /\ phase' = phase /\ pinned' = pinned /\ recorded' = recorded
      BY <1>8 DEF who, Concludes
    <3>4. CASE active = 0 \/ text = "nothing"
      BY <3>1, <3>3, <3>4 DEF Answered, EngineNamed, Asked
    <3>5. CASE active # 0 /\ text = "other"
      BY <3>1, <3>3, <3>5 DEF Answered, EngineNamed, Asked, Unreported
    <3>6. CASE active # 0 /\ text = "asked"
      BY <3>1, <3>2, <3>3, <3>6 DEF Answered, EngineNamed, Asked
    <3> QED
      BY <3>1, <3>4, <3>5, <3>6
  <2> QED
    BY <2>1, <2>2
<1>9. CASE RetryAfterCrash
  BY <1>9, NothingReported DEF IInv, Types, Course, EngineNamed, Asked, Attempts, who, log,
         token, RetryAfterCrash
<1>10. CASE RetryAfterRefresh
  BY <1>10, NothingReported DEF IInv, Types, Course, EngineNamed, Asked, Attempts, who,
         log, token, RetryAfterRefresh
<1>11. CASE Return
  <2>1. result'.shape = "answer" => result.shape = "answer" /\ result' = result
    BY <1>11 DEF IInv, Types, Result, Explained, ReadsLogAgain, FailedTurn, Return
  <2> QED
    BY <1>11, <2>1 DEF IInv, EngineNamed, Asked, who, Return
<1>12. CASE Cancelled
  BY <1>12 DEF IInv, Types, Course, EngineNamed, Asked, Leaves, who, log, token, Cancelled
<1>13. CASE ReadsRealToken
  BY <1>13 DEF IInv, Types, Course, EngineNamed, Asked, who, log, token, ReadsRealToken
<1>14. CASE AgyRefreshed
  BY <1>14 DEF IInv, Types, Course, EngineNamed, Asked, who, log, token, AgyRefreshed
<1>15. CASE Retire
  BY <1>15 DEF IInv, Types, Course, EngineNamed, Asked, who, log, token, Retire
<1>16. CASE OthersRewrite
  BY <1>16 DEF IInv, Types, Course, EngineNamed, Asked, who, log, token, OthersRewrite
<1>17. CASE UNCHANGED vars
  BY <1>17 DEF IInv, Types, Course, EngineNamed, Asked, vars, who, log, token
<1> QED
  BY <1>1, <1>2, <1>3, <1>4, <1>5, <1>6, <1>7, <1>8, <1>9, <1>10, <1>11, <1>12, <1>13,
         <1>14, <1>15, <1>16, <1>17 DEF Next

\* What a run puts on the disk goes when it leaves.
LEMMA DiskStep == IInv /\ [Next]_vars => Disk'
<1> SUFFICES ASSUME IInv, [Next]_vars PROVE Disk'
  OBVIOUS
<1>1. CASE Refuse
  BY <1>1 DEF IInv, Types, Disk, LeavesNothing, who, log, token, Refuse
<1>2. CASE Begin
  BY <1>2 DEF IInv, Types, Disk, LeavesNothing, Attempts, who, log, token, Begin
<1>3. CASE ProfileFails
  BY <1>3 DEF IInv, Types, Disk, LeavesNothing, who, log, token, ProfileFails
<1>4. ASSUME NEW d \in AttemptTimes, NEW shape \in Shape, NEW text \in Texts(shape),
            CrashesAtStart(shape, text, d)
     PROVE  Disk'
  BY <1>4 DEF IInv, Types, Disk, LeavesNothing, Collects, StartupCrash, who, log, token, CrashesAtStart
<1>5. ASSUME NEW d \in AttemptTimes, NEW shape \in Shape, NEW text \in Texts(shape),
            FailsRefresh(shape, text, d)
     PROVE  Disk'
  BY <1>5 DEF IInv, Types, Disk, LeavesNothing, Collects, RetriesRefresh, RefreshFailure, who, log, token,
         FailsRefresh
<1>6. ASSUME NEW d \in AttemptTimes, NEW shape \in Shape, NEW text \in Texts(shape),
            FallsBack(shape, text, d)
     PROVE  Disk'
  BY <1>6 DEF IInv, Types, Disk, LeavesNothing, Collects, QuotaReflex, Attempts, who, log, token, FallsBack
<1>7. ASSUME NEW d \in AttemptTimes, NEW shape \in Shape, NEW text \in Texts(shape),
            HandoffFails(shape, text, d)
     PROVE  Disk'
  BY <1>7 DEF IInv, Types, Disk, LeavesNothing, Collects, QuotaReflex, Leaves, who, log, token,
         HandoffFails
<1>8. ASSUME NEW d \in AttemptTimes, NEW shape \in Shape, NEW text \in Texts(shape),
            Concludes(shape, text, d)
     PROVE  Disk'
  BY <1>8 DEF IInv, Types, Disk, LeavesNothing, Collects, who, log, token, Concludes
<1>9. CASE RetryAfterCrash
  BY <1>9 DEF IInv, Types, Disk, LeavesNothing, Attempts, who, log, token, RetryAfterCrash
<1>10. CASE RetryAfterRefresh
  BY <1>10 DEF IInv, Types, Disk, LeavesNothing, Attempts, who, log, token, RetryAfterRefresh
<1>11. CASE Return
  BY <1>11 DEF IInv, Types, Disk, LeavesNothing, Leaves, who, log, token, Return
<1>12. CASE Cancelled
  BY <1>12 DEF IInv, Types, Disk, LeavesNothing, Leaves, who, log, token, Cancelled
<1>13. CASE ReadsRealToken
  BY <1>13 DEF IInv, Types, Disk, LeavesNothing, who, log, token, ReadsRealToken
<1>14. CASE AgyRefreshed
  BY <1>14 DEF IInv, Types, Disk, LeavesNothing, who, log, token, AgyRefreshed
<1>15. CASE Retire
  BY <1>15 DEF IInv, Types, Disk, LeavesNothing, who, log, token, Retire
<1>16. CASE OthersRewrite
  BY <1>16 DEF IInv, Types, Disk, LeavesNothing, who, log, token, OthersRewrite
<1>17. CASE UNCHANGED vars
  BY <1>17 DEF IInv, Types, Disk, LeavesNothing, vars, who, log, token
<1> QED
  BY <1>1, <1>2, <1>3, <1>4, <1>5, <1>6, <1>7, <1>8, <1>9, <1>10, <1>11, <1>12, <1>13,
         <1>14, <1>15, <1>16, <1>17 DEF Next

\* The real token moves away from the seed for good.
LEMMA TokensStep == IInv /\ [Next]_vars => Tokens'
<1> SUFFICES ASSUME IInv, [Next]_vars PROVE Tokens'
  OBVIOUS
<1> USE TimesAssumption
<1>1. CASE Refuse
  BY <1>1 DEF IInv, Types, Tokens, RefreshKept, who, log, token, Refuse
<1>2. CASE Begin
  BY <1>2 DEF IInv, Types, Tokens, RefreshKept, Attempts, who, log, token, Begin
<1>3. CASE ProfileFails
  BY <1>3 DEF IInv, Types, Tokens, RefreshKept, who, log, token, ProfileFails
<1>4. ASSUME NEW d \in AttemptTimes, NEW shape \in Shape, NEW text \in Texts(shape),
            CrashesAtStart(shape, text, d)
     PROVE  Tokens'
  BY <1>4 DEF IInv, Types, Tokens, RefreshKept, Collects, StartupCrash, who, log, token,
         CrashesAtStart
<1>5. ASSUME NEW d \in AttemptTimes, NEW shape \in Shape, NEW text \in Texts(shape),
            FailsRefresh(shape, text, d)
     PROVE  Tokens'
  BY <1>5 DEF IInv, Types, Tokens, RefreshKept, Collects, RetriesRefresh, RefreshFailure,
         who, log, token, FailsRefresh
<1>6. ASSUME NEW d \in AttemptTimes, NEW shape \in Shape, NEW text \in Texts(shape),
            FallsBack(shape, text, d)
     PROVE  Tokens'
  BY <1>6 DEF IInv, Types, Tokens, RefreshKept, Collects, QuotaReflex, Attempts, who, log,
         token, FallsBack
<1>7. ASSUME NEW d \in AttemptTimes, NEW shape \in Shape, NEW text \in Texts(shape),
            HandoffFails(shape, text, d)
     PROVE  Tokens'
  BY <1>7 DEF IInv, Types, Tokens, RefreshKept, Collects, QuotaReflex, Leaves, who, log,
         token, HandoffFails
<1>8. ASSUME NEW d \in AttemptTimes, NEW shape \in Shape, NEW text \in Texts(shape),
            Concludes(shape, text, d)
     PROVE  Tokens'
  BY <1>8 DEF IInv, Types, Tokens, RefreshKept, Collects, who, log, token, Concludes
<1>9. CASE RetryAfterCrash
  BY <1>9 DEF IInv, Types, Tokens, RefreshKept, Attempts, who, log, token, RetryAfterCrash
<1>10. CASE RetryAfterRefresh
  BY <1>10 DEF IInv, Types, Tokens, RefreshKept, Attempts, who, log, token,
         RetryAfterRefresh
<1>11. CASE Return
  BY <1>11 DEF IInv, Types, Tokens, RefreshKept, Leaves, who, log, token, Return
<1>12. CASE Cancelled
  BY <1>12 DEF IInv, Types, Tokens, RefreshKept, Leaves, who, log, token, Cancelled
<1>13. CASE ReadsRealToken
  BY <1>13 DEF IInv, Types, Tokens, RefreshKept, who, log, token, ReadsRealToken
<1>14. CASE AgyRefreshed
  BY <1>14 DEF IInv, Types, Tokens, RefreshKept, who, log, token, AgyRefreshed
<1>15. CASE Retire
  BY <1>15 DEF IInv, Types, Tokens, RefreshKept, CopiesBack, who, log, Retire
<1>16. CASE OthersRewrite
  BY <1>16 DEF IInv, Types, Tokens, RefreshKept, who, log, token, OthersRewrite
<1>17. CASE UNCHANGED vars
  BY <1>17 DEF IInv, Types, Tokens, RefreshKept, vars, who, log, token
<1> QED
  BY <1>1, <1>2, <1>3, <1>4, <1>5, <1>6, <1>7, <1>8, <1>9, <1>10, <1>11, <1>12, <1>13,
         <1>14, <1>15, <1>16, <1>17 DEF Next

-----------------------------------------------------------------------------

THEOREM Inductive == Spec => []IInv
<1>1. IInv /\ [Next]_vars => IInv'
  BY TypesStep, CourseStep, FreshStep, UnsaidStep, SavedStep, SwapsStep, EngineStep,
     DiskStep, TokensStep DEF IInv
<1> QED
  BY InitIInv, <1>1, PTL DEF Spec

\* The state keeps its type: at most four attempts, whatever the order of the
\* failures (gemini_cli.py:1876-2041).
THEOREM TypeCorrect == Spec => []TypeOK
<1>1. Course => now \in 0 .. Cap /\ tries \in 0 .. 4 /\ active \in 0 .. tries /\ waiting \in 0 .. tries
  BY DEF Course, Triable, Phase
<1>2. Tokens => {real, seed, mine} \subseteq 0 .. MaxTokens /\ seen \in -1 .. MaxTokens
                  /\ issued \in 0 .. MaxTokens
  BY TimesAssumption DEF Tokens
<1>3. IInv => TypeOK
  BY <1>1, <1>2 DEF IInv, Types, Course, TypeOK
<1> QED
  BY Inductive, <1>3, PTL

\* Every attempt ends before the council's own timeout, for any numbers whose
\* sums fit it (gemini_cli.py:941-953).
THEOREM AttemptsFit == Spec => []FitsCap
<1>1. IInv => FitsCap
  BY TimesAssumption, BudgetAssumption DEF IInv, Course, Phase, StartBy, FitsCap
<1> QED
  BY Inductive, <1>1, PTL

\* The seat changes engines only on the evidence of the attempt it gives up
\* (gemini_cli.py:1992-1997).
THEOREM SwapsJustified == Spec => []SwapsOnOwnEvidence
<1>1. IInv => SwapsOnOwnEvidence
  BY DEF IInv
<1> QED
  BY Inductive, <1>1, PTL

\* No other engine's answer is reported as the seat's own
\* (gemini_cli.py:2063-2136).
THEOREM EngineAlwaysNamed == Spec => []EngineNamed
<1>1. IInv => EngineNamed
  BY DEF IInv
<1> QED
  BY Inductive, <1>1, PTL

\* The report of a failure comes with the log of every attempt
\* (gemini_cli.py:1912-1925, 2137-2143).
THEOREM FailuresLogged == Spec => []FailureLogged
<1>1. IInv => FailureLogged
  BY DEF IInv, Course, Triable, Phase, Attempt, Saved, FailureLogged
<1> QED
  BY Inductive, <1>1, PTL

\* A run leaves no home with the login, no request handed over and no log in
\* the pool behind, and no profile but one that could not be written, after
\* which it makes no attempt (gemini_cli.py:1831-1849, 2202-2209).
THEOREM NothingStays == Spec => []LeavesNothing
<1>1. IInv => LeavesNothing
  BY DEF IInv, Disk, LeavesNothing
<1> QED
  BY Inductive, <1>1, PTL

\* The token that a refresh replaced does not stay the real one, whatever other
\* runs do in the meantime (gemini_cli.py:422-461).
THEOREM RefreshesKept == Spec => []RefreshKept
<1>1. IInv => RefreshKept
  BY DEF IInv, Tokens
<1> QED
  BY Inductive, <1>1, PTL
=============================================================================
