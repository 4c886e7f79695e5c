------------------------------ MODULE GeminiCli ------------------------------
(***************************************************************************)
(* One run of the Gemini CLI seat (GeminiCliAgent.run with                 *)
(* _spawn_and_collect, src/quorum/agents/gemini_cli.py): the preflight,    *)
(* up to four attempts of agy on one budget of time, the logs they leave   *)
(* behind, the private home with its copy of the login token, and what the *)
(* council is told.                                                        *)
(*                                                                         *)
(* Time is in seconds.  An action that ends a wait says how long the wait  *)
(* took; what runs between two awaits takes no time, and only there can    *)
(* the run be cancelled.  An attempt is known by its number, the text of   *)
(* its log by the one thing in it that the code looks for.  Other          *)
(* processes use the same login and rewrite the real token.  Neither that  *)
(* token nor the copy that agy may refresh is looked at between the        *)
(* staging of the home and its retirement, so both change there, in any    *)
(* order.  Tokens are numbered in the order in which they are issued.      *)
(***************************************************************************)
EXTENDS Integers, FiniteSets

CONSTANTS
  Cap,              \* AGENT_TIMEOUT_S of the council
  AttemptMax,       \* print timeout, grace, and the teardown of its group
  CrashWindow, CrashDelay,    \* AGY_STARTUP_CRASH_WINDOW_S, _RETRY_DELAY_S
  RefreshGate, RefreshDelay,  \* AGY_AUTH_REFRESH_RETRY_MAX_ELAPSED_S, _DELAY_S
  QuotaGate,        \* AGY_QUOTA_REFLEX_MAX_ELAPSED_S
  PreflightMax,     \* how long the version probe may take
  PreflightTimes, AttemptTimes,   \* how long they do take
  MaxTokens         \* bound: the tokens issued while this run is observed

ASSUME TimesAssumption ==
  /\ Cap \in Nat /\ AttemptMax \in Nat /\ PreflightMax \in Nat
  /\ CrashWindow \in Nat /\ CrashDelay \in Nat
  /\ RefreshGate \in Nat /\ RefreshDelay \in Nat /\ QuotaGate \in Nat
  /\ MaxTokens \in Nat \ {0}
  /\ PreflightTimes \subseteq 0 .. PreflightMax
  /\ AttemptTimes \subseteq 0 .. AttemptMax

\* The sums that the comment at gemini_cli.py:946-953 adds up, the version
\* probe included.
ASSUME BudgetAssumption ==
  /\ PreflightMax + CrashWindow + CrashDelay + AttemptMax <= Cap
  /\ RefreshGate + RefreshDelay + AttemptMax <= Cap
  /\ QuotaGate + AttemptMax <= Cap

VARIABLES
  pinned,     \* the model the seat was made with
  recorded,   \* it comes from the user's recorded choice
  stage,      \* the await the run is at
  phase,      \* why the attempt under way, or the last one, was made
  now,        \* seconds since run() was entered
  tries,      \* attempts made so far
  active,     \* active_log, by the attempt it was reserved for; 0 is None
  waiting,    \* the log of the attempt that is being repeated; 0 is None
  says,       \* what the log of each attempt shows
  pool,       \* the logs that are still in the transient pool
  kept,       \* keep_logs
  result,     \* what the seat will report
  ending,     \* how run() was left
  scratch,    \* what this run has put on the disk
  real, seed, mine,   \* the token in the real store, as copied in, in the home
  seen,       \* the real token as the retirement read it; -1 before that
  issued,     \* tokens issued so far (history)
  copyFailed  \* the token could not be written back (history)

who   == <<pinned, recorded>>
log   == <<tries, active, waiting, says, pool, kept>>
token == <<real, seed, mine, seen, issued, copyFailed>>
vars  == <<who, stage, phase, now, log, result, ending, scratch, token>>

Fallback == "opus"             \* AGY_QUOTA_FALLBACK_MODEL
Model    == {"gemini", Fallback}
Attempt  == 1 .. 4
Phase    == {"first", "afterCrash", "afterRefresh", "fallback"}

\* What _spawn_and_collect makes of an attempt.  Of the failures with code 1
\* and no output, "crash" is the bare generic error of agy, "quota" has it or
\* the explicit quota message among other text, "error" has neither.
FailedTurn == {"crash", "quota", "error"}
Shape == {"answer", "silent", "auth", "timeout", "nosandbox", "unspawned", "partial"} \cup FailedTurn

Reason == {"", "authentication", "timeout", "no output", "sandbox", "preflight",
           "network", "usage limit"}
OwnReason(shape) ==
  CASE shape = "auth"      -> "authentication"
    [] shape = "timeout"   -> "timeout"
    [] shape = "silent"    -> "no output"
    [] shape = "nosandbox" -> "sandbox"
    [] shape = "unspawned" -> "preflight"
    [] OTHER               -> ""

\* What a log can show after an attempt: the engine that was served, or why
\* there was no answer.  "none": no log was reserved, or it is not read yet.
LogText == {"none", "nothing", "asked", "other", "quota", "refresh", "cutoff"}
Texts(shape) ==
  CASE shape = "answer" -> {"nothing", "asked", "other"}
    [] shape = "silent" -> {"nothing", "cutoff"}
    [] shape = "auth"   -> {"nothing", "refresh"}
    [] shape \in {"nosandbox", "unspawned"} -> {"nothing"}
    [] OTHER            -> {"nothing", "quota"}

Result == [shape : Shape \cup {"none", "mismatch", "refused"}, reason : Reason,
           model : Model, labels : SUBSET {"swapped", "misrouted", "unverified"}]

TypeOK ==
  /\ pinned \in Model /\ recorded \in BOOLEAN
  /\ stage \in {"preflight", "attempt", "crashPause", "refreshPause", "reporting",
                "retiring", "replacing", "ended"}
  /\ phase \in Phase
  /\ now \in 0 .. Cap
  /\ tries \in 0 .. 4 /\ active \in 0 .. tries /\ waiting \in 0 .. tries
  /\ says \in [Attempt -> LogText]
  /\ pool \subseteq Attempt /\ kept \subseteq Attempt
  /\ result \in Result
  /\ ending \in {"none", "returned", "raised"}
  /\ scratch \subseteq {"home", "profile", "handoff"}
  /\ {real, seed, mine} \subseteq 0 .. MaxTokens
  /\ seen \in -1 .. MaxTokens
  /\ issued \in 0 .. MaxTokens
  /\ copyFailed \in BOOLEAN

Unreported == [shape |-> "none", reason |-> "", model |-> pinned, labels |-> {}]

\* The gates before the first await were passed: the sandbox is available and
\* the read-only configuration in place.
Init ==
  /\ pinned \in Model /\ recorded \in BOOLEAN
  /\ stage = "preflight" /\ phase = "first" /\ now = 0
  /\ tries = 0 /\ active = 0 /\ waiting = 0
  /\ says = [n \in Attempt |-> "none"]
  /\ pool = {} /\ kept = {}
  /\ result = Unreported /\ ending = "none" /\ scratch = {}
  /\ real \in {0, 1} /\ seed = 0 /\ mine = 0 /\ seen = -1
  /\ issued = 1 /\ copyFailed = FALSE

-----------------------------------------------------------------------------
(* The pieces of a step *)

\* The model agy is asked for (asked_model).
Asked == IF phase = "fallback" THEN Fallback ELSE pinned

\* _next_log and the attempt that gets the log; the reservation may fail.
Attempts(why, keeping) ==
  /\ tries' = tries + 1
  /\ \E reserved \in BOOLEAN :
       /\ active' = IF reserved THEN tries + 1 ELSE 0
       /\ pool' = (IF reserved THEN pool \cup {tries + 1} ELSE pool) \ keeping
  /\ kept' = kept \cup keeping
  /\ stage' = "attempt" /\ phase' = why

\* An attempt ends and its log is written.
Collects(shape, text, d) ==
  /\ stage = "attempt"
  /\ d \in AttemptTimes /\ (shape = "timeout" => d = AttemptMax)
  /\ now' = now + d
  /\ says' = IF active = 0 THEN says ELSE [says EXCEPT ![active] = text]
  /\ UNCHANGED token

\* The failed attempt that was repeated keeps its log, unless the repetition
\* answered with a log of its own.
Repeated(shape) == IF waiting # 0 /\ (shape # "answer" \/ active = 0) THEN {waiting} ELSE {}

\* _is_transient_startup_crash, asked once: the time is that of the attempt
\* alone.
StartupCrash(shape, d) == phase = "first" /\ shape = "crash" /\ d < CrashWindow

\* _should_retry_auth_refresh: the time is that of the whole run.  (Slip: of
\* the attempt.)
RefreshFailure(shape, text) == active # 0 /\ shape = "auth" /\ text = "refresh"
RetriesRefreshOf(shape, text, d) ==
  /\ phase \in {"first", "afterCrash"} /\ ~StartupCrash(shape, d)
  /\ RefreshFailure(shape, text) /\ d < RefreshGate
RetriesRefresh(shape, text, d) ==
  /\ phase \in {"first", "afterCrash"} /\ ~StartupCrash(shape, d)
  /\ RefreshFailure(shape, text) /\ now + d < RefreshGate

\* _should_quota_reflex, on the log of the attempt that failed.  (Slip: on
\* the log of any attempt of the run.)
QuotaReflexAny(shape, text, d) ==
  /\ phase # "fallback" /\ ~StartupCrash(shape, d)
  /\ shape \in {"crash", "quota"} /\ now + d < QuotaGate /\ pinned # Fallback
  /\ active # 0 /\ (text = "quota" \/ \E n \in Attempt : says[n] = "quota")
QuotaReflex(shape, text, d) ==
  /\ phase # "fallback" /\ ~StartupCrash(shape, d)
  /\ shape \in {"crash", "quota"} /\ now + d < QuotaGate /\ pinned # Fallback
  /\ active # 0 /\ text = "quota"

\* The finally blocks up to the retirement: the profiles and the logs that are
\* not kept are deleted; if the fallback is under way, the request handed to it
\* is, too.  (Slip: that one stays.)
LeavesHandoff(how) ==
  /\ stage' = "retiring" /\ ending' = how
  /\ pool' = {}
  /\ scratch' = scratch \ {"profile"}
Leaves(how) ==
  /\ stage' = "retiring" /\ ending' = how
  /\ pool' = {}
  /\ scratch' = scratch \ {"profile", "handoff"}

-----------------------------------------------------------------------------
(* Preflight *)

\* Not signed in, no agy, or no private home could be staged.
Refuse ==
  /\ stage = "preflight"
  /\ now' \in PreflightTimes
  /\ result' = [Unreported EXCEPT !.shape = "refused"]
  /\ stage' = "ended" /\ ending' = "returned"
  /\ UNCHANGED <<who, phase, log, scratch, token>>

\* The home is staged with a copy of the token, the profile is written, the
\* first attempt is spawned.  The login may be the legacy file: no token then.
Begin ==
  /\ stage = "preflight"
  /\ now' \in PreflightTimes
  /\ seed' = real /\ mine' = real
  /\ scratch' = {"home", "profile"}
  /\ Attempts("first", {})
  /\ UNCHANGED <<who, waiting, says, result, ending, real, seen, issued, copyFailed>>

\* The home is staged.  The profile cannot be built, or its file is made and
\* cannot be written: nothing removes that file.
ProfileFails ==
  /\ stage = "preflight"
  /\ now' \in PreflightTimes
  /\ seed' = real /\ mine' = real
  /\ scratch' \in {{"home"}, {"home", "profile"}}
  /\ stage' = "retiring" /\ ending' = "raised"
  /\ UNCHANGED <<who, phase, log, result, real, seen, issued, copyFailed>>

-----------------------------------------------------------------------------
(* The attempts *)

\* A crash at startup is repeated after a pause ...
CrashesAtStart(shape, text, d) ==
  /\ Collects(shape, text, d)
  /\ StartupCrash(shape, d)
  /\ stage' = "crashPause"
  /\ UNCHANGED <<who, phase, tries, active, waiting, pool, kept, result, ending, scratch>>

RetryAfterCrash ==
  /\ stage = "crashPause"
  /\ now' = now + CrashDelay
  /\ waiting' = active
  /\ Attempts("afterCrash", {})
  /\ UNCHANGED <<who, says, result, ending, scratch, token>>

\* ... and so is, once, a network failure of the token's refresh.
FailsRefresh(shape, text, d) ==
  /\ Collects(shape, text, d)
  /\ RetriesRefresh(shape, text, d)
  /\ kept' = kept \cup Repeated(shape) /\ pool' = pool \ Repeated(shape)
  /\ stage' = "refreshPause"
  /\ UNCHANGED <<who, phase, tries, active, waiting, result, ending, scratch>>

RetryAfterRefresh ==
  /\ stage = "refreshPause"
  /\ now' = now + RefreshDelay
  /\ waiting' = active
  /\ Attempts("afterRefresh", {})
  /\ UNCHANGED <<who, says, result, ending, scratch, token>>

\* The quota is exhausted: the request is handed to the fallback model.
FallsBack(shape, text, d) ==
  /\ Collects(shape, text, d)
  /\ QuotaReflex(shape, text, d)
  /\ Attempts("fallback", Repeated(shape) \cup {active})
  /\ waiting' = 0
  /\ scratch' = scratch \cup {"handoff"}
  /\ UNCHANGED <<who, result, ending>>

\* The request cannot be staged or the fallback's profile not be built.
HandoffFails(shape, text, d) ==
  /\ Collects(shape, text, d)
  /\ QuotaReflex(shape, text, d)
  /\ kept' = kept \cup Repeated(shape) \cup {active}
  /\ Leaves("raised")
  /\ UNCHANGED <<who, phase, tries, active, waiting, result>>

-----------------------------------------------------------------------------
(* The report *)

\* The routing check of an answer: it is labelled, or for a recorded choice
\* refused, unless the log names the engine that was asked for.  The fallback
\* is never refused.
Answered(text) ==
  LET routing == IF active = 0 \/ text = "nothing" THEN {"unverified"}
                 ELSE IF text = "other" THEN {"misrouted"} ELSE {}
      swap == IF phase = "fallback" THEN {"swapped"} ELSE {}
  IN IF routing = {"misrouted"} /\ recorded /\ Asked = pinned
     THEN [Unreported EXCEPT !.shape = "mismatch"]
     ELSE [shape |-> "answer", reason |-> "", model |-> Asked, labels |-> routing \cup swap]

\* A failure, with the reason the council sees.
Failed(shape, text) ==
  [shape  |-> shape,
   reason |-> IF phase = "fallback" THEN "usage limit"
              ELSE IF RefreshFailure(shape, text) THEN "network"
              ELSE OwnReason(shape),
   model  |-> Asked,
   labels |-> {}]

\* The log of the last attempt is kept unless it shows that all is well.
KeptAtEnd(shape, text) ==
  Repeated(shape) \cup IF active = 0 \/ (shape = "answer" /\ text = "asked") THEN {} ELSE {active}

\* No attempt follows.
Concludes(shape, text, d) ==
  /\ Collects(shape, text, d)
  /\ ~StartupCrash(shape, d) /\ ~RetriesRefresh(shape, text, d) /\ ~QuotaReflex(shape, text, d)
  /\ result' = IF shape = "answer" THEN Answered(text) ELSE Failed(shape, text)
  /\ kept' = kept \cup KeptAtEnd(shape, text)
  /\ pool' = pool \ KeptAtEnd(shape, text)
  /\ stage' = "reporting"
  /\ scratch' = scratch \ {"handoff"}
  /\ UNCHANGED <<who, phase, tries, active, waiting, ending>>

\* The last log is read once more for what explains a failure: agy's own
\* timeout, which it reports as an empty answer, and an exhausted quota.
ReadsLogAgain == active # 0 /\ result.shape \in {"silent", "unspawned"} \cup FailedTurn
Explained ==
  IF ~ReadsLogAgain THEN result
  ELSE IF result.shape = "silent" /\ says[active] = "cutoff"
  THEN [result EXCEPT !.shape = "timeout", !.reason = "timeout"]
  ELSE IF says[active] = "quota" /\ result.reason = ""
  THEN [result EXCEPT !.reason = "usage limit"]
  ELSE result

Return ==
  /\ stage = "reporting"
  /\ result' = Explained
  /\ Leaves("returned")
  /\ UNCHANGED <<who, phase, now, tries, active, waiting, says, kept, token>>

\* The job is cancelled, or the council's own timeout fires, at any await.
Cancelled ==
  /\ \/ stage \in {"preflight", "attempt", "crashPause", "refreshPause"}
     \/ stage = "reporting" /\ ReadsLogAgain
  /\ IF stage = "preflight"
     THEN stage' = "ended" /\ ending' = "raised" /\ UNCHANGED <<pool, scratch>>
     ELSE Leaves("raised")
  /\ UNCHANGED <<who, phase, now, tries, active, waiting, says, kept, result, token>>

-----------------------------------------------------------------------------
(* The retirement of the private home, and the others that use the login *)

ReadsRealToken ==
  /\ stage = "retiring"
  /\ seen' = real
  /\ stage' = "replacing"
  /\ UNCHANGED <<who, phase, now, log, result, ending, scratch, real, seed, mine, issued, copyFailed>>

\* agy has refreshed the token of its home in one of the attempts.
AgyRefreshed ==
  /\ stage = "retiring" /\ tries > 0 /\ seed # 0 /\ issued < MaxTokens
  /\ issued' = issued + 1 /\ mine' = issued + 1
  /\ UNCHANGED <<who, stage, phase, now, log, result, ending, scratch, real, seed, seen, copyFailed>>

\* The token agy refreshed is copied back if the real one was still the seed;
\* the home goes in either case.  (Slip: if the real one is what agy refreshed
\* already.)
CopiesBackSame == seed # 0 /\ mine # seed /\ seen = mine
CopiesBack == seed # 0 /\ mine # seed /\ seen = seed

Retire ==
  /\ stage = "replacing"
  /\ IF CopiesBack
     THEN \/ real' = mine /\ UNCHANGED copyFailed
          \/ copyFailed' = TRUE /\ UNCHANGED real
     ELSE UNCHANGED <<real, copyFailed>>
  /\ scratch' = scratch \ {"home"}
  /\ stage' = "ended"
  /\ UNCHANGED <<who, phase, now, log, result, ending, seed, mine, seen, issued>>

\* Another run copies its token back, or the user signs in or out.
OthersRewrite ==
  /\ stage \in {"retiring", "replacing"}
  /\ \/ real' = 0 /\ UNCHANGED issued
     \/ issued < MaxTokens /\ issued' = issued + 1 /\ real' = issued + 1
  /\ UNCHANGED <<who, stage, phase, now, log, result, ending, scratch, seed, mine, seen, copyFailed>>

Next ==
  \/ Refuse \/ Begin \/ ProfileFails
  \/ \E d \in AttemptTimes, shape \in Shape : \E text \in Texts(shape) :
       \/ CrashesAtStart(shape, text, d) \/ FailsRefresh(shape, text, d)
       \/ FallsBack(shape, text, d) \/ HandoffFails(shape, text, d)
       \/ Concludes(shape, text, d)
  \/ RetryAfterCrash \/ RetryAfterRefresh
  \/ Return \/ Cancelled
  \/ ReadsRealToken \/ AgyRefreshed \/ Retire
  \/ OthersRewrite

Spec == Init /\ [][Next]_vars

-----------------------------------------------------------------------------

\* No attempt is made that the council's own timeout would cut off, however
\* the repetitions follow each other: the seat always gets to report why it
\* failed (gemini_cli.py:941-953, 1014-1020, 1043-1051).
FitsCap == stage = "attempt" => now + AttemptMax <= Cap

\* The seat changes engines only on the evidence of the attempt it gives up,
\* and the log with that evidence is kept (gemini_cli.py:1898-1903, 1992-1997).
SwapsOnOwnEvidence ==
  phase = "fallback" =>
    /\ pinned # Fallback
    /\ says[tries - 1] = "quota" /\ tries - 1 \in kept

\* An answer that is reported without a label comes from the model the seat
\* was made with, by the log of the attempt that gave it, and a seat with a
\* recorded choice gives no other engine's answer for that model
\* (gemini_cli.py:2063-2136).
EngineNamed ==
  result.shape = "answer" =>
    /\ result.labels = {} => Asked = pinned /\ active = tries /\ says[tries] = "asked"
    /\ phase = "fallback" <=> "swapped" \in result.labels
    /\ recorded /\ phase # "fallback" => "misrouted" \notin result.labels

\* A run whose last attempt failed has kept the log of every attempt that had
\* one (gemini_cli.py:1912-1925, 2137-2143).
FailureLogged ==
  ending = "returned" /\ result.shape \in Shape \ {"answer"} =>
    {n \in 1 .. tries : says[n] # "none"} \subseteq kept

\* However a run ends, its private home with its copy of the login, the
\* request it handed over and its logs in the pool are gone, and so is its
\* profile once it has made an attempt (gemini_cli.py:1811-1813, 2202-2209).
\* What may stay is a profile that could not be written.
LeavesNothing ==
  stage = "ended" =>
    /\ pool = {}
    /\ scratch \subseteq {"profile"}
    /\ tries > 0 => scratch = {}

\* The profile is "removed once agy has exited (or failed to)"
\* (gemini_cli.py:1829-1830).  Not so when its own writing failed.
ProfileRemoved == stage = "ended" => "profile" \notin scratch

\* A refresh is not lost: once the run is over, the token that it replaced is
\* not the real one, unless writing it failed (gemini_cli.py:422-461).
RefreshKept ==
  stage = "ended" /\ seed # 0 /\ mine # seed => real # seed \/ copyFailed

\* A token that another run refreshed first is at least as new and stays
\* (gemini_cli.py:425-427).  Not so when it is written between the comparison
\* and the replacement.
NewerTokenStays == [][real' = 0 \/ real' >= real]_vars
=============================================================================
