# Verification of code-quorum

code-quorum asks several coding agents ("seats") the same question, lets them
read and revise each other's answers over a few rounds, and hands the answers
to the host that asked.  This directory models the parts of it where the order
of things matters: jobs that outlive the request that started them, process
trees that must die with their run, files that two processes share, retries
that must fit one budget of time, rounds that must show the right answers to
the right seats.  The modules are checked with TLC on small instances, and
their safety properties are proved with TLAPS for every value of the constants.

Paths in this document are relative to the repository.  `PROJECT.json` maps
each definition to the lines it models.

## 1. The system

### Parts, their state and how they interact

| Part | Source | State it keeps | Operations |
|---|---|---|---|
| MCP server | `quorum_mcp/server.py` | none of its own | the `q_*_start` tools build a council coroutine and call `start_job`; `q_await` calls `await_job` |
| Job registry | `quorum_mcp/jobs.py` | `_jobs` (task, `claimed`, `created_at`), `_reaper_task`, `_drain_tasks` | `start_job`, `await_job`, the reaper, the drainers |
| Stop hook | `scripts/unawaited_job_stop_hook.py` | none; reads the host's transcript | blocks a turn that would leave a job uncollected |
| Review targets | `quorum/orchestration.py` | none | asks git or gh for the diff under review, says what the tree is |
| Seat selection | `quorum/orchestration.py`, `hosts.py` | none | picks seats, skips those that cannot run |
| Council | `quorum/council.py`, `roles.py` | rounds so far, active seats, stances | asks all active seats in parallel, drops the failed ones, rotates stances, prompts the next round |
| Seats | `quorum/agents/{claude,codex,gemini_cli,gemini,opencode}.py` | per run: private homes, profiles, logs | one `run()` per turn, each a subprocess with its own retries |
| Containment | `quorum/agents/base.py` | `_LIVE_PGIDS`, per run: captured descendants, a monitor | spawn, watch, tear down a process tree |
| Seat helper | `quorum/agents/seat_helper.py` | a spool of four directories and `helper.json` | a sandboxed host submits, a helper process outside claims, runs, answers |
| OpenRouter relay | `quorum/agents/openrouter_relay.py` | the tasks of its connections, a row per request | a listener for one run of the OpenCode seat; forwards its requests, records who served them |
| OpenCode sandbox home and database | `quorum/agents/opencode.py`, `scripts/prune_opencode_db.py` | a home shared by all runs, a database shared with the user | a run rebuilds the home and reads its answer from the database; a session hook prunes it |
| Research | `quorum/research.py` | the next free polite slot, a refusal marker on disk | lanes of queries against scholarly and code APIs, one bounded retry each, a verdict |
| Context | `quorum/context.py` | none | runs git and gh under timeouts, gathers repository context |
| Model choices | `quorum/model_config.py`, `setup_models.py` | one JSON file | precedence, probing, recording |
| Codex update | `quorum/codex_update.py`, `seat_helper.py` | the installation: checkout, environment, plugin, LaunchAgent | ten commands that bring a release and restart the helper |
| Maintenance | `scripts/*` | none | reaping stale servers, release files |

A `q_*_start` request registers a task that runs the council.  The council
awaits its seats with a hard timeout each; a seat runs its subprocess under
containment.  A client that goes away cancels its `q_await` request; that
cancels the job's task, which cancels the seats, which tear down their
processes.  So one cancellation passes through three of the modelled parts, and
each has its own way of being late, doubled or swallowed.  A host whose sandbox
cannot start subprocesses reaches its seats through the seat helper's spool
instead, where the only means of cancellation is a marker file.

### What is hard, and what makes each part correct

* **Job registry.**  One event loop, but every await is a point where the
  reaper, a second `q_await`, a disconnect and the task's own end may come in
  any order.  Correct: one taker per job, no work out of reach, entries neither
  dropped early nor kept late, an honest reason for a loss, every await resolves.
* **Stop hook.**  It judges a server it cannot see by a transcript and a copied
  constant.  Correct: a turn it clears leaves nothing behind; a job whose start
  the transcript dates does not hold up turns for ever, even when the server
  restarted and lost it.
* **Seat helper.**  Two kinds of process and a file system between them; either
  may die, and two helpers overlap while one is replaced.  Correct: a request
  runs at most once, a withdrawn request is not picked up, a marked run stops,
  nothing piles up.
* **Council.**  State that is read after it was rotated or after a seat was
  dropped.  Correct: an answer carries the stance that produced it, everybody
  sees the same answers, nobody who failed comes back, compressed answers are
  never context, rotation deals every stance once, a hung seat hangs nobody.
* **Containment.**  A cleanup with four awaits that may itself be cancelled,
  against processes that fork, leave the group, exit and have their pids reused.
  Correct: no process of the group survives, no stranger is killed, escapees are
  caught where that is possible, the cleanup ends.
* **Gemini CLI seat.**  Up to four attempts with three reasons to repeat, each
  gated on elapsed time and on a log; a private home with a copy of a login
  token that several processes refresh.  Correct: every attempt fits the
  council's timeout, an answer's engine is named, failures leave their log,
  no copy of the login is left, a refresh is not lost.
* **OpenCode seat, relay and pruning.**  One run with a server of its own in the
  same loop, a home that other runs rewrite, and a database that a hook may prune
  as soon as opencode is gone.  Correct: every request that was under way is in
  the summary, the run ends although the upstream never does, opencode starts in
  a configured home, the answer survives the pruning, the user's sessions stay.
* **Research.**  Sources that fail in four ways at the same time and share one
  queue of polite slots; a verdict that weighs all of it.  Correct: retries are
  spaced and bounded, an empty row hides no failed sub-query, a verdict that lets the
  caller go on has a paper behind it.
* **Context.**  Two tasks whose every command may hang, and a cancellation that may
  come twice, also while the child of the first is still being reaped.  Correct:
  no cancellation is lost, no command and no reaper runs on, the gathering ends.
* **Review targets.**  Up to nine commands in a row, any of which may fail, about a
  tree and a change that move in between.  Correct: a failed diff never reads as "no
  changes", new files that were listed are named, and a seat that is told nothing about the tree
  finds the diffed change in it.
* **Codex update.**  Ten commands of which each may fail, run again from the start
  by an update that may itself be of a newer release, while releases come out.
  Correct: the installation catches up, an update that reports success left one
  release everywhere, and the user's allowed roots survive where a helper can be
  asked for them.
* **Others.**  `record_choice` as an unlocked read-modify-replace, a reaper that
  acts on a stale listing.  These are planned (section 8).

`PROJECT.json` lists the components, modelled or not, and every hazard at its
line.

## 2. Modules

```
JobContract      <-implements-  Jobs  <-extends-  StopHook  <-extends-  JobsProofs
SpoolContract    <-implements-  SeatHelper
CouncilContract  <-implements-  Council

OpenRouterRelay  PruneOpencodeDb
        \           /
          OpenCode  <-extends-  OpenCodeProofs

Commands  <-extends-  Gather  <-extends-  GatherProofs
    ^------extends-   Review

SeatHelper  CodexUpdate        Council  Review         Containment        GeminiCli        Research
   \          /                    \     /                  |                  |               |
  SeatHelperProofs               CouncilProofs        ContainmentProofs  GeminiCliProofs  ResearchProofs
```

A proof module extends the modules it is about.  `SeatHelperProofs` and
`CouncilProofs` are about two each, which share no variable: the theorems name
the specification they are about (`Spec`, `UpdateSpec`, `ReviewSpec`).

`MC<Module>` extends each module with what TLC needs, and the `.cfg` files give
the instances.  Definitions whose comment says "(Slip: ...)" are plausible
mistakes.  They are used nowhere in the specification: putting one in place of
its original must make a property fail, which shows that the property
constrains the code.

### Jobs, JobContract

An action of `Jobs` is one run of a coroutine from an await to the next.
`StartJob` is `start_job` (nothing awaits while its lock is held, so it is one
step), `AwaitRefused`/`AwaitClaims`/`AwaitDone` are the three ways `await_job`
leaves its locked part, `ResumeWithTask`/`ResumeCancelled` what happens after
`shield`, `Reap` one scan, `DrainEnds` a drainer, `Shutdown` the loop's end.
A `q_await` request may be cancelled at any moment it is suspended
(`Disconnect`); the coroutine sees that later, so the task may end in between.
Time is a `Tick` that ages entries and runs timers down; timers are served when
they are due.

`JobContract` is the promise without tasks, flags or timers: a job is open,
taken, given or lost; it has holders; work behind it goes, is stopping, or is
over.  `ImplementsContract` maps the registry to it.  What the contract forbids
is an outcome given twice or to two holders, and an entry lost while its work
goes on.

### StopHook

The registry of `Jobs` inside a host session.  The host's transcript is a record
of which starts were answered (`start`), the age of the answer's timestamp
(`since`) and which ids `q_await` was called with (`awaited`): what
`unawaited_jobs` extracts from the JSON lines.  A start whose timestamp is missing
or cannot be read as one with a zone is "undated": `_expired` says no, whatever its
age.  `HostStops` is the hook's
`main`, with its three ways out, `ServerRestarts` takes the memory of the server
away, and `Jobs`'s own actions go on beside it.

### SeatHelper

Each file operation on the spool by a client's cleanup is a step of its own, as
are a helper's rename, run, write and unlink; helpers start, stop in order and
crash.  `stateFile` is the heartbeat.  There is no clock: a client may give up
whenever it polls, and the sweep removes whatever nobody polls for.  This covers
every relation between the deadline, the poll interval and the TTL, so the
properties do not depend on those numbers.

`SpoolContract` is the promise without files and processes: what a host asked for
is offered, withdrawn, taken, going, answered or over (`work`), and the caller
hears one thing (`heard`).  `ImplementsContract` maps the spool to it.  The
contract forbids a second run, the taking of a request whose caller has left, a
result that was never written, and the removal of one that is still waited for.

### Council

A prompt is the set of answers it shows, each with the tag it is shown under,
and an answer is its author, round, stance and form.  `NextRound` is the whole
iteration: collect, drop, rotate, prompt.  `RoundPrompt` and `RotationPrompt`
are `build_round_prompt` and `build_rotation_prompt`; `Rotated` is
`rotate_roles`.

`CouncilContract` has whole rounds in place of seats that end one by one: a round
ends with the set of those that answered, who are asked next and are all shown
just their answers, in full, and the matrix gets a row for everybody.  A mapping
from the prompts and the board of `Council` shows that it keeps this, rotation,
compressed answers, early ends and cancellations included.

### Containment

`step` is the await the task stands at, from the first look at the processes
through the body and the teardown.  Around it are the leader, another process of
the group, and descendants that called `setsid`; `world` says who has each of
their pids, with "stranger" for a process that got a reused one.  The look at
the processes (`ps`) takes a snapshot that is used after the next await.
The `Cancel*` actions deliver a cancellation at every await, each with what
becomes of it there: it escapes, or one of the code's `suppress` swallows it.
`monitor` follows the background task.  While it reaps a `ps` that it gave up on it
does not hear its cancellation, and whoever awaits it, in the teardown
("stop_monitor") or when the body has ended ("closing"), waits on (`Deaf`).
`inTime` and `cutIn` remember for the properties where a cancellation arrived.

### GeminiCli

One `run()` in seconds of its own clock.  `Collects` ends an attempt after a
chosen time with a chosen outcome and log text; each of `CrashesAtStart`,
`FailsRefresh`, `FallsBack`, `HandoffFails` and `Concludes` is one way the code
goes on from there, with the conditions of `_is_transient_startup_crash`,
`_should_retry_auth_refresh` and `_should_quota_reflex`.  What an error's text
says is reduced to what those functions look for.  The retirement of the private
home is split where another process can come between: `ReadsRealToken`, then
`Retire`.  `scratch` is what the run has put on disk; a profile whose writing fails
(`ProfileFails`) may be on disk all the same.

### OpenRouterRelay, PruneOpencodeDb, OpenCode

Two components and the run that composes them.  `OpenRouterRelay` has the relay's
own state (`life`, `listening`, `client`), the stage of each connection's handler
(`conn`) and the requests that have their row (`turns`); `Connect` and `Register`
are apart because the event loop accepts a connection before `_serve` runs.  Its
`stop()` is `Stop`, `WaitEnds`/`WaitTimesOut`, `GatherEnds`, `CloseClient` and
`CloseEnds`, one per await.  `PruneOpencodeDb` has the database as two sets of
session numbers, newest highest, and a hook as `PruneChecks`, `PruneSelects`,
`PruneDeletes`, so that a hook may delete what it selected long before.

`OpenCode` is `run()` and everything it awaits: the relay's start, the rebuilding
of the home file by file (`Wipes`, `WritesAgent`, `WritesPins`, `PrunesNpm`),
the attempts (`Spawns`, `ExitsClean`, `ExitsInError`, `Stalls`, `Recovers`,
`Captures`), and the `finally` that stops the relay (`Leaves`, `RelayStops`).
`Cancel` delivers a cancellation at whichever await the run stands.  What kills
the processes is one step here; `Containment` models it.

### Research

`stage` is the await each source stands at, `lane` and `tries` the attempt.  An
attempt ends with the kind of its hits or the class of its error; `GivesUp`,
`Reworks`, `Queues` and `Sleeps` are the branches of `_contained`, `Fire` is
`_claim_rate_slot`.  Times are countdowns.  `Fanned` and `Settles` are
`_search_union` and `_escalate_union` for GitHub and Hugging Face, `FullText` is the extra query of
the latter, whose failure only the model keeps (`WithFullText`), `Refuses` is
arXiv's refusal with its fallback.  `Code` is `_source_lane_status`, `Verdict`
is `compute_status` in its order of precedence, `Kept` the filter of colliding
rows.

### Commands, Gather

`Commands` is `_run_rc` and `_kill_and_reap` for any set of tasks: `step` is the
await of each, `child` its process, `reaper` the shielded task that waits for the
exit.  `flag` is a cancellation that was requested and not met yet (asyncio's
`_must_cancel` and cancelled waiter in one), `caught` is `pending_cancel`, `asked`
remembers for the properties that there ever was one.  Each operation takes the
step to go to, so that a module on top decides which command follows.

`Gather` is `resolve` on top of it: `command` is where `gather_git` and
`gather_gh_prs` stand, `Follows` what each does after an answer or a failure.
`asyncio.gather` is `Done` and `Resume`: it is done as soon as one of the two ends
cancelled, so its caller may go on while the other still reaps.  `CancelTop`
cancels through it, `Shutdown` is the end of `asyncio.run`, which cancels the
reapers too.

### Review

`resolve_review_target` on top of `Commands`, with one task.  A diff is its size
and a revision a number; `world` is what git and gh would say now, and `Edit`,
`Push` and `Checkout` change it between any two commands.  A command sees the
world at its exit (`Replies`), and the task keeps what it learns in `diff`, `new`,
`end` and `read`.  `Follows` is the code's order of commands for each kind of
target; `Told`, `Points` and `Ending` are the notices the result carries.

### CodexUpdate

`step` is the next command of `perform_codex_update`, with the four steps of
`install_launchagent` among them; `Breaks` is a command that fails or an interrupt,
after which the user may `Begin` again.  The releases of checkout, environment,
marketplace copy and plugin are numbers.  `plist`, `loaded` and `helper` are the
LaunchAgent's file, what launchd has loaded and the process; `file` is
`helper.json`, which a helper that is stopped leaves behind.  `defaults` is what
`default_allowed_roots()` returns to this update: the built-in roots, or what its
shell exports in `CODE_QUORUM_HELPER_ALLOWED_ROOTS`.  `chosen`, `blind` and `waived`
only serve `RootsKept`, `mishaps` the bound.

## 3. What the runs show

| Run | Instance | Properties | States |
|---|---|---|---|
| `jobs` | 2 jobs, 2 requests, TTL 1, interval 1, drain 1 | `EntryLifetime`, `RetainedForTTL`, `ExpiredIsHonest`, `ImplementsContract`, `AwaitResolves`, `WorkEnds` | 269,978 |
| `stop` | 1 job, 2 requests, TTL 2, interval 2 | `NothingLeftBehind`, `StopsBlocking` | 101,693 |
| `seat` | 2 requests, 2 helpers, 1 failure | `ImplementsContract`, `MarkedRunStops`, `SpoolDrains` | 347,079 |
| `council` | 3 seats, 3 stances, 4 rounds, rotation, terse | `TagsTruthful`, `ImplementsContract`, `RotationDeals`, `Ends` | 85,563 |
| `contain` | 2 outside pids, 3 cancellations | `NoGroupLeft`, `GroupDiesWithParent`, `NoStrangerKilled`, `EscapeesDie`, `TeardownEnds` | 52,106 |
| `contain_cancel` | 1 outside pid, 2 cancellations | `CancelWins` (violated) | |
| `gemini` | the code's numbers, waits on both sides of each limit | `FitsCap`, `SwapsOnOwnEvidence`, `LeavesNothing`, `RefreshKept` | 805,962 |
| `opencode` | 2 connections, 1 hook, 2 sessions, 1 cancellation, 1 other rebuild | `Audited`, `PruneSpares`, `AnswerKept`, `StartsConfigured`, `RunEnds` | 1,117,993 |
| `research` | arXiv with 2 lanes, GitHub, Hugging Face; pause 1, bound 2 | `SlotsPolite`, `NoFalseZero`, `EvidenceBehindVerdict` | 1,086,744 |
| `gather` | 2 tasks, 2 files, 2 cancellations and the end of the loop | `CancelKept`, `NothingRunsOn`, `GatherEnds` | 10,372 |
| `review` | each kind of target; 1 edit, push, checkout, cancellation | `NoFalseEmpty`, `SilenceHolds` | 305,002 |
| `update` | 3 releases, the last with a new protocol; 3 choices of roots, an export, 3 failures | `RootsKept`, `DoneIsWhole`, `CatchesUp` | 413,428 |

The type invariants are not in these configurations: all of them are theorems, for
every value of the constants.

### Why these bounds are enough

* *Jobs.*  Two requests on one job and a second job that keeps the reaper and
  the drainers busy is the smallest instance in which every pair of actions can
  meet.  With TTL 1 and interval 1 a scan finds entries before, at and after
  their TTL.  Ages stop at `AgeCap`, one above everything they are compared
  with.
* *StopHook.*  Interval 2 puts a gap between a job's expiry and the scan that
  drops it, which is what `MAX_JOB_AGE` must bridge; the second request lets one
  await be cut off while another holds the job.
* *SeatHelper.*  Two helpers are one and its successor; two requests compete for
  the one slot; `MaxFailures` 1 allows a crash of a helper or of a client at any
  point.
* *Council.*  Four rounds are the longest council; three seats are the fewest of
  which one can be dropped and rotation is still a shift rather than a swap.  The
  four rounds contain the shorter councils: nothing but the last-round
  conditions looks at `Rounds`, and the proofs cover any number.
* *Containment.*  One descendant that a look recorded and one found too late,
  either pid reused; one cancellation for the body, one for the read loop's own
  teardown, one for the teardown that follows it.  A `ps` of the monitor may stall
  any number of times.
* *GeminiCli.*  The constants are those of the code.  Attempts take 9, 49, 59 or
  818 seconds: just within the crash window, at a second attempt still within a
  gate and just beyond it, and the longest possible.  A version probe takes its
  longest, which is the worst case of every budget.  Three tokens are one that was staged, one that this
  run refreshed and one of another process.

* *OpenCode.*  Two connections are one whose request is under way and one that
  comes late; one hook and two sessions are a listing that goes stale; one
  cancellation can arrive at each await.  Two bounds in the guards keep the run
  small: a behaviour has a second connection or other processes, not both, which
  share nothing but that opencode is alive; and other processes move as long as the
  run may see what they do (the home until opencode starts, the database until
  the answer is read).
* *Research.*  One paper source with two lanes gives every pair of paper rows,
  two artifact sources every pair of theirs, and the bound of two pauses leaves
  room for two retries in the queue, so that a third is turned away.  More
  sources add rows of the same kinds; the proofs cover any number.

* *Gather.*  Two tasks are what the code has.  Two files' logs are one that is
  followed by another and one that is the last.  Of two cancellations the second
  can meet a task that reaps for the first, and the end of the loop is a third.
* *Review.*  One move of each kind lies between any two commands; what is
  said of a moved change (section 6) needs one push and one checkout.  Three sizes
  of a diff are empty, within the cap and over it.

* *CodexUpdate.*  Three releases are one that is installed, one that may come out
  between two commands and one whose helper speaks another protocol.  The choices
  of roots are the old default, the new one, and one that overlaps with both; the
  exported roots have one of the old pair and lack the other.
  Three failures can stop an update, its repetition and a helper.

### Deadlock

The runs of `Jobs`, `StopHook` and `SeatHelper` check it: time passes there, or a
helper goes on with its heartbeat, whatever else has stopped.  So do those of
`Gather` and `Review`, where only the state with all tasks over and every killed
process dead may rest.  A council, a
teardown, a run of the Gemini or the OpenCode seat and a call of research come
to an end and nothing follows, an up-to-date installation waits for the next
release, so their configurations switch the check off.

## 4. Fairness

* `Jobs`: the loop serves what is ready (resumptions, due timers, drainers) and
  time passes.  A task that was told to cancel ends: below it, containment's
  teardown is bounded, which `TeardownEnds` shows.  An agent that nobody
  cancelled may hang for ever, and nobody is assumed to await a job.
* `StopHook`: time, the reaper and the drainers; the assistant and the user do
  nothing unless they want to.
* `SeatHelper`: clients and helpers that live go on polling and cleaning up,
  `launchd` restarts a helper (`KeepAlive`), old files are swept.  Whether a seat
  ever ends is left open.
* `Council`: the loop collects a round that is complete, and each seat's hard
  timeout fires.  No seat is assumed to answer.
* `Containment`: a look at the processes, the wait for the leader and the
  collection of stderr have timeouts of their own.  Two awaits have none: that of a
  monitor which was cancelled, which is a task of the same loop and ends, and the
  reaping of a `ps` that was sent SIGKILL (`base.py:364, 372`), which is taken to be
  reaped.  A monitor that did not hear its cancellation is not taken to end
  (`Deaf`).  The body may wait for ever, and the killed leader need not be reaped.
* `OpenCode`: the loop serves the run's own steps and the handlers that can go on,
  the relay's wait for the others has its five seconds, and a run that does not
  end by itself meets the council's hard timeout.  The upstream need not answer,
  opencode need not exit, hooks and other runs need not do anything.
* `GeminiCli` and `Research` have no liveness property: their waits are bounded by
  the numbers that `FitsCap` adds up, and by the bound that `SlotsPolite` states.

* `Gather`: the loop resumes what is ready and its timers fire.  A command may hang
  and a killed process may never die; that the gathering ends then rests on the
  timeout and on the reaper's two seconds.
* `CodexUpdate`: the update goes on, launchd restarts the helper (`KeepAlive`), a
  helper writes its heartbeat, and a user whose update failed or is not of the last
  release runs it again.  Failures are bounded in number, not in place.
* `Review` states no liveness: it is one task over `Commands`, whose steps `Gather`
  shows to end, and a straight line of commands.

All of it is weak fairness.

## 5. What is proved

Each proof module states an inductive invariant, shows that `Init` implies it and
that every action preserves it, and derives the properties from it.

| Module | Theorems | The invariant, and why it is needed |
|---|---|---|
| `JobsProofs` | `TypeCorrect`, `AtMostOneTaker`, `NoWorkOrphaned`, `LifetimeBounded`, `UnclaimedRetained`, `ExpiryHonest`, `RegistryKeepsContract` | One-taker needs that every holder's job has its flag set (`HoldersClaim`); the lifetime needs that what is left of the reaper's sleep fits what is left of each entry (`ReaperInTime`); the honest answer needs the cause of every cancellation (`StopCause`).  `Core` is inductive alone, so that it can be used where `RetainedForTTL` fails: after a restart. |
| `JobsProofs`, of `StopHook` | `HTypeCorrect`, `ClearTurnLeavesNothing` | `Core` survives the restart; the transcript's timestamps are never older than the job (`TranscriptLags`), so what is too old for the hook is gone from the registry. |
| `SeatHelperProofs` | `TypeCorrect`, `AtMostOneRun`, `WithdrawnWhenGone`, `InflightExact`, `SpoolKeepsContract` | `RequestFresh`: a request file means that nobody has claimed it and the client is still there.  `ViewIsSound`: a result file was written by a run that is over, a client that cleans up has heard something, and one that heard "unavailable" has no request and no run. |
| `SeatHelperProofs`, of `CodexUpdate` | `UpdateTypeCorrect`, `RootsAlwaysKept`, `SuccessIsWhole` | `Carried`: until an update gives roots up (`waived`), the user's are in the file, the agent, the helper, `helper.json` and, if it asked for them, the roots under way.  `Achieved`: after each command, what it and those before it have brought is still in place, whatever launchd, releases and crashes do in between. |
| `CouncilProofs` | `TypeCorrect`, `TagsAlwaysTruthful`, `BoardSameAndFresh`, `FailedStayOut`, `KeepsContract`, `RotationAlwaysDeals` | What the prompts of a round show and what the next round relies on.  That rotation deals the stances rests on the predecessor in the ring being a bijection, proved from `Position` being injective on a finite set. |
| `CouncilProofs`, of `Review` | `ReviewTypeCorrect`, `EmptyIsEarned`, `SilenceJustified`, `CancelledIsSilent`, `ListedAlwaysSurfaced` | `Course`: which answers the task has at each command.  `InOrder`: in which order the world gave them, so that two that differ prove a move in between.  `Owes` and `Earned`: a cancellation still leads to no result, and an empty result was answered by the commands that can say so. |
| `ContainmentProofs` | `TypeCorrect`, `GroupNeverLeaks`, `ParentTakesGroup`, `OnlyOwnKilled`, `EscapeesCaught`, `CancelsHeard` | The invariant follows one teardown: registered until it is over, the group gone from the kill on, no pid changing hands from the last look to the kill, who is adrift captured or uncatchable.  `Heard`: a cancellation is the exception under way from its arrival on, if the seat's own work was awaited then (`inTime`). |
| `GeminiCliProofs` | `TypeCorrect`, `AttemptsFit`, `SwapsJustified`, `EngineAlwaysNamed`, `FailuresLogged`, `NothingStays`, `RefreshesKept` | `Course`: by which time an attempt of each kind has started and how many can have gone before.  `Saved`: the log of an attempt that is being repeated is kept, or still waits to be. |
| `OpenCodeProofs` | `TypeCorrect`, `SessionsSpared`, `AnswerSurvives`, `RequestsAudited`, `HomeConfigured`, `ListenerLeaks` | What a hook has selected stays superseded, because the council's sessions only get newer (`NewerGrows`, a fact about cardinalities); a connection that `stop()` does not wait for was never accepted, is closed, or was late; the home is whole from this run's own last write until it starts, unless another run is at it.  `ListenInv`: in which lives of the relay it listens, and which of them the run can be left in. |
| `ResearchProofs` | `TypeCorrect`, `RetriesPolite`, `ZerosTold`, `VerdictsBacked` | `Spaced`: every claim still to come due lies a pause before the next free slot, so a new one cannot be close to it.  `Told`: what failed is noted from the ranking on, before an empty row can be written.  `Filled`: the rows of the lanes behind a source are written; the verdict itself is then a matter of logic. |
| `GatherProofs` | `TypeCorrect`, `CancellationsKept`, `NoneRunsOn` | `Owes`: a task that was asked to cancel holds the request, has caught it, or has ended with it.  `AllAsked` and `Leaving`: because gather asks all, whoever goes on after a cancellation leaves only tasks that are over or reaping. |

`RegistryKeepsContract`, `SpoolKeepsContract` and `KeepsContract` are refinements,
`Spec => Contract!Spec`: initial states map to initial states and every step,
under the inductive invariant, to a step of the contract or a stutter.

The assumptions are those the modules declare: the constants have their types;
`NoJob` and `NoHelper` are no members of what they stand for; the seats are
finitely many and each has its own position; and `BudgetAssumption`, the
arithmetic behind the retry gates of the Gemini seat.  That one says that the
longest attempt fits the council's 900 s after a version probe, a crash window
and its pause; after the refresh gate and its pause; and after the quota gate.
With the code's numbers the sums are 843, 881 and 878.  `UpdateAssumption` says of
the roots that the old default is part of the one that is built in and that the
user neither installs nor exports an empty set of them; nothing is assumed of how
exported roots relate to either default.

Only model-checked: the liveness properties (`AwaitResolves`, `WorkEnds`,
`StopsBlocking`, `MarkedRunStops`, `SpoolDrains`, `Ends`, `TeardownEnds`,
`RunEnds`, `GatherEnds`, `CatchesUp`), since fairness needs `ENABLED`, which the
prover does not handle.
Every invariant, action property and refinement of the runs is a theorem.  Some
theorems state invariants that no run spends time on, because a contract implies
them or because they are what is left of a claim that fails: `OneTaker` and
`NoOrphanTask`; `OneRun`, `GoneIsWithdrawn` and `InflightIsLive`;
`SameFreshBoard` and `DroppedStayOut`; `EngineNamed` and `FailureLogged`;
`CancelHeard`, `OnlyStartLeaks` and `ListedSurfaced` (section 6).  No
module declares a `RECURSIVE` operator.

## 6. Where the code and its documents differ

1. `contain_cancel`.  `base.py:666-668` says that a cancellation during the
   teardown must win.  The teardown swallows one while it awaits the monitor (586),
   in the last look (590), while it waits for the leader (598), and in the second
   look while that reaps a `ps` (363); so the task ends with what started the
   teardown.  The group is dead in any case.  Outside a teardown, one is swallowed
   while the first look reaps its `ps` and while the monitor is awaited at the end
   of the body (683).  One that arrives while the seat's own work is awaited does
   win (`CancelHeard`, proved).

More claims are stated in the modules and fail there.  No configuration is
kept for them; adding the property to that of the module's run shows each.

2. `GivenUpWritesNothing` (`SeatHelper`).  `SECURITY.md:104-106` says that a helper
   writes no result for a client that gave up.  The client looks for its request
   file and leaves a marker only if it is gone; a helper that claims the request
   between that look and the unlink is told by nobody, runs the seat to its end and
   writes the result.  A run that ends within one poll of the marker writes its result, too.
   The sweep removes either.
3. `NewerTokenStays` (`GeminiCli`).  The docstring at `gemini_cli.py:425-427` says
   that a token another run refreshed first stays.  Comparison and replacement are
   not one step, and a token written in between is replaced by an older one.
4. `ListenerEndsWithRun` (`OpenCode`).  `openrouter_relay.py:11` says that the relay
   listens for the life of one seat run, `SECURITY.md:138-139` says the same.
   `relay.start()` is awaited before the `try` whose `finally` stops it: a run that
   is cancelled at that await ends, and its listener stays.  Nothing else leaves one
   (`OnlyStartLeaks`, proved).
5. `SilenceProven` (`Review`).  `orchestration.py:597-602` says to warn unless HEAD
   provably matches, and that a false silence is the bug.  The head of the change
   is asked for after its diff, so a push, or a range whose end moves, in between
   makes the tree pass for the change that was diffed.  Unless the change moved
   after its diff there is no false silence (`SilenceHolds`, which the run checks).
6. `UntrackedSurfaced` (`Review`).  `orchestration.py:705-706` says that local targets
   always surface untracked files.  `_untracked_files` reads a `git status` that
   failed or timed out as no files (629-630), and with no tracked change the caller
   hears "no changes" (763-764, 786-787).  `NoFalseEmpty` demands less: that the diff
   was answered, and that no listing that was answered named a file.  What a listing
   did find is surfaced (`ListedSurfaced`, proved).
7. `CleanupBounded` (`Containment`).  `base.py:481-482` says that the cleanup window
   after a cancellation is bounded at a few seconds, and argues from it that no pid
   is reused.  A `ps` that times out is reaped under `suppress(BaseException)`
   (363-364).  When `monitor.cancel()` (585, 681) meets the monitor there, it is
   swallowed and the monitor watches on, while the await that follows (587, 683) has
   no timeout: the context is not left, nor, in the teardown, the group killed, until
   another cancellation comes.  `TeardownEnds` excepts just that (`Deaf`).
8. `ProfileRemoved` (`GeminiCli`).  `gemini_cli.py:1829-1830` says that the sandbox
   profile is removed once agy has exited or failed to.  It is made with
   `delete=False`; if its write or close fails (1838-1849), the home is retired and
   the file stays.  It holds paths and no secret.  Nothing else stays
   (`LeavesNothing`, proved).
9. `FailuresSurfaced` (`Research`).  `research.py:3-4` says that failures are surfaced
   into the digest rather than swallowed.  The full-text query of Hugging Face is
   best effort and its failure is swallowed (1827-1840): after a union that found
   nothing, the row is empty and no note says why.  For the sub-queries of the union
   there is always one (`NoFalseZero`, proved).
10. `LegacyKept` (`CodexUpdate`).  `codex_update.py:260-266` says that a helper on the
   old default pair loses nothing it allowed and gains the new default root.  The
   update passes nothing on and the installation takes `default_allowed_roots()`,
   which is only what `CODE_QUORUM_HELPER_ALLOWED_ROOTS` says where that is exported
   (`seat_helper.py:86-92`): whatever of the pair it does not cover is lost.

`ChosenStay` (`CodexUpdate`) is no claim of a document, but worth knowing: an update
that begins while the helper is down, its `helper.json` is stale, or the helper that
runs is of another protocol than the checkout, installs the default roots in place
of the user's.  `RootsKept` excuses it from the moment it writes the agent.  An
update that fails at the restart of the helper, or after a pull that raised the
protocol, leaves just that for the next one.  `seat-helper-status` prints the
version in `helper.json` also when no helper runs, so the version an update verifies
may be that of a helper that is gone.

Beside these, without a property of their own:

* The comment at `research.py:269-272` says that a refused arXiv whose fallback
  fails is config, rate or otherwise transient.  If the fallback is answered with
  400, `_is_arxiv_query_error` finds its phrase in the same string, and the query
  is shortened.  The model has what the code does.
* The docstring at `research.py:1434-1440` expects that a refusal reaches
  `_contained`.  A fan-out raises the first of its errors, so a refusal behind an
  error of another class is retried after a second rather than in a polite slot.

The refresh gate of the Gemini seat is stricter than the message
at `gemini_cli.py:1978-1982` suggests: a second attempt that it refuses as one
that "would run past" the council's cap would still fit for another 19 seconds.
That costs a retry and breaks no property.

## 7. What is left out

* Of the modelled parts: the words of prompts and answers, error texts, command
  lines, environment variables, sandbox profiles, the parsing of transcripts and
  of the agents' output beyond what decides control.
* `SeatHelper`: which working directories a request may name, the validation of
  its fields, the plist; the two clocks of client and helper, so that a request
  that waits for the limiter may be given up at any time; the heartbeat's gap
  when a replaced helper removes the `helper.json` of its successor.
* `Containment`: the await of the stderr reader in the `finally` of
  `communicate_lines_or_kill` (`base.py:785-789`), which lies outside the context and
  swallows a cancellation, too; the installation of the signal handlers, and the gap between a
  spawn in an adapter and the registration here.  Pids are taken not to be reused
  in the seconds between the last look and the kill, as `base.py:474-486` argues.
* `GeminiCli`: `check_auth`, the merge of the settings, the eviction of old logs
  by other runs.
* `OpenCode`: the text of its configuration, the limits of the npm cache and of
  the debug captures; the relay's HTTP framing and the contents of a row; the
  sizes and the VACUUM of the database.
* `Context`: the keywords and files a prompt names, the learnings that match, the
  rendering.  `Gather`, `Review`: what commands print, beyond what decides the next
  one; the state of a `git` that changes the repository while it is asked.
* `Review`: the syntax of targets, and that the default branch or the merge base
  may move between its lookup and the diff, which only changes what is diffed.
* `CodexUpdate`: the three checks of the checkout and what the configuration
  contains, which end an update like any other failure; two updates at a time; sets of
  allowed roots that are empty.
* `Research`: requests, parsing and scoring, which are reduced to what they
  bring; the digest's text and the suggested actions; the verdict of digests
  that carry no rows; cancellation, which no source catches.
* The parts that `PROJECT.json` lists as not modelled, with the reason for each.
  `src/plugins/code-quorum` is a byte-identical staged copy of the sources and is
  not modelled a second time.  Much of the rest is text: command lines, tables of
  models, prompts, rendered digests, diagnosis; it has no state to get wrong.

## 8. Plan

What is left, in the order of what matters to a user.

1. **Composition.**  `Jobs` over `Council` over `Containment`: one cancellation
   from a disconnect to the last process, which turns the assumption that a
   cancelled task ends into a theorem about the parts below.
2. **`SeatClocks`.**  The seat helper's limiter, the client's deadline and the
   helper's timeout on one clock, refining `SeatHelper`, where giving up is
   always possible.
3. **`ModelChoices`.**  Precedence as an operator against a reference definition
   over bounded inputs; `record_choice` by two setup runs.
4. **`Selection`** (`orchestration.py`, `hosts.py`).  Which seats run, which are
   skipped and whose stances they get, as operators; composed with `Council`,
   whose `Seat` it provides.
5. **`Maintenance`.**  The server reaper against processes that start meanwhile.
6. **`Research`, further.**  Which error of a fan-out should decide the retry;
   that a call ends, with fairness of the requests' timeouts.
