# case-harness in TLA+

Specifications, model-checking configurations and proofs for case-harness: the
e2e, eval, perf, trace and trajectory harnesses under `src/python`, their Go
and TypeScript counterparts, and the contracts in `src/spec`. Every definition
is translated from the source; the file and lines it stands for are in
`PROJECT.json` under `map`.

## 1. The system

| Part | State it keeps | Operations | How it interacts |
|---|---|---|---|
| eval rate gate (`eval_harness/schedule/ratelimit.py`) | limit, in-flight count, success streak, end of the cool-down | acquire, release, on_success, on_error | every solve and score call goes through `_attempt`, which acquires, calls, backs off, retries and releases |
| eval reconciler (`schedule/reconcile.py`, `engine.py`) | one task per provision key, row and score | provision, the row chain (fetch or solve, explode, score), teardown | fills the cells of the worksheet; gates bound its calls |
| eval worksheet and checkpoint (`worksheet/`) | cells with a state; the file on disk | build, reset on failure, snapshot, periodic and final flush, resume | read by the next process that runs the experiment |
| case lifecycle (`e2e_harness/caserun.py`, `go/e2e/caserun`, `go/e2e/testrun`) | the phase a case is in, its results, status and reason | prepare, execute, judge, cleanup; recording; verdict; exit code | Go subtests run in parallel and share a recorder |
| what a step waits and reads with (`e2e_harness/temporal.py`, `go/e2e/core/poll.go`, `harness_toolbox/kube`, `go/toolbox/kube`, `e2e_harness/runner`) | a deadline; the UIDs of a snapshot; a line buffer and a parser | poll, retry, consistently; wait for, delete a Pod; feed, flush | called by the steps of a case; the cluster and the server change beside them |
| perf load drivers (`perf_harness/drive`) | tasks in flight, the in-flight counter, judged outcomes | arrival or supervisor tick, fire, breaker, wind-down | called by the engine, read by the observer |
| perf engine (`perf_harness/engine.py`, `verdict.py`, `cli.py`) | the arm, the phase of the trial, phase errors, run gate | deploy, setup, measurement, deactivate, cooldown, cleanup, record, teardown | runs a driver and an observer task side by side |
| perf numbers (`observe`, `metric`, `slo.py`, `analysis`, `runio.py`, `report`) | series of samples; the trial record; three files | tick, summarize, query, evaluate, analyze, write, load, render | fed by the driver and the observer; the files are shared with TypeScript |
| perf in TypeScript | as the Python drivers and engine | the same | shares the run files only |
| trace harness (Python, TypeScript) | none; the index it pages through changes | normalize, assemble, bake features, diagnose, render, explore, tables, gates | the two languages are peers of one spec |
| trajectory harness | the run directory | load, detect, verify, measure, aggregate, write, judge | plugins are an isolation boundary |
| verdict rollup (`harness_common/verdict.py`, `go/report`) | none | status, reason, summary | used by every harness, read by CI |
| LLM client, case generation, configuration, eval metrics and reports | none between calls | chat with retries; compile, discover; load; fold, render | sequential |

What is hard in it: asyncio interleavings inside the gate, the reconciler, the
drivers and the engine; crashes between a cell's change and its flush, or between
two files of a run, and resumes from what is left; cancellation of tasks that are
in the middle of a request; hooks and plugins of the user that raise at any point;
sampling of a cluster or a service that changes between two samples; recorded data
that is out of order, cyclic or incomplete; two outputs (exit code and verdict) or
two implementations that must tell the same story. What makes each part correct:

- gate: no slot is leaked or given twice, calls start under the limit in force,
  no waiter sleeps forever;
- eval run: a score belongs to the answer in its row, what is on disk is closed
  under dependencies and only grows, re-running fills every gap;
- case: a worse outcome is never hidden, a pass was judged, cleanup ran; a wait
  speaks of the Pod it was given, a stream loses no event;
- drivers: nothing is sent after the stop, nothing is left in flight, the census
  adds up, an abort is earned, the trial ends;
- engine: every trial begun is cleaned up, every arm starts clean, the gate and
  the verdict agree, an interrupt is not swallowed;
- numbers: every request is in its windows, a series says what the counter did,
  no claim (recovery, capacity, a cell of the report) without its observation;
- trace and trajectory: nothing that was recorded is lost, counted twice or
  hidden, and every implementation and every plugin reads it alike.

`PROJECT.json` lists every component with its status and, under `hazards`, each
of these dangers at the line where it bites.

## 2. The modules

| Module | Models | State and actions against the code |
|---|---|---|
| `Limiter` | abstract: at the moment a call starts fewer than the limit are in flight | the promise of a gate to its callers |
| `RateGate` | `AIMDGate` with `_attempt` | `pc` is the await a coroutine is at; `queue` the order in which the condition's lock is granted; `Acquire` and `ResumeAcquire` are the two ways into a slot, `CallReturns`/`CallRaises` the adjustment, `BackoffEnds`, `Release` the finally clause |
| `DurableProgress` | abstract: recorded work is closed under dependencies and lost only to a run that discards it | the promise of the checkpoint to whoever reruns |
| `EvalRun` | `run_experiment`, the reconciler, the worksheet, the checkpointer | `ws` and `file` are the worksheet in memory and on disk; `ptask`, `rtask`, `stask` the asyncio tasks; `subject`, `made`, `stored` the external resource and the answers the SUT keeps; `Crash`, `Interrupt`, `DiskFails` the faults |
| `CaseRun` | the lifecycle of a case and of a run, in Python and Go (`engine`) | `place[c]` the phase a case is in, `phase[c]` its results; `RunPhase` and `Apply` the step and what it does to the status, `Unwind` a BaseException or Goexit, `Record`, `Finish` the run |
| `CaseWait` | `poll`, `retry`, `consistently` and the Pod waits and deletion, in Python and Go | `at` is where in the helper the step is; `Check`, `Serve`, `Told`, `WakePython`/`WakeGo` one round of it; `Tick` a clock in units; `pods` the cluster, whose actions are external |
| `EventStream` | `LineBuffer`, `SSEParser` and the loops of the SSE runners | `text` is what the server sent, `buf` and `parser` what is kept between chunks, `events` what was given out; `Receive` any chunk, `EndOfStream`, `Break` |
| `CaseTools` | composes the two: a step waits, or reads an answer | |
| `LoadTrial` | abstract: requests are sent only until the stop, each completes or is cut, none is left at the end | the promise of a driver to the engine |
| `OpenLoop` | `drive_open`, `_fire`, `_breaker_snapshot`, `_winddown` | `fire[f]` is where an arrival is (`created` is a task that has not run), `Tick` one turn of the loop, `Break`/`Deadline` its exits, `DrainEnds`, `Stopped` the wind-down |
| `ClosedLoop` | `drive_closed` with its user loops | `users` is the supervisor's list, `user[u]` the task; `Supervise` spawns or retires, `FireEnds`, `UserTurns` are a user between awaits |
| `PerfRun` | `Engine.run`, `Engine._run_trial`, the run gate, `_build`, the CLI's exit | composes `LoadTrial` as the driver that runs beside the engine; `left` counts requests that a closed driver returned beside (`RestBesideRetired`), which end whenever they do (`Unwind`); one action per hook with its three outcomes (returns, Exception, BaseException) |
| `PerfObserve` | the probes and the observer's record of a tick | operators on a reading of the environment; `Record` one turn of `observe_loop` |
| `PerfMetrics` | reductions, metric families and the store, assertions, with the TypeScript reduction (`...Ts`) | operators on samples and outcomes |
| `PerfWindows` | `Engine._aggregate`, `evaluate_slo`, capacity, `verdict.py`, with `buildWindows` and the TypeScript verdict | operators from what was recorded to the trial record |
| `PerfLenses` | the four lenses of `analysis` | operators on trial records |
| `PerfReport` | `runio.py` both ways and the tables, curves and charts of `render.py` | operators between a run, its files and its report |
| `PerfTrial` | one trial on a clock and what becomes of it | `Fire`, `Observe`, `ServerRestarts`, `ClusterChanges` interleave with `Advance`; then `Judge`, `WriteModel`, `WriteOutcomes`, `WriteRows`, `Crash` between any two of them |
| `TrajectoryLoader` | the OTel loader | spans to steps |
| `TrajectoryAnalysis` | four measurers, eight detectors, three verifiers | an operator each on the steps |
| `TrajectoryRun` | builder, runner, metrics, the two files, verdict | the actions are the steps of `TrajectoryHarness.run`; `Rerun` starts over in the same directory, after a crash or after the end; `disk` is `dataset.json`, `run.json` and `verdict.json` |
| `TraceSpans` | documents to spans to kinds, in both languages | operators; a definition ending in `Ts` is translated from the TypeScript source |
| `TraceAssembly` | route, own, claim, build, connect, residue, features | as above; a walk that never ends is the value `Hang` |
| `TraceDiagnose` | producers, detectors, post-order, time budget | as above |
| `TraceRender` | display tree, Markdown lines, agent perspective, exploring view | as above |
| `TraceCorpus` | tables, operators, slices, gates | as above |
| `AgentRunIR` | what `validate_agent_run_ir` accepts and what the viewer draws of it | as above |
| `TraceRun` | one trace through all of it | `Index` and `Page` interleave (or `ReadFile`); then one action per stage |
| `RateGateProofs`, `EvalRunProofs`, `OpenLoopProofs`, `ClosedLoopProofs`, `PerfRunProofs`, `TrajectoryRunProofs` | theorems about the module of that name | |
| `CaseProofs` | theorems about `CaseRun` and `CaseTools` | |
| `TrajectoryMetricsProofs` | the theorem about the metrics of `TrajectoryRun` | on top of `TrajectoryRunProofs` |
| `MC...` | instances for TLC | |

An action is the code between two awaits (one event loop), or one phase step of
a goroutine. Data is reduced to what the properties distinguish: an answer is a
number, a request is the state it is in, an SLO check of `PerfRun` its outcome.
Where the data is the point (traces, trajectories, measurements) the algorithms
are operators, and the module with the actions leads them to the states they are
computed in. Definitions with a comment `mutant:` are defective variants of the
definition after them, used to check that a property can fail.

Composition: `RateGate` implements `Limiter`, `EvalRun` implements
`DurableProgress`, `OpenLoop` and `ClosedLoop` implement `LoadTrial` (the latter
but for one named step, see below), and `PerfRun` uses `LoadTrial` for its driver;
so what `PerfRun` shows rests on the two driver modules. `PerfTrial` has the data
of what `PerfRun` orders: there hooks raise and drivers interleave, here the order
is fixed and the numbers are real.

Abstractions worth knowing before reading a module:

- Time is any moment in the concurrent modules. It is counted only where a
  property is about it: in units in `CaseWait` and `PerfTrial` (of `Unit` seconds),
  in quarters of a millisecond in the traces (`Ms`).
- Ratios are pairs and exact. Values are rounded where a file or a gate reads them
  rounded: the rate of a stop to four decimals, its time to two and the time of a
  request to three in the run files (`Unit` is a little more than a second, so that
  this shows), `sum_ms` of a trace to a tenth, half to even in Python and up in
  TypeScript, the ratio of a fleet outlier to a hundredth. Rounding for display is
  left out: the text that `verdict.py:98`, `render.py:107` and `validity.py:50` make
  of the time of a stop may differ in its last digit once the run was loaded from
  its files. Medians are doubled.
- `CaseWait`: a call takes at most `Slow`, a sleeper wakes at most `Late` after its
  time. The timeout of a toolbox call is what is left of the phase; the condition of
  a user's own check is the readiness of the service behind a name.
- `EventStream`: a byte is a token that stands for a piece of text or for half of a
  character; the synchronous and the asynchronous runner are the same model.
- `PerfTrial`: `FewSamples`, `HighDrop`, `MinNForTail`, the interval and the
  drain are small; an open load sends at most one request per instant; another
  caller hits the server each unit, so that its counter is not the driver's.
  Latency analysis raises when the highest level has no latency, as the code does,
  and no analysis is written then.
- `TrajectoryRun`: a rerun has a later time of creation than the run before it
  (`created`); a caller that passes the same `created_at` twice makes an old verdict
  look like the new one. A file is written at once: `verdict.json` is not replaced
  atomically as the other two are, and one that broke off is no JSON and no pass.
- Traces: attributes and texts are members of small sets, an error text is the
  number in it (two long ones differ behind the 60 characters that a signature
  keeps); Python iterates the set of primaries in any order that `SetOrders` gives,
  in the instance the order of the ids and its reverse. TypeScript has no outliers, trends, patterns or probes and no folding of
  equals: the producers and trees that both have are compared.

## 3. The runs

| Run | Bounds | What it shows |
|---|---|---|
| `rate_gate` | 3 coroutines, limits 1..3, 3 attempts | `GateIsSound` (slots match holders, no lost wake-up, streak below the limit), `StartsWithinLimit`, implements `Limiter`; every attempt ends |
| `eval_run` | 2 rows on a key each, a known and an unknown metric, 2 faults, 2 answers per row, teardown, fresh runs | `SheetIsSound` (a score is of the answer in its row, nothing is skipped), `EndKeepsWork`, implements `DurableProgress`; in the end every row is solved and scored on disk but those a teardown left unsolved (`EventuallyComplete`) |
| `case_run` | Python and Go (parallel subtests); a case with four phases, one without prepare and cleanup that Python skips, one that may be broken; every outcome, BaseException and Goexit | `OutcomeIsHonest`, `PhaseOrder`, `VerdictIsHonest` |
| `case_tools` | budget 8, window 6, calls and wake-ups late by 1; 3 Pods, 3 events, 1 failed call; texts of 6 bytes in chunks of up to 3 | `WaitsTellTheTruth`, `StreamIsLossless` |
| `open_loop` | 4 arrivals, 2 per tick, cap 2, breaker at 1/2 of 2 | `CountersAddUp`, `OverCapByABurst`, implements `LoadTrial`; the trial stops although no request ends |
| `closed_loop` | 3 user loops, 4 requests; schedules that step down or not, judges that raise or not, with and without think time | `UsersAddUp`, `ImplementsTrial`; the trial stops although no request ends |
| `perf_run` | 3 arms on 2 profiles, closed load, the schedule of the second falls (`StepsDown`), 2 requests each, every hook may fail, every choice of strict_slo and abort_on_fail | `CleanBaseline`, `AlwaysCleansUp`, `VerdictIsEarned`, `RunEnds` |
| `perf_numbers` | open, closed, observed and cluster trials of up to 5 units with 2 faults, after an earlier arm | `WindowsPartition`, `SeriesTellTheTruth`, `ClaimsAreEarned`, `TwinsAgree`, `RunSurvivesItsFiles`, `ReadingIsHonest` |
| `trajectory` | every recording of up to 3 spans out of 7, and some with two more, beside another one, two sets of broken plugins, every kind of policy, 1 rerun from any phase, the end included (over recordings of one span) | `DetectorsAgree`, `MeasurementsAreExact`, `MetricsAddUp`, `PublishedRunIsSound` |
| `trace` | every tree of 3 spans over the kinds that interact, loops of 4 tool calls in every combination of durations, odd documents, spans without a service side by side, siblings that start together; pages of 2, 4 documents at most | `NothingIsLost`, `ImplementationsAgree`, `TimeAddsUp`, `FindingsExplain`, `SignalsStayVisible`, `VerdictsAreEarned` |

Why the bounds are enough: the hazards are pairwise. Three coroutines give a slot
holder, a waiter and one that sleeps in the cool-down or queues for the lock;
limits 1..3 include a raise, a halving and the clamps, three attempts a retry
after a retry. Two faults give a crash in the run that recovers from a crash. Two
arrivals per tick exceed a cap of one and of two; four leave some in flight, some
judged and some dropped at the trip of the breaker. Three user loops give one
retired, one flying and one new. Three arms give one deployed, one that reuses
the profile and a change between. Three Pods give the one meant, the one that took
its name and one beside them; the plan delete, replacement, ready is the restart
test of a case, in which the Pod found by one helper is handed to the next. Six
bytes hold a field, its value, a split character and two line ends, and three more
bytes of a second event. Two stages of one level each, a ramp and a hold that may be
cut give every kind of window, two faults a restart of the server and a probe that
misses. Three spans give a call, what it owns and what is between or beside them, a
cycle of any length that differs; four tool calls are the shortest loop the trends
and the patterns speak of. Pages of two and a limit of four put two documents of the
same span and millisecond on one page and on both sides of a cut, and the limit on the
end of a page; a trace of five documents is longer than the limit. Three steps give a failed call, what comes between and
its repetition. `CHECK_DEADLOCK FALSE` is set for `case_tools`, where a step ends
the behaviour, and for `trace`, where an analysis does.

Bounds that are not in the code: `MaxFaults`, `MaxAnswers`, `MaxBurst` (intensity
times the length of a tick), `MaxUsers`, `MaxSent`, `MaxFires`, `MaxUid`,
`MaxEvents`, `Names`, `Slow`, `Late`, `MaxText`, `MaxChunk`, `MaxCrashes`,
`MaxReruns`, `Keep`, `NodeThreshold`, `PageSize` and `Limit` (smaller than in the code), `LinesOf`'s depth of 8, and the
constraint `ShortReruns`. `MaxAttempts` is the retry count, which is.

`Blind` of `CaseWait` is the longest stretch that sampling may overlook, from the
pause, the late wake-up and two slow calls. It is exact: one unit less, and TLC
finds a wait that overlooks a stretch of that length.

### Runs that end in a violation

Each checks one sentence of the documentation or a comment against the code.

| Run | Sentence | What the code does |
|---|---|---|
| `eval_teardown` | a cleaned heavy layer is re-provisioned by the next run (`engine.py:39`) | after a teardown the provision cells stay OK, and the next resume solves failed rows against a resource that is gone |
| `perf_curve` | a trial whose measurement is incomplete is in no capacity, resource or latency curve (`result-semantics.md:81`) | `_curve_groups` of the report draws every trial |

### Where the properties give way to the code

Some sentences of the documentation are narrower in the code, and the properties
are worded for what the code does:

- `max_inflight` (`scheduler.py`): the arrivals of one tick all see the counter
  before any of them raised it, so the cap is exceeded by less than one tick of
  arrivals (`OverCapByABurst`).
- "bring the load to rest" (`scheduler.py`): a user retired by a schedule that
  steps down is in no list, and nobody waits for it. `UsersAddUp` and
  `ImplementsTrial` of `ClosedLoop` name the exception (`ReturnsBesideRetired`), and
  `CleanBaseline` of `PerfRun` its effect: requests that are still unwinding when the
  driver returns may meet the cleanup and the arms behind it (`LeftBy`). With an open
  load, or while no schedule has fallen, it allows none.
- a run that is resumed completes: rows that were unsolved when a teardown cleaned
  the resource of their OK provision cell are not solved by any later run, because
  nothing provisions the key again (the finding of `eval_teardown`).
  `EventuallyComplete` claims the others: a row is left only if its resource is gone.
- a whole trace is fetched: `_paginate` ends at a limit (`opensearch.py:111`, 100000
  at 158) and says nothing of what lies past it, and of two documents with the same
  millisecond and span id it skips the second when the cut is between them.
  `NothingIsLost` says that nothing else is lost.
- "peers" (`spec/trace-harness.md`): the two languages differ for spans without a
  service, whose group has the id `svc:root:None` in Python (`assemble.py:132`) and
  `svc:root:undefined` in TypeScript (`assemble.ts:128`); an empty service name is a
  group of its own in Python and none in TypeScript, so below one host TypeScript may
  have one group where Python has two, with another time of its own for the host and
  its `obs_hole` and `propagated` findings. Two http calls of a model call that start
  together decide its status by the order of Python's set. A sum that lies between
  two tenths may differ in that place. `ImplementationsAgree` names these and nothing
  else.
- findings of detail nodes that the agent perspective leaves out are not shown in it
  (`perspective.py:61`); `SignalsStayVisible` claims the call paths there, and the
  findings in the other views.
- "never let one fire kill the generator": a judge that raises ends its user loop,
  which is not replaced; the part of `UsersAddUp` about the target excepts it.
- "cleanup always runs" (`conventions.md`): a BaseException or Goexit in a step
  leaves the lifecycle. `PhaseOrder` claims it for cases that are over.
- "a cleanup that fails is an error" (`conventions.md:39`): a cleanup step that
  reports fail makes the case fail, one that skips makes it skipped
  (`caserun.py:155`, `caserun/run.go:176`).
- "no stage barriers" (`worksheet.py`): a prepare that hangs for one key holds
  back every row; `EventuallyComplete` needs that every prepare ends.
- flushes "once more on exit" (`checkpoint.py:163`): a periodic flush that fails
  ends the task, and the exit flush is behind the await of it (`checkpoint.py:191`);
  `EndKeepsWork` excepts a dead checkpointer.
- a stop drains and cancels before it goes on (`scheduler.py:5`): a run that is
  cancelled cleans up while its requests run on; `CleanBaseline` excepts it.
- a run with phase errors is still written (`perf-contract.md`): a teardown that
  raises after it loses the run; `VerdictIsEarned` speaks of runs that are written.
- with `strict_slo` and `abort_on_fail` a skipped check ends the sweep and fails
  the run, while the recorded verdict may be a pass; `VerdictIsEarned` asks for both.
- "a missing read never lets a trial count as confirmed capacity" (`slo.py:10`): a
  hold in which no request ended has an error rate of 0, which is not missing.
  `ClaimsAreEarned` lets such a hold count, as the code does.
- consistently observes its window: Go returns when the window closes, without a
  sample at its end, Python takes one. In both, a check that is slow may end after
  the deadline of the phase, and the phase then errors (`WaitsTellTheTruth` allows
  one call and one wake-up).
- "blank line terminates an event" (`sse_parser.py`): one without data keeps its
  name and id, and the next event gets them. `StreamIsLossless` is about events
  that have data, with the name the parser gives them.
- a tool call that a model message asks for and a tool span carries out is read
  twice by the OTel loader (`otel_json.py:171`, `_tool_calls.py:54`); the
  properties count what the loader reads.
- a run directory is overwritten file by file (`pipeline.py:66-74`) and never emptied:
  the verdict of the run before, a pass perhaps, stays beside the new `run.json` until
  the new verdict is written, or for good if the rerun dies or raises. And a rerun that
  dies after `dataset.json` leaves the old `run.json` beside it, which loads if the
  version is the same and no trajectory is missing. `PublishedRunIsSound` says what a
  pass in the directory is worth then: it was given for checks that passed, and its time
  of creation tells whether it is of the run beside it.
- `retry` may be told that an error is not worth another try (`temporal.py:31`,
  `poll.go:44`): `Fault` lets a failed call end it or not.
- primaries that are each other's parents do not stop the assembly, but no root
  leads to them; `NothingIsLost` asks for reachability without cycles only.

### Fairness

Weak fairness only. The event loop runs every ready task, a timer that is due
fires, a cancellation is delivered: each is a guarantee
of the runtime. Two assumptions are on the user's code and are named where they
are made: a call behind the gate and a prepare end (`RateGate`, `EvalRun`), and
the hooks of a perf run return (`PerfRun`). The drivers need neither: `TrialStops`
holds with requests that never end. `EventuallyComplete` further assumes that the
user runs the experiment again, faults are finite and a disk outage ends. The runs
over data (`trajectory`, `trace`, `perf_numbers`, `case_tools`) check safety only;
that a wait ends is there the bound on its time.

## 4. What is proved

`RateGateProofs` proves for every finite set of coroutines, every number of
attempts and every `MinLimit <= InitLimit <= MaxLimit` with `MinLimit >= 1`
(assumption `GateAssumption` of `RateGate`; the registry's constants, 4 and 8
within 1..64, satisfy it):

- `GateTypeCorrect`, `GateStreak`: the limit stays in its range and, below the
  maximum, the success streak is short of it. Halving is the one arithmetic
  fact (`HalvingInRange`).
- `GateSlots`: `inflight` is the number of slot owners. It needs to be known
  that a slot owner set is finite and how each action changes it
  (`AdmitHolders`, `ReleaseHolders`, `OtherHolders`).
- `GateNoLostWakeup`: a waiter always leaves a slot owner to wake it. Not
  inductive alone: that the limit is at least 1 and equality of counter and
  owners are what make an owner exist when somebody has to wait.
- `GateStarts`, `GateImplementsLimiter`: from the conjunction of these, each
  step starts a call only under the limit, and maps to a step of `Limiter` or a
  stutter.
- `GateSound` is their conjunction, the property `GateIsSound` of the run.

`CaseProofs` proves of the lifecycle, for every finite set of cases, every plan of phases
(`execute` always in it), every set of cases without an e2e face or broken, both
languages and with or without steps that unwind (assumption `CaseAssumption`):

- `CaseTypeCorrect`, then the invariant `CaseInv`, which is what the lifecycle
  keeps per case. Neither `PassMeansJudged` nor `PhaseOrder` is inductive: that a
  pass was judged needs that every planned phase behind the case has a result
  unless it was blocked (`EverythingBehind`), and that whatever blocks also spoils
  the status (`Blocks`); that an execute passed before a judge needs that nothing
  ahead of the case has a result (`NothingAhead`). Each action is one lemma about
  the case it moves (`BeginFits`, `PassOverFits`, `RunPhaseFits`, `UnwindFits`,
  `RecordFits`) and `OnlyTouches`, `UntouchedFits` for the others.
- `CaseStatusIsWorst`, `CasePassMeansJudged`, `CaseErrorIsExplained`,
  `CasePhaseOrder`: consequences of `CaseInv`.
- `CaseVerdictIsHonest`: from `VerdictInv` (nothing is written before the run
  ends; Go's exit code remembers each failure that was recorded).
- `CaseOutcomeIsHonest`: the conjunction that the run checks as `OutcomeIsHonest`.

`OpenLoopProofs` proves, for every finite set of arrivals, every burst, cap and
breaker, with and without a graceful stop (assumption `OpenAssumption`):

- `OpenInflight`: the counter is the number of requests in flight. Inductive
  alone, from how each action moves the set it counts (`FireStartsSets`,
  `FireEndsSets`, `CutSets`, `CancelSets`).
- `OpenTypeCorrect`: from that, the counter stays within the number of arrivals.
- `OpenCensus`: the census holds only at the end, so the invariant `Stages` says
  how it gets there: nothing is cut before the cancel, no task is created and
  none flies uncancelled after it, and the drain only shrinks what was in flight
  at the stop. `CancelInv` and `WindDownInv` cover the three ways to the cancel.
- `OpenAbortIsJustified`: what the breaker judged stays judged (`JustifiedStays`).
- `OpenCountersAddUp`: the conjunction of these, `CountersAddUp` of the run.
- `OpenImplementsTrial`: the driver implements `LoadTrial`, the driver that
  `PerfRun` is composed with. A fire that starts is a `Dispatch`, one that ends a
  `Complete`, a cut one a `Cancel`; a tick and the end of a drain stutter.

- `OpenOverCapByABurst`: `max_inflight` is exceeded by less than one tick of
  arrivals. Inductive with the set of created and flying requests, which only a
  tick enlarges (`BusyShrinks`).

`ClosedLoopProofs` proves, for every number of user loops and requests, every
pacing, breaker and schedule (assumption `ClosedAssumption`):

- `ClosedUsersAddUp`. Only `Conservation` of its parts is close to inductive.
  `Supervised` adds what the supervisor's list is: users are made in order, the list
  has no duplicates, holds everyone who may still send, and is as long as the target.
  `Stages` adds what the stop leaves: nobody is created after it, nobody flies
  uncancelled after the cancel, and what was interrupted is what was cut since.
- `ClosedImplementsTrial`: the driver implements `LoadTrial` but for
  `ReturnsBesideRetired`; `ClosedSteadyIsTrial`: with schedules that never fall it is
  `LoadTrial` without exception (the last three parts of `Supervised` and `Stages`).

`PerfRunProofs` proves, for every number of arms, resource profiles, SLOs, strict
or not, and every bound on requests (assumption `PerfAssumption`):

- `PerfInv`: what each phase has behind it. `FewErrors` (no error before the finally
  clause, one more by the observer and one by cleanup), `ObserverRuns`, `Quiet` (no
  request in flight after the driver, but where the trial was interrupted), `Leftovers` (a request
  beside which a driver returned is of an arm whose schedule falls),
  `Interrupt`, `Recorded` (one record per arm behind) and `Gate` (the gate is the
  conjunction of the records; the sweep went on only past records that do not stop it).
- `PerfCleanBaseline`, `PerfVerdictIsEarned`: consequences of `PerfInv`. The verdict
  is a function of all the records, so `Gate` is what relates it to the exit code.
- `PerfAlwaysCleansUp`: per action, no invariant needed.

`EvalRunProofs` proves, for every set of keys, rows and metrics, every bound on
answers and faults (assumption `EvalAssumption`; `NoFileAssumption`: the value that
stands for "no file" is not a worksheet):

- `EvalSheetIsSound`. That a score is of the answer in its row is not inductive: a
  score is written by a task that was handed its sample when it was created.
  `Tasks` ties each task to the cell it is for, which is not OK while the task lives,
  so that nobody else writes it or what it depends on; `SoundSheets` says the same of
  the file, as a resume reads it; `Tried` counts a cell without a task as tried
  unless an exception is on its way out.
- `EvalEndKeepsWork`, `EvalImplementsProgress`: `Kept` is what they need, that a
  process has in memory whatever is on disk, unless it was told to start afresh.
- `EvalSolvesOnLiveSubject`: without teardown each solve meets the resource of its
  key (`LiveInv`: every OK provision cell, in memory and on disk, is of the resource
  that exists). `eval_teardown` shows that the hypothesis is needed.

`CaseProofs` proves of waits and streams, for every deadline, interval, window, slowness and
lateness, every number of Pods and events, and every plan of helpers (assumptions
`WaitAssumption`; `PlansAssumption`: a plan is a non-empty sequence of helpers):

- `CaseWaitsWereWatched`: what a wait found was true of a moment since it asked, one
  that timed out overlooked nothing that held longer than `Blind`, and consistently
  watched its window. `edges` is the history of what is waited for. The invariant
  `Watched` bounds how long a moment may have lasted unseen by where the helper is
  (`Unseen`): a call in flight, an answer not yet looked at, a sleep; a call that the
  server failed extends the bound by one round. `Pods` says that names and UIDs are
  not confused, so that a sample answers the question that was asked.
- `CaseWaitsTellTheTruth`: with that, the whole of `WaitsTellTheTruth`, for plans
  that satisfy `ActsFirst`: a helper that looks at the deadline only between two
  calls (`poll`, `retry`, `consistently`), or that deletes, comes first. `Timely` is the invariant.
  The hypothesis is needed: a helper called after another one may begin when the
  deadline is over, and a delete after a wait may be aimed at a Pod that the snapshot
  of the step never saw. The plans of the run satisfy it.
- `CaseStreamIsLossless`: for every set of bytes, meaning of them, length of an answer
  and of its chunks (`ChunkAssumption`: the bound on a chunk is a natural number). The
  property compares what the code computes, a byte and a line at a time, with the
  events of the text by their definition, which looks at the whole text. `StreamInv`
  is what the two have in common in between: the buffer holds the text after its last
  line end, the parser the event that is open after the complete lines. The lemmas say
  what one more byte changes (`RestGrows`, `LinesGrow`) and one more line
  (`EarlierStay`, `PendingGrows`, `EventsGrow`), and that an event is open exactly if
  data came since the last one (`DataIsPending`); `BufferAgrees` and `ParseAgrees` go
  over a chunk and its lines. This is induction over data, done without the library's
  induction theorems: a set that contains 0 and is closed under + 1 contains the interval
  (`IntervalInduction`), and a fold is a chain of its intermediate results
  (`BufferChain`, `ParseChain`).

`TrajectoryRunProofs` proves, for every sequence of recordings, every set of broken
plugins, every policy and number of reruns, of every recording that is sound
(`PoliciesAssumption`: a policy returns a list of checks; `TraceIdsAssumption`: the ids
of traces, in their order as strings; `RecordingsAssumption`: the recordings are a sequence; a recording holds its spans, or
its trajectories and their steps, in sequences, its times, sizes and counts are numbers
and the steps of a trajectory have an id each. The code makes it so:
`make_atif_trajectory`, `model.py:247-250`, numbers the steps from 1):

- `TrajectoryPublishedRunIsSound`. A pass may stand in the directory in any phase of
  a later run, so the invariant says of each file whose it may be. `RunInv`: in each
  phase how many recordings were read or are an issue (`Counted`), whose analysis there
  is (`AnalyzedSoFar`), which files are of this run and which may be of an earlier one
  (`Written`), what a pass in `verdict.json` was given for (`Earned`) and that the verdict
  is never of a later run than `run.json`, nor that of a run yet to come (`Dated`), and that each
  result is the analysis of a trajectory that was loaded (`Analyses`). What the OTel
  loader makes of sound spans are sound steps (`OtelLoadsSound`).
- `TrajectoryDetectorsAgree`. With `Analyses` it is about one analysis
  (`AnalysisAgrees`): a refetch and an unchanged retry are two calls of the same
  signature, so that the later one of them in recorded order repeats an earlier one
  (`RefetchRepeats`, `UnchangedRepeats`, `LaterRepeats`), and a step with such a call is
  in the evidence. The verifier and the detector read the same list of retries, one
  its length and the other its members (`ThresholdVerdict`, `UnchangedEvidence`).
- `TrajectoryMeasurementsAreExact`. `ConcurrencyIs`: after each event of the sweep the
  level is the number of calls that run then (`LiveCount`), so its peak is `Overlap`
  (`PeakIs`), an end sorted before a start of the same moment being what makes it so.
  `ChangesCounted` and `ChangesAddUp`: the steps in start order are read off by their
  positions (`InOrderIs`, `ReductionsRead`), and the neighbours of a compact step there
  are its nearest model calls (`NearestPlaces`). `ModelUsageExact`, `RetryUsageExact`:
  the sum over a part of the calls is never above the sum over all (`SumFewer`).

`TrajectoryMetricsProofs` proves under the same assumptions:

- `TrajectoryMetricsAddUp`. The property is about the moment when the metrics are
  there; `MetricsInv` adds to `RunInv` that the trajectories of the dataset hold as many
  failures as the recordings read so far tell of (`FailuresRead`), and that the metrics,
  once made, are of this dataset (`AddsUp`). Neither half is a matter of course. A
  span of an OTel recording becomes a step only if it says what it did, and each step
  goes to the trajectory of its trace: `TracesCover` says that the traces part the
  spans, `StepFails` that a step keeps the failure of its span, `OtelFailures` that what
  is lost is what `Failures` leaves out. The metrics are a set of named values, of which
  `MetricsAre` says what kinds there are, so that a sum over one name is a sum over its
  keys (`SumOfMetrics`): over targets for trajectories (`TrajectoriesAddUp`), over pairs
  of a target and a failure for failures (`FailuresAddUp`, from `SumByKey` and
  `OccurrencesAddUp`: a sequence is as long as its distinct members occur).
  `HealthFits`: applicable and in error are statuses that exclude each other.
  `PercentilesInOrder`: what a percentile picks from the sorted values rises with its
  rank, which needs that what the measurers report are numbers (`MeasuredNumeric`).

Three parts of `TrajectoryRunProofs` are of use beyond it: sequences given by the rank of their
elements (`ArrangedIs`, `TimedIs`, `PickedIs`), flattening as a chain (`FlatChain`),
and sums over finite sets. `IsSum` says that a number is the sum of f over S by a
witness, `SumExists` and `TotalIs` that the folds of the library compute it, by
induction over the subsets of a finite set (`SubsetInduction`, from the one over
intervals). The prover takes `SelectSeq`, `SetToSortSeq` and `@@` of the library as
unknown functions, which is why `TrajectoryAnalysis` has `Selected`, `Ordered` and
`++`, the same by a definition that can be expanded.

What TLAPS does not reach here is only model-checked:

- Liveness (`TrialStops`, `RunEnds`, `EveryAttemptEnds`, `EventuallyComplete`): the
  prover has neither the fairness rules nor ENABLED.
- What an algorithm over recorded data computes, in `trace` and in `perf_numbers`.
  It rests on operators of the library that are closed to the prover and on recursion
  over the tree of a trace; the library's induction theorems take an operator as a
  parameter, which the installed provers cannot instantiate, and the way around it
  taken for the stream and for the sums has not been gone for them.

## 5. Plan

1. Done: the modules above. The promises `Limiter`, `DurableProgress` and
   `LoadTrial` with what implements them; the case with what its steps wait and read
   with; the perf numbers from the tick to the report; the trace harness in both
   languages; the trajectory harness.
2. Proved: every safety property of the runs whose state machine is concurrent or
   fails (gate, eval run, case, waits, both drivers, engine, trajectory run), every
   refinement, the stream parsers against their definition, what the measurers and
   detectors of the trajectory harness compute and what its metrics add up to.
   Next: that paging through a changing index loses only what `NothingIsLost` names.
3. Left to model: the TypeScript drivers as a second implementation of `LoadTrial`
   (they count a request when it is created, which should keep the cap exactly);
   the LLM client; eval metrics and report as folds over the worksheet of `EvalRun`;
   the layered configuration of e2e; the JSON and command runners.

## 6. What is not modelled

Parsing and layout (configuration, ingest, pages of a report, the interactive view,
code generation) have no behaviour over time and no property that a reader of the
file would not see. The HTTP, Kubernetes, helm and LLM calls are external and
appear as an outcome, and the text of `kubectl` and PromQL as the rows it carries.

- Perf: the schedule between two levels of a ramp is sampled at whole units; derived
  metrics, the YAML of an experiment, rounding for display.
- Trace: probes, the budget over many traces, display and tool names, `model/ir.py`,
  the CLI and the interactive page.
- Trajectory: the pages of the report and the comparison with earlier runs.
- Toolbox: events and the opening of a client. Cases: coverage and the compiler.
- LLM client: a retry loop whose semaphore is held by an `async with` around one
  await; no path leaves it taken.

Two processes that run the same eval experiment at once overwrite each other's
checkpoint; the code has no lock and makes no promise, so there is no property.
With `strict_slo` the exit code may be 1 while the verdict is a pass: the
conventions say that the two gates differ, so `VerdictIsEarned` asks only for the
other direction there.
