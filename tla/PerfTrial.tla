----------------------------- MODULE PerfTrial ------------------------------
(***************************************************************************)
(* One measured trial of perf_harness and what becomes of its numbers:     *)
(* requests, the observer's ticks and the faults of the service interleave *)
(* on one clock until the trial stops (engine.py, observe_loop); then the  *)
(* trial is aggregated, judged, written file by file and reported.         *)
(*                                                                         *)
(* PerfRun has the order of the hooks and their failures, OpenLoop and     *)
(* ClosedLoop the drivers; here the order is fixed and the driver sends    *)
(* what it may, so that the data of PerfMetrics .. PerfReport comes from   *)
(* the states they are computed in.  A scenario says what may happen.      *)
(***************************************************************************)
EXTENDS PerfReport

CONSTANTS Scenarios,     \* [arm, probes, declared, past, slo, outcomes, fires,
                         \*  pods, broken, faults, raises]
          Interval,      \* observe_interval_s
          GracefulStop,  \* graceful_stop_s
          CooldownS,     \* cooldown_s
          KneeErrRate    \* knee_err_rate

VARIABLES
  scenario,  \* what is run
  phase,     \* where _run_trial and write_run are
  clock,     \* the time since t0
  env,       \* the requests sent and the service they are sent to
  store,     \* ProbeStore
  failures,  \* the failed ticks of each probe
  ticks,     \* history: what was true at each tick, and which probes read it
  faults,    \* faults so far
  stop,      \* TrialStop
  end,       \* measurement_end_s
  cooldown,  \* <<cooldown_start_s, cooldown_end_s>>, Absent while unknown
  errors,    \* phase_errors
  trials,    \* Run.trials
  disk       \* run.json, outcomes.jsonl, timeseries.csv: Absent or what it says

vars == <<scenario, phase, clock, env, store, failures, ticks, faults, stop, end, cooldown,
          errors, trials, disk>>
measured == <<store, failures, ticks>>
record == <<stop, end, cooldown, errors>>
kept == <<trials, disk>>

Arm == scenario.arm
Load == Arm.load
Probes == scenario.probes

Init ==
  /\ scenario \in Scenarios
  /\ phase = "measurement" /\ clock = 0
  /\ env = [requests |-> <<>>, served |-> 0, lifetime |-> 0, life |-> 0,
            rows |-> <<<<>>>>, pods |-> scenario.pods[1]]
  /\ store = <<>> /\ failures = <<>> /\ ticks = <<>> /\ faults = 0
  /\ stop = [reason |-> "aborted", snapshot |-> Absent, interrupted |-> 0]
  /\ end = 0 /\ cooldown = Absent /\ errors = <<>>
  /\ trials = scenario.past /\ disk = [model |-> Absent, outcomes |-> Absent, rows |-> Absent]

-----------------------------------------------------------------------------
(* The requests. *)

Ends(r) == r.t * Second + r.outcome.ms
Flying(r) == ~r.outcome.dropped /\ Ends(r) > clock * Second

\* A request is recorded when it has ended; one that was cut never is.
Timed ==
  Each(SelectSeq(env.requests, LAMBDA r : ~Flying(r) /\ r.outcome.kind # "cut"),
       LAMBDA r : [t |-> r.t, outcome |-> r.outcome])

\* The level of the load now, between two levels on a ramp.
LevelNow ==
  LET i == Min({j \in DOMAIN Load.stages : clock < StageEnd(Load, j)})
      from == IF i = 1 THEN Load.start ELSE Load.stages[i - 1].to
      stage == Load.stages[i]
  IN  IF stage.kind = "hold" THEN stage.to
      ELSE from + ((stage.to - from) * (clock - StageEnd(Load, i - 1))) \div stage.over

\* In a closed loop a user without a request sends one at once.
Idle == /\ phase = "measurement" /\ Load.model = "closed" /\ clock < Duration(Load)
        /\ Count(env.requests, Flying) < LevelNow

Tripped ==
  LET sent == SelectSeq(Timed, LAMBDA r : ~r.outcome.dropped)
      wrong == Count(sent, LAMBDA r : ~r.outcome.ok)
  IN  /\ Load.threshold # Absent /\ Len(sent) >= Max({1, Load.minN})
      /\ AtMost(Load.threshold, <<wrong, Len(sent)>>)

Fire ==
  /\ phase = "measurement" /\ clock < Duration(Load) /\ ~Tripped
  /\ IF Load.model = "closed" THEN Idle
     ELSE Len(env.requests) < scenario.fires /\ ~Some(env.requests, LAMBDA r : r.t = clock)
  /\ \E o \in scenario.outcomes :
       env' = [env EXCEPT !.requests = Append(@, [t |-> clock, outcome |-> o]),
                          !.served = IF o.ok THEN @ + 1 ELSE @,
                          !.lifetime = IF o.ok THEN @ + 1 ELSE @]
  /\ UNCHANGED <<scenario, phase, clock, measured, faults, record, kept>>

-----------------------------------------------------------------------------
(* The observer. *)

Due == clock >= IF ticks = <<>> THEN 0 ELSE Last(ticks).t + Interval
Observing == phase \in {"measurement", "drain", "cooldown", "observer"}

\* One tick; a probe whose service does not answer in time raises.
Tick(lost) ==
  LET reading(p) == IF p.name \in lost THEN Raises ELSE Sample(p, env, clock)
      readings == [n \in { Probes[i].name : i \in DOMAIN Probes } |->
                     reading(Probes[CHOOSE i \in DOMAIN Probes : Probes[i].name = n])]
  IN  /\ store' = FoldLeft(LAMBDA s, p : Record(s, p, readings[p.name], clock), store, Probes)
      /\ failures' = CountFailures(failures, readings)
      /\ ticks' = Append(ticks, [t |-> clock, life |-> env.life, lifetime |-> env.lifetime,
                                 served |-> env.served, pods |-> env.pods,
                                 ok |-> {n \in DOMAIN readings : readings[n].ok}])

SomeTick ==
  \E lost \in IF faults < scenario.faults THEN {{}, scenario.broken} ELSE {{}} :
    Tick(lost) /\ faults' = IF lost = {} THEN faults ELSE faults + 1

Observe ==
  /\ phase \in {"measurement", "drain", "cooldown"} /\ Due
  /\ SomeTick
  /\ UNCHANGED <<scenario, phase, clock, env, record, kept>>

-----------------------------------------------------------------------------
(* The service. *)

Faulty == Observing /\ faults < scenario.faults /\ faults' = faults + 1

\* The server is replaced by one that counts from zero.
ServerRestarts ==
  /\ Faulty
  /\ env' = [env EXCEPT !.served = 0, !.life = @ + 1]
  /\ UNCHANGED <<scenario, phase, clock, measured, record, kept>>

\* Its pods change, or its /metrics comes with other rows.
ClusterChanges ==
  /\ Faulty
  /\ \/ \E pods \in Range(scenario.pods) \ {env.pods} : env' = [env EXCEPT !.pods = pods]
     \/ env' = [env EXCEPT !.rows = IF @ = <<<<>>>> THEN <<<<>>, <<>>>> ELSE <<<<>>>>]
  /\ UNCHANGED <<scenario, phase, clock, measured, record, kept>>

\* Time goes on when nothing is due; others call the service as well.
Advance ==
  /\ phase \in {"measurement", "drain", "cooldown"} /\ ~Due /\ ~Idle
  /\ CASE phase = "measurement" -> clock < Duration(Load) /\ ~Tripped
       [] phase = "drain" -> Some(env.requests, Flying) /\ clock < end + GracefulStop
       [] phase = "cooldown" -> clock < cooldown[1] + CooldownS
  /\ clock' = clock + 1
  /\ env' = [env EXCEPT !.served = @ + 1, !.lifetime = @ + 1]
  /\ UNCHANGED <<scenario, phase, measured, faults, record, kept>>

-----------------------------------------------------------------------------
(* The end of the measurement. *)

\* The schedule is over, or the breaker trips.
Stop ==
  /\ phase = "measurement"
  /\ \/ /\ ~Tripped /\ clock >= Duration(Load)
        /\ stop' = [stop EXCEPT !.reason = "deadline"]
     \/ /\ Tripped
        /\ LET sent == SelectSeq(Timed, LAMBDA r : ~r.outcome.dropped)
               wrong == Count(sent, LAMBDA r : ~r.outcome.ok)
           IN  stop' = [stop EXCEPT !.reason = "error_rate",
                          !.snapshot = [at |-> Seconds(clock), sent |-> Len(sent), errors |-> wrong,
                                        rate |-> <<wrong, Len(sent)>>,
                                        threshold |-> Load.threshold]]
  /\ end' = IF stop'.snapshot = Absent THEN Duration(Load) ELSE clock
  /\ phase' = "drain"
  /\ UNCHANGED <<scenario, clock, env, measured, faults, cooldown, errors, kept>>

\* What is still in flight when the grace is over is cut.
Driven ==
  /\ phase = "drain" /\ ~Due
  /\ Some(env.requests, Flying) => clock >= end + GracefulStop
  /\ stop' = [stop EXCEPT !.interrupted = Count(env.requests, Flying)]
  /\ env' = [env EXCEPT !.requests = Each(@, LAMBDA r :
                IF ~Flying(r) THEN r
                ELSE [r EXCEPT !.outcome.kind = "cut", !.outcome.ms = (clock - r.t) * Second])]
  /\ phase' = "deactivate"
  /\ UNCHANGED <<scenario, clock, measured, faults, end, cooldown, errors, kept>>

\* drive raises: the measurement ends here.
DriveRaises ==
  /\ phase = "measurement" /\ scenario.raises /\ clock > 0
  /\ errors' = <<"measurement">> /\ end' = clock /\ phase' = "observer"
  /\ UNCHANGED <<scenario, clock, env, measured, faults, stop, cooldown, kept>>

Deactivate ==
  /\ phase = "deactivate"
  /\ \/ /\ phase' = IF CooldownS > 0 THEN "cooldown" ELSE "observer"
        /\ cooldown' = IF CooldownS > 0 THEN <<clock>> ELSE Absent
        /\ UNCHANGED errors
     \/ /\ scenario.raises
        /\ errors' = <<"deactivate">> /\ phase' = "observer" /\ UNCHANGED cooldown
  /\ UNCHANGED <<scenario, clock, env, measured, faults, stop, end, kept>>

Cooldown ==
  /\ phase = "cooldown" /\ ~Due /\ clock >= cooldown[1] + CooldownS
  /\ phase' = "observer"
  /\ UNCHANGED <<scenario, clock, env, measured, faults, record, kept>>

\* The observer's last tick, taken after stop was set, then cleanup.
FinalTick ==
  /\ phase = "observer"
  /\ SomeTick
  /\ clock' = clock + 1
  /\ cooldown' = IF cooldown = Absent THEN Absent ELSE <<cooldown[1], clock'>>
  /\ phase' = "aggregate"
  /\ UNCHANGED <<scenario, env, stop, end, errors, kept>>

-----------------------------------------------------------------------------
(* The record, the gate and the files. *)

\* _aggregate; a trial with a phase error is not judged.
Judge ==
  /\ phase = "aggregate"
  /\ LET trial == Aggregate(Arm, Timed, Probes, store, failures, Len(ticks), end, cooldown,
                            scenario.declared)
     IN  trials' = Append(trials,
           [slo |-> IF errors = <<>> THEN EvaluateSlo(trial, scenario.slo) ELSE <<>>,
            stop |-> stop, phaseErrors |-> errors] @@ trial)
  /\ phase' = "model"
  /\ UNCHANGED <<scenario, clock, env, measured, faults, record, disk>>

WriteModel ==
  /\ phase = "model"
  /\ disk' = [disk EXCEPT !.model = Each(trials, TrialJson)]
  /\ phase' = "outcomes"
  /\ UNCHANGED <<scenario, clock, env, measured, faults, record, trials>>

WriteOutcomes ==
  /\ phase = "outcomes"
  /\ disk' = [disk EXCEPT !.outcomes = OutcomeRows(trials)]
  /\ phase' = "rows"
  /\ UNCHANGED <<scenario, clock, env, measured, faults, record, trials>>

WriteRows ==
  /\ phase = "rows"
  /\ disk' = [disk EXCEPT !.rows = TimeseriesRows(trials)]
  /\ phase' = "written"
  /\ UNCHANGED <<scenario, clock, env, measured, faults, record, trials>>

\* The process is killed between two files; whoever reads them starts anew.
Crash ==
  /\ phase \in {"outcomes", "rows"}
  /\ phase' = "crashed"
  /\ UNCHANGED <<scenario, clock, env, measured, faults, record, kept>>

Rests == phase \in {"written", "crashed"} /\ UNCHANGED vars

Next == Fire \/ Observe \/ ServerRestarts \/ ClusterChanges \/ Advance \/ Stop \/ Driven
        \/ DriveRaises \/ Deactivate \/ Cooldown \/ FinalTick \/ Judge \/ WriteModel
        \/ WriteOutcomes \/ WriteRows \/ Crash \/ Rests

Spec == Init /\ [][Next]_vars
-----------------------------------------------------------------------------
Judged == phase = "model"
Mine == Last(trials)
StageWindows(trial) == SelectSeq(trial.windows, LAMBDA w : w.kind \in {"ramp", "hold"})
Inside(t, w) == w.start <= t /\ t < w.end
Sum(seq, Of(_)) == Total(Each(seq, Of))

(* Engine._aggregate: the windows of the stages split the measurement.     *)
(* They cover it without a gap or an overlap, every request sent in it is  *)
(* counted in one of them and in one group of its case, none that was sent *)
(* in the warmup is, and every failure has a kind.                         *)
WindowsPartition ==
  Judged =>
    LET whole == Measurement(Mine)
        stages == StageWindows(Mine)
        sum(f) == Sum(stages, LAMBDA w : w.request[f])
        groups(w) == Sum(Listed(DOMAIN w.byCase), LAMBDA c : w.byCase[c].n + w.byCase[c].dropped)
    IN  /\ Sum(stages, LAMBDA w : w.end - w.start) = whole.end - whole.start
        /\ \A i \in 1 .. (Len(stages) - 1) : stages[i].end = stages[i + 1].start
        /\ \A f \in {"n", "nOk", "dropped"} : sum(f) = whole.request[f]
        /\ \A r \in Range(Mine.outcomes) :
             Cardinality({i \in DOMAIN stages : Inside(r.t, stages[i])})
               = IF r.t >= Load.warmup /\ r.t < end THEN 1 ELSE 0
        /\ \A w \in {whole} \cup Range(stages) :
             LET fired == SelectSeq(Timed, LAMBDA r : Inside(r.t, w))
             IN  /\ groups(w) = Len(fired) /\ w.request.n + w.request.dropped = Len(fired)
                 /\ FoldFunction(+, 0, w.request.errors) = w.request.n - w.request.nOk
                 /\ \A k \in DOMAIN w.byFacet :
                      Sum(Listed(DOMAIN w.byFacet[k]), LAMBDA v : w.byFacet[k][v].n)
                        = Count(fired, LAMBDA r : ~r.outcome.dropped /\ k \in DOMAIN r.outcome.facets)

-----------------------------------------------------------------------------
TicksIn(w, probe) == SelectSeq(ticks, LAMBDA k : Inside(k.t, w) /\ probe.name \in k.ok)
ProbesOf(family) == {p \in Range(Probes) : p.family = family}
Steady(seen) == {i \in 1 .. (Len(seen) - 1) : seen[i].life = seen[i + 1].life}
Pod(pods, name) == SelectSeq(pods, LAMBDA p : p.name = name)

(* metric/reduce.py, observe_loop: what a window says of a service is what *)
(* was true at the ticks its probe read in it.  A counter that was reset   *)
(* is at least what it rose by within the lives of the server and never    *)
(* more than what was served; a gauge's last value is the one the last     *)
(* tick read; with no tick read there is no value.                         *)
SeriesTellTheTruth ==
  Judged => \A w \in {x \in Range(Mine.windows) : x.kind # "cooldown"} :
    /\ \A p \in ProbesOf("metrics") :
         LET seen == TicksIn(w, p)
             sid == <<"metrics.req_total", p.labels>>
             s == w.probes[sid]
             rise(i) == seen[i + 1].lifetime - seen[i].lifetime
         IN  /\ (sid \in DOMAIN w.probes) <=> (seen # <<>>)
             /\ seen # <<>> => Same(s.stats.total, Whole(Last(seen).served))
             /\ Len(seen) >= 2 =>
                  /\ AtMost(Whole(MapThenSumSet(rise, Steady(seen))), s.stats.increase)
                  /\ AtMost(s.stats.increase, Whole(Last(seen).lifetime - seen[1].lifetime))
                  /\ "counter_reset" \in s.caveats => \E i, j \in DOMAIN seen : seen[i].life # seen[j].life
    /\ \A p \in ProbesOf("pods") :
         LET seen == TicksIn(w, p)
             sid == <<"pods.count", p.labels @@ [state |-> "active"]>>
         IN  /\ (sid \in DOMAIN w.probes) <=> (seen # <<>>)
             /\ seen # <<>> => Same(w.probes[sid].stats.last, Whole(PodCounts(Last(seen).pods).active))
    /\ \A p \in {x \in ProbesOf("top") : x.perPod} :
         \A name \in UNION { { pods[i].name : i \in DOMAIN pods } : pods \in Range(scenario.pods) } :
           LET seen == SelectSeq(TicksIn(w, p), LAMBDA k : Pod(k.pods, name) # <<>>
                                                          /\ Pod(k.pods, name)[1].mem # None)
               sid == <<"top.mem_mi", p.labels @@ [pod |-> name]>>
           IN  /\ (sid \in DOMAIN w.probes) <=> (seen # <<>>)
               /\ seen # <<>> => Same(w.probes[sid].stats.last, Whole(Pod(Last(seen).pods, name)[1].mem))

(* What the cooldown's references are about, at one tick.                  *)
TruthOf(ref, tick) ==
  CASE ref.name = "pods.count" -> Whole(PodCounts(tick.pods)[ref.labels.state])
    [] ref.name = "top.mem_mi" ->
         LET pod == Pod(tick.pods, ref.labels.pod)
         IN  IF pod = <<>> \/ pod[1].mem = None THEN Absent ELSE Whole(pod[1].mem)

(* docs/metric-model.md: the cooldown is the proof of recovery.  A check   *)
(* of it passes or fails by the state the service was in at the last tick  *)
(* of all, and is skipped unless the probe read every tick of the cooldown *)
(* and the series was still there at the last.                             *)
RecoveryIsObserved ==
  Judged => \A c \in {x \in Range(Mine.slo) : x.assertion.window.kind = "cooldown"} :
    LET ref == c.assertion.ref
        probe == CHOOSE p \in Range(Probes) : p.family = ref.prefix
        during == SelectSeq(ticks, LAMBDA k : cooldown # Absent /\ k.t >= cooldown[1])
        truth == TruthOf(ref, Last(ticks))
        seen == /\ during # <<>> /\ \A i \in DOMAIN during : probe.name \in during[i].ok
                /\ truth # Absent
    IN  c.state = IF ~seen THEN "skipped" ELSE IF Compare(truth, c.assertion) THEN "pass" ELSE "fail"

-----------------------------------------------------------------------------
(* Whether the requests of one hold kept a limit on the tail or on the     *)
(* errors, counted request by request.                                     *)
Keeps(a, os) ==
  LET of == SelectSeq(os, LAMBDA o : \A k \in DOMAIN a.ref.labels :
                                        k \in DOMAIN o.facets /\ o.facets[k] = a.ref.labels[k])
      sent == SelectSeq(of, LAMBDA o : ~o.dropped)
  IN  /\ a.ref.labels # <<>> => of # <<>>
      /\ CASE a.ref.name = "p99_ms" -> \A i \in DOMAIN sent : Below(Whole(sent[i].ms), a.high)
           [] a.ref.name = "error_rate" ->
                sent # <<>> => AtMost(<<Count(sent, LAMBDA o : ~o.ok), Len(sent)>>, a.high)

(* The levels a trial earned: of the holds driven to their planned end.    *)
Earned(trial) ==
  LET load == trial.arm.load
      about(i) == SelectSeq(scenario.slo, LAMBDA a : SelectsStage(a.window, load.stages[i]))
      from(i) == Max({StageEnd(load, i - 1), load.warmup})
      during(i) == Each(SelectSeq(trial.outcomes, LAMBDA r : from(i) <= r.t /\ r.t < StageEnd(load, i)),
                        LAMBDA r : r.outcome)
  IN  { load.stages[i].to : i \in {j \in DOMAIN load.stages :
          /\ load.stages[j].kind = "hold" /\ trial.phaseErrors = <<>>
          /\ from(j) < StageEnd(load, j)
          /\ trial.stop.snapshot = Absent \/ AtMost(Seconds(StageEnd(load, j)), trial.stop.snapshot.at)
          /\ about(j) # <<>> /\ \A a \in Range(about(j)) : Keeps(a, during(j))} }

(* slo_aware_capacity: the capacity of a profile is the highest level that *)
(* a hold of it, measured to its end, kept every objective at; a request   *)
(* of the warmup, of another stage or one that was never sent has no say.  *)
CapacityIsEarned ==
  Judged => \A label \in DOMAIN SloAwareCapacity(trials) :
    LET levels == UNION { Earned(trials[i]) : i \in {j \in DOMAIN trials : Label(trials[j]) = label} }
    IN  SloAwareCapacity(trials)[label] = IF levels = {} THEN None ELSE Max(levels)

(* What is claimed of a service, its recovery or its capacity, was observed *)
(* (docs/metric-model.md, slo_aware_capacity).                             *)
ClaimsAreEarned == RecoveryIsObserved /\ CapacityIsEarned

(* reduce.ts: for a trial that was measured to its stop, the TypeScript    *)
(* harness cuts the same windows, counts the same requests into the same   *)
(* statistics and, where no objective is declared, comes to the verdict.   *)
TwinsAgree ==
  Judged /\ errors # <<"measurement">> =>
    LET seen(w) == <<w.kind, w.start, w.end, w.complete, w.target, w.request, w.byCase, w.byFacet>>
        actual == IF stop.snapshot = Absent THEN clock ELSE end
        ours == SelectSeq(Mine.windows, LAMBDA w : w.kind # "cooldown")
        bare == Each(trials, LAMBDA t : [t EXCEPT !.slo = <<>>])
    IN  /\ Each(WindowsTs(Load, Timed, actual), seen) = Each(ours, seen)
        /\ VerdictStatusTs(trials) = VerdictStatus(bare)

\* What was written with a number of decimals is as near as they allow.
Near(r, s, scale) == LET apart == r[1] * s[2] - s[1] * r[2]
                     IN  2 * scale * Max({apart, 0 - apart}) <= r[2] * s[2]

SnapshotSurvives(read, taken) ==
  /\ read.reason = taken.reason /\ read.interrupted = taken.interrupted
  /\ (read.snapshot = Absent) = (taken.snapshot = Absent)
  /\ taken.snapshot # Absent =>
       /\ Near(read.snapshot.at, taken.snapshot.at, 100) /\ Near(read.snapshot.rate, taken.snapshot.rate, 10000)
       /\ <<read.snapshot.sent, read.snapshot.errors>> = <<taken.snapshot.sent, taken.snapshot.errors>>

OutcomesSurvive(rows, outcomes) ==
  /\ Each(rows, LAMBDA r : r.outcome) = Each(outcomes, LAMBDA r : r.outcome)
  /\ \A i \in DOMAIN outcomes : Near(rows[i].t, Seconds(outcomes[i].t), 1000)

(* runio.py: whatever was on disk when the process was killed, a run that  *)
(* can be read back has the verdict, the reason, the capacity and the      *)
(* stops of the run that was measured, with the time of a stop to a        *)
(* hundredth of a second; with all files also its analysis, its report and *)
(* its requests, in their order and with their times to a millisecond.     *)
RunSurvivesItsFiles ==
  disk.model # Absent =>
    LET run == LoadRun(disk)
    IN  /\ VerdictStatus(run) = VerdictStatus(trials) /\ VerdictReason(run) = VerdictReason(trials)
        /\ SloAwareCapacity(run) = SloAwareCapacity(trials)
        /\ \A i \in DOMAIN trials : SnapshotSurvives(run[i].stop, trials[i].stop)
        /\ phase = "written" =>
             /\ Analyze(run) = Analyze(trials)
             /\ Report(run, KneeErrRate) = Report(trials, KneeErrRate)
             /\ \A i \in DOMAIN trials : trials[i].outcomes # <<>> =>
                  OutcomesSurvive(LoadOutcomes(disk.outcomes)[trials[i].arm.id], trials[i].outcomes)

(* report/render.py, verdict.py: the banner of the report, worked out anew *)
(* from the trials, says what the recorded verdict says.                   *)
BannerIsVerdict ==
  Judged =>
    LET status == VerdictStatus(trials)
        banner == Banner(trials)
    IN  /\ banner = "ERROR" <=> status = "error"
        /\ banner = "FAIL" <=> status = "fail"
        /\ status = "pass" => banner \in {"PASS", "PASS with skipped"}
        /\ banner = "PASS" => status = "pass"

Reading(some) == {o \in Analyze(some) : o[1] # "validity"}

(* docs/result-semantics.md: a trial with a phase error is on no curve of  *)
(* the analysis if it was cut short, whichever phase raised, and is on all *)
(* of them as it would be without the error if it was not.                 *)
BrokenIsUnread ==
  Judged =>
    Reading(trials) = Reading(IF errors # <<>> /\ end < Duration(Load) THEN Front(trials)
                              ELSE [trials EXCEPT ![Len(trials)].phaseErrors = <<>>])

(* The report's reading of a run: its banner, and what its lenses leave.   *)
ReadingIsHonest == BannerIsVerdict /\ BrokenIsUnread

(* docs/result-semantics.md: only a trial whose measurement is complete,   *)
(* or that did not raise, is on the response curves of the report.         *)
BrokenIsUndrawn ==
  Judged => \A label \in DOMAIN ResponseCurves(trials) :
    \A point \in Range(ResponseCurves(trials)[label].requests) :
      \E i \in DOMAIN trials : OnCurve(trials[i]) /\ Level(trials[i]) = point[1]
=============================================================================
