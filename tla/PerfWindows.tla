----------------------------- MODULE PerfWindows -----------------------------
(***************************************************************************)
(* From what one trial recorded to its record, and from records to the     *)
(* verdict: Engine._aggregate, slo.py and verdict.py of perf_harness, with *)
(* buildWindows and serializeVerdict of its TypeScript twin.               *)
(*                                                                         *)
(* A load is [model, start, stages, warmup, threshold, minN]; a stage      *)
(* [over, to, kind, name].  Levels and instants are integers.              *)
(***************************************************************************)
EXTENDS PerfObserve

StageEnd(load, i) == Total([j \in 1 .. i |-> load.stages[j].over])
Duration(load) == StageEnd(load, Len(load.stages))
PeakLevel(load) == Highest(<<load.start>> \o Each(load.stages, LAMBDA s : s.to))

Outcomes(timed, w) == Each(Within(timed, w.start, w.end), LAMBDA r : r.outcome)
NoWindow == [id |-> "", name |-> "", kind |-> "", start |-> 0, end |-> 0, complete |-> FALSE,
             target |-> None, request |-> Absent, byCase |-> <<>>, byFacet |-> <<>>,
             probes |-> <<>>]

MeasurementWindow(load, end) ==
    [NoWindow EXCEPT !.id = "measurement", !.name = "measurement", !.kind = "measurement",
        !.start = load.warmup, !.end = Max({load.warmup, end}),
        !.complete = end >= Duration(load)]

CooldownWindow(from, to) ==
    [NoWindow EXCEPT !.id = "cooldown", !.name = "cooldown", !.kind = "cooldown",
        !.start = from, !.end = to, !.complete = TRUE]

StageWindow(load, i, end) ==
    [NoWindow EXCEPT !.id = "stage-" \o ToString(i - 1), !.name = StageLabel(load.stages[i]),
        !.kind = load.stages[i].kind, !.target = load.stages[i].to,
        !.start = Max({StageEnd(load, i - 1), load.warmup}),
        !.end = Min({StageEnd(load, i), end}),
        !.complete = end >= StageEnd(load, i)]

Lasts(w) == w.end > w.start

\* mutant: a stage begins where it was planned, the warmup notwithstanding
PlannedWindows(load, end) ==
    <<MeasurementWindow(load, end)>>
    \o SelectSeq([i \in DOMAIN load.stages |->
                    [StageWindow(load, i, end) EXCEPT !.start = StageEnd(load, i - 1)]], Lasts)

\* The measurement, and each stage as far as it was measured.
LoadWindows(load, end) ==
    <<MeasurementWindow(load, end)>>
    \o SelectSeq([i \in DOMAIN load.stages |-> StageWindow(load, i, end)], Lasts)

Groups(outcomes, Has(_), Key(_), Reduce(_)) ==
    [k \in { Key(outcomes[i]) : i \in {j \in DOMAIN outcomes : Has(outcomes[j])} } |->
        Reduce(SelectSeq(outcomes, LAMBDA o : Has(o) /\ Key(o) = k))]

\* The requests of a window: fired in it, whenever they ended.
Requests(w, timed, closed) ==
    LET selected == Outcomes(timed, w)
        reduce(os) == RequestStats(os, w.end - w.start, closed)
        keys == UNION { DOMAIN selected[i].facets : i \in DOMAIN selected }
    IN  [w EXCEPT !.request = reduce(selected),
            !.byCase = Groups(selected, LAMBDA o : o.case # "", LAMBDA o : o.case, reduce),
            !.byFacet = [k \in keys |-> Groups(selected, LAMBDA o : k \in DOMAIN o.facets,
                                               LAMBDA o : o.facets[k], reduce)]]

-----------------------------------------------------------------------------
(* The probes' part of a window. *)

Health(store, probe) == SamplesOf(store, <<probe.name, Bare("up")>>)
Extras(store, probe) == { k[2][2] : k \in {x \in DOMAIN store : x[1] = probe.name} }
SeriesId(probe, metric, extra) ==
    <<probe.family \o "." \o metric, IF extra = <<>> THEN probe.labels
                                     ELSE probe.labels @@ extra>>

\* What cooldown proves is the last state: every tick healthy, and the series
\* still there at the last one.
Recovered(w, health, own) ==
    w.kind = "cooldown" => /\ health # <<>> /\ \A i \in DOMAIN health : health[i].value > 0
                           /\ Last(own).t >= Last(health).t

WithHoles(summary, holes) ==
    IF holes THEN [summary EXCEPT !.caveats = @ \cup {"probe_error"}] ELSE summary

ProbeSummaries(w, probe, store, failures) ==
    LET health == Within(Health(store, probe), w.start, w.end)
        own(extra, m) == Within(SamplesOf(store, <<probe.name, <<m, extra>>>>), w.start, w.end)
        metrics == Families[probe.family]
        summary(extra, m) ==
            LET samples == own(extra, m)
            IN  IF samples = <<>> \/ ~Recovered(w, health, samples) THEN Absent
                ELSE WithHoles(TimeSeriesSummary(samples, metrics[m].kind),
                               probe.name \in DOMAIN failures)
        up == SeriesId(probe, "up", <<>>)
        sampled == FoldSet(LAMBDA x, f : Filled(SeriesId(probe, x[2], x[1]) :> summary(x[1], x[2])) @@ f,
                           <<>>, Extras(store, probe) \X DOMAIN metrics)
    IN  IF health = <<>> THEN sampled
        ELSE (up :> TimeSeriesSummary(health, "gauge")) @@ sampled

ProbeMetrics(w, probes, store, failures) ==
    FoldLeft(LAMBDA f, p : ProbeSummaries(w, p, store, failures) @@ f, <<>>, probes)

SeriesOut(probes, store) ==
    LET ids(p) == { <<SeriesId(p, m, extra), <<p.name, <<m, extra>>>>, Families[p.family][m].unit>> :
                        m \in DOMAIN Families[p.family], extra \in Extras(store, p) }
                  \cup { <<SeriesId(p, "up", <<>>), <<p.name, Bare("up")>>, "">> }
        kept == {x \in UNION { ids(probes[i]) : i \in DOMAIN probes } : x[2] \in DOMAIN store}
        of(sid) == CHOOSE x \in kept : x[1] = sid
    IN  [sid \in { x[1] : x \in kept } |-> [unit |-> of(sid)[3], samples |-> store[of(sid)[2]]]]

Registry(measurement, declared, probes, store) ==
    LET inferred(k) == IF k \in DOMAIN declared THEN declared[k]
                       ELSE IF k \in DOMAIN PerRequestDescriptors THEN PerRequestDescriptors[k]
                       ELSE Family("request", "distribution", "", {})
        described(p) == [n \in { p.family \o "." \o m : m \in DOMAIN Families[p.family] } |->
                            Describe(p)[CHOOSE m \in DOMAIN Families[p.family] :
                                            p.family \o "." \o m = n]]
        health(p) == IF Health(store, p) = <<>> THEN <<>>
                     ELSE (p.family \o ".up") :> Family("resource", "gauge", "", DOMAIN p.labels)
    IN  FoldLeft(LAMBDA f, p : health(p) @@ described(p) @@ f,
                 [k \in DOMAIN measurement.request.metrics |-> inferred(k)] @@ RequestDescriptors,
                 probes)

\* Engine._aggregate.  end is measurement_end_s, cooldown <<from, to>> or Absent.
Aggregate(arm, timed, probes, store, failures, ticks, end, cooldown, declared) ==
    LET planned == LoadWindows(arm.load, end)
        cooled  == IF cooldown = Absent THEN <<>>
                   ELSE <<CooldownWindow(cooldown[1], cooldown[2])>>
        closed  == arm.load.model = "closed"
        windows == Each(Each(planned, LAMBDA w : Requests(w, timed, closed)) \o cooled,
                        LAMBDA w : [w EXCEPT !.probes = ProbeMetrics(w, probes, store, failures)])
    IN  [arm |-> arm, windows |-> windows, series |-> SeriesOut(probes, store),
         registry |-> Registry(windows[1], declared, probes, store),
         probeErrors |-> [n \in DOMAIN failures |-> [failures |-> failures[n], ticks |-> ticks]],
         outcomes |-> timed, slo |-> <<>>]

Measurement(trial) == trial.windows[1]

-----------------------------------------------------------------------------
(* slo.py: an assertion is [ref, op, low, high, window]. *)

Selects(selector, w) ==
    /\ w.kind = selector.kind
    /\ selector.name = "" \/ w.name = selector.name
    /\ selector.level = None \/ w.target = selector.level

Compare(r, a) ==
    CASE a.op = "lt" -> Below(r, a.high)
      [] a.op = "lte" -> AtMost(r, a.high)
      [] a.op = "gt" -> Below(a.low, r)
      [] a.op = "gte" -> AtMost(a.low, r)
      [] a.op = "between" -> AtMost(a.low, r) /\ AtMost(r, a.high)

Check(a, observed, state, window) ==
    [assertion |-> a, observed |-> observed, state |-> state, window |-> window]

EvaluateOne(trial, a) ==
    LET windows == SelectSeq(trial.windows, LAMBDA w : Selects(a.window, w))
        check(w) == LET read == Query(trial.registry, trial, a.ref, w)
                    IN  IF ~IsRead(read) THEN Check(a, Absent, "skipped", w.id)
                        ELSE Check(a, read.value, IF Compare(read.value, a) THEN "pass" ELSE "fail", w.id)
    IN  IF windows = <<>> THEN <<Check(a, Absent, "skipped", "")>>
        ELSE Each(windows, check)

EvaluateSlo(trial, assertions) ==
    FoldLeft(LAMBDA checks, a : checks \o EvaluateOne(trial, a), <<>>, assertions)

\* mutant: what was skipped does not stand in the way
ConfirmedUnlessFailed(trial, w) ==
    LET checks == SelectSeq(trial.slo, LAMBDA c : c.window = w.id)
    IN  /\ w.kind = "hold" /\ w.complete /\ checks # <<>>
        /\ \A i \in DOMAIN checks : checks[i].state # "fail"

Confirmed(trial, w) ==
    LET checks == SelectSeq(trial.slo, LAMBDA c : c.window = w.id)
    IN  /\ w.kind = "hold" /\ w.complete /\ checks # <<>>
        /\ \A i \in DOMAIN checks : checks[i].state = "pass"

\* The highest level a whole hold kept its SLOs at, for each profile.
SloAwareCapacity(trials) ==
    LET confirmed(label) == UNION { { w.target : w \in {x \in Range(trials[i].windows) :
                                                            Confirmed(trials[i], x)} } :
                             i \in {k \in DOMAIN trials : trials[k].arm.resources = label} }
    IN  [label \in { trials[i].arm.resources : i \in DOMAIN trials } |->
            IF confirmed(label) = {} THEN None ELSE Max(confirmed(label))]

-----------------------------------------------------------------------------
(* verdict.py. *)

Broken(trial) == trial.phaseErrors # <<>>
Early(trial) == trial.stop.reason # "deadline" /\ ~Broken(trial)
Checks(trials) == FlattenSeq(Each(trials, LAMBDA t : t.slo))
BlockingSkip(c) == c.state = "skipped" /\ c.assertion.window.kind = "cooldown"
Some(seq, Test(_)) == \E i \in DOMAIN seq : Test(seq[i])

VerdictStatus(trials) ==
    LET checks == Checks(trials)
    IN  IF Some(trials, Broken) THEN "error"
        ELSE IF \/ Some(trials, Early)
                \/ Some(checks, LAMBDA c : c.state = "fail" \/ BlockingSkip(c)) THEN "fail"
        ELSE IF Some(checks, LAMBDA c : c.state = "pass") THEN "pass" ELSE "skipped"

\* Which of them the reason is about.
VerdictReason(trials) ==
    LET checks == Checks(trials)
        first(seq, Test(_)) == SelectSeq(seq, Test)[1]
    IN  CASE Some(trials, Broken) -> <<"phase", first(trials, Broken).phaseErrors[1]>>
          [] ~Some(trials, Broken) /\ Some(trials, Early) ->
                <<"early", first(trials, Early).stop.reason>>
          [] ~Some(trials, Broken) /\ ~Some(trials, Early) ->
                IF Some(checks, LAMBDA c : c.state = "fail")
                THEN <<"slo", first(checks, LAMBDA c : c.state = "fail").assertion>>
                ELSE IF Some(checks, BlockingSkip) THEN <<"cooldown">> ELSE Absent

-----------------------------------------------------------------------------
(* The TypeScript harness: buildWindows takes the elapsed time, which goes *)
(* on until the last request has ended.                                    *)

WindowTs(kind, from, to, complete, target, timed, closed) ==
    LET os == Each(SelectSeq(timed, LAMBDA r : r.t >= from /\ r.t < to), LAMBDA r : r.outcome)
        reduce(some) == RequestStatsTs(some, to - from, closed)
        keys == UNION { DOMAIN os[i].facets : i \in DOMAIN os }
        with(Test(_)) == SelectSeq(os, Test)
    IN  [kind |-> kind, start |-> from, end |-> to, complete |-> complete, target |-> target,
         request |-> reduce(os),
         byCase |-> [c \in { os[i].case : i \in DOMAIN os } \ {""} |->
                        reduce(with(LAMBDA o : o.case = c))],
         byFacet |-> [k \in keys |->
            [v \in { os[i].facets[k] : i \in {j \in DOMAIN os : k \in DOMAIN os[j].facets} } \ {""} |->
                reduce(with(LAMBDA o : k \in DOMAIN o.facets /\ o.facets[k] = v))]]]

WindowsTs(load, timed, actual) ==
    LET planned == Duration(load)
        closed  == load.model = "closed"
        stage(i) == WindowTs(load.stages[i].kind,
                             Max({StageEnd(load, i - 1), load.warmup}),
                             Min({StageEnd(load, i), actual}), actual >= StageEnd(load, i),
                             load.stages[i].to, timed, closed)
    IN  <<WindowTs("measurement", load.warmup,
                   Max({load.warmup, Min({actual, planned})}), actual >= planned, None,
                   timed, closed)>>
        \o SelectSeq([i \in DOMAIN load.stages |-> stage(i)], Lasts)

VerdictStatusTs(trials) ==
    IF Some(trials, Broken) THEN "error"
    ELSE IF Some(trials, LAMBDA t : t.stop.reason \in {"error_rate", "aborted"}) THEN "fail"
    ELSE "skipped"
=============================================================================
