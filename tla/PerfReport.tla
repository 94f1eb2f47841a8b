----------------------------- MODULE PerfReport ------------------------------
(***************************************************************************)
(* What is left of a run: the files of runio.py, the run they are read     *)
(* back into, and the report (report/render.py), whose wording and layout  *)
(* are left out.                                                           *)
(***************************************************************************)
EXTENDS PerfLenses

CONSTANT Unit  \* seconds in a unit of time, a ratio: no time need be a round number

ASSUME UnitAssumption == Unit \in Nat \X Nat /\ Unit[1] > 0 /\ Unit[2] > 0

Seconds(t) == <<t * Unit[1], Unit[2]>>

\* A ratio rounded to a number of decimals, the half away from zero.
Rounded(r, scale) == <<(2 * r[1] * scale + r[2]) \div (2 * r[2]), scale>>

-----------------------------------------------------------------------------
(* To JSON and back.  A set becomes a list and a list a set again; labels  *)
(* of an arm are written for the reader and derived again on reading.      *)

SummaryJson(s) == [s EXCEPT !.caveats = Listed(@)]
SummaryFrom(d) == [d EXCEPT !.caveats = Range(@)]
StatsJson(s) == [s EXCEPT !.caveats = Listed(@),
                          !.metrics = [k \in DOMAIN @ |-> SummaryJson(@[k])]]
StatsFrom(d) == [d EXCEPT !.caveats = Range(@),
                          !.metrics = [k \in DOMAIN @ |-> SummaryFrom(@[k])]]
FamilyJson(f) == [f EXCEPT !.labels = Listed(@)]
FamilyFrom(d) == [d EXCEPT !.labels = Range(@)]

StopJson(stop) ==
    [reason |-> stop.reason, interrupted |-> stop.interrupted,
     snapshot |-> IF stop.snapshot = Absent THEN Absent
                  ELSE [stop.snapshot EXCEPT !.at = Rounded(@, 100), !.rate = Rounded(@, 10000)]]
StopFrom(d) == d

\* A threshold is one number, or a list of two.
SloJson(c) ==
    [c EXCEPT !.assertion = [ref |-> @.ref, op |-> @.op, window |-> @.window,
        threshold |-> CASE @.op = "between" -> <<@.low, @.high>>
                        [] @.op \in {"lt", "lte"} -> <<@.high>>
                        [] @.op \in {"gt", "gte"} -> <<@.low>>]]
SloFrom(d) ==
    [d EXCEPT !.assertion = [ref |-> @.ref, op |-> @.op, window |-> @.window,
        low |-> IF @.op \in {"lt", "lte"} THEN Whole(0) ELSE @.threshold[1],
        high |-> IF @.op \in {"gt", "gte"} THEN Whole(0) ELSE Last(@.threshold)]]

Sliced(w, Of(_)) ==
    [w EXCEPT !.request = IF @ = Absent THEN Absent ELSE Of(@),
        !.byCase = [k \in DOMAIN @ |-> Of(@[k])],
        !.byFacet = [k \in DOMAIN @ |-> [v \in DOMAIN @[k] |-> Of(@[k][v])]]]

ProbesJson(w) == [w EXCEPT !.probes = [k \in DOMAIN @ |-> SummaryJson(@[k])]]
ProbesFrom(w) == [w EXCEPT !.probes = [k \in DOMAIN @ |-> SummaryFrom(@[k])]]

\* mutant: whether a window was complete is not written, and read as so
TrialJsonForgetting(t) ==
    [arm |-> t.arm, stop |-> StopJson(t.stop), slo |-> Each(t.slo, SloJson),
     registry |-> [n \in DOMAIN t.registry |-> FamilyJson(t.registry[n])],
     windows |-> Each(t.windows, LAMBDA w : [ProbesJson(Sliced(w, StatsJson)) EXCEPT !.complete = TRUE]),
     probeErrors |-> t.probeErrors, phaseErrors |-> t.phaseErrors]

TrialJson(t) ==
    [arm |-> t.arm, stop |-> StopJson(t.stop), slo |-> Each(t.slo, SloJson),
     registry |-> [n \in DOMAIN t.registry |-> FamilyJson(t.registry[n])],
     windows |-> Each(t.windows, LAMBDA w : ProbesJson(Sliced(w, StatsJson))),
     probeErrors |-> t.probeErrors, phaseErrors |-> t.phaseErrors]

\* The series are not in run.json, nor are the outcomes.
TrialFrom(d) ==
    [arm |-> d.arm, stop |-> StopFrom(d.stop), slo |-> Each(d.slo, SloFrom),
     registry |-> [n \in DOMAIN d.registry |-> FamilyFrom(d.registry[n])],
     windows |-> Each(d.windows, LAMBDA w : ProbesFrom(Sliced(w, StatsFrom))),
     probeErrors |-> d.probeErrors, phaseErrors |-> d.phaseErrors,
     series |-> <<>>, outcomes |-> <<>>]

\* The rows of timeseries.csv: every trial's samples, series by series.
TimeseriesRows(trials) ==
    LET of(t, sid) == Each(t.series[sid].samples, LAMBDA s :
                              [trial |-> t.arm.id, series |-> sid, t |-> s.t, value |-> s.value])
    IN  FlattenSeq(Each(trials, LAMBDA t :
            FlattenSeq(Each(Listed(DOMAIN t.series), LAMBDA sid : of(t, sid)))))

OutcomeRows(trials) ==
    FlattenSeq(Each(trials, LAMBDA t :
        Each(t.outcomes, LAMBDA r : [trial |-> t.arm.id, t |-> Rounded(Seconds(r.t), 1000),
                                     outcome |-> r.outcome])))

LoadOutcomes(rows) ==
    [id \in { rows[i].trial : i \in DOMAIN rows } |->
        Each(SelectSeq(rows, LAMBDA r : r.trial = id), LAMBDA r : [t |-> r.t, outcome |-> r.outcome])]

\* The unit of a series that was read back is its family's.
SeriesFrom(rows, trial) ==
    LET mine == SelectSeq(rows, LAMBDA r : r.trial = trial.arm.id)
        unit(sid) == IF sid[1] \in DOMAIN trial.registry THEN trial.registry[sid[1]].unit ELSE ""
    IN  [sid \in { mine[i].series : i \in DOMAIN mine } |->
            [unit |-> unit(sid),
             samples |-> Each(SelectSeq(mine, LAMBDA r : r.series = sid),
                              LAMBDA r : [t |-> r.t, value |-> r.value])]]

\* load_run: without run.json there is no run; timeseries.csv may be missing.
LoadRun(disk) ==
    Each(disk.model, LAMBDA d :
        LET t == TrialFrom(d)
        IN  [t EXCEPT !.series = IF disk.rows = Absent THEN <<>> ELSE SeriesFrom(disk.rows, t)])

-----------------------------------------------------------------------------
(* The head of the report, drawn twice (_render_slo and _build_doc).       *)

Banner(trials) ==
    LET checks == Checks(trials)
    IN  CASE ~(Some(trials, Broken) \/ Some(trials, Early) \/ checks # <<>>) -> ""
          [] Some(trials, Broken) -> "ERROR"
          [] OTHER -> IF Some(trials, Early) \/ Some(checks, LAMBDA c : c.state = "fail" \/ BlockingSkip(c))
                      THEN "FAIL"
                      ELSE IF Some(checks, LAMBDA c : c.state = "skipped") THEN "PASS with skipped"
                      ELSE "PASS"

\* Of a snapshot, the counts; the digits of its time and rate are wording.
StopBrief(t) == <<t.arm.id, t.stop.reason, t.stop.interrupted,
                  IF t.stop.snapshot = Absent THEN Absent
                  ELSE <<t.stop.snapshot.errors, t.stop.snapshot.sent>>>>
PhaseErrorBrief(t) == <<t.arm.id, t.phaseErrors[1], Len(t.phaseErrors) - 1>>

Briefs(trials, Test(_), Brief(_)) == Each(SelectSeq(trials, Test), Brief)
WindowOf(c) == IF c.window = "" THEN c.assertion.window.kind ELSE c.window

\* The run gate: what failed, what could not be judged, what was confirmed.
Gate(trials) ==
    LET checks == Checks(trials)
        failed(t) == SelectSeq(t.slo, LAMBDA c : c.state = "fail")
    IN  IF Banner(trials) = "" THEN Absent
        ELSE [banner |-> Banner(trials),
              errors |-> Briefs(trials, Broken, PhaseErrorBrief),
              early |-> Briefs(trials, Early, StopBrief),
              failed |-> FlattenSeq(Each(trials, LAMBDA t : Each(failed(t), LAMBDA c :
                            <<t.arm.id, c.assertion, WindowOf(c), c.observed>>))),
              skipped |-> { <<c.assertion.ref, WindowOf(c)>> :
                              c \in {x \in Range(checks) : x.state = "skipped"} },
              capacity |-> IF checks = <<>> THEN Absent ELSE <<SloAwareCapacity(trials)>>]

\* The first level of each profile whose error rate reaches the threshold.
Knees(trials, threshold) ==
    LET of(label) == SortSeq(SelectSeq(trials, LAMBDA t : /\ Label(t) = label
                                                          /\ AtMost(threshold, ErrorRate(Req(t)))),
                             LAMBDA a, b : Level(a) < Level(b))
    IN  Filled([label \in { Label(trials[i]) : i \in DOMAIN trials } |->
                  IF of(label) = <<>> THEN Absent ELSE <<of(label)[1].arm.id>>])

Saturated(trials) ==
    Briefs(trials, LAMBDA t : AtMost(HighDrop, DropRate(Req(t))),
           LAMBDA t : <<t.arm.id, DropRate(Req(t)), Req(t).dropped>>)

-----------------------------------------------------------------------------
(* Tables: summary.csv, by_facet.csv, windows.csv. *)

ErrTop(stats) ==
    IF stats.errors = <<>> THEN Absent
    ELSE LET k == CHOOSE x \in DOMAIN stats.errors :
                    \A y \in DOMAIN stats.errors : stats.errors[y] <= stats.errors[x]
         IN  <<k, stats.errors[k]>>

StatCells(s) == [n |-> s.n, ok |-> s.nOk, rps |-> s.rps, err |-> ErrorRate(s),
                 drop |-> DropRate(s), p50 |-> s.p50, p95 |-> s.p95, p99 |-> s.p99,
                 errTop |-> ErrTop(s)]

MetricKeys(trials) == UNION { DOMAIN Req(trials[i]).metrics : i \in DOMAIN trials }
MetricCells(stats, keys) ==
    [k \in keys |-> IF k \in DOMAIN stats.metrics
                    THEN <<stats.metrics[k].stats.p50, stats.metrics[k].stats.p95>> ELSE Absent]

ProbeColumns(trials) == UNION { Flatten(Measurement(trials[i]).probes) : i \in DOMAIN trials }
WindowProbeColumns(trials) ==
    UNION { UNION { Flatten(w.probes) : w \in Range(trials[i].windows) } : i \in DOMAIN trials }
ProbeCells(w, columns) == [c \in columns |-> Resolve(w.probes, c[1], c[2])]

Summary(trials) ==
    Each(trials, LAMBDA t : <<Label(t), t.arm.load.model, Level(t), StatCells(Req(t)),
                              MetricCells(Req(t), MetricKeys(trials)),
                              ProbeCells(Measurement(t), ProbeColumns(trials))>>)

FacetTable(trials) ==
    Each(trials, LAMBDA t : [k \in DOMAIN Measurement(t).byFacet |->
        [v \in DOMAIN Measurement(t).byFacet[k] |->
            <<StatCells(Measurement(t).byFacet[k][v]),
              MetricCells(Measurement(t).byFacet[k][v], MetricKeys(trials))>>]])

WindowTable(trials) ==
    Each(trials, LAMBDA t : Each(t.windows, LAMBDA w :
        <<w.id, w.name, w.kind, w.start, w.end, w.complete, w.target,
          IF w.request = Absent THEN Absent
          ELSE <<StatCells(w.request), MetricCells(w.request, MetricKeys(trials))>>,
          ProbeCells(w, WindowProbeColumns(trials))>>))

-----------------------------------------------------------------------------
(* The document: one page of text, and one with charts. *)

\* What is the same in every row is said once.
KeyLayout(trials) ==
    [constraint |-> { Label(trials[i]) : i \in DOMAIN trials },
     model |-> { trials[i].arm.load.model : i \in DOMAIN trials }]
KeyCells(t, layout) ==
    <<Level(t), IF Cardinality(layout.constraint) > 1 THEN Label(t) ELSE "",
      IF Cardinality(layout.model) > 1 THEN t.arm.load.model ELSE "">>

\* The series without labels, their health excepted.
DisplayProbeColumns(trials) ==
    {sid \in UNION { DOMAIN Measurement(trials[i]).probes : i \in DOMAIN trials } :
        sid[2] = <<>> /\ sid[1] \notin { f \o ".up" : f \in DOMAIN Families }}
DisplayProbeCells(t, columns) ==
    [sid \in columns |-> IF sid \in DOMAIN Measurement(t).probes
                         THEN Measurement(t).probes[sid].stats ELSE Absent]

Overview(trials, knee) ==
    [layout |-> KeyLayout(trials),
     rows |-> Each(trials, LAMBDA t :
                 <<KeyCells(t, KeyLayout(trials)), StatCells(Req(t)), MetricCells(Req(t), MetricKeys(trials)),
                   DisplayProbeCells(t, DisplayProbeColumns(trials))>>),
     coBiased |-> Some(trials, LAMBDA t : t.arm.load.model = "closed"),
     knees |-> Knees(trials, knee), saturated |-> Saturated(trials),
     errors |-> Briefs(trials, Broken, PhaseErrorBrief), early |-> Briefs(trials, Early, StopBrief)]

\* The tables by facet and by stage, of the trials that have any.
ByWindow(trials) ==
    LET staged(t) == SelectSeq(t.windows, LAMBDA w : w.kind \in {"ramp", "hold"} /\ w.request # Absent)
    IN  Briefs(trials, LAMBDA t : staged(t) # <<>>, LAMBDA t :
            <<t.arm.id, Each(staged(t), LAMBDA w :
                <<w.id, w.name, w.kind, w.complete, StatCells(w.request),
                  MetricCells(w.request, MetricKeys(trials))>>)>>)

RenderMd(trials, knee) ==
    [gate |-> Gate(trials), overview |-> Overview(trials, knee),
     facets |-> SelectSeq(FacetTable(trials), LAMBDA f : f # <<>>), windows |-> ByWindow(trials)]

-----------------------------------------------------------------------------
(* Charts. *)

CurveGroups(trials) ==
    LET of(label) == SortSeq(SelectSeq(trials, LAMBDA t : Label(t) = label),
                             LAMBDA a, b : Level(a) < Level(b))
        several(label) == Cardinality({ Level(of(label)[i]) : i \in DOMAIN of(label) }) >= 2
    IN  [label \in {l \in { Label(trials[i]) : i \in DOMAIN trials } : several(l)} |-> of(label)]

CurveStat == [gauge |-> "peak", counter |-> "rate", scalar |-> "value"]

\* The points of the response curves: the requests' and, of each service, one
\* line per resource series, health excepted.
ResponseCurves(trials) ==
    LET groups == CurveGroups(trials)
        drawn(t, sid) ==
            /\ "service" \in DOMAIN sid[2] /\ sid[1] \in DOMAIN t.registry
            /\ sid[1] \notin { f \o ".up" : f \in DOMAIN Families }
            /\ t.registry[sid[1]].side = "resource"
            /\ t.registry[sid[1]].kind \in DOMAIN CurveStat
        line(t) == { <<sid, Level(t), Resolve(Measurement(t).probes, sid, CurveStat[t.registry[sid[1]].kind])>>
                     : sid \in {s \in DOMAIN Measurement(t).probes : drawn(t, s)} }
    IN  [label \in DOMAIN groups |->
            [requests |-> Each(groups[label], LAMBDA t :
                <<Level(t), ErrorRate(Req(t)), DropRate(Req(t)), Req(t).p50, Req(t).p95, Req(t).p99>>),
             resources |-> {p \in UNION { line(groups[label][i]) : i \in DOMAIN groups[label] } :
                                p[3] # Absent}]]

\* A counter is drawn as its rate from tick to tick; a reset as no rise.
TickRate(samples) ==
    LET point(i) == <<samples[i + 1].t, Max({0, samples[i + 1].value - samples[i].value}),
                      samples[i + 1].t - samples[i].t>>
    IN  SelectSeq([i \in 1 .. (Len(samples) - 1) |-> point(i)], LAMBDA p : p[3] > 0)

\* Where a series is drawn: pressure, the service's chart of its unit, or not.
Chart(trial, sid) ==
    LET samples == trial.series[sid].samples
        service == "service" \in DOMAIN sid[2]
        kind == IF sid[1] \in DOMAIN trial.registry THEN trial.registry[sid[1]].kind ELSE "gauge"
        count == trial.series[sid].unit = "count"
        health == sid[1] \in { f \o ".up" : f \in DOMAIN Families }
    IN  CASE health -> IF service /\ \E i \in DOMAIN samples : samples[i].value < 1
                       THEN "health" ELSE ""
          [] ~health /\ kind = "counter" ->
                IF ~count \/ TickRate(samples) = <<>> THEN ""
                ELSE IF service THEN "rate" ELSE "pressure"
          [] ~health /\ kind # "counter" ->
                IF count THEN "pressure" ELSE IF service THEN "level" ELSE ""

Charts(trials) ==
    Each(trials, LAMBDA t : [sid \in {s \in DOMAIN t.series : Chart(t, s) # ""} |->
        IF t.registry[sid[1]].kind = "counter" THEN TickRate(t.series[sid].samples)
        ELSE t.series[sid].samples])

BuildDoc(trials, knee) ==
    [curves |-> ResponseCurves(trials), charts |-> Charts(trials)] @@ RenderMd(trials, knee)

\* write_report: the tables, the raw series once more, and the two pages.
Report(trials, knee) ==
    [summary |-> Summary(trials), facets |-> FacetTable(trials), windows |-> WindowTable(trials),
     rows |-> TimeseriesRows(trials), md |-> RenderMd(trials, knee), html |-> BuildDoc(trials, knee)]
=============================================================================
