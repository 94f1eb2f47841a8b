----------------------------- MODULE PerfMetrics -----------------------------
(***************************************************************************)
(* The numbers of perf_harness: how samples and request outcomes become    *)
(* summaries (metric/reduce.py), what a metric reference reads             *)
(* (metric/family.py, metric/store.py), and the reduction of the           *)
(* TypeScript harness (reduce.ts).                                         *)
(*                                                                         *)
(* Every number a reader sees is a ratio <<p, q>>; Absent is None.  A      *)
(* series id is a pair <<name, labels>>, a reference the record [name,     *)
(* labels, stat] that parse_ref makes of its text, "" for no stat.         *)
(***************************************************************************)
EXTENDS Integers, Sequences, FiniteSets, SequencesExt, FiniteSetsExt, Functions

CONSTANTS FewSamples,    \* FEW_SAMPLES
          HighDrop       \* HIGH_DROP, a ratio

ASSUME MetricsAssumption == FewSamples \in Nat /\ HighDrop \in Nat \X (Nat \ {0})

Absent == <<>>
None == -1               \* an absent level
Whole(n) == <<n, 1>>
AtMost(r, s) == r[1] * s[2] <= s[1] * r[2]
Below(r, s) == r[1] * s[2] < s[1] * r[2]
Same(r, s) == r[1] * s[2] = s[1] * r[2]
Per(p, q) == IF q = 0 THEN Whole(0) ELSE <<p, q>>
Total(seq) == FoldLeft(+, 0, seq)
Highest(seq) == Max(Range(seq))
Ascending(seq) == SortSeq(seq, <)
Each(seq, Of(_)) == [i \in DOMAIN seq |-> Of(seq[i])]
Count(seq, Test(_)) == Len(SelectSeq(seq, Test))
Listed(S) == FoldSet(LAMBDA x, s : Append(s, x), <<>>, S)
Filled(f) == \* the entries of f that are not Absent
    [k \in {x \in DOMAIN f : f[x] # Absent} |-> f[k]]

Within(samples, from, to) == SelectSeq(samples, LAMBDA s : from <= s.t /\ s.t < to)

-----------------------------------------------------------------------------
(* Time-sampled series. *)

\* mutant: the counter's last value against its first one, whatever lies between
SummaryByEnds(samples, kind) ==
    IF samples = <<>> THEN Absent
    ELSE IF kind = "gauge"
    THEN [kind |-> kind, caveats |-> {},
          stats |-> [last |-> Whole(Last(samples).value),
                     mean |-> <<Total(Each(samples, LAMBDA s : s.value)), Len(samples)>>,
                     peak |-> Whole(Highest(Each(samples, LAMBDA s : s.value)))]]
    ELSE LET grown == Last(samples).value - samples[1].value
             time  == Last(samples).t - samples[1].t
         IN  [kind |-> kind, caveats |-> {},
              stats |-> [total |-> Whole(Last(samples).value),
                         increase |-> IF Len(samples) < 2 THEN Absent ELSE Whole(grown),
                         rate |-> IF Len(samples) < 2 \/ time = 0 THEN Absent
                                  ELSE <<grown, time>>]]

\* A counter that falls was reset: only its rises count.
TimeSeriesSummary(samples, kind) ==
    LET values == Each(samples, LAMBDA s : s.value)
        deltas == [i \in 1 .. (Len(values) - 1) |-> values[i + 1] - values[i]]
        time   == Last(samples).t - samples[1].t
        grown  == Total(SelectSeq(deltas, LAMBDA d : d > 0))
        several == Len(samples) >= 2
    IN  CASE samples = <<>> -> Absent
          [] samples # <<>> /\ kind = "counter" ->
               [kind |-> kind,
                stats |-> [total |-> Whole(Last(values)),
                           increase |-> IF several THEN Whole(grown) ELSE Absent,
                           rate |-> IF several /\ time > 0 THEN <<grown, time>> ELSE Absent],
                caveats |-> IF \E i \in DOMAIN deltas : deltas[i] < 0
                            THEN {"counter_reset"} ELSE {}]
          [] samples # <<>> /\ kind = "gauge" ->
               [kind |-> kind, caveats |-> {},
                stats |-> [last |-> Whole(Last(values)),
                           mean |-> <<Total(values), Len(values)>>,
                           peak |-> Whole(Highest(values))]]
          [] OTHER -> Absent

-----------------------------------------------------------------------------
(* Requests. *)

\* The value at the q-th hundredth of a sorted sequence, 0 of an empty one.
Pct(sorted, q) ==
    IF sorted = <<>> THEN 0
    ELSE sorted[Min({Len(sorted) - 1, (q * Len(sorted)) \div 100}) + 1]

Flags(flag) == {f \in DOMAIN flag : flag[f]}

MetricStats(sent, closed) ==
    LET keys == UNION { DOMAIN sent[i].metrics : i \in DOMAIN sent }
        values(k) == Ascending(Each(SelectSeq(sent, LAMBDA o : k \in DOMAIN o.metrics),
                                    LAMBDA o : o.metrics[k]))
    IN  [k \in keys |->
            LET vals == values(k)
            IN  [kind |-> "distribution",
                 stats |-> [n |-> Whole(Len(vals)), mean |-> <<Total(vals), Len(vals)>>,
                            p50 |-> Whole(Pct(vals, 50)), p95 |-> Whole(Pct(vals, 95)),
                            p99 |-> Whole(Pct(vals, 99))],
                 caveats |-> Flags([co_biased |-> closed,
                                    few_samples |-> Len(vals) < FewSamples])]]

ErrorKind(o) == IF o.kind = "" THEN "unknown" ELSE o.kind

\* mutant: the requests that were never sent count as sent
StatsOfAll(outcomes, time, closed) ==
    LET n == Len(outcomes)
        times == Ascending(Each(outcomes, LAMBDA o : o.ms))
        dropped == Count(outcomes, LAMBDA o : o.dropped)
    IN  [n |-> n, nOk |-> Count(outcomes, LAMBDA o : o.ok), dropped |-> dropped,
         rps |-> Per(n, time), p50 |-> Pct(times, 50), p95 |-> Pct(times, 95),
         p99 |-> Pct(times, 99), mean |-> Per(Total(times), n),
         errors |-> <<>>, metrics |-> MetricStats(outcomes, closed),
         caveats |-> Flags([co_biased |-> closed /\ n > 0,
                            high_drop |-> AtMost(HighDrop, Per(dropped, n)),
                            few_samples |-> 0 < n /\ n < FewSamples])]

RequestStats(outcomes, time, closed) ==
    LET sent    == SelectSeq(outcomes, LAMBDA o : ~o.dropped)
        failed  == SelectSeq(sent, LAMBDA o : ~o.ok)
        times   == Ascending(Each(sent, LAMBDA o : o.ms))
        n       == Len(sent)
        dropped == Len(outcomes) - n
    IN  [n |-> n, nOk |-> n - Len(failed), dropped |-> dropped,
         rps |-> Per(n, time), p50 |-> Pct(times, 50), p95 |-> Pct(times, 95),
         p99 |-> Pct(times, 99), mean |-> Per(Total(times), n),
         errors |-> [k \in { ErrorKind(failed[i]) : i \in DOMAIN failed } |->
                        Count(failed, LAMBDA o : ErrorKind(o) = k)],
         metrics |-> MetricStats(sent, closed),
         caveats |-> Flags([co_biased |-> closed /\ n > 0,
                            high_drop |-> AtMost(HighDrop, Per(dropped, Len(outcomes))),
                            few_samples |-> 0 < n /\ n < FewSamples])]

\* The same reduction in reduce.ts, from the outcomes that failed or were sent.
RequestStatsTs(outcomes, time, closed) ==
    LET sent    == SelectSeq(outcomes, LAMBDA o : ~o.dropped)
        dropped == Len(outcomes) - Len(sent)
        times   == Ascending(Each(sent, LAMBDA o : o.ms))
        nOk     == Count(sent, LAMBDA o : o.ok)
        names   == UNION { DOMAIN sent[i].metrics : i \in DOMAIN sent }
        distribution(vals) ==
            [kind |-> "distribution",
             stats |-> [n |-> Whole(Len(vals)), mean |-> <<Total(vals), Len(vals)>>,
                        p50 |-> Whole(Pct(vals, 50)), p95 |-> Whole(Pct(vals, 95)),
                        p99 |-> Whole(Pct(vals, 99))],
             caveats |-> Flags([co_biased |-> closed, few_samples |-> Len(vals) < FewSamples])]
    IN  [n |-> Len(sent), nOk |-> nOk, dropped |-> dropped, rps |-> Per(Len(sent), time),
         p50 |-> Pct(times, 50), p95 |-> Pct(times, 95), p99 |-> Pct(times, 99),
         mean |-> Per(Total(times), Len(times)),
         errors |-> [k \in { ErrorKind(o) : o \in {x \in Range(sent) : ~x.ok} } |->
                        Count(sent, LAMBDA o : ~o.ok /\ ErrorKind(o) = k)],
         metrics |-> [m \in names |->
                        distribution(Ascending(Each(
                            SelectSeq(sent, LAMBDA o : m \in DOMAIN o.metrics),
                            LAMBDA o : o.metrics[m])))],
         caveats |-> Flags([co_biased |-> closed /\ sent # <<>>,
                            few_samples |-> sent # <<>> /\ Len(sent) < FewSamples,
                            high_drop |-> AtMost(HighDrop, Per(dropped, Len(outcomes)))])]

-----------------------------------------------------------------------------
(* The registry and the references into it. *)

Family(side, kind, unit, labels) == [side |-> side, kind |-> kind, unit |-> unit, labels |-> labels]

RequestDescriptors ==
    [name \in {"request.duration_ms", "request.error_rate", "request.throughput_rps",
               "request.drop_rate"} |->
        CASE name = "request.duration_ms" -> Family("request", "distribution", "ms", {})
          [] name = "request.throughput_rps" -> Family("request", "scalar", "rps", {})
          [] OTHER -> Family("request", "scalar", "ratio", {})]

PerRequestDescriptors == [ttft_ms |-> Family("request", "distribution", "ms", {})]

SloMetrics == {"n", "n_ok", "n_dropped", "throughput_rps", "p50_ms", "p95_ms", "p99_ms",
               "error_rate", "drop_rate"}

LegalStats == [counter |-> {"total", "rate", "increase"}, gauge |-> {"last", "mean", "peak"},
               distribution |-> {"n", "mean", "p50", "p95", "p99"}, scalar |-> {"value"}]

DropRate(stats) == Per(stats.dropped, stats.n + stats.dropped)
ErrorRate(stats) == Per(stats.n - stats.nOk, stats.n)

\* The fields an undotted reference names.
StatsField(stats, name) ==
    CASE name = "n" -> Whole(stats.n)
      [] name = "n_ok" -> Whole(stats.nOk)
      [] name = "n_dropped" -> Whole(stats.dropped)
      [] name = "throughput_rps" -> stats.rps
      [] name = "p50_ms" -> Whole(stats.p50)
      [] name = "p95_ms" -> Whole(stats.p95)
      [] name = "p99_ms" -> Whole(stats.p99)
      [] name = "error_rate" -> ErrorRate(stats)
      [] name = "drop_rate" -> DropRate(stats)

Scalar(r) == [kind |-> "scalar", stats |-> [value |-> r], caveats |-> {}]

SliceSummaries(stats) ==
    [name \in DOMAIN stats.metrics \cup DOMAIN RequestDescriptors |->
        CASE name = "request.duration_ms" ->
                [kind |-> "distribution", caveats |-> stats.caveats,
                 stats |-> [n |-> Whole(stats.n), mean |-> stats.mean, p50 |-> Whole(stats.p50),
                            p95 |-> Whole(stats.p95), p99 |-> Whole(stats.p99)]]
          [] name = "request.error_rate" -> Scalar(ErrorRate(stats))
          [] name = "request.throughput_rps" -> Scalar(stats.rps)
          [] name = "request.drop_rate" -> Scalar(DropRate(stats))
          [] OTHER -> stats.metrics[name]]

Missing(reason) == [missing |-> reason]
Read(r) == [value |-> r]
IsRead(r) == "value" \in DOMAIN r

\* A stat of one summary, Absent if there is none.
Resolve(summaries, id, stat) ==
    IF id \in DOMAIN summaries /\ stat \in DOMAIN summaries[id].stats
    THEN summaries[id].stats[stat] ELSE Absent

OrMissing(r, reason) == IF r = Absent THEN Missing(reason) ELSE Read(r)

RequestSlice(window, labels) ==
    IF labels = <<>> THEN window.request
    ELSE LET key == CHOOSE k \in DOMAIN labels : TRUE
         IN  IF key \in DOMAIN window.byFacet /\ labels[key] \in DOMAIN window.byFacet[key]
             THEN window.byFacet[key][labels[key]] ELSE Absent

\* A probe that failed says so; anything else just has no such series.
ResourceMissing(trial, prefix, labels) ==
    Missing(IF "service" \in DOMAIN labels
               /\ <<prefix, labels.service>> \in DOMAIN trial.probeErrors THEN "probe_error"
            ELSE IF labels = <<>> THEN "no_data" ELSE "no_slice")

\* MetricStore.query; families are those of every trial of the store, and
\* prefix is the part of the name before its dot.
Query(families, trial, ref, window) ==
    LET family == IF ref.name \in DOMAIN trial.registry THEN trial.registry[ref.name]
                  ELSE IF ref.name \in DOMAIN families THEN families[ref.name] ELSE Absent
        slice  == RequestSlice(window, ref.labels)
        named  == SliceSummaries(slice)
        found  == IF ref.name \in DOMAIN named THEN Resolve(named, ref.name, ref.stat)
                  ELSE IF ref.labels # <<>> THEN Absent
                  ELSE Resolve(window.probes, <<ref.name, <<>>>>, ref.stat)
    IN  IF family # Absent /\ family.side = "resource"
        THEN IF ref.stat = "" THEN Missing("no_data")
             ELSE LET r == Resolve(window.probes, <<ref.name, ref.labels>>, ref.stat)
                  IN  IF r # Absent THEN Read(r)
                      ELSE ResourceMissing(trial, ref.prefix, ref.labels)
        ELSE IF slice = Absent THEN Missing("no_slice")
        ELSE IF ref.stat = ""
        THEN IF ref.name \in SloMetrics THEN Read(StatsField(slice, ref.name))
             ELSE Missing("no_data")
        ELSE OrMissing(found, "no_data")

\* MetricStore.pivot: the series of one family by the value of one label.
Pivot(window, family, by) ==
    { [key |-> sid[2][by], rest |-> [l \in DOMAIN sid[2] \ {by} |-> sid[2][l]],
       summary |-> window.probes[sid]]
      : sid \in {s \in DOMAIN window.probes : s[1] = family /\ by \in DOMAIN s[2]} }

\* flatten: the columns a table has for some summaries.
Flatten(summaries) ==
    { <<id, stat>> \in UNION { {id} \X LegalStats[summaries[id].kind] : id \in DOMAIN summaries } :
        Resolve(summaries, id, stat) # Absent }

-----------------------------------------------------------------------------
(* What the configuration accepts as an SLO (config.py). *)

StageLabel(stage) ==
    IF stage.name # "" THEN stage.name
    ELSE (IF stage.kind = "hold" THEN "hold@" ELSE "ramp to ") \o ToString(stage.to)

SelectsStage(selector, stage) ==
    /\ stage.kind = selector.kind
    /\ selector.name = "" \/ StageLabel(stage) = selector.name
    /\ selector.level = None \/ stage.to = selector.level

ValidAssertion(a, registry, facets, services, stages, cooldown) ==
    LET known == a.ref.name \in DOMAIN registry
        family == registry[a.ref.name]
        labels == DOMAIN a.ref.labels
        resource == known /\ family.side = "resource"
    IN  /\ IF a.window.kind \in {"ramp", "hold"}
           THEN \E s \in stages : SelectsStage(a.window, s)
           ELSE a.window.name = "" /\ a.window.level = None
        /\ a.window.kind = "cooldown" =>
               cooldown > 0 /\ resource /\ family.kind \in {"gauge", "counter"}
        /\ resource => /\ a.ref.stat \in LegalStats[family.kind]
                       /\ labels \subseteq family.labels
                       /\ "service" \in labels => a.ref.labels.service \in services
        /\ ~resource =>
               /\ "service" \notin labels /\ Cardinality(labels) <= 1
               /\ IF a.ref.stat = "" THEN a.ref.name \in SloMetrics
                  ELSE known /\ a.ref.stat \in LegalStats[family.kind]
               /\ \A k \in labels : <<k, a.ref.labels[k]>> \in facets
=============================================================================
