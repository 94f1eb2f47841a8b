--------------------------- MODULE TrajectoryRun ---------------------------
(***************************************************************************)
(* trajectory_harness from recordings to verdict: the dataset builder, the *)
(* analysis of every trajectory, the metrics over the dataset, the two     *)
(* files of the run directory and the verdict, with crashes and reruns in  *)
(* the same directory.                                                     *)
(*                                                                         *)
(* A recording is [format, spans], which the OTel loader reads, or         *)
(* [format, trajs], the trajectories of an ATIF document.  A trajectory is *)
(* [id, target, outcome, execFailure, duration, steps].                    *)
(* `broken` names the plugins that raise: plugins are an isolation         *)
(* boundary, and what the common ones compute is in TrajectoryAnalysis.    *)
(***************************************************************************)
EXTENDS TrajectoryLoader

CONSTANTS Recordings,     \* the selected recordings, a sequence
          Contents,       \* Contents[r]: what recording r may hold
          BrokenSets,     \* the sets of plugins that may be broken
          Policies,       \* the checks the verdict policy may return, <<"none">>
                          \* without one; an unknown status stands for one that raises
          MaxReruns

ASSUME RerunsAssumption == MaxReruns \in Nat
ASSUME PoliciesAssumption == \A policy \in Policies : IsTuple(policy)

VARIABLES phase,     \* build, analyze, write_dataset, write_run, verdict, done or
                     \* raised
          next,      \* the next recording, then the next trajectory
          dataset,   \* [version, read, trajs, issues]: the build, what it read
          run,       \* [version, created, ids, results]: the analysis so far; `created`
                     \* numbers the runs as their times of creation order them
          metrics,   \* the metrics of the finished analysis
          disk,      \* of dataset.json and run.json the version and the ids that
                     \* loading compares, of run.json when its run was created and
                     \* whether a result in it is an error; verdict.json
          broken, reruns

vars == <<phase, next, dataset, run, metrics, disk, broken, reruns>>

Precedence == <<"skipped", "pass", "fail", "error">>
NoDataset == [version |-> 0, ids |-> {}]
NoRun     == [version |-> 0, ids |-> {}, created |-> 0, errors |-> FALSE]
NoVerdict == [status |-> "none", checks |-> <<>>, created |-> 0]
IdsOf(trajs) == { trajs[i].id : i \in DOMAIN trajs }

-----------------------------------------------------------------------------
(* Building the dataset. *)

EmptyRun(version, created) ==
    [version |-> version, created |-> created, ids |-> {}, results |-> <<>>]

Init ==
    /\ phase = "build" /\ next = 1 /\ reruns = 0 /\ metrics = {}
    /\ dataset = [version |-> 1, read |-> <<>>, trajs |-> <<>>, issues |-> <<>>]
    /\ run = EmptyRun(1, 1)
    /\ disk = [dataset |-> NoDataset, run |-> NoRun, verdict |-> NoVerdict]
    /\ broken \in BrokenSets

Loads(content) == IF content.format = "otel" THEN OtelLoads(content.spans)
                  ELSE content.trajs

\* The documents a recording may hold: whatever spans or steps, in sequences.
SoundContent(content) ==
    IF content.format = "otel"
    THEN IsTuple(content.spans) /\ \A i \in DOMAIN content.spans : SoundSpan(content.spans[i])
    ELSE IsTuple(content.trajs) /\ \A i \in DOMAIN content.trajs :
                                      SoundTrajectory(content.trajs[i])

ASSUME RecordingsAssumption ==
    /\ IsTuple(Recordings)
    /\ \A r \in ToSet(Recordings) : \A content \in Contents[r] : SoundContent(content)

BuildStep(read, loaded, issues) ==
    /\ phase = "build" /\ next <= Len(Recordings)
    /\ next' = next + 1
    /\ dataset' = [dataset EXCEPT !.read = @ \o read, !.trajs = @ \o loaded,
                                  !.issues = @ \o issues]
    /\ UNCHANGED <<phase, run, metrics, disk, broken, reruns>>

FetchFails == BuildStep(<<>>, <<>>, <<"fetch">>)
LoadFails  == BuildStep(<<>>, <<>>, <<"load">>)
LoadWorks  == /\ next <= Len(Recordings)
              /\ \E content \in Contents[Recordings[next]] :
                    BuildStep(<<content>>, Loads(content), <<>>)

\* assemble, which the domain owns, puts every loaded trajectory in; the
\* dataset refuses two trajectories of the same id.
Assemble ==
    /\ phase = "build" /\ next > Len(Recordings)
    /\ phase' = IF Cardinality(IdsOf(dataset.trajs)) = Len(dataset.trajs)
                THEN "analyze" ELSE "raised"
    /\ next' = 1
    /\ UNCHANGED <<dataset, run, metrics, disk, broken, reruns>>

-----------------------------------------------------------------------------
(* Analyzing one trajectory. *)

\* A plugin that raises leaves a result of status "error" and no data.
Isolated(result) ==
    CASE result.id \notin broken -> result
      [] result.id \in broken /\ "values" \in DOMAIN result ->
            [result EXCEPT !.status = "error", !.values = <<>>, !.steps = <<>>]
      [] result.id \in broken /\ "findings" \in DOMAIN result ->
            [result EXCEPT !.status = "error", !.findings = <<>>]
      [] result.id \in broken /\ "verdict" \in DOMAIN result ->
            [result EXCEPT !.status = "error", !.verdict = "none", !.steps = <<>>]

Each(results) == [i \in DOMAIN results |-> Isolated(results[i])]

Measure(t) ==
    Each(<<ContextUsage(t.steps), ModelUsage(t.steps),
           RetryUsage(t.steps), ToolUsage(t.steps)>>)

Detect(t, measured) ==
    Each(<<CacheRetentionBloat(measured), ContextBloat(measured),
           OversizedToolObservation(t.steps), PostCompactRefetch(t.steps),
           RepeatedToolCall(t.steps), RetryLoop(t.steps),
           ShortDecisionChurn(t.steps), UnchangedToolRetry(t.steps)>>)

Verify(t, measured) ==
    Each(<<ExecutionSuccess(t.outcome), ToolSuccess(t.steps),
           MeasurementThreshold(measured, "retry_usage", "unchanged_retry_count", 0)>>)

\* Detectors and verifiers read the measurements.
Judged(t, measured) ==
    [t |-> t, measurements |-> measured, detections |-> Detect(t, measured),
     verifications |-> Verify(t, measured)]
Analysis(t) == Judged(t, Measure(t))

Analyze ==
    /\ phase = "analyze" /\ next <= Len(dataset.trajs)
    /\ next' = next + 1
    /\ run' = [run EXCEPT !.ids = @ \cup {dataset.trajs[next].id},
                          !.results = Append(@, Analysis(dataset.trajs[next]))]
    /\ UNCHANGED <<phase, dataset, metrics, disk, broken, reruns>>

-----------------------------------------------------------------------------
(* Metrics: [name, of, value], `of` being the dimensions, and for a number *)
(* of a distribution [name, of, value, agg].                               *)

Metric(name, of, value) == [name |-> name, of |-> of, value |-> value]
Aggregated(name, of, agg, value) == Metric(name, of, value) ++ [agg |-> agg]

Targets == { run.results[i].t.target : i \in DOMAIN run.results }
OfTarget(target) == Selected(run.results, LAMBDA r : r.t.target = target)

Sorted(values) ==
    LET order == Ordered(DOMAIN values, LAMBDA i, j :
                     values[i] < values[j] \/ (values[i] = values[j] /\ i < j))
    IN  [k \in DOMAIN order |-> values[order[k]]]

\* The nearest-rank percentile, `p` being a number of hundredths.
Percentile(values, p) ==
    LET rank == (p * Len(values) + 99) \div 100
    IN  Sorted(values)[Max({1, rank})]

DistributionMetrics(name, of, values, aggregations) ==
    IF values = <<>> THEN {}
    ELSE { m \in { Aggregated(name, of, "sum", Ratio(Total(values), 1)),
                   Aggregated(name, of, "mean", Ratio(Total(values), Len(values))),
                   Aggregated(name, of, "p50", Ratio(Percentile(values, 50), 1)),
                   Aggregated(name, of, "p95", Ratio(Percentile(values, 95), 1)) } :
           m.agg \in aggregations }

\* What does not add up over trajectories, a time or a peak, has no sum.
Unsummed == {"first_input_tokens", "last_input_tokens", "peak_input_tokens",
             "input_token_delta", "peak_input_tokens_per_call",
             "peak_output_tokens_per_call", "peak_result_bytes_per_call",
             "max_concurrent_tool_calls", "execution.duration_ms"}
Aggregations(name) == {"mean", "p50", "p95"} \cup IF name \in Unsummed THEN {} ELSE {"sum"}

ExecutionMetrics(target) ==
    LET rows  == OfTarget(target)
        known == Selected(rows, LAMBDA r : r.t.outcome \notin {"none", "unknown"})
        timed == Selected(known, LAMBDA r : r.t.duration # None)
        rate(outcomes) == Ratio(
            Len(Selected(known, LAMBDA r : r.t.outcome \in outcomes)), Len(known))
    IN  {Metric("trajectory", target, Ratio(Len(rows), 1))} \cup
        IF known = <<>> THEN {}
        ELSE { Metric("execution.completion", target, rate({"completed"})),
               Metric("execution.timeout", target, rate({"timeout"})),
               Metric("execution.failure", target, rate({"failed", "timeout"})) }
             \cup DistributionMetrics("execution.duration_ms", target,
                    [i \in DOMAIN timed |-> timed[i].t.duration],
                    Aggregations("execution.duration_ms"))

\* The failures of one trajectory: of its steps, and of its execution.
FailureEvents(t) ==
    LET failed == Selected(t.steps, LAMBDA s : s.failure # "")
    IN  [i \in DOMAIN failed |-> <<"step", failed[i].failure>>]
          \o (IF t.execFailure = "" THEN <<>> ELSE <<<<"execution", t.execFailure>>>>)

\* mutant: the rate counts events where it should count trajectories
FailureRateOfEvents(target) ==
    LET rows   == OfTarget(target)
        events == FlattenSeq([i \in DOMAIN rows |-> FailureEvents(rows[i].t)])
        count(key) == Len(Selected(events, LAMBDA e : e = key))
    IN  UNION { { Metric("failure.count", <<target, key>>, Ratio(count(key), 1)),
                  Metric("failure.rate", <<target, key>>,
                         Ratio(count(key), Len(rows))) } : key \in ToSet(events) }

FailureMetrics(target) ==
    LET rows   == OfTarget(target)
        events == FlattenSeq([i \in DOMAIN rows |-> FailureEvents(rows[i].t)])
        count(key) == Len(Selected(events, LAMBDA e : e = key))
        affected(key) == Len(Selected(rows, LAMBDA r :
                           key \in ToSet(FailureEvents(r.t))))
    IN  UNION { { Metric("failure.count", <<target, key>>, Ratio(count(key), 1)),
                  Metric("failure.rate", <<target, key>>,
                         Ratio(affected(key), Len(rows))) } : key \in ToSet(events) }

\* Applicability and error rate of a plugin over the rows of the target.
HealthMetrics(target, kind, id, results, good) ==
    LET rows == Len(OfTarget(target))
        rate(status) == Ratio(Len(Selected(results, LAMBDA r : r.status = status)), rows)
    IN  { Metric("applicability", <<target, kind, id>>, rate(good)),
          Metric("error", <<target, kind, id>>, rate("error")) }

ResultsOf(target, kind, k) ==
    [i \in DOMAIN OfTarget(target) |-> OfTarget(target)[i][kind][k]]

DetectionMetrics(target) ==
    LET kind == "detections" IN
    UNION { LET results == ResultsOf(target, kind, k)
                id == results[1].id
                found == Selected(results, LAMBDA r : r.findings # <<>>)
            IN  HealthMetrics(target, kind, id, results, "analyzed")
                \cup IF found = <<>> THEN {}
                     ELSE { Metric("finding.count", <<target, kind, id>>,
                              Ratio(Total([i \in DOMAIN found |-> Len(found[i].findings)]), 1)),
                            Metric("finding.rate", <<target, kind, id>>,
                              Ratio(Len(found), Len(OfTarget(target)))) }
          : k \in DOMAIN OfTarget(target)[1][kind] }

VerificationMetrics(target) ==
    LET kind == "verifications" IN
    UNION { LET results == ResultsOf(target, kind, k)
                id == results[1].id
                judged == Selected(results, LAMBDA r :
                            r.status = "verified" /\ r.verdict # "none")
                passing == Selected(judged, LAMBDA r : r.verdict = "pass")
            IN  HealthMetrics(target, kind, id, results, "verified")
                \cup IF judged = <<>> THEN {}
                     ELSE { Metric("verification.pass", <<target, kind, id>>,
                                   Ratio(Len(passing), Len(judged))) }
          : k \in DOMAIN OfTarget(target)[1][kind] }

SpecOf(id) == CASE id = "context_usage" -> ContextUsageSpec
               [] id = "model_usage"   -> ModelUsageSpec
               [] id = "retry_usage"   -> RetryUsageSpec
               [] id = "tool_usage"    -> ToolUsageSpec

\* A distribution per declared measurement; those that are ratios themselves go
\* through the same code and are left out.
MeasurementMetrics(target) ==
    LET kind == "measurements" IN
    UNION { LET results == ResultsOf(target, kind, k)
                id == results[1].id
                having(name) == Selected(results, LAMBDA r :
                                  r.status = "measured" /\ name \in DOMAIN r.values)
            IN  HealthMetrics(target, kind, id, results, "measured")
                \cup UNION { DistributionMetrics("measurement.value", <<target, id, name>>,
                               [i \in DOMAIN having(name) |-> having(name)[i].values[name]],
                               Aggregations(name))
                             : name \in SpecOf(id) \ RatioNames }
          : k \in DOMAIN OfTarget(target)[1][kind] }

AggregateMetrics ==
    UNION { ExecutionMetrics(target) \cup FailureMetrics(target)
              \cup DetectionMetrics(target) \cup VerificationMetrics(target)
              \cup MeasurementMetrics(target) : target \in Targets }

Aggregate ==
    /\ phase = "analyze" /\ next > Len(dataset.trajs)
    /\ metrics' = AggregateMetrics
    /\ phase' = "write_dataset"
    /\ UNCHANGED <<next, dataset, run, disk, broken, reruns>>

-----------------------------------------------------------------------------
(* The run directory and the verdict. *)

Kinds == {"detections", "verifications", "measurements"}

\* The results of status "error", by where they are.
Errors(kind) ==
    UNION { { <<kind, i, k>> : k \in { j \in DOMAIN run.results[i][kind] :
                                       run.results[i][kind][j].status = "error" } }
            : i \in DOMAIN run.results }

RunFile == [version |-> run.version, ids |-> run.ids, created |-> run.created,
            errors |-> \E kind \in Kinds : Errors(kind) # {}]

\* Each file is written beside its target and renamed over it.
WriteDataset ==
    /\ phase = "write_dataset"
    /\ disk' = [disk EXCEPT !.dataset =
                  [version |-> dataset.version, ids |-> IdsOf(dataset.trajs)]]
    /\ phase' = "write_run"
    /\ UNCHANGED <<next, dataset, run, metrics, broken, reruns>>

WriteRun ==
    /\ phase = "write_run"
    /\ disk' = [disk EXCEPT !.run = RunFile]
    /\ phase' = "verdict"
    /\ UNCHANGED <<next, dataset, run, metrics, broken, reruns>>

\* What loading accepts: the same dataset version and no unknown trajectory.
ArtifactFits(d, r) == r.version = d.version /\ r.ids \subseteq d.ids

LoadRunArtifact(files) ==
    IF files.dataset # NoDataset /\ files.run # NoRun /\ ArtifactFits(files.dataset, files.run)
    THEN <<files.dataset, files.run>> ELSE <<>>

HealthErrors == { <<"build", i>> : i \in DOMAIN dataset.issues }
                  \cup UNION { Errors(kind) : kind \in Kinds }

WorstOf(statuses) ==
    IF statuses = <<>> THEN "skipped"
    ELSE Precedence[Max({ CHOOSE k \in 1..4 : Precedence[k] = statuses[i]
                          : i \in DOMAIN statuses })]

\* The verdict tells which run it is of by the time that run was created; an
\* error of the run itself or a policy that raised leaves it no checks.
BuildVerdict(policy) ==
    LET verdict(status, checks) ==
            [status |-> status, checks |-> checks, created |-> run.created]
    IN  IF HealthErrors # {} THEN verdict("error", <<>>)
        ELSE IF dataset.trajs = <<>> \/ policy = <<"none">> THEN verdict("skipped", <<>>)
        ELSE IF \E i \in DOMAIN policy : policy[i] \notin ToSet(Precedence)
        THEN verdict("error", <<>>)
        ELSE verdict(WorstOf(policy), policy)

\* mutant: a verdict that is there is kept
WriteVerdictOnce ==
    /\ phase = "verdict"
    /\ \E policy \in Policies :
         disk' = [disk EXCEPT !.verdict = IF @ = NoVerdict THEN BuildVerdict(policy) ELSE @]
    /\ phase' = "done"
    /\ UNCHANGED <<next, dataset, run, metrics, broken, reruns>>

WriteVerdict ==
    /\ phase = "verdict"
    /\ \E policy \in Policies : disk' = [disk EXCEPT !.verdict = BuildVerdict(policy)]
    /\ phase' = "done"
    /\ UNCHANGED <<next, dataset, run, metrics, broken, reruns>>

\* The same run id is run again, after the run ended or died wherever it was,
\* over a dataset whose version the domain has changed or not.  Nothing of the
\* directory is removed: each file stays until the new run writes its own.
Rerun ==
    /\ reruns < MaxReruns
    /\ reruns' = reruns + 1 /\ phase' = "build" /\ next' = 1 /\ metrics' = {}
    /\ \E version \in {dataset.version, dataset.version + 1} :
         /\ dataset' = [version |-> version, read |-> <<>>, trajs |-> <<>>, issues |-> <<>>]
         /\ run' = EmptyRun(version, run.created + 1)
    /\ UNCHANGED <<disk, broken>>

Finished == phase \in {"done", "raised"} /\ UNCHANGED vars

Next == \/ FetchFails \/ LoadFails \/ LoadWorks \/ Assemble \/ Analyze \/ Aggregate
        \/ WriteDataset \/ WriteRun \/ WriteVerdict \/ Rerun \/ Finished

Spec == Init /\ [][Next]_vars

-----------------------------------------------------------------------------
(* What the analysis promises. *)

Usable(r, kind, id) == { x \in ToSet(r[kind]) : x.id = id /\ x.status \in
                              {"analyzed", "measured", "verified"} }
Evidence(r, id) == UNION { UNION { ToSet(x.findings[k]) : k \in DOMAIN x.findings }
                           : x \in Usable(r, "detections", id) }

\* The detectors and the retry measurer tell one story of a trajectory: a pair
\* of equal calls that one of them reports (a retry with unchanged arguments, a
\* refetch across a compact step) always has a step that the repeated-call
\* detector reports, although that one reads the calls in recorded order and
\* the refetch detector in start order; and the threshold verifier on the
\* measured unchanged retries fails exactly where the detector finds some.
DetectorsAgree ==
    phase = "write_dataset" => \A i \in DOMAIN run.results :
        LET r == run.results[i]
            pairs == ToSet(RefetchPairs(r.t.steps))
                       \cup { <<t.failed.step.id, t.retry.step.id>> : t \in
                             { u \in ToSet(RetryTransitions(r.t.steps)) : ~ArgumentsChanged(u) } }
        IN  /\ "repeated_tool_call" \notin broken =>
                 \A p \in pairs : p[1] # p[2] /\
                    {p[1], p[2]} \cap Evidence(r, "repeated_tool_call") # {}
            /\ \A v \in Usable(r, "verifications", "measurement_threshold") :
                 "unchanged_tool_retry" \notin broken =>
                    (v.verdict = "fail" <=> Evidence(r, "unchanged_tool_retry") # {})

\* The most calls that ran at one moment, an interval being closed at its start
\* and open at its end.
Overlap(steps) ==
    LET timed == { s \in ToSet(steps) : HasToolExecution(s) /\ s.dur > 0 }
        at(p) == { s \in timed : s.start <= p /\ p < s.start + s.dur }
    IN  Max({1} \cup { Cardinality(at(s.start)) : s \in timed })

\* The change of input tokens over a compact step, from the calls nearest to it.
NearestChange(steps, c) ==
    LET pos(i) == <<steps[i].start, i>>
        lt(i, j) == pos(i)[1] < pos(j)[1] \/ (pos(i)[1] = pos(j)[1] /\ i < j)
        calls == { i \in DOMAIN steps : IsModelCall(steps[i])
                                         /\ TokenCount(steps[i], "input") # None }
        before == { i \in calls : lt(i, c) /\ \A j \in calls : lt(j, c) => ~lt(i, j) }
        after  == { i \in calls : lt(c, i) /\ \A j \in calls : lt(c, j) => ~lt(j, i) }
    IN  { TokenCount(steps[a], "input") - TokenCount(steps[b], "input") :
          a \in after, b \in before }

\* What the measurers report is what happened: the concurrency is the real
\* overlap, a change over compact steps is measured between the nearest calls,
\* cached tokens never exceed the input they are compared with, no call is counted
\* as recovered or retried that did not fail, and every value reported is declared
\* (one that is not would be dropped from the metrics without a word).
MeasurementsAreExact ==
    phase = "write_dataset" => \A i \in DOMAIN run.results :
        LET r == run.results[i]
            steps == r.t.steps
            got(id) == Usable(r, "measurements", id)
            named(m) == DOMAIN m.values = {} \/ DOMAIN m.values \subseteq SpecOf(m.id)
            compacts == { c \in DOMAIN steps : IsCompactStep(steps[c]) }
        IN  /\ \A k \in DOMAIN r.measurements : named(r.measurements[k])
            /\ \A m \in got("tool_usage") : m.values.max_concurrent_tool_calls = Overlap(steps)
            /\ \A m \in got("context_usage") :
                 /\ m.values.post_compact_observed_count =
                      Cardinality({ c \in compacts : NearestChange(steps, c) # {} })
                 /\ "post_compact_input_delta_tokens" \in DOMAIN m.values =>
                      m.values.post_compact_input_delta_tokens =
                      MapThenSumSet(LAMBDA c : SumSet(NearestChange(steps, c)), compacts)
            /\ \A m \in got("model_usage") :
                 "cache_hit_ratio" \in DOMAIN m.values =>
                    /\ m.values.uncached_input_tokens >= 0
                    /\ m.values.cache_hit_ratio[1] <= m.values.cache_hit_ratio[2]
                    /\ m.values.uncached_input_tokens <= m.values.input_tokens
            /\ \A m \in got("retry_usage") :
                 /\ m.values.unchanged_retry_count + m.values.changed_retry_count
                      = m.values.retried_failed_tool_call_count
                 /\ m.values.recovered_retry_count <= m.values.retried_failed_tool_call_count
                 /\ m.values.retried_failed_tool_call_count <= m.values.failed_tool_call_count

Value(name) == { m.value : m \in { x \in metrics : x.name = name } }
SumOf(name) == MapThenSumSet(LAMBDA m : m.value[1],
                             { x \in metrics : x.name = name })

\* The failures a recording tells of: its GenAI spans with an error, or those
\* of the steps and the execution of its trajectories.
Failures(content) ==
    IF content.format = "otel"
    THEN Len(Selected(content.spans, LAMBDA s :
               /\ s.errorType # "" \/ s.code = "error"
               /\ s.operation # "" \/ s.toolName # "" \/ s.inParts # <<>> \/ s.outParts # <<>>))
    ELSE Total([i \in DOMAIN content.trajs |-> Len(FailureEvents(content.trajs[i]))])

\* The metrics of the finished run account for all that was read: every
\* trajectory is counted under one target and every failure a recording tells of
\* in one failure count; a rate is never above 1, and a plugin is never both
\* applicable and in error on one trajectory; the percentiles are values of the
\* distribution, in order.
MetricsAddUp ==
    phase = "write_dataset" =>
        /\ SumOf("trajectory") = Len(dataset.trajs)
        /\ SumOf("failure.count") = Total([i \in DOMAIN dataset.read |->
                                            Failures(dataset.read[i])])
        /\ \A name \in {"execution.completion", "execution.timeout", "execution.failure",
                         "failure.rate", "finding.rate", "verification.pass"} :
             \A v \in Value(name) : 0 <= v[1] /\ v[1] <= v[2]
        /\ \A m, n \in metrics :
             /\ m.name = "applicability" /\ n.name = "error" /\ m.of = n.of
                  => m.value[1] + n.value[1] <= n.value[2]
             /\ "agg" \in DOMAIN m /\ "agg" \in DOMAIN n /\ m.name = n.name /\ m.of = n.of
                  => (m.agg = "p50" /\ n.agg = "p95" => m.value[1] <= n.value[1])

\* A pass is earned, and tells what it was given for, whatever crash or rerun
\* came before.  In every phase a pass that is in the directory rests on a policy
\* that passed a check and on no check that failed, erred or is of no known
\* status; it is never of a later run than run.json, and when both are of the
\* same run, run.json holds a trajectory and no result of a plugin that raised
\* (beside a later run.json it is an old verdict, and its time of creation says
\* so).  The directory of a finished run loads: both files, and the verdict, are
\* of this run, and a pass then means that every recording was read.
PublishedRunIsSound ==
    /\ disk.verdict.status = "pass" =>
         /\ "pass" \in ToSet(disk.verdict.checks)
         /\ ToSet(disk.verdict.checks) \subseteq {"pass", "skipped"}
         /\ disk.verdict.created <= disk.run.created
         /\ disk.verdict.created = disk.run.created => disk.run.ids # {} /\ ~disk.run.errors
    /\ phase = "done" =>
         /\ LoadRunArtifact(disk) =
              <<[version |-> dataset.version, ids |-> IdsOf(dataset.trajs)], RunFile>>
         /\ disk.run.ids = disk.dataset.ids /\ disk.verdict.created = disk.run.created
         /\ disk.verdict.status = "pass" =>
              dataset.issues = <<>> /\ Len(dataset.read) = Len(Recordings)
=============================================================================
