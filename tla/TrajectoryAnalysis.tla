------------------------- MODULE TrajectoryAnalysis -------------------------
(***************************************************************************)
(* The analyses trajectory_harness runs over one trajectory: the tool-call *)
(* view, the four measurers, the eight detectors and the three verifiers,  *)
(* each an operator on a sequence of steps.                                *)
(*                                                                         *)
(* A step is a record: id, source, operation (the adapter's, "" if it has  *)
(* none), llm (llm_call_count is not 0), calls (its tool calls), inMsgs    *)
(* and outMsgs (the parts of its messages), obs (the size of the           *)
(* observation, None without one), failure (its key, "" without one),      *)
(* status, start, dur, name, and metrics / attrs: a count per kind of      *)
(* token.  A call has a tool and args, and so has a part of the type       *)
(* "tool_call".  Ratios are kept as pairs <<n, d>>.                        *)
(***************************************************************************)
EXTENDS Integers, Sequences, FiniteSets, SequencesExt, FiniteSetsExt

CONSTANTS PeakTokens,    \* MIN_PEAK_INPUT_TOKENS and MIN_LAST_INPUT_TOKENS
          ShortTokens,   \* SHORT_OUTPUT_TOKENS
          OutputBytes    \* MAX_TOOL_OUTPUT_BYTES

ASSUME ThresholdsAssumption == {PeakTokens, ShortTokens, OutputBytes} \subseteq Nat

None == -1               \* an absent number; a lower one is not a valid count

(* What SetToSortSeq, SelectSeq and @@ are, said in a form the provers can expand: *)
(* an order by the rank of each element, neither a choice among all permutations  *)
(* nor a recursion.                                                               *)

\* The elements of S in the order of `before`, a strict total order on S.
Ordered(S, before(_, _)) ==
    LET rank == [x \in S |-> Cardinality({ y \in S : before(y, x) })]
    IN  [k \in 1..Cardinality(S) |-> CHOOSE x \in S : rank[x] = k - 1]

\* The elements of seq that pass the test, in their order.
Selected(seq, Test(_)) ==
    LET at == Ordered({ i \in DOMAIN seq : Test(seq[i]) }, <)
    IN  [k \in DOMAIN at |-> seq[at[k]]]

\* Two records, or functions, as one.
f ++ g == [x \in DOMAIN f \cup DOMAIN g |-> IF x \in DOMAIN f THEN f[x] ELSE g[x]]

StepIds(steps) == [i \in DOMAIN steps |-> steps[i].id]
Unique(seq) == Selected([i \in DOMAIN seq |-> <<i, seq[i]>>],
                         LAMBDA p : \A j \in 1..(p[1] - 1) : seq[j] # p[2])
Distinct(seq) == [i \in DOMAIN Unique(seq) |-> Unique(seq)[i][2]]
Total(seq) == FoldLeft(+, 0, seq)
Ratio(n, d) == <<n, d>>
AtLeast(r, n, d) == r[1] * d >= n * r[2]

-----------------------------------------------------------------------------
(* Steps and the calls they carry. *)

\* What the ATIF model makes sure of: turns in a sequence, each with a number of
\* its own, and with times, sizes and counts that are numbers.
IsTuple(seq) == seq \in Seq(ToSet(seq))
SoundStep(s) == /\ IsTuple(s.calls) /\ IsTuple(s.inMsgs) /\ IsTuple(s.outMsgs)
                /\ s.start \in Int /\ s.dur \in Int /\ s.obs \in Int
                /\ \A kind \in {"input", "output", "cached"} :
                      s.metrics[kind] \in Int /\ s.attrs[kind] \in Int
SoundSteps(steps) == /\ IsTuple(steps)
                     /\ \A i \in DOMAIN steps : SoundStep(steps[i])
                     /\ \A i, j \in DOMAIN steps : steps[i].id = steps[j].id => i = j
SoundTrajectory(t) == SoundSteps(t.steps) /\ t.duration \in Int

StepOperation(s) ==
    CASE s.operation # ""             -> s.operation
      [] s.operation = "" /\ s.source = "agent" /\ s.llm -> "inference"
      [] s.operation = "" /\ ~(s.source = "agent" /\ s.llm) ->
            IF s.calls # <<>> THEN "execute_tool" ELSE s.source

StepName(s) == IF s.name # "" THEN s.name
               ELSE IF s.calls # <<>> THEN s.calls[1].tool ELSE s.source

IsCompactStep(s) == "compact" \in {StepOperation(s), StepName(s)}

IsModelCall(s) == StepOperation(s) \in {"inference", "chat", "completion", "generate_content",
                                       "text_completion", "embeddings"}

TokenCount(s, kind) ==
    LET valid == Selected(<<s.metrics[kind], s.attrs[kind]>>, LAMBDA n : n >= 0)
    IN  IF valid = <<>> THEN None ELSE valid[1]

CallsInStep(s, preferInput) ==
    LET parts == IF preferInput THEN s.inMsgs ELSE s.outMsgs
        found == IF s.calls # <<>> THEN s.calls
                 ELSE Selected(parts, LAMBDA p : p.type = "tool_call")
    IN  [i \in DOMAIN found |-> [step |-> s, tool |-> found[i].tool,
                                 args |-> found[i].args]]

ToolCalls(steps) ==
    LET executed == Selected(steps, LAMBDA s : StepOperation(s) = "execute_tool")
        from(seq, preferInput) ==
            FlattenSeq([i \in DOMAIN seq |-> CallsInStep(seq[i], preferInput)])
    IN  IF executed # <<>> THEN from(executed, TRUE) ELSE from(steps, FALSE)

Signature(call) == <<call.tool, call.args>>
CallFailed(call) == call.step.failure # "" \/ call.step.status = "error"

HasToolExecution(s) ==
    StepOperation(s) = "execute_tool" \/ (s.calls # <<>> /\ s.obs # None)

OutputReported(s) == s.obs # None \/ s.outMsgs # <<>>
ToolOutputBytes(s) == IF s.obs # None THEN s.obs ELSE Len(s.outMsgs)

\* The failed call and the next call of another step to the same tool.
RetriesAmong(calls) ==
    LET next(i) == SelectInSubSeq(calls, i + 1, Len(calls),
                       LAMBDA c : /\ c.tool = calls[i].tool
                                  /\ c.step.id # calls[i].step.id)
        retried == Selected([i \in DOMAIN calls |-> i],
                       LAMBDA i : CallFailed(calls[i]) /\ next(i) # 0)
    IN  [k \in DOMAIN retried |-> [failed |-> calls[retried[k]],
                                   retry  |-> calls[next(retried[k])]]]
RetryTransitions(steps) == RetriesAmong(ToolCalls(steps))

ArgumentsChanged(t) == Signature(t.failed) # Signature(t.retry)
Recovered(t) == ~CallFailed(t.retry)

-----------------------------------------------------------------------------
(* Measurers.  A result is [id, status, values, steps]; the specification  *)
(* of a measurer names the values it may report.                           *)

ContextUsageSpec ==
    {"model_call_count", "input_reported_call_count", "input_coverage_ratio",
     "first_input_tokens", "last_input_tokens", "peak_input_tokens",
     "input_token_delta", "input_growth_ratio", "compact_count",
     "post_compact_observed_count", "post_compact_input_delta_tokens"}

ModelUsageSpec ==
    {"model_call_count", "usage_reported_call_count", "usage_coverage_ratio",
     "input_tokens", "output_tokens", "output_reported_call_count",
     "average_output_tokens_per_call", "peak_output_tokens_per_call",
     "output_under_500_tokens_call_count", "output_under_500_tokens_ratio",
     "total_tokens", "average_input_tokens_per_call", "peak_input_tokens_per_call",
     "cached_input_tokens", "uncached_input_tokens", "cache_hit_ratio"}

RetryUsageSpec ==
    {"failed_tool_call_count", "retried_failed_tool_call_count",
     "retried_failure_ratio", "unchanged_retry_count", "changed_retry_count",
     "recovered_retry_count"}

ToolUsageSpec ==
    {"tool_call_count", "failed_tool_call_count", "tool_failure_ratio",
     "tool_duration_ms", "result_reported_call_count", "result_coverage_ratio",
     "result_bytes", "average_result_bytes_per_call", "peak_result_bytes_per_call",
     "max_concurrent_tool_calls"}

RatioNames ==
    {"input_coverage_ratio", "input_growth_ratio", "usage_coverage_ratio",
     "average_output_tokens_per_call", "output_under_500_tokens_ratio",
     "average_input_tokens_per_call", "cache_hit_ratio", "retried_failure_ratio",
     "tool_failure_ratio", "result_coverage_ratio", "average_result_bytes_per_call"}

NotApplicable(id) == [id |-> id, status |-> "not_applicable",
                      values |-> <<>>, steps |-> <<>>]
\* Entries a result has only under a condition.
When(condition, values) == IF condition THEN values ELSE <<>>
Measured(id, values, steps) == [id |-> id, status |-> "measured",
                                values |-> values, steps |-> steps]

StartOrder(steps) ==
    Ordered(DOMAIN steps,
                 LAMBDA i, j : \/ steps[i].start < steps[j].start
                               \/ steps[i].start = steps[j].start /\ i < j)

\* Input tokens right after each compact step minus those right before it.
CompactReductions(ordered, covered, compacts) ==
    LET position(s) == CHOOSE i \in DOMAIN ordered : ordered[i].id = s.id
        before(c) == Selected(covered, LAMBDA p : position(p[1]) < position(c))
        after(c)  == Selected(covered, LAMBDA p : position(p[1]) > position(c))
        seen == Selected(compacts, LAMBDA c : before(c) # <<>> /\ after(c) # <<>>)
    IN  [k \in DOMAIN seen |-> Head(after(seen[k]))[2] - Last(before(seen[k]))[2]]

ContextUsage(steps) ==
    LET order    == StartOrder(steps)
        ordered  == [i \in DOMAIN order |-> steps[order[i]]]
        calls    == Selected(ordered, IsModelCall)
        compacts == Selected(ordered, IsCompactStep)
        counted  == [i \in DOMAIN calls |-> <<calls[i], TokenCount(calls[i], "input")>>]
        covered  == Selected(counted, LAMBDA p : p[2] # None)
        counts   == [i \in DOMAIN covered |-> covered[i][2]]
        deltas   == CompactReductions(ordered, covered, compacts)
    IN  IF calls = <<>> /\ compacts = <<>> THEN NotApplicable("context_usage")
        ELSE Measured("context_usage",
               [model_call_count |-> Len(calls), compact_count |-> Len(compacts),
                input_reported_call_count |-> Len(covered),
                post_compact_observed_count |-> Len(deltas)]
                 ++ When(calls # <<>>,
                      [input_coverage_ratio |-> Ratio(Len(covered), Len(calls))])
                 ++ When(counts # <<>>,
                      [first_input_tokens |-> counts[1],
                       last_input_tokens  |-> Last(counts),
                       peak_input_tokens  |-> Max(ToSet(counts)),
                       input_token_delta  |-> Last(counts) - counts[1]])
                 ++ When(counts # <<>> /\ counts[1] > 0,
                      [input_growth_ratio |-> Ratio(Last(counts), counts[1])])
                 ++ When(deltas # <<>>,
                      [post_compact_input_delta_tokens |-> Total(deltas)]),
               Distinct([i \in DOMAIN covered |-> covered[i][1].id]
                          \o StepIds(compacts)))

ModelUsage(steps) ==
    LET calls == Selected(steps, IsModelCall)
        reported(kind) == Selected(
            [i \in DOMAIN calls |-> TokenCount(calls[i], kind)], LAMBDA n : n # None)
        paired == Selected(calls, LAMBDA c :
            /\ TokenCount(c, "input") # None
            /\ TokenCount(c, "cached") # None
            /\ TokenCount(c, "cached") <= TokenCount(c, "input"))
        sum(seq, kind) == Total([i \in DOMAIN seq |-> TokenCount(seq[i], kind)])
        ins   == reported("input")
        outs  == reported("output")
        short == Selected(outs, LAMBDA n : n < ShortTokens)
        usage == Selected(calls, LAMBDA c :
            \E kind \in {"input", "output", "cached"} : TokenCount(c, kind) # None)
    IN  IF calls = <<>> THEN NotApplicable("model_usage")
        ELSE Measured("model_usage",
               [model_call_count |-> Len(calls),
                usage_reported_call_count |-> Len(usage),
                usage_coverage_ratio |-> Ratio(Len(usage), Len(calls))]
                 ++ When(ins # <<>>,
                      [input_tokens |-> Total(ins),
                       average_input_tokens_per_call |-> Ratio(Total(ins), Len(ins)),
                       peak_input_tokens_per_call |-> Max(ToSet(ins))])
                 ++ When(outs # <<>>,
                      [output_tokens |-> Total(outs),
                       output_reported_call_count |-> Len(outs),
                       average_output_tokens_per_call |-> Ratio(Total(outs), Len(outs)),
                       peak_output_tokens_per_call |-> Max(ToSet(outs)),
                       output_under_500_tokens_call_count |-> Len(short),
                       output_under_500_tokens_ratio |-> Ratio(Len(short), Len(outs))])
                 ++ When(ins \o outs # <<>>, [total_tokens |-> Total(ins \o outs)])
                 ++ When(reported("cached") # <<>>,
                      [cached_input_tokens |-> Total(reported("cached"))])
                 ++ When(sum(paired, "input") > 0,
                      [uncached_input_tokens |->
                         sum(paired, "input") - sum(paired, "cached"),
                       cache_hit_ratio |->
                         Ratio(sum(paired, "cached"), sum(paired, "input"))]),
               StepIds(Selected(calls, LAMBDA c : TokenCount(c, "output") # None)))

RetryUsage(steps) ==
    LET calls  == ToolCalls(steps)
        failed == Selected(calls, CallFailed)
        moves  == RetryTransitions(steps)
    IN  IF calls = <<>> THEN NotApplicable("retry_usage")
        ELSE Measured("retry_usage",
               [failed_tool_call_count         |-> Len(failed),
                retried_failed_tool_call_count |-> Len(moves),
                unchanged_retry_count |->
                    Len(Selected(moves, LAMBDA t : ~ArgumentsChanged(t))),
                changed_retry_count   |-> Len(Selected(moves, ArgumentsChanged)),
                recovered_retry_count |-> Len(Selected(moves, Recovered))]
                 ++ When(failed # <<>>,
                      [retried_failure_ratio |-> Ratio(Len(moves), Len(failed))]),
               Distinct(FlattenSeq([i \in DOMAIN moves |->
                          <<moves[i].failed.step.id, moves[i].retry.step.id>>])))

\* mutant: the starts come first among equal times
StartsFirst(calls) ==
    LET timed == Selected(calls, LAMBDA s : s.dur > 0)
        live(p) == { i \in DOMAIN timed : timed[i].start <= p
                                          /\ p <= timed[i].start + timed[i].dur }
    IN  Max({1} \cup { Cardinality(live(timed[i].start)) : i \in DOMAIN timed })

\* A sweep over the start and end events, the ends first among equals.
MaxConcurrency(calls) ==
    LET timed == Selected(calls, LAMBDA s : s.dur > 0)
        mark(i, at, change) == [i |-> i, at |-> at, change |-> change]
        events == { mark(i, timed[i].start, 1) : i \in DOMAIN timed }
                    \cup { mark(i, timed[i].start + timed[i].dur, -1) : i \in DOMAIN timed }
        ordered == Ordered(events, LAMBDA e, f :
                     \/ e.at < f.at
                     \/ e.at = f.at /\ e.change < f.change
                     \/ e.at = f.at /\ e.change = f.change /\ e.i < f.i)
        step(acc, e) == [now  |-> acc.now + e.change,
                         peak |-> Max({acc.peak, acc.now + e.change})]
    IN  IF timed = <<>> THEN 1
        ELSE Max({1, FoldLeft(step, [now |-> 0, peak |-> 0], ordered).peak})

ToolUsage(steps) ==
    LET calls    == Selected(steps, HasToolExecution)
        failed   == Selected(calls, LAMBDA s : s.failure # "")
        reported == Selected(calls, OutputReported)
        sizes    == [i \in DOMAIN reported |-> ToolOutputBytes(reported[i])]
    IN  IF calls = <<>> THEN NotApplicable("tool_usage")
        ELSE Measured("tool_usage",
               [tool_call_count        |-> Len(calls),
                failed_tool_call_count |-> Len(failed),
                tool_failure_ratio     |-> Ratio(Len(failed), Len(calls)),
                tool_duration_ms |-> Total([i \in DOMAIN calls |-> calls[i].dur]),
                result_reported_call_count |-> Len(reported),
                result_coverage_ratio |-> Ratio(Len(reported), Len(calls)),
                result_bytes |-> Total(sizes),
                max_concurrent_tool_calls |-> MaxConcurrency(calls)]
                 ++ When(sizes # <<>>,
                      [average_result_bytes_per_call |-> Ratio(Total(sizes), Len(sizes)),
                       peak_result_bytes_per_call |-> Max(ToSet(sizes))]),
               StepIds(calls))

-----------------------------------------------------------------------------
(* Detectors.  A result is [id, status, findings], a finding the sequence  *)
(* of the ids of the steps that are its evidence.                          *)

Detection(id, status, findings) == [id |-> id, status |-> status, findings |-> findings]
Analyzed(id, findings) == Detection(id, "analyzed", findings)
Inapplicable(id) == Detection(id, "not_applicable", <<>>)

MeasuredResult(results, id) ==
    Selected(results, LAMBDA r : r.id = id /\ r.status = "measured")

\* Whether the measurer has a usable result with all the numbers `names`.
HasNumbers(results, id, names) ==
    LET found == MeasuredResult(results, id)
    IN  found # <<>> /\ names \subseteq DOMAIN found[1].values

CacheRetentionBloat(results) ==
    LET model == MeasuredResult(results, "model_usage")[1]
        context == MeasuredResult(results, "context_usage")[1]
    IN  IF ~(/\ HasNumbers(results, "model_usage", {"cache_hit_ratio", "peak_input_tokens_per_call"})
             /\ HasNumbers(results, "context_usage", {"input_growth_ratio"}))
        THEN Inapplicable("cache_retention_bloat")
        ELSE Analyzed("cache_retention_bloat",
               IF /\ AtLeast(model.values.cache_hit_ratio, 8, 10)
                  /\ model.values.peak_input_tokens_per_call >= PeakTokens
                  /\ AtLeast(context.values.input_growth_ratio, 3, 2)
               THEN <<Distinct(model.steps \o context.steps)>> ELSE <<>>)

ContextBloat(results) ==
    LET context == MeasuredResult(results, "context_usage")[1]
    IN  IF ~HasNumbers(results, "context_usage", {"last_input_tokens", "input_growth_ratio",
                                             "compact_count"})
        THEN Inapplicable("context_bloat_without_compact")
        ELSE Analyzed("context_bloat_without_compact",
               IF /\ context.values.last_input_tokens >= PeakTokens
                  /\ AtLeast(context.values.input_growth_ratio, 2, 1)
                  /\ context.values.compact_count = 0
               THEN <<context.steps>> ELSE <<>>)

OversizedToolObservation(steps) ==
    LET reported  == Selected(steps, LAMBDA s : HasToolExecution(s) /\ OutputReported(s))
        oversized == Selected(reported, LAMBDA s : ToolOutputBytes(s) > OutputBytes)
    IN  IF reported = <<>> THEN Inapplicable("oversized_tool_observation")
        ELSE Analyzed("oversized_tool_observation",
                      IF oversized = <<>> THEN <<>> ELSE <<StepIds(oversized)>>)

\* The place of each step in start order.
Places(steps) ==
    LET order == StartOrder(steps)
    IN  [id \in ToSet(StepIds(steps)) |-> CHOOSE p \in DOMAIN order : steps[order[p]].id = id]

PlacedCalls(calls, place) ==
    LET at(i) == place[calls[i].step.id]
        order == Ordered(DOMAIN calls, LAMBDA i, j :
                     at(i) < at(j) \/ (at(i) = at(j) /\ i < j))
    IN  [k \in DOMAIN order |-> [at |-> at(order[k]), call |-> calls[order[k]]]]

\* Pairs <<earlier, later>> of steps with the same call and a compact step
\* between them; the earlier one is the nearest that has one.
RefetchesAmong(placed, compacts) ==
    LET match(k) == SelectLastInSubSeq(placed, 1, k - 1, LAMBDA p :
                         /\ Signature(p.call) = Signature(placed[k].call)
                         /\ \E c \in compacts : p.at < c /\ c < placed[k].at)
        matched  == Selected([k \in DOMAIN placed |-> k], LAMBDA k : match(k) # 0)
    IN  [m \in DOMAIN matched |-> <<placed[match(matched[m])].call.step.id,
                                    placed[matched[m]].call.step.id>>]
RefetchPairs(steps) ==
    RefetchesAmong(PlacedCalls(ToolCalls(steps), Places(steps)),
                   {Places(steps)[s.id] : s \in {t \in ToSet(steps) : IsCompactStep(t)}})

PostCompactRefetch(steps) ==
    LET pairs == RefetchPairs(steps)
    IN  IF ToolCalls(steps) = <<>> \/ Selected(steps, IsCompactStep) = <<>>
        THEN Inapplicable("post_compact_refetch")
        ELSE Analyzed("post_compact_refetch",
                      IF pairs = <<>> THEN <<>> ELSE <<Distinct(FlattenSeq(pairs))>>)

\* mutant: only a call right after an equal one is a repeat
RepeatedInARow(steps) ==
    LET calls   == ToolCalls(steps)
        repeats == Selected([i \in DOMAIN calls |-> i], LAMBDA i :
                     i > 1 /\ Signature(calls[i - 1]) = Signature(calls[i]))
    IN  IF calls = <<>> THEN Inapplicable("repeated_tool_call")
        ELSE Analyzed("repeated_tool_call",
               IF repeats = <<>> THEN <<>>
               ELSE <<[k \in DOMAIN repeats |-> calls[repeats[k]].step.id]>>)

RepeatedToolCall(steps) ==
    LET calls    == ToolCalls(steps)
        repeats  == Selected([i \in DOMAIN calls |-> i], LAMBDA i :
                      \E j \in 1..(i - 1) : Signature(calls[j]) = Signature(calls[i]))
    IN  IF calls = <<>> THEN Inapplicable("repeated_tool_call")
        ELSE Analyzed("repeated_tool_call",
               IF repeats = <<>> THEN <<>>
               ELSE <<[k \in DOMAIN repeats |-> calls[repeats[k]].step.id]>>)

ActionKey(s) ==
    LET calls == CallsInStep(s, TRUE)
        names == [i \in DOMAIN calls |-> calls[i].tool]
    IN  <<StepOperation(s),
          IF StepOperation(s) = "execute_tool" /\ names # <<>> THEN names
          ELSE <<StepName(s)>>>>

\* One finding per action whose first failure is not its last attempt.
RetryLoop(steps) ==
    LET keys == Distinct([i \in DOMAIN steps |-> ActionKey(steps[i])])
        attempts(k) == Selected(steps, LAMBDA s : ActionKey(s) = k)
        first(k)  == SelectInSeq(attempts(k), LAMBDA s : s.failure # "")
        looping   == Selected(keys, LAMBDA k :
                       first(k) # 0 /\ first(k) # Len(attempts(k)))
        retried(k) == SubSeq(attempts(k), first(k), Len(attempts(k)))
    IN  IF steps = <<>> THEN Inapplicable("retry_loop")
        ELSE Analyzed("retry_loop",
                      [i \in DOMAIN looping |-> StepIds(retried(looping[i]))])

ShortDecisionChurn(steps) ==
    LET covered == Selected(steps, LAMBDA s :
                     IsModelCall(s) /\ TokenCount(s, "output") # None)
        short == Selected(covered, LAMBDA s : TokenCount(s, "output") < ShortTokens)
    IN  IF Len(covered) < 3 THEN Inapplicable("short_decision_churn")
        ELSE Analyzed("short_decision_churn",
               IF Len(short) * 10 >= 8 * Len(covered) THEN <<StepIds(short)>> ELSE <<>>)

UnchangedToolRetry(steps) ==
    LET same == Selected(RetryTransitions(steps), LAMBDA t : ~ArgumentsChanged(t))
    IN  IF ToolCalls(steps) = <<>> THEN Inapplicable("unchanged_tool_retry")
        ELSE Analyzed("unchanged_tool_retry",
               IF same = <<>> THEN <<>>
               ELSE <<Distinct(FlattenSeq([i \in DOMAIN same |->
                        <<same[i].failed.step.id, same[i].retry.step.id>>]))>>)

-----------------------------------------------------------------------------
(* Verifiers.  A result is [id, status, verdict, steps].                   *)

Verification(id, status, verdict, steps) ==
    [id |-> id, status |-> status, verdict |-> verdict, steps |-> steps]
Unverified(id, status) == Verification(id, status, "none", <<>>)

ExecutionSuccess(outcome) ==
    IF outcome \in {"none", "unknown"}
    THEN Unverified("execution_success", "not_applicable")
    ELSE Verification("execution_success", "verified",
                      IF outcome = "completed" THEN "pass" ELSE "fail", <<>>)

ToolSuccess(steps) ==
    LET calls  == Selected(steps, HasToolExecution)
        failed == Selected(calls, LAMBDA s : s.failure # "" \/ s.status = "error")
    IN  IF calls = <<>> THEN Unverified("tool_success", "not_applicable")
        ELSE Verification("tool_success", "verified",
                          IF failed = <<>> THEN "pass" ELSE "fail", StepIds(failed))

\* At most `limit` of measurement `name` of `measurer` (the at_most form).
MeasurementThreshold(results, measurer, name, limit) ==
    LET sources == Selected(results, LAMBDA r : r.id = measurer)
        id == "measurement_threshold"
    IN  IF sources = <<>> THEN Unverified(id, "not_applicable")
        ELSE IF Len(sources) > 1 \/ sources[1].status = "error" THEN Unverified(id, "error")
        ELSE IF sources[1].status # "measured" \/ name \notin DOMAIN sources[1].values
             THEN Unverified(id, "not_applicable")
        ELSE Verification(id, "verified",
               IF sources[1].values[name] <= limit THEN "pass" ELSE "fail",
               sources[1].steps)
=============================================================================
