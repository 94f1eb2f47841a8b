---------------------------- MODULE TraceDiagnose ----------------------------
(***************************************************************************)
(* From nodes to findings (analyze/diagnose) and to the time budget of one *)
(* trace (analyze/budget.py).  A trace context is [spans, nodes].  The     *)
(* base producers look at all nodes; the scoped detectors visit the tree   *)
(* children first and see what was found so far.                           *)
(*                                                                         *)
(* A finding is [ref, source, severity, note]; the note is the error text  *)
(* for an error and empty otherwise.  Findings are a function from node id *)
(* to a sequence.  Medians are doubled to stay integers.                   *)
(***************************************************************************)
EXTENDS TraceAssembly

CONSTANTS
    Aggregating,              \* kinds that opt out of the hole detector
    Contributed(_, _, _)      \* a domain detector: node, nodes, found so far

Finding(ref, source, severity, note) ==
    [ref |-> ref, source |-> source, severity |-> severity, note |-> note]

Add(found, f) ==
    IF f.ref \in DOMAIN found THEN [found EXCEPT ![f.ref] = Append(@, f)]
                              ELSE found @@ (f.ref :> <<f>>)
AddAll(found, fs) == FoldLeft(Add, found, fs)
Of(found, id)     == IF id \in DOMAIN found THEN found[id] ELSE <<>>

HasErrors(n) == n.errors # <<>>

(***************************************************************************)
(* Base producers.                                                         *)
(***************************************************************************)
ErrorFindings(nodes) ==
    LET bad == SelectSeq(nodes, HasErrors)
    IN  [i \in DOMAIN bad |-> Finding(bad[i].id, "error", "error", bad[i].text)]

EmptyOutput(n) ==
    /\ n.kind = "model-call"
    /\ ~HasErrors(n)
    /\ "out_tokens" \in DOMAIN n.facts
    /\ n.facts["out_tokens"] = 0

RuleFindings(nodes) ==
    LET hit == SelectSeq(nodes, EmptyOutput)
    IN  [i \in DOMAIN hit |-> Finding(hit[i].id, "empty_output", "warn", "")]

MetricsOf(kind) ==
    CASE kind = "model-call" -> <<"duration_ms", "in_tokens", "out_tokens">>
      [] kind = "tool-call"  -> <<"duration_ms", "result_bytes">>
      [] kind \in {"agent", "http"} -> <<"duration_ms">>
      [] OTHER -> <<>>

Median2(xs) ==
    LET s == SortSeq(xs, <)
        m == Len(s) \div 2
    IN  IF Len(s) % 2 = 1 THEN 2 * s[m + 1] ELSE s[m] + s[m + 1]

MinPeers     == 3
OutlierRatio == 3
FloorOf(metric) == IF metric = "duration_ms" THEN 3000 * Ms ELSE 0

\* The values of a metric over the nodes of one kind and name, in node order.
Alike(nodes, n) == SelectSeq(nodes, LAMBDA x : x.kind = n.kind /\ x.name = n.name)
ValuesOf(some, metric) ==
    LET has == SelectSeq(some, LAMBDA x : metric \in DOMAIN x.facts)
    IN  [i \in DOMAIN has |-> has[i].facts[metric]]

IsOutlier(nodes, n, metric) ==
    LET vals == ValuesOf(Alike(nodes, n), metric)
        med2 == Median2(vals)
    IN  /\ metric \in DOMAIN n.facts
        /\ Len(vals) >= MinPeers
        /\ med2 > 0
        /\ 2 * n.facts[metric] >= OutlierRatio * med2
        /\ n.facts[metric] >= FloorOf(metric)

Outliers(nodes) ==
    FlattenSeq([i \in DOMAIN nodes |->
        LET n   == nodes[i]
            hit == SelectSeq(MetricsOf(n.kind), LAMBDA m : IsOutlier(nodes, n, m))
        IN  [j \in DOMAIN hit |-> Finding(n.id, "outlier:" \o hit[j], "warn", "")]])

\* A group of at least four whose last third doubles its first third; the
\* finding lies on the last node of the group.
MinPoints  == 4
TrendRatio == 2

IsTrend(some, metric) ==
    LET vals  == ValuesOf(some, metric)
        k     == Max({1, Len(vals) \div 3})
        first == Median2(SubSeq(vals, 1, k))
        last  == Median2(SubSeq(vals, Len(vals) - k + 1, Len(vals)))
    IN  Len(vals) >= MinPoints /\ first > 0 /\ last >= TrendRatio * first

Trends(nodes) ==
    FlattenSeq([i \in DOMAIN nodes |->
        LET n    == nodes[i]
            some == ByStart(Alike(nodes, n), LAMBDA x : TRUE)
            hit  == SelectSeq(MetricsOf(n.kind), LAMBDA m : IsTrend(some, m))
        IN  IF Len(some) < MinPoints \/ Last(some).id # n.id THEN <<>>
            ELSE [j \in DOMAIN hit |-> Finding(n.id, "trend:" \o hit[j], "warn", "")]])

\* Three calls of one tool back to back below one node: on the last of them.
ChurnMinRun == 3
ToolIdentity(n) == IF "tool" \in DOMAIN n.facts THEN n.facts["tool"] ELSE n.name
SameTool(a, b)  == /\ a.kind = "tool-call" /\ b.kind = "tool-call"
                   /\ ToolIdentity(a) = ToolIdentity(b)

ToolChurn(nodes) ==
    FlattenSeq([p \in DOMAIN nodes |->
        LET kids == Children(nodes, nodes[p].id)
            ends == SelectSeq([i \in DOMAIN kids |-> i], LAMBDA i :
                        /\ i >= ChurnMinRun
                        /\ \A j \in (i - ChurnMinRun + 2)..i : SameTool(kids[j - 1], kids[j])
                        /\ i = Len(kids) \/ ~SameTool(kids[i], kids[i + 1]))
        IN  [e \in DOMAIN ends |->
                Finding(kids[ends[e]].id, "pattern:tool_churn", "warn", "")]])

(***************************************************************************)
(* Scoped detectors.                                                       *)
(***************************************************************************)
HoleMinGap == 1000 * Ms
HoleDenom  == 5                               \* a fifth of the node

\* The first 60 characters of a text; of the longer ones only these occur.
Prefix60 ==
    LET head == "the upstream service refused the connection once it had been"
    IN  (head \o " idle for 7 s" :> head) @@ (head \o " idle for 8 s" :> head)
Shortened(text) == IF text \in DOMAIN Prefix60 THEN Prefix60[text] ELSE text

ErrorSig(ctx, n) ==
    LET anchor == SpanOf(ctx.spans, IF HasErrors(n) THEN n.errors[1] ELSE n.primary)
    IN  IF anchor.events # <<>> /\ anchor.events[1].type # ""
        THEN anchor.events[1].type ELSE Shortened(ErrorText(anchor))

Detached(ctx, n) ==
    LET up == SpanOf(ctx.spans, n.primary).parent
    IN  IF up # NoSpan /\ up \notin Ids(ctx.spans)
        THEN <<Finding(n.id, "detached", "warn", "")>> ELSE <<>>

\* mutant: a child that outlives its parent covers more than there is
GapUnclamped(nodes, n) == n.dur - IntervalUnion(Intervals(Children(nodes, n.id)))

\* What the children leave uncovered, each cut to the node's own interval.
Gap(nodes, n) ==
    LET kids == Children(nodes, n.id)
        cut  == SelectSeq([i \in DOMAIN kids |->
                              <<Max({n.start, kids[i].start}),
                                Min({n.start + n.dur, kids[i].start + kids[i].dur})>>],
                          LAMBDA iv : iv[2] > iv[1])
    IN  n.dur - IntervalUnion(cut)

ObsHole(ctx, n) ==
    IF /\ n.kind \notin Aggregating
       /\ Children(ctx.nodes, n.id) # <<>>
       /\ n.dur > 0
       /\ Gap(ctx.nodes, n) >= HoleMinGap
       /\ HoleDenom * Gap(ctx.nodes, n) >= n.dur
    THEN <<Finding(n.id, "obs_hole", "info", "")>> ELSE <<>>

Propagated(ctx, n) ==
    IF HasErrors(n) /\ \E d \in Descendants(ctx.nodes, n.id) :
            LET below == NodeOf(ctx.nodes, d)
            IN  HasErrors(below) /\ ErrorSig(ctx, below) = ErrorSig(ctx, n)
    THEN <<Finding(n.id, "propagated", "info", "")>> ELSE <<>>

\* mutant: a node before its children
PreOrder(nodes) ==
    LET visit[id \in NodeIds(nodes)] ==
            LET kids == Children(nodes, id)
            IN  <<id>> \o FlattenSeq([i \in DOMAIN kids |-> visit[kids[i].id]])
        tops == Roots(nodes)
    IN  FlattenSeq([i \in DOMAIN tops |-> visit[tops[i].id]])

\* Children first, from the roots: a node on a cycle of parents has no root
\* above it and is not visited.
PostOrder(nodes) ==
    LET visit[id \in NodeIds(nodes)] ==
            LET kids == Children(nodes, id)
            IN  FlattenSeq([i \in DOMAIN kids |-> visit[kids[i].id]]) \o <<id>>
        tops == Roots(nodes)
    IN  FlattenSeq([i \in DOMAIN tops |-> visit[tops[i].id]])

Diagnose(ctx) ==
    LET base == ErrorFindings(ctx.nodes) \o RuleFindings(ctx.nodes) \o Outliers(ctx.nodes)
                \o Trends(ctx.nodes) \o ToolChurn(ctx.nodes)
        detect(found, id) ==
            LET n     == NodeOf(ctx.nodes, id)
                seen  == AddAll(found, Detached(ctx, n) \o ObsHole(ctx, n) \o Propagated(ctx, n))
            IN  AddAll(seen, Contributed(n, ctx.nodes, seen))
    IN  FoldLeft(detect, AddAll(<<>>, base), PostOrder(ctx.nodes))

(***************************************************************************)
(* diagnose.ts: errors and rules node by node, then the detectors.         *)
(***************************************************************************)
SignatureTs(ctx, n) ==
    LET span == SpanOf(ctx.spans, Head(n.errors \o <<n.primary>>))
        type == IF Len(span.events) > 0 THEN span.events[1].type ELSE ""
    IN  IF type # "" THEN type ELSE Shortened(ErrorText(span))

DetectTs(ctx, n) ==
    LET up    == SpanOf(ctx.spans, n.primary).parent
        kids  == Children(ctx.nodes, n.id)
        cut   == SelectSeq([i \in DOMAIN kids |->
                               <<Max({n.start, kids[i].start}),
                                 Min({n.start + n.dur, kids[i].start + kids[i].dur})>>],
                           LAMBDA iv : iv[2] > iv[1])
        gap   == n.dur - IntervalUnionTs(cut)
        below == {NodeOf(ctx.nodes, d) : d \in Descendants(ctx.nodes, n.id)}
        found(cond, source, severity) ==
            IF cond THEN <<Finding(n.id, source, severity, "")>> ELSE <<>>
    IN  found(up \notin Ids(ctx.spans) \cup {NoSpan}, "detached", "warn")
        \o found(/\ n.kind \notin Aggregating /\ Len(kids) > 0 /\ n.dur > 0
                 /\ ~(gap < HoleMinGap \/ HoleDenom * gap < n.dur), "obs_hole", "info")
        \o found(HasErrors(n) /\ \E d \in below :
                    HasErrors(d) /\ SignatureTs(ctx, d) = SignatureTs(ctx, n),
                 "propagated", "info")

DiagnoseTs(ctx) ==
    LET perNode(found, n) ==
            AddAll(found,
                   (IF HasErrors(n) THEN <<Finding(n.id, "error", "error", n.text)>> ELSE <<>>)
                   \o (IF EmptyOutput(n)
                       THEN <<Finding(n.id, "empty_output", "warn", "")>> ELSE <<>>))
        detect(found, id) ==
            LET n    == NodeOf(ctx.nodes, id)
                seen == AddAll(found, DetectTs(ctx, n))
            IN  AddAll(seen, Contributed(n, ctx.nodes, seen))
    IN  FoldLeft(detect, FoldLeft(perNode, <<>>, ctx.nodes), PostOrder(ctx.nodes))

(***************************************************************************)
(* Time budget: the union of the model calls, of the leaf tool calls, and  *)
(* what neither covers.                                                    *)
(***************************************************************************)
ActivityKinds == {"model-call", "tool-call"}

LeafTools(nodes) ==
    SelectSeq(nodes, LAMBDA n :
        /\ n.kind = "tool-call"
        /\ \A d \in Descendants(nodes, n.id) : NodeOf(nodes, d).kind \notin ActivityKinds)

Wall(nodes) ==
    Max({0, Max({n.start + n.dur : n \in Range(nodes)}) - Min({n.start : n \in Range(nodes)})})

TimeBudget(nodes) ==
    LET llm   == SelectSeq(nodes, LAMBDA n : n.kind = "model-call")
        tools == LeafTools(nodes)
        names == {n.name : n \in Range(tools)}
    IN  IF nodes = <<>>
        THEN [wall |-> 0, llm |-> 0, tool |-> 0, gap |-> 0, byTool |-> <<>>, nTool |-> 0]
        ELSE [wall   |-> Wall(nodes),
              llm    |-> IntervalUnion(Intervals(llm)),
              tool   |-> IntervalUnion(Intervals(tools)),
              gap    |-> Max({0, Wall(nodes) - IntervalUnion(Intervals(llm \o tools))}),
              byTool |-> [m \in names |->
                             IntervalUnion(Intervals(SelectSeq(tools, LAMBDA n : n.name = m)))],
              nTool  |-> Len(tools)]

\* A quantile of the distribution over traces, with q in tenths.
Percentile(values, q) ==
    IF values = <<>> THEN 0
    ELSE LET s == SortSeq(values, <)
         IN  s[Min({Len(s), 1 + (q * Len(s)) \div 10})]

==============================================================================
