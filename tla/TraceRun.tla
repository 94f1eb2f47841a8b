------------------------------- MODULE TraceRun -------------------------------
(***************************************************************************)
(* One trace through the harness of both languages: its documents are read *)
(* from a file or paged out of the search store while spans are still      *)
(* being indexed, assembled, diagnosed, rendered in some way, explored,    *)
(* shown as agent runs, and judged against a baseline.                     *)
(***************************************************************************)
EXTENDS TraceCorpus, TraceRender, AgentRunIR

CONSTANTS
    Inputs,             \* sequences of documents: one trace each
    Paged,              \* the inputs also read through the search store
    PageSize, Limit,    \* documents per request, and at all
    SetOrders(_),       \* a set -> the orders Python may give it in
    Views,              \* <<style, cut, perspective>>
    NodeThreshold,      \* render_callstack prunes a skeleton above this
    Keep,               \* to about so many of its longest nodes
    Exploring(_),       \* nodes -> sets of expanded nodes
    Extracted(_),       \* nodes -> AgentRun IRs an extractor may build
    Judged,             \* the inputs judged as part of a corpus
    Companions,         \* a further trace of the corpus, and the baseline
    GateChoices,
    Slices,             \* <<kind, bad>> of cohort.where
    Cell                \* the grid of a trace whose times all lie on it

ASSUME PageSizeAssumption == PageSize \in Nat \ {0} /\ Limit \in Nat \ {0}

VARIABLES
    phase, docs, source,
    indexed,            \* the documents the store has, by position in docs
    first,              \* those it had when paging began
    after,              \* search_after: the last hit, 0 before the first
    fetched,            \* positions in docs, as returned
    spans, spansTs, nodes, nodesTs, found, foundTs,
    shown,              \* what was drawn last
    runs,               \* the AgentRun IR that was validated last
    verdict

vars == <<phase, docs, source, indexed, first, after, fetched, spans, spansTs,
          nodes, nodesTs, found, foundTs, shown, runs, verdict>>

None == <<>>

Init ==
    /\ docs \in Inputs
    /\ source \in {"file", "search"}
    /\ source = "search" => docs \in Paged
    /\ phase = "load"
    /\ indexed \in (IF source = "file" THEN {DOMAIN docs}
                    ELSE {s \in SUBSET DOMAIN docs : Len(docs) - Cardinality(s) <= 1})
    /\ first = indexed
    /\ after = 0 /\ fetched = <<>>
    /\ spans = None /\ spansTs = None /\ nodes = None /\ nodesTs = None
    /\ found = None /\ foundTs = None /\ shown = None /\ runs = None /\ verdict = None

(***************************************************************************)
(* Reading.  The store sorts by (startTimeMillis, spanID), a whole number  *)
(* of milliseconds; documents equal in both come in the order of indexing. *)
(***************************************************************************)
Index ==
    /\ phase = "load"
    /\ \E d \in DOMAIN docs \ indexed : indexed' = indexed \cup {d}
    /\ UNCHANGED <<phase, docs, source, first, after, fetched, spans, spansTs, nodes,
                   nodesTs, found, foundTs, shown, runs, verdict>>

StartMillis(d) == docs[d].start \div Ms
SortsBefore(a, b) ==
    \/ StartMillis(a) < StartMillis(b)
    \/ StartMillis(a) = StartMillis(b) /\ docs[a].spanID < docs[b].spanID

Size == Min({PageSize, Limit - Len(fetched)})

\* mutant: the cursor is the start of the last hit alone
HitsByStart ==
    LET past == {d \in indexed : after = 0 \/ StartMillis(d) > StartMillis(after)}
        ordered == SetToSortSeq(past, LAMBDA a, b : SortsBefore(a, b) \/ (~SortsBefore(b, a) /\ a < b))
    IN  SubSeq(ordered, 1, Min({Size, Len(ordered)}))

\* One request: the first hits past the cursor, which is strict.
Hits ==
    LET past == {d \in indexed : after = 0 \/ SortsBefore(after, d)}
        ordered == SetToSortSeq(past, LAMBDA a, b : SortsBefore(a, b) \/ (~SortsBefore(b, a) /\ a < b))
    IN  SubSeq(ordered, 1, Min({Size, Len(ordered)}))

Loaded(got) ==
    /\ fetched' = got
    /\ spans' = LoadSpans([i \in DOMAIN got |-> docs[got[i]]])
    /\ spansTs' = LoadSpansTs([i \in DOMAIN got |-> docs[got[i]]])
    /\ phase' = "assemble"

Page ==
    /\ phase = "load" /\ source = "search"
    /\ LET got == fetched \o Hits
       IN  IF Len(Hits) < Size \/ Len(got) >= Limit THEN Loaded(got) /\ UNCHANGED after
           ELSE /\ fetched' = got
                /\ after' = Last(Hits)
                /\ UNCHANGED <<phase, spans, spansTs>>
    /\ UNCHANGED <<docs, source, indexed, first, nodes, nodesTs, found, foundTs, shown,
                   runs, verdict>>

ReadFile ==
    /\ phase = "load" /\ source = "file"
    /\ Loaded([i \in DOMAIN docs |-> i])
    /\ UNCHANGED <<docs, source, indexed, first, after, nodes, nodesTs, found, foundTs,
                   shown, runs, verdict>>

(***************************************************************************)
(* The pipeline.                                                           *)
(***************************************************************************)
AssembleTrace ==
    /\ phase = "assemble"
    /\ IF Hangs(spans)
       THEN phase' = "hung" /\ UNCHANGED <<nodes, nodesTs>>
       ELSE /\ phase' = "diagnose"
            /\ \E order \in SetOrders(Primaries(KindOf(spans))) : nodes' = Assemble(spans, order)
            /\ nodesTs' = AssembleTs(spansTs)
    /\ UNCHANGED <<docs, source, indexed, first, after, fetched, spans, spansTs, found,
                   foundTs, shown, runs, verdict>>

DiagnoseTrace ==
    /\ phase = "diagnose"
    /\ phase' = "ready"
    /\ found' = Diagnose([spans |-> spans, nodes |-> nodes])
    /\ foundTs' = DiagnoseTs([spans |-> spansTs, nodes |-> nodesTs])
    /\ UNCHANGED <<docs, source, indexed, first, after, fetched, spans, spansTs, nodes,
                   nodesTs, shown, runs, verdict>>

\* The call stack chooses its cut itself.
ByRank == -2

Drawn(full, style, cut, perspective) ==
    [style |-> style, cut |-> cut, perspective |-> perspective, full |-> full,
     display |-> ProjectPerspective(full, perspective), block |-> FindingsBlock(found)]

DrawnAt(style, cut, perspective) ==
    Drawn(FullDisplay(nodes, found, style, cut), style, cut, perspective)

Draw ==
    /\ phase = "ready"
    /\ \E v \in Views :
        shown' = DrawnAt(v[1], IF v[2] = ByRank THEN PruneCutoff(nodes, NodeThreshold, Keep)
                               ELSE v[2], v[3])
    /\ phase' = "drawn"
    /\ UNCHANGED <<docs, source, indexed, first, after, fetched, spans, spansTs, nodes,
                   nodesTs, found, foundTs, runs, verdict>>

Explore ==
    /\ phase = "ready"
    /\ \E e \in Exploring(nodes) :
        shown' = [expanded |-> e.expanded, focus |-> e.focus,
                  lines |-> ExploreLines(nodes, e.expanded, e.focus)]
    /\ phase' = "explored"
    /\ UNCHANGED <<docs, source, indexed, first, after, fetched, spans, spansTs, nodes,
                   nodesTs, found, foundTs, runs, verdict>>

ExtractRuns ==
    /\ phase = "ready"
    /\ \E ir \in Extracted(nodes) :
        runs' = [ir |-> ir.ir, trace |-> ir.trace,
                 accepted |-> Validate(ir.ir, ir.trace, "t", NodeIds(nodes)),
                 acceptedTs |-> ValidateTs(ir.ir, ir.trace, "t", NodeIds(nodesTs))]
    /\ phase' = "extracted"
    /\ UNCHANGED <<docs, source, indexed, first, after, fetched, spans, spansTs, nodes,
                   nodesTs, found, foundTs, shown, verdict>>

\* The corpus is this trace and a companion, its baseline the companion.
Item(trace, some, order) == [trace |-> trace, spans |-> some, nodes |-> Assemble(some, order)]

Checked(tables, before, gates, baseline, diff) ==
    LET checks == EvaluateGates(tables, gates, baseline, diff)
    IN  [tables |-> tables, before |-> before, gates |-> gates, diff |-> diff,
         baseline |-> baseline, checks |-> checks, status |-> GateVerdict(checks),
         contrast |-> Contrast(tables), patterns |-> PatternRates(tables)]

Compared(tables, before, gates, baseline) ==
    Checked(tables, before, gates, baseline, IF baseline THEN DiffRuns(before, tables) ELSE None)

JudgedWith(own, other, gates, baseline) ==
    Compared(BuildTables(<<own, other>>), BuildTables(<<other>>), gates, baseline)
    @@ [own |-> own.nodes, other |-> other.nodes]

Judge ==
    /\ phase = "ready"
    /\ docs \in Judged
    /\ \E companion \in Companions, gates \in GateChoices, baseline \in BOOLEAN, slice \in Slices :
        LET other == LoadSpans(companion)
        IN  \E order \in SetOrders(Primaries(KindOf(other))) :
            verdict' = JudgedWith(
                Sliced([trace |-> "t", spans |-> spans, nodes |-> nodes], slice[1], slice[2]),
                Sliced(Item("u", other, order), slice[1], slice[2]), gates, baseline)
    /\ phase' = "judged"
    /\ UNCHANGED <<docs, source, indexed, first, after, fetched, spans, spansTs, nodes,
                   nodesTs, found, foundTs, shown, runs>>

Next ==
    \/ Index \/ Page \/ ReadFile \/ AssembleTrace \/ DiagnoseTrace
    \/ Draw \/ Explore \/ ExtractRuns \/ Judge

Spec == Init /\ [][Next]_vars
-------------------------------------------------------------------------------
(***************************************************************************)
(* Properties.                                                             *)
(***************************************************************************)
Assembled == phase \notin {"load", "assemble", "hung"}
Acyclic   == \A s \in Range(spans) : ~Cyclic(spans, s.id)

\* Nothing is lost on the way from the documents to the tree, but for what
\* _paginate says.  It returns no document twice and every document that was
\* indexed when it began, except those past the limit, which sort behind all
\* that was fetched, and a further document of a span that was fetched when
\* the cut falls between the two (same millisecond, same spanID); every span
\* then lies in exactly one node, an error span among the errors of that
\* node; assembly only fails to end on a cycle of parents, and without one
\* every node is reached once from the roots.
NothingIsLost ==
    /\ Cardinality(Range(fetched)) = Len(fetched)
    /\ phase # "load" =>
        \A d \in first \ Range(fetched) :
            \/ \E g \in Range(fetched) :
                  docs[g].spanID = docs[d].spanID /\ StartMillis(g) = StartMillis(d)
            \/ Len(fetched) = Limit /\ \A g \in Range(fetched) : ~SortsBefore(d, g)
    /\ phase = "hung" => ~Acyclic
    /\ Assembled =>
        /\ \A s \in Range(spans) :
            /\ Cardinality({n \in Range(nodes) : s.id \in Range(n.spans)}) = 1
            /\ \A n \in Range(nodes) :
                s.id \in Range(n.errors) <=> s.id \in Range(n.spans) /\ s.error
        /\ Acyclic => /\ Walk(nodes) = NodeIds(nodes)
                      /\ Len(PostOrder(nodes)) = Len(nodes)

Shared == {"error", "empty_output", "detached", "obs_hole", "propagated"}
Producers(f, id) == {x.source : x \in Range(Of(f, id))} \cap Shared

\* TypeScript takes an empty service name for none.  A group of spans without
\* a service has an id of its own in each language; where Python has two such
\* groups below one host, TypeScript has one.
Known(service)  == IF service = "" THEN NoService ELSE service
Unnamed(n)      == n.kind = "service" /\ Known(n.service) = NoService
SplitHosts      == {n.parent : n \in {x \in Range(nodes) :
                        Unnamed(x) /\ \E y \in Range(nodes) : Unnamed(y) /\ y.parent = x.parent /\ y # x}}
Merged(n)       == Unnamed(n) /\ n.parent \in SplitHosts
IdTs(n)         == IF Unnamed(n) THEN <<"svc", n.id[2], "undefined">> ELSE n.id

\* The http calls of a model call that start together come in any order.
TiedCalls(n) ==
    LET calls == {k \in Range(Children(nodes, n.id)) : k.kind = "http"}
    IN  \E k, l \in calls : k # l /\ k.start = l.start

FactsAgree(p, t) ==
    /\ DOMAIN p.facts = DOMAIN t.facts
    /\ \A f \in DOMAIN p.facts :
        \/ p.facts[f] = t.facts[f]
        \/ f = "sum_ms" /\ p.facts[f] - t.facts[f] \in {-1, 1}
        \/ f = "self_ms" /\ p.id \in SplitHosts
        \/ f = "http_status" /\ TiedCalls(p) /\ (p.facts[f] = 200 <=> t.facts[f] = 200)

NodesAgree(p, t) ==
    /\ t.id = IdTs(p) /\ t.service = Known(p.service)
    /\ \A f \in DOMAIN p \ {"id", "service", "facts"} : p[f] = t[f]
    /\ FactsAgree(p, t)

\* The two languages are peers (spec/trace-harness.md: compare the canonical
\* Analysis IR): same spans, same nodes, the same answer about ending, the
\* same findings from the producers both have, the same tree where no group
\* of equals is folded, the same agent runs accepted.  They differ in the
\* groups of spans without a service (assemble.py:132, assemble.ts:128), in
\* the status of a model call whose http calls start together, by the order
\* of Python's set (assemble.py:37,94), and in the last place of a sum that
\* lies between two tenths (round, Math.round); nowhere else.
ImplementationsAgree ==
    /\ spansTs = [i \in DOMAIN spans |-> [spans[i] EXCEPT !.service = Known(@)]]
    /\ phase # "load" => (Hangs(spans) <=> HangsTs(spansTs))
    /\ Assembled =>
        /\ \A p \in Range(nodes) : ~Merged(p) =>
            \E t \in Range(nodesTs) : NodesAgree(p, t)
        /\ \A t \in Range(nodesTs) :
            \E p \in Range(nodes) : /\ t.id = IdTs(p) /\ t.parent = p.parent
                                     /\ ~Merged(p) => Len(t.spans) = Len(p.spans)
    /\ phase \notin {"load", "assemble", "diagnose", "hung"} =>
        \A p \in {n \in Range(nodes) : ~Merged(n)} :
            LET differ == IF SplitHosts = {} THEN {} ELSE {"obs_hole", "propagated"}
            IN  Producers(found, p.id) \ differ = Producers(foundTs, IdTs(p)) \ differ
    /\ phase = "drawn" /\ shown.style # "group" =>
        shown.full = DisplayTs(nodes, found, shown.style, shown.cut)
    /\ phase = "extracted" =>
        /\ runs.accepted <=> runs.acceptedTs
        /\ LET bad == {n.id : n \in {x \in Range(nodes) : HasErrors(x)}}
           IN  runs.accepted =>
                \A i \in DOMAIN runs.ir :
                    /\ PayloadHasError(runs.ir, bad, i) <=> HasErrorTs(runs.ir, bad, i)
                    /\ Collapsed(runs.ir, bad, i) <=> CollapsedTs(runs.ir, bad, i)

Grid == IF \A n \in Range(nodes) : n.start % Cell = 0 /\ n.dur % Cell = 0 THEN Cell ELSE 1
TimeWhere(lo, hi, keep(_)) == Grid * Cardinality({c \in (lo \div Grid)..((hi \div Grid) - 1) : keep(c)})
Busy(some, c) == \E n \in some : n.start <= c * Grid /\ (c + 1) * Grid <= n.start + n.dur

\* Times add up, against a count of the cells of the time line (budget.py,
\* intervals.py, obs_hole): model time is what some model call covers, the
\* gap what no activity covers, a tool's time no more than its leaf calls
\* cover; a hole is reported exactly when the node's own interval has it; a
\* node's own time is exact when its children lie inside it, and never more
\* than what they leave.
TimeAddsUp ==
    phase = "ready" =>
        LET all  == Range(nodes)
            lo   == Min({n.start : n \in all})
            hi   == Max({n.start + n.dur : n \in all})
            b    == TimeBudget(nodes)
            llm  == {n \in all : n.kind = "model-call"}
            tool == Range(LeafTools(nodes))
            free(n) == LET kids == Range(Children(nodes, n.id))
                       IN  TimeWhere(n.start, n.start + n.dur, LAMBDA c : ~Busy(kids, c))
        IN  all # {} =>
            /\ b.wall = hi - lo
            /\ b.llm  = TimeWhere(lo, hi, LAMBDA c : Busy(llm, c))
            /\ b.tool = TimeWhere(lo, hi, LAMBDA c : Busy(tool, c))
            /\ b.gap  = TimeWhere(lo, hi, LAMBDA c : ~Busy(llm \cup tool, c))
            /\ \A m \in DOMAIN b.byTool : b.byTool[m] <= b.tool
            /\ b.tool <= FoldSet(LAMBDA m, t : b.byTool[m] + t, 0, DOMAIN b.byTool)
            /\ \A n \in all :
                LET kids == Range(Children(nodes, n.id))
                IN  kids # {} =>
                    /\ n.facts["self_ms"] <= free(n)
                    /\ (\A k \in kids : n.start <= k.start /\ k.start + k.dur <= n.start + n.dur)
                        => n.facts["self_ms"] = free(n)
            /\ \A n \in {x \in all : x.id \in Walk(nodes)} :
                "obs_hole" \in {f.source : f \in Range(Of(found, n.id))}
                    <=> /\ n.kind \notin Aggregating
                        /\ Children(nodes, n.id) # <<>>
                        /\ free(n) >= HoleMinGap /\ HoleDenom * free(n) >= n.dur /\ n.dur > 0

Sources(id) == {f.source : f \in Range(Of(found, id))}

\* Findings explain each other.  Of the nodes that carry one error, those
\* not marked as propagated are exactly one per chain, the deepest
\* (detectors.py: "keep the deepest source"); a detector that reads the
\* findings of the children has seen the whole subtree when it runs
\* (diagnose: post-order); outliers are the minority of their peers.
FindingsExplain ==
    phase = "ready" =>
        LET ctx  == [spans |-> spans, nodes |-> nodes]
            bad  == {n \in Range(nodes) : HasErrors(n) /\ n.id \in Walk(nodes)}
            last == {n \in bad : "propagated" \notin Sources(n.id)}
        IN  /\ \A n \in bad : \E m \in last :
                /\ ErrorSig(ctx, m) = ErrorSig(ctx, n)
                /\ m.id \in {n.id} \cup Descendants(nodes, n.id)
            /\ \A n, m \in last : /\ m.id \in Descendants(nodes, n.id)
                                   => ErrorSig(ctx, m) # ErrorSig(ctx, n)
            /\ \A id \in Walk(nodes) :
                "blame" \in Sources(id)
                    <=> \E n \in bad : n.id \in Descendants(nodes, id)
            /\ \A n \in Range(nodes) :
                LET peers == Range(Alike(nodes, n))
                IN  2 * Cardinality({x \in peers : "outlier:duration_ms" \in Sources(x.id)})
                        <= Cardinality(peers)

\* The calls on the way from the top to a line.
CallsAbove(lines, l) ==
    LET at(k) == (CHOOSE x \in lines : x[1] = SubSeq(l[1], 1, k))[2]
        calls == SelectSeq([k \in DOMAIN l[1] |-> at(k)], LAMBDA d : LevelOf(d) = "primary")
    IN  [i \in DOMAIN calls |-> calls[i].ids]
CallPaths(lines) == {CallsAbove(lines, l) : l \in {x \in lines : LevelOf(x[2]) = "primary"}}

\* No signal disappears in the presentation.  In the full tree every finding
\* is on exactly one line, that of its node or of the nearest ancestor that
\* is drawn, and the Markdown writes every error although it skips what lies
\* below a folded line; the block of findings counts what the lines carry
\* from warn on; in the agent perspective every call that was drawn
\* stays, in order and below the calls it was below; the exploring view
\* shows a mark on some line that stands for each node with an error.
SignalsStayVisible ==
    /\ phase = "drawn" =>
        LET lines   == LinesOf(shown.full)
            written == MarkdownLines(shown.full)
            drawn   == {l[2].ids[1] : l \in {x \in lines : x[2].kind # ""}}
        IN  /\ \A id \in DOMAIN found \cap Walk(nodes) : \A f \in Range(found[id]) :
                \E l \in lines :
                    /\ f \in Range(l[2].findings)
                    /\ \A k \in lines \ {l} : f \notin Range(k[2].findings)
                    /\ \/ l[2].ids = <<id>>
                       \/ /\ id \notin drawn /\ id \in Descendants(nodes, l[2].ids[1])
                          /\ \A m \in drawn : id \in Descendants(nodes, m)
                                => l[2].ids[1] \in {m} \cup Descendants(nodes, m)
                    /\ f.severity = "error" => l \in written
            /\ Walk(nodes) = NodeIds(nodes) =>
                \A s \in DOMAIN shown.block :
                    shown.block[s] =
                        Cardinality(UNION {{<<l[1], j>> : j \in {k \in DOMAIN l[2].findings :
                                /\ l[2].findings[k].source = s
                                /\ Severity[l[2].findings[k].severity] >= Severity["warn"]}} : l \in lines})
            /\ shown.perspective = "agent" =>
                LET shorter == LinesOf(shown.display)
                IN  /\ CallPaths(lines) = CallPaths(shorter)
                    /\ \A l \in shorter :
                        l[2].kind = "" \/ LevelOf(l[2]) = "context" =>
                            l[2].ids # <<>> /\ l[2].children # <<>>
    /\ phase = "explored" =>
        \A n \in Range(nodes) :
            HasErrors(n) /\ (shown.focus \in NodeIds(nodes) => n.id \in {shown.focus} \cup Descendants(nodes, shown.focus))
                         /\ n.id \in Walk(nodes) =>
                \E l \in Range(shown.lines) :
                    /\ l.errors > 0
                    /\ \E i \in Range(l.ids) :
                        n.id = i \/ (~l.open /\ n.id \in Descendants(nodes, i))

\* An agent run that was accepted (validate_agent_run_ir) is sound as a
\* whole: everything lies inside everything it is nested in, no two elements
\* share an id in the viewer, and an operation that starts closed has no
\* error at any depth below it.
AcceptedRunsAreSound ==
    phase = "extracted" /\ runs.accepted =>
        LET ir  == runs.ir
            bad == {n.id : n \in {x \in Range(nodes) : HasErrors(x)}}
            up[i \in DOMAIN ir] == IF ir[i].parent = 0 THEN {} ELSE {ir[i].parent} \cup up[ir[i].parent]
        IN  /\ runs.trace = "t"
            /\ \A i \in DOMAIN ir : \A a \in up[i] :
                ir[a].start <= ir[i].start /\ ir[i].start + ir[i].dur <= ir[a].start + ir[a].dur
            /\ Cardinality({ViewId(e) : e \in Range(ir)}) = Len(ir)
            /\ \A i \in DOMAIN ir : Collapsed(ir, bad, i) =>
                \A j \in DOMAIN ir : i \in {j} \cup up[j] =>
                    ir[j].status # "error" /\ PayloadSources(ir, j) \cap bad = {}

\* Some node has OutlierRatio times the median of at least FleetMinPeers nodes
\* of its kind and name, and the ratio is above the limit by more than half a
\* hundredth: less is rounded away.
Wild(all, limit) ==
    \E n \in Range(all) : \E m \in MetricCols \cap DOMAIN n.facts :
        LET vals == ValuesOf(Alike(all, n), m)
            med2 == Median2(vals)
        IN  /\ Len(vals) >= FleetMinPeers /\ med2 > 0
            /\ 2 * n.facts[m] >= OutlierRatio * med2
            /\ 400 * n.facts[m] > (200 * limit + 1) * med2

\* The verdict of the gates is earned from the nodes themselves: it fails
\* exactly when a gate that could be evaluated is not met, and only passes
\* when one could; a masked text that the baseline has is not new; the
\* tables count every node and every error once, whatever the slice.
GateVerdictIsEarned ==
    phase = "judged" =>
        LET texts(some) == {Normalize(n.text) : n \in {x \in Range(some) : HasErrors(x)}}
            errors  == Len(SelectSeq(verdict.own \o verdict.other, HasErrors))
            g       == verdict.gates
            tooMany == g.maxErrors # NoGate /\ errors > g.maxErrors
            isNew   == /\ g.noNew /\ verdict.baseline
                       /\ ~(texts(verdict.own) \subseteq texts(verdict.other))
            wild    == g.fleet # NoGate /\ Wild(verdict.own \o verdict.other, g.fleet)
            decides == g.maxErrors # NoGate \/ g.fleet # NoGate \/ (g.noNew /\ verdict.baseline)
        IN  /\ verdict.status = IF tooMany \/ isNew \/ wild THEN "fail"
                                ELSE IF decides THEN "pass" ELSE "skipped"
            /\ Len(verdict.tables.facts) = Len(verdict.own) + Len(verdict.other)
            /\ DiffRuns(verdict.tables, verdict.tables)
                   = [added |-> {}, removed |-> {}, changed |-> {}, shifts |-> {}]
            /\ DiffRuns(verdict.tables, verdict.before).removed
                   = DiffRuns(verdict.before, verdict.tables).added
            /\ \A s \in DOMAIN verdict.contrast : \A b \in BOOLEAN :
                LET c == verdict.contrast[s][b]
                IN  c.n > 0 /\ c.p50 <= 2 * c.max /\ c.p90 <= c.max
            /\ \A name \in DOMAIN verdict.patterns :
                Cardinality(verdict.patterns[name].traces) \in 1..verdict.patterns[name].count

\* What the tools accept or pass, an agent run or a corpus, is earned from the
\* nodes (validate_agent_run_ir, gate_verdict).
VerdictsAreEarned == AcceptedRunsAreSound /\ GateVerdictIsEarned
=============================================================================
