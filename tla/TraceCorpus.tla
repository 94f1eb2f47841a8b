----------------------------- MODULE TraceCorpus -----------------------------
(***************************************************************************)
(* From many traces to tables (corpus/tables.py), from tables to signals   *)
(* (corpus/operators.py), slices (corpus/cohort.py) and the verdict of the *)
(* declared gates (analyze/verdict.py).  An item is [trace, spans, nodes]. *)
(* The digits of an error text are masked before texts are compared.       *)
(***************************************************************************)
EXTENDS TraceDiagnose

(***************************************************************************)
(* Tables.                                                                 *)
(***************************************************************************)
FactRows(item) ==
    [i \in DOMAIN item.nodes |->
        LET n == item.nodes[i]
        IN  [trace |-> item.trace, node |-> n.id, kind |-> n.kind, name |-> n.name,
             bad |-> HasErrors(n), facts |-> n.facts]]

FindingRows(item, found) ==
    LET nodes == SetToSeq(DOMAIN found)
        rows(id) == [j \in DOMAIN found[id] |->
                        [trace |-> item.trace, node |-> found[id][j].ref,
                         source |-> found[id][j].source, severity |-> found[id][j].severity,
                         note |-> found[id][j].note]]
    IN  FlattenSeq([i \in DOMAIN nodes |-> rows(nodes[i])])

TraceRow(item, found) ==
    [trace |-> item.trace, nNodes |-> Len(item.nodes),
     nErrors |-> Len(SelectSeq(item.nodes, HasErrors)),
     nFindings |-> Len(FindingRows(item, found)),
     duration |-> IF item.nodes = <<>> THEN 0
                  ELSE   Max({n.start + n.dur : n \in Range(item.nodes)})
                       - Min({n.start : n \in Range(item.nodes)})]

\* The metric columns are those of the kind specifications, not of the data.
MetricCols == {"duration_ms", "in_tokens", "out_tokens", "result_bytes"}

TablesOf(items, found) ==
    [traces   |-> [i \in DOMAIN items |-> TraceRow(items[i], found[i])],
     facts    |-> FlattenSeq([i \in DOMAIN items |-> FactRows(items[i])]),
     findings |-> FlattenSeq([i \in DOMAIN items |-> FindingRows(items[i], found[i])])]

BuildTables(items) ==
    TablesOf(items, [i \in DOMAIN items |->
                        Diagnose([spans |-> items[i].spans, nodes |-> items[i].nodes])])

\* cohort.where(...): the nodes that pass stay and are diagnosed again.
Passes(n, kind, bad) ==
    (kind = "any" \/ n.kind = kind) /\ (bad = "any" \/ HasErrors(n) = (bad = "yes"))
Sliced(item, kind, bad) ==
    [item EXCEPT !.nodes = SelectSeq(item.nodes, LAMBDA n : Passes(n, kind, bad))]

(***************************************************************************)
(* Operators.                                                              *)
(***************************************************************************)
Masked == ("Timeout: after 1" :> "timeout: after .") @@ ("Timeout: after 2" :> "timeout: after .")
Normalize(text) == IF text \in DOMAIN Masked THEN Masked[text] ELSE text

SignatureRows(tables) ==
    LET rows == SelectSeq(tables.findings, LAMBDA r : r.source = "error")
    IN  [i \in DOMAIN rows |->
            [sig |-> Normalize(IF rows[i].note # "" THEN rows[i].note ELSE rows[i].source),
             trace |-> rows[i].trace]]

ErrorSignatures(tables) ==
    LET rows == SignatureRows(tables)
    IN  [sig \in {rows[i].sig : i \in DOMAIN rows} |->
            [count  |-> Cardinality({i \in DOMAIN rows : rows[i].sig = sig}),
             traces |-> {rows[i].trace : i \in {j \in DOMAIN rows : rows[j].sig = sig}}]]

Column(tables, kind, name, metric) ==
    SelectSeq(tables.facts,
              LAMBDA r : r.kind = kind /\ r.name = name /\ metric \in DOMAIN r.facts)
Cells(rows, metric) == [i \in DOMAIN rows |-> rows[i].facts[metric]]
Series(tables) == {<<r.kind, r.name>> : r \in Range(tables.facts)} \X MetricCols

\* ratio: in hundredths, rounded to two places
FleetMinPeers == 5
FleetOutliers(tables) ==
    UNION {LET rows == Column(tables, s[1][1], s[1][2], s[2])
               med  == Median2(Cells(rows, s[2]))
           IN  IF Len(rows) < FleetMinPeers \/ med <= 0 THEN {}
               ELSE {[trace |-> r.trace, node |-> r.node, metric |-> s[2],
                      ratio |-> HalfEven(200 * r.facts[s[2]], med)] :
                     r \in {x \in Range(rows) : 2 * x.facts[s[2]] >= OutlierRatio * med}} :
           s \in Series(tables)}

Medians(tables) ==
    LET used == {s \in Series(tables) : Column(tables, s[1][1], s[1][2], s[2]) # <<>>}
    IN  [s \in used |-> Median2(Cells(Column(tables, s[1][1], s[1][2], s[2]), s[2]))]

\* ratio 1.5 either way
DiffRuns(a, b) ==
    LET sa == ErrorSignatures(a)
        sb == ErrorSignatures(b)
        ma == Medians(a)
        mb == Medians(b)
    IN  [added   |-> DOMAIN sb \ DOMAIN sa,
         removed |-> DOMAIN sa \ DOMAIN sb,
         changed |-> {s \in DOMAIN sa \cap DOMAIN sb : sa[s].count # sb[s].count},
         shifts  |-> {s \in DOMAIN ma \cap DOMAIN mb :
                         /\ ma[s] > 0 /\ mb[s] > 0
                         /\ 2 * mb[s] >= 3 * ma[s] \/ 2 * ma[s] >= 3 * mb[s]}]

\* p90 of a bucket and its largest value, for the nodes with and without errors;
\* the figures before they are rounded to two places for the report.
Contrast(tables) ==
    LET bucket(s, bad) == Cells(SelectSeq(Column(tables, s[1][1], s[1][2], s[2]),
                                          LAMBDA r : r.bad = bad), s[2])
        both == {s \in Series(tables) : bucket(s, TRUE) # <<>> /\ bucket(s, FALSE) # <<>>}
    IN  [s \in both |-> [bad \in BOOLEAN |->
            [n |-> Len(bucket(s, bad)), p50 |-> Median2(bucket(s, bad)),
             p90 |-> Percentile(bucket(s, bad), 9),
             max |-> Max(Range(bucket(s, bad)))]]]

PatternRates(tables) ==
    LET rows  == SelectSeq(tables.findings, LAMBDA r : r.source = "pattern:tool_churn")
        named(r) == LET hit == SelectSeq(tables.facts,
                                         LAMBDA f : f.trace = r.trace /\ f.node = r.node)
                    IN  IF hit = <<>> THEN "?"
                        ELSE IF "tool" \in DOMAIN Last(hit).facts THEN Last(hit).facts["tool"]
                        ELSE Last(hit).name
    IN  [name \in {named(r) : r \in Range(rows)} |->
            [count  |-> Cardinality({i \in DOMAIN rows : named(rows[i]) = name}),
             traces |-> {r.trace : r \in {x \in Range(rows) : named(x) = name}}]]

(***************************************************************************)
(* Gates: [maxErrors: Nat or NoGate, noNew, fleet: Nat or NoGate].  A diff *)
(* is [present, result].                                                   *)
(***************************************************************************)
NoGate == -1

EvaluateGates(tables, gates, baseline, diff) ==
    LET errors == Len(SelectSeq(tables.findings, LAMBDA r : r.severity = "error"))
        check(name, ok) == <<[name |-> name, status |-> IF ok THEN "pass" ELSE "fail"]>>
    IN  (IF gates.maxErrors = NoGate THEN <<>>
         ELSE check("error_findings", errors <= gates.maxErrors))
        \o (IF ~gates.noNew THEN <<>>
            ELSE IF ~baseline THEN <<[name |-> "no_new_signatures", status |-> "skipped"]>>
            ELSE check("no_new_signatures", diff.added = {}))
        \o (IF gates.fleet = NoGate THEN <<>>
            ELSE check("fleet_outlier_ratio",
                       \A o \in FleetOutliers(tables) : o.ratio <= 100 * gates.fleet))

\* mutant: the gate that could not be evaluated counts as passed
GateVerdictTrusting(checks) ==
    IF \E i \in DOMAIN checks : checks[i].status = "fail" THEN "fail"
    ELSE IF checks # <<>> THEN "pass" ELSE "skipped"

GateVerdict(checks) ==
    LET has(status) == \E i \in DOMAIN checks : checks[i].status = status
    IN  IF has("fail") THEN "fail" ELSE IF has("pass") THEN "pass" ELSE "skipped"

==============================================================================
