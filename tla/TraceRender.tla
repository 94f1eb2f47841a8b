----------------------------- MODULE TraceRender -----------------------------
(***************************************************************************)
(* From nodes and findings to the display tree (view/engine.py, engine.ts, *)
(* perspective), to the lines of Markdown, and to the exploring view with  *)
(* expanded nodes and folded equals (view/explore.py, view/state.py).      *)
(*                                                                         *)
(* A display node is [kind, name, ids, children, findings, folded].  What  *)
(* a facet answers for the children of a node is a sequence of operations  *)
(* [op, nodes, label].  The text of a line is left out.                    *)
(***************************************************************************)
EXTENDS TraceDiagnose

CONSTANTS
    DomainLayout(_, _, _),  \* a contributed facet: style, kids, flagged
                            \* -> operations, not always on every child
    ContextKinds            \* the kinds a contributed facet calls context

NoCut == -1                     \* prune_below_ms is None

Line(kind, name, ids, children, folded) ==
    [kind |-> kind, name |-> name, ids |-> ids, children |-> children,
     findings |-> <<>>, folded |-> folded]

(***************************************************************************)
(* Facets.  A model call hides its http calls; everything else expands or, *)
(* below the cut and without a signal, folds.                              *)
(***************************************************************************)
Flagged(nodes, found, id) ==
    \E d \in {id} \cup Descendants(nodes, id) :
        HasErrors(NodeOf(nodes, d)) \/ Of(found, d) # <<>>

DefaultLayout(kids, cut, flagged) ==
    [i \in DOMAIN kids |->
        [op |-> IF cut # NoCut /\ kids[i].dur < cut /\ kids[i].id \notin flagged
                THEN "fold" ELSE "expand",
         nodes |-> <<kids[i].id>>, label |-> ""]]

ModelCallLayout(kids, cut, flagged) ==
    LET http == SelectSeq(kids, LAMBDA k : k.kind = "http")
    IN  [i \in DOMAIN http |-> [op |-> "hide", nodes |-> <<http[i].id>>, label |-> ""]]
        \o DefaultLayout(SelectSeq(kids, LAMBDA k : k.kind # "http"), cut, flagged)

Layout(node, kids, style, cut, flagged) ==
    IF style # "builtin" /\ node.kind = "agent" /\ kids # <<>>
    THEN DomainLayout(style, kids, flagged)
    ELSE IF node.kind = "model-call" THEN ModelCallLayout(kids, cut, flagged)
    ELSE DefaultLayout(kids, cut, flagged)

\* Neighbouring collapsed groups of one label and the same names become one.
FoldIsoGroups(nodes, ops) ==
    LET sig(o)  == <<o.label, [i \in DOMAIN o.nodes |-> NodeOf(nodes, o.nodes[i]).name]>>
        joins(o, prev) == o.op = "group" /\ prev.op = "group" /\ sig(o) = sig(prev.first)
        step(acc, o) ==
            IF acc # <<>> /\ joins(o, Last(acc))
            THEN [acc EXCEPT ![Len(acc)] =
                     [@ EXCEPT !.nodes = @ \o o.nodes, !.label = "xN " \o o.label]]
            ELSE Append(acc, [op |-> o.op, nodes |-> o.nodes, label |-> o.label, first |-> o])
    IN  FoldLeft(step, <<>>, ops)

(***************************************************************************)
(* render.  A first pass tells which nodes get a line of their own; the    *)
(* findings of the others rise to the nearest ancestor that has one.       *)
(***************************************************************************)
Rendered(o, flagged) ==
    CASE o.op \in {"expand", "aggregate", "group"} -> o.nodes
      [] o.op \in {"fold", "summarize", "hide"}    -> SelectSeq(o.nodes, LAMBDA c : c \in flagged)

FlaggedIds(nodes, found) == {id \in Walk(nodes) : Flagged(nodes, found, id)}

VisibleIds(nodes, flagged, style, cut) ==
    LET shown[id \in NodeIds(nodes)] ==
            LET n   == NodeOf(nodes, id)
                ops == Layout(n, Children(nodes, id), style, cut, flagged)
            IN  {id} \cup UNION {UNION {shown[c] : c \in Range(Rendered(ops[i], flagged))} :
                                 i \in DOMAIN ops}
    IN  UNION {shown[r.id] : r \in Range(Roots(nodes))}

\* mutant: the parent or nothing
TargetParent(nodes, visible, id) ==
    IF id \in visible THEN id
    ELSE IF id \in NodeIds(nodes) /\ NodeOf(nodes, id).parent \in visible
    THEN NodeOf(nodes, id).parent ELSE NoNode

\* The nearest of the node and its ancestors that has a line.
Target(nodes, visible, id) ==
    LET climb(at, n) == IF at \in visible \/ at \notin NodeIds(nodes) THEN at
                        ELSE NodeOf(nodes, at).parent
        top == FoldLeft(climb, id, nodes)
    IN  IF top \in visible THEN top ELSE NoNode

Bound(nodes, found, visible, id) ==
    LET from == SetToSeq({f \in DOMAIN found : Target(nodes, visible, f) = id})
    IN  FlattenSeq([i \in DOMAIN from |-> found[from[i]]])

SubtreeSize(nodes, id) == 1 + Cardinality(Descendants(nodes, id))
SizeOf(nodes, ids) == FoldSeq(LAMBDA c, t : SubtreeSize(nodes, c) + t, 0, ids)

DisplayOf(nodes, found, style, cut, flagged, visible) ==
    LET draw[id \in NodeIds(nodes)] ==
            LET n    == NodeOf(nodes, id)
                ops  == FoldIsoGroups(nodes, Layout(n, Children(nodes, id), style, cut, flagged))
                each(ids) == [i \in DOMAIN ids |-> draw[ids[i]]]
                show(o) ==
                    CASE o.op = "group" ->
                            <<Line("", o.label, o.nodes, each(o.nodes), SizeOf(nodes, o.nodes))>>
                      [] o.op = "aggregate" ->
                            <<Line("", o.label, o.nodes, each(o.nodes), Len(o.nodes))>>
                      [] o.op = "summarize" /\ o.nodes[1] \notin flagged ->
                            LET c == NodeOf(nodes, o.nodes[1])
                            IN  <<Line(c.kind, c.name, o.nodes, <<>>, 0)>>
                      [] OTHER -> each(Rendered(o, flagged))
                small == SelectSeq(ops, LAMBDA o : o.op = "fold" /\ o.nodes[1] \notin flagged)
                ids   == FlattenSeq([i \in DOMAIN small |-> small[i].nodes])
                rest  == IF small = <<>> THEN <<>>
                         ELSE <<Line("", "folded", ids, <<>>, SizeOf(nodes, ids))>>
            IN  [Line(n.kind, n.name, <<id>>,
                      FlattenSeq([i \in DOMAIN ops |-> show(ops[i])]) \o rest, 0)
                 EXCEPT !.findings = Bound(nodes, found, visible, id)]
        tops == Roots(nodes)
    IN  [i \in DOMAIN tops |-> draw[tops[i].id]]

DisplayFlagged(nodes, found, style, cut, flagged) ==
    DisplayOf(nodes, found, style, cut, flagged, VisibleIds(nodes, flagged, style, cut))
FullDisplay(nodes, found, style, cut) ==
    DisplayFlagged(nodes, found, style, cut, FlaggedIds(nodes, found))

(***************************************************************************)
(* perspective.py.  In the agent perspective the calls stay, and so does   *)
(* context above them; what else lies between calls becomes a connector,   *)
(* the rest goes.                                                          *)
(***************************************************************************)
LevelOf(display) ==
    IF display.kind \in {"agent", "model-call", "tool-call"} /\ display.ids # <<>>
    THEN "primary"
    ELSE IF display.kind \in ContextKinds /\ display.ids # <<>> THEN "context" ELSE "detail"

Distinct(ids) == SelectSeq([i \in DOMAIN ids |-> i], LAMBDA i : \A j \in 1..(i - 1) : ids[j] # ids[i])
Connector(ids, children) ==
    Line("", "context", [i \in DOMAIN Distinct(ids) |-> ids[Distinct(ids)[i]]], children, 0)

\* All lines of a forest, with the position of each: <<1>>, <<1, 2>>, ...
Deepest == 8
LinesOf(forest) ==
    LET top == {<<<<i>>, forest[i]>> : i \in DOMAIN forest}
        below(level) == UNION {{<<Append(l[1], i), l[2].children[i]>> :
                                i \in DOMAIN l[2].children} : l \in level}
        down(acc, k) == [all |-> acc.all \cup acc.level, level |-> below(acc.level)]
    IN  FoldLeft(down, [all |-> {}, level |-> top], [k \in 1..Deepest |-> k]).all

\* visit: a sequence of at most one <<display, hidden>>
AgentDisplay(forest) ==
    LET visit[d \in {l[2] : l \in LinesOf(forest)}] ==
            LET kids == FlattenSeq([i \in DOMAIN d.children |-> visit[d.children[i]]])
                kept == [i \in DOMAIN kids |-> kids[i][1]]
                own  == Max({Len(d.ids), 1})
            IN  IF LevelOf(d) = "primary" \/ (LevelOf(d) = "context" /\ kids # <<>>)
                THEN <<<<[d EXCEPT !.children = kept, !.folded = 0], 0>>>>
                ELSE IF kids = <<>> THEN <<>>
                ELSE IF Len(kids) = 1 /\ kids[1][2] > 0
                THEN <<<<Connector(d.ids \o kept[1].ids, kept[1].children), own + kids[1][2]>>>>
                ELSE <<<<Connector(d.ids, kept), own>>>>
        top == FlattenSeq([i \in DOMAIN forest |-> visit[forest[i]]])
    IN  [i \in DOMAIN top |-> top[i][1]]

ProjectPerspective(full, perspective) ==
    IF perspective = "full" THEN full ELSE AgentDisplay(full)

(***************************************************************************)
(* Markdown: below a folded line only the children with an error under     *)
(* them are written.                                                       *)
(***************************************************************************)
Severity == ("info" :> 1) @@ ("warn" :> 2) @@ ("error" :> 3)
SubtreeMaxSev(display) ==
    Max({0} \cup UNION {{Severity[f.severity] : f \in Range(l[2].findings)} :
                        l \in LinesOf(<<display>>)})

\* A folded line writes only the children with an error under them.
MarkdownLines(forest) ==
    LET lines == LinesOf(forest)
        cut(l) == l[2].folded > 0
        skipped == UNION {{Append(l[1], i) :
                           i \in {j \in DOMAIN l[2].children :
                                  SubtreeMaxSev(l[2].children[j]) < Severity["error"]}} :
                          l \in {k \in lines : cut(k)}}
    IN  {l \in lines : \A k \in 1..Len(l[1]) : SubSeq(l[1], 1, k) \notin skipped}

\* render_callstack: a large skeleton is cut at the duration of rank keep.
PruneCutoff(nodes, threshold, keep) ==
    LET skel  == SelectSeq(nodes, LAMBDA n : n.kind # "service")
        durs  == SortSeq([i \in DOMAIN skel |-> skel[i].dur], LAMBDA a, b : a > b)
    IN  IF Len(skel) <= threshold THEN NoCut ELSE durs[Min({Len(durs), keep + 1})]

\* findings_block: the findings from warn on, by source.
FindingsBlock(found) ==
    LET flat == FlattenSeq([i \in DOMAIN SetToSeq(DOMAIN found) |-> found[SetToSeq(DOMAIN found)[i]]])
        kept == SelectSeq(flat, LAMBDA f : Severity[f.severity] >= Severity["warn"])
    IN  [s \in {f.source : f \in Range(kept)} |->
            Cardinality({i \in DOMAIN kept : kept[i].source = s})]

(***************************************************************************)
(* The exploring view.                                                     *)
(***************************************************************************)
\* kind:..., error, slowest: what a selector names.
ResolveSelector(nodes, sel) ==
    CASE sel \in NodeIds(nodes) -> {sel}
      [] sel = "error"   -> {n.id : n \in {x \in Range(nodes) : HasErrors(x)}}
      [] sel = "slowest" ->
            {nodes[i].id : i \in {j \in DOMAIN nodes :
                /\ \A k \in DOMAIN nodes : nodes[k].dur <= nodes[j].dur
                /\ \A k \in 1..(j - 1) : nodes[k].dur < nodes[j].dur}}
      [] OTHER -> {n.id : n \in {x \in Range(nodes) : x.kind = sel}}

\* Nodes are alike when kind, name and, two levels down, the bags agree.
IsoSig(nodes, id) ==
    LET flat(i) == <<NodeOf(nodes, i).kind, NodeOf(nodes, i).name>>
        count(ids, Sig(_)) == [s \in {Sig(i) : i \in ids} |->
                                  Cardinality({i \in ids : Sig(i) = s})]
        kids(i) == {n.id : n \in Range(Children(nodes, i))}
        one(i)  == <<flat(i), count(kids(i), flat)>>
    IN  <<flat(id), count(kids(id), one)>>

SubtreeErrors(nodes, id) ==
    Cardinality({d \in {id} \cup Descendants(nodes, id) : HasErrors(NodeOf(nodes, d))})

\* What the exploring view asks of every node (NoNode stands above the tops):
\* the ids below it, its own flag, the errors under it and its signature.
Explored(nodes, tops) ==
    LET ids  == NodeIds(nodes)
        kids(id) == IF id = NoNode THEN tops ELSE Children(nodes, id)
    IN  [below  |-> [id \in ids \cup {NoNode} |->
                        [i \in DOMAIN kids(id) |-> kids(id)[i].id]],
         own    |-> [id \in ids |-> IF HasErrors(NodeOf(nodes, id)) THEN 1 ELSE 0],
         errors |-> [id \in ids |-> SubtreeErrors(nodes, id)],
         sig    |-> [id \in ids |-> IsoSig(nodes, id)]]

\* One node: open with the lines below it, or closed.
NodeLines(of, x, expanded, lines) ==
    IF x \in expanded \/ of.below[x] = <<>>
    THEN <<[ids |-> <<x>>, errors |-> of.own[x], open |-> TRUE]>> \o lines
    ELSE <<[ids |-> <<x>>, errors |-> of.errors[x], open |-> FALSE]>>

\* Equal siblings: the expanded ones alone, the closed ones in one line.
GroupLines(of, alike, expanded, level) ==
    LET open   == SelectSeq(alike, LAMBDA y : y \in expanded)
        closed == SelectSeq(alike, LAMBDA y : y \notin expanded)
        bad    == SelectSeq(closed, LAMBDA y : of.errors[y] > 0)
        one    == IF Len(closed) < 2 THEN open \o closed ELSE open
        each   == [k \in DOMAIN one |-> NodeLines(of, one[k], expanded, level[one[k]])]
    IN  FlattenSeq(each)
        \o (IF Len(closed) < 2 THEN <<>>
            ELSE <<[ids |-> closed, errors |-> Len(bad), open |-> FALSE]>>)

\* The lines of the level below some siblings: [ids, errors, open].  errors
\* is what the line says of them: its own flag, the number below a closed
\* node, the number of members with errors of a group.
LevelLines(of, expanded) ==
    LET level[id \in DOMAIN of.below] ==
            LET ids   == of.below[id]
                alike(x) == SelectSeq(ids, LAMBDA y : of.sig[y] = of.sig[x])
                first == SelectSeq(ids, LAMBDA x : Head(alike(x)) = x)
            IN  FlattenSeq([k \in DOMAIN first |->
                               GroupLines(of, alike(first[k]), expanded, level)])
    IN  level[NoNode]

ExploreLines(nodes, expanded, focus) ==
    LevelLines(Explored(nodes, IF focus \in NodeIds(nodes) THEN <<NodeOf(nodes, focus)>>
                               ELSE Roots(nodes)), expanded)

(***************************************************************************)
(* engine.ts: the same tree without the folding of equal groups.           *)
(***************************************************************************)
MarkTs(nodes, found) ==
    LET mark[id \in NodeIds(nodes)] ==
            \/ HasErrors(NodeOf(nodes, id))
            \/ Len(Of(found, id)) > 0
            \/ \E c \in Range(Children(nodes, id)) : mark[c.id]
    IN  {id \in Walk(nodes) : mark[id]}

\* Whether the children an operation names are drawn one by one.
DrawsEach(o, signal) == o.op \in {"expand", "aggregate", "group"} \/ o.nodes[1] \in signal

VisibleTs(nodes, facets, signal) ==
    LET seen[id \in NodeIds(nodes)] ==
            {id} \cup UNION {UNION {seen[c] : c \in Range(o.nodes)} :
                             o \in {x \in Range(facets[id]) : DrawsEach(x, signal)}}
    IN  UNION {seen[r.id] : r \in Range(Roots(nodes))}

DrawTs(nodes, found, facets, signal, visible) ==
    LET node[id \in NodeIds(nodes)] ==
            LET n   == NodeOf(nodes, id)
                all(o) == [i \in DOMAIN o.nodes |-> node[o.nodes[i]]]
                brief(c, o) == <<Line(c.kind, c.name, o.nodes, <<>>, 0)>>
                out(o) ==
                    CASE o.op = "aggregate" -> <<Line("", o.label, o.nodes, all(o), Len(o.nodes))>>
                      [] o.op = "group" -> <<Line("", o.label, o.nodes, all(o), SizeOf(nodes, o.nodes))>>
                      [] DrawsEach(o, signal) -> all(o)
                      [] o.op = "summarize" -> brief(NodeOf(nodes, o.nodes[1]), o)
                      [] OTHER -> <<>>
                small == SelectSeq(facets[id], LAMBDA o : o.op = "fold" /\ ~DrawsEach(o, signal))
                tail(ids) == IF ids = <<>> THEN <<>>
                             ELSE <<Line("", "folded", ids, <<>>, SizeOf(nodes, ids))>>
            IN  [Line(n.kind, n.name, <<id>>,
                      FlattenSeq([i \in DOMAIN facets[id] |-> out(facets[id][i])])
                      \o tail(FlattenSeq([i \in DOMAIN small |-> small[i].nodes])), 0)
                 EXCEPT !.findings = Bound(nodes, found, visible, id)]
        tops == Roots(nodes)
    IN  [i \in DOMAIN tops |-> node[tops[i].id]]

DisplayMarkedTs(nodes, found, facets, signal) ==
    DrawTs(nodes, found, facets, signal, VisibleTs(nodes, facets, signal))
FacetsTs(nodes, style, cut, signal) ==
    [id \in NodeIds(nodes) |->
        Layout(NodeOf(nodes, id), Children(nodes, id), style, cut, signal)]
DisplayTs(nodes, found, style, cut) ==
    DisplayMarkedTs(nodes, found, FacetsTs(nodes, style, cut, MarkTs(nodes, found)),
                    MarkTs(nodes, found))
==============================================================================
