---------------------------- MODULE TraceAssembly ----------------------------
(***************************************************************************)
(* From spans to nodes: route, own, claim, build, connect, residue, and    *)
(* the features baked into the facts.  assemble.py and assemble.ts are     *)
(* translated each from its own text.                                      *)
(*                                                                         *)
(* A node id is <<"span", id, "">> or, for a group of residual spans,      *)
(* <<"svc", host, service>> with host 0 for "root"; without a service each *)
(* language writes its own word.  A walk up the parents that never ends is *)
(* the answer Hang.                                                        *)
(***************************************************************************)
EXTENDS TraceSpans

NoNode == <<"none", 0, "">>
Hang   == -1                                    \* the walk does not end
SpanNode(sid)           == <<"span", sid, "">>
GroupNode(host, service) ==
    <<"svc", host, IF service = NoService THEN "None" ELSE service>>

Ids(spans)        == {spans[i].id : i \in DOMAIN spans}
SpanOf(spans, id) == spans[CHOOSE i \in DOMAIN spans : spans[i].id = id]

(***************************************************************************)
(* while cur and cur in spans: the ancestors of a span, nearest first.  A  *)
(* chain longer than the trace is a cycle.                                 *)
(***************************************************************************)
Ancestors(spans, sid) ==
    LET climb(chain, i) ==
            LET up == SpanOf(spans, Last(chain)).parent
            IN  IF Len(chain) = i /\ up \in Ids(spans) THEN Append(chain, up) ELSE chain
    IN  Tail(FoldLeft(climb, <<sid>>, [i \in 1..(Len(spans) + 1) |-> i]))

Cyclic(spans, sid) == Len(Ancestors(spans, sid)) > Len(spans)

\* The first ancestor that passes the test; NoSpan when the chain ends first.
FirstAncestor(spans, sid, Test(_)) ==
    LET chain == Ancestors(spans, sid)
        i     == SelectInSeq(chain, Test)
    IN  IF i > 0 THEN chain[i] ELSE IF Cyclic(spans, sid) THEN Hang ELSE NoSpan

(***************************************************************************)
(* assemble.py                                                             *)
(***************************************************************************)
KindOf(spans)     == [sid \in Ids(spans) |-> Classify(SpanOf(spans, sid))]
Primaries(kindOf) == {sid \in DOMAIN kindOf : kindOf[sid] # Unclassified}

NearestPrimary(spans, primaries, sid) ==
    FirstAncestor(spans, sid, LAMBDA a : a \in primaries)

\* Step 2: the host of every unclassified span is its nearest primary.
Hosts(spans, primaries) ==
    [sid \in Ids(spans) \ primaries |-> NearestPrimary(spans, primaries, sid)]

Owned(spans, hosts, psid) ==
    SelectSeq(spans, LAMBDA s : s.id \in DOMAIN hosts /\ hosts[s.id] = psid)

\* Step 3: a primary may claim spans it hosts as satellites.
ClaimedBy(spans, kindOf, hosts) ==
    [p \in Primaries(kindOf) |->
        IF kindOf[p] = "gateway" THEN GatewayClaims(SpanOf(spans, p), Owned(spans, hosts, p))
                                 ELSE <<>>]

\* owner: every primary and satellite, by span id.
OwnerOf(claimed) ==
    [sid \in DOMAIN claimed \cup UNION {Range(claimed[p]) : p \in DOMAIN claimed} |->
        IF sid \in DOMAIN claimed THEN sid
        ELSE CHOOSE p \in DOMAIN claimed : sid \in Range(claimed[p])]

\* What the first steps decide of every span: [kindOf, hosts, claimed, owner].
Routes(spans, kindOf) ==
    LET hosts   == Hosts(spans, Primaries(kindOf))
        claimed == ClaimedBy(spans, kindOf, hosts)
    IN  [kindOf |-> kindOf, hosts |-> hosts, claimed |-> claimed, owner |-> OwnerOf(claimed)]
Routed(spans) == Routes(spans, KindOf(spans))

\* Step 4.  duration_ms is rounded to three places, which is exact here.
MakeNode(spans, s, kind, satellites) ==
    LET members == <<s.id>> \o satellites
    IN  [id |-> SpanNode(s.id), kind |-> kind, name |-> s.name, primary |-> s.id,
         spans |-> members, service |-> s.service, start |-> s.start, dur |-> s.dur,
         facts |-> ("duration_ms" :> s.dur) @@ Build(kind, s),
         errors |-> SelectSeq(members, LAMBDA m : SpanOf(spans, m).error)]

\* Step 5: up the span parents to the first span another node owns.
Connect(spans, owner, psid) ==
    FirstAncestor(spans, psid, LAMBDA a : a \in DOMAIN owner /\ owner[a] # psid)

\* Step 6: what is neither primary nor claimed, by host and service.
Residual(spans, owner) == SelectSeq(spans, LAMBDA s : s.id \notin DOMAIN owner)

\* The keys of a dictionary, in the order in which they are first set.
KeysOf(items, Key(_)) ==
    FoldLeft(LAMBDA keys, x : IF Key(x) \in Range(keys) THEN keys ELSE Append(keys, Key(x)),
             <<>>, items)

\* sum_ms is in tenths of a millisecond.
Group(members, host, service) ==
    LET first   == Min({m.start : m \in Range(members)})
        last    == Max({m.start + m.dur : m \in Range(members)})
    IN  [id |-> GroupNode(host, service), kind |-> "service",
         name |-> IF service \in {NoService, ""} THEN "?" ELSE service,
         primary |-> members[1].id,
         spans |-> [i \in DOMAIN members |-> members[i].id], service |-> service,
         start |-> first, dur |-> last - first,
         facts |-> ("count" :> Len(members))
                   @@ ("sum_ms" :> HalfEven(10 * FoldSeq(LAMBDA m, t : m.dur + t, 0, members), Ms)),
         errors |-> LET bad == SelectSeq(members, LAMBDA m : m.error)
                    IN  [i \in DOMAIN bad |-> bad[i].id]]

(***************************************************************************)
(* The view: children by parent edge, ordered by start; a node whose       *)
(* parent is not a node is a root.                                         *)
(***************************************************************************)
NodeIds(nodes)       == {n.id : n \in Range(nodes)}
NodeOf(nodes, id)    == nodes[CHOOSE i \in DOMAIN nodes : nodes[i].id = id]
ByStart(nodes, Keep(_)) ==
    LET kept    == SelectSeq([i \in DOMAIN nodes |-> i], LAMBDA i : Keep(nodes[i]))
        ordered == SortSeq(kept, LAMBDA a, b : \/ nodes[a].start < nodes[b].start
                                               \/ nodes[a].start = nodes[b].start /\ a < b)
    IN  [r \in DOMAIN ordered |-> nodes[ordered[r]]]

Children(nodes, id) == ByStart(nodes, LAMBDA m : m.parent = id)
Roots(nodes) ==
    LET ids == NodeIds(nodes)
    IN  ByStart(nodes, LAMBDA m : m.parent \notin ids)

\* Everything below a node: as many steps down as there are nodes.
Descendants(nodes, id) ==
    LET under(ids) == {n.id : n \in {m \in Range(nodes) : m.parent \in ids}}
    IN  FoldLeft(LAMBDA below, n : below \cup under(below), under({id}), nodes)

Walk(nodes) == UNION {{r.id} \cup Descendants(nodes, r.id) : r \in Range(Roots(nodes))}

(***************************************************************************)
(* model/intervals.py: sweep over the sorted intervals.                    *)
(***************************************************************************)
SortedIntervals(ivs) ==
    SortSeq(ivs, LAMBDA a, b : a[1] < b[1] \/ (a[1] = b[1] /\ a[2] < b[2]))

IntervalUnion(ivs) ==
    LET step(acc, iv) ==
            IF acc.open = <<>> \/ iv[1] > acc.open[2]
            THEN [total |-> acc.total + IF acc.open = <<>> THEN 0
                                        ELSE acc.open[2] - acc.open[1],
                  open  |-> iv]
            ELSE [acc EXCEPT !.open[2] = IF iv[2] > @ THEN iv[2] ELSE @]
        end == FoldLeft(step, [total |-> 0, open |-> <<>>], SortedIntervals(ivs))
    IN  end.total + IF end.open = <<>> THEN 0 ELSE end.open[2] - end.open[1]

Interval(n) == <<n.start, n.start + n.dur>>
Intervals(nodes) == [i \in DOMAIN nodes |-> Interval(nodes[i])]

(***************************************************************************)
(* Baked features: self_ms on a node with children, http_status on a model *)
(* call from its http children, a status other than 200 first.             *)
(***************************************************************************)
SelfMs(nodes, n) ==
    LET kids == Children(nodes, n.id)
    IN  Fact("self_ms", Max({0, n.dur - IntervalUnion(Intervals(kids))}), kids # <<>>)

HttpStatus(nodes, n) ==
    LET kids  == SelectSeq(Children(nodes, n.id),
                           LAMBDA k : k.kind = "http" /\ "status" \in DOMAIN k.facts)
        stats == [i \in DOMAIN kids |-> kids[i].facts["status"]]
        bad   == SelectInSeq(stats, LAMBDA v : v # 200)
    IN  IF n.kind # "model-call" \/ stats = <<>> THEN <<>>
        ELSE "http_status" :> (IF bad = 0 THEN stats[1] ELSE stats[bad])

\* Features of a node: what the facts already hold is not computed again.
BakeFeatures(nodes) ==
    [i \in DOMAIN nodes |->
        [nodes[i] EXCEPT !.facts = @ @@ SelfMs(nodes, nodes[i]) @@ HttpStatus(nodes, nodes[i])]]

\* Step 8: the projection and the text of the first error.
Bake(spans, nodes) ==
    [i \in DOMAIN nodes |->
        nodes[i] @@ [brief |-> Project(nodes[i].kind, nodes[i].facts),
                     text  |-> IF nodes[i].errors = <<>> THEN ""
                               ELSE ErrorText(SpanOf(spans, nodes[i].errors[1]))]]

\* A walk that is started and never ends: over the unclassified spans, and
\* over the primaries in the connect step.
HangsOn(spans, route) ==
    \/ \E s \in DOMAIN route.hosts : route.hosts[s] = Hang
    \/ \E p \in DOMAIN route.claimed : Connect(spans, route.owner, p) = Hang
Hangs(spans) == HangsOn(spans, Routed(spans))

\* A group has the node of its host as parent.
ParentNode(owner, sid) == IF sid = NoSpan THEN NoNode ELSE SpanNode(owner[sid])

\* order: the primaries as the set gives them, which is any order.
CallNodes(spans, route, order) ==
    LET prims == [i \in DOMAIN order |-> SpanOf(spans, order[i])]
        node(s) == MakeNode(spans, s, route.kindOf[s.id], route.claimed[s.id])
        host(s) == Connect(spans, route.owner, s.id)
    IN  [i \in DOMAIN prims |->
            node(prims[i]) @@ [parent |-> ParentNode(route.owner, host(prims[i]))]]

GroupNodes(spans, route) ==
    LET rest == Residual(spans, route.owner)
        keys == KeysOf(rest, LAMBDA s : <<route.hosts[s.id], s.service>>)
        members(key) == SelectSeq(rest, LAMBDA s : <<route.hosts[s.id], s.service>> = key)
    IN  [i \in DOMAIN keys |->
            Group(members(keys[i]), keys[i][1], keys[i][2])
            @@ [parent |-> ParentNode(route.owner, keys[i][1])]]

AssembleOn(spans, route, order) ==
    Bake(spans, BakeFeatures(CallNodes(spans, route, order) \o GroupNodes(spans, route)))
Assemble(spans, order) == AssembleOn(spans, Routed(spans), order)

(***************************************************************************)
(* assemble.ts                                                             *)
(***************************************************************************)
NearestPrimaryTs(spans, kindOf, sid) ==
    FirstAncestor(spans, sid, LAMBDA a : kindOf[a] # Unclassified)

\* claimedBy: a primary with a claiming kind and candidates of its own
ClaimedByTs(spans, kindOf, nearest) ==
    [p \in {sid \in DOMAIN kindOf : kindOf[sid] # Unclassified} |->
        LET candidates == SelectSeq(spans, LAMBDA s : s.id \in DOMAIN nearest /\ nearest[s.id] = p)
        IN  IF kindOf[p] # "gateway" \/ candidates = <<>> THEN <<>>
            ELSE GatewayClaims(SpanOf(spans, p), candidates)]

OwnerTs(claimed) ==
    [sid \in UNION {{p} \cup Range(claimed[p]) : p \in DOMAIN claimed} |->
        CHOOSE p \in DOMAIN claimed : sid = p \/ sid \in Range(claimed[p])]

RoutesTs(spans, kindOf) ==
    LET nearest == [sid \in {x \in Ids(spans) : kindOf[x] = Unclassified} |->
                       NearestPrimaryTs(spans, kindOf, sid)]
        claimed == ClaimedByTs(spans, kindOf, nearest)
    IN  [kindOf |-> kindOf, hosts |-> nearest, claimed |-> claimed, owner |-> OwnerTs(claimed)]
RoutedTs(spans) == RoutesTs(spans, [sid \in Ids(spans) |-> ClassifyTs(SpanOf(spans, sid))])

CallNodeTs(spans, route, s) ==
    LET owner   == route.owner
        members == <<s.id>> \o route.claimed[s.id]
        kind    == route.kindOf[s.id]
        host    == FirstAncestor(spans, s.id, LAMBDA a : a \in DOMAIN owner /\ owner[a] # s.id)
    IN  [id |-> SpanNode(s.id), kind |-> kind, name |-> s.name, primary |-> s.id,
         spans |-> members, service |-> s.service, start |-> s.start, dur |-> s.dur,
         facts |-> ("duration_ms" :> s.dur) @@ BuildTs(kind, s),
         errors |-> SelectSeq(members, LAMBDA m : SpanOf(spans, m).error),
         parent |-> IF host = NoSpan THEN NoNode ELSE SpanNode(owner[host])]

\* sum_ms is in tenths of a millisecond, as in Group.
GroupNodeTs(spans, host, service, in) ==
    LET ids == [i \in DOMAIN in |-> in[i].id]
        lo  == Min({x.start : x \in Range(in)})
        hi  == Max({x.start + x.dur : x \in Range(in)})
        known == service # NoService
    IN  [id |-> <<"svc", host, IF known THEN service ELSE "undefined">>, kind |-> "service",
         name |-> IF known THEN service ELSE "?", primary |-> ids[1],
         spans |-> ids, service |-> service, start |-> lo, dur |-> hi - lo,
         facts |-> ("count" :> Len(in))
                   @@ ("sum_ms" :> HalfUp(10 * FoldLeft(LAMBDA t, x : t + x.dur, 0, in), Ms)),
         errors |-> SelectSeq(ids, LAMBDA m : SpanOf(spans, m).error)]

GroupsTs(spans, route) ==
    LET rest  == SelectSeq(spans, LAMBDA s : s.id \notin DOMAIN route.owner)
        key(s) == [host |-> route.hosts[s.id], service |-> s.service]
        keys  == KeysOf(rest, key)
        node(k) ==
            GroupNodeTs(spans, k.host, k.service, SelectSeq(rest, LAMBDA s : key(s) = k))
            @@ [parent |-> IF k.host = NoSpan THEN NoNode ELSE SpanNode(route.owner[k.host])]
    IN  [i \in DOMAIN keys |-> node(keys[i])]

\* feature/builtins.ts keeps a sweep of its own, over intervals sorted by
\* start alone and joined with a maximum.
IntervalUnionTs(ivs) ==
    LET sorted == SortSeq(ivs, LAMBDA a, b : a[1] < b[1])
        step(acc, iv) ==
            IF iv[1] <= acc[3] THEN <<acc[1], acc[2], Max({acc[3], iv[2]})>>
                               ELSE <<acc[1] + acc[3] - acc[2], iv[1], iv[2]>>
        end == FoldLeft(step, <<0, sorted[1][1], sorted[1][2]>>, Tail(sorted))
    IN  IF ivs = <<>> THEN 0 ELSE end[1] + end[3] - end[2]

FeaturesTs(nodes, n) ==
    LET kids  == Children(nodes, n.id)
        http  == SelectSeq(kids, LAMBDA k : k.kind = "http" /\ "status" \in DOMAIN k.facts)
        odd   == SelectSeq(http, LAMBDA k : k.facts["status"] # 200)
    IN  Fact("self_ms", Max({0, n.dur - IntervalUnionTs(Intervals(kids))}), Len(kids) > 0)
        @@ (IF n.kind = "model-call" /\ Len(http) > 0
            THEN "http_status" :> Head(IF odd # <<>> THEN odd ELSE http).facts["status"]
            ELSE <<>>)

HangsOnTs(spans, route) ==
    \/ Hang \in Range(route.hosts)
    \/ \E p \in DOMAIN route.claimed :
          Hang = FirstAncestor(spans, p,
                               LAMBDA a : a \in DOMAIN route.owner /\ route.owner[a] # p)
HangsTs(spans) == HangsOnTs(spans, RoutedTs(spans))

BakeTs(spans, nodes) ==
    LET baked(n) == [n EXCEPT !.facts = @ @@ FeaturesTs(nodes, n)]
        shown(n) == n @@ [brief |-> Project(n.kind, n.facts),
                          text  |-> IF Len(n.errors) = 0 THEN ""
                                    ELSE ErrorText(SpanOf(spans, Head(n.errors)))]
    IN  [i \in DOMAIN nodes |-> shown(baked(nodes[i]))]

AssembleOnTs(spans, route) ==
    LET prims == SelectSeq(spans, LAMBDA s : s.id \in DOMAIN route.claimed)
    IN  BakeTs(spans, [i \in DOMAIN prims |-> CallNodeTs(spans, route, prims[i])]
                      \o GroupsTs(spans, route))
AssembleTs(spans) == AssembleOnTs(spans, RoutedTs(spans))
==============================================================================
