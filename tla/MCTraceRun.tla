------------------------------ MODULE MCTraceRun ------------------------------
(***************************************************************************)
(* Small traces: every tree of three spans over the kinds that interact,   *)
(* a loop of four tool calls with every combination of durations, and      *)
(* documents as stores really return them (doubled, on one page and across *)
(* a cut, more than the limit, without id or service, with other reference *)
(* types, with exceptions, between two milliseconds).                      *)
(***************************************************************************)
EXTENDS TraceRun

\* A gateway call claims the plain spans below it.
MCGatewayMatches(s) == s.attrs["gateway"] # ""
MCGatewayClaims(s, candidates) ==
    LET own == SelectSeq(candidates, LAMBDA c : c.service = s.service)
    IN  [i \in DOMAIN own |-> own[i].id]

\* A detector that names the errors below a node by reading its children.
MCContributed(n, ns, seen) ==
    IF \E c \in Range(Children(ns, n.id)) :
          \E f \in Range(Of(seen, c.id)) : f.source \in {"error", "blame"}
    THEN <<Finding(n.id, "blame", "info", "")>> ELSE <<>>

\* A facet of agents: one line per child, children gathered, a group each,
\* or no child at all.
MCDomainLayout(style, kids, flagged) ==
    CASE style = "summarize" ->
            [i \in DOMAIN kids |-> [op |-> "summarize", nodes |-> <<kids[i].id>>, label |-> ""]]
      [] style = "aggregate" ->
            <<[op |-> "aggregate", nodes |-> [i \in DOMAIN kids |-> kids[i].id], label |-> "calls"]>>
      [] style = "group" ->
            [i \in DOMAIN kids |-> [op |-> "group", nodes |-> <<kids[i].id>>, label |-> "step"]]
      [] style = "omit" -> <<>>

KindTags(kind) ==
    CASE kind = "agent"   -> <<<<"gen_ai.operation.name", "invoke_agent">>>>
      [] kind = "model"   -> <<<<"gen_ai.operation.name", "chat">>,
                               <<"gen_ai.usage.output_tokens", "0">>>>
      [] kind = "tool"    -> <<<<"gen_ai.tool.name", "grep">>,
                               <<"gen_ai.tool.call.result", "abc">>>>
      [] kind = "http"    -> <<<<"http.request.method", "POST">>,
                               <<"url.full", "llm.local/embeddings">>,
                               <<"http.response.status_code", "500">>>>
      [] kind = "gateway" -> <<<<"gateway", "1">>>>
      [] kind = "plain"   -> <<<<"url.full", "elsewhere">>>>

\* start and dur in milliseconds
Doc(id, parent, kind, start, dur, text) ==
    [spanID |-> id, name |-> kind, service |-> IF kind = "plain" THEN "b" ELSE "a",
     start |-> start * Ms, dur |-> dur * Ms, tags |-> KindTags(kind),
     references |-> IF parent = 0 THEN <<>> ELSE <<<<"CHILD_OF", parent>>>>,
     logs |-> IF text = "" THEN <<>> ELSE <<[event |-> "exception", type |-> "Timeout", message |-> text]>>]

\* Timing and errors of three spans: nested with one error passed up, a hole
\* with a plain error below, children that overlap and outlive the parent.
Shape(i) ==
    CASE i = 1 -> [start |-> <<0, 0, 1000>>, dur |-> <<4000, 3000, 1000>>,
                   text |-> <<"after 1", "after 2", "after 1">>]
      [] i = 2 -> [start |-> <<0, 3000, 3000>>, dur |-> <<6000, 1000, 0>>,
                   text |-> <<"", "", "after 1">>]
      [] i = 3 -> [start |-> <<1000, 2000, 1000>>, dur |-> <<3000, 4000, 2000>>,
                   text |-> <<"", "", "">>]

Tree(i, p1, p2, p3, k1, k2, k3) ==
    LET sh == Shape(i)
    IN  <<Doc(1, p1, k1, sh.start[1], sh.dur[1], sh.text[1]),
          Doc(2, p2, k2, sh.start[2], sh.dur[2], sh.text[2]),
          Doc(3, p3, k3, sh.start[3], sh.dur[3], sh.text[3])>>

\* 9 is a span the trace does not have; the third as parent makes a cycle.
Trees ==
    {Tree(p[1], p[2], p2, p3, k1, k2, k3) :
     p \in {<<1, 0>>, <<1, 9>>, <<1, 3>>, <<2, 0>>, <<3, 0>>},
     p2 \in {1, 3}, p3 \in {1, 2, 0},
     k1 \in {"agent", "gateway", "plain"}, k2 \in {"model", "tool", "plain"},
     k3 \in {"http", "plain", "tool"}}

Loops ==
    {LET at(i) == (IF i = 1 THEN 0 ELSE 9000) + (IF i <= 2 THEN 0 ELSE 9000)
     IN  <<Doc(1, 0, "agent", 0, 40000, ""),
           Doc(2, 1, "tool", 0, a, ""), Doc(3, 1, "tool", 9000, b, ""),
           Doc(4, 1, mid, 18000, c, ""), Doc(5, 1, "tool", 27000, d, "")>> :
     a, b, c, d \in {1000, 3000, 9000}, mid \in {"tool", "model"}}

\* Two documents of one span, one without id, a reference that is not to a
\* parent, an error told by the status tag alone, an attribute set twice.
Odd ==
    LET good == Doc(1, 0, "agent", 0, 2000, "")
        again == Doc(1, 0, "tool", 0, 2000, "")
        nameless == Doc(0, 1, "tool", 1000, 1000, "")
        status == [Doc(2, 1, "tool", 1000, 1000, "") EXCEPT
                       !.tags = @ \o <<<<"otel.status_code", "ERROR">>,
                                       <<"gen_ai.tool.name", "find">>>>,
                       !.references = <<<<"FOLLOWS_FROM", 3>>>> \o @]
        same  == Doc(3, 2, "plain", 1000, 1000, "")
        flag  == [Doc(4, 3, "model", 1000, 0, "") EXCEPT !.tags = @ \o <<<<"error", "true">>>>]
        \* a second document of span 2 in the same millisecond, the second on
        \* its page or the first on the next
        twice == [Doc(2, 1, "tool", 1000, 3000, "") EXCEPT !.start = @ + 1]
        late  == Doc(5, 1, "tool", 3000, 1000, "")
    IN  {<<good, again, status>>, <<good, nameless, status>>, <<status, good, same>>,
         <<good, status, same, flag>>, <<same, flag, status>>,
         <<good, status, twice>>, <<status, twice, flag>>, <<good, late, status, same, flag>>}

\* Spans of unknown services beside each other and below a call, some of a
\* quarter of a millisecond; siblings that start together; exceptions of two
\* types, and texts that differ late, below each other.
Nested ==
    LET top(kind)  == Doc(1, 0, kind, 0, 8, "")
        short(id, up, start, service, dur) ==
            [Doc(id, up, "plain", start, 0, "after 1") EXCEPT !.service = service, !.dur = dur]
        told(doc, text) == [doc EXCEPT !.tags = @ \o <<<<"otel.status_code", "ERROR">>,
                                                       <<"otel.status_description", text>>>>]
        refused(doc) == [doc EXCEPT !.logs =
                            <<[event |-> "exception", type |-> "Refused", message |-> "no"]>>]
        long(i) == SetToSeq(DOMAIN Prefix60)[i]
        tool(id, up) == Doc(id, up, "tool", 0, 8, "after 1")
        http(id, code) == [Doc(id, 1, "http", 0, 8, "") EXCEPT
                              !.tags = @ \o <<<<"http.response.status_code", code>>>>]
    IN  {<<refused(top(kind)), short(2, up, 2, s, 1), refused(short(3, up, at, t, d))>> :
            kind \in {"agent", "plain"}, up \in {0, 1}, at \in {2, 5}, s, t \in {NoService, "", "b"},
            d \in {0, 2, 4}}
        \cup {<<tool(1, 0), x, y>> :
                x \in {tool(2, 1), refused(tool(2, 1)), told(Doc(2, 1, "tool", 0, 8, ""), long(1))},
                y \in {tool(3, 2), refused(tool(3, 2)), told(Doc(3, 2, "tool", 0, 8, ""), long(1)),
                       told(Doc(3, 2, "tool", 0, 8, ""), long(2))}}
        \cup {<<top("model"), http(2, a), http(3, b)>> : a, b \in {"200", "500", "503"}}

MCInputs == Trees \cup Loops \cup Odd \cup Nested
\* The order of the ids and its reverse: every two siblings either way round.
MCSetOrders(ids) == LET up == SetToSortSeq(ids, <) IN {up, Reverse(up)}
MCPaged  == Odd \cup {d \in Trees : d[1].name = "agent" /\ d[3].name = "tool"
                                       /\ d[1].references = <<>>}

MCViews == {<<"builtin", 2000 * Ms, "full">>, <<"builtin", ByRank, "agent">>,
            <<"summarize", NoCut, "agent">>, <<"group", NoCut, "full">>, <<"omit", NoCut, "full">>,
            <<"aggregate", 4000 * Ms, "agent">>}

MCExploring(ns) ==
    IF Len(ns) > 4 THEN {[expanded |-> {ns[1].id}, focus |-> NoNode]}
    ELSE {[expanded |-> {}, focus |-> NoNode], [expanded |-> NodeIds(ns), focus |-> NoNode],
          [expanded |-> {ns[1].id}, focus |-> ns[1].id],
          [expanded |-> ResolveSelector(ns, "error") \cup ResolveSelector(ns, "slowest"),
           focus |-> NoNode]}

\* Runs over a turn with a model call and an operation that holds a tool
\* call's run; sources are the first and the last node, or unknown.
El(kind, id, parent, start, dur, refs, status) ==
    [kind |-> kind, id |-> id, parent |-> parent, start |-> start, dur |-> dur,
     refs |-> refs, status |-> status]
MCExtracted(ns) ==
    IF ~(Len(ns) = 3 /\ ns[1].kind = "agent" /\ ns[1].dur = 4000 * Ms /\ HasErrors(ns[3]) /\ ns[3].parent = ns[2].id
         /\ ns[2].kind = "tool-call" /\ ns[3].kind = "tool-call" /\ ns[1].parent = NoNode)
    THEN {}
    ELSE {[trace |-> t,
           ir |-> <<El("run", 1, 0, 0, 4, {}, ""),
                    El("turn", 1, 1, 0, d, {}, ""),
                    El("model-call", 1, 2, s1, 1, {ns[1].id}, ""),
                    El("operation", i2, 2, s2, 2, {}, ""),
                    El("operation", 3, 4, s2, d3, {}, st),
                    El("run", r2, 5, s2, 1, {}, ""),
                    El("operation", 4, 6, s2, 1, ref, "")>>] :
          t \in {"t", "u"}, d \in {3, 4}, s1 \in {0, 1}, i2 \in {1, 2}, s2 \in {0, 1, 2},
          d3 \in {-1, 1, 3}, st \in {"", "error"}, r2 \in {1, 2},
          ref \in {{}, {ns[3].id}, {ns[1].id, NoNode}}}

MCJudged == {d \in Trees : d[1].name = "agent" /\ d[2].name = "tool" /\ d[3].name = "tool"
                            /\ d[1].references = <<>>}
            \cup {d \in Loops : d[4].name = "tool"}
MCCompanions ==
    {<<Doc(7, 0, "tool", 0, 1000, "after 3"), Doc(8, 0, "tool", 2000, 1000, "")>>,
     <<Doc(7, 0, "tool", 0, 1000, "after 3"), Doc(8, 0, "tool", 2000, 4004, "")>>,
     <<Doc(7, 0, "tool", 0, 1000, "after 3"), Doc(8, 0, "tool", 2000, 4006, "")>>,
     <<Doc(7, 0, "tool", 0, 1000, "after 2"), Doc(8, 7, "tool", 0, 1000, "after 1")>>}
\* 4004 and 4006 ms beside a median of 1000.
MCGates == {[maxErrors |-> NoGate, noNew |-> FALSE, fleet |-> NoGate],
            [maxErrors |-> 1, noNew |-> TRUE, fleet |-> NoGate],
            [maxErrors |-> NoGate, noNew |-> TRUE, fleet |-> NoGate],
            [maxErrors |-> 3, noNew |-> FALSE, fleet |-> 4]}
MCSlices == {<<"any", "any">>, <<"tool-call", "yes">>}
=============================================================================
