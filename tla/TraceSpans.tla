----------------------------- MODULE TraceSpans -----------------------------
(***************************************************************************)
(* The physical side of the trace harness, in Python and in TypeScript:    *)
(* a Jaeger document becomes a NormSpan, and the ordered kind              *)
(* specifications of the GenAI conventions decide which spans are logical  *)
(* calls and which facts they carry.                                       *)
(*                                                                         *)
(* A definition ending in Ts is the TypeScript twin, translated from its   *)
(* own source.  Identifiers are small numbers (0: absent); attributes are  *)
(* strings ("": absent or empty, which both readers skip).  A time is a    *)
(* number of quarters of a millisecond: whole microseconds, exact as a     *)
(* float, and fine enough to fall between two tenths.                      *)
(***************************************************************************)
EXTENDS Integers, Sequences, SequencesExt, FiniteSetsExt, Functions, TLC

CONSTANTS
    GatewayMatches(_),      \* a contributed kind: does it match the span
    GatewayClaims(_, _)     \* the satellites it claims among the candidates

NoSpan    == 0              \* a missing span id
NoService == "(none)"       \* no process, or one without serviceName
Ms        == 4              \* a millisecond

\* round(x, k) of Python and Math.round of JavaScript, of n / d.
HalfEven(n, d) ==
    LET q == n \div d
        r == 2 * (n % d)
    IN  IF r > d \/ (r = d /\ q % 2 = 1) THEN q + 1 ELSE q
HalfUp(n, d) == (2 * n + d) \div (2 * d)

(***************************************************************************)
(* Documents.  tags: sequence of <<key, value>>; references: sequence of   *)
(* <<type, span id>>; logs: sequence of [event, type, message].            *)
(***************************************************************************)
Keys == {"gen_ai.operation.name", "gen_ai.tool.name", "gen_ai.agent.name",
         "gen_ai.request.model", "gen_ai.response.model", "llm.model_name",
         "gen_ai.usage.input_tokens", "gen_ai.usage.output_tokens",
         "llm.token_count.completion", "gen_ai.prompt",
         "gen_ai.tool.call.result", "http.request.method", "url.full",
         "http.response.status_code", "otel.status_code",
         "otel.status_description", "error", "gateway"}

\* The strings the readers take for numbers.
Numbers == ("0" :> 0) @@ ("3" :> 3) @@ ("7" :> 7) @@ ("200" :> 200) @@ ("500" :> 500)
           @@ ("503" :> 503)
NotANumber == -1

Flatten(tags) ==
    [k \in Keys |-> LET at == {i \in DOMAIN tags : tags[i][1] = k}
                    IN  IF at = {} THEN "" ELSE tags[Max(at)][2]]

\* The first name with a value, in the order the caller lists them.
Attr(attrs, names) ==
    LET i == SelectInSeq(names, LAMBDA n : attrs[n] # "")
    IN  IF i = 0 THEN "" ELSE attrs[names[i]]

Num(attrs, names) ==
    LET v == Attr(attrs, names)
    IN  IF v \in DOMAIN Numbers THEN Numbers[v] ELSE NotANumber

ParentOf(doc) ==
    LET i == SelectInSeq(doc.references, LAMBDA r : r[1] = "CHILD_OF" /\ r[2] # NoSpan)
    IN  IF i = 0 THEN NoSpan ELSE doc.references[i][2]

ErrorEvents(doc) ==
    SelectSeq(doc.logs, LAMBDA l : l.event = "exception" \/ l.type # "")

\* mutant: only the status code makes a span an error
HasErrorByStatus(doc, attrs) == attrs["otel.status_code"] \in {"ERROR", "error"}

HasError(doc, attrs) ==
    \/ attrs["otel.status_code"] \in {"ERROR", "error"}
    \/ attrs["error"] \in {"true", "True"}
    \/ ErrorEvents(doc) # <<>>

NormalizeDoc(doc) ==
    LET attrs == Flatten(doc.tags)
    IN  [id |-> doc.spanID, parent |-> ParentOf(doc), name |-> doc.name,
         start |-> doc.start, dur |-> doc.dur, service |-> doc.service,
         error |-> HasError(doc, attrs), attrs |-> attrs, events |-> ErrorEvents(doc)]

\* A dictionary by span id: the first occurrence gives the place, the last
\* one the value; a document without a span id is dropped.
LoadSpans(docs) ==
    LET kept  == SelectSeq(docs, LAMBDA d : d.spanID # NoSpan)
        first == SelectSeq([i \in DOMAIN kept |-> i],
                           LAMBDA i : \A j \in 1..(i - 1) : kept[j].spanID # kept[i].spanID)
        last(i) == Max({j \in DOMAIN kept : kept[j].spanID = kept[i].spanID})
    IN  [k \in DOMAIN first |-> NormalizeDoc(kept[last(first[k])])]

ErrorText(span) ==
    IF span.events # <<>> THEN span.events[1].type \o ": " \o span.events[1].message
                          ELSE span.attrs["otel.status_description"]

FlattenTs(tags) ==
    [k \in Keys |-> FoldLeft(LAMBDA v, t : IF t[1] = k THEN t[2] ELSE v, "", tags)]

ParentOfTs(doc) ==
    LET child(r) == r[1] = "CHILD_OF" /\ r[2] # NoSpan
        found    == SelectSeq(doc.references, child)
    IN  IF found = <<>> THEN NoSpan ELSE Head(found)[2]

NormalizeDocTs(doc) ==
    LET attrs  == FlattenTs(doc.tags)
        thrown == SelectSeq(doc.logs, LAMBDA l : l.event = "exception" \/ l.type # "")
    IN  [id |-> doc.spanID, parent |-> ParentOfTs(doc), name |-> doc.name,
         start |-> doc.start, dur |-> doc.dur,
         service |-> IF doc.service = "" THEN NoService ELSE doc.service,
         error |-> \/ attrs["otel.status_code"] \in {"error", "ERROR"}
                   \/ attrs["error"] \in {"True", "true"}
                   \/ Len(thrown) > 0,
         attrs |-> attrs, events |-> thrown]

\* A Map keeps the place of a key that is set again.
LoadSpansTs(docs) ==
    LET set(map, doc) ==
            LET at == SelectInSeq(map, LAMBDA s : s.id = doc.spanID)
            IN  IF doc.spanID = NoSpan THEN map
                ELSE IF at = 0 THEN Append(map, NormalizeDocTs(doc))
                ELSE [map EXCEPT ![at] = NormalizeDocTs(doc)]
    IN  FoldLeft(set, <<>>, docs)

(***************************************************************************)
(* Kinds, Python (kinds/genai.py).  The order of Specs is the precedence.  *)
(***************************************************************************)
ChatOps  == {"chat", "text_completion", "generate_content", "completion"}
ToolOps  == {"execute_tool"}
AgentOps == {"invoke_agent", "create_agent"}
LlmUrls  == {"llm.local/chat/completions", "llm.local/embeddings"}

Op(s) == Attr(s.attrs, <<"gen_ai.operation.name">>)

IsHttp(s) == Attr(s.attrs, <<"http.request.method", "url.full">>) # ""

IsLlmHttp(s) == IsHttp(s) /\ Attr(s.attrs, <<"url.full">>) \in LlmUrls

MatchModel(s) ==
    \/ Op(s) \in ChatOps
    \/ /\ Attr(s.attrs, <<"gen_ai.request.model", "llm.model_name">>) # ""
       /\ Op(s) \notin ToolOps \cup AgentOps

MatchTool(s)  == Op(s) \in ToolOps \/ Attr(s.attrs, <<"gen_ai.tool.name">>) # ""
MatchAgent(s) == Op(s) \in AgentOps \/ Attr(s.attrs, <<"gen_ai.agent.name">>) # ""

\* One fact: absent when the span does not carry it.
Fact(name, value, present) == IF present THEN name :> value ELSE <<>>
NumFact(name, value)  == Fact(name, value, value # NotANumber)
TextFact(name, value) == Fact(name, value, value # "")

BuildModel(s) ==
    TextFact("model", Attr(s.attrs, <<"gen_ai.response.model", "gen_ai.request.model",
                                      "llm.model_name">>))
    @@ NumFact("in_tokens", Num(s.attrs, <<"gen_ai.usage.input_tokens">>))
    @@ NumFact("out_tokens", Num(s.attrs, <<"gen_ai.usage.output_tokens",
                                            "llm.token_count.completion">>))
    @@ Fact("io_span", s.id, Attr(s.attrs, <<"gen_ai.prompt">>) # "")

BuildTool(s) ==
    LET result == Attr(s.attrs, <<"gen_ai.tool.call.result">>)
    IN  TextFact("tool", Attr(s.attrs, <<"gen_ai.tool.name">>))
        @@ Fact("result_bytes", Len(result), result # "")
        @@ Fact("io_span", s.id, result # "")

BuildAgent(s) == TextFact("agent", Attr(s.attrs, <<"gen_ai.agent.name">>))

BuildHttp(s) ==
    NumFact("status", Num(s.attrs, <<"http.response.status_code">>))
    @@ TextFact("method", Attr(s.attrs, <<"http.request.method">>))
    @@ TextFact("url", Attr(s.attrs, <<"url.full">>))

Specs == <<"gateway", "tool-call", "agent", "model-call", "http">>

Matches(kind, s) ==
    CASE kind = "gateway"    -> GatewayMatches(s)
      [] kind = "tool-call"  -> MatchTool(s)
      [] kind = "agent"      -> MatchAgent(s)
      [] kind = "model-call" -> MatchModel(s)
      [] kind = "http"       -> IsLlmHttp(s)

Unclassified == ""

Classify(s) ==
    LET i == SelectInSeq(Specs, LAMBDA k : Matches(k, s))
    IN  IF i = 0 THEN Unclassified ELSE Specs[i]

Build(kind, s) ==
    CASE kind = "tool-call"  -> BuildTool(s)
      [] kind = "agent"      -> BuildAgent(s)
      [] kind = "model-call" -> BuildModel(s)
      [] kind = "http"       -> BuildHttp(s)
      [] OTHER               -> <<>>

(***************************************************************************)
(* The one-line projection of a node: a sequence of <<label, value>>, the  *)
(* value a string; formatting of times and sizes is left out.              *)
(***************************************************************************)
Shown(label, facts, name) == IF name \in DOMAIN facts THEN <<<<label, name>>>> ELSE <<>>

Project(kind, facts) ==
    CASE kind = "model-call" ->
            Shown("model", facts, "model")
            \o (IF {"in_tokens", "out_tokens"} \cap DOMAIN facts # {}
                THEN <<<<"tok", "tokens">>>> ELSE <<>>)
            \o <<<<"dur", "duration_ms">>>>
            \o (IF "http_status" \in DOMAIN facts /\ facts["http_status"] # 0
                THEN <<<<"http", "http_status">>>> ELSE <<>>)
      [] kind = "tool-call" ->
            Shown("tool", facts, "tool") \o <<<<"dur", "duration_ms">>>>
            \o Shown("result", facts, "result_bytes")
      [] kind = "agent" -> Shown("agent", facts, "agent") \o <<<<"dur", "duration_ms">>>>
      [] kind = "http" ->
            Shown("method", facts, "method") \o Shown("http", facts, "status")
            \o <<<<"dur", "duration_ms">>>>
      [] kind = "service" -> <<<<"x", "count">>, <<"sum", "sum_ms">>>>
      [] OTHER -> <<>>

(***************************************************************************)
(* Kinds, TypeScript (kinds/genai.ts): each specification is one object.   *)
(***************************************************************************)
ModelMatchesTs(s) ==
    LET op == Attr(s.attrs, <<"gen_ai.operation.name">>)
    IN  IF op \in ChatOps THEN TRUE
        ELSE /\ Attr(s.attrs, <<"gen_ai.request.model", "llm.model_name">>) # ""
             /\ op \notin ToolOps
             /\ op \notin AgentOps

ModelFactsTs(s) ==
    LET model  == Attr(s.attrs, <<"gen_ai.response.model", "gen_ai.request.model",
                                  "llm.model_name">>)
        input  == Num(s.attrs, <<"gen_ai.usage.input_tokens">>)
        output == Num(s.attrs, <<"gen_ai.usage.output_tokens", "llm.token_count.completion">>)
        prompt == Attr(s.attrs, <<"gen_ai.prompt">>)
    IN  TextFact("model", model) @@ NumFact("in_tokens", input)
        @@ NumFact("out_tokens", output) @@ Fact("io_span", s.id, prompt # "")

ToolFactsTs(s) ==
    LET tool   == Attr(s.attrs, <<"gen_ai.tool.name">>)
        result == Attr(s.attrs, <<"gen_ai.tool.call.result">>)
    IN  TextFact("tool", tool) @@ Fact("result_bytes", Len(result), result # "")
        @@ Fact("io_span", s.id, result # "")

HttpMatchesTs(s) ==
    LET url == Attr(s.attrs, <<"url.full">>)
    IN  (Attr(s.attrs, <<"http.request.method">>) # "" \/ url # "") /\ url \in LlmUrls

HttpFactsTs(s) ==
    LET status == Num(s.attrs, <<"http.response.status_code">>)
    IN  NumFact("status", status)
        @@ TextFact("method", Attr(s.attrs, <<"http.request.method">>))
        @@ TextFact("url", Attr(s.attrs, <<"url.full">>))

ClassifyTs(s) ==
    LET op   == Attr(s.attrs, <<"gen_ai.operation.name">>)
        hit  == <<GatewayMatches(s),
                  op \in ToolOps \/ s.attrs["gen_ai.tool.name"] # "",
                  op \in AgentOps \/ s.attrs["gen_ai.agent.name"] # "",
                  ModelMatchesTs(s), HttpMatchesTs(s)>>
        i    == SelectInSeq(hit, LAMBDA h : h)
    IN  IF i = 0 THEN Unclassified ELSE Specs[i]

BuildTs(kind, s) ==
    CASE kind = "tool-call"  -> ToolFactsTs(s)
      [] kind = "agent"      -> TextFact("agent", s.attrs["gen_ai.agent.name"])
      [] kind = "model-call" -> ModelFactsTs(s)
      [] kind = "http"       -> HttpFactsTs(s)
      [] OTHER               -> <<>>
=============================================================================
