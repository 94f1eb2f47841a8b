-------------------------- MODULE TrajectoryLoader --------------------------
(***************************************************************************)
(* The OTel GenAI loader of trajectory_harness: the spans of a recording,  *)
(* in the order of the document, become the steps of one trajectory per    *)
(* trace.                                                                  *)
(*                                                                         *)
(* A span is a record: trace, operation, toolName, args (of the attribute  *)
(* gen_ai.tool.call.arguments), inParts and outParts (the parts of its     *)
(* messages, each [type, tool, args, size]), result (the size of its tool  *)
(* result, None without one), start, end, code, errorType and tokens.      *)
(***************************************************************************)
EXTENDS TrajectoryAnalysis

CONSTANTS ObjectArguments,    \* the arguments that are JSON objects
          TraceIds,           \* the ids of traces, in the order of strings
          WorkflowOperations  \* the operations with "workflow" in their names

ASSUME TraceIdsAssumption ==
    /\ IsTuple(TraceIds)
    /\ \A i, j \in DOMAIN TraceIds : TraceIds[i] = TraceIds[j] => i = j

\* A span as the document gives it, its messages in sequences.
SoundSpan(span) == /\ IsTuple(span.inParts) /\ IsTuple(span.outParts)
                   /\ span.trace \in ToSet(TraceIds)
                   /\ span.start \in Int /\ span.end \in Int /\ span.result \in Int
                   /\ \A i \in DOMAIN span.outParts : span.outParts[i].size \in Int
                   /\ \A kind \in {"input", "output", "cached"} : span.tokens[kind] \in Int

ToolCallParts(parts) == Selected(parts, LAMBDA p : p.type = "tool_call")
ResponseParts(parts) == Selected(parts, LAMBDA p : p.type = "tool_call_response")

\* "" for a span that is not of GenAI, which the loader leaves out.
SpanOperation(span) ==
    CASE span.operation # "" -> span.operation
      [] span.operation = "" /\ span.toolName # "" -> "execute_tool"
      [] span.operation = "" /\ span.toolName = "" ->
            IF span.inParts \o span.outParts # <<>> THEN "inference" ELSE ""

ModelOperation(operation) ==
    operation \in {"inference", "chat", "generate_content", "text_completion", "embeddings"}

SpanStatus(span) == IF span.errorType # "" \/ span.code = "error" THEN "error"
                    ELSE span.code

FailureKind(operation) ==
    CASE operation = "execute_tool" -> "tool"
      [] ModelOperation(operation)  -> "llm"
      [] operation \in WorkflowOperations -> "workflow"
      [] operation \in {"create_agent", "invoke_agent", "plan"} -> "agent"
      [] OTHER -> "unknown"

\* A tool span without messages gets those its attributes stand for.
ToolMessages(span) ==
    LET called   == [type |-> "tool_call", tool |-> span.toolName,
                     args |-> span.args, size |-> None]
        answered == [type |-> "tool_call_response", tool |-> "", args |-> "",
                     size |-> span.result]
        synthetic == SpanOperation(span) = "execute_tool"
    IN  <<IF synthetic /\ span.inParts = <<>> THEN <<called>> ELSE span.inParts,
          IF synthetic /\ span.outParts = <<>> /\ span.result # None
          THEN <<answered>> ELSE span.outParts>>

\* Arguments that are not an object are put aside, and the call keeps {}.
CallOf(part) == [tool |-> part.tool,
                 args |-> IF part.args \in ObjectArguments THEN part.args ELSE "{}"]

AtifToolCalls(span) ==
    LET parts == ToolCallParts(ToolMessages(span)[1])
    IN  IF parts # <<>> THEN [i \in DOMAIN parts |-> CallOf(parts[i])]
        ELSE IF span.toolName # "" THEN <<CallOf([tool |-> span.toolName, args |-> span.args])>>
        ELSE <<>>

\* The size of the observation, None without one.
AtifObservation(span) ==
    LET parts == ResponseParts(ToolMessages(span)[2])
    IN  IF parts # <<>> THEN Total([i \in DOMAIN parts |-> parts[i].size]) ELSE span.result

OtelStep(span) ==
    LET operation == SpanOperation(span)
        model     == ModelOperation(operation)
        none      == [input |-> None, output |-> None, cached |-> None]
    IN  [id |-> 0, source |-> "agent", operation |-> operation, llm |-> model,
         name    |-> IF operation = "execute_tool" THEN span.toolName ELSE operation,
         calls   |-> AtifToolCalls(span),
         inMsgs  |-> ToolMessages(span)[1],
         outMsgs |-> ToolMessages(span)[2],
         obs     |-> AtifObservation(span),
         failure |-> IF SpanStatus(span) = "error" THEN FailureKind(operation) ELSE "",
         status  |-> SpanStatus(span),
         start   |-> span.start, dur |-> Max({0, span.end - span.start}),
         metrics |-> IF model THEN span.tokens ELSE none,
         attrs   |-> span.tokens]

\* One trajectory per trace, by its id; its steps by start time and then by
\* position.
OtelLoads(spans) ==
    LET genai  == Selected([i \in DOMAIN spans |-> i],
                            LAMBDA i : SpanOperation(spans[i]) # "")
        traces == Selected(TraceIds,
                           LAMBDA t : \E i \in ToSet(genai) : spans[i].trace = t)
        own(t) == Ordered({ i \in ToSet(genai) : spans[i].trace = t },
                    LAMBDA i, j : \/ spans[i].start < spans[j].start
                                  \/ spans[i].start = spans[j].start /\ i < j)
        steps(t) == [k \in DOMAIN own(t) |->
                       [OtelStep(spans[own(t)[k]]) EXCEPT !.id = k]]
    IN  [k \in DOMAIN traces |->
           [id |-> traces[k], target |-> "", outcome |-> "none", execFailure |-> "",
            duration |-> None, steps |-> steps(traces[k])]]
=============================================================================
