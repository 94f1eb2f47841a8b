-------------------------- MODULE MCTrajectoryRun --------------------------
(* One recording that holds any trace of up to three of these spans, and   *)
(* one that holds a fixed ATIF document.                                   *)
EXTENDS TrajectoryRun

NoTokens == [input |-> None, output |-> None, cached |-> None]

Blank == [trace |-> "t1", operation |-> "", toolName |-> "", args |-> "", inParts |-> <<>>,
          outParts |-> <<>>, result |-> None, start |-> 1, end |-> 1, code |-> "",
          errorType |-> "", tokens |-> NoTokens]

Asked(args) == <<[type |-> "tool_call", tool |-> "a", args |-> args, size |-> None]>>
Tokens(i, o, c) == [input |-> i, output |-> o, cached |-> c]

ToolOk     == [Blank EXCEPT !.toolName = "a", !.args = "x", !.result = 1, !.end = 3]
ToolFailed == [ToolOk EXCEPT !.errorType = "timeout", !.start = 3, !.end = 1]
ToolOther  == [ToolOk EXCEPT !.toolName = "b", !.start = 3, !.end = 4, !.result = 9]
ToolAsked  == [ToolOk EXCEPT !.inParts = Asked("y"), !.code = "error", !.result = None]
Compacting == [Blank EXCEPT !.operation = "compact"]
ModelBig   == [Blank EXCEPT !.operation = "generate_content", !.outParts = Asked("x"),
                            !.code = "error", !.tokens = Tokens(8, 1, 7)]
ModelSmall == [Blank EXCEPT !.inParts = Asked("x"), !.start = 0,
                            !.tokens = Tokens(3, -2, 5)]
Plain      == [Blank EXCEPT !.errorType = "timeout"]
Completion == [ModelSmall EXCEPT !.operation = "completion", !.code = "error"]
Workflow   == [Blank EXCEPT !.operation = "invoke_workflow", !.code = "error"]

Palette == {ToolOk, ToolFailed, ToolOther, ToolAsked, Compacting, ModelBig, ModelSmall}


Otel(spans) == [format |-> "otel", spans |-> spans]
Other == [id |-> "t2", target |-> "", outcome |-> "timeout", execFailure |-> "timeout",
          duration |-> 6, steps |-> <<[OtelStep(ToolFailed) EXCEPT !.id = 1]>>]
Atif(t) == [format |-> "atif", trajs |-> <<t>>]

MCRecordings == <<"r1", "r2">>
MCContents == [r \in {"r1", "r2"} |->
    IF r = "r1" THEN { Otel(s) : s \in UNION { [1..n -> Palette] : n \in 1..3 } }
                     \cup { Otel(<<s, Plain, [ToolOk EXCEPT !.trace = "t3"]>>) : s \in Palette }
                     \cup { Otel(<<[ToolOk EXCEPT !.trace = "t3"], s, Workflow>>) : s \in Palette }
                     \cup { Otel(<<Completion, s>>) : s \in Palette }
    ELSE {Atif(Other), Atif([Other EXCEPT !.target = "other", !.outcome = "completed"]),
          Atif([Other EXCEPT !.id = "t1"])}]
MCBrokenSets == {{}, {"retry_usage", "post_compact_refetch"}}
MCTraceIds == <<"t1", "t2", "t3">>
MCPolicies == {<<"none">>, <<"unknown">>, <<>>, <<"pass", "skipped">>, <<"pass", "fail">>}

\* A rerun is followed over recordings of at most one span.
ShortReruns == reruns > 0 =>
    \A i \in DOMAIN dataset.read :
        dataset.read[i].format = "otel" => Len(dataset.read[i].spans) <= 1
=============================================================================
