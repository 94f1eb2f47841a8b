------------------------------ MODULE AgentRunIR ------------------------------
(***************************************************************************)
(* The AgentRun IR of a trace: runs, turns and items an extractor built    *)
(* from the nodes, what validate_agent_run_ir accepts (model/agent.py and  *)
(* agent.ts) and the payload the viewer draws (view/agent_run.py).         *)
(*                                                                         *)
(* An IR is its elements in document order, each                           *)
(* [kind, id, parent, start, dur, refs, status] with parent the index of   *)
(* the element it lies in, 0 for a top-level run.                          *)
(***************************************************************************)
EXTENDS Integers, Sequences, SequencesExt, FiniteSetsExt, Functions

ItemKinds == {"model-call", "tool-call", "operation"}
Within(ir, i, kinds) ==
    SelectSeq([j \in DOMAIN ir |-> j], LAMBDA j : ir[j].parent = i /\ ir[j].kind \in kinds)

Ordered(ir, js) == \A k \in 2..Len(js) : ir[js[k - 1]].start <= ir[js[k]].start
NoTwins(ir, kinds) ==
    \A i, j \in DOMAIN ir :
        i # j /\ ir[i].kind \in kinds /\ ir[j].kind \in kinds => ir[i].id # ir[j].id

(***************************************************************************)
(* validate_agent_run_ir: the checks, each over all elements it visits.    *)
(***************************************************************************)
CheckSourceRefs(e, known) == e.refs \subseteq known
CheckTiming(e) == e.dur >= 0

CheckWithin(ir, i) ==
    ir[i].parent # 0 =>
        LET up == ir[ir[i].parent]
        IN  /\ ir[i].start >= up.start
            /\ ir[i].start + ir[i].dur <= up.start + up.dur

CheckRuns(ir, i) == Ordered(ir, Within(ir, i, {"run"}))

CheckItem(ir, i) ==
    ir[i].kind = "operation" => Ordered(ir, Within(ir, i, {"operation"}))

CheckRun(ir, i) ==
    ir[i].kind \in {"run", "turn"} =>
        Ordered(ir, Within(ir, i, {"turn"} \cup ItemKinds))

Validate(ir, trace, context, known) ==
    /\ trace = context
    /\ NoTwins(ir, {"run"}) /\ NoTwins(ir, {"turn"}) /\ NoTwins(ir, ItemKinds)
    /\ CheckRuns(ir, 0)
    /\ \A i \in DOMAIN ir :
        /\ CheckTiming(ir[i])
        /\ CheckSourceRefs(ir[i], known)
        /\ CheckWithin(ir, i)
        /\ CheckRuns(ir, i)
        /\ CheckItem(ir, i)
        /\ CheckRun(ir, i)

\* agent.ts walks the same tree with a running start per list, and first
\* looks at the schema, which an IR built in memory always carries.
ValidateTs(ir, trace, context, known) ==
    LET lists == {Within(ir, i, {"run"}) : i \in 0..Len(ir)}
                 \cup {Within(ir, i, {"operation"}) :
                       i \in {j \in DOMAIN ir : ir[j].kind = "operation"}}
                 \cup {Within(ir, i, {"turn", "operation"}) :
                       i \in {j \in DOMAIN ir : ir[j].kind = "run"}}
                 \cup {Within(ir, i, ItemKinds) :
                       i \in {j \in DOMAIN ir : ir[j].kind = "turn"}}
        space(e) == IF e.kind \in {"run", "turn"} THEN e.kind ELSE "item"
    IN  /\ trace = context
        /\ Cardinality({<<space(e), e.id>> : e \in Range(ir)}) = Len(ir)
        /\ \A l \in lists : \A k \in 2..Len(l) : ~(ir[l[k]].start < ir[l[k - 1]].start)
        /\ \A i \in DOMAIN ir :
            LET e == ir[i]
            IN  /\ e.refs \ known = {}
                /\ ~(e.dur < 0)
                /\ e.parent = 0 \/ ~(\/ e.start < ir[e.parent].start
                                     \/ e.start + e.dur > ir[e.parent].start + ir[e.parent].dur)

(***************************************************************************)
(* The payload.  bad: the node ids that carry an error span.               *)
(***************************************************************************)
ViewId(e) == <<IF e.kind = "run" THEN "agent-run" ELSE IF e.kind = "turn" THEN "agent-turn"
               ELSE "agent-item:" \o e.kind, e.id>>

\* An item's sources and those of what is nested in it; a run without its
\* own takes those of its items, for a turn the items inside it.
SourcesOf(ir) ==
    LET src[i \in DOMAIN ir] ==
            LET inner(kinds) == UNION {src[j] : j \in Range(Within(ir, i, kinds))}
            IN  CASE ir[i].kind \in ItemKinds -> ir[i].refs \cup inner({"operation", "run"})
                  [] ir[i].kind = "turn"      -> inner(ItemKinds)
                  [] ir[i].kind = "run"       ->
                        IF ir[i].refs # {} THEN ir[i].refs ELSE inner({"turn", "operation"})
    IN  [i \in DOMAIN ir |-> src[i]]

PayloadSources(ir, i) ==
    IF ir[i].kind \in ItemKinds \/ (ir[i].kind = "turn" /\ ir[i].refs # {})
    THEN ir[i].refs ELSE SourcesOf(ir)[i]

PayloadHasError(ir, bad, i) ==
    PayloadSources(ir, i) \cap bad # {} \/ ir[i].status = "error"

\* The nested children: operations and runs by start, then by view id.
PayloadChildren(ir, i) ==
    LET nested == Within(ir, i, {"operation", "run"})
    IN  IF ir[i].kind \in ItemKinds
        THEN SortSeq(nested, LAMBDA a, b :
                 \/ ir[a].start < ir[b].start
                 \/ /\ ir[a].start = ir[b].start
                    /\ IF ir[a].kind = ir[b].kind THEN ir[a].id < ir[b].id
                                                  ELSE ir[a].kind = "operation")
        ELSE Within(ir, i, {"turn"} \cup ItemKinds)

ErrorBelow(ir, bad) ==
    LET err[i \in DOMAIN ir] ==
            PayloadHasError(ir, bad, i) \/ \E j \in Range(PayloadChildren(ir, i)) : err[j]
    IN  {i \in DOMAIN ir : err[i]}

\* An operation without an error in or below it starts closed.
Collapsed(ir, bad, i) ==
    /\ ir[i].kind = "operation"
    /\ PayloadChildren(ir, i) # <<>>
    /\ i \notin ErrorBelow(ir, bad)

(***************************************************************************)
(* agent-run.ts                                                            *)
(***************************************************************************)
RunSourcesTs(ir) ==
    LET items[i \in DOMAIN ir] ==
            IF ir[i].kind = "run" /\ ir[i].refs # {} THEN ir[i].refs
            ELSE (IF ir[i].kind \in ItemKinds THEN ir[i].refs ELSE {})
                 \cup UNION {items[j] : j \in {k \in DOMAIN ir : ir[k].parent = i}}
    IN  [i \in DOMAIN ir |-> items[i]]

HasErrorTs(ir, bad, i) ==
    LET refs == IF ir[i].kind \in ItemKinds THEN ir[i].refs
                ELSE IF ir[i].refs # {} THEN ir[i].refs ELSE RunSourcesTs(ir)[i]
    IN  ir[i].status = "error" \/ refs \cap bad # {}

CollapsedTs(ir, bad, i) ==
    LET below[j \in DOMAIN ir] ==
            HasErrorTs(ir, bad, j) \/ \E k \in DOMAIN ir : ir[k].parent = j /\ below[k]
        kids == {k \in DOMAIN ir : ir[k].parent = i}
    IN  ir[i].kind = "operation" /\ kids # {} /\ ~below[i]
=============================================================================
