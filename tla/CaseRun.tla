------------------------------ MODULE CaseRun -------------------------------
(***************************************************************************)
(* The e2e case lifecycle and the run that collects its verdicts: the      *)
(* Python engine (e2e_harness/caserun.py, engine.py) and its Go twin       *)
(* (go/e2e/caserun/run.go, testing.go, go/e2e/testrun/run.go), with the    *)
(* rollup of harness_common/verdict.py and go/report/verdict.go.           *)
(*                                                                         *)
(* A phase's step passes, fails (Fail), skips (Skip) or errors (any other  *)
(* exception, a panic, a spent or missing budget).  It can also unwind     *)
(* past the lifecycle: a BaseException in Python (Ctrl-C, pytest.skip),    *)
(* runtime.Goexit in Go (t.FailNow or t.SkipNow inside the step).  Python  *)
(* runs its cases one by one, Go subtests may run in parallel.             *)
(***************************************************************************)
EXTENDS Naturals, FiniteSets

CONSTANTS
  Cases,    \* the cases of one run
  Plan,     \* which phases each case defines; execute always
  NoFace,   \* Python: the case has no e2e judge (skipped without a phase)
  Broken,   \* cases that may have no assert, an incomplete ref, or no execute
  Engines,  \* the engines considered: "python", "go"
  Unwinds   \* whether steps may unwind past the lifecycle

Phases == {"prepare", "execute", "judge", "cleanup"}

ASSUME CaseAssumption ==
  /\ IsFiniteSet(Cases)
  /\ Plan \in [Cases -> {P \in SUBSET Phases : "execute" \in P}]
  /\ NoFace \subseteq Cases /\ Broken \subseteq Cases \ NoFace
  /\ Engines \subseteq {"python", "go"} /\ Unwinds \in BOOLEAN

VARIABLES
  engine,    \* the engine that runs the cases; fixed
  broken,    \* the cases that are an error before their first phase; fixed
  run,       \* "new", "running", "aborted" or "ended"
  place,     \* the phase each case is in, or "todo", "over", "recorded", "unwound"
  phase,     \* the status of each phase of each case, "none" before it
  status,    \* the status of each case
  blocked,   \* an earlier phase keeps execute and judge from running
  reason,    \* the phase the case's reason quotes, or "none"
  resource,  \* external: a resource the case prepared exists
  exit,      \* Go: TRUE iff `go test` would exit 0 so far
  verdict    \* the status in verdict.json, "none" if it is not written

vars == <<engine, broken, run, place, phase, status, blocked, reason, resource, exit, verdict>>

Statuses == {"pass", "fail", "error", "skipped"}
Order(c) == [todo |-> "prepare", prepare |-> "execute", execute |-> "judge",
             judge |-> "cleanup", cleanup |-> "over"][place[c]]

CaseInit ==
  /\ engine \in Engines /\ broken \in SUBSET Broken
  /\ run = "new"
  /\ place = [c \in Cases |-> "todo"]
  /\ phase = [c \in Cases |-> [p \in Phases |-> "none"]]
  /\ status = [c \in Cases |-> "pass"]
  /\ blocked = [c \in Cases |-> FALSE]
  /\ reason = [c \in Cases |-> "none"]
  /\ resource = [c \in Cases |-> FALSE]
  /\ exit = TRUE
  /\ verdict = "none"

-----------------------------------------------------------------------------
(* Go's Main runs no test if the scope or the run id is no path segment.   *)
Configure ==
  /\ run = "new"
  /\ \/ run' = "running" /\ UNCHANGED exit
     \/ engine = "go" /\ run' = "ended" /\ exit' = FALSE
  /\ UNCHANGED <<engine, broken, place, phase, status, blocked, reason, resource, verdict>>

InPhase(c) == place[c] \in Phases

(* Cases that are judged without a lifecycle; only Python knows faces.     *)
NoLifecycle == broken \cup {c \in NoFace : engine = "python"}

(* The case's turn: it enters its lifecycle, or is judged without it.      *)
BeginCase(c) ==
  /\ run = "running" /\ place[c] = "todo"
  /\ engine = "python" => \A d \in Cases : ~InPhase(d)
  /\ \/ /\ c \in NoLifecycle
        /\ place' = [place EXCEPT ![c] = "over"]
        /\ status' = [status EXCEPT ![c] = IF c \in broken THEN "error" ELSE "skipped"]
     \/ /\ c \notin NoLifecycle
        /\ place' = [place EXCEPT ![c] = "prepare"]
        /\ UNCHANGED status
  /\ UNCHANGED <<engine, broken, run, phase, blocked, reason, resource, exit, verdict>>

(* Whether the lifecycle calls the phase it is at: prepare and cleanup if  *)
(* defined, execute and judge unless an earlier phase blocks them.         *)
RunsUnlessBlocked(c, p) ==  \* mutant: a blocked case is not cleaned up
  p \in Plan[c] /\ ~blocked[c]

Runs(c, p) == p \in Plan[c] /\ (p \in {"execute", "judge"} => ~blocked[c])

SkipOverridesFail(c, p, s) ==  \* mutant: the precedence of fail is lost
  /\ status' = [status EXCEPT ![c] =
       IF s = "error" THEN "error" ELSE IF s # "pass" /\ status[c] # "error" THEN s
       ELSE status[c]]
  /\ reason' = [reason EXCEPT ![c] =
       IF s # "pass" /\ (reason[c] = "none" \/ s = "error") THEN p ELSE reason[c]]
  /\ blocked' = [blocked EXCEPT ![c] = @ \/ (s # "pass" /\ p # "cleanup")]

(* apply / applyPhase: fold one phase's status into the case.              *)
Apply(c, p, s) ==
  /\ status' = [status EXCEPT ![c] =
       IF s = "error" \/ (s = "fail" /\ status[c] # "error")
                      \/ (s = "skipped" /\ status[c] = "pass") THEN s ELSE status[c]]
  /\ reason' = [reason EXCEPT ![c] =
       IF s # "pass" /\ (reason[c] = "none" \/ s = "error") THEN p ELSE reason[c]]
  /\ blocked' = [blocked EXCEPT ![c] = @ \/ (s # "pass" /\ p # "cleanup")]

(* One phase the lifecycle calls, with the status _run_phase / runPhase    *)
(* makes of how the step ended.  Prepare may leave its resource behind     *)
(* whatever its status; only a cleanup that passes is known to remove it.  *)
RunPhase(c, s) ==
  LET p == place[c] IN
  /\ InPhase(c) /\ Runs(c, p)
  /\ phase' = [phase EXCEPT ![c][p] = s]
  /\ Apply(c, p, s)
  /\ \/ p = "prepare" /\ s # "pass" /\ UNCHANGED resource
     \/ p = "prepare" /\ resource' = [resource EXCEPT ![c] = TRUE]
     \/ p = "cleanup" /\ resource' = [resource EXCEPT ![c] = (s # "pass") /\ @]
     \/ p \in {"execute", "judge"} /\ UNCHANGED resource
  /\ place' = [place EXCEPT ![c] = Order(c)]
  /\ UNCHANGED <<engine, broken, run, exit, verdict>>

(* A phase that is not called leaves no trace, except that a judge that is *)
(* blocked is listed as skipped; neither counts for the case's status.     *)
PassOver(c) ==
  LET p == place[c] IN
  /\ InPhase(c) /\ ~Runs(c, p)
  /\ phase' = [phase EXCEPT ![c][p] = IF p = "judge" /\ p \in Plan[c] THEN "blocked" ELSE "none"]
  /\ place' = [place EXCEPT ![c] = Order(c)]
  /\ UNCHANGED <<engine, broken, run, status, blocked, reason, resource, exit, verdict>>

(* The step unwinds: no PhaseResult, no later phase, no CaseRun.  Python   *)
(* leaves run_experiment with it; in Go the subtest ends, as failed or     *)
(* (t.SkipNow) as skipped.                                                 *)
Unwind(c) ==
  /\ Unwinds
  /\ InPhase(c) /\ Runs(c, place[c])
  /\ place' = [place EXCEPT ![c] = "unwound"]
  /\ resource' \in {resource, [resource EXCEPT ![c] = (place[c] = "prepare") \/ @]}
  /\ run' = IF engine = "python" THEN "aborted" ELSE run
  /\ exit' \in (IF engine = "go" THEN {exit, FALSE} ELSE {exit})
  /\ UNCHANGED <<engine, broken, phase, status, blocked, reason, verdict>>

(* testrun.Run.Assert: record the result, then tell go test.  (Python's    *)
(* list of CaseRuns grows by one.)                                         *)
Record(c) ==
  /\ place[c] = "over"
  /\ place' = [place EXCEPT ![c] = "recorded"]
  /\ exit' = (exit /\ status[c] \notin {"fail", "error"})
  /\ UNCHANGED <<engine, broken, run, phase, status, blocked, reason, resource, verdict>>

RollupPassFirst(S) ==  \* mutant: fail and pass swapped in the precedence
  IF "error" \in S THEN "error" ELSE IF "pass" \in S THEN "pass"
  ELSE IF "fail" \in S THEN "fail" ELSE "skipped"

(* rollup_status / rollup over the statuses present.                       *)
Rollup(S) ==
  IF "error" \in S THEN "error" ELSE IF "fail" \in S THEN "fail"
  ELSE IF "pass" \in S THEN "pass" ELSE "skipped"

Recorded == {c \in Cases : place[c] = "recorded"}

(* build_run_verdict after the last case; Go's Finish writes nothing if no *)
(* case was recorded, and a verdict that cannot be written fails the run.  *)
Finish ==
  /\ run = "running"
  /\ \A c \in Cases : place[c] \in {"recorded", "unwound"}
  /\ run' = "ended"
  /\ \/ /\ Recorded # {} \/ engine = "python"
        /\ verdict' = Rollup({status[c] : c \in Recorded})
        /\ UNCHANGED exit
     \/ engine = "go" /\ Recorded = {} /\ UNCHANGED <<verdict, exit>>
     \/ engine = "go" /\ Recorded # {} /\ exit' = FALSE /\ UNCHANGED verdict
  /\ UNCHANGED <<engine, broken, place, phase, status, blocked, reason, resource>>

Over == run \in {"ended", "aborted"} /\ UNCHANGED vars

Step(c) ==
  /\ run = "running"
  /\ \/ BeginCase(c)
     \/ \E s \in Statuses : RunPhase(c, s)
     \/ PassOver(c) \/ Unwind(c) \/ Record(c)

CaseNext == Configure \/ (\E c \in Cases : Step(c)) \/ Finish \/ Over

CaseSpec == CaseInit /\ [][CaseNext]_vars
-----------------------------------------------------------------------------
TypeOK ==
  /\ engine \in Engines /\ broken \in SUBSET Broken
  /\ run \in {"new", "running", "aborted", "ended"}
  /\ place \in [Cases -> Phases \cup {"todo", "over", "recorded", "unwound"}]
  /\ phase \in [Cases -> [Phases -> Statuses \cup {"none", "blocked"}]]
  /\ status \in [Cases -> Statuses]
  /\ blocked \in [Cases -> BOOLEAN]
  /\ reason \in [Cases -> Phases \cup {"none"}]
  /\ resource \in [Cases -> BOOLEAN]
  /\ exit \in BOOLEAN
  /\ verdict \in Statuses \cup {"none"}

Counted(c) == {phase[c][p] : p \in Phases}

(* A case's status is the worst of the phases that counted, worse being    *)
(* error, then fail, then skipped: no later phase hides an earlier one.    *)
StatusIsWorst ==
  \A c \in Cases \ NoLifecycle :
    /\ status[c] = "error" <=> "error" \in Counted(c)
    /\ status[c] = "fail" <=> "fail" \in Counted(c) /\ "error" \notin Counted(c)
    /\ status[c] = "pass" <=> Counted(c) \cap {"error", "fail", "skipped"} = {}

(* A case that is over and passed was executed and, if it defines a judge, *)
(* judged: a pass never comes from phases that were passed over.           *)
PassMeansJudged ==
  \A c \in Cases :
    place[c] \in {"over", "recorded"} /\ status[c] = "pass" =>
      \A p \in Plan[c] : phase[c][p] = "pass"

(* An error verdict quotes a phase that errored, whatever failed first.    *)
ErrorIsExplained ==
  \A c \in Cases : reason[c] # "none" =>
    /\ phase[c][reason[c]] \in {"fail", "error", "skipped"}
    /\ status[c] = "error" => phase[c][reason[c]] = "error"

(* What a case's result says of it: the worst that happened, a pass only   *)
(* for work that was judged, and an error by the phase that errored.       *)
OutcomeIsHonest == TypeOK /\ StatusIsWorst /\ PassMeansJudged /\ ErrorIsExplained

(* The judge runs only on what an execute that passed left for it, and     *)
(* cleanup runs in every case that is over, blocked or not.                *)
PhaseOrder ==
  \A c \in Cases :
    /\ phase[c]["judge"] \in Statuses => phase[c]["execute"] = "pass"
    /\ place[c] \in {"over", "recorded"} /\ c \notin NoLifecycle /\ "cleanup" \in Plan[c]
         => phase[c]["cleanup"] \in Statuses

(* A verdict that is written agrees with every case that got a result: it  *)
(* is no pass while a case failed, and Go's exit code is 0 only if the     *)
(* verdict is a pass or skipped.                                           *)
VerdictIsHonest ==
  run = "ended" /\ verdict # "none" =>
    /\ verdict = "pass" => \A c \in Cases : place[c] = "recorded" => status[c] \in {"pass", "skipped"}
    /\ engine = "go" /\ exit => verdict \in {"pass", "skipped"}

=============================================================================
