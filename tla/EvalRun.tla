------------------------------ MODULE EvalRun -------------------------------
(***************************************************************************)
(* One evaluation experiment run, crashed, interrupted and run again:      *)
(* run_experiment (engine.py), the reconciler that fills the worksheet     *)
(* (schedule/reconcile.py), the worksheet's cells (worksheet/worksheet.py) *)
(* and the checkpointer that saves it (worksheet/checkpoint.py).           *)
(*                                                                         *)
(* All of it is one event loop: a step is the code between two awaits.     *)
(* The gates and retries of _attempt are RateGate's subject; here a gated  *)
(* call just returns or raises at some later step.  One experiment is run, *)
(* so the hash checks of run_experiment and ReconcileEngine.run pass.      *)
(***************************************************************************)
EXTENDS Naturals, FiniteSets

CONSTANTS
  Keys,        \* provision keys (arm x corpus)
  Rows,        \* worksheet rows (arm x corpus x case)
  KeyOf,       \* the key a row is provisioned under
  Metrics,     \* Worksheet.metric_names
  Known,       \* the metrics the engine was given
  Teardown,    \* run_experiment(teardown=...)
  AllowFresh,  \* whether a run may be started with fresh=True
  MaxFaults,   \* bound on crashes, interrupts, disk faults, raising calls, fresh runs
  MaxAnswers,  \* bound on the answers the SUT produces for a row
  NoFile       \* no checkpoint was saved yet

ASSUME EvalAssumption ==
  /\ KeyOf \in [Rows -> Keys]
  /\ Known \subseteq Metrics
  /\ Teardown \in BOOLEAN /\ AllowFresh \in BOOLEAN
  /\ MaxFaults \in Nat /\ MaxAnswers \in Nat \ {0}

VARIABLES
  ws,       \* the worksheet in memory
  file,     \* worksheet.jsonl: a saved worksheet, or NoFile
  mode,     \* where run_experiment is; "down" when no process runs
  raised,   \* an exception is on its way out of the `async with` block
  fresh,    \* this run was started with fresh=True and has not saved yet
  loop,     \* the checkpointer's task: "run", "done" or "died"
  ptask,    \* the _provision task of each key
  rtask,    \* the _row_chain task of each row
  stask,    \* the _score_one task of each row and metric
  sample,   \* the answer each row's score tasks were handed
  subject,  \* external: the resource that exists for a key, 0 if none
  made,     \* external: the resources ever made for a key
  stored,   \* external: the answer the SUT keeps for a row, 0 if none
  disk,     \* external: TRUE iff the checkpoint can be written
  faults    \* how much of MaxFaults is used up

tasks == <<ptask, rtask, stask, sample>>
world == <<subject, made, stored, disk>>
vars  == <<ws, file, mode, raised, fresh, loop, tasks, world, faults>>



CellStates == {"pending", "ok", "failed"}

(* Worksheet.build                                                         *)
BlankSheet ==
  [prov  |-> [k \in Keys |-> [state |-> "pending", subject |-> 0]],
   solve |-> [r \in Rows |-> [state |-> "pending", answer |-> 0]],
   score |-> [r \in Rows |-> [m \in Metrics |-> [state |-> "pending", basis |-> 0]]]]

NoTasks ==
  /\ ptask' = [k \in Keys |-> "none"]
  /\ rtask' = [r \in Rows |-> "none"]
  /\ stask' = [r \in Rows |-> [m \in Metrics |-> "none"]]
  /\ sample' = [r \in Rows |-> 0]

Fault == faults < MaxFaults /\ faults' = faults + 1

Init ==
  /\ ws = BlankSheet /\ file = NoFile
  /\ mode = "down" /\ raised = FALSE /\ fresh = FALSE /\ loop = "done"
  /\ ptask = [k \in Keys |-> "none"]
  /\ rtask = [r \in Rows |-> "none"]
  /\ stask = [r \in Rows |-> [m \in Metrics |-> "none"]]
  /\ sample = [r \in Rows |-> 0]
  /\ subject = [k \in Keys |-> 0] /\ made = [k \in Keys |-> 0]
  /\ stored = [r \in Rows |-> 0]
  /\ disk = TRUE /\ faults = 0

-----------------------------------------------------------------------------
(* run_experiment up to the first await: load the checkpoint or build the  *)
(* sheet, start the checkpointer, create the pending _provision tasks.     *)
LoadReSolving(startFresh) ==  \* mutant: the solve cells are not restored
  IF startFresh \/ file = NoFile THEN BlankSheet ELSE [file EXCEPT !.solve = BlankSheet.solve]

LoadDiscarding(startFresh) == BlankSheet  \* mutant: the checkpoint is ignored

Load(startFresh) == IF startFresh \/ file = NoFile THEN BlankSheet ELSE file

Start(startFresh) ==
  /\ mode = "down"
  /\ \/ startFresh /\ AllowFresh /\ Fault
     \/ ~startFresh /\ UNCHANGED faults
  /\ ws' = Load(startFresh)
  /\ fresh' = startFresh
  /\ mode' = "provision" /\ raised' = FALSE /\ loop' = "run"
  /\ ptask' = [k \in Keys |-> IF ws'.prov[k].state = "ok" THEN "none" ELSE "preparing"]
  /\ UNCHANGED <<file, rtask, stask, sample, world>>

Running == mode # "down"

(* External: prepare() makes the key's resource, or finds the one it made  *)
(* (the Provisioner contract: prepare MUST be idempotent).                 *)
ResourceMade(k) ==
  /\ ptask[k] = "preparing" /\ subject[k] = 0
  /\ made' = [made EXCEPT ![k] = @ + 1]
  /\ subject' = [subject EXCEPT ![k] = made'[k]]
  /\ UNCHANGED <<ws, file, mode, raised, fresh, loop, tasks, stored, disk, faults>>

PrepareReturns(k) ==
  /\ ptask[k] = "preparing" /\ subject[k] # 0
  /\ ws' = [ws EXCEPT !.prov[k] = [state |-> "ok", subject |-> subject[k]]]
  /\ ptask' = [ptask EXCEPT ![k] = "none"]
  /\ UNCHANGED <<file, mode, raised, fresh, loop, rtask, stask, sample, world, faults>>

PrepareRaises(k) ==
  /\ Fault
  /\ ptask[k] = "preparing"
  /\ ws' = [ws EXCEPT !.prov[k].state = "failed"]
  /\ ptask' = [ptask EXCEPT ![k] = "none"]
  /\ UNCHANGED <<file, mode, raised, fresh, loop, rtask, stask, sample, world>>

(* The barrier of run(): rows start when every _provision task has ended.  *)
RowsStart ==
  /\ mode = "provision" /\ \A k \in Keys : ptask[k] = "none"
  /\ mode' = "rows"
  /\ rtask' = [r \in Rows |-> "ready"]
  /\ UNCHANGED <<ws, file, raised, fresh, loop, ptask, stask, sample, world, faults>>

-----------------------------------------------------------------------------
(* The tail of _row_chain, from row.to_sample(): a score task for every    *)
(* metric cell that is not OK.                                             *)
ScoreTasks(r) ==
  /\ rtask' = [rtask EXCEPT ![r] = "scoring"]
  /\ sample' = [sample EXCEPT ![r] = ws'.solve[r].answer]
  /\ stask' = [stask EXCEPT ![r] =
       [m \in Metrics |-> IF ws.score[r][m].state = "ok" THEN "none" ELSE "ready"]]

RowBeginsPendingOnly(r) ==  \* mutant: a FAILED solve is not tried again
  /\ rtask[r] = "ready"
  /\ \/ /\ ws.prov[KeyOf[r]].state # "ok" \/ ws.solve[r].state = "failed"
        /\ rtask' = [rtask EXCEPT ![r] = "none"]
        /\ UNCHANGED <<ws, sample, stask>>
     \/ /\ ws.prov[KeyOf[r]].state = "ok" /\ ws.solve[r].state = "pending"
        /\ rtask' = [rtask EXCEPT ![r] = "fetching"]
        /\ UNCHANGED <<ws, sample, stask>>
     \/ /\ ws.prov[KeyOf[r]].state = "ok" /\ ws.solve[r].state = "ok"
        /\ UNCHANGED ws
        /\ ScoreTasks(r)
  /\ UNCHANGED <<file, mode, raised, fresh, loop, ptask, world, faults>>

RowBegins(r) ==
  /\ rtask[r] = "ready"
  /\ \/ /\ ws.prov[KeyOf[r]].state # "ok"
        /\ rtask' = [rtask EXCEPT ![r] = "none"]
        /\ UNCHANGED <<ws, sample, stask>>
     \/ /\ ws.prov[KeyOf[r]].state = "ok" /\ ws.solve[r].state # "ok"
        /\ rtask' = [rtask EXCEPT ![r] = "fetching"]
        /\ UNCHANGED <<ws, sample, stask>>
     \/ /\ ws.prov[KeyOf[r]].state = "ok" /\ ws.solve[r].state = "ok"
        /\ UNCHANGED ws
        /\ ScoreTasks(r)
  /\ UNCHANGED <<file, mode, raised, fresh, loop, ptask, world, faults>>

Solved(r, v) ==
  /\ ws' = [ws EXCEPT !.solve[r] = [state |-> "ok", answer |-> v]]
  /\ ScoreTasks(r)

(* _fetch_or_solve: an answer the SUT still keeps is reused, ...           *)
FetchHits(r) ==
  /\ rtask[r] = "fetching" /\ stored[r] # 0
  /\ Solved(r, stored[r])
  /\ UNCHANGED <<file, mode, raised, fresh, loop, ptask, world, faults>>

(* ... otherwise (or if the solver cannot find it) solve is called.        *)
FetchMisses(r) ==
  /\ rtask[r] = "fetching" /\ stored[r] < MaxAnswers
  /\ rtask' = [rtask EXCEPT ![r] = "solving"]
  /\ UNCHANGED <<ws, file, mode, raised, fresh, loop, ptask, stask, sample, world, faults>>

(* External: the resource the sheet names exists.  Nothing provisions an   *)
(* OK cell again, so after a clean it is gone for every later run.         *)
Live(r) == LET k == KeyOf[r] IN subject[k] # 0 /\ ws.prov[k].subject = subject[k]

(* Each solve call that reaches the SUT produces a new answer; one about a *)
(* resource that teardown cleaned has nobody to answer it.                 *)
SolveReturns(r) ==
  /\ rtask[r] = "solving" /\ Live(r)
  /\ stored' = [stored EXCEPT ![r] = @ + 1]
  /\ Solved(r, stored'[r])
  /\ UNCHANGED <<file, mode, raised, fresh, loop, ptask, subject, made, disk, faults>>

(* fetch or the last attempt of solve raised; the SUT may have answered.   *)
SolveRaises(r) ==
  /\ \/ Fault
     \/ rtask[r] = "solving" /\ ~Live(r) /\ UNCHANGED faults
  /\ rtask[r] \in {"fetching", "solving"}
  /\ \/ UNCHANGED stored
     \/ rtask[r] = "solving" /\ Live(r) /\ stored' = [stored EXCEPT ![r] = @ + 1]
  /\ ws' = [ws EXCEPT !.solve[r] = [state |-> "failed", answer |-> 0]]
  /\ rtask' = [rtask EXCEPT ![r] = "none"]
  /\ UNCHANGED <<file, mode, raised, fresh, loop, ptask, stask, sample, subject, made, disk>>

-----------------------------------------------------------------------------
SetScore(r, m, s) ==
  /\ ws' = [ws EXCEPT !.score[r][m] =
                [state |-> s, basis |-> IF s = "ok" THEN sample[r] ELSE 0]]
  /\ stask' = [stask EXCEPT ![r][m] = "none"]

(* _score_one up to its await: an unknown metric fails, one that does not  *)
(* apply abstains (an OK cell), any other is called.                       *)
ScoreBegins(r, m) ==
  /\ stask[r][m] = "ready"
  /\ \/ m \notin Known /\ SetScore(r, m, "failed")
     \/ m \in Known /\ SetScore(r, m, "ok")
     \/ /\ m \in Known
        /\ stask' = [stask EXCEPT ![r][m] = "calling"]
        /\ UNCHANGED ws
  /\ UNCHANGED <<file, mode, raised, fresh, loop, ptask, rtask, sample, world, faults>>

ScoreEnds(r, m) ==
  /\ stask[r][m] = "calling"
  /\ \/ SetScore(r, m, "ok") /\ UNCHANGED faults
     \/ SetScore(r, m, "failed") /\ Fault
  /\ UNCHANGED <<file, mode, raised, fresh, loop, ptask, rtask, sample, world>>

(* applies_to is called outside the try of _score_one: if it raises, the   *)
(* two gathers pass the exception on at once and run() raises, while the   *)
(* other tasks keep running until the process ends.                        *)
AppliesToRaises(r, m) ==
  /\ Fault
  /\ stask[r][m] = "ready" /\ m \in Known
  /\ stask' = [stask EXCEPT ![r][m] = "none"]
  /\ mode' = IF mode = "rows" THEN "exit" ELSE mode
  /\ raised' = (raised \/ mode = "rows")
  /\ UNCHANGED <<ws, file, fresh, loop, ptask, rtask, sample, world>>

RowDone(r) ==
  \/ rtask[r] = "none"
  \/ rtask[r] = "scoring" /\ \A m \in Metrics : stask[r][m] = "none"

RowsEnd ==
  /\ mode = "rows" /\ \A r \in Rows : RowDone(r)
  /\ mode' = "exit"
  /\ UNCHANGED <<ws, file, raised, fresh, loop, tasks, world, faults>>

(* Ctrl-C or a cancelled caller: every task is cancelled; CancelledError   *)
(* is no Exception, so no cell is marked, and __aexit__ still runs.        *)
Interrupt ==
  /\ Fault
  /\ mode \in {"provision", "rows"}
  /\ mode' = "exit" /\ raised' = TRUE
  /\ NoTasks
  /\ UNCHANGED <<ws, file, fresh, loop, world>>

-----------------------------------------------------------------------------
Save == file' = ws /\ fresh' = FALSE

(* One turn of Checkpointer._loop: the interval passed or stop was set.    *)
(* An OSError from flush ends the task; nobody looks at it before exit.    *)
LoopFlush ==
  /\ Running /\ loop = "run"
  /\ \/ disk /\ Save /\ loop' = IF mode = "exit" THEN "done" ELSE "run"
     \/ ~disk /\ loop' = "died" /\ UNCHANGED <<file, fresh>>
  /\ UNCHANGED <<ws, mode, raised, tasks, world, faults>>

ExitUnflushed ==  \* mutant: no flush once more on exit
  /\ mode = "exit"
  /\ mode' = IF raised THEN "down" ELSE "report"
  /\ NoTasks
  /\ UNCHANGED <<ws, file, fresh, raised, loop, world, faults>>

(* __aexit__ with the loop's task over: its exception is re-raised by the  *)
(* await and skips the last flush; else flush once more.  What leaves the  *)
(* block with an exception ends the process (left-over tasks cancelled).   *)
Exit ==
  /\ mode = "exit" /\ loop # "run"
  /\ \/ /\ loop = "done" /\ disk
        /\ Save
        /\ mode' = IF raised THEN "down" ELSE "report"
        /\ IF raised THEN NoTasks ELSE UNCHANGED tasks
     \/ /\ loop = "died" \/ ~disk
        /\ mode' = "down"
        /\ NoTasks
        /\ UNCHANGED <<file, fresh>>
  /\ UNCHANGED <<ws, raised, loop, world, faults>>

(* write_reports, write_verdict and the last to_jsonl of run_experiment.   *)
Report ==
  /\ mode = "report"
  /\ \/ disk /\ Save /\ mode' = IF Teardown THEN "teardown" ELSE "down"
     \/ ~disk /\ mode' = "down" /\ UNCHANGED <<file, fresh>>
  /\ NoTasks
  /\ UNCHANGED <<ws, raised, loop, world, faults>>

Cleanable(k) == ws.prov[k].state = "ok" /\ ws.prov[k].subject # 0

(* teardown_provisions: clean is best-effort, the checkpoint stays as is.  *)
TearDown ==
  /\ mode = "teardown"
  /\ \E cleaned \in SUBSET {k \in Keys : Cleanable(k)} :
        subject' = [k \in Keys |-> IF k \in cleaned THEN 0 ELSE subject[k]]
  /\ mode' = "down"
  /\ UNCHANGED <<ws, file, raised, fresh, loop, tasks, made, stored, disk, faults>>

Crash ==
  /\ Fault
  /\ Running
  /\ mode' = "down" /\ ws' = BlankSheet  \* the memory is gone
  /\ NoTasks
  /\ UNCHANGED <<file, raised, fresh, loop, world>>

DiskFails    == Fault /\ disk /\ disk' = FALSE
                /\ UNCHANGED <<ws, file, mode, raised, fresh, loop, tasks, subject, made, stored>>
DiskRecovers == ~disk /\ disk' = TRUE
                /\ UNCHANGED <<ws, file, mode, raised, fresh, loop, tasks, subject, made, stored, faults>>

ProvisionStep(k) == ResourceMade(k) \/ PrepareReturns(k) \/ PrepareRaises(k)
RowStep(r) == RowBegins(r) \/ FetchHits(r) \/ FetchMisses(r) \/ SolveReturns(r) \/ SolveRaises(r)
ScoreStep(r, m) == ScoreBegins(r, m) \/ ScoreEnds(r, m) \/ AppliesToRaises(r, m)

Next ==
  \/ \E f \in BOOLEAN : Start(f)
  \/ \E k \in Keys : ProvisionStep(k)
  \/ RowsStart
  \/ \E r \in Rows : RowStep(r)
  \/ \E r \in Rows, m \in Metrics : ScoreStep(r, m)
  \/ RowsEnd \/ Interrupt \/ LoopFlush \/ Exit \/ Report \/ TearDown
  \/ Crash \/ DiskFails \/ DiskRecovers

Spec == Init /\ [][Next]_vars

(* Scheduling: ready tasks run, timers fire, an outage of the disk ends.   *)
EngineFairness ==
  /\ WF_vars(RowsStart) /\ WF_vars(RowsEnd) /\ WF_vars(LoopFlush) /\ WF_vars(Exit)
  /\ WF_vars(Report) /\ WF_vars(TearDown) /\ WF_vars(DiskRecovers)
  /\ \A r \in Rows : WF_vars(RowStep(r))
  /\ \A r \in Rows, m \in Metrics : WF_vars(ScoreStep(r, m))

(* prepare() ends too, and the user runs the experiment again.             *)
FairSpec == Spec /\ EngineFairness /\ (\A k \in Keys : WF_vars(ProvisionStep(k))) /\ WF_vars(Start(FALSE))
-----------------------------------------------------------------------------
Sheets ==
  [prov  : [Keys -> [state : CellStates, subject : Nat]],
   solve : [Rows -> [state : CellStates, answer : Nat]],
   score : [Rows -> [Metrics -> [state : CellStates, basis : Nat]]]]

(* A missing checkpoint is told from every saved one.                      *)
ASSUME NoFileAssumption == NoFile \notin Sheets

TypeOK ==
  /\ ws \in Sheets
  /\ file \in Sheets \cup {NoFile}
  /\ mode \in {"down", "provision", "rows", "exit", "report", "teardown"}
  /\ raised \in BOOLEAN /\ fresh \in BOOLEAN /\ disk \in BOOLEAN
  /\ loop \in {"run", "done", "died"}
  /\ ptask \in [Keys -> {"none", "preparing"}]
  /\ rtask \in [Rows -> {"none", "ready", "fetching", "solving", "scoring"}]
  /\ stask \in [Rows -> [Metrics -> {"none", "ready", "calling"}]]
  /\ sample \in [Rows -> Nat]
  /\ subject \in [Keys -> Nat] /\ made \in [Keys -> Nat] /\ stored \in [Rows -> Nat]
  /\ faults \in 0 .. MaxFaults

(* Every score on a sheet was computed from the answer now in its row: in  *)
(* memory, on disk, and after any number of crashes, re-runs, repeated and *)
(* reused SUT answers.                                                     *)
ScoresMatchAnswers(sheet) ==
  \A r \in Rows, m \in Metrics : sheet.score[r][m].state = "ok" =>
    /\ sheet.solve[r].state = "ok"
    /\ sheet.score[r][m].basis = sheet.solve[r].answer

ScoreBasis == ScoresMatchAnswers(ws) /\ (file # NoFile => ScoresMatchAnswers(file))

(* Every key provisioned; every row solved and scored by the metrics the   *)
(* engine knows, or unsolved on a resource that was cleaned under it.      *)
Stranded(sheet, r) == LET k == KeyOf[r] IN sheet.prov[k].subject # subject[k]
SettledRow(sheet, r) ==
  \/ /\ sheet.solve[r].state = "ok"
     /\ \A m \in Metrics \cap Known : sheet.score[r][m].state = "ok"
  \/ sheet.solve[r].state # "ok" /\ Teardown /\ Stranded(sheet, r)
Settled(sheet) ==
  /\ \A k \in Keys : sheet.prov[k].state = "ok"
  /\ \A r \in Rows : SettledRow(sheet, r)

(* A run that gets as far as its reports has tried everything it could:    *)
(* what is still open hangs off a cell that was tried and failed.          *)
NothingSkipped ==
  mode = "report" =>
    /\ \A k \in Keys : ws.prov[k].state # "pending"
    /\ \A r \in Rows :
         /\ ws.solve[r].state = "pending" => ws.prov[KeyOf[r]].state = "failed"
         /\ ws.solve[r].state = "ok" =>
              \A m \in Metrics : ws.score[r][m].state # "pending"

(* The worksheet between any two awaits: no score of another answer, and   *)
(* no gap that nobody tried to fill.                                       *)
SheetIsSound == TypeOK /\ ScoreBasis /\ NothingSkipped

(* The SUT is only asked about a resource that exists: the subject the row *)
(* is solved against is the one its key's provision made and still has.    *)
SolvesOnLiveSubject ==
  [][\A r \in Rows : rtask[r] # "fetching" /\ rtask'[r] = "fetching"
        => LET k == KeyOf[r] IN subject[k] # 0 /\ ws.prov[k].subject = subject[k]]_vars

OkCells(sheet) ==
  {<<"prov", k>> : k \in {x \in Keys : sheet.prov[x].state = "ok"}} \cup
  {<<"solve", r>> : r \in {x \in Rows : sheet.solve[x].state = "ok"}} \cup
  UNION {{<<"score", r, m>> : m \in {x \in Metrics : sheet.score[r][x].state = "ok"}} : r \in Rows}

(* A run that ends by itself, with an exception or by Ctrl-C on a disk     *)
(* that works, and whose checkpointer is alive, leaves all it did on disk. *)
EndKeepsWork ==
  [][mode # "down" /\ mode' = "down" /\ disk /\ loop # "died"
        => OkCells(ws') \subseteq OkCells(IF file' = NoFile THEN BlankSheet ELSE file')]_vars

(* Faults are finite and the user keeps re-running: in the end every row   *)
(* is solved and scored on disk, so no gap is given up, but for the rows   *)
(* that were unsolved when a teardown cleaned the resource of their OK     *)
(* provision cell: no later run provisions it again, and none solves them. *)
EventuallyComplete == <>[](file # NoFile /\ Settled(file))

(* The checkpoint file implements the abstract promise.                    *)
AllCells == OkCells([prov  |-> [k \in Keys |-> [state |-> "ok"]],
                     solve |-> [r \in Rows |-> [state |-> "ok"]],
                     score |-> [r \in Rows |-> [m \in Metrics |-> [state |-> "ok"]]]])
NeededBy(c) ==
  IF c[1] = "prov" THEN {} ELSE
  IF c[1] = "solve" THEN {<<"prov", KeyOf[c[2]]>>} ELSE {<<"solve", c[2]>>}
OnDisk == IF file = NoFile THEN {} ELSE OkCells(file)

Abstract == INSTANCE DurableProgress
  WITH Cells <- AllCells, Needs <- NeededBy, done <- OnDisk, discard <- fresh
ImplementsProgress == Abstract!ProgressSpec
=============================================================================
