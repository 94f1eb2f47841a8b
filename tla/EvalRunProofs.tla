--------------------------- MODULE EvalRunProofs ----------------------------
(***************************************************************************)
(* Safety of an evaluation run, for every set of keys, rows and metrics    *)
(* and every number of crashes, interrupts, disk faults and re-runs: no    *)
(* score of another answer, no gap nobody tried to fill, no work lost by a *)
(* run that ends, and the checkpoint file implements DurableProgress.      *)
(*                                                                         *)
(* EvalInv is the inductive invariant.  It adds what ties a task to the    *)
(* cells it was created for, and what ties the file to the worksheet in    *)
(* memory.                                                                 *)
(***************************************************************************)
EXTENDS EvalRun, TLAPS

(* A sheet whose cells are closed under what they were computed from.      *)
Sound(sheet) ==
  /\ ScoresMatchAnswers(sheet)
  /\ \A r \in Rows : sheet.solve[r].state = "ok" => sheet.prov[KeyOf[r]].state = "ok"

(* Every OK cell of one sheet is OK in the other.                          *)
Extends(sheet, other) ==
  /\ \A k \in Keys : sheet.prov[k].state = "ok" => other.prov[k].state = "ok"
  /\ \A r \in Rows : sheet.solve[r].state = "ok" => other.solve[r].state = "ok"
  /\ \A r \in Rows, m \in Metrics :
       sheet.score[r][m].state = "ok" => other.score[r][m].state = "ok"

SoundSheets == Sound(ws) /\ (file # NoFile => Sound(file))

(* A task exists only for a cell that is not OK, and a score task was      *)
(* handed the answer that is still in its row.                             *)
KeyTask(k) == ptask[k] = "preparing" => mode = "provision" /\ ws.prov[k].state # "ok"

RowTask(r) ==
  /\ rtask[r] # "none" => mode \in {"rows", "exit", "report"}
  /\ rtask[r] \in {"fetching", "solving"} =>
       ws.solve[r].state # "ok" /\ ws.prov[KeyOf[r]].state = "ok"
  /\ rtask[r] = "scoring" => ws.solve[r].state = "ok" /\ sample[r] = ws.solve[r].answer

ScoreTask(r, m) == stask[r][m] # "none" => rtask[r] = "scoring" /\ ws.score[r][m].state # "ok"

Tasks ==
  /\ \A k \in Keys : KeyTask(k)
  /\ \A r \in Rows : RowTask(r)
  /\ \A r \in Rows, m \in Metrics : ScoreTask(r, m)

(* Unless an exception is on its way out, a cell without a task was tried. *)
KeyTried(k) ==
  /\ mode = "provision" /\ ptask[k] = "none" => ws.prov[k].state # "pending"
  /\ mode \in {"rows", "exit", "report"} => ws.prov[k].state # "pending"

RowTried(r) ==
  mode \in {"rows", "exit", "report"} =>
    /\ rtask[r] = "none" =>
         /\ ws.solve[r].state # "ok"
         /\ ws.solve[r].state = "pending" => ws.prov[KeyOf[r]].state = "failed"
    /\ rtask[r] = "scoring" =>
         \A m \in Metrics : stask[r][m] = "none" => ws.score[r][m].state # "pending"
    /\ mode # "rows" => RowDone(r)

Tried ==
  /\ raised => mode \in {"down", "exit"}
  /\ ~raised => (\A k \in Keys : KeyTried(k)) /\ (\A r \in Rows : RowTried(r))

(* What a running process has loaded or saved it still has.                *)
Kept ==
  /\ mode # "down" /\ fresh = FALSE /\ file # NoFile => Extends(file, ws)
  /\ mode = "teardown" => file = ws

EvalInv == TypeOK /\ SoundSheets /\ Tasks /\ Tried /\ Kept

-----------------------------------------------------------------------------
(* What an update of one cell leaves of the sheet.                         *)
ProvCells == [state : CellStates, subject : Nat]
SolveCells == [state : CellStates, answer : Nat]
ScoreCells == [state : CellStates, basis : Nat]

LEMMA ProvSet ==
  ASSUME ws \in Sheets, NEW k \in Keys, NEW c \in ProvCells, ws' = [ws EXCEPT !.prov[k] = c]
  PROVE  /\ ws' \in Sheets /\ ws'.solve = ws.solve /\ ws'.score = ws.score
         /\ \A x \in Keys : ws'.prov[x] = IF x = k THEN c ELSE ws.prov[x]
  BY DEF Sheets, ProvCells

LEMMA ProvFailed ==
  ASSUME ws \in Sheets, NEW k \in Keys, ws' = [ws EXCEPT !.prov[k].state = "failed"]
  PROVE  /\ ws' \in Sheets /\ ws'.solve = ws.solve /\ ws'.score = ws.score
         /\ \A x \in Keys : x # k => ws'.prov[x] = ws.prov[x]
         /\ ws'.prov[k].state = "failed"
<1> DEFINE c == [ws.prov[k] EXCEPT !.state = "failed"]
<1>1. ws.prov[k] \in ProvCells
  BY DEF Sheets, ProvCells
<1>2. c \in ProvCells /\ c.state = "failed"
  BY <1>1 DEF ProvCells, CellStates
<1>3. ws' = [ws EXCEPT !.prov[k] = c]
  OBVIOUS
<1> HIDE DEF c
<1> QED
  BY <1>2, <1>3, ProvSet

LEMMA SolveSet ==
  ASSUME ws \in Sheets, NEW r \in Rows, NEW c \in SolveCells, ws' = [ws EXCEPT !.solve[r] = c]
  PROVE  /\ ws' \in Sheets /\ ws'.prov = ws.prov /\ ws'.score = ws.score
         /\ \A x \in Rows : ws'.solve[x] = IF x = r THEN c ELSE ws.solve[x]
  BY DEF Sheets, SolveCells

LEMMA ScoreSet ==
  ASSUME ws \in Sheets, NEW r \in Rows, NEW m \in Metrics, NEW c \in ScoreCells,
         ws' = [ws EXCEPT !.score[r][m] = c]
  PROVE  /\ ws' \in Sheets /\ ws'.prov = ws.prov /\ ws'.solve = ws.solve
         /\ \A x \in Rows, y \in Metrics :
              ws'.score[x][y] = IF x = r /\ y = m THEN c ELSE ws.score[x][y]
<1>1. ws.score \in [Rows -> [Metrics -> ScoreCells]]
  BY DEF Sheets, ScoreCells
<1>2. /\ ws'.prov = ws.prov /\ ws'.solve = ws.solve
      /\ ws'.score = [ws.score EXCEPT ![r][m] = c]
  BY DEF Sheets
<1>3. ws'.score \in [Rows -> [Metrics -> ScoreCells]]
  BY <1>1, <1>2
<1>4. \A x \in Rows, y \in Metrics :
        ws'.score[x][y] = IF x = r /\ y = m THEN c ELSE ws.score[x][y]
  BY <1>1, <1>2
<1>5. ws' \in Sheets
  BY <1>2, <1>3 DEF Sheets, ScoreCells
<1> QED
  BY <1>2, <1>4, <1>5

LEMMA Blank ==
  /\ BlankSheet \in Sheets /\ Sound(BlankSheet)
  /\ \A other : Extends(BlankSheet, other)
  BY DEF BlankSheet, Sheets, CellStates, Sound, ScoresMatchAnswers, Extends

-----------------------------------------------------------------------------
(* The three ways a running process changes its sheet: each fills a cell   *)
(* that was not OK, and leaves the others alone.                           *)
FillsProv(k) ==
  /\ ws' \in Sheets /\ ws'.solve = ws.solve /\ ws'.score = ws.score
  /\ \A x \in Keys : x # k => ws'.prov[x] = ws.prov[x]
  /\ mode = "provision" /\ ws.prov[k].state # "ok" /\ ws'.prov[k].state \in {"ok", "failed"}
  /\ ws'.prov[k].state = "ok" => subject[k] # 0 /\ ws'.prov[k].subject = subject[k]

FillsSolve(r) ==
  /\ ws' \in Sheets /\ ws'.prov = ws.prov /\ ws'.score = ws.score
  /\ \A x \in Rows : x # r => ws'.solve[x] = ws.solve[x]
  /\ ws.solve[r].state # "ok" /\ ws'.solve[r].state \in {"ok", "failed"}
  /\ ws.prov[KeyOf[r]].state = "ok"

FillsScore(r, m) ==
  /\ ws' \in Sheets /\ ws'.prov = ws.prov /\ ws'.solve = ws.solve
  /\ \A x \in Rows, y \in Metrics : x # r \/ y # m => ws'.score[x][y] = ws.score[x][y]
  /\ ws.score[r][m].state # "ok" /\ ws'.score[r][m].state \in {"ok", "failed"}
  /\ ws.solve[r].state = "ok"
  /\ ws'.score[r][m].state = "ok" => ws'.score[r][m].basis = ws.solve[r].answer

LEMMA PrepareFills ==
  ASSUME EvalInv, NEW k \in Keys, PrepareReturns(k) \/ PrepareRaises(k)
  PROVE  FillsProv(k)
<1>0. ws \in Sheets /\ subject[k] \in Nat /\ ptask[k] = "preparing" /\ KeyTask(k)
  BY DEF EvalInv, TypeOK, Tasks, PrepareReturns, PrepareRaises
<1>1. CASE PrepareReturns(k)
  <2>1. [state |-> "ok", subject |-> subject[k]] \in ProvCells
    BY <1>0 DEF ProvCells, CellStates
  <2>2. subject[k] # 0 /\ ws' = [ws EXCEPT !.prov[k] = [state |-> "ok", subject |-> subject[k]]]
    BY <1>1 DEF PrepareReturns
  <2>3. /\ ws' \in Sheets /\ ws'.solve = ws.solve /\ ws'.score = ws.score
        /\ \A x \in Keys :
             ws'.prov[x] = IF x = k THEN [state |-> "ok", subject |-> subject[k]] ELSE ws.prov[x]
    BY <1>0, <2>1, <2>2, ProvSet
  <2> QED
    BY <1>0, <2>2, <2>3 DEF FillsProv, KeyTask
<1>2. CASE PrepareRaises(k)
  <2>1. ws' = [ws EXCEPT !.prov[k].state = "failed"]
    BY <1>2 DEF PrepareRaises
  <2> QED
    BY <1>0, <2>1, ProvFailed DEF FillsProv, KeyTask
<1> QED
  BY <1>1, <1>2

LEMMA SolveFills ==
  ASSUME EvalInv, NEW r \in Rows, FetchHits(r) \/ SolveReturns(r) \/ SolveRaises(r)
  PROVE  /\ FillsSolve(r) /\ stored' \in [Rows -> Nat]
         /\ FetchHits(r) \/ SolveReturns(r) => ws'.solve[r].state = "ok" /\ ScoreTasks(r)
         /\ SolveRaises(r) => ws'.solve[r].state = "failed"
<1>0. ws \in Sheets /\ stored \in [Rows -> Nat] /\ rtask[r] \in {"fetching", "solving"} /\ RowTask(r)
  BY DEF EvalInv, TypeOK, Tasks, FetchHits, SolveReturns, SolveRaises
<1>1. stored' \in [Rows -> Nat]
  BY <1>0 DEF FetchHits, SolveReturns, SolveRaises, world
<1>2. ASSUME NEW v \in Nat, Solved(r, v)
      PROVE  FillsSolve(r) /\ ws'.solve[r].state = "ok" /\ ScoreTasks(r)
  <2>1. [state |-> "ok", answer |-> v] \in SolveCells
    BY DEF SolveCells, CellStates
  <2>2. ws' = [ws EXCEPT !.solve[r] = [state |-> "ok", answer |-> v]]
    BY <1>2 DEF Solved
  <2> QED
    BY <1>0, <1>2, <2>1, <2>2, SolveSet DEF FillsSolve, RowTask, Solved
<1>3. ASSUME FetchHits(r) \/ SolveReturns(r)
      PROVE  FillsSolve(r) /\ ws'.solve[r].state = "ok" /\ ScoreTasks(r)
  <2>1. CASE FetchHits(r)
    BY <1>0, <1>2, <2>1 DEF FetchHits
  <2>2. CASE SolveReturns(r)
    BY <1>1, <1>2, <2>2 DEF SolveReturns
  <2> QED
    BY <1>3, <2>1, <2>2
<1>4. ASSUME SolveRaises(r)
      PROVE  FillsSolve(r) /\ ws'.solve[r].state = "failed"
  <2>1. [state |-> "failed", answer |-> 0] \in SolveCells
    BY DEF SolveCells, CellStates
  <2>2. ws' = [ws EXCEPT !.solve[r] = [state |-> "failed", answer |-> 0]]
    BY <1>4 DEF SolveRaises
  <2> QED
    BY <1>0, <2>1, <2>2, SolveSet DEF FillsSolve, RowTask
<1> QED
  BY <1>1, <1>3, <1>4

LEMMA ScoreFills ==
  ASSUME EvalInv, NEW r \in Rows, NEW m \in Metrics, NEW s \in {"ok", "failed"},
         SetScore(r, m, s), stask[r][m] # "none"
  PROVE  FillsScore(r, m)
<1>0. /\ ws \in Sheets /\ sample[r] \in Nat /\ RowTask(r) /\ ScoreTask(r, m)
  BY DEF EvalInv, TypeOK, Tasks
<1> DEFINE c == [state |-> s, basis |-> IF s = "ok" THEN sample[r] ELSE 0]
<1>1. c \in ScoreCells
  BY <1>0 DEF ScoreCells, CellStates
<1>2. ws' = [ws EXCEPT !.score[r][m] = c]
  BY DEF SetScore
<1>3. c.state = s /\ (s = "ok" => c.basis = sample[r])
  OBVIOUS
<1> HIDE DEF c
<1>4. /\ ws' \in Sheets /\ ws'.prov = ws.prov /\ ws'.solve = ws.solve
      /\ \A x \in Rows, y \in Metrics :
           ws'.score[x][y] = IF x = r /\ y = m THEN c ELSE ws.score[x][y]
  BY <1>0, <1>1, <1>2, ScoreSet
<1> QED
  BY <1>0, <1>3, <1>4 DEF FillsScore, RowTask, ScoreTask

(* A sheet that was sound stays so, and no OK cell of it is lost.          *)
LEMMA FillsKeepSound ==
  ASSUME Sound(ws),
         \/ \E k \in Keys : FillsProv(k)
         \/ \E r \in Rows : FillsSolve(r)
         \/ \E r \in Rows, m \in Metrics : FillsScore(r, m)
  PROVE  Sound(ws)' /\ Extends(ws, ws')
<1>1. ASSUME NEW k \in Keys, FillsProv(k) PROVE Sound(ws)' /\ Extends(ws, ws')
  BY <1>1, EvalAssumption DEF Sound, ScoresMatchAnswers, Extends, FillsProv
<1>2. ASSUME NEW r \in Rows, FillsSolve(r) PROVE Sound(ws)' /\ Extends(ws, ws')
  BY <1>2 DEF Sound, ScoresMatchAnswers, Extends, FillsSolve
<1>3. ASSUME NEW r \in Rows, NEW m \in Metrics, FillsScore(r, m)
      PROVE  Sound(ws)' /\ Extends(ws, ws')
  BY <1>3 DEF Sound, ScoresMatchAnswers, Extends, FillsScore
<1> QED
  BY <1>1, <1>2, <1>3

KeepsSheet ==
  /\ UNCHANGED ws
  /\ mode = "down" => UNCHANGED mode
  /\ UNCHANGED fresh \/ file' = ws
  /\ mode' = "teardown" => mode = "teardown" \/ file' = ws

(* Every step, by what it does to the sheet in memory.                     *)
LEMMA SheetMoves ==
  ASSUME EvalInv, [Next]_vars
  PROVE  \/ KeepsSheet
         \/ mode = "down" /\ mode' = "provision" /\ UNCHANGED file
            /\ \E f \in BOOLEAN : ws' = Load(f) /\ fresh' = f
         \/ mode' = "down" /\ ws' = BlankSheet /\ UNCHANGED <<file, fresh>>
         \/ /\ UNCHANGED <<file, fresh, mode>> /\ mode # "teardown"
            /\ \/ \E k \in Keys : FillsProv(k)
               \/ \E r \in Rows : FillsSolve(r)
               \/ \E r \in Rows, m \in Metrics : FillsScore(r, m)
<1>1. ASSUME NEW f \in BOOLEAN, Start(f)
      PROVE  /\ mode = "down" /\ mode' = "provision" /\ UNCHANGED file
             /\ \E g \in BOOLEAN : ws' = Load(g) /\ fresh' = g
  BY <1>1 DEF Start
<1>2. ASSUME NEW k \in Keys, ProvisionStep(k)
      PROVE  KeepsSheet \/ (FillsProv(k) /\ UNCHANGED <<file, fresh, mode>> /\ mode # "teardown")
  <2>1. CASE ResourceMade(k)
    BY <2>1 DEF ResourceMade, KeepsSheet
  <2>2. CASE PrepareReturns(k) \/ PrepareRaises(k)
    <3>1. mode = "provision" /\ UNCHANGED <<file, fresh, mode>>
      BY <2>2 DEF PrepareReturns, PrepareRaises, EvalInv, Tasks, KeyTask
    <3> QED
      BY <2>2, <3>1, PrepareFills
  <2> QED
    BY <1>2, <2>1, <2>2 DEF ProvisionStep
<1>3. ASSUME NEW r \in Rows, RowStep(r)
      PROVE  KeepsSheet \/ (FillsSolve(r) /\ UNCHANGED <<file, fresh, mode>> /\ mode # "teardown")
  <2>1. CASE RowBegins(r) \/ FetchMisses(r)
    <3>1. UNCHANGED ws
      BY <2>1 DEF RowBegins, FetchMisses
    <3> QED
      BY <2>1, <3>1 DEF RowBegins, FetchMisses, KeepsSheet
  <2>2. CASE FetchHits(r) \/ SolveReturns(r) \/ SolveRaises(r)
    <3>1. rtask[r] # "none" /\ UNCHANGED <<file, fresh, mode>>
      BY <2>2 DEF FetchHits, SolveReturns, SolveRaises
    <3> QED
      BY <2>2, <3>1, SolveFills DEF EvalInv, Tasks, RowTask
  <2> QED
    BY <1>3, <2>1, <2>2 DEF RowStep
<1>4. ASSUME NEW r \in Rows, NEW m \in Metrics, ScoreStep(r, m)
      PROVE  KeepsSheet \/ (FillsScore(r, m) /\ UNCHANGED <<file, fresh, mode>> /\ mode # "teardown")
  <2>1. CASE AppliesToRaises(r, m)
    BY <2>1 DEF AppliesToRaises, KeepsSheet
  <2>2. CASE ScoreBegins(r, m) \/ ScoreEnds(r, m)
    <3>1. stask[r][m] # "none" /\ UNCHANGED <<file, fresh, mode>>
      BY <2>2 DEF ScoreBegins, ScoreEnds
    <3>2. UNCHANGED ws \/ \E s \in {"ok", "failed"} : SetScore(r, m, s)
      BY <2>2 DEF ScoreBegins, ScoreEnds
    <3>3. mode # "teardown"
      BY <3>1 DEF EvalInv, Tasks, RowTask, ScoreTask
    <3> QED
      BY <3>1, <3>2, <3>3, ScoreFills DEF KeepsSheet
  <2> QED
    BY <1>4, <2>1, <2>2 DEF ScoreStep
<1>5. CASE RowsStart \/ RowsEnd \/ Interrupt \/ LoopFlush \/ Exit
  BY <1>5 DEF RowsStart, RowsEnd, Interrupt, LoopFlush, Exit, Save, Running, KeepsSheet
<1>6. CASE Report \/ TearDown \/ DiskFails \/ DiskRecovers
  BY <1>6 DEF Report, TearDown, DiskFails, DiskRecovers, Save, KeepsSheet
<1>7. CASE Crash
  BY <1>7 DEF Crash
<1>8. CASE UNCHANGED vars
  BY <1>8 DEF vars, KeepsSheet
<1> QED
  BY <1>1, <1>2, <1>3, <1>4, <1>5, <1>6, <1>7, <1>8 DEF Next

(* The file only ever becomes the sheet in memory.                         *)
LEMMA FileMoves ==
  ASSUME [Next]_vars
  PROVE  \/ UNCHANGED file
         \/ file' = ws /\ UNCHANGED ws /\ fresh' = FALSE /\ mode # "down"
<1>1. CASE LoopFlush \/ Exit \/ Report
  BY <1>1 DEF LoopFlush, Exit, Report, Save, Running
<1>2. ASSUME NEW f \in BOOLEAN, Start(f) PROVE UNCHANGED file
  BY <1>2 DEF Start
<1>3. ASSUME NEW k \in Keys, ProvisionStep(k) PROVE UNCHANGED file
  BY <1>3 DEF ProvisionStep, ResourceMade, PrepareReturns, PrepareRaises
<1>4. ASSUME NEW r \in Rows, RowStep(r) PROVE UNCHANGED file
  BY <1>4 DEF RowStep, RowBegins, FetchHits, FetchMisses, SolveReturns, SolveRaises
<1>5. ASSUME NEW r \in Rows, NEW m \in Metrics, ScoreStep(r, m) PROVE UNCHANGED file
  BY <1>5 DEF ScoreStep, ScoreBegins, ScoreEnds, AppliesToRaises
<1>6. CASE RowsStart \/ RowsEnd \/ Interrupt \/ TearDown \/ Crash \/ DiskFails \/ DiskRecovers
  BY <1>6 DEF RowsStart, RowsEnd, Interrupt, TearDown, Crash, DiskFails, DiskRecovers
<1>7. CASE UNCHANGED vars
  BY <1>7 DEF vars
<1> QED
  BY <1>1, <1>2, <1>3, <1>4, <1>5, <1>6, <1>7 DEF Next

LEMMA LoadIsSound ==
  ASSUME TypeOK, SoundSheets, NEW f \in BOOLEAN
  PROVE  Load(f) \in Sheets /\ Sound(Load(f))
<1>1. CASE f \/ file = NoFile
  BY <1>1, Blank DEF Load
<1>2. CASE ~(f \/ file = NoFile)
  BY <1>2 DEF Load, TypeOK, SoundSheets
<1> QED
  BY <1>1, <1>2

LEMMA SoundStep ==
  ASSUME EvalInv, [Next]_vars
  PROVE  ws' \in Sheets /\ file' \in Sheets \cup {NoFile} /\ SoundSheets'
<1>0. TypeOK /\ SoundSheets
  BY DEF EvalInv
<1>1. ws' \in Sheets /\ Sound(ws)'
  <2>1. CASE KeepsSheet
    BY <1>0, <2>1 DEF KeepsSheet, TypeOK, SoundSheets, Sound, ScoresMatchAnswers
  <2>2. CASE \E f \in BOOLEAN : ws' = Load(f)
    BY <1>0, <2>2, LoadIsSound DEF Sound, ScoresMatchAnswers
  <2>3. CASE ws' = BlankSheet
    BY <2>3, Blank DEF Sound, ScoresMatchAnswers
  <2>4. CASE \/ \E k \in Keys : FillsProv(k)
             \/ \E r \in Rows : FillsSolve(r)
             \/ \E r \in Rows, m \in Metrics : FillsScore(r, m)
    <3>1. ws' \in Sheets
      BY <2>4 DEF FillsProv, FillsSolve, FillsScore
    <3> QED
      BY <1>0, <2>4, <3>1, FillsKeepSound DEF SoundSheets
  <2> QED
    BY <2>1, <2>2, <2>3, <2>4, SheetMoves
<1>2. file' \in Sheets \cup {NoFile} /\ (file' # NoFile => Sound(file)')
  <2>1. CASE UNCHANGED file
    BY <1>0, <2>1 DEF TypeOK, SoundSheets, Sound, ScoresMatchAnswers
  <2>2. CASE file' = ws
    BY <1>0, <2>2 DEF TypeOK, SoundSheets, Sound, ScoresMatchAnswers
  <2> QED
    BY <2>1, <2>2, FileMoves
<1> QED
  BY <1>1, <1>2 DEF SoundSheets

LEMMA KeptStep ==
  ASSUME EvalInv, [Next]_vars
  PROVE  Kept'
<1>0. Kept /\ Sound(ws) /\ Sound(ws)'
  BY SoundStep DEF EvalInv, SoundSheets
<1>1. CASE file' = ws /\ UNCHANGED ws
  BY <1>1 DEF Kept, Extends
<1>2. CASE UNCHANGED file /\ ~(file' = ws /\ UNCHANGED ws)
  <2>1. CASE KeepsSheet
    BY <1>0, <1>2, <2>1 DEF KeepsSheet, Kept, Extends
  <2>2. CASE mode = "down" /\ mode' = "provision" /\ \E f \in BOOLEAN : ws' = Load(f) /\ fresh' = f
    <3>1. fresh' = FALSE /\ file' # NoFile => ws' = file'
      BY <1>2, <2>2 DEF Load
    <3> QED
      BY <2>2, <3>1 DEF Kept, Extends
  <2>3. CASE mode' = "down"
    BY <2>3 DEF Kept
  <2>4. CASE /\ UNCHANGED <<file, fresh, mode>> /\ mode # "teardown"
             /\ \/ \E k \in Keys : FillsProv(k)
                \/ \E r \in Rows : FillsSolve(r)
                \/ \E r \in Rows, m \in Metrics : FillsScore(r, m)
    <3>1. Extends(ws, ws')
      BY <1>0, <2>4, FillsKeepSound
    <3> QED
      BY <1>0, <2>4, <3>1 DEF Kept, Extends
  <2> QED
    BY <2>1, <2>2, <2>3, <2>4, SheetMoves
<1> QED
  BY <1>1, <1>2, FileMoves

-----------------------------------------------------------------------------
(* The type of everything but the sheets.                                  *)
TaskTypes ==
  /\ ptask \in [Keys -> {"none", "preparing"}]
  /\ rtask \in [Rows -> {"none", "ready", "fetching", "solving", "scoring"}]
  /\ stask \in [Rows -> [Metrics -> {"none", "ready", "calling"}]]
  /\ sample \in [Rows -> Nat]

LEMMA NoTasksIs ==
  ASSUME NoTasks
  PROVE  /\ TaskTypes'
         /\ \A k \in Keys : ptask'[k] = "none"
         /\ \A r \in Rows : rtask'[r] = "none" /\ \A m \in Metrics : stask'[r][m] = "none"
  BY DEF NoTasks, TaskTypes

LEMMA ScoreTasksIs ==
  ASSUME TypeOK, NEW r \in Rows, ws' \in Sheets, ScoreTasks(r)
  PROVE  /\ rtask' \in [Rows -> {"none", "ready", "fetching", "solving", "scoring"}]
         /\ stask' \in [Rows -> [Metrics -> {"none", "ready", "calling"}]]
         /\ sample' \in [Rows -> Nat]
         /\ rtask'[r] = "scoring" /\ sample'[r] = ws'.solve[r].answer
         /\ \A m \in Metrics : stask'[r][m] = IF ws.score[r][m].state = "ok" THEN "none" ELSE "ready"
         /\ \A x \in Rows : x # r =>
              rtask'[x] = rtask[x] /\ sample'[x] = sample[x] /\ stask'[x] = stask[x]
<1>1. ws'.solve[r].answer \in Nat
  BY DEF Sheets
<1> QED
  BY <1>1 DEF ScoreTasks, TypeOK

LEMMA TaskTypesStep ==
  ASSUME EvalInv, [Next]_vars
  PROVE  TaskTypes'
<1>0. TypeOK /\ TaskTypes /\ ws' \in Sheets
  BY SoundStep DEF EvalInv, TypeOK, TaskTypes
<1>1. ASSUME NEW f \in BOOLEAN, Start(f) PROVE TaskTypes'
  BY <1>0, <1>1 DEF Start, TaskTypes
<1>2. ASSUME NEW k \in Keys, ProvisionStep(k) PROVE TaskTypes'
  BY <1>0, <1>2 DEF ProvisionStep, ResourceMade, PrepareReturns, PrepareRaises, TaskTypes, tasks
<1>3. ASSUME NEW r \in Rows, RowStep(r) PROVE TaskTypes'
  <2>1. CASE ScoreTasks(r) /\ UNCHANGED ptask
    BY <1>0, <2>1, ScoreTasksIs DEF TaskTypes
  <2>2. CASE RowBegins(r) /\ ~ScoreTasks(r)
    BY <1>0, <2>2 DEF RowBegins, TaskTypes
  <2>3. CASE FetchMisses(r) \/ SolveRaises(r)
    BY <1>0, <2>3 DEF FetchMisses, SolveRaises, TaskTypes
  <2> QED
    BY <1>3, <2>1, <2>2, <2>3 DEF RowStep, RowBegins, FetchHits, SolveReturns, Solved
<1>4. ASSUME NEW r \in Rows, NEW m \in Metrics, ScoreStep(r, m) PROVE TaskTypes'
  <2>1. stask' \in [Rows -> [Metrics -> {"none", "ready", "calling"}]]
    BY <1>0, <1>4 DEF ScoreStep, ScoreBegins, ScoreEnds, AppliesToRaises, SetScore, TaskTypes
  <2>2. UNCHANGED <<ptask, rtask, sample>>
    BY <1>4 DEF ScoreStep, ScoreBegins, ScoreEnds, AppliesToRaises
  <2> QED
    BY <1>0, <2>1, <2>2 DEF TaskTypes
<1>5. CASE RowsStart
  BY <1>0, <1>5 DEF RowsStart, TaskTypes
<1>6. CASE Interrupt \/ Exit \/ Report \/ Crash
  <2>1. NoTasks \/ UNCHANGED tasks
    BY <1>6 DEF Interrupt, Exit, Report, Crash
  <2> QED
    BY <1>0, <2>1, NoTasksIs DEF tasks, TaskTypes
<1>7. CASE RowsEnd \/ LoopFlush \/ TearDown \/ DiskFails \/ DiskRecovers \/ UNCHANGED vars
  BY <1>0, <1>7 DEF RowsEnd, LoopFlush, TearDown, DiskFails, DiskRecovers, vars, tasks, TaskTypes
<1> QED
  BY <1>1, <1>2, <1>3, <1>4, <1>5, <1>6, <1>7 DEF Next

WorldTypes ==
  /\ subject \in [Keys -> Nat] /\ made \in [Keys -> Nat] /\ stored \in [Rows -> Nat]
  /\ disk \in BOOLEAN /\ faults \in 0 .. MaxFaults

LEMMA WorldTypesStep ==
  ASSUME EvalInv, [Next]_vars
  PROVE  WorldTypes'
<1>0. EvalInv /\ WorldTypes
  BY DEF EvalInv, TypeOK, WorldTypes
<1>f. Fault => faults' \in 0 .. MaxFaults
  BY <1>0, EvalAssumption DEF Fault, WorldTypes
<1> USE DEF WorldTypes
<1>1. ASSUME NEW f \in BOOLEAN, Start(f) PROVE WorldTypes'
  BY <1>0, <1>1, <1>f DEF Start, world
<1>2. ASSUME NEW k \in Keys, ProvisionStep(k) PROVE WorldTypes'
  <2>1. CASE ResourceMade(k)
    <3>1. made' \in [Keys -> Nat]
      BY <1>0, <2>1 DEF ResourceMade
    <3> QED
      BY <1>0, <2>1, <3>1 DEF ResourceMade
  <2>2. CASE PrepareReturns(k) \/ PrepareRaises(k)
    BY <1>0, <1>f, <2>2 DEF PrepareReturns, PrepareRaises, world
  <2> QED
    BY <1>2, <2>1, <2>2 DEF ProvisionStep
<1>3. ASSUME NEW r \in Rows, RowStep(r) PROVE WorldTypes'
  <2>1. CASE RowBegins(r) \/ FetchMisses(r) \/ FetchHits(r)
    BY <1>0, <2>1 DEF RowBegins, FetchMisses, FetchHits, world
  <2>2. CASE SolveReturns(r) \/ SolveRaises(r)
    <3>1. stored' \in [Rows -> Nat]
      BY <1>0, <2>2, SolveFills
    <3> QED
      BY <1>0, <1>f, <2>2, <3>1 DEF SolveReturns, SolveRaises
  <2> QED
    BY <1>3, <2>1, <2>2 DEF RowStep
<1>4. ASSUME NEW r \in Rows, NEW m \in Metrics, ScoreStep(r, m) PROVE WorldTypes'
  BY <1>0, <1>f, <1>4 DEF ScoreStep, ScoreBegins, ScoreEnds, AppliesToRaises, world
<1>5. CASE RowsStart \/ RowsEnd \/ Interrupt \/ LoopFlush \/ Exit \/ Report \/ Crash
  BY <1>0, <1>f, <1>5 DEF RowsStart, RowsEnd, Interrupt, LoopFlush, Exit, Report, Crash, world
<1>6. CASE TearDown
  BY <1>0, <1>6 DEF TearDown
<1>7. CASE DiskFails \/ DiskRecovers \/ UNCHANGED vars
  BY <1>0, <1>f, <1>7 DEF DiskFails, DiskRecovers, vars, world
<1> QED
  BY <1>1, <1>2, <1>3, <1>4, <1>5, <1>6, <1>7 DEF Next

LEMMA TypeStep ==
  ASSUME EvalInv, [Next]_vars
  PROVE  TypeOK'
<1>0. TypeOK
  BY DEF EvalInv
<1>1. mode' \in {"down", "provision", "rows", "exit", "report", "teardown"}
  BY <1>0 DEF TypeOK, Next, Start, ProvisionStep, ResourceMade, PrepareReturns, PrepareRaises,
     RowsStart, RowStep, RowBegins, FetchHits, FetchMisses, SolveReturns, SolveRaises, ScoreStep,
     ScoreBegins, ScoreEnds, AppliesToRaises, RowsEnd, Interrupt, LoopFlush, Exit, Report, TearDown,
     Crash, DiskFails, DiskRecovers, vars
<1>2. loop' \in {"run", "done", "died"}
  BY <1>0 DEF TypeOK, Next, Start, ProvisionStep, ResourceMade, PrepareReturns, PrepareRaises,
     RowsStart, RowStep, RowBegins, FetchHits, FetchMisses, SolveReturns, SolveRaises, ScoreStep,
     ScoreBegins, ScoreEnds, AppliesToRaises, RowsEnd, Interrupt, LoopFlush, Exit, Report, TearDown,
     Crash, DiskFails, DiskRecovers, vars
<1>3. raised' \in BOOLEAN /\ fresh' \in BOOLEAN
  BY <1>0 DEF TypeOK, Next, Start, ProvisionStep, ResourceMade, PrepareReturns, PrepareRaises,
     RowsStart, RowStep, RowBegins, FetchHits, FetchMisses, SolveReturns, SolveRaises, ScoreStep,
     ScoreBegins, ScoreEnds, AppliesToRaises, RowsEnd, Interrupt, LoopFlush, Exit, Report, TearDown,
     Crash, DiskFails, DiskRecovers, vars, Save
<1> QED
  BY <1>1, <1>2, <1>3, SoundStep, TaskTypesStep, WorldTypesStep DEF TypeOK, TaskTypes, WorldTypes

-----------------------------------------------------------------------------
(* No task at all satisfies Tasks.                                         *)
LEMMA NoTasksFit ==
  ASSUME NoTasks
  PROVE  Tasks'
  BY NoTasksIs DEF Tasks, KeyTask, RowTask, ScoreTask

LEMMA TasksKept ==
  ASSUME Tasks, UNCHANGED ws, UNCHANGED tasks, mode' = mode \/ \A k \in Keys : ptask[k] = "none",
         mode' \in {"rows", "exit", "report"} \/ \A r \in Rows : rtask[r] = "none"
  PROVE  Tasks'
  BY DEF Tasks, KeyTask, RowTask, ScoreTask, tasks

LEMMA RowTasksStep ==
  ASSUME EvalInv, NEW r \in Rows, RowStep(r)
  PROVE  Tasks'
<1>0. Tasks /\ TypeOK /\ RowTask(r) /\ ws' \in Sheets
  <2>1. Next
    BY DEF Next
  <2> QED
    BY <2>1, SoundStep DEF EvalInv, Tasks
<1>1. rtask[r] # "none" /\ UNCHANGED <<mode, ptask>>
  BY DEF RowStep, RowBegins, FetchHits, FetchMisses, SolveReturns, SolveRaises
<1>2. \A k \in Keys : ptask[k] = "none"
  BY <1>0, <1>1 DEF Tasks, KeyTask, RowTask, TypeOK
<1>3. \A k \in Keys : KeyTask(k)'
  BY <1>1, <1>2 DEF KeyTask
<1>4. CASE ScoreTasks(r) /\ ws'.solve[r].state = "ok" /\ (UNCHANGED ws \/ FillsSolve(r))
  <2>1. ws'.prov = ws.prov /\ ws'.score = ws.score
        /\ \A x \in Rows : x # r => ws'.solve[x] = ws.solve[x]
    BY <1>4 DEF FillsSolve
  <2>2. ASSUME NEW x \in Rows PROVE RowTask(x)'
    BY <1>0, <1>1, <1>4, <2>1, ScoreTasksIs DEF Tasks, RowTask
  <2>3. ASSUME NEW x \in Rows, NEW m \in Metrics PROVE ScoreTask(x, m)'
    BY <1>0, <1>4, <2>1, ScoreTasksIs DEF Tasks, ScoreTask
  <2> QED
    BY <1>3, <2>2, <2>3 DEF Tasks
<1>5. CASE /\ UNCHANGED <<sample, stask>> /\ (UNCHANGED ws \/ FillsSolve(r))
           /\ rtask[r] # "scoring"
           /\ \/ rtask' = [rtask EXCEPT ![r] = "none"]
              \/ /\ \E t \in {"fetching", "solving"} : rtask' = [rtask EXCEPT ![r] = t]
                 /\ ws'.solve[r].state # "ok" /\ ws'.prov[KeyOf[r]].state = "ok"
  <2>1. ws'.prov = ws.prov /\ ws'.score = ws.score
        /\ \A x \in Rows : x # r => ws'.solve[x] = ws.solve[x]
    BY <1>5 DEF FillsSolve
  <2>2. /\ \A x \in Rows : x # r => rtask'[x] = rtask[x]
        /\ rtask'[r] \in {"none", "fetching", "solving"}
        /\ rtask'[r] \in {"fetching", "solving"} =>
             ws'.solve[r].state # "ok" /\ ws'.prov[KeyOf[r]].state = "ok"
    BY <1>0, <1>5 DEF TypeOK
  <2>3. ASSUME NEW x \in Rows PROVE RowTask(x)'
    BY <1>0, <1>1, <1>5, <2>1, <2>2 DEF Tasks, RowTask
  <2>4. ASSUME NEW x \in Rows, NEW m \in Metrics PROVE ScoreTask(x, m)'
    BY <1>0, <1>5, <2>1, <2>2 DEF Tasks, ScoreTask
  <2> QED
    BY <1>3, <2>3, <2>4 DEF Tasks
<1>6. CASE RowBegins(r)
  BY <1>4, <1>5, <1>6 DEF RowBegins
<1>7. CASE FetchMisses(r)
  BY <1>0, <1>5, <1>7 DEF FetchMisses, RowTask
<1>8. CASE FetchHits(r) \/ SolveReturns(r)
  BY <1>4, <1>8, SolveFills
<1>9. CASE SolveRaises(r)
  BY <1>5, <1>9, SolveFills DEF SolveRaises
<1> QED
  BY <1>6, <1>7, <1>8, <1>9 DEF RowStep

LEMMA ScoreTasksStep ==
  ASSUME EvalInv, NEW r \in Rows, NEW m \in Metrics, ScoreStep(r, m)
  PROVE  Tasks'
<1>0. Tasks /\ TypeOK /\ RowTask(r) /\ ScoreTask(r, m)
  BY DEF EvalInv, Tasks
<1>1. stask[r][m] # "none" /\ UNCHANGED <<ptask, rtask, sample>>
  BY DEF ScoreStep, ScoreBegins, ScoreEnds, AppliesToRaises
<1>2. rtask[r] = "scoring" /\ mode \in {"rows", "exit", "report"} /\ ws.score[r][m].state # "ok"
  BY <1>0, <1>1 DEF RowTask, ScoreTask
<1>3. mode' \in {mode, "exit"}
  BY DEF ScoreStep, ScoreBegins, ScoreEnds, AppliesToRaises
<1>4. \A k \in Keys : ptask'[k] = "none"
  BY <1>0, <1>1, <1>2 DEF Tasks, KeyTask, TypeOK
<1>5. /\ \A x \in Rows, y \in Metrics : x # r \/ y # m => stask'[x][y] = stask[x][y]
      /\ UNCHANGED ws \/ (FillsScore(r, m) /\ stask'[r][m] = "none")
  <2>1. \A x \in Rows, y \in Metrics : x # r \/ y # m => stask'[x][y] = stask[x][y]
    <3>1. \E t \in {"none", "calling"} : stask' = [stask EXCEPT ![r][m] = t]
      BY DEF ScoreStep, ScoreBegins, ScoreEnds, AppliesToRaises, SetScore
    <3> QED
      BY <1>0, <3>1 DEF TypeOK
  <2>2. UNCHANGED ws \/ \E s \in {"ok", "failed"} : SetScore(r, m, s)
    BY DEF ScoreStep, ScoreBegins, ScoreEnds, AppliesToRaises
  <2>3. ASSUME NEW s \in {"ok", "failed"}, SetScore(r, m, s)
        PROVE  FillsScore(r, m) /\ stask'[r][m] = "none"
    BY <1>0, <1>1, <2>3, ScoreFills DEF SetScore, TypeOK
  <2> QED
    BY <2>1, <2>2, <2>3
<1>6. ws'.prov = ws.prov /\ ws'.solve = ws.solve
      /\ \A x \in Rows, y \in Metrics : x # r \/ y # m => ws'.score[x][y] = ws.score[x][y]
  BY <1>5 DEF FillsScore
<1>7. ASSUME NEW x \in Rows PROVE RowTask(x)'
  BY <1>0, <1>1, <1>2, <1>3, <1>6 DEF Tasks, RowTask
<1>8. ASSUME NEW x \in Rows, NEW y \in Metrics PROVE ScoreTask(x, y)'
  <2>1. CASE x # r \/ y # m
    BY <1>0, <1>1, <1>5, <1>6, <2>1 DEF Tasks, ScoreTask
  <2>2. CASE x = r /\ y = m
    BY <1>0, <1>1, <1>2, <1>5, <2>2 DEF ScoreTask
  <2> QED
    BY <2>1, <2>2
<1> QED
  BY <1>4, <1>7, <1>8 DEF Tasks, KeyTask

LEMMA TasksStep ==
  ASSUME EvalInv, [Next]_vars
  PROVE  Tasks'
<1>0. Tasks /\ TypeOK /\ Tried
  BY DEF EvalInv
<1>1. ASSUME NEW f \in BOOLEAN, Start(f) PROVE Tasks'
  <2>1. \A r \in Rows : rtask'[r] = "none" /\ \A m \in Metrics : stask'[r][m] = "none"
    BY <1>0, <1>1 DEF Start, Tasks, RowTask, ScoreTask
  <2>2. ASSUME NEW k \in Keys PROVE KeyTask(k)'
    BY <1>1 DEF Start, KeyTask
  <2> QED
    BY <2>1, <2>2 DEF Tasks, RowTask, ScoreTask
<1>2. ASSUME NEW k \in Keys, ProvisionStep(k) PROVE Tasks'
  <2>1. CASE ResourceMade(k)
    <3>1. UNCHANGED <<ws, tasks, mode>> /\ mode = "provision"
      BY <1>0, <2>1 DEF ResourceMade, Tasks, KeyTask
    <3>2. \A r \in Rows : rtask[r] = "none"
      BY <1>0, <3>1 DEF Tasks, RowTask
    <3> QED
      BY <1>0, <3>1, <3>2, TasksKept
  <2>2. CASE PrepareReturns(k) \/ PrepareRaises(k)
    <3>1. mode = "provision" /\ ptask' = [ptask EXCEPT ![k] = "none"]
          /\ UNCHANGED <<mode, rtask, stask, sample>>
      BY <1>0, <2>2 DEF Tasks, KeyTask, PrepareReturns, PrepareRaises
    <3>2. \A r \in Rows : rtask[r] = "none"
      BY <1>0, <3>1 DEF Tasks, RowTask
    <3>3. FillsProv(k)
      BY <2>2, PrepareFills
    <3>4. ASSUME NEW x \in Keys PROVE KeyTask(x)'
      BY <1>0, <3>1, <3>3 DEF Tasks, KeyTask, FillsProv, TypeOK
    <3> QED
      BY <1>0, <3>1, <3>2, <3>4 DEF Tasks, RowTask, ScoreTask
  <2> QED
    BY <1>2, <2>1, <2>2 DEF ProvisionStep
<1>3. CASE RowsStart
  <2>1. \A r \in Rows : rtask'[r] = "ready" /\ rtask[r] = "none"
    BY <1>0, <1>3 DEF RowsStart, Tasks, RowTask
  <2> QED
    BY <1>0, <1>3, <2>1 DEF RowsStart, Tasks, KeyTask, RowTask, ScoreTask
<1>4. CASE RowsEnd
  <2>1. \A k \in Keys : ptask[k] = "none"
    BY <1>0, <1>4 DEF RowsEnd, Tasks, KeyTask, TypeOK
  <2> QED
    BY <1>0, <1>4, <2>1, TasksKept DEF RowsEnd
<1>5. CASE LoopFlush \/ DiskFails \/ DiskRecovers \/ UNCHANGED vars
  <2>1. UNCHANGED <<ws, tasks, mode>>
    BY <1>5 DEF LoopFlush, DiskFails, DiskRecovers, vars
  <2> QED
    BY <1>0, <2>1, TasksKept DEF Tasks, RowTask
<1>6. CASE Interrupt \/ Report \/ Crash
  BY <1>6, NoTasksFit DEF Interrupt, Report, Crash
<1>7. CASE Exit
  <2>1. CASE NoTasks
    BY <2>1, NoTasksFit
  <2>2. CASE ~NoTasks
    <3>1. UNCHANGED <<ws, tasks>> /\ mode' = "report" /\ mode = "exit"
      BY <1>7, <2>2 DEF Exit
    <3>2. \A k \in Keys : ptask[k] = "none"
      BY <1>0, <3>1 DEF Tasks, KeyTask, TypeOK
    <3> QED
      BY <1>0, <3>1, <3>2, TasksKept
  <2> QED
    BY <2>1, <2>2
<1>8. CASE TearDown
  <2>1. /\ \A k \in Keys : ptask[k] = "none"
        /\ \A r \in Rows : rtask[r] = "none"
    BY <1>0, <1>8 DEF TearDown, Tasks, KeyTask, RowTask, TypeOK
  <2> QED
    BY <1>0, <1>8, <2>1, TasksKept DEF TearDown
<1> QED
  BY <1>1, <1>2, <1>3, <1>4, <1>5, <1>6, <1>7, <1>8, RowTasksStep, ScoreTasksStep DEF Next

-----------------------------------------------------------------------------
(* A row or score task takes a step while the engine waits for the rows,   *)
(* unless an exception already left run().                                 *)
LEMMA RowsAreAwaited ==
  ASSUME EvalInv, ~raised, NEW r \in Rows,
         RowStep(r) \/ \E m \in Metrics : ScoreStep(r, m)
  PROVE  mode = "rows"
<1>0. Tasks /\ RowTask(r) /\ RowTried(r)
  BY DEF EvalInv, Tasks, Tried
<1>1. CASE RowStep(r)
  <2>1. rtask[r] \in {"ready", "fetching", "solving"}
    BY <1>1 DEF RowStep, RowBegins, FetchHits, FetchMisses, SolveReturns, SolveRaises
  <2> QED
    BY <1>0, <2>1 DEF RowTask, RowTried, RowDone
<1>2. ASSUME NEW m \in Metrics, ScoreStep(r, m) PROVE mode = "rows"
  <2>1. stask[r][m] # "none"
    BY <1>2 DEF ScoreStep, ScoreBegins, ScoreEnds, AppliesToRaises
  <2>2. rtask[r] = "scoring"
    BY <1>0, <2>1 DEF Tasks, ScoreTask
  <2> QED
    BY <1>0, <2>1, <2>2 DEF RowTask, RowTried, RowDone
<1> QED
  BY <1>1, <1>2

LEMMA TriedKept ==
  ASSUME Tried, UNCHANGED <<ws, tasks, mode, raised>>
  PROVE  Tried'
  BY DEF Tried, KeyTried, RowTried, RowDone, tasks

LEMMA RowTriedStep ==
  ASSUME EvalInv, NEW r \in Rows, RowStep(r)
  PROVE  Tried'
<1>0. Tried /\ TypeOK /\ Sound(ws) /\ ws' \in Sheets /\ UNCHANGED <<mode, raised, ptask>>
  <2>1. Next
    BY DEF Next
  <2>2. UNCHANGED <<mode, raised, ptask>>
    BY DEF RowStep, RowBegins, FetchHits, FetchMisses, SolveReturns, SolveRaises
  <2> QED
    BY <2>1, <2>2, SoundStep DEF EvalInv, SoundSheets
<1>1. CASE raised
  BY <1>0, <1>1 DEF Tried
<1>2. CASE ~raised
  <2>1. mode = "rows"
    BY <1>2, RowsAreAwaited
  <2>2. /\ ws'.prov = ws.prov /\ ws'.score = ws.score
        /\ \A x \in Rows : x # r =>
             ws'.solve[x] = ws.solve[x] /\ rtask'[x] = rtask[x] /\ stask'[x] = stask[x]
        /\ rtask'[r] = "none" =>
             /\ ws'.solve[r].state # "ok"
             /\ ws'.solve[r].state = "pending" => ws.prov[KeyOf[r]].state # "ok"
        /\ rtask'[r] = "scoring" =>
             \A m \in Metrics : stask'[r][m] = "none" => ws.score[r][m].state = "ok"
    <3>1. CASE ScoreTasks(r) /\ (UNCHANGED ws \/ FillsSolve(r))
      BY <1>0, <3>1, ScoreTasksIs DEF FillsSolve
    <3>2. CASE RowBegins(r) /\ ~ScoreTasks(r)
      BY <1>0, <3>2, EvalAssumption DEF RowBegins, Sound, TypeOK
    <3>3. CASE FetchMisses(r)
      BY <1>0, <3>3 DEF FetchMisses, TypeOK
    <3>4. CASE SolveRaises(r)
      BY <1>0, <3>4, SolveFills, ZenonT(60) DEF SolveRaises, FillsSolve, TypeOK
    <3> QED
      BY <3>1, <3>2, <3>3, <3>4, SolveFills DEF RowStep, RowBegins
  <2>3. ASSUME NEW k \in Keys PROVE KeyTried(k)'
    BY <1>0, <1>2, <2>2 DEF Tried, KeyTried
  <2>4. ASSUME NEW x \in Rows PROVE RowTried(x)'
    <3>1. CASE x # r
      BY <1>0, <1>2, <2>1, <2>2, <3>1 DEF Tried, RowTried
    <3>2. CASE x = r
      <4>1. ws.prov[KeyOf[r]].state \in {"ok", "failed"}
        BY <1>0, <1>2, <2>1, EvalAssumption DEF Tried, KeyTried, TypeOK, Sheets, CellStates
      <4> QED
        BY <1>0, <2>1, <2>2, <3>2, <4>1 DEF RowTried
    <3> QED
      BY <3>1, <3>2
  <2> QED
    BY <1>0, <1>2, <2>3, <2>4 DEF Tried
<1> QED
  BY <1>1, <1>2

LEMMA ScoreTriedStep ==
  ASSUME EvalInv, NEW r \in Rows, NEW m \in Metrics, ScoreStep(r, m)
  PROVE  Tried'
<1>0. Tried /\ TypeOK /\ UNCHANGED <<ptask, rtask>>
  BY DEF EvalInv, ScoreStep, ScoreBegins, ScoreEnds, AppliesToRaises
<1>1. CASE raised \/ AppliesToRaises(r, m)
  <2>1. CASE raised
    <3>1. raised' /\ mode' \in {"down", "exit"}
      BY <1>0, <2>1 DEF Tried, ScoreStep, ScoreBegins, ScoreEnds, AppliesToRaises
    <3> QED
      BY <3>1 DEF Tried
  <2>2. CASE AppliesToRaises(r, m) /\ ~raised
    <3>1. mode = "rows"
      BY <2>2, RowsAreAwaited
    <3>2. raised' /\ mode' = "exit"
      BY <2>2, <3>1 DEF AppliesToRaises
    <3> QED
      BY <3>2 DEF Tried
  <2> QED
    BY <1>1, <2>1, <2>2
<1>2. CASE ~raised /\ (ScoreBegins(r, m) \/ ScoreEnds(r, m))
  <2>1. mode = "rows" /\ UNCHANGED <<mode, raised>> /\ stask[r][m] # "none"
    BY <1>2, RowsAreAwaited DEF ScoreBegins, ScoreEnds
  <2>2. /\ ws'.prov = ws.prov /\ ws'.solve = ws.solve
        /\ \A x \in Rows, y \in Metrics : x # r \/ y # m =>
             ws'.score[x][y] = ws.score[x][y] /\ stask'[x][y] = stask[x][y]
        /\ stask'[r][m] = "none" => ws'.score[r][m].state # "pending"
    <3>1. CASE \E s \in {"ok", "failed"} : SetScore(r, m, s)
      <4>1. FillsScore(r, m) /\ stask' = [stask EXCEPT ![r][m] = "none"]
        BY <2>1, <3>1, ScoreFills DEF SetScore
      <4> QED
        BY <1>0, <4>1 DEF FillsScore, TypeOK
    <3>2. CASE UNCHANGED ws /\ stask' = [stask EXCEPT ![r][m] = "calling"]
      BY <1>0, <3>2 DEF TypeOK
    <3> QED
      BY <1>2, <3>1, <3>2 DEF ScoreBegins, ScoreEnds
  <2>3. ASSUME NEW k \in Keys PROVE KeyTried(k)'
    BY <1>0, <1>2, <2>1, <2>2 DEF Tried, KeyTried
  <2>4. ASSUME NEW x \in Rows PROVE RowTried(x)'
    BY <1>0, <1>2, <2>1, <2>2 DEF Tried, RowTried
  <2> QED
    BY <1>2, <2>1, <2>3, <2>4 DEF Tried
<1> QED
  BY <1>1, <1>2 DEF ScoreStep

LEMMA TriedStep ==
  ASSUME EvalInv, [Next]_vars
  PROVE  Tried'
<1>0. Tried /\ TypeOK /\ Tasks
  BY DEF EvalInv
<1>1. ASSUME NEW f \in BOOLEAN, Start(f) PROVE Tried'
  BY <1>1 DEF Start, Tried, KeyTried, RowTried
<1>2. ASSUME NEW k \in Keys, ProvisionStep(k) PROVE Tried'
  <2>1. CASE ResourceMade(k)
    BY <1>0, <2>1, TriedKept DEF ResourceMade
  <2>2. CASE PrepareReturns(k) \/ PrepareRaises(k)
    <3>1. mode = "provision" /\ ptask' = [ptask EXCEPT ![k] = "none"] /\ UNCHANGED <<mode, raised>>
      BY <1>0, <2>2 DEF Tasks, KeyTask, PrepareReturns, PrepareRaises
    <3>2. FillsProv(k)
      BY <2>2, PrepareFills
    <3>3. ASSUME ~raised, NEW x \in Keys PROVE KeyTried(x)'
      BY <1>0, <3>1, <3>2, <3>3 DEF Tried, KeyTried, FillsProv, TypeOK
    <3> QED
      BY <1>0, <3>1, <3>3 DEF Tried, RowTried
  <2> QED
    BY <1>2, <2>1, <2>2 DEF ProvisionStep
<1>3. CASE RowsStart
  BY <1>0, <1>3 DEF RowsStart, Tried, KeyTried, RowTried
<1>4. CASE RowsEnd
  <2>1. \A r \in Rows : RowDone(r)'
    BY <1>4 DEF RowsEnd, RowDone, tasks
  <2> QED
    BY <1>0, <1>4, <2>1 DEF RowsEnd, Tried, KeyTried, RowTried, tasks
<1>5. CASE LoopFlush \/ DiskFails \/ DiskRecovers \/ UNCHANGED vars
  BY <1>0, <1>5, TriedKept DEF LoopFlush, DiskFails, DiskRecovers, vars
<1>6. CASE Interrupt
  BY <1>6 DEF Interrupt, Tried
<1>7. CASE Exit
  <2>1. CASE mode' = "down"
    BY <2>1 DEF Tried, KeyTried, RowTried
  <2>2. CASE mode' # "down"
    <3>1. mode = "exit" /\ mode' = "report" /\ ~raised /\ UNCHANGED <<ws, tasks, raised>>
      BY <1>7, <2>2 DEF Exit
    <3> QED
      BY <1>0, <3>1 DEF Tried, KeyTried, RowTried, RowDone, tasks
  <2> QED
    BY <2>1, <2>2
<1>8. CASE Report \/ TearDown \/ Crash
  BY <1>0, <1>8 DEF Report, TearDown, Crash, Tried, KeyTried, RowTried
<1> QED
  BY <1>1, <1>2, <1>3, <1>4, <1>5, <1>6, <1>7, <1>8, RowTriedStep, ScoreTriedStep DEF Next

-----------------------------------------------------------------------------
LEMMA EvalInit == Init => EvalInv
<1> SUFFICES ASSUME Init PROVE EvalInv
  OBVIOUS
<1>1. TypeOK
  <2>1. ws \in Sheets /\ file \in Sheets \cup {NoFile} /\ faults \in 0 .. MaxFaults
    BY Blank, EvalAssumption DEF Init
  <2>2. TaskTypes
    BY DEF Init, TaskTypes
  <2>3. subject \in [Keys -> Nat] /\ made \in [Keys -> Nat] /\ stored \in [Rows -> Nat]
    BY DEF Init
  <2> QED
    BY <2>1, <2>2, <2>3 DEF Init, TypeOK, TaskTypes
<1>2. SoundSheets
  BY Blank DEF Init, SoundSheets
<1>3. Tasks
  BY DEF Init, Tasks, KeyTask, RowTask, ScoreTask
<1>4. Tried /\ Kept
  BY DEF Init, Tried, KeyTried, RowTried, Kept
<1> QED
  BY <1>1, <1>2, <1>3, <1>4 DEF EvalInv

LEMMA EvalStep == EvalInv /\ [Next]_vars => EvalInv'
  BY TypeStep, SoundStep, TasksStep, TriedStep, KeptStep DEF EvalInv

LEMMA EvalInvariant == Spec => []EvalInv
  BY EvalInit, EvalStep, PTL DEF Spec

(* Between any two awaits, no score on the worksheet or on disk is of      *)
(* another answer than the one in its row, and when the reports are        *)
(* written no gap is one that nobody tried to fill.                        *)
THEOREM EvalSheetIsSound == Spec => []SheetIsSound
<1>1. EvalInv => ScoreBasis
  BY DEF EvalInv, SoundSheets, Sound, ScoreBasis
<1>2. EvalInv => NothingSkipped
  <2> SUFFICES ASSUME EvalInv, mode = "report"
               PROVE  /\ \A k \in Keys : ws.prov[k].state # "pending"
                      /\ \A r \in Rows :
                           /\ ws.solve[r].state = "pending" => ws.prov[KeyOf[r]].state = "failed"
                           /\ ws.solve[r].state = "ok" =>
                                \A m \in Metrics : ws.score[r][m].state # "pending"
    BY DEF NothingSkipped
  <2>1. Tried /\ ~raised
    BY DEF EvalInv, Tried
  <2>2. \A k \in Keys : ws.prov[k].state # "pending"
    BY <2>1 DEF Tried, KeyTried
  <2>3. ASSUME NEW r \in Rows
        PROVE  /\ ws.solve[r].state = "pending" => ws.prov[KeyOf[r]].state = "failed"
               /\ ws.solve[r].state = "ok" => \A m \in Metrics : ws.score[r][m].state # "pending"
    BY <2>1 DEF EvalInv, Tasks, RowTask, Tried, RowTried, RowDone
  <2> QED
    BY <2>2, <2>3
<1>3. EvalInv => SheetIsSound
  BY <1>1, <1>2 DEF SheetIsSound, EvalInv
<1> QED
  BY <1>3, EvalInvariant, PTL

-----------------------------------------------------------------------------
(* The cells of a sheet, one at a time.                                    *)
LEMMA OkCellsGrow ==
  ASSUME NEW s, NEW t, Extends(s, t)
  PROVE  OkCells(s) \subseteq OkCells(t)
  BY DEF Extends, OkCells

LEMMA NoOkCells == OkCells(BlankSheet) = {}
  BY DEF OkCells, BlankSheet

LEMMA ExtendsItself == \A s : Extends(s, s)
  BY DEF Extends

(* A process that ends otherwise than by a crash, on a disk that works and *)
(* with its checkpointer alive, leaves every OK cell on disk.              *)
THEOREM EvalEndKeepsWork == Spec => EndKeepsWork
<1>1. EvalInv /\ [Next]_vars =>
        [mode # "down" /\ mode' = "down" /\ disk /\ loop # "died"
           => OkCells(ws') \subseteq OkCells(IF file' = NoFile THEN BlankSheet ELSE file')]_vars
  <2> SUFFICES ASSUME EvalInv, Next, mode # "down", mode' = "down", disk, loop # "died"
               PROVE  OkCells(ws') \subseteq OkCells(IF file' = NoFile THEN BlankSheet ELSE file')
    BY DEF vars
  <2>1. ws' = BlankSheet \/ file' = ws'
    <3>1. CASE Exit \/ Report
      BY <3>1 DEF Exit, Report, Save
    <3>2. CASE TearDown
      BY <3>2 DEF TearDown, EvalInv, Kept
    <3>3. CASE Crash
      BY <3>3 DEF Crash
    <3>4. CASE \/ \E f \in BOOLEAN : Start(f)
               \/ RowsStart \/ RowsEnd \/ Interrupt \/ LoopFlush \/ DiskFails \/ DiskRecovers
      BY <3>4 DEF Start, RowsStart, RowsEnd, Interrupt, LoopFlush, DiskFails, DiskRecovers
    <3>5. ASSUME NEW k \in Keys, ProvisionStep(k) PROVE FALSE
      BY <3>5 DEF ProvisionStep, ResourceMade, PrepareReturns, PrepareRaises
    <3>6. ASSUME NEW r \in Rows, RowStep(r) PROVE FALSE
      BY <3>6 DEF RowStep, RowBegins, FetchHits, FetchMisses, SolveReturns, SolveRaises
    <3>7. ASSUME NEW r \in Rows, NEW m \in Metrics, ScoreStep(r, m) PROVE FALSE
      BY <3>7 DEF ScoreStep, ScoreBegins, ScoreEnds, AppliesToRaises
    <3> QED
      BY <3>1, <3>2, <3>3, <3>4, <3>5, <3>6, <3>7 DEF Next
  <2>2. ws' \in Sheets /\ ws' # NoFile
    BY SoundStep, NoFileAssumption
  <2> QED
    BY <2>1, <2>2, NoOkCells
<1> QED
  BY <1>1, EvalInvariant, PTL DEF Spec, EndKeepsWork

-----------------------------------------------------------------------------
LEMMA OkCellsClosed ==
  ASSUME NEW sheet, Sound(sheet)
  PROVE  OkCells(sheet) \subseteq AllCells /\ Abstract!Closed(OkCells(sheet))
<1>1. OkCells(sheet) \subseteq AllCells
  BY DEF OkCells, AllCells
<1>2. ASSUME NEW c \in OkCells(sheet) PROVE NeededBy(c) \subseteq OkCells(sheet)
  <2>1. CASE \E k \in Keys : c = <<"prov", k>>
    BY <2>1 DEF NeededBy
  <2>2. ASSUME NEW r \in Rows, c = <<"solve", r>>, sheet.solve[r].state = "ok"
        PROVE  NeededBy(c) \subseteq OkCells(sheet)
    <3>1. NeededBy(c) = {<<"prov", KeyOf[r]>>}
      BY <2>2 DEF NeededBy
    <3>2. KeyOf[r] \in Keys /\ sheet.prov[KeyOf[r]].state = "ok"
      BY <2>2, EvalAssumption DEF Sound
    <3> QED
      BY <3>1, <3>2 DEF OkCells
  <2>3. ASSUME NEW r \in Rows, NEW m \in Metrics, c = <<"score", r, m>>,
               sheet.score[r][m].state = "ok"
        PROVE  NeededBy(c) \subseteq OkCells(sheet)
    <3>1. NeededBy(c) = {<<"solve", r>>}
      BY <2>3 DEF NeededBy
    <3>2. sheet.solve[r].state = "ok"
      BY <2>3 DEF Sound, ScoresMatchAnswers
    <3> QED
      BY <3>1, <3>2 DEF OkCells
  <2> QED
    BY <2>1, <2>2, <2>3 DEF OkCells
<1> QED
  BY <1>1, <1>2 DEF Abstract!Closed

LEMMA DiskStep ==
  ASSUME EvalInv, [Next]_vars
  PROVE  [Abstract!ProgressNext]_(Abstract!progressVars)
<1>0. TypeOK /\ SoundSheets /\ Kept /\ TypeOK'
  BY TypeStep DEF EvalInv
<1>1. CASE UNCHANGED file
  <2>1. OnDisk' = OnDisk /\ fresh' \in BOOLEAN
    BY <1>0, <1>1 DEF OnDisk, OkCells, TypeOK
  <2> QED
    BY <2>1 DEF Abstract!ProgressNext, Abstract!StartRun
<1>2. CASE file' = ws /\ UNCHANGED ws /\ fresh' = FALSE /\ mode # "down"
  <2>1. OnDisk' = OkCells(ws)
    BY <1>0, <1>2, NoFileAssumption DEF OnDisk, OkCells, TypeOK
  <2>2. OkCells(ws) \subseteq AllCells /\ Abstract!Closed(OnDisk')
    BY <1>0, <2>1, OkCellsClosed DEF SoundSheets
  <2>3. CASE fresh
    BY <1>2, <2>1, <2>2, <2>3 DEF Abstract!ProgressNext, Abstract!Replace
  <2>4. CASE ~fresh
    <3>1. OnDisk \subseteq OkCells(ws)
      <4>1. CASE file = NoFile
        BY <4>1 DEF OnDisk
      <4>2. CASE file # NoFile
        <5>1. Extends(file, ws)
          BY <1>0, <1>2, <2>4, <4>2 DEF Kept, TypeOK
        <5> QED
          BY <4>2, <5>1, OkCellsGrow DEF OnDisk
      <4> QED
        BY <4>1, <4>2
    <3> QED
      BY <1>2, <2>1, <2>2, <3>1 DEF Abstract!ProgressNext, Abstract!Record
  <2> QED
    BY <2>3, <2>4
<1> QED
  BY <1>1, <1>2, FileMoves

(* What the checkpoint file records is closed under what it was computed   *)
(* from and is never lost, except to a run asked to start afresh.          *)
THEOREM EvalImplementsProgress == Spec => ImplementsProgress
<1>1. Init => Abstract!ProgressInit
  BY DEF Init, Abstract!ProgressInit, OnDisk
<1>2. EvalInv /\ [Next]_vars => [Abstract!ProgressNext]_(Abstract!progressVars)
  BY DiskStep
<1> QED
  BY <1>1, <1>2, EvalInvariant, PTL DEF Spec, ImplementsProgress, Abstract!ProgressSpec

-----------------------------------------------------------------------------
(* Without teardown a resource lives on: the subject an OK provision cell  *)
(* names, in memory or on disk, is the one its key still has.              *)
OnLiveSubjects(sheet) ==
  \A k \in Keys : sheet.prov[k].state = "ok" =>
    subject[k] # 0 /\ sheet.prov[k].subject = subject[k]

LiveInv ==
  /\ mode # "teardown"
  /\ OnLiveSubjects(ws) /\ (file # NoFile => OnLiveSubjects(file))

(* A subject only changes while its key has none.                          *)
LEMMA SubjectMoves ==
  ASSUME TypeOK, mode # "teardown", [Next]_vars
  PROVE  /\ \A k \in Keys : subject[k] # 0 => subject'[k] = subject[k]
         /\ Teardown \/ mode' # "teardown"
<1>0. Teardown \in BOOLEAN /\ subject \in [Keys -> Nat]
  BY EvalAssumption DEF TypeOK
<1>1. ASSUME NEW k \in Keys, ResourceMade(k)
      PROVE  /\ \A x \in Keys : subject[x] # 0 => subject'[x] = subject[x]
             /\ mode' # "teardown"
  BY <1>0, <1>1 DEF ResourceMade
<1>2. CASE Report
  BY <1>0, <1>2 DEF Report, world
<1>3. ASSUME NEW k \in Keys, PrepareReturns(k) \/ PrepareRaises(k)
      PROVE  UNCHANGED subject /\ mode' # "teardown"
  BY <1>3 DEF PrepareReturns, PrepareRaises, world
<1>4. ASSUME NEW r \in Rows, RowStep(r) PROVE UNCHANGED subject /\ mode' # "teardown"
  BY <1>4 DEF RowStep, RowBegins, FetchHits, FetchMisses, SolveReturns, SolveRaises, world
<1>5. ASSUME NEW r \in Rows, NEW m \in Metrics, ScoreStep(r, m)
      PROVE  UNCHANGED subject /\ mode' # "teardown"
  BY <1>5 DEF ScoreStep, ScoreBegins, ScoreEnds, AppliesToRaises, world
<1>6. CASE \/ \E f \in BOOLEAN : Start(f)
           \/ RowsStart \/ RowsEnd \/ Interrupt \/ LoopFlush \/ Exit \/ TearDown \/ Crash
  BY <1>6 DEF Start, RowsStart, RowsEnd, Interrupt, LoopFlush, Exit, TearDown, Crash, world
<1>7. CASE DiskFails \/ DiskRecovers \/ UNCHANGED vars
  BY <1>7 DEF DiskFails, DiskRecovers, vars, world
<1> QED
  BY <1>1, <1>2, <1>3, <1>4, <1>5, <1>6, <1>7 DEF Next, ProvisionStep

LEMMA LiveStep ==
  ASSUME ~Teardown, EvalInv, LiveInv, [Next]_vars
  PROVE  LiveInv'
<1>0. TypeOK
  BY DEF EvalInv
<1>1. mode' # "teardown" /\ \A k \in Keys : subject[k] # 0 => subject'[k] = subject[k]
  BY <1>0, SubjectMoves DEF LiveInv
<1>2. ASSUME NEW sheet, OnLiveSubjects(sheet)
      PROVE  \A k \in Keys : sheet.prov[k].state = "ok" =>
               subject'[k] # 0 /\ sheet.prov[k].subject = subject'[k]
  BY <1>1, <1>2 DEF OnLiveSubjects
<1>3. OnLiveSubjects(ws)'
  <2>1. CASE ws' = ws
    BY <1>2, <2>1 DEF LiveInv, OnLiveSubjects
  <2>2. CASE \E f \in BOOLEAN : ws' = Load(f)
    <3>1. ws' = BlankSheet \/ (file # NoFile /\ ws' = file)
      BY <2>2 DEF Load
    <3> QED
      BY <1>2, <3>1 DEF LiveInv, OnLiveSubjects, BlankSheet
  <2>3. CASE ws' = BlankSheet
    BY <2>3 DEF OnLiveSubjects, BlankSheet
  <2>4. ASSUME NEW k \in Keys, FillsProv(k) PROVE OnLiveSubjects(ws)'
    BY <1>1, <2>4 DEF LiveInv, OnLiveSubjects, FillsProv
  <2>5. CASE \/ \E r \in Rows : FillsSolve(r)
             \/ \E r \in Rows, m \in Metrics : FillsScore(r, m)
    <3>1. ws'.prov = ws.prov
      BY <2>5 DEF FillsSolve, FillsScore
    <3> QED
      BY <1>2, <3>1 DEF LiveInv, OnLiveSubjects
  <2> QED
    BY <2>1, <2>2, <2>3, <2>4, <2>5, SheetMoves DEF KeepsSheet
<1>4. file' # NoFile => OnLiveSubjects(file)'
  BY <1>2, FileMoves DEF LiveInv, OnLiveSubjects
<1> QED
  BY <1>1, <1>3, <1>4 DEF LiveInv

(* Without teardown the SUT is only asked about the resource its row's key *)
(* has: what the run with teardown refutes hangs off teardown alone.       *)
THEOREM EvalSolvesOnLiveSubject == ~Teardown => (Spec => SolvesOnLiveSubject)
<1> SUFFICES ASSUME ~Teardown PROVE Spec => SolvesOnLiveSubject
  OBVIOUS
<1>1. Init => LiveInv
  BY DEF Init, LiveInv, OnLiveSubjects, BlankSheet
<1>2. EvalInv /\ LiveInv /\ [Next]_vars => LiveInv'
  BY LiveStep
<1>3. EvalInv /\ LiveInv /\ [Next]_vars =>
        [\A r \in Rows : rtask[r] # "fetching" /\ rtask'[r] = "fetching"
           => LET k == KeyOf[r] IN subject[k] # 0 /\ ws.prov[k].subject = subject[k]]_vars
  <2> SUFFICES ASSUME EvalInv, LiveInv, Next, NEW r \in Rows,
                      rtask[r] # "fetching", rtask'[r] = "fetching"
               PROVE  subject[KeyOf[r]] # 0 /\ ws.prov[KeyOf[r]].subject = subject[KeyOf[r]]
    BY DEF vars
  <2>1. ws.prov[KeyOf[r]].state = "ok"
    <3>1. RowTask(r)' /\ ws'.prov[KeyOf[r]].state = "ok" /\ mode' \in {"rows", "exit", "report"}
      BY TasksStep DEF Tasks, RowTask
    <3>2. ws'.prov = ws.prov
      BY <3>1, SheetMoves DEF KeepsSheet, FillsProv, FillsSolve, FillsScore
    <3> QED
      BY <3>1, <3>2
  <2> QED
    BY <2>1, EvalAssumption DEF LiveInv, OnLiveSubjects
<1> QED
  BY <1>1, <1>2, <1>3, EvalInvariant, PTL DEF Spec, SolvesOnLiveSubject

=============================================================================
