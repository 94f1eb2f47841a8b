----------------------------- MODULE CaseProofs -----------------------------
(***************************************************************************)
(* A case: its lifecycle, the waits of a step and the stream of an answer. *)
(*                                                                         *)
(* The lifecycle, for every set of cases, every plan of phases and both    *)
(* languages: no phase hides a worse one, a pass was judged, an error      *)
(* quotes a phase that errored, the phases come in order.  CaseInv is the  *)
(* inductive invariant.  It adds to these what each phase leaves behind:   *)
(* nothing ahead of the phase a case is at has a result, everything behind *)
(* it was called unless it was blocked, and whatever blocks also spoils    *)
(* the status and has a reason.                                            *)
(*                                                                         *)
(* The waits tell the truth, for every deadline, interval and window,      *)
(* every bound on slow calls and late wake-ups, and any number of Pods,    *)
(* events and failing calls.  WaitInv is the inductive invariant.  Its     *)
(* core is Watched: while a helper is on, a moment that it should have     *)
(* noticed has lasted no longer than Unseen, a bound that depends on where *)
(* the helper is, and that a call the server failed extends by one round.  *)
(* It rests on a sample telling the truth when it is taken (Pods: names    *)
(* and UIDs are not confused) and on the clock of each state (Clock).      *)
(* Timely is what holds besides when the plan is one whose deadline is     *)
(* looked at: how late each state may be, and whom a delete is aimed at.   *)
(*                                                                         *)
(* The stream of an answer is without loss, however the network cuts it.   *)
(***************************************************************************)
EXTENDS CaseRun, CaseTools, FiniteSetTheorems, SequenceTheorems, WellFoundedInduction, TLAPS

(* The lifecycle.                                                          *)
Bad == {"fail", "error", "skipped"}

(* The phases a case that did not unwind has behind it.                    *)
Behind(c) ==
  IF place[c] = "execute" THEN {"prepare"}
  ELSE IF place[c] = "judge" THEN {"prepare", "execute"}
  ELSE IF place[c] = "cleanup" THEN {"prepare", "execute", "judge"}
  ELSE IF place[c] \in {"over", "recorded"} THEN Phases
  ELSE {}

NothingAhead(c) ==
  place[c] # "unwound" => \A p \in Phases \ Behind(c) : phase[c][p] = "none"

EverythingBehind(c) ==
  \A p \in Behind(c) \cap Plan[c] :
    p \in {"prepare", "cleanup"} \/ ~blocked[c] => phase[c][p] \in Statuses

Blocks(c) ==
  /\ \A p \in {"prepare", "execute", "judge"} : phase[c][p] \in Bad => blocked[c]
  /\ blocked[c] => status[c] # "pass"
  /\ status[c] # "pass" => reason[c] # "none"

Worst(c) ==
  /\ status[c] = "error" <=> \E p \in Phases : phase[c][p] = "error"
  /\ status[c] = "fail" <=>
       (\E p \in Phases : phase[c][p] = "fail") /\ \A p \in Phases : phase[c][p] # "error"
  /\ status[c] = "pass" <=> \A p \in Phases : phase[c][p] \notin Bad

Explained(c) ==
  reason[c] # "none" =>
    /\ phase[c][reason[c]] \in Bad
    /\ status[c] = "error" => phase[c][reason[c]] = "error"

Judged(c) == phase[c]["judge"] \in Statuses => phase[c]["execute"] = "pass"

Regular(c) ==
  NothingAhead(c) /\ EverythingBehind(c) /\ Blocks(c) /\ Worst(c) /\ Explained(c) /\ Judged(c)

(* A case without a lifecycle of its own.                                  *)
Apart(c) ==
  /\ place[c] \in {"todo", "over", "recorded"}
  /\ place[c] # "todo" => status[c] \in {"skipped", "error"}
  /\ reason[c] = "none" /\ \A p \in Phases : phase[c][p] = "none"

CaseInv == \A c \in Cases : IF c \in NoLifecycle THEN Apart(c) ELSE Regular(c)
IInv == TypeOK /\ CaseInv

-----------------------------------------------------------------------------
(* What the invariant says of one case.                                    *)
Fits(c) == IF c \in NoLifecycle THEN Apart(c) ELSE Regular(c)

(* A step leaves the lifecycle of a case alone.                            *)
Untouched(c) ==
  /\ engine' = engine /\ broken' = broken
  /\ place'[c] = place[c] /\ phase'[c] = phase[c] /\ status'[c] = status[c]
  /\ blocked'[c] = blocked[c] /\ reason'[c] = reason[c]

LEMMA UntouchedFits ==
  ASSUME NEW c \in Cases, Fits(c), Untouched(c)
  PROVE  Fits(c)'
<1>0. NoLifecycle' = NoLifecycle
  BY DEF Untouched, NoLifecycle
<1>1. CASE c \in NoLifecycle
  BY <1>0, <1>1 DEF Fits, Untouched, Apart
<1>2. CASE c \notin NoLifecycle
  <2>1. Behind(c)' = Behind(c)
    BY DEF Untouched, Behind
  <2> QED
    BY <1>0, <1>2, <2>1 DEF Fits, Untouched, Regular, NothingAhead, EverythingBehind, Blocks,
       Worst, Explained, Judged
<1> QED
  BY <1>1, <1>2

(* The order of the phases, one line per phase.                            *)
LEMMA OrderIs ==
  ASSUME NEW c \in Cases
  PROVE  /\ place[c] = "prepare" => Order(c) = "execute"
         /\ place[c] = "execute" => Order(c) = "judge"
         /\ place[c] = "judge" => Order(c) = "cleanup"
         /\ place[c] = "cleanup" => Order(c) = "over"
  BY DEF Order

LEMMA ActiveIsRegular ==
  ASSUME CaseInv, NEW c \in Cases, InPhase(c)
  PROVE  c \notin NoLifecycle /\ Regular(c) /\ place[c] # "unwound" /\ phase[c][place[c]] = "none"
<1>1. c \notin NoLifecycle
  BY DEF CaseInv, InPhase, Apart, Phases
<1>2. Regular(c)
  BY <1>1 DEF CaseInv
<1>3. place[c] \in Phases \ Behind(c) /\ place[c] # "unwound"
  BY DEF InPhase, Behind, Phases
<1> QED
  BY <1>1, <1>2, <1>3 DEF Regular, NothingAhead
-----------------------------------------------------------------------------
LEMMA TypeInit == CaseInit => TypeOK
  BY DEF CaseInit, TypeOK, Phases, Statuses

LEMMA TypeStep == TypeOK /\ [CaseNext]_vars => TypeOK'
<1> SUFFICES ASSUME TypeOK, [CaseNext]_vars PROVE TypeOK'
  OBVIOUS
<1> USE DEF TypeOK
<1>1. CASE Configure
  BY <1>1 DEF Configure
<1>2. ASSUME NEW c \in Cases, BeginCase(c) PROVE TypeOK'
  BY <1>2 DEF BeginCase, Phases, Statuses
<1>3. ASSUME NEW c \in Cases, NEW s \in Statuses, RunPhase(c, s) PROVE TypeOK'
  <2>1. place[c] \in Phases /\ Order(c) \in Phases \cup {"over"}
    BY <1>3, OrderIs DEF RunPhase, InPhase, Phases
  <2>2. phase' \in [Cases -> [Phases -> Statuses \cup {"none", "blocked"}]]
    BY <1>3, <2>1 DEF RunPhase
  <2>3. /\ status' \in [Cases -> Statuses]
        /\ blocked' \in [Cases -> BOOLEAN]
        /\ reason' \in [Cases -> Phases \cup {"none"}]
    BY <1>3, <2>1 DEF RunPhase, Apply, Statuses
  <2>4. resource' \in [Cases -> BOOLEAN]
    BY <1>3 DEF RunPhase
  <2>5. place' \in [Cases -> Phases \cup {"todo", "over", "recorded", "unwound"}]
    BY <1>3, <2>1 DEF RunPhase
  <2> QED
    BY <1>3, <2>2, <2>3, <2>4, <2>5 DEF RunPhase
<1>4. ASSUME NEW c \in Cases, PassOver(c) PROVE TypeOK'
  <2>1. place[c] \in Phases /\ Order(c) \in Phases \cup {"over"}
    BY <1>4, OrderIs DEF PassOver, InPhase, Phases
  <2> QED
    BY <1>4, <2>1 DEF PassOver
<1>5. ASSUME NEW c \in Cases, Unwind(c) PROVE TypeOK'
  BY <1>5 DEF Unwind
<1>6. ASSUME NEW c \in Cases, Record(c) PROVE TypeOK'
  BY <1>6 DEF Record
<1>7. CASE Finish
  BY <1>7 DEF Finish, Rollup, Statuses
<1>8. CASE UNCHANGED vars
  BY <1>8 DEF vars
<1> QED
  BY <1>1, <1>2, <1>3, <1>4, <1>5, <1>6, <1>7, <1>8 DEF CaseNext, Step, Over

(* Every variable of the case lifecycle keeps its type.                    *)
THEOREM CaseTypeCorrect == CaseSpec => []TypeOK
  BY TypeInit, TypeStep, PTL DEF CaseSpec
-----------------------------------------------------------------------------
LEMMA OnlyTouches ==
  ASSUME TypeOK, NEW c \in Cases, NEW d \in Cases, d # c,
         \/ BeginCase(c) \/ PassOver(c) \/ Unwind(c) \/ Record(c)
         \/ \E s \in Statuses : RunPhase(c, s)
  PROVE  Untouched(d)
<1>1. CASE BeginCase(c)
  BY <1>1 DEF TypeOK, BeginCase, Untouched
<1>2. CASE PassOver(c)
  BY <1>2 DEF TypeOK, PassOver, Untouched
<1>3. CASE Unwind(c)
  BY <1>3 DEF TypeOK, Unwind, Untouched
<1>4. CASE Record(c)
  BY <1>4 DEF TypeOK, Record, Untouched
<1>5. ASSUME NEW s \in Statuses, RunPhase(c, s) PROVE Untouched(d)
  BY <1>5 DEF TypeOK, RunPhase, Apply, Untouched
<1> QED
  BY <1>1, <1>2, <1>3, <1>4, <1>5

LEMMA BeginFits ==
  ASSUME TypeOK, CaseInv, NEW c \in Cases, BeginCase(c)
  PROVE  Fits(c)'
<1>1. /\ UNCHANGED <<phase, blocked, reason>> /\ place[c] = "todo"
      /\ NoLifecycle' = NoLifecycle
  BY DEF BeginCase, NoLifecycle
<1>2. CASE c \in NoLifecycle
  <2>1. place'[c] = "over" /\ status'[c] \in {"error", "skipped"}
    BY <1>2 DEF BeginCase, NoLifecycle, TypeOK
  <2> QED
    BY <1>1, <1>2, <2>1 DEF CaseInv, Fits, Apart
<1>3. CASE c \notin NoLifecycle
  <2>1. place'[c] = "prepare" /\ UNCHANGED status
    BY <1>3 DEF BeginCase, NoLifecycle, TypeOK
  <2>2. Behind(c) = {} /\ Behind(c)' = {}
    BY <1>1, <2>1 DEF Behind
  <2> QED
    BY <1>1, <1>3, <2>1, <2>2 DEF CaseInv, Fits, Regular, NothingAhead, EverythingBehind,
       Blocks, Worst, Explained, Judged
<1> QED
  BY <1>2, <1>3

(* The phase a case leaves is behind it, and nothing else changes sides.   *)
LEMMA Advance ==
  ASSUME TypeOK, NEW c \in Cases, InPhase(c), place' = [place EXCEPT ![c] = Order(c)]
  PROVE  Behind(c)' = Behind(c) \cup {place[c]} /\ place'[c] # "unwound"
<1>1. place'[c] = Order(c)
  BY DEF TypeOK
<1> QED
  BY <1>1, OrderIs DEF InPhase, Behind, Phases

LEMMA PassOverFits ==
  ASSUME TypeOK, CaseInv, NEW c \in Cases, PassOver(c)
  PROVE  Fits(c)'
<1>0. NoLifecycle' = NoLifecycle
  BY DEF PassOver, NoLifecycle
<1> DEFINE p == place[c]
<1>1. InPhase(c) /\ ~Runs(c, p) /\ p \in Phases
  BY DEF PassOver, InPhase
<1>2. c \notin NoLifecycle /\ Regular(c) /\ place[c] # "unwound" /\ phase[c][p] = "none"
  BY <1>1, ActiveIsRegular
<1>3. Behind(c)' = Behind(c) \cup {p} /\ place'[c] # "unwound"
  BY <1>1, Advance DEF PassOver
<1>4. /\ phase'[c][p] \in {"none", "blocked"}
      /\ \A q \in Phases \ {p} : phase'[c][q] = phase[c][q]
  BY <1>1 DEF PassOver, TypeOK
<1>5. UNCHANGED <<status, blocked, reason>>
  BY DEF PassOver
<1>6. NothingAhead(c)'
  BY <1>2, <1>3, <1>4 DEF Regular, NothingAhead
<1>7. EverythingBehind(c)'
  <2>1. p \in Plan[c] => p \notin {"prepare", "cleanup"} /\ blocked[c]
    BY <1>1 DEF Runs, Phases
  <2>2. Behind(c) \subseteq Phases
    BY DEF Behind, Phases
  <2> QED
    BY <1>2, <1>3, <1>4, <1>5, <2>1, <2>2 DEF Regular, EverythingBehind
<1>8. \A q \in Phases : phase'[c][q] \in Statuses \/ phase[c][q] \in Statuses
                          => phase'[c][q] = phase[c][q]
  BY <1>2, <1>4 DEF Statuses
<1>9. (Blocks(c) /\ Worst(c) /\ Judged(c))'
  BY <1>2, <1>5, <1>8 DEF Regular, Blocks, Worst, Judged, Bad, Statuses, Phases
<1>10. Explained(c)'
  BY <1>2, <1>5, <1>8 DEF Regular, Explained, Bad, Statuses, Phases, TypeOK
<1> QED
  BY <1>0, <1>2, <1>6, <1>7, <1>9, <1>10 DEF Fits, Regular

LEMMA RunPhaseFits ==
  ASSUME TypeOK, CaseInv, NEW c \in Cases, NEW s \in Statuses, RunPhase(c, s)
  PROVE  Fits(c)'
<1>0. NoLifecycle' = NoLifecycle
  BY DEF RunPhase, NoLifecycle
<1> DEFINE p == place[c]
<1>1. InPhase(c) /\ Runs(c, p) /\ p \in Phases
  BY DEF RunPhase, InPhase
<1>2. c \notin NoLifecycle /\ Regular(c) /\ place[c] # "unwound" /\ phase[c][p] = "none"
  BY <1>1, ActiveIsRegular
<1>3. Behind(c)' = Behind(c) \cup {p} /\ place'[c] # "unwound"
  BY <1>1, Advance DEF RunPhase
<1>4. phase'[c][p] = s /\ \A q \in Phases \ {p} : phase'[c][q] = phase[c][q]
  BY <1>1 DEF RunPhase, TypeOK
<1>5. /\ status'[c] = IF s = "error" \/ (s = "fail" /\ status[c] # "error")
                          \/ (s = "skipped" /\ status[c] = "pass") THEN s ELSE status[c]
      /\ reason'[c] = IF s # "pass" /\ (reason[c] = "none" \/ s = "error")
                        THEN p ELSE reason[c]
      /\ blocked'[c] = (blocked[c] \/ (s # "pass" /\ p # "cleanup"))
  BY DEF RunPhase, Apply, TypeOK
<1>6. s \in {"pass", "fail", "error", "skipped"} /\ status[c] \in {"pass", "fail", "error", "skipped"}
  BY DEF TypeOK, Statuses
<1>7. NothingAhead(c)'
  BY <1>2, <1>3, <1>4 DEF Regular, NothingAhead
<1>8. EverythingBehind(c)'
  <2>1. Behind(c) \subseteq Phases
    BY DEF Behind, Phases
  <2> QED
    BY <1>2, <1>3, <1>4, <1>5, <2>1 DEF Regular, EverythingBehind
<1>9. Blocks(c)'
  BY <1>1, <1>2, <1>4, <1>5, <1>6 DEF Regular, Blocks, Bad, Phases
<1>10. Worst(c)'
  BY <1>1, <1>2, <1>4, <1>5, <1>6 DEF Regular, Worst, Bad
<1>11. Explained(c)'
  <2>1. reason[c] \in Phases \cup {"none"} /\ "none" \notin Phases
    BY DEF TypeOK, Phases
  <2>2. reason[c] # "none" => reason[c] # p
    BY <1>2 DEF Regular, Explained, Bad
  <2> QED
    BY <1>1, <1>2, <1>4, <1>5, <1>6, <2>1, <2>2 DEF Regular, Explained, Blocks, Bad
<1>12. Judged(c)'
  <2>1. CASE p = "judge"
    <3>1. ~blocked[c] /\ "execute" \in Behind(c) \cap Plan[c]
      BY <1>1, <2>1, CaseAssumption DEF Runs, Behind
    <3>2. phase[c]["execute"] = "pass"
      BY <1>2, <3>1 DEF Regular, EverythingBehind, Blocks, Bad, Statuses
    <3> QED
      BY <1>4, <2>1, <3>2 DEF Judged, Phases
  <2>2. CASE p # "judge"
    <3>1. phase'[c]["judge"] = phase[c]["judge"]
      BY <1>4, <2>2 DEF Phases
    <3>2. p = "execute" => phase[c]["judge"] = "none"
      BY <1>2 DEF Regular, NothingAhead, Behind, Phases
    <3> QED
      BY <1>2, <1>4, <3>1, <3>2 DEF Regular, Judged, Phases, Statuses
  <2> QED
    BY <2>1, <2>2
<1> QED
  BY <1>0, <1>2, <1>7, <1>8, <1>9, <1>10, <1>11, <1>12 DEF Fits, Regular

LEMMA UnwindFits ==
  ASSUME TypeOK, CaseInv, NEW c \in Cases, Unwind(c)
  PROVE  Fits(c)'
<1>0. NoLifecycle' = NoLifecycle
  BY DEF Unwind, NoLifecycle
<1>1. c \notin NoLifecycle /\ Regular(c)
  BY ActiveIsRegular DEF Unwind
<1>2. place'[c] = "unwound" /\ UNCHANGED <<phase, status, blocked, reason>>
  BY DEF Unwind, TypeOK
<1>3. Behind(c)' = {}
  BY <1>2 DEF Behind
<1> QED
  BY <1>0, <1>1, <1>2, <1>3 DEF Fits, Regular, NothingAhead, EverythingBehind, Blocks, Worst,
     Explained, Judged

LEMMA RecordFits ==
  ASSUME TypeOK, CaseInv, NEW c \in Cases, Record(c)
  PROVE  Fits(c)'
<1>0. NoLifecycle' = NoLifecycle
  BY DEF Record, NoLifecycle
<1>1. /\ place[c] = "over" /\ place'[c] = "recorded"
      /\ UNCHANGED <<phase, status, blocked, reason>>
  BY DEF Record, TypeOK
<1>2. Behind(c)' = Behind(c)
  BY <1>1 DEF Behind
<1> QED
  BY <1>0, <1>1, <1>2 DEF CaseInv, Fits, Apart, Regular, NothingAhead, EverythingBehind, Blocks,
     Worst, Explained, Judged

LEMMA CaseInvInit == CaseInit => CaseInv
<1> SUFFICES ASSUME CaseInit, NEW c \in Cases PROVE Fits(c)
  BY DEF CaseInv, Fits
<1>1. Behind(c) = {}
  BY DEF CaseInit, Behind
<1> QED
  BY <1>1 DEF CaseInit, Fits, Apart, Regular, NothingAhead, EverythingBehind, Blocks, Worst,
     Explained, Judged, Bad, Statuses, Phases

LEMMA CaseInvStep == TypeOK /\ CaseInv /\ [CaseNext]_vars => CaseInv'
<1> SUFFICES ASSUME TypeOK, CaseInv, [CaseNext]_vars, NEW d \in Cases PROVE Fits(d)'
  BY DEF CaseInv, Fits
<1>1. Untouched(d) => Fits(d)'
  BY UntouchedFits DEF CaseInv, Fits
<1>2. ASSUME NEW c \in Cases, Step(c) PROVE Fits(d)'
  <2>1. CASE d = c
    BY <1>2, <2>1, BeginFits, RunPhaseFits, PassOverFits, UnwindFits, RecordFits DEF Step
  <2>2. CASE d # c
    BY <1>1, <1>2, <2>2, OnlyTouches DEF Step
  <2> QED
    BY <2>1, <2>2
<1>3. CASE Configure \/ Finish \/ UNCHANGED vars
  BY <1>1, <1>3 DEF Configure, Finish, vars, Untouched
<1> QED
  BY <1>2, <1>3 DEF CaseNext, Over

LEMMA CaseInvariant == CaseSpec => []IInv
<1>1. CaseInit => IInv
  BY TypeInit, CaseInvInit DEF IInv
<1>2. IInv /\ [CaseNext]_vars => IInv'
  BY TypeStep, CaseInvStep DEF IInv
<1> QED
  BY <1>1, <1>2, PTL DEF CaseSpec
-----------------------------------------------------------------------------
LEMMA WorstIsCounted == IInv => StatusIsWorst
<1> SUFFICES ASSUME IInv, NEW c \in Cases \ NoLifecycle
             PROVE  /\ status[c] = "error" <=> "error" \in Counted(c)
                    /\ status[c] = "fail" <=>
                         "fail" \in Counted(c) /\ "error" \notin Counted(c)
                    /\ status[c] = "pass" <=>
                         Counted(c) \cap {"error", "fail", "skipped"} = {}
  BY DEF StatusIsWorst, NoLifecycle
<1>1. Worst(c)
  BY DEF IInv, CaseInv, Regular
<1>2. \A s : s \in Counted(c) <=> \E p \in Phases : phase[c][p] = s
  BY DEF Counted
<1> QED
  BY <1>1, <1>2 DEF Worst, Bad

(* A case's status is the worst of the phases that counted, whatever the   *)
(* plan and wherever the case is in its lifecycle.                         *)
THEOREM CaseStatusIsWorst == CaseSpec => []StatusIsWorst
  BY CaseInvariant, WorstIsCounted, PTL

LEMMA PassWasJudged == IInv => PassMeansJudged
<1> SUFFICES ASSUME IInv, NEW c \in Cases, NEW p \in Plan[c],
                    place[c] \in {"over", "recorded"}, status[c] = "pass"
             PROVE  phase[c][p] = "pass"
  BY DEF PassMeansJudged
<1>1. Regular(c)
  BY DEF IInv, CaseInv, Apart
<1>2. p \in Phases /\ Behind(c) = Phases
  BY CaseAssumption DEF Behind
<1>3. ~blocked[c] /\ phase[c][p] \notin Bad
  BY <1>1, <1>2 DEF Regular, Blocks, Worst
<1>4. phase[c][p] \in Statuses
  BY <1>1, <1>2, <1>3 DEF Regular, EverythingBehind
<1> QED
  BY <1>3, <1>4 DEF Statuses, Bad

(* A case that is over and passed ran every phase of its plan, and each of *)
(* them passed.                                                            *)
THEOREM CasePassMeansJudged == CaseSpec => []PassMeansJudged
  BY CaseInvariant, PassWasJudged, PTL

LEMMA ReasonExplains == IInv => ErrorIsExplained
  BY DEF IInv, CaseInv, Apart, Regular, Explained, Bad, ErrorIsExplained

(* The phase a reason quotes did not pass, and is one that errored if the  *)
(* case did, whatever failed first.                                        *)
THEOREM CaseErrorIsExplained == CaseSpec => []ErrorIsExplained
  BY CaseInvariant, ReasonExplains, PTL

LEMMA PhasesInOrder == IInv => PhaseOrder
<1> SUFFICES ASSUME IInv, NEW c \in Cases
             PROVE  /\ phase[c]["judge"] \in Statuses => phase[c]["execute"] = "pass"
                    /\ /\ place[c] \in {"over", "recorded"}
                       /\ c \notin NoLifecycle /\ "cleanup" \in Plan[c]
                       => phase[c]["cleanup"] \in Statuses
  BY DEF PhaseOrder
<1>1. CASE c \in NoLifecycle
  BY <1>1 DEF IInv, CaseInv, Apart, NoLifecycle, Phases, Statuses
<1>2. CASE c \notin NoLifecycle
  BY <1>2 DEF IInv, CaseInv, Regular, Judged, EverythingBehind, Behind, Phases
<1> QED
  BY <1>1, <1>2

(* What the result of a case says of it, as the run checks it.             *)
THEOREM CaseOutcomeIsHonest == CaseSpec => []OutcomeIsHonest
  BY CaseTypeCorrect, CaseStatusIsWorst, CasePassMeansJudged, CaseErrorIsExplained, PTL
  DEF OutcomeIsHonest

(* A judge ran only after an execute that passed, and a case that is over  *)
(* and plans a cleanup has run it.                                         *)
THEOREM CasePhaseOrder == CaseSpec => []PhaseOrder
  BY CaseInvariant, PhasesInOrder, PTL
-----------------------------------------------------------------------------
(* The strengthening for the verdict: until the run ends nothing is        *)
(* written, and Go's exit code remembers every failure that was recorded.  *)
VerdictInv ==
  /\ run # "ended" => verdict = "none"
  /\ verdict # "none" => verdict = Rollup({status[c] : c \in Recorded})
  /\ exit => \A c \in Recorded : status[c] \notin {"fail", "error"}

LEMMA RecordedStays ==
  ASSUME TypeOK, NEW c \in Cases,
         \/ BeginCase(c) \/ PassOver(c) \/ Unwind(c) \/ \E s \in Statuses : RunPhase(c, s)
  PROVE  /\ Recorded' = Recorded /\ \A d \in Recorded : status'[d] = status[d]
         /\ exit' => exit
<1>1. c \notin Recorded
  BY DEF BeginCase, PassOver, Unwind, RunPhase, InPhase, Recorded, Phases
<1>2. /\ place'[c] # "recorded" /\ (exit' => exit)
      /\ \A d \in Cases \ {c} : place'[d] = place[d] /\ status'[d] = status[d]
  <2>1. CASE BeginCase(c)
    BY <2>1 DEF BeginCase, TypeOK
  <2>2. CASE PassOver(c)
    BY <2>2, OrderIs DEF PassOver, InPhase, Phases, TypeOK
  <2>3. CASE Unwind(c)
    BY <2>3 DEF Unwind, TypeOK
  <2>4. ASSUME NEW s \in Statuses, RunPhase(c, s)
        PROVE  /\ place'[c] # "recorded" /\ (exit' => exit)
               /\ \A d \in Cases \ {c} : place'[d] = place[d] /\ status'[d] = status[d]
    BY <2>4, OrderIs DEF RunPhase, Apply, InPhase, Phases, TypeOK
  <2> QED
    BY <2>1, <2>2, <2>3, <2>4
<1> QED
  BY <1>1, <1>2 DEF Recorded

LEMMA VerdictStep == TypeOK /\ VerdictInv /\ [CaseNext]_vars => VerdictInv'
<1> SUFFICES ASSUME TypeOK, VerdictInv, [CaseNext]_vars PROVE VerdictInv'
  OBVIOUS
<1>1. ASSUME NEW c \in Cases, run = "running", verdict' = verdict, run' # "ended",
             \/ BeginCase(c) \/ PassOver(c) \/ Unwind(c) \/ \E s \in Statuses : RunPhase(c, s)
      PROVE  VerdictInv'
  BY <1>1, RecordedStays DEF VerdictInv
<1>2. ASSUME NEW c \in Cases, Step(c) PROVE VerdictInv'
  <2>1. CASE Record(c)
    <3>1. Recorded' = Recorded \cup {c} /\ UNCHANGED <<status, verdict, run>>
      BY <2>1 DEF Record, Recorded, TypeOK
    <3>2. exit' => exit /\ status[c] \notin {"fail", "error"}
      BY <2>1 DEF Record
    <3> QED
      BY <1>2, <3>1, <3>2 DEF Step, VerdictInv
  <2>2. CASE ~Record(c)
    <3>1. run = "running" /\ verdict' = verdict /\ run' # "ended"
      BY <1>2, <2>2 DEF Step, BeginCase, PassOver, Unwind, RunPhase
    <3> QED
      BY <1>1, <1>2, <2>2, <3>1 DEF Step
  <2> QED
    BY <2>1, <2>2
<1>3. CASE Configure
  <2>1. UNCHANGED <<verdict, status>> /\ Recorded' = Recorded /\ (exit' => exit) /\ run = "new"
    BY <1>3 DEF Configure, Recorded, TypeOK
  <2> QED
    BY <2>1 DEF VerdictInv
<1>4. CASE Finish
  <2>1. UNCHANGED status /\ Recorded' = Recorded /\ (exit' => exit)
        /\ run' = "ended" /\ verdict = "none"
    BY <1>4 DEF Finish, Recorded, VerdictInv, TypeOK
  <2>2. verdict' = "none" \/ verdict' = Rollup({status[c] : c \in Recorded})
    BY <1>4, <2>1 DEF Finish
  <2> QED
    BY <2>1, <2>2 DEF VerdictInv
<1>5. CASE UNCHANGED vars
  BY <1>5 DEF vars, VerdictInv, Recorded
<1> QED
  BY <1>2, <1>3, <1>4, <1>5 DEF CaseNext, Over

LEMMA VerdictFollows == TypeOK /\ VerdictInv => VerdictIsHonest
<1> SUFFICES ASSUME TypeOK, VerdictInv, run = "ended", verdict # "none"
             PROVE  /\ verdict = "pass" => \A c \in Cases :
                         place[c] = "recorded" => status[c] \in {"pass", "skipped"}
                    /\ engine = "go" /\ exit => verdict \in {"pass", "skipped"}
  BY DEF VerdictIsHonest
<1> DEFINE S == {status[c] : c \in Recorded}
<1>1. verdict = Rollup(S) /\ S \subseteq Statuses
  BY DEF VerdictInv, Recorded, TypeOK
<1>2. verdict = "pass" => S \cap {"error", "fail"} = {}
  BY <1>1 DEF Rollup
<1>3. exit => S \cap {"error", "fail"} = {}
  BY DEF VerdictInv
<1> QED
  BY <1>1, <1>2, <1>3 DEF Rollup, Statuses, Recorded

(* A verdict that is written is no pass while a recorded case failed, and  *)
(* go test exits 0 only with a verdict that is a pass or skipped.          *)
THEOREM CaseVerdictIsHonest == CaseSpec => []VerdictIsHonest
<1>1. CaseInit => VerdictInv
  BY DEF CaseInit, VerdictInv, Recorded
<1> QED
  BY <1>1, VerdictStep, VerdictFollows, CaseTypeCorrect, PTL DEF CaseSpec

-----------------------------------------------------------------------------
(* The waits.                                                              *)
PodType == [name : Nat, uid : Nat, ready : BOOLEAN, deleting : BOOLEAN, unschedulable : BOOLEAN]
SeenType == [answer : {"yes", "no", "identity", "error"}, pod : PodType]

Active == at \in {"check", "asking", "answered", "asleep"}

WaitShape ==
  /\ lang \in {"python", "go"} /\ now \in Nat /\ failed \in Nat /\ born \in Nat
  /\ begun \in Nat /\ asked \in Nat /\ wake \in Nat
  /\ pods \subseteq PodType /\ target \in PodType /\ seen \in SeenType
  /\ plan \in Seq(Helpers) /\ op \in Helpers \cup {"none"}
  /\ at \in {"begin", "check", "asking", "answered", "asleep", "over"}
  /\ outcome \in {"none", "ok", "timeout", "refused", "false", "error", "identity"}
  /\ edges \in Seq([at : Nat, holds : BOOLEAN])
  /\ at = "begin" => plan # <<>>
  /\ Active => op \in Helpers /\ outcome = "none"

(* A name is of one Pod at a time, and a UID always of the same name.      *)
Named1(p) == p.uid <= born /\ \A q \in pods : q.uid = p.uid => q.name = p.name
Pods ==
  /\ \A p, q \in pods : p.name = q.name => p = q
  /\ \A p \in pods : Named1(p)
  /\ Named1(target)
  /\ at = "answered" /\ op = "replacement" /\ seen.answer = "yes" => Named1(seen.pod)

Clock ==
  /\ at \in {"asking", "answered"} => asked <= now /\ now <= asked + Slow
  /\ at = "asleep" => asked <= now /\ now <= wake + Late /\ wake <= now + Interval

(* What a helper must not overlook: that its condition holds, or for       *)
(* consistently that it does not; and the answer on which it goes on.      *)
Missable == op # "consistently"
Quiet == IF op = "consistently" THEN "yes" ELSE "no"
Slack == IF op = "consistently" THEN 0 ELSE Blind * failed
Pause == Interval + Late + Slow

(* How long that may have lasted and not been seen.                        *)
Unseen ==
  CASE at = "check"  -> Slack + Pause
    [] at = "asking" -> Slack + Pause + (now - asked)
    [] at = "answered" -> Slack + (now - asked) + IF seen.answer = Quiet THEN 0 ELSE Pause
    [] at = "asleep" -> Slack + Slow + Interval + (now - wake)
    [] OTHER -> Slack + Blind

To(i) == IF i < Len(edges) THEN edges[i + 1].at ELSE now
Bounded ==
  \A i \in DOMAIN edges : edges[i].holds = Missable =>
    To(i) - edges[i].at <= IF i < Len(edges) THEN Slack + Blind ELSE Unseen
Watched ==
  /\ Active => edges # <<>> /\ edges[Len(edges)].holds = Holds(op, pods) /\ Bounded
  /\ outcome = "timeout" /\ op # "consistently" => Bounded
  /\ outcome = "ok" /\ op = "consistently" => Bounded

(* What a helper found is true of some moment since it asked.              *)
SeenSinceAsked == \E i \in DOMAIN edges : edges[i].holds /\ To(i) >= asked
Found ==
  /\ outcome = "ok" /\ op # "delete" => SeenSinceAsked
  /\ at = "answered" /\ seen.answer = "yes" /\ op # "delete" => SeenSinceAsked
  /\ at = "asleep" /\ op = "consistently" => SeenSinceAsked

Punctual ==
  /\ outcome = "timeout" => now >= Budget
  /\ outcome = "ok" /\ op = "consistently" => now >= begun + Window

WaitInv == WaitShape /\ Pods /\ Clock /\ Watched /\ Found /\ Punctual

(* A helper that looks at the deadline only between two calls, or that     *)
(* acts on the Pod it was told of, is called first.                        *)
Unheeding == {"delete"} \cup Temporal
ActsFirst == \A p \in Plans : \A i \in 2 .. Len(p) : p[i] \notin Unheeding

Timely ==
  /\ now <= Budget + Slow + Late
  /\ op # "none" => \A i \in DOMAIN plan : plan[i] \notin Unheeding
  /\ op = "none" => now = 0 /\ plan \in Plans \cup {<<>>}
  /\ op \in {"none"} \cup Unheeding /\ at # "over" => target.uid \in known
  /\ Active /\ op = "consistently" => begun + Window < Budget
  /\ at = "check" /\ ~Heeds => now <= Budget + Late
  /\ at \in {"asking", "answered"} => IF Heeds THEN now <= Budget ELSE asked <= Budget + Late
  /\ at = "asleep" => now <= Budget + Late /\ (lang = "python" => wake <= Budget)
  /\ killed \subseteq known
-----------------------------------------------------------------------------
LEMMA LeastElement ==
  ASSUME NEW T \in SUBSET Nat, T # {}
  PROVE  \E n \in T : \A m \in T : n <= m
<1> DEFINE R == {ss \in Nat \X Nat : ss[1] < ss[2]}
<1>1. IsWellFoundedOn(R, Nat)
  BY NatLessThanWellFounded DEF OpToRel
<1> HIDE DEF R
<1>2. PICK x \in T : \A y \in T : ~ (<<y, x>> \in R)
  BY <1>1, WFMin
<1>3. \A y \in T : ~ (y < x)
  BY <1>2 DEF R
<1> QED
  BY <1>3

(* A sequence that is not empty has a last element.                        *)
LEMMA LastOf ==
  ASSUME NEW T, NEW s \in Seq(T), s # <<>>
  PROVE  /\ Len(s) \in Nat \ {0} /\ DOMAIN s = 1 .. Len(s) /\ Len(s) \in DOMAIN s
         /\ \A i \in DOMAIN s : s[i] \in T
  BY EmptySeq, LenProperties, ElementOfSeq

(* The lengths of time the invariant is made of.                           *)
LEMMA Lengths ==
  /\ Budget \in Nat /\ Interval \in Nat /\ Window \in Nat /\ Slow \in Nat /\ Late \in Nat
  /\ Pause \in Nat /\ Blind \in Nat /\ Blind = Pause + Slow
  BY WaitAssumption DEF Pause, Blind

LEMMA SlackGrows ==
  ASSUME failed \in Nat
  PROVE  /\ Slack \in Nat
         /\ UNCHANGED <<failed, op>> => Slack' = Slack
         /\ failed' = failed + 1 /\ op' = op =>
              /\ Slack' \in Nat /\ Slack <= Slack'
              /\ op # "consistently" => Slack' = Slack + Blind
<1>1. Blind \in Nat /\ Blind * failed \in Nat /\ Blind * (failed + 1) = Blind * failed + Blind
  BY Lengths
<1> QED
  BY <1>1 DEF Slack, Blind

(* No state lets a moment go unseen for longer than one round.             *)
LEMMA UnseenBound ==
  ASSUME WaitShape, Clock
  PROVE  Unseen \in Nat /\ Unseen <= Slack + Blind
<1>1. Slack \in Nat /\ now \in Nat /\ asked \in Nat /\ wake \in Nat
  BY SlackGrows DEF WaitShape
<1>2. CASE at = "check"
  BY <1>1, <1>2, Lengths DEF Unseen
<1>3. CASE at = "asking"
  BY <1>1, <1>3, Lengths DEF Unseen, Clock
<1>4. CASE at = "answered"
  BY <1>1, <1>4, Lengths DEF Unseen, Clock
<1>5. CASE at = "asleep"
  <2>1. /\ Unseen = Slack + Slow + Interval + (now - wake)
        /\ now <= wake + Late /\ wake <= now + Interval
    BY <1>5 DEF Unseen, Clock
  <2> QED
    BY <1>1, <2>1, Lengths DEF Pause
<1>6. CASE at \notin {"check", "asking", "answered", "asleep"}
  BY <1>1, <1>6, Lengths DEF Unseen
<1> QED
  BY <1>2, <1>3, <1>4, <1>5, <1>6

(* A sample says what holds when it is taken, of the Pod it is about.      *)
LEMMA SampleTruth ==
  ASSUME WaitShape, Pods, op \in Helpers \ {"delete"}
  PROVE  /\ Sample \in SeenType
         /\ Sample.answer = "yes" => Holds(op, pods)
         /\ Sample.answer = "no" => ~Holds(op, pods)
         /\ op = "replacement" /\ Sample.answer = "yes" => Sample.pod \in pods
<1>1. /\ \A p \in pods : PodFrom(p) \in PodType /\ PodFrom(p).ready = (p.ready /\ ~p.deleting)
      /\ \A p \in pods : PodFrom(p).unschedulable = p.unschedulable
                         /\ PodFrom(p).deleting = p.deleting
      /\ pods \subseteq PodType /\ NoPod \in PodType /\ No \in SeenType /\ No.answer = "no"
  BY DEF PodFrom, WaitShape, PodType, NoPod, No, Says, SeenType
<1>2. CASE op = "replacement"
  <2> DEFINE new == {p \in pods : p.uid \notin known}
  <2>1. CASE new = {}
    BY <1>1, <1>2, <2>1 DEF Sample, SampleReplacement, Holds, Temporal
  <2>2. CASE new # {}
    <3>1. {p.name : p \in new} \in SUBSET Nat /\ {p.name : p \in new} # {}
      <4>1. \A p \in new : p.name \in Nat
        BY <1>1 DEF PodType
      <4> QED
        BY <2>2, <4>1
    <3>2. \E p \in new : \A q \in new : p.name <= q.name
      <4>1. PICK n \in {p.name : p \in new} : \A m \in {p.name : p \in new} : n <= m
        BY <3>1, LeastElement
      <4> QED
        BY <4>1
    <3>3. PICK p \in new : Sample = Says("yes", p)
      BY <1>2, <2>2, <3>2 DEF Sample, SampleReplacement, Temporal
    <3> QED
      BY <1>1, <1>2, <3>3 DEF Says, SeenType, Holds, Temporal
  <2> QED
    BY <2>1, <2>2
<1>3. CASE op \in {"ready", "unschedulable"}
  <2>1. Sample = SamplePod
    BY <1>3 DEF Sample, Temporal
  <2>2. CASE Named(target.name) = {}
    <3>1. \A p \in pods : p.uid # target.uid
      BY <2>2 DEF Pods, Named1, Named
    <3> QED
      BY <1>1, <1>3, <2>1, <2>2, <3>1 DEF SamplePod, Holds, Temporal
  <2>3. CASE Named(target.name) # {}
    <3>1. PICK p \in Named(target.name) :
            SamplePod = IF p.uid # target.uid THEN Says("identity", p)
                        ELSE IF Matches(p) THEN Says("yes", PodFrom(p)) ELSE No
      BY <2>3 DEF SamplePod
    <3>2. p \in pods /\ \A q \in pods : q.uid = target.uid => q = p
      BY DEF Pods, Named1, Named
    <3>3. Matches(p) <=> IF op = "unschedulable" THEN p.unschedulable ELSE p.ready /\ ~p.deleting
      BY <1>1, <3>2 DEF Matches
    <3>4. p.uid = target.uid => (Holds(op, pods) <=> Matches(p))
      BY <1>3, <3>2, <3>3 DEF Holds, Temporal
    <3> QED
      BY <1>1, <1>3, <2>1, <3>1, <3>2, <3>4 DEF Says, SeenType
  <2> QED
    BY <2>2, <2>3
<1>4. CASE op \in Temporal
  <2>1. Sample = SampleService /\ op \notin {"replacement", "ready", "unschedulable"}
    BY <1>4 DEF Sample, Temporal
  <2>2. Holds(op, pods) <=> \E p \in Named(target.name) : PodFrom(p).ready
    BY <1>1, <1>4, <2>1 DEF Holds, Named
  <2> QED
    BY <1>1, <2>1, <2>2 DEF SampleService, Says, SeenType, WaitShape
<1> QED
  BY <1>2, <1>3, <1>4 DEF Helpers

-----------------------------------------------------------------------------
(* A step of the helper itself: the history of its condition stays, and    *)
(* what it has not seen is still within the bound of its new state.        *)
LEMMA WatchGoesOn ==
  ASSUME WaitShape, Clock, Watched, Active, UNCHANGED <<edges, now, op>>,
         Slack' \in Nat, Slack <= Slack',
         Active' => Holds(op, pods)' = Holds(op, pods),
         LET lasted == now - edges[Len(edges)].at
         IN  edges[Len(edges)].holds = Missable /\ lasted <= Unseen => lasted <= Unseen'
  PROVE  Watched'
<1>1. /\ edges # <<>> /\ edges[Len(edges)].holds = Holds(op, pods) /\ Bounded
      /\ edges \in Seq([at : Nat, holds : BOOLEAN]) /\ now \in Nat
  BY DEF Watched, WaitShape
<1>2. /\ Len(edges) \in DOMAIN edges /\ DOMAIN edges = 1 .. Len(edges) /\ Len(edges) \in Nat
      /\ \A i \in DOMAIN edges : edges[i].at \in Nat
  <2>1. \A i \in DOMAIN edges : edges[i] \in [at : Nat, holds : BOOLEAN]
    BY <1>1, LastOf
  <2> QED
    BY <1>1, <2>1, LastOf
<1>3. Missable' = Missable /\ Slack \in Nat /\ Blind \in Nat
  BY SlackGrows, Lengths DEF Missable, WaitShape
<1>4. \A i \in DOMAIN edges : To(i)' = To(i) /\ (i = Len(edges) => To(i) = now)
  BY <1>2 DEF To
<1>5. Bounded'
  <2> SUFFICES ASSUME NEW i \in DOMAIN edges, edges[i].holds = Missable
               PROVE  (To(i) - edges[i].at <= IF i < Len(edges) THEN Slack + Blind ELSE Unseen)'
    BY <1>3 DEF Bounded
  <2>1. CASE i < Len(edges)
    <3>1. To(i) - edges[i].at <= Slack + Blind /\ To(i) \in Nat
      BY <1>1, <1>2, <2>1 DEF Bounded, To
    <3> QED
      BY <1>2, <1>3, <1>4, <2>1, <3>1
  <2>2. CASE i = Len(edges)
    <3>1. now - edges[i].at <= Unseen
      BY <1>1, <1>2, <1>4, <2>2 DEF Bounded
    <3> QED
      BY <1>2, <1>4, <2>2, <3>1
  <2> QED
    BY <1>2, <2>1, <2>2
<1> QED
  BY <1>1, <1>5 DEF Watched

(* The helper ends.                                                        *)
LEMMA EndsInv ==
  ASSUME WaitInv, Active, NEW how \in {"ok", "timeout", "false", "error", "identity"},
         Ends(how), UNCHANGED <<bounds, cluster, history>>,
         how = "timeout" => now >= Budget,
         how = "ok" => /\ op = "delete" \/ SeenSinceAsked
                       /\ op = "consistently" => now >= begun + Window
                       /\ op = "replacement" => at = "answered" /\ seen.answer = "yes"
  PROVE  WaitInv'
<1> USE DEF WaitInv
<1>1. /\ UNCHANGED <<lang, now, failed, pods, born, happened, edges, killed>>
      /\ UNCHANGED <<plan, op, begun, asked, wake, seen, known>>
      /\ outcome' = how /\ at' \in {"begin", "over"} /\ (at' = "begin" => plan # <<>>)
      /\ target' = IF how = "ok" /\ op = "replacement" THEN seen.pod ELSE target
  BY DEF bounds, cluster, history, Ends
<1>2. ~Active' /\ at' # "answered" /\ at' # "asking" /\ at' # "asleep"
  BY <1>1 DEF Active
<1>3. WaitShape'
  BY <1>1, <1>2 DEF WaitShape, SeenType
<1>4. Pods'
  BY <1>1, <1>2 DEF Pods, Named1
<1>5. Clock'
  BY <1>2 DEF Clock
<1>6. Watched'
  <2>1. Slack' = Slack /\ Slack \in Nat /\ Unseen \in Nat /\ Unseen <= Slack + Blind /\ Blind \in Nat
    BY <1>1, SlackGrows, UnseenBound, Lengths DEF WaitShape
  <2>2. Unseen' = Slack + Blind
    BY <1>1, <2>1 DEF Unseen
  <2>3. edges[Len(edges)].at \in Nat
    <3>1. edges # <<>> /\ edges \in Seq([at : Nat, holds : BOOLEAN])
      BY DEF Watched, WaitShape
    <3>2. edges[Len(edges)] \in [at : Nat, holds : BOOLEAN]
      BY <3>1, LastOf
    <3> QED
      BY <3>2
  <2> QED
    BY <1>1, <1>2, <2>1, <2>2, <2>3, WatchGoesOn DEF WaitShape
<1>7. Found'
  <2>1. SeenSinceAsked => SeenSinceAsked'
    BY <1>1 DEF SeenSinceAsked, To
  <2> QED
    BY <1>1, <1>2, <2>1 DEF Found
<1>8. Punctual'
  BY <1>1 DEF Punctual
<1> QED
  BY <1>3, <1>4, <1>5, <1>6, <1>7, <1>8

(* What a step from one state of the helper to another has to keep.        *)
LEMMA HelperMoves ==
  ASSUME WaitInv, Active, Active', UNCHANGED <<cluster, history, now, lang>>,
         UNCHANGED <<plan, op, begun, target, known, outcome>>,
         failed' \in Nat, asked' \in Nat, wake' \in Nat, seen' \in SeenType,
         Slack' \in Nat, Slack <= Slack', Clock',
         LET lasted == now - edges[Len(edges)].at
         IN  edges[Len(edges)].holds = Missable /\ lasted <= Unseen => lasted <= Unseen',
         at' = "answered" /\ seen'.answer = "yes" =>
           /\ op # "delete" => SeenSinceAsked'
           /\ op = "replacement" => Named1(seen.pod)',
         at' = "asleep" /\ op = "consistently" => SeenSinceAsked'
  PROVE  WaitInv'
<1> USE DEF WaitInv
<1>1. UNCHANGED <<pods, born, happened, edges, killed>> /\ outcome = "none" /\ op \in Helpers
  BY DEF cluster, history, WaitShape
<1>2. WaitShape'
  <2>1. at' \in {"begin", "check", "asking", "answered", "asleep", "over"} /\ at' # "begin"
    BY DEF Active
  <2> QED
    BY <1>1, <2>1 DEF WaitShape
<1>3. Pods'
  BY <1>1 DEF Pods, Named1
<1>4. Watched'
  <2>1. Holds(op, pods)' = Holds(op, pods)
    BY <1>1 DEF Holds
  <2> QED
    BY <1>1, <2>1, WatchGoesOn
<1>5. Found' /\ Punctual'
  BY <1>1 DEF Found, Punctual
<1> QED
  BY <1>2, <1>3, <1>4, <1>5

LEMMA CheckInv == WaitInv /\ Check => WaitInv'
<1> SUFFICES ASSUME WaitInv, Check PROVE WaitInv'
  OBVIOUS
<1>1. at = "check" /\ Active /\ UNCHANGED <<bounds, cluster, history>>
  BY DEF Check, Active
<1>2. CASE Heeds /\ now >= Budget
  BY <1>1, <1>2, EndsInv DEF Check
<1>3. CASE ~(Heeds /\ now >= Budget)
  <2>1. /\ at' = "asking" /\ asked' = now
        /\ UNCHANGED <<plan, op, begun, wake, seen, target, known, outcome>>
        /\ UNCHANGED <<lang, now, failed>>
    BY <1>3 DEF Check, bounds
  <2>2. Slack' = Slack /\ Slack \in Nat /\ Unseen' = Unseen /\ now \in Nat
    <3>1. Slack' = Slack /\ Slack \in Nat /\ now \in Nat
      BY <2>1, SlackGrows DEF WaitInv, WaitShape
    <3>2. Unseen = Slack + Pause
      BY <1>1 DEF Unseen
    <3>3. Unseen' = Slack + Pause + (now - now)
      BY <2>1, <3>1 DEF Unseen, Pause
    <3> QED
      BY <3>1, <3>2, <3>3, Lengths
  <2>3. Clock' /\ Active'
    BY <2>1, <2>2, Lengths DEF Clock, Active
  <2> QED
    BY <1>1, <2>1, <2>2, <2>3, HelperMoves DEF WaitInv, WaitShape
<1> QED
  BY <1>2, <1>3

(* The server answers, and what it says is so.                             *)
LEMMA ServeInv == WaitInv /\ Serve => WaitInv'
<1> SUFFICES ASSUME WaitInv, Serve PROVE WaitInv'
  OBVIOUS
<1> DEFINE last == edges[Len(edges)]
<1>1. /\ at = "asking" /\ at' = "answered" /\ op # "delete" /\ seen' = Sample
      /\ UNCHANGED <<plan, op, begun, asked, wake, target, known, outcome>>
      /\ UNCHANGED <<cluster, history, lang, now, failed>>
  BY DEF Serve, Answered, bounds
<1>2. /\ Active /\ Active' /\ op \in Helpers \ {"delete"}
      /\ edges # <<>> /\ edges \in Seq([at : Nat, holds : BOOLEAN])
      /\ last.holds = Holds(op, pods)
  BY <1>1 DEF WaitInv, WaitShape, Watched, Active
<1>3. /\ Sample \in SeenType
      /\ Sample.answer = "yes" => last.holds
      /\ Sample.answer = "no" => ~last.holds
      /\ op = "replacement" /\ Sample.answer = "yes" => Sample.pod \in pods
  BY <1>2, SampleTruth DEF WaitInv
<1>4. /\ Slack' = Slack /\ Slack \in Nat /\ now \in Nat /\ asked \in Nat
      /\ asked <= now /\ now <= asked + Slow
  BY <1>1, SlackGrows DEF WaitInv, WaitShape, Clock
<1>5. last.holds = Missable /\ now - last.at <= Unseen => now - last.at <= Unseen'
  <2>1. Unseen = Slack + Pause + (now - asked)
    BY <1>1 DEF Unseen
  <2>2. Unseen' = Slack + (now - asked) + IF Sample.answer = Quiet THEN 0 ELSE Pause
    BY <1>1, <1>4 DEF Unseen, Quiet, Pause
  <2>3. Sample.answer = Quiet => last.holds # Missable
    BY <1>3 DEF Quiet, Missable
  <2> QED
    BY <1>4, <2>1, <2>2, <2>3, Lengths
<1>6. Sample.answer = "yes" => SeenSinceAsked'
  <2>1. Len(edges) \in DOMAIN edges /\ UNCHANGED edges
    BY <1>1, <1>2, LastOf DEF history
  <2>2. To(Len(edges))' = now
    BY <1>1, <2>1 DEF To
  <2> QED
    BY <1>1, <1>3, <1>4, <2>1, <2>2 DEF SeenSinceAsked
<1>7. op = "replacement" /\ Sample.answer = "yes" => Named1(seen.pod)'
  BY <1>1, <1>3 DEF WaitInv, Pods, Named1, cluster
<1>8. Clock'
  BY <1>1, <1>4 DEF Clock
<1> QED
  BY <1>1, <1>2, <1>3, <1>4, <1>5, <1>6, <1>7, <1>8, HelperMoves DEF WaitInv, WaitShape

(* A call the server fails tells nothing: to retry it is one more round,   *)
(* when the case does not take the failure for a lasting one.              *)
LEMMA FaultInv == WaitInv /\ Fault => WaitInv'
<1> SUFFICES ASSUME WaitInv, Fault PROVE WaitInv'
  OBVIOUS
<1>1. /\ at = "asking" /\ at' = "answered" /\ failed' = failed + 1
      /\ seen' = Says("error", NoPod) \/ (op = "retry" /\ seen' = No)
      /\ UNCHANGED <<plan, op, begun, asked, wake, target, known, outcome>>
      /\ UNCHANGED <<cluster, history, lang, now>>
  BY DEF Fault, Answered
<1>2. Active /\ Active'
  BY <1>1 DEF Active
<1>3. seen' \in SeenType /\ (seen'.answer = "error" \/ (op = "retry" /\ seen'.answer = "no"))
  <2>1. CASE seen' = Says("error", NoPod)
    BY <2>1 DEF Says, NoPod, SeenType, PodType
  <2>2. CASE op = "retry" /\ seen' = No
    BY <2>2 DEF No, Says, NoPod, SeenType, PodType
  <2> QED
    BY <1>1, <2>1, <2>2
<1>4. /\ Slack \in Nat /\ Slack' \in Nat /\ Slack <= Slack'
      /\ op # "consistently" => Slack' = Slack + Blind
      /\ now \in Nat /\ asked \in Nat /\ asked <= now /\ failed' \in Nat
  BY <1>1, SlackGrows DEF WaitInv, WaitShape, Clock
<1>5. Unseen <= Unseen' /\ Unseen \in Nat /\ Unseen' \in Nat
  <2>1. Unseen = Slack + Pause + (now - asked)
    BY <1>1 DEF Unseen
  <2>2. Unseen' = Slack' + (now - asked) + IF seen'.answer = Quiet THEN 0 ELSE Pause
    BY <1>1 DEF Unseen, Quiet, Pause
  <2>3. seen'.answer = Quiet => Slack' = Slack + Blind
    BY <1>3, <1>4 DEF Quiet
  <2>4. CASE seen'.answer = Quiet
    BY <1>4, <2>1, <2>2, <2>3, <2>4, Lengths
  <2>5. CASE seen'.answer # Quiet
    <3>1. Unseen' = Slack' + (now - asked) + Pause
      BY <2>2, <2>5
    <3>2. /\ Slack \in Nat /\ Slack' \in Nat /\ Slack <= Slack'
          /\ now - asked \in Nat /\ Pause \in Nat
      BY <1>4, Lengths
    <3> QED
      BY <2>1, <3>1, <3>2
  <2> QED
    BY <2>4, <2>5
<1>6. edges[Len(edges)].at \in Nat /\ now - edges[Len(edges)].at \in Int
  <2>1. edges # <<>> /\ edges \in Seq([at : Nat, holds : BOOLEAN])
    BY <1>2 DEF WaitInv, Watched, WaitShape
  <2>2. edges[Len(edges)] \in [at : Nat, holds : BOOLEAN]
    BY <2>1, LastOf
  <2> QED
    BY <1>4, <2>2
<1>7. Clock'
  BY <1>1 DEF WaitInv, Clock
<1> QED
  BY <1>1, <1>2, <1>3, <1>4, <1>5, <1>6, <1>7, HelperMoves DEF WaitInv, WaitShape

(* What a deletion makes of a Pod keeps its name and its UID.              *)
LEMMA ServeDeleteInv == WaitInv /\ ServeDelete => WaitInv'
<1> SUFFICES ASSUME WaitInv, ServeDelete PROVE WaitInv'
  OBVIOUS
<1>1. /\ at = "asking" /\ at' = "answered" /\ op = "delete"
      /\ UNCHANGED <<plan, op, begun, asked, wake, target, known, outcome>>
      /\ UNCHANGED <<lang, now, failed, born, happened>>
  BY DEF ServeDelete, Answered, bounds
<1>2. PICK forced \in BOOLEAN : LET mine == {p \in Named(target.name) : p.uid = target.uid} IN
        /\ Becomes((pods \ mine)
                   \cup IF forced THEN {} ELSE {[p EXCEPT !.deleting = TRUE] : p \in mine})
        /\ seen' = IF mine = {} THEN Says("error", NoPod) ELSE Says("yes", NoPod)
  BY DEF ServeDelete
<1>3. UNCHANGED edges /\ Holds(op, pods)' = Holds(op, pods)
  BY <1>1, <1>2 DEF Becomes, Holds, Temporal
<1>4. /\ pods' \subseteq PodType
      /\ \A p \in pods' : \E q \in pods : p.name = q.name /\ p.uid = q.uid
      /\ \A p, q \in pods' : p.name = q.name => p = q
  <2> DEFINE mine == {p \in Named(target.name) : p.uid = target.uid}
  <2>1. mine \subseteq pods /\ pods \subseteq PodType
    BY DEF WaitInv, WaitShape, Named
  <2>2. \A p \in pods : LET d == [p EXCEPT !.deleting = TRUE]
                        IN  d \in PodType /\ d.name = p.name /\ d.uid = p.uid
    BY <2>1 DEF PodType
  <2>3. \A p \in pods' : \/ p \in pods \ mine
                         \/ \E q \in mine : p = [q EXCEPT !.deleting = TRUE]
    BY <1>2 DEF Becomes
  <2>4. \A p, q \in pods : p.name = q.name => p = q
    BY DEF WaitInv, Pods
  <2> HIDE DEF mine
  <2>5. \A p \in pods' : \E q \in pods :
          /\ p.name = q.name /\ p.uid = q.uid /\ p \in PodType
          /\ p = IF q \in mine THEN [q EXCEPT !.deleting = TRUE] ELSE q
    BY <2>1, <2>2, <2>3
  <2>6. \A p, q \in pods' : p.name = q.name => p = q
    <3> SUFFICES ASSUME NEW p \in pods', NEW q \in pods', p.name = q.name PROVE p = q
      OBVIOUS
    <3>1. PICK a \in pods : /\ p.name = a.name
                            /\ p = IF a \in mine THEN [a EXCEPT !.deleting = TRUE] ELSE a
      BY <2>5
    <3>2. PICK b \in pods : /\ q.name = b.name
                            /\ q = IF b \in mine THEN [b EXCEPT !.deleting = TRUE] ELSE b
      BY <2>5
    <3>3. a = b
      BY <2>4, <3>1, <3>2
    <3> QED
      BY <3>1, <3>2, <3>3
  <2> QED
    BY <2>5, <2>6
<1>5. seen' \in SeenType
  BY <1>2 DEF Says, NoPod, SeenType, PodType
<1>6. Active /\ Active' /\ outcome = "none"
  BY <1>1 DEF Active, WaitInv, WaitShape
<1>7. WaitShape'
  BY <1>1, <1>3, <1>4, <1>5, <1>6 DEF WaitInv, WaitShape
<1>8. Pods'
  BY <1>1, <1>4 DEF WaitInv, Pods, Named1
<1>9. Clock'
  BY <1>1 DEF WaitInv, Clock
<1>10. Watched'
  <2>1. /\ Slack' = Slack /\ Slack \in Nat
    BY <1>1, SlackGrows DEF WaitInv, WaitShape
  <2>2. edges[Len(edges)].holds = FALSE /\ Missable = TRUE
    BY <1>1, <1>6 DEF WaitInv, Watched, Holds, Temporal, Missable
  <2>3. edges[Len(edges)].holds # Missable
    BY <2>2
  <2> QED
    BY <1>1, <1>3, <1>6, <2>1, <2>3, WatchGoesOn DEF WaitInv
<1>11. Found' /\ Punctual'
  BY <1>1, <1>6 DEF Found, Punctual
<1> QED
  BY <1>7, <1>8, <1>9, <1>10, <1>11 DEF WaitInv

(* The step goes to sleep on an answer that tells it nothing to act on.    *)
LEMMA SleepsInv ==
  ASSUME WaitInv, at = "answered", seen.answer = Quiet, NEW end \in Nat,
         Sleeps(end), UNCHANGED <<bounds, cluster, history>>,
         lang = "python" => now < end
  PROVE  WaitInv'
<1>1. /\ at' = "asleep" /\ seen' = No
      /\ UNCHANGED <<plan, op, begun, asked, target, known, outcome>>
      /\ UNCHANGED <<cluster, history, lang, now, failed>>
      /\ wake' = IF lang = "go" THEN now + Interval ELSE now + Least(Interval, end - now)
  BY DEF Sleeps, bounds
<1>2. /\ Active /\ Active' /\ No \in SeenType
  BY <1>1 DEF Active, No, Says, NoPod, SeenType, PodType
<1>3. /\ Slack' = Slack /\ Slack \in Nat /\ now \in Nat /\ asked \in Nat
      /\ asked <= now /\ now <= asked + Slow
  BY <1>1, SlackGrows DEF WaitInv, WaitShape, Clock
<1>4. wake' \in Nat /\ now <= wake' /\ wake' <= now + Interval
  BY <1>1, <1>3, Lengths DEF Least, WaitInv, WaitShape
<1>5. Unseen <= Unseen' /\ Unseen \in Nat /\ Unseen' \in Int
  <2>1. Unseen = Slack + (now - asked)
    <3>1. Unseen = Slack + (now - asked) + 0
      BY <1>2 DEF Unseen
    <3> QED
      BY <1>3, <3>1
  <2>2. Unseen' = Slack + Slow + Interval + (now - wake')
    BY <1>1, <1>3 DEF Unseen
  <2>3. PICK sleep \in Nat : wake' = now + sleep /\ sleep <= Interval
    <3>1. PICK w \in Nat : wake' = w
      BY <1>4
    <3>2. w - now \in Nat /\ w = now + (w - now) /\ w - now <= Interval
      BY <1>3, <1>4, <3>1, Lengths
    <3> QED
      BY <3>1, <3>2
  <2>4. now - wake' = -sleep
    BY <1>3, <2>3
  <2> QED
    BY <1>3, <2>1, <2>2, <2>3, <2>4, Lengths
<1>6. now - edges[Len(edges)].at \in Int
  <2>1. edges # <<>> /\ edges \in Seq([at : Nat, holds : BOOLEAN])
    BY <1>2 DEF WaitInv, Watched, WaitShape
  <2>2. edges[Len(edges)] \in [at : Nat, holds : BOOLEAN]
    BY <2>1, LastOf
  <2> QED
    BY <1>3, <2>2
<1>7. Clock'
  BY <1>1, <1>3, <1>4, Lengths DEF Clock
<1>8. op = "consistently" => SeenSinceAsked'
  <2>1. op = "consistently" => SeenSinceAsked
    BY DEF WaitInv, Found, Quiet
  <2>2. UNCHANGED <<edges, now, asked>>
    BY <1>1 DEF history
  <2> QED
    BY <2>1, <2>2 DEF SeenSinceAsked, To
<1> QED
  BY <1>1, <1>2, <1>3, <1>4, <1>5, <1>6, <1>7, <1>8, HelperMoves DEF WaitInv, WaitShape

(* It wakes, and will ask again.                                           *)
LEMMA ResumesInv ==
  ASSUME WaitInv, at = "asleep", Resumes, UNCHANGED <<bounds, cluster, history>>
  PROVE  WaitInv'
<1>1. /\ at' = "check" /\ wake' = 0
      /\ UNCHANGED <<plan, op, begun, asked, seen, target, known, outcome>>
      /\ UNCHANGED <<cluster, history, lang, now, failed>>
  BY DEF Resumes, bounds
<1>2. Active /\ Active'
  BY <1>1 DEF Active
<1>3. /\ Slack' = Slack /\ Slack \in Nat /\ now \in Nat /\ wake \in Nat /\ now <= wake + Late
  BY <1>1, SlackGrows DEF WaitInv, WaitShape, Clock
<1>4. Unseen <= Unseen' /\ Unseen \in Int /\ Unseen' \in Int
  <2>1. Unseen = Slack + Slow + Interval + (now - wake)
    BY DEF Unseen
  <2>2. Unseen' = Slack + (Interval + Late + Slow)
    BY <1>1, <1>3 DEF Unseen, Pause
  <2> QED
    BY <1>3, <2>1, <2>2, Lengths
<1>5. now - edges[Len(edges)].at \in Int
  <2>1. edges # <<>> /\ edges \in Seq([at : Nat, holds : BOOLEAN])
    BY <1>2 DEF WaitInv, Watched, WaitShape
  <2>2. edges[Len(edges)] \in [at : Nat, holds : BOOLEAN]
    BY <2>1, LastOf
  <2> QED
    BY <1>3, <2>2
<1>6. Clock'
  BY <1>1 DEF Clock
<1> QED
  BY <1>1, <1>2, <1>3, <1>4, <1>5, <1>6, HelperMoves DEF WaitInv, WaitShape

(* The answer is acted on.                                                 *)
LEMMA ToldInv == WaitInv /\ Told => WaitInv'
<1> SUFFICES ASSUME WaitInv, Told PROVE WaitInv'
  OBVIOUS
<1>1. /\ at = "answered" /\ op # "consistently" /\ Active
      /\ UNCHANGED <<bounds, cluster, history>>
      /\ seen.answer \in {"yes", "no", "identity", "error"} /\ Budget \in Nat /\ now \in Nat
  BY Lengths DEF Told, Active, WaitInv, WaitShape, SeenType
<1>2. CASE seen.answer \in {"error", "identity"}
  BY <1>1, <1>2, EndsInv DEF Told
<1>3. CASE seen.answer = "yes"
  <2>1. op = "delete" \/ SeenSinceAsked
    BY <1>1, <1>3 DEF WaitInv, Found
  <2>2. Ends("ok")
    BY <1>3 DEF Told
  <2> QED
    BY <1>1, <1>3, <2>1, <2>2, EndsInv
<1>4. CASE seen.answer = "no" /\ lang = "python" /\ now >= Budget
  <2>1. Ends("timeout")
    BY <1>4 DEF Told
  <2> QED
    BY <1>1, <1>4, <2>1, EndsInv
<1>5. CASE seen.answer = "no" /\ ~(lang = "python" /\ now >= Budget)
  <2>1. Sleeps(Budget) /\ seen.answer = Quiet
    BY <1>1, <1>5 DEF Told, Quiet
  <2>2. lang = "python" => now < Budget
    BY <1>1, <1>5
  <2> QED
    BY <1>1, <2>1, <2>2, SleepsInv
<1> QED
  BY <1>1, <1>2, <1>3, <1>4, <1>5

LEMMA ToldAgainInv == WaitInv /\ ToldAgain => WaitInv'
<1> SUFFICES ASSUME WaitInv, ToldAgain PROVE WaitInv'
  OBVIOUS
<1>1. /\ at = "answered" /\ op = "consistently" /\ Active
      /\ UNCHANGED <<bounds, cluster, history>>
      /\ seen.answer \in {"yes", "no", "identity", "error"}
      /\ begun + Window \in Nat /\ now \in Nat
  BY Lengths DEF ToldAgain, Active, WaitInv, WaitShape, SeenType
<1>2. CASE seen.answer # "yes"
  <2>1. PICK how \in {"false", "error", "identity"} : Ends(how)
    BY <1>1, <1>2 DEF ToldAgain
  <2> QED
    BY <1>1, <2>1, EndsInv
<1>3. CASE seen.answer = "yes" /\ lang = "python" /\ now >= begun + Window
  <2>1. SeenSinceAsked
    BY <1>1, <1>3 DEF WaitInv, Found
  <2>2. Ends("ok")
    BY <1>3 DEF ToldAgain
  <2> QED
    BY <1>1, <1>3, <2>1, <2>2, EndsInv
<1>4. CASE seen.answer = "yes" /\ ~(lang = "python" /\ now >= begun + Window)
  <2>1. Sleeps(begun + Window) /\ seen.answer = Quiet
    BY <1>1, <1>4 DEF ToldAgain, Quiet
  <2>2. lang = "python" => now < begun + Window
    BY <1>1, <1>4
  <2> QED
    BY <1>1, <2>1, <2>2, SleepsInv
<1> QED
  BY <1>2, <1>3, <1>4

LEMMA CutInv == WaitInv /\ Cut => WaitInv'
<1> SUFFICES ASSUME WaitInv, Cut PROVE WaitInv'
  OBVIOUS
<1>1. Active /\ Ends("timeout") /\ now >= Budget /\ UNCHANGED <<bounds, cluster, history>>
  BY DEF Cut, Active
<1> QED
  BY <1>1, EndsInv

LEMMA WakePythonInv == WaitInv /\ WakePython => WaitInv'
<1> SUFFICES ASSUME WaitInv, WakePython PROVE WaitInv'
  OBVIOUS
<1>1. at = "asleep" /\ Active /\ UNCHANGED <<bounds, cluster, history>>
  BY DEF WakePython, Active
<1>2. CASE op \in {"poll", "retry"} /\ now >= Budget
  <2>1. Ends("timeout")
    BY <1>2 DEF WakePython
  <2> QED
    BY <1>1, <1>2, <2>1, EndsInv
<1>3. CASE ~(op \in {"poll", "retry"} /\ now >= Budget)
  <2>1. Resumes
    BY <1>3 DEF WakePython
  <2> QED
    BY <1>1, <2>1, ResumesInv
<1> QED
  BY <1>2, <1>3

LEMMA WakeGoInv == WaitInv /\ WakeGo => WaitInv'
<1> SUFFICES ASSUME WaitInv, WakeGo PROVE WaitInv'
  OBVIOUS
<1>1. at = "asleep" /\ Active /\ UNCHANGED <<bounds, cluster, history>>
  BY DEF WakeGo, Active
<1>2. CASE now >= Budget /\ Ends("timeout")
  BY <1>1, <1>2, EndsInv
<1>3. CASE op = "consistently" /\ now >= begun + Window /\ Ends("ok")
  <2>1. SeenSinceAsked
    BY <1>1, <1>3 DEF WaitInv, Found
  <2> QED
    BY <1>1, <1>3, <2>1, EndsInv
<1>4. CASE now >= wake /\ Resumes
  BY <1>1, <1>4, ResumesInv
<1> QED
  BY <1>2, <1>3, <1>4 DEF WakeGo

(* A helper that is called begins to watch its own condition.              *)
LEMMA BeginInv == WaitInv /\ Begin => WaitInv'
<1> SUFFICES ASSUME WaitInv, Begin PROVE WaitInv'
  OBVIOUS
<1>1. /\ at = "begin" /\ op' = Head(plan) /\ plan' = Tail(plan) /\ begun' = now
      /\ edges' = <<Edge(Holds(Head(plan), pods))>>
      /\ \/ at' = "over" /\ outcome' = "refused"
         \/ at' = "check" /\ outcome' = "none"
      /\ UNCHANGED <<lang, now, failed, pods, born, happened>>
      /\ UNCHANGED <<asked, wake, seen, target, known, killed>>
  BY DEF Begin, bounds, cluster
<1>2. plan # <<>> /\ plan \in Seq(Helpers) /\ now \in Nat
  BY <1>1 DEF WaitInv, WaitShape
<1>3. Head(plan) \in Helpers /\ Tail(plan) \in Seq(Helpers)
  BY <1>2, HeadTailProperties
<1>4. Holds(Head(plan), pods) \in BOOLEAN /\ Holds(op, pods)' = Holds(Head(plan), pods)
  BY <1>1, <1>3 DEF Holds, Helpers, Temporal, WaitInv, WaitShape, PodType
<1> DEFINE e == Edge(Holds(Head(plan), pods))
<1>5. /\ e \in [at : Nat, holds : BOOLEAN] /\ e.at = now /\ e.holds = Holds(op, pods)'
      /\ edges' = <<e>> /\ edges' \in Seq([at : Nat, holds : BOOLEAN])
      /\ Len(edges') = 1 /\ DOMAIN edges' = {1} /\ edges'[1] = e
  BY <1>1, <1>2, <1>4 DEF Edge
<1> HIDE DEF e
<1>6. at' # "begin" /\ at' \notin {"asking", "answered", "asleep"} /\ outcome' \in {"none", "refused"}
      /\ (Active' => at' = "check" /\ outcome' = "none")
  BY <1>1 DEF Active
<1>7. WaitShape'
  <2>1. lang' \in {"python", "go"} /\ now' \in Nat /\ failed' \in Nat /\ born' \in Nat
        /\ begun' \in Nat /\ asked' \in Nat /\ wake' \in Nat
        /\ pods' \subseteq PodType /\ target' \in PodType /\ seen' \in SeenType
    BY <1>1, <1>2 DEF WaitInv, WaitShape
  <2>2. plan' \in Seq(Helpers) /\ op' \in Helpers
        /\ edges' \in Seq([at : Nat, holds : BOOLEAN])
    BY <1>1, <1>3, <1>5
  <2>3. at' \in {"check", "over"} /\ outcome' \in {"none", "refused"}
    BY <1>1
  <2> QED
    BY <1>6, <2>1, <2>2, <2>3 DEF WaitShape
<1>8. Pods'
  BY <1>1, <1>6 DEF WaitInv, Pods, Named1
<1>9. Clock'
  BY <1>6 DEF Clock
<1>10. Watched'
  <2>1. at' = "check" => Bounded'
    <3> SUFFICES ASSUME at' = "check" PROVE Bounded'
      OBVIOUS
    <3>1. Unseen' \in Nat
      <4>1. Blind \in Nat /\ Blind * failed \in Nat
        BY Lengths DEF WaitInv, WaitShape
      <4>2. Slack' \in Nat /\ Unseen' = Slack' + Pause
        BY <1>1, <4>1 DEF Slack, Unseen
      <4>3. Pause \in Nat
        BY Lengths
      <4>4. PICK slack \in Nat : Slack' = slack
        BY <4>2
      <4> QED
        BY <4>2, <4>3, <4>4
    <3>2. To(1)' = now' /\ edges[1].at' = now
      BY <1>1, <1>5 DEF To
    <3> QED
      BY <1>1, <1>2, <1>5, <3>1, <3>2 DEF Bounded
  <2>2. Active' => edges' # <<>> /\ edges'[Len(edges')].holds = Holds(op, pods)'
    BY <1>5
  <2> QED
    BY <1>6, <2>1, <2>2 DEF Watched
<1>11. Found' /\ Punctual'
  BY <1>6 DEF Found, Punctual
<1> QED
  BY <1>7, <1>8, <1>9, <1>10, <1>11 DEF WaitInv

-----------------------------------------------------------------------------
(* A change of the cluster: the condition goes on as it is, or a new       *)
(* stretch of it begins now.                                               *)
LEMMA BecomesInv ==
  ASSUME WaitInv, NEW ps \in SUBSET PodType, Becomes(ps), UNCHANGED <<bounds, helper>>,
         born' \in Nat, Pods'
  PROVE  WaitInv'
<1> DEFINE changed == at # "begin" /\ Holds(op, ps) # Holds(op, pods)
<1>1. /\ UNCHANGED <<lang, now, failed, plan, op, at, begun, asked, wake, seen, target, known, outcome>>
      /\ pods' = ps
      /\ ~changed => edges' = edges
      /\ changed => edges' = Append(edges, Edge(Holds(op, ps)))
      /\ Holds(op, pods)' = Holds(op, ps)
  BY DEF bounds, helper, Becomes, Holds
<1> HIDE DEF changed
<1>2. edges \in Seq([at : Nat, holds : BOOLEAN]) /\ now \in Nat
  BY DEF WaitInv, WaitShape
<1>3. changed => Edge(Holds(op, ps)) \in [at : Nat, holds : BOOLEAN]
  <2>1. Holds(op, ps) \in BOOLEAN
    BY DEF Holds, PodType, Temporal
  <2> QED
    BY <1>2, <2>1 DEF Edge
<1>4. /\ edges' \in Seq([at : Nat, holds : BOOLEAN])
      /\ changed => /\ Len(edges') = Len(edges) + 1 /\ DOMAIN edges' = 1 .. Len(edges) + 1
                    /\ edges'[Len(edges) + 1] = Edge(Holds(op, ps))
                    /\ \A i \in 1 .. Len(edges) : edges'[i] = edges[i]
      /\ Len(edges) \in Nat /\ DOMAIN edges = 1 .. Len(edges)
  <2>1. Len(edges) \in Nat /\ DOMAIN edges = 1 .. Len(edges)
    BY <1>2, LenProperties
  <2>2. CASE ~changed
    BY <1>1, <1>2, <2>1, <2>2
  <2>3. CASE changed
    <3>1. PICK e \in [at : Nat, holds : BOOLEAN] : e = Edge(Holds(op, ps)) /\ edges' = Append(edges, e)
      BY <1>1, <1>3, <2>3
    <3>2. /\ Append(edges, e) \in Seq([at : Nat, holds : BOOLEAN])
          /\ Len(Append(edges, e)) = Len(edges) + 1
          /\ \A i \in 1 .. Len(edges) : Append(edges, e)[i] = edges[i]
          /\ Append(edges, e)[Len(edges) + 1] = e
      BY <1>2, AppendProperties
    <3>3. DOMAIN Append(edges, e) = 1 .. Len(edges) + 1
      BY <3>2, LenProperties
    <3> QED
      BY <2>1, <3>1, <3>2, <3>3
  <2> QED
    BY <2>2, <2>3
<1>5. WaitShape'
  BY <1>1, <1>4 DEF WaitInv, WaitShape, Active
<1>6. Clock'
  BY <1>1 DEF WaitInv, Clock
<1>7. /\ Slack' = Slack /\ Slack \in Nat /\ Unseen' = Unseen /\ Unseen \in Nat
      /\ Missable' = Missable /\ Unseen <= Slack + Blind /\ Blind \in Nat
  <2>1. Slack' = Slack /\ Slack \in Nat /\ Unseen \in Nat /\ Unseen <= Slack + Blind
    BY <1>1, SlackGrows, UnseenBound DEF WaitInv, WaitShape
  <2>2. Unseen' = Unseen
    BY <1>1, <2>1 DEF Unseen, Quiet
  <2> QED
    BY <1>1, <2>1, <2>2, Lengths DEF Missable
<1>8. \A i \in DOMAIN edges : /\ i \in DOMAIN edges' /\ edges'[i] = edges[i] /\ To(i)' = To(i)
                              /\ edges[i].at \in Nat
  <2> SUFFICES ASSUME NEW i \in DOMAIN edges
               PROVE  /\ i \in DOMAIN edges' /\ edges'[i] = edges[i] /\ To(i)' = To(i)
                      /\ edges[i].at \in Nat
    OBVIOUS
  <2>1. edges[i] \in [at : Nat, holds : BOOLEAN]
    BY <1>2, ElementOfSeq, <1>4
  <2>2. CASE ~changed
    BY <1>1, <2>1, <2>2 DEF To
  <2>3. CASE changed
    <3>1. i \in DOMAIN edges' /\ edges'[i] = edges[i]
      BY <1>4, <2>3
    <3>2. i \in Nat /\ i < Len(edges')
      BY <1>4, <2>3
    <3>3. To(i)' = edges'[i + 1].at
      BY <3>2 DEF To
    <3>4. CASE i < Len(edges)
      <4>1. i + 1 \in 1 .. Len(edges)
        BY <1>4, <3>2, <3>4
      <4>2. To(i) = edges[i + 1].at
        BY <3>4 DEF To
      <4>3. edges'[i + 1] = edges[i + 1]
        BY <1>4, <2>3, <4>1
      <4> QED
        BY <2>1, <3>1, <3>3, <4>2, <4>3
    <3>5. CASE i = Len(edges)
      <4>1. edges'[i + 1].at = now
        BY <1>4, <2>3, <3>5 DEF Edge
      <4>2. To(i) = now
        BY <1>4, <3>5 DEF To
      <4> QED
        BY <2>1, <3>1, <3>3, <4>1, <4>2
    <3> QED
      BY <1>4, <3>2, <3>4, <3>5
  <2> QED
    BY <2>2, <2>3
<1>9. Bounded => Bounded'
  <2> SUFFICES ASSUME Bounded, NEW i \in DOMAIN edges', edges'[i].holds = Missable
               PROVE  (To(i) - edges[i].at <= IF i < Len(edges) THEN Slack + Blind ELSE Unseen)'
    BY <1>7 DEF Bounded
  <2>1. CASE i \in DOMAIN edges
    <3>1. To(i) - edges[i].at <= IF i < Len(edges) THEN Slack + Blind ELSE Unseen
      BY <1>8, <2>1 DEF Bounded
    <3>2. CASE ~changed
      BY <1>1, <1>7, <1>8, <2>1, <3>1, <3>2
    <3>3. CASE changed
      <4>1. i < Len(edges') /\ To(i) \in Nat
        <5>1. To(i) = IF i < Len(edges) THEN edges[i + 1].at ELSE now
          BY DEF To
        <5> QED
          BY <1>2, <1>4, <1>8, <2>1, <3>3, <5>1
      <4>2. To(i) - edges[i].at <= Slack + Blind
        BY <1>7, <1>8, <2>1, <3>1, <4>1
      <4> QED
        BY <1>7, <1>8, <2>1, <4>1, <4>2
    <3> QED
      BY <3>2, <3>3
  <2>2. CASE i \notin DOMAIN edges
    <3>1. changed /\ i = Len(edges')
      BY <1>1, <1>4, <2>2
    <3>2. To(i)' = now /\ edges'[i].at = now
      BY <1>1, <1>4, <3>1 DEF To, Edge
    <3> QED
      BY <1>2, <1>7, <3>1, <3>2
  <2> QED
    BY <2>1, <2>2
<1>10. Watched'
  <2>1. Active' => edges' # <<>> /\ edges'[Len(edges')].holds = Holds(op, pods)'
    <3> SUFFICES ASSUME Active PROVE edges' # <<>> /\ edges'[Len(edges')].holds = Holds(op, pods)'
      BY <1>1 DEF Active
    <3>1. edges # <<>> /\ edges[Len(edges)].holds = Holds(op, pods)
      BY DEF WaitInv, Watched
    <3>2. CASE ~changed
      BY <1>1, <3>1, <3>2 DEF changed, Active
    <3>3. CASE changed
      BY <1>1, <1>4, <3>3 DEF Edge
    <3> QED
      BY <3>2, <3>3
  <2> QED
    BY <1>1, <1>9, <2>1 DEF WaitInv, Watched, Active
<1>11. Found' /\ Punctual'
  <2>1. SeenSinceAsked => SeenSinceAsked'
    BY <1>1, <1>8 DEF SeenSinceAsked
  <2> QED
    BY <1>1, <2>1 DEF WaitInv, Found, Punctual
<1> QED
  BY <1>5, <1>6, <1>10, <1>11 DEF WaitInv

(* Nothing that happens to the Pods confuses their names or their UIDs.    *)
LEMMA ClusterInv == WaitInv /\ Cluster => WaitInv'
<1> SUFFICES ASSUME WaitInv, Cluster PROVE WaitInv'
  OBVIOUS
<1>1. /\ pods \subseteq PodType /\ born \in Nat /\ \A p, q \in pods : p.name = q.name => p = q
      /\ \A p \in pods : Named1(p) /\ p.uid \in Nat
  <2>1. pods \subseteq PodType /\ \A p \in pods : Named1(p)
    BY DEF WaitInv, WaitShape, Pods
  <2> QED
    BY <2>1 DEF WaitInv, WaitShape, Pods, PodType
<1>2. /\ Named1(target) /\ target.uid \in Nat
      /\ at = "answered" /\ op = "replacement" /\ seen.answer = "yes" => Named1(seen.pod)
      /\ seen.pod.uid \in Nat
  BY DEF WaitInv, WaitShape, Pods, PodType, SeenType
<1>3. ASSUME NEW n \in Names, Create(n) PROVE WaitInv'
  <2>1. PICK u \in BOOLEAN :
          Event(pods \cup {[NoPod EXCEPT !.name = n, !.uid = born + 1, !.unschedulable = u]})
    BY <1>3 DEF Create
  <2>9. /\ [NoPod EXCEPT !.name = n, !.uid = born + 1, !.unschedulable = u] \in PodType
        /\ [NoPod EXCEPT !.name = n, !.uid = born + 1, !.unschedulable = u].name = n
        /\ [NoPod EXCEPT !.name = n, !.uid = born + 1, !.unschedulable = u].uid = born + 1
    <3>1. n \in Nat /\ born + 1 \in Nat
      BY <1>1, WaitAssumption
    <3> QED
      BY <3>1 DEF NoPod, PodType
  <2>10. PICK new \in PodType :
          /\ new = [NoPod EXCEPT !.name = n, !.uid = born + 1, !.unschedulable = u]
          /\ new.name = n /\ new.uid = born + 1
    BY <2>9
  <2>2. new \in PodType /\ new.name = n /\ new.uid = born + 1 /\ \A p \in pods : p.name # n
    BY <1>3, <2>10 DEF Create, Named
  <2>3. /\ pods' = pods \cup {new} /\ born' = born + 1 /\ Becomes(pods \cup {new})
        /\ UNCHANGED <<bounds, helper>>
    BY <1>3, <2>1, <2>10 DEF Create, Event, Becomes
  <2>4. UNCHANGED <<at, op, seen, target>>
    BY <2>3 DEF helper
  <2>5. \A p \in PodType : Named1(p) => Named1(p)'
    <3> SUFFICES ASSUME NEW p \in PodType, Named1(p) PROVE Named1(p)'
      OBVIOUS
    <3>1. p.uid <= born /\ p.uid \in Nat /\ \A q \in pods : q.uid = p.uid => q.name = p.name
      BY DEF Named1, PodType
    <3>2. p.uid <= born + 1 /\ p.uid # born + 1
      BY <1>1, <3>1
    <3> QED
      BY <2>2, <2>3, <3>1, <3>2 DEF Named1
  <2>6. Named1(new)'
    <3>1. \A q \in pods : q.uid # born + 1
      BY <1>1 DEF Named1
    <3>2. born + 1 <= born + 1
      BY <1>1
    <3> QED
      BY <2>2, <2>3, <3>1, <3>2 DEF Named1
  <2>7. Pods'
    <3>1. \A p, q \in pods' : p.name = q.name => p = q
      BY <1>1, <2>2, <2>3
    <3>2. \A p \in pods' : Named1(p)'
      BY <1>1, <2>3, <2>5, <2>6
    <3>3. Named1(target)'
      BY <1>2, <2>4, <2>5 DEF WaitInv, WaitShape
    <3>4. (at = "answered" /\ op = "replacement" /\ seen.answer = "yes" => Named1(seen.pod))'
      BY <1>2, <2>4, <2>5 DEF WaitInv, WaitShape, SeenType
    <3> QED
      BY <3>1, <3>2, <3>3, <3>4 DEF Pods
  <2>8. pods \cup {new} \in SUBSET PodType /\ born' \in Nat
    BY <1>1, <2>2, <2>3
  <2> QED
    BY <2>3, <2>7, <2>8, BecomesInv
<1>4. ASSUME NEW ps \in SUBSET PodType, Event(ps), UNCHANGED born,
             \A p \in ps : \E q \in pods : p.name = q.name /\ p.uid = q.uid,
             \A p, q \in ps : p.name = q.name => p = q
      PROVE  WaitInv'
  <2>1. Becomes(ps) /\ pods' = ps /\ UNCHANGED <<bounds, helper, at, op, seen, target>>
    BY <1>4 DEF Event, Becomes, helper
  <2>2. Pods'
    BY <1>1, <1>2, <1>4, <2>1 DEF Pods, Named1
  <2> QED
    BY <1>1, <1>4, <2>1, <2>2, BecomesInv
<1>5. ASSUME NEW p \in pods, NEW p2 \in PodType, p2.name = p.name, p2.uid = p.uid,
             UNCHANGED born, Event((pods \ {p}) \cup {p2})
      PROVE  WaitInv'
  BY <1>1, <1>4, <1>5
<1>6. ASSUME NEW p \in pods, Turn(p) \/ Schedule(p) \/ Evict(p) \/ Gone(p) PROVE WaitInv'
  <2>1. CASE Turn(p)
    <3>1. [p EXCEPT !.ready = ~@] \in PodType /\ [p EXCEPT !.ready = ~@].name = p.name
          /\ [p EXCEPT !.ready = ~@].uid = p.uid
      BY <1>1 DEF PodType
    <3> QED
      BY <1>5, <2>1, <3>1 DEF Turn
  <2>2. CASE Schedule(p)
    <3>1. [p EXCEPT !.unschedulable = FALSE] \in PodType
          /\ [p EXCEPT !.unschedulable = FALSE].name = p.name
          /\ [p EXCEPT !.unschedulable = FALSE].uid = p.uid
      BY <1>1 DEF PodType
    <3> QED
      BY <1>5, <2>2, <3>1 DEF Schedule
  <2>3. CASE Evict(p)
    <3>1. [p EXCEPT !.deleting = TRUE] \in PodType
          /\ [p EXCEPT !.deleting = TRUE].name = p.name
          /\ [p EXCEPT !.deleting = TRUE].uid = p.uid
      BY <1>1 DEF PodType
    <3> QED
      BY <1>5, <2>3, <3>1 DEF Evict
  <2>4. CASE Gone(p)
    <3>1. UNCHANGED born /\ Event(pods \ {p})
      BY <2>4 DEF Gone
    <3> QED
      BY <1>1, <1>4, <3>1
  <2> QED
    BY <1>6, <2>1, <2>2, <2>3, <2>4
<1> QED
  BY <1>3, <1>6 DEF Cluster

(* A unit of time passes, and every bound allows for it.                   *)
LEMMA TickInv == WaitInv /\ Tick => WaitInv'
<1> SUFFICES ASSUME WaitInv, Tick PROVE WaitInv'
  OBVIOUS
<1>1. /\ now' = now + 1
      /\ \/ at \in {"asking", "answered"} /\ now < asked + Slow
         \/ at = "asleep" /\ now < Due + Late
      /\ UNCHANGED <<lang, failed, pods, born, plan, op, at, begun, asked, wake>>
      /\ UNCHANGED <<seen, target, known, outcome, edges, killed>>
  BY DEF Tick, cluster, helper, history
<1>2. /\ now \in Nat /\ asked \in Nat /\ wake \in Nat /\ begun \in Nat
      /\ edges \in Seq([at : Nat, holds : BOOLEAN])
      /\ Active /\ edges # <<>> /\ edges[Len(edges)].holds = Holds(op, pods) /\ Bounded
      /\ outcome = "none"
  BY <1>1 DEF WaitInv, WaitShape, Active, Watched
<1>3. /\ Len(edges) \in Nat /\ Len(edges) \in DOMAIN edges /\ DOMAIN edges = 1 .. Len(edges)
      /\ \A i \in DOMAIN edges : edges[i].at \in Nat
  <2>1. \A i \in DOMAIN edges : edges[i] \in [at : Nat, holds : BOOLEAN]
    BY <1>2, LastOf
  <2> QED
    BY <1>2, <2>1, LastOf
<1>4. now + 1 \in Nat
  BY <1>2
<1>5. WaitShape'
  BY <1>1, <1>4 DEF WaitInv, WaitShape, Active
<1>6. Pods'
  BY <1>1 DEF WaitInv, Pods, Named1
<1>7. Clock'
  <2>1. CASE at \in {"asking", "answered"}
    <3>1. asked <= now /\ now < asked + Slow
      BY <1>1, <2>1 DEF WaitInv, Clock
    <3>2. asked <= now + 1 /\ now + 1 <= asked + Slow
      BY <1>2, <3>1, Lengths
    <3> QED
      BY <1>1, <2>1, <3>2 DEF Clock
  <2>2. CASE at = "asleep"
    <3>1. asked <= now /\ wake <= now + Interval /\ now < Due + Late
      BY <1>1, <2>2 DEF WaitInv, Clock
    <3>2. Due \in Nat /\ Due <= wake
      BY <1>2, Lengths DEF Due, Least
    <3>3. asked <= now + 1 /\ wake <= (now + 1) + Interval /\ now + 1 <= wake + Late
      BY <1>2, <3>1, <3>2, Lengths
    <3> QED
      BY <1>1, <2>2, <3>3 DEF Clock
  <2> QED
    BY <1>1, <2>1, <2>2
<1>8. Slack' = Slack /\ Slack \in Nat /\ Missable' = Missable /\ Blind \in Nat
  BY <1>1, SlackGrows, Lengths DEF Missable, WaitInv, WaitShape
<1>9. Unseen' = Unseen + 1 /\ Unseen \in Nat
  <2>1. Unseen \in Nat
    BY UnseenBound DEF WaitInv
  <2>2. CASE at = "asking"
    <3>1. Unseen = Slack + Pause + (now - asked)
      BY <2>2 DEF Unseen
    <3>2. Unseen' = Slack + Pause + ((now + 1) - asked)
      BY <1>1, <1>8, <2>2 DEF Unseen, Pause
    <3> QED
      BY <1>2, <1>8, <2>1, <3>1, <3>2, Lengths
  <2>3. CASE at = "answered"
    <3>1. Unseen = Slack + (now - asked) + IF seen.answer = Quiet THEN 0 ELSE Pause
      BY <2>3 DEF Unseen
    <3>2. Unseen' = Slack + ((now + 1) - asked) + IF seen.answer = Quiet THEN 0 ELSE Pause
      BY <1>1, <1>8, <2>3 DEF Unseen, Quiet, Pause
    <3>3. CASE seen.answer = Quiet
      BY <1>2, <1>8, <2>1, <3>1, <3>2, <3>3
    <3>4. CASE seen.answer # Quiet
      BY <1>2, <1>8, <2>1, <3>1, <3>2, <3>4, Lengths
    <3> QED
      BY <3>3, <3>4
  <2>4. CASE at = "asleep"
    <3>1. Unseen = Slack + Slow + Interval + (now - wake)
      BY <2>4 DEF Unseen
    <3>2. Unseen' = Slack + Slow + Interval + ((now + 1) - wake)
      BY <1>1, <1>8, <2>4 DEF Unseen
    <3> QED
      BY <1>2, <1>8, <2>1, <3>1, <3>2, Lengths
  <2> QED
    BY <1>1, <2>1, <2>2, <2>3, <2>4
<1>10. \A i \in DOMAIN edges : /\ To(i) \in Nat /\ To(i) <= To(i)'
                               /\ To(i)' = IF i < Len(edges) THEN To(i) ELSE To(i) + 1
  <2> SUFFICES ASSUME NEW i \in DOMAIN edges
               PROVE  /\ To(i) \in Nat /\ To(i) <= To(i)'
                      /\ To(i)' = IF i < Len(edges) THEN To(i) ELSE To(i) + 1
    OBVIOUS
  <2>1. CASE i < Len(edges)
    <3>1. i + 1 \in DOMAIN edges
      BY <1>3, <2>1
    <3>2. To(i) = edges[i + 1].at /\ To(i)' = edges[i + 1].at
      BY <1>1, <2>1 DEF To
    <3> QED
      BY <1>3, <2>1, <3>1, <3>2
  <2>2. CASE ~(i < Len(edges))
    <3>1. To(i) = now /\ To(i)' = now + 1
      BY <1>1, <2>2 DEF To
    <3> QED
      BY <1>2, <2>2, <3>1
  <2> QED
    BY <2>1, <2>2
<1>11. Bounded'
  <2> SUFFICES ASSUME NEW i \in DOMAIN edges, edges[i].holds = Missable
               PROVE  (To(i) - edges[i].at <= IF i < Len(edges) THEN Slack + Blind ELSE Unseen)'
    BY <1>1, <1>8 DEF Bounded
  <2>1. To(i) - edges[i].at <= IF i < Len(edges) THEN Slack + Blind ELSE Unseen
    BY <1>2 DEF Bounded
  <2>2. CASE i < Len(edges)
    BY <1>1, <1>8, <1>10, <2>1, <2>2
  <2>3. CASE ~(i < Len(edges))
    <3>1. To(i) - edges[i].at <= Unseen /\ To(i) \in Nat /\ edges[i].at \in Nat
      BY <1>3, <1>10, <2>1, <2>3
    <3>2. (To(i) + 1) - edges[i].at <= Unseen + 1
      BY <1>9, <3>1
    <3> QED
      BY <1>1, <1>9, <1>10, <2>3, <3>2
  <2> QED
    BY <2>2, <2>3
<1>12. Watched'
  <2>1. Holds(op, pods)' = Holds(op, pods)
    BY <1>1 DEF Holds
  <2> QED
    BY <1>1, <1>2, <1>11, <2>1 DEF Watched
<1>13. Found' /\ Punctual'
  <2>1. SeenSinceAsked => SeenSinceAsked'
    <3> SUFFICES ASSUME NEW i \in DOMAIN edges, edges[i].holds, To(i) >= asked
                 PROVE  SeenSinceAsked'
      BY DEF SeenSinceAsked
    <3>1. PICK later : later = To(i)' /\ later \in {To(i), To(i) + 1}
      BY <1>10
    <3>2. later >= asked
      BY <1>2, <1>10, <3>1
    <3> QED
      BY <1>1, <3>1, <3>2 DEF SeenSinceAsked
  <2> QED
    BY <1>1, <1>2, <2>1 DEF WaitInv, Found, Punctual
<1> QED
  BY <1>5, <1>6, <1>7, <1>12, <1>13 DEF WaitInv

-----------------------------------------------------------------------------
LEMMA WaitInvInit == Init => WaitInv
<1> SUFFICES ASSUME WaitInit \/ NoWait PROVE WaitInv
  BY DEF Init
<1>1. NoPod \in PodType /\ No \in SeenType /\ No.answer = "no" /\ <<>> \in Seq(Helpers)
      /\ <<>> \in Seq([at : Nat, holds : BOOLEAN])
  BY DEF NoPod, PodType, No, Says, SeenType
<1>2. CASE WaitInit
  <2>1. PICK ready, unschedulable \in BOOLEAN :
          target = [NoPod EXCEPT !.name = 1, !.uid = 1, !.ready = ready,
                                 !.unschedulable = unschedulable]
    BY <1>2 DEF WaitInit
  <2>2. target \in PodType /\ target.uid = 1
    BY <2>1 DEF NoPod, PodType
  <2>3. plan \in Seq(Helpers) /\ plan # <<>>
    BY <1>2, PlansAssumption DEF WaitInit
  <2>4. WaitShape
    <3>1. /\ lang \in {"python", "go"} /\ now \in Nat /\ failed \in Nat /\ born \in Nat
          /\ begun \in Nat /\ asked \in Nat /\ wake \in Nat /\ at = "begin"
          /\ outcome = "none" /\ op = "none"
      BY <1>2 DEF WaitInit
    <3>2. pods \subseteq PodType /\ seen \in SeenType /\ edges \in Seq([at : Nat, holds : BOOLEAN])
      BY <1>1, <1>2, <2>2 DEF WaitInit
    <3> QED
      BY <2>2, <2>3, <3>1, <3>2 DEF WaitShape, Active
  <2>5. Pods
    <3>1. pods = {target} /\ born = 1 /\ at = "begin"
      BY <1>2 DEF WaitInit
    <3>2. target.uid <= born
      BY <2>2, <3>1
    <3> QED
      BY <3>1, <3>2 DEF Pods, Named1
  <2> QED
    BY <1>2, <2>4, <2>5 DEF WaitInit, WaitInv, Clock, Watched, Found, Punctual, Active
<1>3. CASE NoWait
  <2>1. WaitShape
    BY <1>1, <1>3 DEF NoWait, WaitShape, Active
  <2>2. Pods
    BY <1>3 DEF NoWait, Pods, Named1, NoPod
  <2> QED
    BY <1>3, <2>1, <2>2 DEF NoWait, WaitInv, Clock, Watched, Found, Punctual, Active
<1> QED
  BY <1>2, <1>3

LEMMA WaitInvStays == WaitInv /\ UNCHANGED waiting => WaitInv'
<1> SUFFICES ASSUME WaitInv, UNCHANGED waiting PROVE WaitInv'
  OBVIOUS
<1>1. /\ UNCHANGED <<lang, now, failed, pods, born, happened, edges, killed>>
      /\ UNCHANGED <<plan, op, at, begun, asked, wake, seen, target, known, outcome>>
  BY DEF waiting, bounds, cluster, helper, history
<1>2. WaitShape' /\ Pods' /\ Clock' /\ Punctual'
  BY <1>1 DEF WaitInv, WaitShape, Pods, Named1, Clock, Punctual, Active
<1>3. Slack' = Slack /\ Missable' = Missable
  BY <1>1 DEF Slack, Missable
<1>4. Unseen' = Unseen
  BY <1>1, <1>3 DEF Unseen, Quiet
<1>5. \A i : To(i)' = To(i)
  BY <1>1 DEF To
<1>6. Bounded' <=> Bounded
  BY <1>1, <1>3, <1>4, <1>5 DEF Bounded
<1>7. SeenSinceAsked' <=> SeenSinceAsked
  BY <1>1, <1>5 DEF SeenSinceAsked
<1>8. Holds(op, pods)' = Holds(op, pods)
  BY <1>1 DEF Holds
<1> QED
  BY <1>1, <1>2, <1>6, <1>7, <1>8 DEF WaitInv, Watched, Found, Active

LEMMA WaitInvStep == WaitInv /\ [Next]_<<waiting, stream>> => WaitInv'
<1> SUFFICES ASSUME WaitInv, [Next]_<<waiting, stream>> PROVE WaitInv'
  OBVIOUS
<1>1. CASE WaitNext
  BY <1>1, BeginInv, CheckInv, ServeInv, FaultInv, ServeDeleteInv, ToldInv, ToldAgainInv, CutInv,
     WakePythonInv, WakeGoInv, ClusterInv, TickInv DEF WaitNext
<1>2. CASE UNCHANGED waiting
  BY <1>2, WaitInvStays
<1> QED
  BY <1>1, <1>2 DEF Next

LEMMA WaitInvariant == Spec => []WaitInv
  BY WaitInvInit, WaitInvStep, PTL DEF Spec

(* What the invariant says of the helper that has just ended.              *)
LEMMA WaitsWatched == WaitInv => OkWasTrue /\ TimeoutMissedNothing /\ WindowWasWatched
<1> SUFFICES ASSUME WaitInv PROVE OkWasTrue /\ TimeoutMissedNothing /\ WindowWasWatched
  OBVIOUS
<1>1. \A holds \in BOOLEAN :
        Stretches(holds) = {[from |-> edges[i].at, to |-> To(i)] :
                              i \in {j \in DOMAIN edges : edges[j].holds = holds}}
  BY DEF Stretches, To
<1>2. /\ Slack \in Nat /\ Unseen \in Nat /\ Unseen <= Slack + Blind /\ Blind \in Nat
      /\ edges \in Seq([at : Nat, holds : BOOLEAN])
  BY SlackGrows, UnseenBound, Lengths DEF WaitInv, WaitShape
<1>3. Blind * (1 + failed) = Blind * failed + Blind /\ Blind * failed \in Nat
  BY <1>2 DEF WaitInv, WaitShape
<1>4. \A i \in DOMAIN edges : To(i) \in Nat /\ edges[i].at \in Nat
  <2>1. \A i \in DOMAIN edges : edges[i] \in [at : Nat, holds : BOOLEAN]
    BY <1>2, ElementOfSeq, LenProperties
  <2>2. \A i \in DOMAIN edges : i < Len(edges) => i + 1 \in DOMAIN edges
    BY <1>2, LenProperties
  <2> QED
    BY <2>1, <2>2 DEF To, WaitInv, WaitShape
<1>5. OkWasTrue
  <2> SUFFICES ASSUME outcome = "ok", op # "delete"
               PROVE  \E s \in Stretches(TRUE) : s.to >= asked
    BY DEF OkWasTrue
  <2>1. PICK i \in DOMAIN edges : edges[i].holds /\ To(i) >= asked
    BY DEF WaitInv, Found, SeenSinceAsked
  <2>2. edges[i].holds = TRUE
    <3>1. edges[i] \in [at : Nat, holds : BOOLEAN]
      BY <1>2, ElementOfSeq, LenProperties
    <3> QED
      BY <2>1, <3>1
  <2>3. [from |-> edges[i].at, to |-> To(i)] \in Stretches(TRUE)
    BY <1>1, <2>2
  <2> QED
    BY <2>1, <2>3
<1>6. ASSUME NEW holds \in BOOLEAN, Bounded, Missable = holds, NEW s \in Stretches(holds)
      PROVE  s.to - s.from <= Slack + Blind
  <2>1. PICK i \in DOMAIN edges :
          edges[i].holds = holds /\ s = [from |-> edges[i].at, to |-> To(i)]
    BY <1>1, <1>6
  <2>2. To(i) - edges[i].at <= IF i < Len(edges) THEN Slack + Blind ELSE Unseen
    BY <1>6, <2>1 DEF Bounded
  <2>3. To(i) - edges[i].at <= Slack + Blind
    BY <1>2, <1>4, <2>2
  <2> QED
    BY <2>1, <2>3
<1>7. TimeoutMissedNothing
  <2> SUFFICES ASSUME outcome = "timeout"
               PROVE  /\ now >= Budget
                      /\ op # "consistently" =>
                           \A s \in Stretches(TRUE) : s.to - s.from <= Blind * (1 + failed)
    BY DEF TimeoutMissedNothing
  <2>1. now >= Budget
    BY DEF WaitInv, Punctual
  <2>2. ASSUME op # "consistently", NEW s \in Stretches(TRUE)
        PROVE  s.to - s.from <= Blind * (1 + failed)
    <3>1. Bounded /\ Missable = TRUE
      BY <2>2 DEF WaitInv, Watched, Missable
    <3>2. s.to - s.from <= Slack + Blind
      BY <1>6, <2>2, <3>1
    <3>3. Slack + Blind = Blind * (1 + failed)
      BY <1>3, <2>2 DEF Slack
    <3> QED
      BY <3>2, <3>3
  <2> QED
    BY <2>1, <2>2
<1>8. WindowWasWatched
  <2> SUFFICES ASSUME outcome = "ok", op = "consistently"
               PROVE  /\ now >= begun + Window
                      /\ \A s \in Stretches(FALSE) : s.to - s.from <= Blind
    BY DEF WindowWasWatched
  <2>1. now >= begun + Window
    BY DEF WaitInv, Punctual
  <2>2. ASSUME NEW s \in Stretches(FALSE) PROVE s.to - s.from <= Blind
    <3>1. Bounded /\ Missable = FALSE
      BY DEF WaitInv, Watched, Missable
    <3>2. s.to - s.from <= Slack + Blind
      BY <1>6, <2>2, <3>1
    <3>3. Slack + Blind = Blind
      BY <1>2 DEF Slack
    <3> QED
      BY <3>2, <3>3
  <2> QED
    BY <2>1, <2>2
<1> QED
  BY <1>5, <1>7, <1>8

(* However the Pods are replaced under it, and whatever its plan, a wait   *)
(* of the step that succeeds found what it waited for (OkWasTrue), one     *)
(* that times out did so at the deadline and overlooked nothing that held  *)
(* for longer than the time between two answers (TimeoutMissedNothing),    *)
(* and consistently watched its whole window (WindowWasWatched).           *)
THEOREM CaseWaitsWereWatched ==
  Spec => [](OkWasTrue /\ TimeoutMissedNothing /\ WindowWasWatched)
  BY WaitInvariant, WaitsWatched, PTL

-----------------------------------------------------------------------------
(* In time: the clock of each state is bounded by the deadline.            *)
LEMMA EndsTimely ==
  ASSUME WaitInv, Timely, Active, NEW how, Ends(how), UNCHANGED <<bounds, cluster, history>>
  PROVE  Timely'
<1>1. /\ UNCHANGED <<lang, now, killed, plan, op, begun, asked, wake, known>>
      /\ at' \in {"begin", "over"} /\ (op # "replacement" => target' = target)
  BY DEF bounds, history, Ends
<1>2. op \in Helpers /\ at # "over"
  BY DEF WaitInv, WaitShape, Active
<1> QED
  BY <1>1, <1>2 DEF Timely, Active, Helpers, Unheeding, Temporal

LEMMA SleepsTimely ==
  ASSUME WaitInv, Timely, at = "answered", NEW end \in Nat, end <= Budget,
         Sleeps(end), UNCHANGED <<bounds, cluster, history>>,
         lang = "python" => now < end
  PROVE  Timely'
<1>1. /\ at' = "asleep"
      /\ UNCHANGED <<lang, now, killed, plan, op, begun, asked, target, known>>
      /\ wake' = IF lang = "go" THEN now + Interval ELSE now + Least(Interval, end - now)
  BY DEF Sleeps, bounds, history
<1>2. now \in Nat /\ lang \in {"python", "go"} /\ Active
  BY DEF WaitInv, WaitShape, Active
<1>3. now <= Budget
  BY <1>2, Lengths DEF Timely, Heeds
<1>4. lang = "python" => wake' <= Budget
  <2> SUFFICES ASSUME lang = "python" PROVE wake' <= Budget
    OBVIOUS
  <2>1. now + Least(Interval, end - now) <= end
    BY <1>2, Lengths DEF Least
  <2>2. wake' = now + Least(Interval, end - now)
    BY <1>1
  <2>3. now + Least(Interval, end - now) \in Nat
    BY <1>2, Lengths DEF Least
  <2> QED
    BY <2>1, <2>2, <2>3, Lengths
<1>5. now <= Budget + Late
  BY <1>2, <1>3, Lengths
<1> QED
  BY <1>1, <1>2, <1>4, <1>5 DEF Timely, Active, Heeds

LEMMA ResumesTimely ==
  ASSUME WaitInv, Timely, at = "asleep", Resumes, UNCHANGED <<bounds, cluster, history>>
  PROVE  Timely'
<1>1. /\ at' = "check"
      /\ UNCHANGED <<lang, now, killed, plan, op, begun, asked, target, known>>
  BY DEF Resumes, bounds, history
<1> QED
  BY <1>1 DEF Timely, Active, Heeds

LEMMA BeginTimely == ActsFirst /\ WaitInv /\ Timely /\ Begin => Timely'
<1> SUFFICES ASSUME ActsFirst, WaitInv, Timely, Begin PROVE Timely'
  OBVIOUS
<1>1. /\ at = "begin" /\ op' = Head(plan) /\ plan' = Tail(plan) /\ begun' = now
      /\ \/ at' = "over"
         \/ at' = "check" /\ (Head(plan) = "consistently" => Window < Budget - now)
      /\ UNCHANGED <<lang, now, killed, asked, wake, target, known>>
  <2>1. now \in Nat
    BY DEF WaitInv, WaitShape
  <2> QED
    BY <2>1, Lengths DEF Begin, bounds
<1>2. plan # <<>> /\ plan \in Seq(Helpers) /\ now \in Nat
  BY <1>1 DEF WaitInv, WaitShape
<1>3. /\ Head(plan) = plan[1] /\ 1 \in DOMAIN plan /\ Head(plan) \in Helpers
      /\ \A i \in DOMAIN Tail(plan) : i + 1 \in 2 .. Len(plan) /\ Tail(plan)[i] = plan[i + 1]
  BY <1>2, HeadTailProperties, LenProperties, EmptySeq
<1>4. /\ op # "none" => Head(plan) \notin Unheeding
      /\ \A i \in DOMAIN Tail(plan) : Tail(plan)[i] \notin Unheeding
  <2>1. CASE op = "none"
    <3>1. plan \in Plans
      BY <1>2, <2>1 DEF Timely
    <3> QED
      BY <1>3, <2>1, <3>1 DEF ActsFirst
  <2>2. CASE op # "none"
    <3>1. \A i \in DOMAIN plan : plan[i] \notin Unheeding
      BY <2>2 DEF Timely
    <3>2. \A i \in 2 .. Len(plan) : i \in DOMAIN plan
      BY <1>2, LenProperties
    <3> QED
      BY <1>3, <3>1, <3>2
  <2> QED
    BY <2>1, <2>2
<1>5. op' # "none"
  BY <1>1, <1>3 DEF Helpers, Temporal
<1>6. op' \in Unheeding => op = "none"
  BY <1>1, <1>4
<1>7. at' # "over" /\ op' \in Unheeding => target.uid \in known /\ now <= Budget + Late
  <2> SUFFICES ASSUME op = "none" PROVE target.uid \in known /\ now <= Budget + Late
    BY <1>6
  <2> QED
    BY <1>1, Lengths DEF Timely
<1>8. at' = "check" /\ op' = "consistently" => now + Window < Budget
  BY <1>1, <1>2, Lengths
<1>9. ~Heeds' => op' \in Unheeding
  BY DEF Heeds, Unheeding
<1> QED
  BY <1>1, <1>4, <1>5, <1>7, <1>8, <1>9 DEF Timely, Active

LEMMA CheckTimely == WaitInv /\ Timely /\ Check => Timely'
<1> SUFFICES ASSUME WaitInv, Timely, Check PROVE Timely'
  OBVIOUS
<1>1. at = "check" /\ Active /\ UNCHANGED <<bounds, cluster, history>> /\ now \in Nat
  BY DEF Check, Active, WaitInv, WaitShape
<1>2. CASE Heeds /\ now >= Budget
  BY <1>1, <1>2, EndsTimely DEF Check
<1>3. CASE ~(Heeds /\ now >= Budget)
  <2>1. /\ at' = "asking" /\ asked' = now
        /\ UNCHANGED <<plan, op, begun, wake, target, known, lang, now, killed>>
    BY <1>1, <1>3 DEF Check, bounds, history
  <2>2. IF Heeds THEN now <= Budget ELSE now <= Budget + Late
    BY <1>1, <1>3, Lengths DEF Timely
  <2>3. Heeds' = Heeds
    BY <2>1 DEF Heeds
  <2> QED
    BY <1>1, <2>1, <2>2, <2>3 DEF Timely, Active
<1> QED
  BY <1>2, <1>3

(* The step deletes no Pod but the one its snapshot knows.                 *)
LEMMA AnswerTimely == WaitInv /\ Timely /\ (Serve \/ Fault \/ ServeDelete) => Timely'
<1> SUFFICES ASSUME WaitInv, Timely, Serve \/ Fault \/ ServeDelete PROVE Timely'
  OBVIOUS
<1>1. /\ at = "asking" /\ at' = "answered"
      /\ UNCHANGED <<plan, op, begun, asked, wake, target, known, lang, now>>
      /\ (killed' = killed \/ op = "delete") /\ killed' \subseteq killed \cup {target.uid}
  <2>1. CASE Serve
    BY <2>1 DEF Serve, Answered, bounds, history
  <2>2. CASE Fault
    BY <2>2 DEF Fault, Answered, history
  <2>3. CASE ServeDelete
    BY <2>3 DEF ServeDelete, Answered, bounds
  <2> QED
    BY <2>1, <2>2, <2>3
<1>2. killed' \subseteq known
  BY <1>1 DEF Timely, Unheeding
<1>3. Heeds' = Heeds
  BY <1>1 DEF Heeds
<1> QED
  BY <1>1, <1>2, <1>3 DEF Timely, Active

LEMMA ToldTimely == WaitInv /\ Timely /\ (Told \/ ToldAgain) => Timely'
<1> SUFFICES ASSUME WaitInv, Timely, Told \/ ToldAgain PROVE Timely'
  OBVIOUS
<1>1. /\ at = "answered" /\ Active /\ UNCHANGED <<bounds, cluster, history>>
      /\ now \in Nat /\ begun + Window \in Nat /\ Budget \in Nat
  BY Lengths DEF Told, ToldAgain, Active, WaitInv, WaitShape
<1>2. CASE Told
  <2>1. \/ \E how : Ends(how)
        \/ Sleeps(Budget) /\ ~(lang = "python" /\ now >= Budget)
    BY <1>2 DEF Told
  <2>2. CASE \E how : Ends(how)
    BY <1>1, <2>2, EndsTimely
  <2>3. CASE Sleeps(Budget) /\ ~(lang = "python" /\ now >= Budget)
    <3>1. Budget <= Budget /\ (lang = "python" => now < Budget)
      BY <1>1, <2>3
    <3> QED
      BY <1>1, <2>3, <3>1, SleepsTimely
  <2> QED
    BY <2>1, <2>2, <2>3
<1>3. CASE ToldAgain
  <2>1. \/ \E how : Ends(how)
        \/ Sleeps(begun + Window) /\ ~(lang = "python" /\ now >= begun + Window)
    BY <1>3 DEF ToldAgain
  <2>2. CASE \E how : Ends(how)
    BY <1>1, <2>2, EndsTimely
  <2>3. CASE Sleeps(begun + Window) /\ ~(lang = "python" /\ now >= begun + Window)
    <3>1. begun + Window <= Budget /\ (lang = "python" => now < begun + Window)
      BY <1>1, <1>3, <2>3 DEF Timely, ToldAgain
    <3> QED
      BY <1>1, <2>3, <3>1, SleepsTimely
  <2> QED
    BY <2>1, <2>2, <2>3
<1> QED
  BY <1>2, <1>3

LEMMA WakeTimely == WaitInv /\ Timely /\ (Cut \/ WakePython \/ WakeGo) => Timely'
<1> SUFFICES ASSUME WaitInv, Timely, Cut \/ WakePython \/ WakeGo PROVE Timely'
  OBVIOUS
<1>1. Active /\ UNCHANGED <<bounds, cluster, history>>
  BY DEF Cut, WakePython, WakeGo, Active
<1>2. (\E how : Ends(how)) \/ (at = "asleep" /\ Resumes)
  BY DEF Cut, WakePython, WakeGo
<1> QED
  BY <1>1, <1>2, EndsTimely, ResumesTimely

LEMMA TickTimely == WaitInv /\ Timely /\ Tick => Timely'
<1> SUFFICES ASSUME WaitInv, Timely, Tick PROVE Timely'
  OBVIOUS
<1>1. /\ now' = now + 1
      /\ \/ at \in {"asking", "answered"} /\ now < asked + Slow /\ (Heeds => now < Budget)
         \/ at = "asleep" /\ now < Due + Late
      /\ UNCHANGED <<lang, plan, op, at, begun, asked, wake, target, known, killed>>
  BY DEF Tick, helper, history
<1>2. /\ now \in Nat /\ asked \in Nat /\ wake \in Nat /\ begun \in Nat /\ lang \in {"python", "go"}
      /\ op # "none"
  BY <1>1 DEF WaitInv, WaitShape, Active, Helpers, Temporal
<1>3. Heeds' = Heeds
  BY <1>1 DEF Heeds
<1>4. CASE at \in {"asking", "answered"}
  <2>1. Heeds => now + 1 <= Budget
    BY <1>1, <1>2, <1>4, Lengths
  <2>2. ~Heeds => asked <= Budget + Late
    BY <1>4 DEF Timely
  <2>3. now < asked + Slow
    BY <1>1, <1>4
  <2>4. now + 1 <= Budget + Slow + Late
    BY <1>2, <2>1, <2>2, <2>3, Lengths
  <2> QED
    BY <1>1, <1>2, <1>3, <1>4, <2>1, <2>2, <2>4 DEF Timely, Active
<1>5. CASE at = "asleep"
  <2>1. lang = "python" => wake <= Budget
    BY <1>5 DEF Timely
  <2>2. Due \in Nat /\ Due <= Budget
    BY <1>2, <2>1, Lengths DEF Due, Least
  <2>3. now + 1 <= Budget + Late /\ now + 1 <= Budget + Slow + Late
    BY <1>1, <1>2, <1>5, <2>2, Lengths
  <2> QED
    BY <1>1, <1>2, <1>3, <1>5, <2>1, <2>3 DEF Timely, Active
<1> QED
  BY <1>1, <1>4, <1>5

LEMMA TimelyStep == ActsFirst /\ WaitInv /\ Timely /\ [Next]_<<waiting, stream>> => Timely'
<1> SUFFICES ASSUME ActsFirst, WaitInv, Timely, [Next]_<<waiting, stream>> PROVE Timely'
  OBVIOUS
<1>1. ASSUME UNCHANGED <<bounds, helper, killed>> PROVE Timely'
  BY <1>1 DEF bounds, helper, Timely, Active, Heeds
<1>2. CASE UNCHANGED waiting
  BY <1>1, <1>2 DEF waiting, history
<1>3. CASE Cluster
  BY <1>1, <1>3 DEF Cluster, Create, Turn, Schedule, Evict, Gone, Event
<1>4. CASE WaitNext
  BY <1>3, <1>4, BeginTimely, CheckTimely, AnswerTimely, ToldTimely, WakeTimely, TickTimely DEF WaitNext
<1> QED
  BY <1>2, <1>4 DEF Next

LEMMA TimelyInit == Init => Timely
<1> SUFFICES ASSUME WaitInit \/ NoWait PROVE Timely
  BY DEF Init
<1>1. 0 <= Budget + Slow + Late
  BY Lengths
<1>2. CASE WaitInit
  <2>1. target.uid = 1
    BY <1>2 DEF WaitInit, NoPod
  <2>2. now = 0 /\ op = "none" /\ plan \in Plans /\ at = "begin" /\ known = {1} /\ killed = {}
    BY <1>2 DEF WaitInit
  <2> QED
    BY <1>1, <2>1, <2>2 DEF Timely, Active
<1>3. CASE NoWait
  BY <1>1, <1>3 DEF NoWait, Timely, Active
<1> QED
  BY <1>2, <1>3

(* However the Pods are replaced under it, a wait of the step tells the    *)
(* truth, in time, and the step deletes no Pod but the one it meant,       *)
(* provided that a helper that looks at the deadline only between two      *)
(* calls, or that deletes, is the first one the step calls: one called     *)
(* later may begin after the deadline, or on a Pod the snapshot does not   *)
(* know.                                                                   *)
THEOREM CaseWaitsTellTheTruth == ActsFirst => (Spec => []WaitsTellTheTruth)
<1> SUFFICES ASSUME ActsFirst PROVE Spec => []WaitsTellTheTruth
  OBVIOUS
<1>1. WaitInv /\ Timely /\ [Next]_<<waiting, stream>> => Timely'
  BY TimelyStep
<1>2. WaitInv /\ Timely => WaitsTellTheTruth
  BY WaitsWatched DEF Timely, WaitsTellTheTruth, OverInTime
<1> QED
  BY <1>1, <1>2, WaitInvariant, TimelyInit, PTL DEF Spec

-----------------------------------------------------------------------------
(***************************************************************************)
(* The stream.  StreamIsLossless compares what the code computes a byte    *)
(* and a line at a time with the events of the text by their definition,   *)
(* which looks at the whole text: the proof is that one more byte, and one *)
(* more line, changes both in the same way.  It needs induction over data, *)
(* which is done here on sets: a set that has 0 and is closed under + 1 up *)
(* to n contains 0 .. n (IntervalInduction).  The folds of the library     *)
(* become chains of their intermediate results (BufferChain, ParseChain),  *)
(* over which that induction goes.                                         *)
(***************************************************************************)

(* Induction over an interval, for a set.                                  *)
LEMMA IntervalInduction ==
  ASSUME NEW n \in Nat, NEW T, 0 \in T, \A i \in 0 .. n - 1 : i \in T => i + 1 \in T
  PROVE  \A i \in 0 .. n : i \in T
<1> DEFINE Out == {i \in 0 .. n : i \notin T}
<1>1. SUFFICES ASSUME Out # {} PROVE FALSE
  OBVIOUS
<1>2. PICK m \in Out : \A i \in Out : m <= i
  <2>1. Out \in SUBSET Nat
    OBVIOUS
  <2> HIDE DEF Out
  <2> QED
    BY <1>1, <2>1, LeastElement
<1>3. m \in Nat /\ m <= n /\ m # 0 /\ m \notin T
  OBVIOUS
<1>4. m - 1 \in 0 .. n - 1 /\ m - 1 \in 0 .. n
  BY <1>3
<1>5. m - 1 \in T
  BY <1>2, <1>3, <1>4
<1>6. (m - 1) + 1 \in T
  BY <1>4, <1>5
<1> QED
  BY <1>3, <1>6

(* A set of naturals with a bound has a greatest element.                  *)
LEMMA MaxIs ==
  ASSUME NEW n \in Nat, NEW T \in SUBSET (0 .. n), T # {}
  PROVE  /\ Max(T) \in T /\ Max(T) \in 0 .. n
         /\ \A x \in T : x <= Max(T)
<1> DEFINE Above == {n - x : x \in T}
<1>0. \A x \in T : x \in Nat /\ x <= n
  OBVIOUS
<1>1. Above \in SUBSET Nat /\ Above # {}
  <2>1. \A x \in T : n - x \in Nat
    BY <1>0
  <2> QED
    BY <2>1
<1>2. PICK a \in Above : \A b \in Above : a <= b
  BY <1>1, LeastElement
<1>3. PICK m \in T : a = n - m
  BY <1>2
<1>4. \A x \in T : m >= x
  <2> SUFFICES ASSUME NEW x \in T PROVE m >= x
    OBVIOUS
  <2>1. n - m <= n - x
    BY <1>2, <1>3
  <2> QED
    BY <2>1
<1>5. \E x \in T : \A y \in T : x >= y
  BY <1>4
<1>6. Max(T) \in T /\ \A y \in T : Max(T) >= y
  BY <1>5 DEF Max
<1>7. \A x \in T : x \in 0 .. n
  OBVIOUS
<1> QED
  BY <1>6, <1>7

LEMMA MaxEquals ==
  ASSUME NEW n \in Nat, NEW T \in SUBSET (0 .. n), NEW m \in T, \A x \in T : x <= m
  PROVE  Max(T) = m
<1>1. Max(T) \in T /\ \A x \in T : x <= Max(T)
  BY MaxIs
<1>0. \A x \in T : x \in Nat
  OBVIOUS
<1>2. m <= Max(T) /\ Max(T) <= m /\ m \in Nat /\ Max(T) \in Nat
  BY <1>0, <1>1
<1> QED
  BY <1>2

-----------------------------------------------------------------------------
(* The k-th element by size. *)
LEMMA BelowFinite ==
  ASSUME NEW n \in Nat, NEW D \in SUBSET (0 .. n)
  PROVE  /\ IsFiniteSet(D) /\ Cardinality(D) \in Nat
         /\ \A e : IsFiniteSet({f \in D : f < e}) /\ Cardinality({f \in D : f < e}) \in Nat
<1>1. IsFiniteSet(D)
  <2>1. IsFiniteSet(0 .. n)
    BY FS_Interval
  <2> QED
    BY <2>1, FS_Subset
<1>2. \A e : {f \in D : f < e} \in SUBSET D
  OBVIOUS
<1> QED
  BY <1>1, <1>2, FS_Subset, FS_CardinalityType

(* The number of elements below grows along the set.                       *)
LEMMA BelowGrows ==
  ASSUME NEW n \in Nat, NEW D \in SUBSET (0 .. n), NEW a \in D, NEW b \in D, a < b
  PROVE  Cardinality({f \in D : f < a}) < Cardinality({f \in D : f < b})
<1> DEFINE A == {f \in D : f < a}
           B == {f \in D : f < b}
<1>1. a \notin A /\ A \cup {a} \in SUBSET B
  <2>1. a \in 0 .. n /\ b \in 0 .. n /\ \A f \in D : f \in 0 .. n
    OBVIOUS
  <2>2. \A f \in D : f < a => f < b
    BY <2>1
  <2>3. ~(a < a)
    BY <2>1
  <2> QED
    BY <2>2, <2>3
<1>2. IsFiniteSet(A) /\ IsFiniteSet(B) /\ Cardinality(A) \in Nat /\ Cardinality(B) \in Nat
  BY BelowFinite
<1>3. Cardinality(A \cup {a}) = Cardinality(A) + 1
  BY <1>1, <1>2, FS_AddElement
<1>4. Cardinality(A \cup {a}) <= Cardinality(B)
  BY <1>1, <1>2, FS_Subset
<1> QED
  BY <1>2, <1>3, <1>4

LEMMA NthIs ==
  ASSUME NEW n \in Nat, NEW D \in SUBSET (0 .. n), NEW e \in D
  PROVE  Nth(D, Cardinality({f \in D : f < e}) + 1) = e
<1> DEFINE below(x) == Cardinality({f \in D : f < x})
<1>1. \A x \in D : below(x) = below(e) => x = e
  <2> SUFFICES ASSUME NEW x \in D, below(x) = below(e), x # e PROVE FALSE
    OBVIOUS
  <2>1. x \in Nat /\ e \in Nat
    OBVIOUS
  <2>2. x < e \/ e < x
    BY <2>1
  <2>3. below(x) \in Nat /\ below(e) \in Nat
    BY BelowFinite
  <2>4. below(x) < below(e) \/ below(e) < below(x)
    BY <2>2, BelowGrows
  <2> QED
    BY <2>3, <2>4
<1>2. below(e) \in Nat
  BY BelowFinite
<1>3. (below(e) + 1) - 1 = below(e)
  BY <1>2
<1>4. Nth(D, below(e) + 1) = CHOOSE x \in D : below(x) = (below(e) + 1) - 1
  BY DEF Nth
<1> HIDE DEF below
<1>5. Nth(D, below(e) + 1) = e
  BY <1>1, <1>3, <1>4
<1> QED
  BY <1>5 DEF below

(* There is a k-th one for every k up to the size of the set.              *)
LEMMA NthIn ==
  ASSUME NEW n \in Nat, NEW D \in SUBSET (0 .. n), NEW k \in 1 .. Cardinality(D)
  PROVE  Nth(D, k) \in D /\ Cardinality({f \in D : f < Nth(D, k)}) = k - 1
<1>0. \A m \in 0 .. (n + 1) - 1 : m \in Nat /\ m <= n /\ (m + 1) - 1 = m /\ m + 1 \in 0 .. n + 1
  OBVIOUS
<1> DEFINE Filled(m) == \A E \in SUBSET (0 .. m - 1) : \A i \in 1 .. Cardinality(E) :
                          \E e \in E : Cardinality({f \in E : f < e}) = i - 1
           T == {m \in 0 .. n + 1 : Filled(m)}
<1>1. 0 \in T
  <2>1. ASSUME NEW E \in SUBSET (0 .. 0 - 1), NEW i \in 1 .. Cardinality(E) PROVE FALSE
    <3>1. E = {}
      OBVIOUS
    <3> QED
      BY <3>1, FS_EmptySet
  <2> QED
    BY <2>1
<1>2. ASSUME NEW m \in 0 .. (n + 1) - 1, m \in T PROVE m + 1 \in T
  <2> SUFFICES ASSUME NEW E \in SUBSET (0 .. (m + 1) - 1), NEW i \in 1 .. Cardinality(E)
               PROVE  \E e \in E : Cardinality({f \in E : f < e}) = i - 1
    BY <1>0
  <2> DEFINE S == E \ {m}
  <2>0. m \in Nat /\ m <= n /\ (m + 1) - 1 = m
    BY <1>0
  <2>1. S \in SUBSET (0 .. m - 1) /\ m \in Nat
    <3> SUFFICES ASSUME NEW x \in S PROVE x \in 0 .. m - 1
      BY <2>0
    <3>1. x \in 0 .. m /\ x # m
      BY <2>0
    <3> QED
      BY <2>0, <3>1
  <2>2. IsFiniteSet(E) /\ Cardinality(E) \in Nat /\ IsFiniteSet(S) /\ Cardinality(S) \in Nat
    <3>1. E \in SUBSET (0 .. n) /\ S \in SUBSET (0 .. n)
      BY <2>1
    <3> QED
      BY <3>1, BelowFinite
  <2>3. CASE i \in 1 .. Cardinality(S)
    <3>1. PICK e \in S : Cardinality({f \in S : f < e}) = i - 1
      BY <1>2, <2>1, <2>3
    <3>2. {f \in E : f < e} = {f \in S : f < e}
      BY <2>1
    <3> QED
      BY <3>1, <3>2
  <2>4. CASE i \notin 1 .. Cardinality(S)
    <3>1. m \in E
      <4>1. ASSUME m \notin E PROVE FALSE
        <5>1. S = E
          BY <4>1
        <5> QED
          BY <5>1, <2>4
      <4> QED
        BY <4>1
    <3>2. Cardinality(S) = Cardinality(E) - 1
      BY <2>2, <3>1, FS_RemoveElement
    <3>3. i - 1 = Cardinality(S)
      BY <2>2, <2>4, <3>2
    <3>4. {f \in E : f < m} = S
      <4>1. \A f \in S : f < m
        BY <2>1
      <4>2. ~(m < m)
        BY <2>0
      <4> QED
        BY <4>1, <4>2
    <3> QED
      BY <3>1, <3>3, <3>4
  <2> QED
    BY <2>3, <2>4
<1>3. n + 1 \in T
  <2> HIDE DEF T
  <2>1. n + 1 \in Nat /\ n + 1 \in 0 .. n + 1
    OBVIOUS
  <2> QED
    BY <1>1, <1>2, <2>1, IntervalInduction
<1>4. D \in SUBSET (0 .. (n + 1) - 1)
  OBVIOUS
<1>5. PICK e \in D : Cardinality({f \in D : f < e}) = k - 1
  BY <1>3, <1>4
<1>6. Nth(D, Cardinality({f \in D : f < e}) + 1) = e
  BY NthIs
<1>7. (k - 1) + 1 = k
  <2>1. Cardinality(D) \in Nat
    BY BelowFinite
  <2> QED
    BY <2>1
<1> QED
  BY <1>5, <1>6, <1>7

(* A new greatest element leaves the others where they are.                *)
LEMMA NthGrows ==
  ASSUME NEW n \in Nat, NEW D \in SUBSET (0 .. n)
  PROVE  /\ Cardinality(D \cup {n + 1}) = Cardinality(D) + 1 /\ Cardinality(D) \in Nat
         /\ \A k \in 1 .. Cardinality(D) : Nth(D \cup {n + 1}, k) = Nth(D, k)
         /\ Nth(D \cup {n + 1}, Cardinality(D) + 1) = n + 1
<1> DEFINE E == D \cup {n + 1}
<1>0. \A f \in D : f \in Nat /\ f <= n
  OBVIOUS
<1>1. IsFiniteSet(D) /\ Cardinality(D) \in Nat /\ n + 1 \notin D
  <2>1. n + 1 \notin D
    BY <1>0
  <2> QED
    BY <2>1, BelowFinite
<1>2. Cardinality(E) = Cardinality(D) + 1
  BY <1>1, FS_AddElement
<1>3. n + 1 \in Nat /\ E \in SUBSET (0 .. n + 1)
  OBVIOUS
<1>4. {f \in E : f < n + 1} = D
  <2>1. \A f \in D : f < n + 1
    BY <1>0
  <2>2. ~(n + 1 < n + 1)
    OBVIOUS
  <2> QED
    BY <2>1, <2>2
<1>5. Nth(E, Cardinality(D) + 1) = n + 1
  <2>1. n + 1 \in E
    OBVIOUS
  <2> HIDE DEF E
  <2>2. PICK m \in Nat : m = n + 1
    OBVIOUS
  <2>3. E \in SUBSET (0 .. m) /\ m \in E
    BY <1>3, <2>1, <2>2
  <2>4. Nth(E, Cardinality({f \in E : f < m}) + 1) = m
    BY <2>3, NthIs
  <2> QED
    BY <1>4, <2>2, <2>4
<1>6. ASSUME NEW k \in 1 .. Cardinality(D) PROVE Nth(E, k) = Nth(D, k)
  <2>1. Nth(D, k) \in D /\ Cardinality({f \in D : f < Nth(D, k)}) = k - 1
    BY NthIn
  <2>2. {f \in E : f < Nth(D, k)} = {f \in D : f < Nth(D, k)}
    <3>0. \A f \in D : ~(n + 1 < f)
      BY <1>0
    <3>1. ~(n + 1 < Nth(D, k))
      BY <2>1, <3>0
    <3> QED
      BY <3>1
  <2>3. Nth(D, k) \in E /\ Cardinality({f \in E : f < Nth(D, k)}) = k - 1
    BY <2>1, <2>2
  <2>4. (k - 1) + 1 = k
    BY <1>1
  <2> HIDE DEF E
  <2> QED
    BY <1>3, <2>3, <2>4, NthIs
<1> QED
  BY <1>1, <1>2, <1>5, <1>6

LEMMA NthLast ==
  ASSUME NEW n \in Nat, NEW D \in SUBSET (0 .. n), D # {}
  PROVE  Cardinality(D) \in Nat \ {0} /\ Nth(D, Cardinality(D)) = Max(D)
<1>1. IsFiniteSet(D) /\ Cardinality(D) \in Nat /\ Cardinality(D) # 0
  BY BelowFinite, FS_EmptySet
<1>2. Max(D) \in D /\ \A x \in D : x <= Max(D)
  BY MaxIs
<1>3. {f \in D : f < Max(D)} = D \ {Max(D)}
  <2>0. \A f \in D : f \in Nat
    OBVIOUS
  <2>1. \A m \in D : (\A x \in D : x <= m) => \A f \in D : f < m <=> f # m
    BY <2>0
  <2>2. \A f \in D : f < Max(D) <=> f # Max(D)
    BY <1>2, <2>1
  <2> QED
    BY <2>2
<1>4. Cardinality({f \in D : f < Max(D)}) = Cardinality(D) - 1
  BY <1>1, <1>2, <1>3, FS_RemoveElement
<1>5. Nth(D, Cardinality({f \in D : f < Max(D)}) + 1) = Max(D)
  BY <1>2, NthIs
<1>6. (Cardinality(D) - 1) + 1 = Cardinality(D)
  BY <1>1
<1> QED
  BY <1>1, <1>4, <1>5, <1>6
-----------------------------------------------------------------------------
(* Folding from the left. *)
Steps(h, n, a, F) == h[0] = a /\ \A i \in 1 .. n : h[i] = F[<<i, h[i - 1]>>]
Folds(g, n, a, F) ==
  \A d \in SUBSET (1 .. n) : g[d] = IF d = {} THEN a ELSE F[<<Max(d), g[d \ {Max(d)}]>>]

LEMMA StepsExist ==
  ASSUME NEW n \in Nat, NEW S, NEW a \in S, NEW F \in [(1 .. n) \X S -> S]
  PROVE  \E h \in [0 .. n -> S] : Steps(h, n, a, F)
<1> DEFINE Run(m, h) == h[0] = a /\ \A i \in 1 .. m : h[i] = F[<<i, h[i - 1]>>]
           T == {m \in 0 .. n : \E h \in [0 .. m -> S] : Run(m, h)}
<1>0. \A m \in 0 .. n - 1 : m \in Nat /\ m + 1 \in 0 .. n /\ m + 1 \in 1 .. n /\ m \in 0 .. m
  OBVIOUS
<1>1. 0 \in T
  <2>1. [i \in 0 .. 0 |-> a] \in [0 .. 0 -> S] /\ Run(0, [i \in 0 .. 0 |-> a])
    OBVIOUS
  <2>2. 0 \in 0 .. n
    OBVIOUS
  <2> QED
    BY <2>1, <2>2
<1>2. ASSUME NEW m \in 0 .. n - 1, m \in T PROVE m + 1 \in T
  <2>1. PICK h \in [0 .. m -> S] : Run(m, h)
    BY <1>2
  <2> HIDE DEF T
  <2>2. F[<<m + 1, h[m]>>] \in S
    BY <1>0
  <2> DEFINE g == [i \in 0 .. m + 1 |-> IF i = m + 1 THEN F[<<m + 1, h[m]>>] ELSE h[i]]
  <2>3. g \in [0 .. m + 1 -> S]
    <3> SUFFICES ASSUME NEW i \in 0 .. m + 1, i # m + 1 PROVE h[i] \in S
      BY <2>2
    <3>1. i \in 0 .. m
      BY <1>0
    <3> QED
      BY <3>1
  <2>4. g[0] = a
    <3>1. 0 \in 0 .. m + 1 /\ 0 # m + 1
      BY <1>0
    <3> QED
      BY <2>1, <3>1
  <2>5. ASSUME NEW i \in 1 .. m + 1 PROVE g[i] = F[<<i, g[i - 1]>>]
    <3>1. i \in 0 .. m + 1 /\ i - 1 \in 0 .. m + 1 /\ i - 1 # m + 1
      BY <1>0
    <3>2. g[i - 1] = h[i - 1]
      BY <3>1
    <3>3. CASE i = m + 1
      <4>1. i - 1 = m
        BY <1>0, <3>3
      <4> QED
        BY <3>1, <3>2, <3>3, <4>1
    <3>4. CASE i # m + 1
      <4>1. i \in 1 .. m
        BY <1>0, <3>4
      <4> QED
        BY <2>1, <3>1, <3>2, <3>4, <4>1
    <3> QED
      BY <3>3, <3>4
  <2> HIDE DEF g
  <2>6. Run(m + 1, g)
    BY <2>4, <2>5
  <2> QED
    BY <1>0, <2>3, <2>6 DEF T
<1>3. n \in T
  <2> HIDE DEF T
  <2>1. n \in 0 .. n
    OBVIOUS
  <2> QED
    BY <1>1, <1>2, <2>1, IntervalInduction
<1>4. PICK h \in [0 .. n -> S] : Run(n, h)
  BY <1>3
<1>5. Steps(h, n, a, F)
  BY <1>4 DEF Steps
<1> QED
  BY <1>5

(* A recursion over the sets of places that takes the greatest one off.    *)
LEMMA FoldExists ==
  ASSUME NEW n \in Nat, NEW S, NEW a \in S, NEW F \in [(1 .. n) \X S -> S]
  PROVE  \E g \in [SUBSET (1 .. n) -> S] : Folds(g, n, a, F)
<1> DEFINE Goes(d, h) == h[0] = a /\ \A i \in 1 .. n :
                           h[i] = IF i \in d THEN F[<<i, h[i - 1]>>] ELSE h[i - 1]
           H(d) == CHOOSE h \in [0 .. n -> S] : Goes(d, h)
           g == [d \in SUBSET (1 .. n) |-> H(d)[n]]
<1>1. ASSUME NEW d \in SUBSET (1 .. n) PROVE H(d) \in [0 .. n -> S] /\ Goes(d, H(d))
  <2> DEFINE G == [p \in (1 .. n) \X S |-> IF p[1] \in d THEN F[p] ELSE p[2]]
  <2>1. G \in [(1 .. n) \X S -> S]
    OBVIOUS
  <2>2. PICK h \in [0 .. n -> S] : h[0] = a /\ \A i \in 1 .. n : h[i] = G[<<i, h[i - 1]>>]
    <3> HIDE DEF G, H, g, Goes
    <3>1. PICK h \in [0 .. n -> S] : Steps(h, n, a, G)
      BY <2>1, StepsExist
    <3> QED
      BY <3>1 DEF Steps
  <2>3. Goes(d, h)
    <3> SUFFICES ASSUME NEW i \in 1 .. n
                 PROVE  h[i] = IF i \in d THEN F[<<i, h[i - 1]>>] ELSE h[i - 1]
      BY <2>2
    <3>1. i - 1 \in 0 .. n
      OBVIOUS
    <3>2. <<i, h[i - 1]>> \in (1 .. n) \X S
      BY <3>1
    <3>3. G[<<i, h[i - 1]>>] = IF i \in d THEN F[<<i, h[i - 1]>>] ELSE h[i - 1]
      BY <3>2
    <3> QED
      BY <2>2, <3>3
  <2> HIDE DEF Goes
  <2> QED
    BY <2>2, <2>3
<1> HIDE DEF H
<1>2. ASSUME NEW d \in SUBSET (1 .. n), NEW m \in 0 .. n, \A i \in d : i <= m
      PROVE  H(d)[n] = H(d)[m]
  <2> DEFINE T == {k \in 0 .. n : m + k <= n => H(d)[m + k] = H(d)[m]}
  <2>0. m \in Nat /\ m <= n
    OBVIOUS
  <2>1. 0 \in T
    BY <2>0
  <2>2. ASSUME NEW k \in 0 .. n - 1, k \in T PROVE k + 1 \in T
    <3> SUFFICES ASSUME m + (k + 1) <= n PROVE H(d)[m + (k + 1)] = H(d)[m]
      OBVIOUS
    <3>1. /\ m + (k + 1) \in 1 .. n /\ (m + (k + 1)) - 1 = m + k /\ m + k <= n
          /\ ~(m + (k + 1) <= m)
      BY <2>0
    <3>2. m + (k + 1) \notin d
      BY <1>2, <3>1
    <3>3. H(d)[m + (k + 1)] = H(d)[m + k]
      <4>1. PICK i \in 1 .. n : i = m + (k + 1)
        BY <3>1
      <4>2. H(d)[i] = H(d)[i - 1] /\ i - 1 = m + k
        BY <1>1, <3>1, <3>2, <4>1
      <4> QED
        BY <4>1, <4>2
    <3> QED
      BY <2>2, <3>1, <3>3
  <2>3. n - m \in 0 .. n /\ m + (n - m) = n
    BY <2>0
  <2>4. n - m \in T
    <3> HIDE DEF T
    <3> QED
      BY <2>1, <2>2, <2>3, IntervalInduction
  <2> QED
    BY <2>3, <2>4
<1>3. ASSUME NEW d \in SUBSET (1 .. n), NEW e \in SUBSET (1 .. n), NEW m \in 0 .. n,
             \A i \in 1 .. m : i \in d <=> i \in e
      PROVE  H(d)[m] = H(e)[m]
  <2> DEFINE T == {k \in 0 .. m : H(d)[k] = H(e)[k]}
  <2>0. m \in Nat /\ m <= n
    OBVIOUS
  <2>1. 0 \in T
    BY <1>1
  <2>2. ASSUME NEW k \in 0 .. m - 1, k \in T PROVE k + 1 \in T
    <3>1. k + 1 \in 1 .. n /\ k + 1 \in 0 .. m /\ k + 1 \in 1 .. m /\ (k + 1) - 1 = k
      BY <2>0
    <3>2. k + 1 \in d <=> k + 1 \in e
      BY <1>3, <3>1
    <3>3. /\ H(d)[k + 1] = IF k + 1 \in d THEN F[<<k + 1, H(d)[k]>>] ELSE H(d)[k]
          /\ H(e)[k + 1] = IF k + 1 \in e THEN F[<<k + 1, H(e)[k]>>] ELSE H(e)[k]
      BY <1>1, <3>1
    <3>4. H(d)[k] = H(e)[k]
      BY <2>2
    <3> QED
      BY <3>1, <3>2, <3>3, <3>4
  <2>3. m \in 0 .. m
    OBVIOUS
  <2>4. m \in T
    <3> HIDE DEF T
    <3> QED
      BY <2>1, <2>2, <2>3, IntervalInduction
  <2> QED
    BY <2>4
<1>4. g \in [SUBSET (1 .. n) -> S]
  <2>1. n \in 0 .. n
    OBVIOUS
  <2> QED
    BY <1>1, <2>1
<1>5. ASSUME NEW d \in SUBSET (1 .. n)
      PROVE  g[d] = IF d = {} THEN a ELSE F[<<Max(d), g[d \ {Max(d)}]>>]
  <2>1. CASE d = {}
    <3>1. 0 \in 0 .. n
      OBVIOUS
    <3>2. H(d)[n] = H(d)[0]
      BY <1>2, <2>1, <3>1
    <3> QED
      BY <1>1, <2>1, <3>2
  <2>2. CASE d # {}
    <3>1. PICK x \in d : x = Max(d) /\ \A i \in d : i <= x
      <4>1. d \in SUBSET (0 .. n)
        OBVIOUS
      <4> QED
        BY <2>2, <4>1, MaxIs
    <3> DEFINE e == d \ {x}
    <3>2. x \in 1 .. n /\ x \in 0 .. n /\ x - 1 \in 0 .. n /\ e \in SUBSET (1 .. n)
      OBVIOUS
    <3>3. H(d)[n] = H(d)[x]
      BY <1>2, <3>1, <3>2
    <3>4. H(d)[x] = F[<<x, H(d)[x - 1]>>]
      BY <1>1, <3>2
    <3>5. H(d)[x - 1] = H(e)[x - 1]
      <4>1. \A i \in 1 .. x - 1 : i # x
        BY <3>2
      <4>2. \A i \in 1 .. x - 1 : i \in d <=> i \in e
        BY <4>1
      <4> QED
        BY <1>3, <3>2, <4>2
    <3>6. H(e)[n] = H(e)[x - 1]
      <4>1. ASSUME NEW i \in e PROVE i <= x - 1
        <5>1. i <= x /\ i # x /\ i \in Nat /\ x \in Nat
          BY <3>1, <3>2
        <5> QED
          BY <5>1
      <4> HIDE DEF e
      <4> QED
        BY <1>2, <3>2, <4>1
    <3>7. g[d] = H(d)[n] /\ g[e] = H(e)[n]
      BY <3>2
    <3> QED
      BY <2>2, <3>1, <3>3, <3>4, <3>5, <3>6, <3>7
  <2> QED
    BY <2>1, <2>2
<1> HIDE DEF g
<1>6. Folds(g, n, a, F)
  BY <1>5 DEF Folds
<1> QED
  BY <1>4, <1>6
-----------------------------------------------------------------------------
(* What the parts of a stream are made of. *)
Text == Seq(Bytes \cup {"?"})
BufferType == [lines : Seq(Text), rest : Text]
StateType == [event : Text \cup {"message"}, data : Seq(Text), id : Text \cup {""}]
ParseType == [state : StateType, out : Seq(StateType)]

LEMMA LineText ==
  ASSUME NEW bytes \in Text
  PROVE  Line(bytes) \in Text
<1> DEFINE B == Bytes \cup {"?"}
<1>1. ASSUME NEW s \in Seq(B) PROVE Decode(s) \in Seq(B)
  <2>1. Len(s) \in Nat /\ DOMAIN s = 1 .. Len(s) /\ \A i \in 1 .. Len(s) : s[i] \in B
    BY LenProperties, ElementOfSeq
  <2>2. Decode(s) \in [1 .. Len(s) -> B]
    BY <2>1 DEF Decode
  <2> QED
    BY <2>1, <2>2, SeqDef
<1>2. CASE bytes # <<>>
  <2>1. Front(bytes) \in Seq(B)
    <3>1. Len(bytes) \in Nat /\ Len(bytes) - 1 \in Int /\ \A i \in 1 .. Len(bytes) : bytes[i] \in B
      BY LenProperties, ElementOfSeq DEF Text
    <3>2. \A i \in 1 .. Len(bytes) - 1 : bytes[i] \in B
      BY <3>1
    <3> QED
      BY <3>1, <3>2, SubSeqProperties DEF Front
  <2>2. bytes \in Seq(B)
    BY DEF Text
  <2> QED
    BY <1>1, <2>1, <2>2 DEF Line, Text
<1>3. CASE bytes = <<>>
  BY <1>1, <1>3 DEF Line, Text
<1> QED
  BY <1>2, <1>3

LEMMA StrippedText ==
  ASSUME NEW line \in Text
  PROVE  Stripped(line) \in Text
<1> DEFINE T == {0} \cup {i \in DOMAIN line : line[i] \notin {"sp", "cr"}}
<1>1. /\ Len(line) \in Nat /\ DOMAIN line = 1 .. Len(line)
      /\ \A i \in 1 .. Len(line) : line[i] \in Bytes \cup {"?"}
  BY LenProperties, ElementOfSeq DEF Text
<1>2. T \in SUBSET (0 .. Len(line)) /\ T # {}
  BY <1>1
<1>3. PICK m \in 0 .. Len(line) : m = Max(T)
  <2> HIDE DEF T
  <2> QED
    BY <1>1, <1>2, MaxIs
<1>4. \A i \in 1 .. m : line[i] \in Bytes \cup {"?"}
  BY <1>1
<1>5. SubSeq(line, 1, m) \in Text
  BY <1>4, SubSeqProperties DEF Text
<1> QED
  BY <1>3, <1>5 DEF Stripped

LEMMA EmptyLine == <<>> \in Text /\ Line(<<>>) = <<>> /\ Stripped(<<>>) = <<>>
<1>1. <<>> \in Text
  BY DEF Text
<1>2. Line(<<>>) = <<>>
  <2>1. Line(<<>>) = [i \in {} |-> <<>>[i]]
    BY DEF Line, Decode
  <2>2. Len(<<>>) = 0 /\ DOMAIN <<>> = {}
    OBVIOUS
  <2>3. Line(<<>>) \in Text /\ DOMAIN Line(<<>>) = {}
    BY <1>1, <2>2, LineText DEF Line, Decode
  <2>4. Len(Line(<<>>)) = 0
    BY <2>3, LenProperties DEF Text
  <2> QED
    BY <2>3, <2>4, EmptySeq DEF Text
<1>3. Stripped(<<>>) = <<>>
  <2>1. DOMAIN <<>> = {}
    OBVIOUS
  <2>2. {0} \cup {i \in DOMAIN <<>> : <<>>[i] \notin {"sp", "cr"}} = {0}
    BY <2>1
  <2>3. Max({0}) = 0
    <3>1. {0} \in SUBSET (0 .. 0)
      OBVIOUS
    <3> QED
      BY <3>1, MaxIs
  <2>4. SubSeq(<<>>, 1, 0) = <<>>
    BY SubSeqEmpty
  <2> QED
    BY <2>2, <2>3, <2>4 DEF Stripped
<1> QED
  BY <1>1, <1>2, <1>3

LEMMA TakeByteType ==
  ASSUME NEW b \in BufferType, NEW byte \in Bytes \cup {"?"}
  PROVE  /\ TakeByte(b, byte) \in BufferType
         /\ byte = "nl" => TakeByte(b, byte).lines = Append(b.lines, Line(b.rest))
                           /\ TakeByte(b, byte).rest = <<>>
         /\ byte # "nl" => TakeByte(b, byte).lines = b.lines
                           /\ TakeByte(b, byte).rest = Append(b.rest, byte)
<1>1. b.lines \in Seq(Text) /\ b.rest \in Text
  BY DEF BufferType
<1>2. Append(b.lines, Line(b.rest)) \in Seq(Text)
  BY <1>1, LineText, AppendProperties
<1>3. Append(b.rest, byte) \in Text
  BY <1>1, AppendProperties DEF Text
<1> QED
  BY <1>1, <1>2, <1>3, EmptyLine DEF TakeByte, BufferType

LEMMA FeedLineType ==
  ASSUME NEW p \in ParseType, NEW raw \in Text
  PROVE  FeedLine(p, raw) \in ParseType
<1>1. p.state \in StateType /\ p.out \in Seq(StateType)
  BY DEF ParseType
<1>2. Fresh \in StateType
  BY EmptyLine DEF Fresh, StateType
<1>3. Append(p.out, p.state) \in Seq(StateType)
  BY <1>1, AppendProperties
<1> DEFINE line == Stripped(raw)
<1>4. line \in Text
  BY StrippedText
<1> HIDE DEF line
<1>5. Append(p.state.data, line) \in Seq(Text)
  BY <1>1, <1>4, AppendProperties DEF StateType
<1>6. /\ [p.state EXCEPT !.event = line] \in StateType
      /\ [p.state EXCEPT !.data = Append(@, line)] \in StateType
      /\ [p.state EXCEPT !.id = line] \in StateType
  BY <1>1, <1>4, <1>5 DEF StateType
<1>7. AddField(p.state, line) \in StateType
  BY <1>1, <1>6 DEF AddField
<1>8. CASE line = <<>>
  BY <1>1, <1>2, <1>3, <1>8 DEF FeedLine, line, ParseType
<1>9. CASE line # <<>>
  <2>1. FeedLine(p, raw) = [p EXCEPT !.state = AddField(p.state, line)]
    BY <1>9 DEF FeedLine, line
  <2> QED
    BY <1>7, <2>1 DEF ParseType
<1> QED
  BY <1>8, <1>9

(* What folding over the bytes, or over the lines, goes through.           *)
LEMMA BufferChain ==
  ASSUME NEW bytes \in Text
  PROVE  \E h \in [0 .. Len(bytes) -> BufferType] :
            /\ h[0] = Nothing /\ h[Len(bytes)] = Buffer(bytes)
            /\ \A i \in 1 .. Len(bytes) : h[i] = TakeByte(h[i - 1], bytes[i])
<1> DEFINE n == Len(bytes)
           F == [p \in (1 .. n) \X BufferType |-> TakeByte(p[2], bytes[p[1]])]
           Body(f) == [d \in SUBSET DOMAIN bytes |->
                         IF d = {} THEN Nothing
                         ELSE TakeByte(f[d \ {Max(d)}], bytes[Max(d)])]
           it == CHOOSE f : f = Body(f)
           h == [i \in 0 .. n |-> it[1 .. i]]
<1>1. /\ n \in Nat /\ DOMAIN bytes = 1 .. n /\ Nothing \in BufferType
      /\ \A i \in 1 .. n : bytes[i] \in Bytes \cup {"?"}
  BY LenProperties, ElementOfSeq, EmptyLine DEF Text, Nothing, BufferType
<1>2. F \in [(1 .. n) \X BufferType -> BufferType]
  BY <1>1, TakeByteType
<1>3. PICK g \in [SUBSET (1 .. n) -> BufferType] : Folds(g, n, Nothing, F)
  <2> HIDE DEF F, n
  <2> QED
    BY <1>1, <1>2, FoldExists
<1>4. g = Body(g)
  <2>1. ASSUME NEW d \in SUBSET (1 .. n), d # {}
        PROVE  g[d] = TakeByte(g[d \ {Max(d)}], bytes[Max(d)])
    <3>1. Max(d) \in d
      <4>1. d \in SUBSET (0 .. n)
        OBVIOUS
      <4> QED
        BY <1>1, <2>1, <4>1, MaxIs
    <3>2. g[d \ {Max(d)}] \in BufferType
      OBVIOUS
    <3>3. F[<<Max(d), g[d \ {Max(d)}]>>] = TakeByte(g[d \ {Max(d)}], bytes[Max(d)])
      BY <3>1, <3>2
    <3> QED
      BY <1>3, <2>1, <3>3 DEF Folds
  <2>2. g[{}] = Nothing
    BY <1>3 DEF Folds
  <2> QED
    BY <1>1, <2>1, <2>2
<1>5. it = Body(it)
  <2> HIDE DEF Body
  <2> QED
    BY <1>4
<1>6. Buffer(bytes) = it[DOMAIN bytes]
  BY Zenon DEF Buffer, FoldLeft, MapThenFoldSet
<1> HIDE DEF it
<1>7. it[{}] = Nothing
  BY <1>5
<1>8. ASSUME NEW i \in 1 .. n PROVE it[1 .. i] = TakeByte(it[1 .. i - 1], bytes[i])
  <2>1. 1 .. i \in SUBSET DOMAIN bytes /\ 1 .. i # {} /\ i \in Nat
    BY <1>1
  <2>2. Max(1 .. i) = i
    <3>1. 1 .. i \in SUBSET (0 .. i) /\ i \in 1 .. i /\ \A x \in 1 .. i : x <= i
      OBVIOUS
    <3> QED
      BY <2>1, <3>1, MaxEquals
  <2>3. (1 .. i) \ {i} = 1 .. i - 1
    OBVIOUS
  <2> HIDE DEF n
  <2> QED
    BY <1>5, <2>1, <2>2, <2>3
<1>9. \A i \in 0 .. n : it[1 .. i] \in BufferType
  <2> DEFINE T == {i \in 0 .. n : it[1 .. i] \in BufferType}
  <2>1. 0 \in T
    <3>1. 1 .. 0 = {} /\ 0 \in 0 .. n
      BY <1>1
    <3> QED
      BY <1>1, <1>7, <3>1
  <2>2. ASSUME NEW i \in 0 .. n - 1, i \in T PROVE i + 1 \in T
    <3>1. i + 1 \in 1 .. n /\ i + 1 \in 0 .. n /\ (i + 1) - 1 = i
      BY <1>1
    <3>2. it[1 .. i + 1] = TakeByte(it[1 .. i], bytes[i + 1])
      BY <1>8, <3>1
    <3>3. TakeByte(it[1 .. i], bytes[i + 1]) \in BufferType
      BY <1>1, <2>2, <3>1, TakeByteType
    <3> QED
      BY <3>1, <3>2, <3>3
  <2> HIDE DEF n, T
  <2>3. \A i \in 0 .. n : i \in T
    BY <1>1, <2>1, <2>2, IntervalInduction
  <2> QED
    BY <2>3 DEF T
<1>10. h \in [0 .. n -> BufferType]
  BY <1>9
<1>11. h[0] = Nothing /\ h[n] = Buffer(bytes)
  <2>1. 1 .. 0 = {} /\ 0 \in 0 .. n /\ n \in 0 .. n
    BY <1>1
  <2> QED
    BY <1>1, <1>6, <1>7, <2>1
<1>12. ASSUME NEW i \in 1 .. n PROVE h[i] = TakeByte(h[i - 1], bytes[i])
  <2>1. i \in 0 .. n /\ i - 1 \in 0 .. n
    BY <1>1
  <2> QED
    BY <1>8, <2>1
<1> HIDE DEF h
<1> QED
  BY <1>10, <1>11, <1>12

LEMMA ParseChain ==
  ASSUME NEW lines \in Seq(Text), NEW state \in StateType, state = parser
  PROVE  \E h \in [0 .. Len(lines) -> ParseType] :
            /\ h[0] = [state |-> state, out |-> <<>>] /\ h[Len(lines)] = Parse(lines)
            /\ \A i \in 1 .. Len(lines) : h[i] = FeedLine(h[i - 1], lines[i])
<1> DEFINE n == Len(lines)
           start == [state |-> state, out |-> <<>>]
           F == [p \in (1 .. n) \X ParseType |-> FeedLine(p[2], lines[p[1]])]
           Body(f) == [d \in SUBSET DOMAIN lines |->
                         IF d = {} THEN start
                         ELSE FeedLine(f[d \ {Max(d)}], lines[Max(d)])]
           it == CHOOSE f : f = Body(f)
           h == [i \in 0 .. n |-> it[1 .. i]]
<1>1. /\ n \in Nat /\ DOMAIN lines = 1 .. n /\ start \in ParseType
      /\ \A i \in 1 .. n : lines[i] \in Text
  BY LenProperties, ElementOfSeq, EmptySeq DEF ParseType
<1>2. F \in [(1 .. n) \X ParseType -> ParseType]
  BY <1>1, FeedLineType
<1>3. PICK g \in [SUBSET (1 .. n) -> ParseType] : Folds(g, n, start, F)
  <2> HIDE DEF F, n, start
  <2> QED
    BY <1>1, <1>2, FoldExists
<1>4. g = Body(g)
  <2> HIDE DEF start
  <2>1. ASSUME NEW d \in SUBSET (1 .. n), d # {}
        PROVE  g[d] = FeedLine(g[d \ {Max(d)}], lines[Max(d)])
    <3>1. Max(d) \in d
      <4>1. d \in SUBSET (0 .. n)
        OBVIOUS
      <4> QED
        BY <1>1, <2>1, <4>1, MaxIs
    <3>2. g[d \ {Max(d)}] \in ParseType
      OBVIOUS
    <3>3. F[<<Max(d), g[d \ {Max(d)}]>>] = FeedLine(g[d \ {Max(d)}], lines[Max(d)])
      BY <3>1, <3>2
    <3> QED
      BY <1>3, <2>1, <3>3 DEF Folds
  <2>2. g[{}] = start
    BY <1>3 DEF Folds
  <2> QED
    BY <1>1, <2>1, <2>2
<1>5. it = Body(it)
  <2> HIDE DEF Body
  <2> QED
    BY <1>4
<1>6. Parse(lines) = it[DOMAIN lines]
  BY Zenon DEF Parse, FoldLeft, MapThenFoldSet
<1> HIDE DEF it, start
<1>7. it[{}] = start
  BY <1>5
<1>8. ASSUME NEW i \in 1 .. n PROVE it[1 .. i] = FeedLine(it[1 .. i - 1], lines[i])
  <2>1. 1 .. i \in SUBSET DOMAIN lines /\ 1 .. i # {} /\ i \in Nat
    BY <1>1
  <2>2. Max(1 .. i) = i
    <3>1. 1 .. i \in SUBSET (0 .. i) /\ i \in 1 .. i /\ \A x \in 1 .. i : x <= i
      OBVIOUS
    <3> QED
      BY <2>1, <3>1, MaxEquals
  <2>3. (1 .. i) \ {i} = 1 .. i - 1
    OBVIOUS
  <2> HIDE DEF n
  <2> QED
    BY <1>5, <2>1, <2>2, <2>3
<1>9. \A i \in 0 .. n : it[1 .. i] \in ParseType
  <2> DEFINE T == {i \in 0 .. n : it[1 .. i] \in ParseType}
  <2>1. 0 \in T
    <3>1. 1 .. 0 = {} /\ 0 \in 0 .. n
      BY <1>1
    <3> QED
      BY <1>1, <1>7, <3>1
  <2>2. ASSUME NEW i \in 0 .. n - 1, i \in T PROVE i + 1 \in T
    <3>1. i + 1 \in 1 .. n /\ i + 1 \in 0 .. n /\ (i + 1) - 1 = i
      BY <1>1
    <3>2. it[1 .. i + 1] = FeedLine(it[1 .. i], lines[i + 1])
      BY <1>8, <3>1
    <3>3. FeedLine(it[1 .. i], lines[i + 1]) \in ParseType
      BY <1>1, <2>2, <3>1, FeedLineType
    <3> QED
      BY <3>1, <3>2, <3>3
  <2> HIDE DEF n, T
  <2>3. \A i \in 0 .. n : i \in T
    BY <1>1, <2>1, <2>2, IntervalInduction
  <2> QED
    BY <2>3 DEF T
<1>10. h \in [0 .. n -> ParseType]
  BY <1>9
<1>11. h[0] = start /\ h[n] = Parse(lines)
  <2>1. 1 .. 0 = {} /\ 0 \in 0 .. n /\ n \in 0 .. n
    BY <1>1
  <2> QED
    BY <1>1, <1>6, <1>7, <2>1
<1>12. ASSUME NEW i \in 1 .. n PROVE h[i] = FeedLine(h[i - 1], lines[i])
  <2>1. i \in 0 .. n /\ i - 1 \in 0 .. n
    BY <1>1
  <2> QED
    BY <1>8, <2>1
<1> HIDE DEF h
<1> QED
  BY <1>10, <1>11, <1>12 DEF start

-----------------------------------------------------------------------------
(* The lines of a text. *)
RestOf(t) == SubSeq(t, Max(LineEnds(t)) + 1, Len(t))

LEMMA LineEndsIn ==
  ASSUME NEW t \in Text
  PROVE  /\ LineEnds(t) \in SUBSET (0 .. Len(t)) /\ LineEnds(t) # {} /\ Len(t) \in Nat
         /\ Max(LineEnds(t)) \in LineEnds(t) /\ Max(LineEnds(t)) \in 0 .. Len(t)
         /\ \A x \in LineEnds(t) : x <= Max(LineEnds(t))
         /\ Cardinality(LineEnds(t)) \in Nat \ {0}
         /\ Nth(LineEnds(t), Cardinality(LineEnds(t))) = Max(LineEnds(t))
<1>1. Len(t) \in Nat /\ DOMAIN t = 1 .. Len(t)
  BY LenProperties DEF Text
<1>2. LineEnds(t) \in SUBSET (0 .. Len(t)) /\ LineEnds(t) # {}
  BY <1>1 DEF LineEnds
<1>3. /\ Max(LineEnds(t)) \in LineEnds(t) /\ Max(LineEnds(t)) \in 0 .. Len(t)
      /\ \A x \in LineEnds(t) : x <= Max(LineEnds(t))
  BY <1>1, <1>2, MaxIs
<1> QED
  BY <1>1, <1>2, <1>3, NthLast

LEMMA RestText ==
  ASSUME NEW t \in Text
  PROVE  RestOf(t) \in Text
<1>1. PICK m \in 0 .. Len(t) : m = Max(LineEnds(t))
  BY LineEndsIn
<1>2. Len(t) \in Nat /\ m + 1 \in Int /\ \A i \in m + 1 .. Len(t) : t[i] \in Bytes \cup {"?"}
  BY LenProperties, ElementOfSeq DEF Text
<1>3. SubSeq(t, m + 1, Len(t)) \in Text
  BY <1>2, SubSeqProperties DEF Text
<1> QED
  BY <1>1, <1>3 DEF RestOf

(* One more byte.                                                          *)
LEMMA RestGrows ==
  ASSUME NEW t \in Text, NEW b \in Bytes \cup {"?"}
  PROVE  /\ Append(t, b) \in Text
         /\ LineEnds(Append(t, b)) = LineEnds(t) \cup IF b = "nl" THEN {Len(t) + 1} ELSE {}
         /\ RestOf(Append(t, b)) = IF b = "nl" THEN <<>> ELSE Append(RestOf(t), b)
<1> DEFINE n == Len(t)
           u == Append(t, b)
           m == Max(LineEnds(t))
<1>1. /\ u \in Text /\ Len(u) = n + 1 /\ n \in Nat /\ DOMAIN u = 1 .. n + 1 /\ DOMAIN t = 1 .. n
      /\ u[n + 1] = b /\ \A i \in 1 .. n : u[i] = t[i]
  BY LenProperties, AppendProperties DEF Text
<1>2. LineEnds(u) = LineEnds(t) \cup IF b = "nl" THEN {n + 1} ELSE {}
  <2> HIDE DEF u, n
  <2>1. \A i \in 1 .. n + 1 : i \in 1 .. n \/ i = n + 1
    BY <1>1
  <2>2. \A i \in 1 .. n : i \in 1 .. n + 1
    BY <1>1
  <2>3. n + 1 \in 1 .. n + 1
    BY <1>1
  <2> QED
    BY <1>1, <2>1, <2>2, <2>3 DEF LineEnds
<1>3. m \in 0 .. n /\ m \in LineEnds(t) /\ \A x \in LineEnds(t) : x <= m
  BY LineEndsIn
<1>4. CASE b = "nl"
  <2>1. Max(LineEnds(u)) = n + 1
    <3>1. PICK k \in Nat : k = n + 1
      BY <1>1
    <3>2. LineEnds(u) \in SUBSET (0 .. k) /\ k \in LineEnds(u)
      BY <1>1, <1>2, <1>4, <3>1, LineEndsIn
    <3>3. \A x \in LineEnds(u) : x <= k
      BY <3>1, <3>2
    <3> HIDE DEF u, n
    <3> QED
      BY <3>1, <3>2, <3>3, MaxEquals
  <2>2. SubSeq(u, (n + 1) + 1, n + 1) = <<>>
    BY <1>1, SubSeqEmpty
  <2> QED
    BY <1>1, <1>2, <1>4, <2>1, <2>2 DEF RestOf
<1>5. CASE b # "nl"
  <2>1. LineEnds(u) = LineEnds(t)
    BY <1>2, <1>5
  <2>2. SubSeq(u, m + 1, n + 1) = Append(SubSeq(t, m + 1, n), b)
    <3> HIDE DEF m, u, n
    <3> DEFINE B == Bytes \cup {"?"}
               s == SubSeq(t, m + 1, n)
    <3>1. /\ \A i \in m + 1 .. n : t[i] \in B
          /\ \A i \in m + 1 .. n + 1 : u[i] \in B
      <4>1. \A i \in 1 .. n : t[i] \in B
        BY ElementOfSeq DEF Text, n
      <4>2. \A i \in m + 1 .. n + 1 : i \in 1 .. n \/ i = n + 1
        BY <1>1, <1>3
      <4> QED
        BY <1>1, <1>3, <4>1, <4>2
    <3>2. /\ s \in Seq(B) /\ Len(s) = n - m
          /\ \A i \in 1 .. n - m : s[i] = t[m + i]
      BY <1>1, <1>3, <3>1, SubSeqProperties
    <3>3. /\ SubSeq(u, m + 1, n + 1) \in Seq(B) /\ Len(SubSeq(u, m + 1, n + 1)) = (n - m) + 1
          /\ \A i \in 1 .. (n - m) + 1 : SubSeq(u, m + 1, n + 1)[i] = u[m + i]
      BY <1>1, <1>3, <3>1, SubSeqProperties
    <3> HIDE DEF s
    <3>4. /\ Append(s, b) \in Seq(B) /\ Len(Append(s, b)) = (n - m) + 1
          /\ Append(s, b)[(n - m) + 1] = b /\ \A i \in 1 .. n - m : Append(s, b)[i] = s[i]
      BY <3>2, AppendProperties
    <3>5. ASSUME NEW i \in 1 .. (n - m) + 1 PROVE SubSeq(u, m + 1, n + 1)[i] = Append(s, b)[i]
      <4>1. CASE i = (n - m) + 1
        <5>1. m + i = n + 1
          BY <1>1, <1>3, <4>1
        <5> QED
          BY <1>1, <3>3, <3>4, <4>1, <5>1
      <4>2. CASE i # (n - m) + 1
        <5>1. i \in 1 .. n - m /\ m + i \in 1 .. n
          BY <1>1, <1>3, <4>2
        <5> QED
          BY <1>1, <3>2, <3>3, <3>4, <5>1
      <4> QED
        BY <4>1, <4>2
    <3>6. SubSeq(u, m + 1, n + 1) = Append(s, b)
      BY <3>3, <3>4, <3>5, SeqEqual
    <3> QED
      BY <3>6 DEF s
  <2> QED
    BY <1>1, <1>5, <2>1, <2>2 DEF RestOf
<1> QED
  BY <1>1, <1>2, <1>4, <1>5

LEMMA SameSubSeq ==
  ASSUME NEW S, NEW n \in Nat, NEW t, NEW u, NEW a \in 0 .. n, NEW b \in Int, b <= n,
         \A i \in 1 .. n : t[i] \in S /\ u[i] = t[i]
  PROVE  SubSeq(u, a + 1, b) = SubSeq(t, a + 1, b) /\ SubSeq(t, a + 1, b) \in Seq(S)
<1>1. \A i \in a + 1 .. b : i \in 1 .. n
  OBVIOUS
<1>2. /\ SubSeq(t, a + 1, b) \in Seq(S) /\ SubSeq(u, a + 1, b) \in Seq(S)
      /\ Len(SubSeq(u, a + 1, b)) = Len(SubSeq(t, a + 1, b))
  BY <1>1, SubSeqProperties
<1>3. ASSUME NEW i \in 1 .. Len(SubSeq(u, a + 1, b))
      PROVE  SubSeq(u, a + 1, b)[i] = SubSeq(t, a + 1, b)[i]
  <2>1. Len(SubSeq(u, a + 1, b)) = IF a + 1 <= b THEN b - (a + 1) + 1 ELSE 0
    BY <1>1, SubSeqProperties
  <2>2. i \in 1 .. b - (a + 1) + 1 /\ (a + 1) + i - 1 \in a + 1 .. b
    BY <2>1
  <2>3. /\ SubSeq(u, a + 1, b)[i] = u[(a + 1) + i - 1]
        /\ SubSeq(t, a + 1, b)[i] = t[(a + 1) + i - 1]
    BY <1>1, <2>2, SubSeqProperties
  <2> QED
    BY <1>1, <2>2, <2>3
<1> QED
  BY <1>2, <1>3, SeqEqual

Piece(t, S, k) == Stripped(Line(SubSeq(t, Nth(S, k) + 1, Nth(S, k + 1) - 1)))
Pieces(t, S) == [k \in 1 .. Cardinality(S) - 1 |-> Piece(t, S, k)]

LEMMA LinesArePieces ==
  \A t : LinesOf(t, FALSE) = Pieces(t, LineEnds(t))
         /\ LinesOf(t, TRUE) = Pieces(t, LineEnds(t) \cup {Len(t) + 1})
<1> SUFFICES ASSUME NEW t
             PROVE  LinesOf(t, FALSE) = Pieces(t, LineEnds(t))
                    /\ LinesOf(t, TRUE) = Pieces(t, LineEnds(t) \cup {Len(t) + 1})
  OBVIOUS
<1>1. LineEnds(t) \cup {} = LineEnds(t)
  OBVIOUS
<1>2. LinesOf(t, FALSE) = Pieces(t, LineEnds(t) \cup {})
  BY DEF LinesOf, Pieces, Piece
<1>3. LinesOf(t, TRUE) = Pieces(t, LineEnds(t) \cup {Len(t) + 1})
  BY DEF LinesOf, Pieces, Piece
<1> QED
  BY <1>1, <1>2, <1>3

LEMMA PiecesStay ==
  ASSUME NEW t \in Text, NEW u, \A i \in 1 .. Len(t) : u[i] = t[i],
         NEW k \in 1 .. Cardinality(LineEnds(t)) - 1
  PROVE  Piece(u, LineEnds(t), k) = Piece(t, LineEnds(t), k) /\ Piece(t, LineEnds(t), k) \in Text
<1> DEFINE E == LineEnds(t)
           n == Len(t)
<1>1. n \in Nat /\ E \in SUBSET (0 .. n) /\ Cardinality(E) \in Nat
  BY LineEndsIn
<1>2. k \in 1 .. Cardinality(E) /\ k + 1 \in 1 .. Cardinality(E)
  BY <1>1
<1>3. PICK a \in 0 .. n, c \in 0 .. n : a = Nth(E, k) /\ c = Nth(E, k + 1)
  <2> HIDE DEF E, n
  <2>1. Nth(E, k) \in E /\ Nth(E, k + 1) \in E
    BY <1>1, <1>2, NthIn
  <2> QED
    BY <1>1, <2>1
<1>4. \A i \in 1 .. n : t[i] \in Bytes \cup {"?"} /\ u[i] = t[i]
  BY ElementOfSeq DEF Text
<1>5. PICK b \in Int : b = c - 1 /\ b <= n
  BY <1>1
<1>6. SubSeq(u, a + 1, b) = SubSeq(t, a + 1, b) /\ SubSeq(t, a + 1, b) \in Text
  <2> HIDE DEF n
  <2> QED
    BY <1>1, <1>4, <1>5, SameSubSeq DEF Text
<1>7. Stripped(Line(SubSeq(t, a + 1, b))) \in Text
  BY <1>6, LineText, StrippedText
<1> QED
  BY <1>3, <1>5, <1>6, <1>7 DEF Piece

LEMMA PiecesGrow ==
  ASSUME NEW t \in Text, NEW u, \A i \in 1 .. Len(t) : u[i] = t[i]
  PROVE  /\ Pieces(t, LineEnds(t)) \in Seq(Text)
         /\ Pieces(u, LineEnds(t)) = Pieces(t, LineEnds(t))
         /\ Pieces(u, LineEnds(t) \cup {Len(t) + 1})
              = Append(Pieces(t, LineEnds(t)), Stripped(Line(RestOf(t))))
<1> DEFINE E == LineEnds(t)
           n == Len(t)
           D == E \cup {n + 1}
           p == Pieces(t, E)
           q == Pieces(u, D)
           last == Stripped(Line(RestOf(t)))
<1>1. /\ n \in Nat /\ E \in SUBSET (0 .. n) /\ Max(E) \in 0 .. n
      /\ Nth(E, Cardinality(E)) = Max(E)
  BY LineEndsIn
<1>2. PICK c \in Nat : Cardinality(E) = c + 1
  <2>1. Cardinality(E) \in Nat \ {0}
    BY LineEndsIn
  <2>2. Cardinality(E) - 1 \in Nat /\ Cardinality(E) = (Cardinality(E) - 1) + 1
    BY <2>1
  <2> QED
    BY <2>2
<1>3. /\ Cardinality(D) = (c + 1) + 1
      /\ \A k \in 1 .. c + 1 : Nth(D, k) = Nth(E, k)
      /\ Nth(D, (c + 1) + 1) = n + 1
  <2> HIDE DEF E, n, D
  <2>1. /\ Cardinality(E \cup {n + 1}) = Cardinality(E) + 1
        /\ \A k \in 1 .. Cardinality(E) : Nth(E \cup {n + 1}, k) = Nth(E, k)
        /\ Nth(E \cup {n + 1}, Cardinality(E) + 1) = n + 1
    BY <1>1, NthGrows
  <2> QED
    BY <1>2, <2>1, Zenon DEF D
<1>4. (c + 1) - 1 = c /\ ((c + 1) + 1) - 1 = c + 1 /\ c + 1 \in 1 .. c + 1 /\ c + 1 \in Nat
  OBVIOUS
<1>5. \A k \in 1 .. c : Piece(u, E, k) = Piece(t, E, k) /\ Piece(t, E, k) \in Text
  BY <1>2, <1>4, PiecesStay
<1> HIDE DEF E, D, n
<1>6. p = [k \in 1 .. c |-> Piece(t, E, k)] /\ Pieces(u, E) = [k \in 1 .. c |-> Piece(u, E, k)]
  BY <1>2, <1>4 DEF Pieces
<1>7. q = [k \in 1 .. c + 1 |-> Piece(u, D, k)]
  BY <1>3, <1>4 DEF Pieces
<1>8. ASSUME NEW k \in 1 .. c PROVE Piece(u, D, k) = Piece(t, E, k)
  <2>1. k \in 1 .. c + 1 /\ k + 1 \in 1 .. c + 1
    OBVIOUS
  <2>2. Piece(u, D, k) = Piece(u, E, k)
    BY <1>3, <2>1 DEF Piece
  <2> QED
    BY <1>5, <2>2
<1>9. Piece(u, D, c + 1) = last /\ last \in Text
  <2>1. PICK m \in 0 .. n : m = Max(E)
    BY <1>1
  <2>2. Nth(D, c + 1) = m /\ (n + 1) - 1 = n /\ n \in Int /\ n <= n
    BY <1>1, <1>2, <1>3, <1>4, <2>1
  <2>3. \A i \in 1 .. n : t[i] \in Bytes \cup {"?"} /\ u[i] = t[i]
    BY ElementOfSeq DEF Text, n
  <2>4. SubSeq(u, m + 1, n) = SubSeq(t, m + 1, n)
    <3>1. PICK S : S = Bytes \cup {"?"}
      OBVIOUS
    <3>2. /\ n \in Nat /\ m \in 0 .. n /\ n \in Int /\ n <= n
          /\ \A i \in 1 .. n : t[i] \in S /\ u[i] = t[i]
      BY <1>1, <2>2, <2>3, <3>1
    <3> HIDE DEF p, q
    <3>3. ASSUME NEW r \in 0 .. n
          PROVE  SubSeq(u, r + 1, n) = SubSeq(t, r + 1, n) /\ SubSeq(t, r + 1, n) \in Seq(S)
      BY <3>2, SameSubSeq
    <3> QED
      BY <3>3
  <2>5. RestOf(t) = SubSeq(t, m + 1, n)
    BY <2>1 DEF RestOf, E, n
  <2>6. Piece(u, D, c + 1) = Stripped(Line(SubSeq(u, m + 1, n)))
    BY <1>3, <2>2 DEF Piece
  <2>7. last \in Text
    BY RestText, LineText, StrippedText
  <2> QED
    BY <2>4, <2>5, <2>6, <2>7
<1> HIDE DEF last, p, q
<1>10. p \in Seq(Text) /\ Len(p) = c
  <2>1. p \in [1 .. c -> Text]
    BY <1>5, <1>6
  <2>2. p \in Seq(Text)
    BY <2>1, SeqDef
  <2> QED
    BY <2>1, <2>2, LenProperties
<1>11. Pieces(u, E) = p
  BY <1>5, <1>6
<1>12. q \in Seq(Text) /\ Len(q) = c + 1
  <2>1. \A k \in 1 .. c + 1 : k \in 1 .. c \/ k = c + 1
    OBVIOUS
  <2>2. q \in [1 .. c + 1 -> Text]
    BY <1>5, <1>7, <1>8, <1>9, <2>1
  <2>3. q \in Seq(Text)
    BY <1>4, <2>2, SeqDef
  <2> QED
    BY <2>2, <2>3, LenProperties
<1>13. q = Append(p, last)
  <2>1. /\ Append(p, last) \in Seq(Text) /\ Len(Append(p, last)) = c + 1
        /\ Append(p, last)[c + 1] = last /\ \A k \in 1 .. c : Append(p, last)[k] = p[k]
    BY <1>9, <1>10, AppendProperties
  <2>2. ASSUME NEW k \in 1 .. c + 1 PROVE q[k] = Append(p, last)[k]
    <3>1. CASE k = c + 1
      BY <1>7, <1>9, <2>1, <3>1
    <3>2. CASE k # c + 1
      <4>1. k \in 1 .. c
        BY <3>2
      <4> QED
        BY <1>6, <1>7, <1>8, <2>1, <4>1
    <3> QED
      BY <3>1, <3>2
  <2> QED
    BY <1>12, <2>1, <2>2, SeqEqual
<1> QED
  BY <1>10, <1>11, <1>13 DEF p, q, last, E, D, n

(* One more byte completes a line or does not; at the end of the answer    *)
(* what is left of it is one.                                              *)
LEMMA LinesGrow ==
  ASSUME NEW t \in Text
  PROVE  /\ LinesOf(t, FALSE) \in Seq(Text)
         /\ LinesOf(t, TRUE) = Append(LinesOf(t, FALSE), Stripped(Line(RestOf(t))))
         /\ \A b \in Bytes \cup {"?"} : LinesOf(Append(t, b), FALSE) =
              IF b = "nl" THEN Append(LinesOf(t, FALSE), Stripped(Line(RestOf(t))))
              ELSE LinesOf(t, FALSE)
<1>1. LinesOf(t, FALSE) \in Seq(Text)
  BY LinesArePieces, PiecesGrow
<1>2. LinesOf(t, TRUE) = Append(LinesOf(t, FALSE), Stripped(Line(RestOf(t))))
  BY LinesArePieces, PiecesGrow
<1>3. ASSUME NEW b \in Bytes \cup {"?"}
      PROVE  LinesOf(Append(t, b), FALSE) =
              IF b = "nl" THEN Append(LinesOf(t, FALSE), Stripped(Line(RestOf(t))))
              ELSE LinesOf(t, FALSE)
  <2> DEFINE u == Append(t, b)
  <2>1. \A i \in 1 .. Len(t) : u[i] = t[i]
    BY AppendProperties DEF Text
  <2>2. LinesOf(u, FALSE) = Pieces(u, LineEnds(u)) /\ LinesOf(t, FALSE) = Pieces(t, LineEnds(t))
    BY LinesArePieces
  <2>3. LineEnds(u) = LineEnds(t) \cup IF b = "nl" THEN {Len(t) + 1} ELSE {}
    BY RestGrows
  <2> HIDE DEF u
  <2>4. CASE b = "nl"
    BY <2>1, <2>2, <2>3, <2>4, PiecesGrow DEF u
  <2>5. CASE b # "nl"
    <3>1. LineEnds(u) = LineEnds(t)
      BY <2>3, <2>5
    <3> QED
      BY <2>1, <2>2, <2>5, <3>1, PiecesGrow DEF u
  <2> QED
    BY <2>4, <2>5
<1> QED
  BY <1>1, <1>2, <1>3

-----------------------------------------------------------------------------
(* The elements of a sequence at some places. *)
LEMMA InOrderIs ==
  ASSUME NEW n \in Nat, NEW D \in SUBSET (0 .. n), NEW S, NEW s, \A i \in D : s[i] \in S
  PROVE  /\ InOrder(s, D) \in Seq(S) /\ Len(InOrder(s, D)) = Cardinality(D)
         /\ InOrder(s, D) = <<>> <=> D = {}
         /\ \A u : (\A i \in D : u[i] = s[i]) => InOrder(u, D) = InOrder(s, D)
<1>1. PICK c \in Nat : c = Cardinality(D)
  BY BelowFinite
<1>2. \A k \in 1 .. c : Nth(D, k) \in D
  BY <1>1, NthIn
<1>3. InOrder(s, D) = [k \in 1 .. c |-> s[Nth(D, k)]]
  BY <1>1 DEF InOrder
<1>4. InOrder(s, D) \in [1 .. c -> S]
  BY <1>2, <1>3
<1>5. InOrder(s, D) \in Seq(S) /\ Len(InOrder(s, D)) = c
  <2>1. InOrder(s, D) \in Seq(S)
    BY <1>4, SeqDef
  <2> QED
    BY <1>4, <2>1, LenProperties
<1>6. c = 0 <=> D = {}
  BY <1>1, BelowFinite, FS_EmptySet
<1>7. InOrder(s, D) = <<>> <=> c = 0
  BY <1>5, EmptySeq
<1>8. ASSUME NEW u, \A i \in D : u[i] = s[i] PROVE InOrder(u, D) = InOrder(s, D)
  <2>1. InOrder(u, D) = [k \in 1 .. c |-> u[Nth(D, k)]]
    BY <1>1 DEF InOrder
  <2> QED
    BY <1>2, <1>3, <1>8, <2>1
<1> QED
  BY <1>1, <1>5, <1>6, <1>7, <1>8

LEMMA InOrderGrows ==
  ASSUME NEW n \in Nat, NEW D \in SUBSET (0 .. n), NEW S, NEW s,
         \A i \in D : s[i] \in S, s[n + 1] \in S
  PROVE  InOrder(s, D \cup {n + 1}) = Append(InOrder(s, D), s[n + 1])
<1> DEFINE E == D \cup {n + 1}
           p == InOrder(s, D)
           q == InOrder(s, E)
<1>1. PICK c \in Nat : c = Cardinality(D)
  BY BelowFinite
<1>2. Cardinality(E) = c + 1 /\ Nth(E, c + 1) = n + 1 /\ \A k \in 1 .. c : Nth(E, k) = Nth(D, k)
  BY <1>1, NthGrows
<1>3. p = [k \in 1 .. c |-> s[Nth(D, k)]] /\ q = [k \in 1 .. c + 1 |-> s[Nth(E, k)]]
  <2> HIDE DEF E
  <2> QED
    BY <1>1, <1>2 DEF InOrder
<1>4. p \in Seq(S) /\ Len(p) = c
  BY <1>1, InOrderIs
<1>5. \A k \in 1 .. c : Nth(D, k) \in D
  BY <1>1, NthIn
<1> HIDE DEF E, p, q
<1>6. q \in Seq(S) /\ Len(q) = c + 1
  <2>1. \A k \in 1 .. c + 1 : k \in 1 .. c \/ k = c + 1
    OBVIOUS
  <2>2. q \in [1 .. c + 1 -> S]
    BY <1>2, <1>3, <1>5, <2>1
  <2>3. q \in Seq(S)
    BY <2>2, SeqDef
  <2> QED
    BY <2>2, <2>3, LenProperties
<1>7. /\ Append(p, s[n + 1]) \in Seq(S) /\ Len(Append(p, s[n + 1])) = c + 1
      /\ Append(p, s[n + 1])[c + 1] = s[n + 1]
      /\ \A k \in 1 .. c : Append(p, s[n + 1])[k] = p[k]
  BY <1>4, AppendProperties
<1>8. ASSUME NEW k \in 1 .. c + 1 PROVE q[k] = Append(p, s[n + 1])[k]
  <2>1. CASE k = c + 1
    BY <1>2, <1>3, <1>7, <2>1
  <2>2. CASE k # c + 1
    <3>1. k \in 1 .. c
      BY <2>2
    <3> QED
      BY <1>2, <1>3, <1>7, <3>1
  <2> QED
    BY <2>1, <2>2
<1> QED
  BY <1>6, <1>7, <1>8, SeqEqual DEF p, q, E

-----------------------------------------------------------------------------
(* The events of a sequence of lines. *)
LEMMA EndsIn ==
  ASSUME NEW L \in Seq(Text)
  PROVE  /\ Len(L) \in Nat /\ DOMAIN L = 1 .. Len(L) /\ \A i \in 1 .. Len(L) : L[i] \in Text
         /\ Blank(L) \in SUBSET (1 .. Len(L)) /\ EventEnds(L) \in SUBSET Blank(L)
         /\ \A j \in 1 .. Len(L) + 1 :
              /\ Before(L, j) \in 0 .. j - 1
              /\ Before(L, j) \in {0} \cup {e \in EventEnds(L) : e < j}
              /\ \A e \in EventEnds(L) : e < j => e <= Before(L, j)
              /\ \A f : Block(L, j, f) \in SUBSET (1 .. j - 1)
                        /\ Block(L, j, f) \in SUBSET (0 .. Len(L))
<1>1. /\ Len(L) \in Nat /\ DOMAIN L = 1 .. Len(L) /\ \A i \in 1 .. Len(L) : L[i] \in Text
  BY LenProperties, ElementOfSeq
<1>2. Blank(L) \in SUBSET (1 .. Len(L)) /\ EventEnds(L) \in SUBSET Blank(L)
  BY <1>1 DEF Blank, EventEnds
<1>3. ASSUME NEW j \in 1 .. Len(L) + 1
      PROVE  /\ Before(L, j) \in 0 .. j - 1
             /\ Before(L, j) \in {0} \cup {e \in EventEnds(L) : e < j}
             /\ \A e \in EventEnds(L) : e < j => e <= Before(L, j)
             /\ \A f : Block(L, j, f) \in SUBSET (1 .. j - 1)
                       /\ Block(L, j, f) \in SUBSET (0 .. Len(L))
  <2> DEFINE T == {0} \cup {e \in EventEnds(L) : e < j}
  <2>1. j - 1 \in Nat /\ j - 1 <= Len(L) /\ j \in Nat
    BY <1>1
  <2>2. \A e \in EventEnds(L) : e \in Nat /\ e >= 1 /\ (e < j => e <= j - 1)
    BY <1>2, <2>1
  <2>3. T \in SUBSET (0 .. j - 1) /\ T # {} /\ \A e \in EventEnds(L) : e < j => e \in T
    BY <2>1, <2>2
  <2>4. Before(L, j) = Max(T)
    BY DEF Before
  <2>5. Max(T) \in T /\ Max(T) \in 0 .. j - 1 /\ \A x \in T : x <= Max(T)
    <3> HIDE DEF T
    <3> QED
      BY <2>1, <2>3, MaxIs
  <2>6. PICK b \in 0 .. j - 1 : b = Before(L, j)
    BY <2>4, <2>5
  <2>7. ASSUME NEW f
        PROVE  Block(L, j, f) \in SUBSET (1 .. j - 1) /\ Block(L, j, f) \in SUBSET (0 .. Len(L))
    <3>1. Block(L, j, f) \in SUBSET (b + 1 .. j - 1)
      BY <2>6 DEF Block
    <3>2. b + 1 .. j - 1 \in SUBSET (1 .. j - 1) /\ b + 1 .. j - 1 \in SUBSET (0 .. Len(L))
      BY <1>1, <2>1
    <3> QED
      BY <3>1, <3>2
  <2> HIDE DEF T
  <2>8. \A e \in EventEnds(L) : e < j => e <= Before(L, j)
    BY <2>3, <2>4, <2>5
  <2>9. Before(L, j) \in {0} \cup {e \in EventEnds(L) : e < j}
    BY <2>4, <2>5 DEF T
  <2> QED
    BY <2>4, <2>5, <2>7, <2>8, <2>9
<1> QED
  BY <1>1, <1>2, <1>3

LEMMA EventType ==
  ASSUME NEW L \in Seq(Text), NEW j \in 1 .. Len(L) + 1
  PROVE  EventAt(L, j) \in StateType
<1>1. ASSUME NEW f PROVE Block(L, j, f) # {} => L[Max(Block(L, j, f))] \in Text
  <2>1. SUFFICES ASSUME Block(L, j, f) # {} PROVE L[Max(Block(L, j, f))] \in Text
    OBVIOUS
  <2>2. Block(L, j, f) \in SUBSET (0 .. Len(L)) /\ Block(L, j, f) \in SUBSET (1 .. j - 1)
    BY EndsIn
  <2>3. Max(Block(L, j, f)) \in Block(L, j, f)
    BY <2>1, <2>2, EndsIn, MaxIs
  <2>4. 1 .. j - 1 \in SUBSET (1 .. Len(L))
    BY EndsIn
  <2>5. Max(Block(L, j, f)) \in 1 .. Len(L)
    BY <2>2, <2>3, <2>4
  <2> QED
    BY <2>5, EndsIn
<1>2. InOrder(L, Block(L, j, "data")) \in Seq(Text)
  <2>1. Block(L, j, "data") \in SUBSET (0 .. Len(L)) /\ Block(L, j, "data") \in SUBSET (1 .. j - 1)
    BY EndsIn
  <2>2. 1 .. j - 1 \in SUBSET (1 .. Len(L))
    BY EndsIn
  <2>3. \A i \in Block(L, j, "data") : L[i] \in Text
    BY <2>1, <2>2, EndsIn
  <2> QED
    BY <2>1, <2>3, EndsIn, InOrderIs
<1> QED
  BY <1>1, <1>2 DEF EventAt, Newest, StateType

(* There is data for an event at the end of the lines exactly if the       *)
(* pending event has some.                                                 *)
LEMMA DataIsPending ==
  ASSUME NEW L \in Seq(Text)
  PROVE  EventAt(L, Len(L) + 1).data = <<>> <=> ~HasData(L, Len(L) + 1)
<1> DEFINE n == Len(L)
           B == Block(L, n + 1, "data")
<1>1. n \in Nat /\ DOMAIN L = 1 .. n /\ n + 1 \in 1 .. n + 1 /\ \A i \in 1 .. n : i < n + 1
  BY EndsIn
<1>2. /\ Before(L, n + 1) \in 0 .. (n + 1) - 1
      /\ Before(L, n + 1) \in {0} \cup {e \in EventEnds(L) : e < n + 1}
      /\ \A e \in EventEnds(L) : e < n + 1 => e <= Before(L, n + 1)
      /\ B \in SUBSET (0 .. n) /\ EventEnds(L) \in SUBSET Blank(L) /\ Blank(L) \in SUBSET (1 .. n)
  BY <1>1, EndsIn
<1>3. PICK b \in 0 .. n : b = Before(L, n + 1)
  BY <1>1, <1>2
<1>4. B = {i \in b + 1 .. n : Is(L, i, "data")}
  <2>1. (n + 1) - 1 = n
    BY <1>1
  <2> QED
    BY <1>3, <2>1 DEF Block
<1>5. EventAt(L, n + 1).data = <<>> <=> B = {}
  <2>1. b + 1 .. n \in SUBSET (1 .. n)
    OBVIOUS
  <2>2. \A i \in B : L[i] \in Text
    BY <1>4, <2>1, EndsIn
  <2>3. InOrder(L, B) = <<>> <=> B = {}
    <3> HIDE DEF B, n
    <3> QED
      BY <1>1, <1>2, <2>2, InOrderIs
  <2> QED
    BY <2>3 DEF EventAt
<1> HIDE DEF n, B
<1>6. ASSUME HasData(L, n + 1) PROVE B # {}
  <2>1. PICK i \in 1 .. n : Is(L, i, "data") /\ \A k \in Blank(L) : ~(i < k /\ k < n + 1)
    BY <1>1, <1>6 DEF HasData
  <2>2. i \notin Blank(L)
    BY <2>1 DEF Is, Blank
  <2>3. ~(i < b)
    <3>1. SUFFICES ASSUME i < b PROVE FALSE
      OBVIOUS
    <3>2. b # 0 /\ b < n + 1
      BY <1>1, <3>1
    <3>3. b \in Blank(L)
      BY <1>2, <1>3, <3>2
    <3> QED
      BY <2>1, <3>1, <3>2, <3>3
  <2>4. i # b
    BY <1>2, <1>3, <2>2
  <2>5. i \in b + 1 .. n
    BY <2>3, <2>4
  <2> QED
    BY <1>4, <2>1, <2>5
<1>7. ASSUME B # {} PROVE HasData(L, n + 1)
  <2>1. PICK i \in b + 1 .. n : Is(L, i, "data")
    BY <1>4, <1>7
  <2>2. i \in 1 .. n /\ b < i
    OBVIOUS
  <2> DEFINE T == {k \in Blank(L) : i < k}
  <2>3. ASSUME T # {} PROVE FALSE
    <3>1. T \in SUBSET Nat
      BY <1>2
    <3>2. PICK k \in T : \A m \in T : k <= m
      <4> HIDE DEF T
      <4> QED
        BY <2>3, <3>1, LeastElement
    <3>3. k \in 1 .. n /\ k \in Blank(L) /\ i < k
      BY <1>2
    <3>4. \A m \in Blank(L) : ~(i < m /\ m < k)
      <4> SUFFICES ASSUME NEW m \in Blank(L), i < m, m < k PROVE FALSE
        OBVIOUS
      <4>1. m \in T /\ m \in Nat /\ k \in Nat
        BY <1>2
      <4>2. k <= m
        BY <3>2, <4>1
      <4> QED
        BY <4>1, <4>2
    <3>5. HasData(L, k)
      BY <1>1, <2>1, <2>2, <3>3, <3>4 DEF HasData
    <3>6. k \in EventEnds(L) /\ k < n + 1
      BY <1>1, <3>3, <3>5 DEF EventEnds
    <3>7. k <= b
      BY <1>2, <1>3, <3>6
    <3> QED
      BY <2>2, <3>3, <3>7
  <2>4. \A k \in Blank(L) : ~(i < k /\ k < n + 1)
    BY <2>3
  <2> QED
    BY <1>1, <2>1, <2>2, <2>4 DEF HasData
<1> QED
  BY <1>5, <1>6, <1>7 DEF n

(* One more line leaves the events before it what they are.                *)
LEMMA EarlierStay ==
  ASSUME NEW L \in Seq(Text), NEW l \in Text, NEW M, M = Append(L, l), NEW n, n = Len(L)
  PROVE  /\ M \in Seq(Text) /\ Len(M) = n + 1 /\ M[n + 1] = l /\ \A i \in 1 .. n : M[i] = L[i]
         /\ \A j \in 1 .. n + 1 : HasData(M, j) <=> HasData(L, j)
         /\ EventEnds(M) = EventEnds(L) \cup IF l = <<>> /\ HasData(L, n + 1) THEN {n + 1} ELSE {}
<1>1. /\ n \in Nat /\ DOMAIN L = 1 .. n /\ Blank(L) \in SUBSET (1 .. n)
      /\ EventEnds(L) \in SUBSET Blank(L)
  BY EndsIn
<1>2. /\ M \in Seq(Text) /\ Len(M) = n + 1 /\ M[n + 1] = l /\ \A i \in 1 .. n : M[i] = L[i]
      /\ DOMAIN M = 1 .. n + 1
  BY AppendProperties, LenProperties
<1>3. /\ n + 1 \in 1 .. n + 1 /\ \A i \in 1 .. n : i \in 1 .. n + 1
      /\ \A i \in 1 .. n + 1 : i \in 1 .. n \/ i = n + 1
      /\ \A i \in 1 .. n + 1, j \in 1 .. n + 1 : i < j => i \in 1 .. n
  BY <1>1
<1>4. Blank(M) = Blank(L) \cup IF l = <<>> THEN {n + 1} ELSE {}
  BY <1>1, <1>2, <1>3 DEF Blank
<1>5. ASSUME NEW j \in 1 .. n + 1 PROVE HasData(M, j) <=> HasData(L, j)
  <2>1. \A i \in 1 .. n : \A f : Is(M, i, f) <=> Is(L, i, f)
    BY <1>2 DEF Is
  <2>2. \A k : k < j => (k \in Blank(M) <=> k \in Blank(L))
    <3>1. ~(n + 1 < j)
      BY <1>1
    <3> QED
      BY <1>4, <3>1
  <2>3. HasData(M, j) <=> \E i \in 1 .. n : i < j /\ Is(M, i, "data")
                              /\ \A k \in Blank(M) : ~(i < k /\ k < j)
    BY <1>2, <1>3 DEF HasData
  <2>4. HasData(L, j) <=> \E i \in 1 .. n : i < j /\ Is(L, i, "data")
                              /\ \A k \in Blank(L) : ~(i < k /\ k < j)
    BY <1>1 DEF HasData
  <2> QED
    BY <2>1, <2>2, <2>3, <2>4
<1>6. EventEnds(M) = EventEnds(L) \cup IF l = <<>> /\ HasData(L, n + 1) THEN {n + 1} ELSE {}
  <2>1. EventEnds(L) = {j \in Blank(L) : HasData(M, j)}
    BY <1>1, <1>3, <1>5 DEF EventEnds
  <2>2. HasData(M, n + 1) <=> HasData(L, n + 1)
    BY <1>3, <1>5
  <2>3. EventEnds(M) = {j \in Blank(M) : HasData(M, j)}
    BY DEF EventEnds
  <2> QED
    BY <1>4, <2>1, <2>2, <2>3
<1> QED
  BY <1>2, <1>5, <1>6

LEMMA EarlierEvents ==
  ASSUME NEW L \in Seq(Text), NEW l \in Text, NEW j \in 1 .. Len(L) + 1
  PROVE  EventAt(Append(L, l), j) = EventAt(L, j)
<1>0. PICK M, n : M = Append(L, l) /\ n = Len(L)
  OBVIOUS
<1>1. n \in Nat /\ j \in 1 .. n + 1 /\ \A i \in 1 .. n : L[i] \in Text
  BY <1>0, EndsIn
<1>2. M \in Seq(Text) /\ Len(M) = n + 1 /\ \A i \in 1 .. n : M[i] = L[i]
  BY <1>0, AppendProperties
<1>3. Before(M, j) = Before(L, j)
  <2>1. EventEnds(M) = EventEnds(L) \cup IF l = <<>> /\ HasData(L, n + 1) THEN {n + 1} ELSE {}
    BY <1>0, EarlierStay, Zenon
  <2>2. ~(n + 1 < j)
    BY <1>1
  <2>3. {e \in EventEnds(M) : e < j} = {e \in EventEnds(L) : e < j}
    BY <2>1, <2>2
  <2> QED
    BY <2>3 DEF Before
<1>4. ASSUME NEW f
      PROVE  Block(M, j, f) = Block(L, j, f) /\ Block(L, j, f) \in SUBSET (0 .. n)
             /\ Block(L, j, f) \in SUBSET (1 .. n)
  <2>1. PICK b \in 0 .. j - 1 : b = Before(L, j) /\ b = Before(M, j)
    BY <1>3, EndsIn
  <2>2. \A i \in b + 1 .. j - 1 : i \in 1 .. n
    BY <1>1
  <2>3. \A i \in b + 1 .. j - 1 : Is(M, i, f) <=> Is(L, i, f)
    BY <1>2, <2>2 DEF Is
  <2>4. Block(M, j, f) = Block(L, j, f) /\ Block(L, j, f) \in SUBSET (1 .. n)
    BY <2>1, <2>2, <2>3 DEF Block
  <2> QED
    BY <1>0, <2>4, EndsIn
<1>5. ASSUME NEW f, NEW none PROVE Newest(M, j, f, none) = Newest(L, j, f, none)
  <2>1. CASE Block(L, j, f) # {}
    <3>1. Max(Block(L, j, f)) \in Block(L, j, f)
      BY <1>1, <1>4, <2>1, MaxIs
    <3>2. M[Max(Block(L, j, f))] = L[Max(Block(L, j, f))]
      BY <1>2, <1>4, <3>1
    <3> QED
      BY <1>4, <3>2 DEF Newest
  <2>2. CASE Block(L, j, f) = {}
    BY <1>4, <2>2 DEF Newest
  <2> QED
    BY <2>1, <2>2
<1>6. InOrder(M, Block(M, j, "data")) = InOrder(L, Block(L, j, "data"))
  <2> DEFINE D == Block(L, j, "data")
  <2>1. D \in SUBSET (0 .. n) /\ \A i \in D : L[i] \in Text /\ M[i] = L[i]
    BY <1>1, <1>2, <1>4
  <2>2. Block(M, j, "data") = D
    BY <1>4
  <2> HIDE DEF D
  <2>3. \A u : (\A i \in D : u[i] = L[i]) => InOrder(u, D) = InOrder(L, D)
    BY <1>1, <2>1, InOrderIs
  <2>4. InOrder(M, D) = InOrder(L, D)
    BY <2>1, <2>3
  <2> QED
    BY <2>2, <2>4 DEF D
<1> QED
  BY <1>0, <1>5, <1>6 DEF EventAt

(* One more line and the event that is pending.                            *)
LEMMA PendingGrows ==
  ASSUME NEW L \in Seq(Text), NEW l \in Text
  PROVE  EventAt(Append(L, l), (Len(L) + 1) + 1) =
           IF Len(L) + 1 \in EventEnds(Append(L, l)) THEN Fresh
           ELSE IF l = <<>> THEN EventAt(L, Len(L) + 1)
           ELSE AddField(EventAt(L, Len(L) + 1), l)
<1>0. PICK M, n : M = Append(L, l) /\ n = Len(L)
  OBVIOUS
<1> SUFFICES EventAt(M, (n + 1) + 1) =
               IF n + 1 \in EventEnds(M) THEN Fresh
               ELSE IF l = <<>> THEN EventAt(L, n + 1)
               ELSE AddField(EventAt(L, n + 1), l)
  BY <1>0
<1> USE <1>0
<1> DEFINE e == EventAt(L, n + 1)
           B(f) == Block(L, n + 1, f)
           C(f) == Block(M, (n + 1) + 1, f)
<1>1. /\ n \in Nat /\ EventEnds(L) \in SUBSET (1 .. n) /\ n + 1 \in 1 .. n + 1
      /\ Before(L, n + 1) \in 0 .. (n + 1) - 1 /\ \A f : B(f) \in SUBSET (0 .. n)
      /\ \A i \in 1 .. n : L[i] \in Text
  <2>1. Len(L) \in Nat /\ Len(L) + 1 \in 1 .. Len(L) + 1
    BY EndsIn
  <2>2. EventEnds(L) \in SUBSET (1 .. Len(L))
    BY EndsIn
  <2> QED
    BY <2>1, <2>2, EndsIn
<1>2. /\ M \in Seq(Text) /\ Len(M) = n + 1 /\ M[n + 1] = l /\ \A i \in 1 .. n : M[i] = L[i]
      /\ EventEnds(M) = EventEnds(L) \cup IF l = <<>> /\ HasData(L, n + 1) THEN {n + 1} ELSE {}
  <2>1. EventEnds(M) = EventEnds(L) \cup IF l = <<>> /\ HasData(L, n + 1) THEN {n + 1} ELSE {}
    BY EarlierStay, Zenon
  <2>2. M \in Seq(Text) /\ Len(M) = n + 1 /\ M[n + 1] = l /\ \A i \in 1 .. n : M[i] = L[i]
    BY AppendProperties
  <2> QED
    BY <2>1, <2>2
<1>3. /\ (n + 1) + 1 \in 1 .. (n + 1) + 1 /\ ((n + 1) + 1) - 1 = n + 1 /\ (n + 1) - 1 = n
      /\ n + 1 < (n + 1) + 1 /\ \A x \in 1 .. n : x < n + 1 /\ x < (n + 1) + 1
  BY <1>1
<1>4. CASE n + 1 \in EventEnds(M)
  <2>1. /\ Before(M, (n + 1) + 1) \in 0 .. n + 1 /\ n + 1 <= Before(M, (n + 1) + 1)
    BY <1>2, <1>3, <1>4, EndsIn
  <2>2. Before(M, (n + 1) + 1) = n + 1
    BY <1>1, <2>1
  <2>3. C("event") = {} /\ C("data") = {} /\ C("id") = {}
    <3>1. (n + 1) + 1 .. n + 1 = {}
      BY <1>1
    <3> QED
      BY <1>3, <2>2, <3>1 DEF Block
  <2>4. InOrder(M, {}) = <<>>
    <3>1. {} \in SUBSET (0 .. n)
      OBVIOUS
    <3>2. \A i \in {} : M[i] \in Text
      OBVIOUS
    <3> QED
      BY <1>1, <3>1, <3>2, InOrderIs
  <2> QED
    BY <1>4, <2>3, <2>4 DEF EventAt, Newest, Fresh
<1>5. CASE n + 1 \notin EventEnds(M)
  <2>1. EventEnds(M) = EventEnds(L)
    BY <1>2, <1>5
  <2>2. Before(M, (n + 1) + 1) = Before(L, n + 1)
    <3>1. {x \in EventEnds(M) : x < (n + 1) + 1} = {x \in EventEnds(L) : x < n + 1}
      BY <1>1, <1>3, <2>1
    <3> QED
      BY <3>1 DEF Before
  <2>3. PICK b \in 0 .. n : b = Before(L, n + 1)
    BY <1>1, <1>3
  <2>4. \A f : B(f) = {i \in b + 1 .. n : Is(L, i, f)} /\ C(f) = {i \in b + 1 .. n + 1 : Is(M, i, f)}
    BY <1>3, <2>2, <2>3 DEF Block
  <2>5. \A f : C(f) = B(f) \cup IF Is(M, n + 1, f) THEN {n + 1} ELSE {}
    <3>1. b + 1 .. n + 1 = (b + 1 .. n) \cup {n + 1} /\ b + 1 .. n \in SUBSET (1 .. n)
      BY <1>1
    <3>2. \A i \in b + 1 .. n : \A f : Is(M, i, f) <=> Is(L, i, f)
      BY <1>2, <3>1 DEF Is
    <3> QED
      BY <2>4, <3>1, <3>2
  <2>6. \A f : Is(M, n + 1, f) <=> l # <<>> /\ Field(l) = f
    BY <1>2 DEF Is
  <2>7. ASSUME NEW f PROVE \A i \in B(f) : i \in 1 .. n /\ i <= n + 1 /\ i \in 0 .. n + 1
    <3>1. b + 1 .. n \in SUBSET (1 .. n)
      BY <1>1
    <3> QED
      BY <1>1, <2>4, <3>1
  <2> HIDE DEF B, C
  <2>8. ASSUME NEW f, NEW none, l # <<>>, Field(l) = f
        PROVE  Newest(M, (n + 1) + 1, f, none) = l
    <3>1. C(f) = B(f) \cup {n + 1}
      BY <2>5, <2>6, <2>8
    <3>2. PICK m \in Nat : m = n + 1
      BY <1>1
    <3>3. C(f) \in SUBSET (0 .. m) /\ m \in C(f) /\ \A x \in C(f) : x <= m
      BY <2>7, <3>1, <3>2
    <3>4. Max(C(f)) = m
      BY <3>3, MaxEquals
    <3> QED
      BY <1>2, <3>1, <3>2, <3>4 DEF Newest, C
  <2>9. ASSUME NEW f, NEW none, ~(l # <<>> /\ Field(l) = f)
        PROVE  Newest(M, (n + 1) + 1, f, none) = Newest(L, n + 1, f, none)
    <3>1. C(f) = B(f)
      BY <2>5, <2>6, <2>9
    <3>2. CASE B(f) # {}
      <4>1. Max(B(f)) \in B(f)
        BY <1>1, <3>2, MaxIs DEF B
      <4>2. M[Max(B(f))] = L[Max(B(f))]
        BY <1>2, <2>7, <4>1
      <4> QED
        BY <3>1, <4>2 DEF Newest, B, C
    <3>3. CASE B(f) = {}
      BY <3>1, <3>3 DEF Newest, B, C
    <3> QED
      BY <3>2, <3>3
  <2> DEFINE D == B("data")
  <2>10. D \in SUBSET (0 .. n) /\ \A i \in D : L[i] \in Text /\ M[i] = L[i] /\ M[i] \in Text
    BY <1>1, <1>2, <2>7 DEF B
  <2>11. e.data = InOrder(L, D) /\ InOrder(M, D) = InOrder(L, D)
    <3> HIDE DEF D
    <3>1. \A u : (\A i \in D : u[i] = L[i]) => InOrder(u, D) = InOrder(L, D)
      BY <1>1, <2>10, InOrderIs
    <3>2. InOrder(M, D) = InOrder(L, D)
      BY <2>10, <3>1
    <3> QED
      BY <3>2 DEF EventAt, D, B
  <2>12. InOrder(M, D \cup {n + 1}) = Append(InOrder(L, D), l)
    <3> HIDE DEF D
    <3>1. M[n + 1] \in Text /\ \A i \in D : M[i] \in Text
      BY <1>2, <2>10
    <3>2. InOrder(M, D \cup {n + 1}) = Append(InOrder(M, D), M[n + 1])
      BY <1>1, <2>10, <3>1, InOrderGrows
    <3> QED
      BY <1>2, <2>11, <3>2
  <2>13. InOrder(M, C("data")) = IF l # <<>> /\ Field(l) = "data" THEN Append(e.data, l) ELSE e.data
    BY <2>5, <2>6, <2>11, <2>12
  <2>14. EventAt(M, (n + 1) + 1) =
           [event |-> IF l # <<>> /\ Field(l) = "event" THEN l ELSE e.event,
            id |-> IF l # <<>> /\ Field(l) = "id" THEN l ELSE e.id,
            data |-> IF l # <<>> /\ Field(l) = "data" THEN Append(e.data, l) ELSE e.data]
    <3>1. /\ e.event = Newest(L, n + 1, "event", "message") /\ e.id = Newest(L, n + 1, "id", "")
      BY DEF EventAt
    <3> QED
      BY <2>8, <2>9, <2>13, <3>1 DEF EventAt, C
  <2>15. e \in [event : {e.event}, id : {e.id}, data : {e.data}]
    BY DEF EventAt
  <2> HIDE DEF e
  <2>16. l # <<>> => EventAt(M, (n + 1) + 1) = AddField(e, l)
    <3>1. CASE l # <<>> /\ Field(l) = "event"
      BY <2>14, <2>15, <3>1 DEF AddField
    <3>2. CASE l # <<>> /\ Field(l) = "data"
      BY <2>14, <2>15, <3>2 DEF AddField
    <3>3. CASE l # <<>> /\ Field(l) = "id"
      BY <2>14, <2>15, <3>3 DEF AddField
    <3>4. CASE l # <<>> /\ Field(l) \notin {"event", "data", "id"}
      BY <2>14, <2>15, <3>4 DEF AddField
    <3> QED
      BY <3>1, <3>2, <3>3, <3>4
  <2>17. l = <<>> => EventAt(M, (n + 1) + 1) = e
    BY <2>14, <2>15
  <2> QED
    BY <1>5, <2>16, <2>17 DEF e
<1> QED
  BY <1>4, <1>5

Happened(L) == [j \in 1 .. Len(L) + 1 |-> EventAt(L, j)]

LEMMA EventsIs ==
  ASSUME NEW L \in Seq(Text), NEW n, n = Len(L)
  PROVE  /\ EventsIn(L, FALSE) = InOrder(Happened(L), EventEnds(L))
         /\ EventsIn(L, FALSE) \in Seq(StateType)
         /\ EventsIn(L, TRUE) = IF HasData(L, n + 1)
                                THEN Append(EventsIn(L, FALSE), EventAt(L, n + 1))
                                ELSE EventsIn(L, FALSE)
<1>1. n \in Nat /\ EventEnds(L) \in SUBSET (1 .. n) /\ EventEnds(L) \in SUBSET (0 .. n)
  <2>1. EventEnds(L) \in SUBSET (1 .. n) /\ n \in Nat
    BY EndsIn
  <2>2. 1 .. n \in SUBSET (0 .. n)
    BY <2>1
  <2> QED
    BY <2>1, <2>2
<1>2. \A j \in 1 .. n + 1 : Happened(L)[j] = EventAt(L, j) /\ Happened(L)[j] \in StateType
  BY EventType DEF Happened
<1>3. n + 1 \in 1 .. n + 1 /\ \A i \in 1 .. n : i \in 1 .. n + 1
  BY <1>1
<1>4. EventsIn(L, FALSE) = InOrder(Happened(L), EventEnds(L))
  <2>1. EventEnds(L) \cup {} = EventEnds(L)
    OBVIOUS
  <2>2. EventsIn(L, FALSE) = InOrder(Happened(L), EventEnds(L) \cup {})
    BY DEF EventsIn, Happened
  <2> QED
    BY <2>1, <2>2
<1>5. \A i \in EventEnds(L) : Happened(L)[i] \in StateType
  BY <1>1, <1>2, <1>3
<1>6. InOrder(Happened(L), EventEnds(L)) \in Seq(StateType)
  BY <1>1, <1>5, InOrderIs
<1>7. CASE HasData(L, n + 1)
  <2>1. EventsIn(L, TRUE) = InOrder(Happened(L), EventEnds(L) \cup {n + 1})
    BY <1>7 DEF EventsIn, Happened
  <2>2. Happened(L)[n + 1] = EventAt(L, n + 1) /\ Happened(L)[n + 1] \in StateType
    BY <1>2, <1>3
  <2>3. InOrder(Happened(L), EventEnds(L) \cup {n + 1})
          = Append(InOrder(Happened(L), EventEnds(L)), Happened(L)[n + 1])
    BY <1>1, <1>5, <2>2, InOrderGrows
  <2> QED
    BY <1>4, <1>6, <1>7, <2>1, <2>2, <2>3
<1>8. CASE ~HasData(L, n + 1)
  <2>1. EventsIn(L, TRUE) = EventsIn(L, FALSE)
    BY <1>8 DEF EventsIn
  <2> QED
    BY <1>4, <1>6, <1>8, <2>1
<1> QED
  BY <1>4, <1>6, <1>7, <1>8

LEMMA EventsGrow ==
  ASSUME NEW L \in Seq(Text), NEW l \in Text, NEW M, M = Append(L, l), NEW n, n = Len(L)
  PROVE  EventsIn(M, FALSE) =
           IF n + 1 \in EventEnds(M) THEN Append(EventsIn(L, FALSE), EventAt(L, n + 1))
           ELSE EventsIn(L, FALSE)
<1>1. /\ n \in Nat /\ EventEnds(L) \in SUBSET (1 .. n) /\ EventEnds(L) \in SUBSET (0 .. n)
      /\ 1 .. n \in SUBSET (1 .. n + 1) /\ n + 1 \in 1 .. n + 1
      /\ 1 .. n + 1 \in SUBSET (1 .. (n + 1) + 1)
  <2>1. EventEnds(L) \in SUBSET (1 .. n) /\ n \in Nat
    BY EndsIn
  <2>2. 1 .. n \in SUBSET (0 .. n)
    BY <2>1
  <2> QED
    BY <2>1, <2>2
<1>2. M \in Seq(Text) /\ Len(M) = n + 1
  BY AppendProperties
<1>3. EventEnds(M) = EventEnds(L) \cup IF l = <<>> /\ HasData(L, n + 1) THEN {n + 1} ELSE {}
  BY EarlierStay, Zenon
<1>4. \A j \in 1 .. n + 1 : EventAt(M, j) = EventAt(L, j)
  BY EarlierEvents
<1>5. \A j \in 1 .. n + 1 : /\ Happened(L)[j] = EventAt(L, j) /\ Happened(L)[j] \in StateType
                            /\ Happened(M)[j] = EventAt(L, j)
  BY <1>1, <1>2, <1>4, EventType DEF Happened
<1>6. \A i \in EventEnds(L) : /\ Happened(L)[i] \in StateType /\ Happened(M)[i] \in StateType
                         /\ Happened(M)[i] = Happened(L)[i]
  BY <1>1, <1>5
<1>7. InOrder(Happened(M), EventEnds(L)) = InOrder(Happened(L), EventEnds(L))
  <2>1. \A u : (\A i \in EventEnds(L) : u[i] = Happened(L)[i])
                 => InOrder(u, EventEnds(L)) = InOrder(Happened(L), EventEnds(L))
    BY <1>1, <1>6, InOrderIs
  <2> QED
    BY <1>6, <2>1
<1>8. /\ EventsIn(M, FALSE) = InOrder(Happened(M), EventEnds(M))
      /\ EventsIn(L, FALSE) = InOrder(Happened(L), EventEnds(L))
  BY <1>2, EventsIs
<1>9. CASE n + 1 \in EventEnds(M)
  <2>1. EventEnds(M) = EventEnds(L) \cup {n + 1}
    BY <1>3, <1>9
  <2>2. Happened(M)[n + 1] = EventAt(L, n + 1) /\ Happened(M)[n + 1] \in StateType
    BY <1>1, <1>5
  <2>3. InOrder(Happened(M), EventEnds(L) \cup {n + 1})
          = Append(InOrder(Happened(M), EventEnds(L)), Happened(M)[n + 1])
    BY <1>1, <1>6, <2>2, InOrderGrows, ZenonT(60)
  <2> QED
    BY <1>7, <1>8, <1>9, <2>1, <2>2, <2>3
<1>10. CASE n + 1 \notin EventEnds(M)
  <2>1. EventEnds(M) = EventEnds(L)
    BY <1>3, <1>10
  <2> QED
    BY <1>7, <1>8, <1>10, <2>1
<1> QED
  BY <1>9, <1>10

LEMMA ConcatAppend ==
  ASSUME NEW S, NEW e \in Seq(S), NEW o \in Seq(S), NEW x \in S
  PROVE  e \o Append(o, x) = Append(e \o o, x)
<1> DEFINE p == e \o Append(o, x)
           q == Append(e \o o, x)
<1>1. /\ Append(o, x) \in Seq(S) /\ Len(Append(o, x)) = Len(o) + 1
      /\ Append(o, x)[Len(o) + 1] = x /\ \A i \in 1 .. Len(o) : Append(o, x)[i] = o[i]
  BY AppendProperties
<1>2. /\ Len(e) \in Nat /\ Len(o) \in Nat
      /\ e \o o \in Seq(S) /\ Len(e \o o) = Len(e) + Len(o)
      /\ \A i \in 1 .. Len(e) + Len(o) :
           (e \o o)[i] = IF i <= Len(e) THEN e[i] ELSE o[i - Len(e)]
  BY LenProperties, ConcatProperties
<1>3. /\ p \in Seq(S) /\ Len(p) = Len(e) + (Len(o) + 1)
      /\ \A i \in 1 .. Len(e) + (Len(o) + 1) :
           p[i] = IF i <= Len(e) THEN e[i] ELSE Append(o, x)[i - Len(e)]
  BY <1>1, ConcatProperties
<1>4. /\ q \in Seq(S) /\ Len(q) = (Len(e) + Len(o)) + 1 /\ q[(Len(e) + Len(o)) + 1] = x
      /\ \A i \in 1 .. Len(e) + Len(o) : q[i] = (e \o o)[i]
  BY <1>2, AppendProperties
<1> HIDE DEF p, q
<1>5. ASSUME NEW i \in 1 .. Len(p) PROVE p[i] = q[i]
  <2>1. CASE i = (Len(e) + Len(o)) + 1
    <3>1. i - Len(e) = Len(o) + 1 /\ ~(i <= Len(e))
      BY <1>2, <2>1
    <3> QED
      BY <1>1, <1>3, <1>4, <2>1, <3>1
  <2>2. CASE i # (Len(e) + Len(o)) + 1
    <3>1. i \in 1 .. Len(e) + Len(o) /\ (~(i <= Len(e)) => i - Len(e) \in 1 .. Len(o))
      <4>1. PICK a \in Nat, b \in Nat : a = Len(e) /\ b = Len(o)
        BY <1>2
      <4>2. i \in 1 .. a + (b + 1) /\ i # (a + b) + 1
        BY <1>3, <2>2, <4>1
      <4>3. i \in 1 .. a + b /\ (~(i <= a) => i - a \in 1 .. b)
        BY <4>2
      <4> QED
        BY <4>1, <4>3
    <3> QED
      BY <1>1, <1>2, <1>3, <1>4, <3>1
  <2> QED
    BY <2>1, <2>2
<1>6. Len(p) = Len(q)
  BY <1>2, <1>3, <1>4
<1> QED
  BY <1>3, <1>4, <1>5, <1>6, SeqEqual DEF p, q

(* The parser is where the lines it was fed have brought it.               *)
LEMMA FeedAgrees ==
  ASSUME NEW L \in Seq(Text), NEW raw \in Text, NEW e \in Seq(StateType), NEW p \in ParseType,
         p.state = EventAt(L, Len(L) + 1), e \o p.out = EventsIn(L, FALSE)
  PROVE  /\ FeedLine(p, raw).state = EventAt(Append(L, Stripped(raw)), (Len(L) + 1) + 1)
         /\ e \o FeedLine(p, raw).out = EventsIn(Append(L, Stripped(raw)), FALSE)
<1>0. PICK M, n : M = Append(L, Stripped(raw)) /\ n = Len(L)
  OBVIOUS
<1> SUFFICES /\ FeedLine(p, raw).state = EventAt(M, (n + 1) + 1)
             /\ e \o FeedLine(p, raw).out = EventsIn(M, FALSE)
  BY <1>0
<1> USE <1>0
<1> DEFINE l == Stripped(raw)
           q == FeedLine(p, raw)
<1>1. M = Append(L, l) /\ l \in Text /\ p.out \in Seq(StateType) /\ p.state \in StateType
  BY StrippedText DEF ParseType
<1> HIDE DEF l
<1>2. n \in Nat /\ EventEnds(L) \in SUBSET (1 .. n) /\ n + 1 \notin 1 .. n
  BY EndsIn
<1>3. EventEnds(M) = EventEnds(L) \cup IF l = <<>> /\ HasData(L, n + 1) THEN {n + 1} ELSE {}
  BY <1>1, EarlierStay, Zenon
<1>4. EventAt(M, (n + 1) + 1) =
           IF n + 1 \in EventEnds(M) THEN Fresh
           ELSE IF l = <<>> THEN EventAt(L, n + 1)
           ELSE AddField(EventAt(L, n + 1), l)
  BY <1>1, PendingGrows, Zenon
<1>5. EventsIn(M, FALSE) =
           IF n + 1 \in EventEnds(M) THEN Append(EventsIn(L, FALSE), EventAt(L, n + 1))
           ELSE EventsIn(L, FALSE)
  BY <1>1, EventsGrow, Zenon
<1>6. p.state.data = <<>> <=> ~HasData(L, n + 1)
  BY DataIsPending
<1>7. n + 1 \in EventEnds(M) <=> l = <<>> /\ HasData(L, n + 1)
  BY <1>2, <1>3
<1>8. CASE l = <<>> /\ p.state.data = <<>>
  <2>1. q = p
    BY <1>8 DEF FeedLine, l
  <2> QED
    BY <1>4, <1>5, <1>6, <1>7, <1>8, <2>1
<1>9. CASE l = <<>> /\ p.state.data # <<>>
  <2>1. q.state = Fresh /\ q.out = Append(p.out, p.state)
    BY <1>9 DEF FeedLine, l
  <2>2. e \o q.out = Append(EventsIn(L, FALSE), EventAt(L, n + 1))
    <3>1. PICK o \in Seq(StateType), x \in StateType : o = p.out /\ x = p.state
      BY <1>1
    <3>2. e \o Append(o, x) = Append(e \o o, x)
      BY ConcatAppend
    <3> QED
      BY <2>1, <3>1, <3>2
  <2> QED
    BY <1>4, <1>5, <1>6, <1>7, <1>9, <2>1, <2>2
<1>10. CASE l # <<>>
  <2>1. q.state = AddField(p.state, l) /\ q.out = p.out
    BY <1>10 DEF FeedLine, ParseType, l
  <2> QED
    BY <1>4, <1>5, <1>7, <1>10, <2>1
<1> QED
  BY <1>8, <1>9, <1>10

LEMMA FlushAgrees ==
  ASSUME NEW L \in Seq(Text), NEW e \in Seq(StateType), NEW p \in ParseType,
         p.state = EventAt(L, Len(L) + 1), e \o p.out = EventsIn(L, FALSE)
  PROVE  e \o Flush(p).out = EventsIn(L, TRUE) /\ Flush(p).out \in Seq(StateType)
<1>0. PICK n : n = Len(L)
  OBVIOUS
<1> USE <1>0
<1>1. p.out \in Seq(StateType) /\ p.state \in StateType
  BY DEF ParseType
<1>2. p.state.data = <<>> <=> ~HasData(L, n + 1)
  BY DataIsPending
<1>3. EventsIn(L, TRUE) = IF HasData(L, n + 1)
                          THEN Append(EventsIn(L, FALSE), EventAt(L, n + 1))
                          ELSE EventsIn(L, FALSE)
  BY EventsIs, Zenon
<1>4. CASE p.state.data = <<>>
  BY <1>1, <1>2, <1>3, <1>4 DEF Flush
<1>5. CASE p.state.data # <<>>
  <2>1. Flush(p).out = Append(p.out, p.state)
    BY <1>5 DEF Flush
  <2>2. e \o Flush(p).out = Append(EventsIn(L, FALSE), EventAt(L, n + 1))
    <3>1. PICK o \in Seq(StateType), x \in StateType : o = p.out /\ x = p.state
      BY <1>1
    <3>2. e \o Append(o, x) = Append(e \o o, x)
      BY ConcatAppend
    <3> QED
      BY <2>1, <3>1, <3>2
  <2>3. Flush(p).out \in Seq(StateType)
    BY <1>1, <2>1, AppendProperties
  <2> QED
    BY <1>2, <1>3, <1>5, <2>2, <2>3
<1> QED
  BY <1>4, <1>5

-----------------------------------------------------------------------------
(* Beginnings of sequences. *)
LEMMA SubSeqGrows ==
  ASSUME NEW S, NEW s \in Seq(S), NEW i \in Nat, i + 1 <= Len(s)
  PROVE  /\ SubSeq(s, 1, i) \in Seq(S) /\ s[i + 1] \in S
         /\ SubSeq(s, 1, i + 1) = Append(SubSeq(s, 1, i), s[i + 1])
<1>1. Len(s) \in Nat /\ i + 1 \in 1 .. Len(s) /\ \A j \in 1 .. Len(s) : s[j] \in S
  BY LenProperties, ElementOfSeq
<1>2. SubSeq(s, 1, i) \in Seq(S) /\ Len(SubSeq(s, 1, i)) = i
      /\ \A j \in 1 .. i : SubSeq(s, 1, i)[j] = s[j]
  BY <1>1, SubSeqProperties
<1>3. SubSeq(s, 1, i + 1) \in Seq(S) /\ Len(SubSeq(s, 1, i + 1)) = i + 1
      /\ \A j \in 1 .. i + 1 : SubSeq(s, 1, i + 1)[j] = s[j]
  BY <1>1, SubSeqProperties
<1> DEFINE a == SubSeq(s, 1, i)
           b == SubSeq(s, 1, i + 1)
<1> HIDE DEF a, b
<1>4. /\ Append(a, s[i + 1]) \in Seq(S) /\ Len(Append(a, s[i + 1])) = i + 1
      /\ Append(a, s[i + 1])[i + 1] = s[i + 1]
      /\ \A j \in 1 .. i : Append(a, s[i + 1])[j] = a[j]
  BY <1>1, <1>2, AppendProperties DEF a
<1>5. ASSUME NEW j \in 1 .. i + 1 PROVE b[j] = Append(a, s[i + 1])[j]
  <2>1. CASE j = i + 1
    BY <1>3, <1>4, <2>1 DEF b
  <2>2. CASE j # i + 1
    <3>1. j \in 1 .. i
      BY <2>2
    <3> QED
      BY <1>2, <1>3, <1>4, <3>1 DEF a, b
  <2> QED
    BY <2>1, <2>2
<1>6. b \in Seq(S) /\ Len(b) = i + 1
  BY <1>3 DEF b
<1>7. b = Append(a, s[i + 1])
  BY <1>4, <1>5, <1>6, SeqEqual
<1> QED
  BY <1>1, <1>2, <1>7 DEF a, b

LEMMA PrefixIs ==
  ASSUME NEW S, NEW s \in Seq(S), NEW t \in Seq(S)
  PROVE  IsPrefix(s, t) <=> Len(s) <= Len(t) /\ \A i \in 1 .. Len(s) : s[i] = t[i]
<1>1. Len(s) \in Nat /\ Len(t) \in Nat
  BY LenProperties
<1>2. SubSeq(s, 1, Len(s)) = s
  BY SubSeqFull
<1>3. ASSUME Len(s) <= Len(t)
      PROVE  s = SubSeq(t, 1, Len(s)) <=> \A i \in 1 .. Len(s) : s[i] = t[i]
  <2>1. \A i \in 1 .. Len(s) : t[i] \in S
    BY <1>1, <1>3, ElementOfSeq
  <2>2. /\ SubSeq(t, 1, Len(s)) \in Seq(S) /\ Len(SubSeq(t, 1, Len(s))) = Len(s)
        /\ \A i \in 1 .. Len(s) : SubSeq(t, 1, Len(s))[i] = t[i]
    BY <1>1, <1>3, <2>1, SubSeqProperties
  <2> QED
    BY <2>2, SeqEqual
<1> QED
  BY <1>2, <1>3 DEF IsPrefix

LEMMA PrefixTransitive ==
  ASSUME NEW S, NEW s \in Seq(S), NEW t \in Seq(S), NEW u \in Seq(S),
         IsPrefix(s, t), IsPrefix(t, u)
  PROVE  IsPrefix(s, u)
<1>1. Len(s) \in Nat /\ Len(t) \in Nat /\ Len(u) \in Nat
  BY LenProperties
<1>2. /\ Len(s) <= Len(t) /\ \A i \in 1 .. Len(s) : s[i] = t[i]
      /\ Len(t) <= Len(u) /\ \A i \in 1 .. Len(t) : t[i] = u[i]
  BY PrefixIs
<1>3. Len(s) <= Len(u) /\ \A i \in 1 .. Len(s) : s[i] = u[i]
  BY <1>1, <1>2
<1> QED
  BY <1>3, PrefixIs

LEMMA PrefixOfAppend ==
  ASSUME NEW S, NEW s \in Seq(S), NEW x \in S
  PROVE  IsPrefix(s, s) /\ IsPrefix(s, Append(s, x))
<1>1. Len(s) \in Nat /\ Append(s, x) \in Seq(S) /\ Len(Append(s, x)) = Len(s) + 1
      /\ \A i \in 1 .. Len(s) : Append(s, x)[i] = s[i]
  BY LenProperties, AppendProperties
<1>2. IsPrefix(s, s)
  BY <1>1, PrefixIs
<1>3. IsPrefix(s, Append(s, x))
  <2>1. PICK u \in Seq(S) : u = Append(s, x)
    BY <1>1
  <2>2. Len(s) <= Len(u) /\ \A i \in 1 .. Len(s) : s[i] = u[i]
    BY <1>1, <2>1
  <2> QED
    BY <2>1, <2>2, PrefixIs
<1> QED
  BY <1>2, <1>3

(* What a caller got of the events, before its callback raised.            *)
LEMMA PrefixOfConcat ==
  ASSUME NEW S, NEW e \in Seq(S), NEW o \in Seq(S), NEW n \in DOMAIN o
  PROVE  /\ e \o SubSeq(o, 1, n) \in Seq(S) /\ e \o o \in Seq(S)
         /\ IsPrefix(e \o SubSeq(o, 1, n), e \o o)
<1> DEFINE a == SubSeq(o, 1, n)
<1>1. /\ Len(e) \in Nat /\ Len(o) \in Nat /\ n \in 1 .. Len(o)
      /\ \A j \in 1 .. Len(o) : o[j] \in S
  BY LenProperties, ElementOfSeq
<1>2. a \in Seq(S) /\ Len(a) = n /\ \A j \in 1 .. n : a[j] = o[j]
  BY <1>1, SubSeqProperties
<1> HIDE DEF a
<1>3. /\ e \o a \in Seq(S) /\ Len(e \o a) = Len(e) + n
      /\ \A i \in 1 .. Len(e) + n : (e \o a)[i] = IF i <= Len(e) THEN e[i] ELSE a[i - Len(e)]
  BY <1>2, ConcatProperties
<1>4. /\ e \o o \in Seq(S) /\ Len(e \o o) = Len(e) + Len(o)
      /\ \A i \in 1 .. Len(e) + Len(o) :
           (e \o o)[i] = IF i <= Len(e) THEN e[i] ELSE o[i - Len(e)]
  BY ConcatProperties
<1>5. ASSUME NEW i \in 1 .. Len(e) + n PROVE (e \o a)[i] = (e \o o)[i]
  <2>1. i \in 1 .. Len(e) + Len(o) /\ (~(i <= Len(e)) => i - Len(e) \in 1 .. n)
    BY <1>1
  <2> QED
    BY <1>2, <1>3, <1>4, <2>1
<1>6. IsPrefix(e \o a, e \o o)
  <2>1. Len(e \o a) <= Len(e \o o)
    BY <1>1, <1>3, <1>4
  <2> QED
    BY <1>3, <1>4, <1>5, <2>1, PrefixIs
<1> QED
  BY <1>3, <1>4, <1>6 DEF a

-----------------------------------------------------------------------------
(* The steps of the runner. *)

(* What the parser makes of some more lines.                               *)
Stripes(lines) == [k \in DOMAIN lines |-> Stripped(lines[k])]

LEMMA StripesGrow ==
  /\ Stripes(<<>>) = <<>>
  /\ \A ls \in Seq(Text) : Stripes(ls) \in Seq(Text) /\ Len(Stripes(ls)) = Len(ls)
  /\ \A ls \in Seq(Text), x \in Text : Stripes(Append(ls, x)) = Append(Stripes(ls), Stripped(x))
<1>1. ASSUME NEW ls \in Seq(Text) PROVE Stripes(ls) \in Seq(Text) /\ Len(Stripes(ls)) = Len(ls)
  <2>1. Len(ls) \in Nat /\ DOMAIN ls = 1 .. Len(ls) /\ \A i \in 1 .. Len(ls) : ls[i] \in Text
    BY LenProperties, ElementOfSeq
  <2>2. Stripes(ls) \in [1 .. Len(ls) -> Text]
    BY <2>1, StrippedText DEF Stripes
  <2>3. Stripes(ls) \in Seq(Text)
    BY <2>1, <2>2, SeqDef
  <2> QED
    BY <2>1, <2>2, <2>3, LenProperties
<1>2. Stripes(<<>>) = <<>>
  <2>1. <<>> \in Seq(Text) /\ Len(<<>>) = 0
    BY EmptySeq
  <2> QED
    BY <1>1, <2>1, EmptySeq
<1>3. ASSUME NEW ls \in Seq(Text), NEW x \in Text
      PROVE  Stripes(Append(ls, x)) = Append(Stripes(ls), Stripped(x))
  <2> DEFINE a == Append(ls, x)
             b == Append(Stripes(ls), Stripped(x))
             n == Len(ls)
  <2>1. n \in Nat /\ DOMAIN ls = 1 .. n
    BY LenProperties
  <2>2. /\ a \in Seq(Text) /\ Len(a) = n + 1 /\ a[n + 1] = x /\ \A i \in 1 .. n : a[i] = ls[i]
        /\ DOMAIN a = 1 .. n + 1
    BY <2>1, AppendProperties, LenProperties
  <2>3. Stripes(ls) \in Seq(Text) /\ Len(Stripes(ls)) = n /\ Stripped(x) \in Text
    BY <1>1, StrippedText
  <2>4. /\ b \in Seq(Text) /\ Len(b) = n + 1 /\ b[n + 1] = Stripped(x)
        /\ \A i \in 1 .. n : b[i] = Stripes(ls)[i]
    BY <2>3, AppendProperties
  <2>5. Stripes(a) \in Seq(Text) /\ Len(Stripes(a)) = n + 1
    BY <1>1, <2>2
  <2> HIDE DEF a, b, n
  <2>6. ASSUME NEW i \in 1 .. n + 1 PROVE Stripes(a)[i] = b[i]
    <3>1. Stripes(a)[i] = Stripped(a[i])
      BY <2>2 DEF Stripes
    <3>2. CASE i = n + 1
      BY <2>2, <2>4, <3>1, <3>2
    <3>3. CASE i # n + 1
      <4>1. i \in 1 .. n
        BY <2>1, <3>3
      <4>2. Stripes(ls)[i] = Stripped(ls[i])
        BY <2>1, <4>1 DEF Stripes
      <4> QED
        BY <2>2, <2>4, <3>1, <4>1, <4>2
    <3> QED
      BY <3>2, <3>3
  <2>7. Stripes(a) = b
    BY <2>4, <2>5, <2>6, SeqEqual
  <2> QED
    BY <2>7 DEF a, b
<1> QED
  BY <1>1, <1>2, <1>3

LEMMA ParseAgrees ==
  ASSUME NEW L \in Seq(Text), NEW lines \in Seq(Text), NEW e \in Seq(StateType),
         parser = EventAt(L, Len(L) + 1), e = EventsIn(L, FALSE)
  PROVE  /\ L \o Stripes(lines) \in Seq(Text) /\ Parse(lines) \in ParseType
         /\ Parse(lines).state = EventAt(L \o Stripes(lines), Len(L \o Stripes(lines)) + 1)
         /\ e \o Parse(lines).out = EventsIn(L \o Stripes(lines), FALSE)
<1> DEFINE n == Len(lines)
           At(i) == L \o Stripes(SubSeq(lines, 1, i))
<1>1. n \in Nat /\ \A i \in 1 .. n : lines[i] \in Text
  BY LenProperties, ElementOfSeq
<1>2. PICK h \in [0 .. n -> ParseType] :
         /\ h[0] = [state |-> parser, out |-> <<>>] /\ h[n] = Parse(lines)
         /\ \A i \in 1 .. n : h[i] = FeedLine(h[i - 1], lines[i])
  <2>1. PICK s \in StateType : s = parser
    <3>1. Len(L) + 1 \in 1 .. Len(L) + 1
      BY EndsIn
    <3> QED
      BY <3>1, EventType
  <2> QED
    BY <2>1, ParseChain
<1> DEFINE Good(i) == /\ At(i) \in Seq(Text) /\ h[i].state = EventAt(At(i), Len(At(i)) + 1)
                      /\ e \o h[i].out = EventsIn(At(i), FALSE)
           T == {i \in 0 .. n : Good(i)}
<1>3. 0 \in T
  <2>1. At(0) = L
    <3>1. SubSeq(lines, 1, 0) = <<>>
      BY SubSeqEmpty
    <3>2. L \o <<>> = L
      BY ConcatEmptySeq
    <3> QED
      BY <3>1, <3>2, StripesGrow
  <2>2. e \o <<>> = e
    BY ConcatEmptySeq
  <2>3. h[0].state = parser /\ h[0].out = <<>> /\ 0 \in 0 .. n
    BY <1>1, <1>2
  <2> QED
    BY <2>1, <2>2, <2>3
<1>4. ASSUME NEW i \in 0 .. n - 1, i \in T PROVE i + 1 \in T
  <2>1. /\ i \in Nat /\ i + 1 <= n /\ i + 1 \in 1 .. n /\ (i + 1) - 1 = i /\ i \in 0 .. n
        /\ i + 1 \in 0 .. n
    BY <1>1
  <2>2. PICK A \in Seq(Text) : A = At(i)
    BY <1>4
  <2>3. h[i].state = EventAt(A, Len(A) + 1) /\ e \o h[i].out = EventsIn(A, FALSE)
    BY <1>4, <2>2
  <2>4. lines[i + 1] \in Text /\ h[i] \in ParseType /\ h[i + 1] = FeedLine(h[i], lines[i + 1])
    BY <1>1, <1>2, <2>1
  <2>5. At(i + 1) = Append(A, Stripped(lines[i + 1]))
    <3>1. PICK p \in Seq(Text) : p = SubSeq(lines, 1, i)
      BY <2>1, SubSeqGrows
    <3>2. SubSeq(lines, 1, i + 1) = Append(p, lines[i + 1])
      BY <2>1, <3>1, SubSeqGrows
    <3>3. Stripes(Append(p, lines[i + 1])) = Append(Stripes(p), Stripped(lines[i + 1]))
      BY <2>4, StripesGrow
    <3>4. Stripes(p) \in Seq(Text) /\ Stripped(lines[i + 1]) \in Text
      BY <2>4, StripesGrow, StrippedText
    <3>5. L \o Append(Stripes(p), Stripped(lines[i + 1]))
            = Append(L \o Stripes(p), Stripped(lines[i + 1]))
      BY <3>4, ConcatAppend, SMTT(30)
    <3> QED
      BY <2>2, <3>1, <3>2, <3>3, <3>5
  <2> HIDE DEF T
  <2>6. PICK B : B = Append(A, Stripped(lines[i + 1]))
    OBVIOUS
  <2>7. B \in Seq(Text) /\ Len(B) = Len(A) + 1
    BY <2>4, <2>6, StrippedText, AppendProperties
  <2>8. /\ FeedLine(h[i], lines[i + 1]).state = EventAt(B, (Len(A) + 1) + 1)
        /\ e \o FeedLine(h[i], lines[i + 1]).out = EventsIn(B, FALSE)
    <3>1. PICK raw \in Text, p \in ParseType : raw = lines[i + 1] /\ p = h[i]
      BY <2>4
    <3>2. B = Append(A, Stripped(raw)) /\ p.state = EventAt(A, Len(A) + 1)
          /\ e \o p.out = EventsIn(A, FALSE)
      BY <2>3, <2>6, <3>1
    <3>3. FeedLine(p, raw).state = EventAt(Append(A, Stripped(raw)), (Len(A) + 1) + 1)
          /\ e \o FeedLine(p, raw).out = EventsIn(Append(A, Stripped(raw)), FALSE)
      BY <3>2, FeedAgrees
    <3> QED
      BY <3>1, <3>2, <3>3
  <2>9. Good(i + 1)
    BY <2>4, <2>5, <2>6, <2>7, <2>8
  <2> QED
    BY <2>1, <2>9 DEF T
<1>5. n \in T
  <2> HIDE DEF T
  <2>1. n \in 0 .. n
    BY <1>1
  <2> QED
    BY <1>1, <1>3, <1>4, <2>1, IntervalInduction
<1>6. SubSeq(lines, 1, n) = lines
  BY SubSeqFull
<1>7. n \in 0 .. n
  BY <1>1
<1> QED
  BY <1>2, <1>5, <1>6, <1>7

LEMMA RestIsOpen ==
  ASSUME NEW t \in Text
  PROVE  RestOf(t) \in Text /\ \A i \in 1 .. Len(RestOf(t)) : RestOf(t)[i] # "nl"
<1>1. PICK m \in 0 .. Len(t) : m = Max(LineEnds(t)) /\ \A x \in LineEnds(t) : x <= m
  BY LineEndsIn
<1>2. Len(t) \in Nat /\ DOMAIN t = 1 .. Len(t) /\ \A i \in m + 1 .. Len(t) : t[i] \in Bytes \cup {"?"}
  BY LenProperties, ElementOfSeq DEF Text
<1>3. RestOf(t) = SubSeq(t, m + 1, Len(t))
  BY <1>1 DEF RestOf
<1>4. /\ Len(RestOf(t)) = Len(t) - m
      /\ \A i \in 1 .. Len(t) - m : RestOf(t)[i] = t[m + i]
  <2>1. PICK n \in Nat : n = Len(t)
    BY <1>2
  <2>2. \A i \in m + 1 .. n : t[i] \in Bytes \cup {"?"}
    BY <1>2, <2>1
  <2>3. /\ Len(SubSeq(t, m + 1, n)) = n - m
        /\ \A i \in 1 .. n - m : SubSeq(t, m + 1, n)[i] = t[m + i]
    BY <2>1, <2>2, SubSeqProperties
  <2> QED
    BY <1>3, <2>1, <2>3, SMTT(30)
<1>5. ASSUME NEW i \in 1 .. Len(RestOf(t)) PROVE RestOf(t)[i] # "nl"
  <2>1. m + i \in 1 .. Len(t) /\ ~(m + i <= m) /\ RestOf(t)[i] = t[m + i]
    BY <1>2, <1>4
  <2> QED
    BY <1>1, <1>2, <2>1 DEF LineEnds
<1> QED
  BY <1>5, RestText

(* The buffer is where the text that came has brought it.                  *)
LEMMA BufferAgrees ==
  ASSUME NEW t \in Text, NEW chunk \in Text
  PROVE  /\ t \o chunk \in Text /\ Buffer(RestOf(t) \o chunk) \in BufferType
         /\ Buffer(RestOf(t) \o chunk).rest = RestOf(t \o chunk)
         /\ LinesOf(t \o chunk, FALSE)
              = LinesOf(t, FALSE) \o Stripes(Buffer(RestOf(t) \o chunk).lines)
<1>0. PICK u, b : u = t \o chunk /\ b = Buffer(RestOf(t) \o chunk)
  OBVIOUS
<1> SUFFICES /\ u \in Text /\ b \in BufferType /\ b.rest = RestOf(u)
             /\ LinesOf(u, FALSE) = LinesOf(t, FALSE) \o Stripes(b.lines)
  BY <1>0
<1> DEFINE B == Bytes \cup {"?"}
<1>1. PICK r \in Text : r = RestOf(t) /\ \A i \in 1 .. Len(r) : r[i] # "nl"
  BY RestIsOpen
<1>2. PICK w \in Text : w = r \o chunk
  BY ConcatProperties DEF Text
<1>3. PICK m \in Nat, n \in Nat : m = Len(r) /\ n = Len(chunk)
  BY LenProperties DEF Text
<1>4. /\ Len(w) = m + n /\ \A i \in 1 .. m : w[i] = r[i]
      /\ \A i \in 1 .. n : w[m + i] = chunk[i]
  <2>1. /\ Len(w) = Len(r) + Len(chunk)
        /\ \A i \in 1 .. Len(r) + Len(chunk) :
             w[i] = IF i <= Len(r) THEN r[i] ELSE chunk[i - Len(r)]
    BY <1>2, ConcatProperties DEF Text
  <2>2. ASSUME NEW i \in 1 .. m PROVE w[i] = r[i]
    <3>1. i \in 1 .. m + n /\ i <= m
      OBVIOUS
    <3> QED
      BY <1>3, <2>1, <3>1
  <2>3. ASSUME NEW i \in 1 .. n PROVE w[m + i] = chunk[i]
    <3>1. m + i \in 1 .. m + n /\ ~(m + i <= m) /\ (m + i) - m = i
      OBVIOUS
    <3> QED
      BY <1>3, <2>1, <3>1
  <2>4. Len(w) = m + n
    BY <1>3, <2>1
  <2> QED
    BY <2>2, <2>3, <2>4
<1>5. PICK h \in [0 .. m + n -> BufferType] :
         /\ h[0] = Nothing /\ h[m + n] = Buffer(w)
         /\ \A i \in 1 .. m + n : h[i] = TakeByte(h[i - 1], w[i])
  BY <1>4, BufferChain
<1>6. \A i \in 1 .. m : r[i] \in B
  BY <1>3, ElementOfSeq DEF Text
<1>7. \A i \in 1 .. n : chunk[i] \in B
  BY <1>3, ElementOfSeq DEF Text
<1>8. h[m].lines = <<>> /\ h[m].rest = r
  <2> DEFINE T == {i \in 0 .. m : h[i].lines = <<>> /\ h[i].rest = SubSeq(r, 1, i)}
  <2>1. 0 \in T
    <3>1. SubSeq(r, 1, 0) = <<>> /\ 0 \in 0 .. m
      BY SubSeqEmpty
    <3>2. Nothing.lines = <<>> /\ Nothing.rest = <<>>
      BY DEF Nothing
    <3> QED
      BY <1>5, <3>1, <3>2
  <2>2. ASSUME NEW i \in 0 .. m - 1, i \in T PROVE i + 1 \in T
    <3>1. /\ i \in Nat /\ i + 1 <= m /\ i + 1 \in 1 .. m /\ i + 1 \in 1 .. m + n
          /\ (i + 1) - 1 = i /\ i \in 0 .. m + n /\ i + 1 \in 0 .. m
      OBVIOUS
    <3>2. h[i + 1] = TakeByte(h[i], r[i + 1]) /\ h[i] \in BufferType
      BY <1>4, <1>5, <3>1
    <3>3. r[i + 1] \in B /\ r[i + 1] # "nl"
      BY <1>1, <1>3, <1>6, <3>1
    <3>4. h[i + 1].lines = h[i].lines /\ h[i + 1].rest = Append(h[i].rest, r[i + 1])
      BY <3>2, <3>3, TakeByteType
    <3>5. SubSeq(r, 1, i + 1) = Append(SubSeq(r, 1, i), r[i + 1])
      BY <1>3, <3>1, SubSeqGrows DEF Text
    <3> QED
      BY <2>2, <3>1, <3>4, <3>5
  <2>3. m \in T
    <3> HIDE DEF T
    <3>1. m \in 0 .. m
      OBVIOUS
    <3> QED
      BY <2>1, <2>2, <3>1, IntervalInduction
  <2>4. SubSeq(r, 1, m) = r
    BY <1>3, SubSeqFull DEF Text
  <2> QED
    BY <2>3, <2>4
<1> DEFINE At(i) == t \o SubSeq(chunk, 1, i)
           Good(i) == /\ At(i) \in Text /\ h[m + i].rest = RestOf(At(i))
                      /\ LinesOf(At(i), FALSE) = LinesOf(t, FALSE) \o Stripes(h[m + i].lines)
           T == {i \in 0 .. n : Good(i)}
<1>9. LinesOf(t, FALSE) \in Seq(Text)
  BY LinesGrow
<1>10. 0 \in T
  <2>1. At(0) = t
    <3>1. SubSeq(chunk, 1, 0) = <<>>
      BY SubSeqEmpty
    <3>2. t \o <<>> = t
      BY ConcatEmptySeq DEF Text
    <3> QED
      BY <3>1, <3>2
  <2>2. LinesOf(t, FALSE) \o <<>> = LinesOf(t, FALSE)
    BY <1>9, ConcatEmptySeq
  <2>3. m + 0 = m /\ 0 \in 0 .. n
    OBVIOUS
  <2> QED
    BY <1>1, <1>8, <2>1, <2>2, <2>3, StripesGrow
<1>11. ASSUME NEW i \in 0 .. n - 1, i \in T PROVE i + 1 \in T
  <2>1. /\ i \in Nat /\ i + 1 <= n /\ i + 1 \in 1 .. n /\ m + (i + 1) \in 1 .. m + n
        /\ (m + (i + 1)) - 1 = m + i /\ m + i \in 0 .. m + n /\ i + 1 \in 0 .. n
    OBVIOUS
  <2>2. PICK A \in Text, x \in B, g \in BufferType : A = At(i) /\ x = chunk[i + 1] /\ g = h[m + i]
    BY <1>5, <1>7, <1>11, <2>1
  <2>3. g.rest = RestOf(A) /\ LinesOf(A, FALSE) = LinesOf(t, FALSE) \o Stripes(g.lines)
    BY <1>11, <2>2
  <2>4. h[m + (i + 1)] = TakeByte(g, x)
    BY <1>4, <1>5, <2>1, <2>2
  <2>5. At(i + 1) = Append(A, x)
    <3>1. PICK p \in Text : p = SubSeq(chunk, 1, i)
      BY <1>3, <2>1, SubSeqGrows DEF Text
    <3>2. SubSeq(chunk, 1, i + 1) = Append(p, x)
      BY <1>3, <2>1, <2>2, <3>1, SubSeqGrows DEF Text
    <3>3. t \o Append(p, x) = Append(t \o p, x)
      BY ConcatAppend, SMTT(30) DEF Text
    <3> QED
      BY <2>2, <3>1, <3>2, <3>3
  <2> HIDE DEF T
  <2>6. g.lines \in Seq(Text) /\ g.rest \in Text
    BY DEF BufferType
  <2>7. /\ Append(A, x) \in Text
        /\ RestOf(Append(A, x)) = IF x = "nl" THEN <<>> ELSE Append(RestOf(A), x)
    BY RestGrows
  <2>8. LinesOf(Append(A, x), FALSE) =
              IF x = "nl" THEN Append(LinesOf(A, FALSE), Stripped(Line(RestOf(A))))
              ELSE LinesOf(A, FALSE)
    BY LinesGrow
  <2>9. CASE x = "nl"
    <3>1. /\ TakeByte(g, x).lines = Append(g.lines, Line(g.rest)) /\ TakeByte(g, x).rest = <<>>
      BY <2>9, TakeByteType
    <3>2. Line(g.rest) \in Text /\ Stripped(Line(g.rest)) \in Text /\ Stripes(g.lines) \in Seq(Text)
      BY <2>6, LineText, StrippedText, StripesGrow
    <3>3. Stripes(Append(g.lines, Line(g.rest))) = Append(Stripes(g.lines), Stripped(Line(g.rest)))
      BY <2>6, <3>2, StripesGrow
    <3>4. LinesOf(t, FALSE) \o Append(Stripes(g.lines), Stripped(Line(g.rest)))
            = Append(LinesOf(t, FALSE) \o Stripes(g.lines), Stripped(Line(g.rest)))
      <4>1. PICK e \in Seq(Text), o \in Seq(Text), y \in Text :
               e = LinesOf(t, FALSE) /\ o = Stripes(g.lines) /\ y = Stripped(Line(g.rest))
        BY <1>9, <3>2
      <4>2. e \o Append(o, y) = Append(e \o o, y)
        BY ConcatAppend
      <4> QED
        BY <4>1, <4>2
    <3>5. Good(i + 1)
      BY <2>3, <2>4, <2>5, <2>7, <2>8, <2>9, <3>1, <3>3, <3>4
    <3> QED
      BY <2>1, <3>5 DEF T
  <2>10. CASE x # "nl"
    <3>1. TakeByte(g, x).lines = g.lines /\ TakeByte(g, x).rest = Append(g.rest, x)
      BY <2>10, TakeByteType
    <3>2. Good(i + 1)
      BY <2>3, <2>4, <2>5, <2>7, <2>8, <2>10, <3>1
    <3> QED
      BY <2>1, <3>2 DEF T
  <2> QED
    BY <2>9, <2>10
<1>12. n \in T
  <2> HIDE DEF T
  <2>1. n \in 0 .. n
    OBVIOUS
  <2> QED
    BY <1>10, <1>11, <2>1, IntervalInduction
<1>13. At(n) = u
  <2>1. SubSeq(chunk, 1, n) = chunk
    BY <1>3, SubSeqFull DEF Text
  <2> QED
    BY <1>0, <2>1
<1>14. h[m + n] = b /\ h[m + n] \in BufferType
  <2>1. m + n \in 0 .. m + n
    OBVIOUS
  <2> QED
    BY <1>0, <1>1, <1>2, <1>5, <2>1
<1> QED
  BY <1>12, <1>13, <1>14

-----------------------------------------------------------------------------
(* The events of the complete lines begin those of the whole answer.       *)
LEMMA EventsBegin ==
  ASSUME NEW t \in Text
  PROVE  /\ EventsIn(LinesOf(t, FALSE), FALSE) \in Seq(StateType)
         /\ EventsIn(LinesOf(t, TRUE), TRUE) \in Seq(StateType)
         /\ IsPrefix(EventsIn(LinesOf(t, FALSE), FALSE), EventsIn(LinesOf(t, TRUE), TRUE))
<1>1. PICK L \in Seq(Text), l \in Text : L = LinesOf(t, FALSE) /\ LinesOf(t, TRUE) = Append(L, l)
  BY LinesGrow, RestText, LineText, StrippedText
<1>2. PICK M \in Seq(Text), n \in Nat : M = Append(L, l) /\ n = Len(L) /\ Len(M) = n + 1
  <2>1. Append(L, l) \in Seq(Text) /\ Len(Append(L, l)) = Len(L) + 1 /\ Len(L) \in Nat
    BY AppendProperties, LenProperties
  <2> QED
    BY <2>1
<1>3. EventsIn(L, FALSE) \in Seq(StateType) /\ EventsIn(M, FALSE) \in Seq(StateType)
  BY EventsIs
<1>4. /\ EventAt(L, n + 1) \in StateType /\ EventAt(M, (n + 1) + 1) \in StateType
  <2>1. n + 1 \in 1 .. Len(L) + 1 /\ (n + 1) + 1 \in 1 .. Len(M) + 1
    BY <1>2
  <2> QED
    BY <2>1, EventType
<1>5. EventsIn(M, FALSE) =
           IF n + 1 \in EventEnds(M) THEN Append(EventsIn(L, FALSE), EventAt(L, n + 1))
           ELSE EventsIn(L, FALSE)
  BY <1>2, EventsGrow, Zenon
<1>6. EventsIn(M, TRUE) = IF HasData(M, (n + 1) + 1)
                          THEN Append(EventsIn(M, FALSE), EventAt(M, (n + 1) + 1))
                          ELSE EventsIn(M, FALSE)
  <2>1. (n + 1) + 1 = Len(M) + 1
    BY <1>2
  <2>2. EventsIn(M, TRUE) = IF HasData(M, Len(M) + 1)
                            THEN Append(EventsIn(M, FALSE), EventAt(M, Len(M) + 1))
                            ELSE EventsIn(M, FALSE)
    BY EventsIs, Zenon
  <2> QED
    BY <2>1, <2>2
<1>7. IsPrefix(EventsIn(L, FALSE), EventsIn(M, FALSE))
  BY <1>3, <1>4, <1>5, PrefixOfAppend
<1>8. EventsIn(M, TRUE) \in Seq(StateType) /\ IsPrefix(EventsIn(M, FALSE), EventsIn(M, TRUE))
  <2>1. PICK s \in Seq(StateType), y \in StateType :
           s = EventsIn(M, FALSE) /\ y = EventAt(M, (n + 1) + 1)
    BY <1>3, <1>4
  <2>2. Append(s, y) \in Seq(StateType) /\ IsPrefix(s, s) /\ IsPrefix(s, Append(s, y))
    BY AppendProperties, PrefixOfAppend
  <2> QED
    BY <1>6, <2>1, <2>2
<1>9. IsPrefix(EventsIn(L, FALSE), EventsIn(M, TRUE))
  BY <1>3, <1>7, <1>8, PrefixTransitive
<1> QED
  BY <1>1, <1>2, <1>3, <1>8, <1>9

(* A line of nothing ends the event there is data of, as the end of the    *)
(* answer does.                                                            *)
LEMMA EmptyLineEnds ==
  ASSUME NEW L \in Seq(Text)
  PROVE  EventsIn(Append(L, <<>>), TRUE) = EventsIn(L, TRUE)
<1>1. PICK l \in Text, M \in Seq(Text), n \in Nat :
         l = <<>> /\ M = Append(L, l) /\ n = Len(L) /\ Len(M) = n + 1
  <2>1. PICK l \in Text : l = <<>>
    BY EmptyLine
  <2>2. Append(L, l) \in Seq(Text) /\ Len(Append(L, l)) = Len(L) + 1 /\ Len(L) \in Nat
    BY AppendProperties, LenProperties
  <2> QED
    BY <2>1, <2>2
<1>2. EventsIn(L, TRUE) = IF HasData(L, n + 1)
                          THEN Append(EventsIn(L, FALSE), EventAt(L, n + 1))
                          ELSE EventsIn(L, FALSE)
  BY <1>1, EventsIs, Zenon
<1>3. EventsIn(M, FALSE) =
           IF n + 1 \in EventEnds(M) THEN Append(EventsIn(L, FALSE), EventAt(L, n + 1))
           ELSE EventsIn(L, FALSE)
  BY <1>1, EventsGrow, Zenon
<1>4. EventEnds(M) = EventEnds(L) \cup IF l = <<>> /\ HasData(L, n + 1) THEN {n + 1} ELSE {}
  BY <1>1, EarlierStay, Zenon
<1>5. n + 1 \in EventEnds(M) <=> HasData(L, n + 1)
  <2>1. n + 1 \notin EventEnds(L)
    BY <1>1, EndsIn
  <2> QED
    BY <1>1, <1>4, <2>1
<1>6. ~HasData(M, (n + 1) + 1)
  <2>1. EventAt(Append(L, l), (Len(L) + 1) + 1) =
          IF Len(L) + 1 \in EventEnds(Append(L, l)) THEN Fresh
          ELSE IF l = <<>> THEN EventAt(L, Len(L) + 1)
          ELSE AddField(EventAt(L, Len(L) + 1), l)
    BY PendingGrows
  <2>2. n + 1 \notin EventEnds(M) => EventAt(L, n + 1).data = <<>>
    BY <1>1, <1>5, DataIsPending
  <2>3. EventAt(M, (n + 1) + 1).data = <<>>
    <3>1. Fresh.data = <<>>
      BY DEF Fresh
    <3>2. EventAt(M, (n + 1) + 1) = Fresh \/ EventAt(M, (n + 1) + 1) = EventAt(L, n + 1)
      BY <1>1, <2>1
    <3>3. n + 1 \in EventEnds(M) => EventAt(M, (n + 1) + 1) = Fresh
      BY <1>1, <2>1
    <3> QED
      BY <2>2, <3>1, <3>2, <3>3
  <2>4. EventAt(M, Len(M) + 1).data = <<>> <=> ~HasData(M, Len(M) + 1)
    BY DataIsPending
  <2> QED
    BY <1>1, <2>3, <2>4
<1>7. EventsIn(M, TRUE) = IF HasData(M, Len(M) + 1)
                          THEN Append(EventsIn(M, FALSE), EventAt(M, Len(M) + 1))
                          ELSE EventsIn(M, FALSE)
  BY EventsIs, Zenon
<1>8. EventsIn(M, TRUE) = EventsIn(M, FALSE)
  BY <1>1, <1>6, <1>7
<1> QED
  BY <1>1, <1>2, <1>3, <1>5, <1>8

(* StreamInv is inductive: while the answer is read, the buffer holds what *)
(* is left of the text after its last line end, the parser the event that  *)
(* is open after the complete lines, and the caller has got the events of  *)
(* those lines.                                                            *)
StreamInv ==
  /\ text \in Text
  /\ reading = "on" => /\ buf = RestOf(text)
                       /\ parser = EventAt(LinesOf(text, FALSE), Len(LinesOf(text, FALSE)) + 1)
  /\ StreamIsLossless

LEMMA NothingYet ==
  /\ <<>> \in Text /\ RestOf(<<>>) = <<>> /\ LinesOf(<<>>, FALSE) = <<>>
  /\ EventAt(<<>>, 1) = Fresh /\ EventsIn(<<>>, FALSE) = <<>>
<1>1. PICK t \in Text : t = <<>> /\ Len(t) = 0 /\ DOMAIN t = {}
  <2>1. <<>> \in Text /\ Len(<<>>) = 0 /\ DOMAIN <<>> = {}
    BY EmptyLine
  <2> QED
    BY <2>1
<1>2. LineEnds(t) = {0}
  BY <1>1 DEF LineEnds
<1>3. Max(LineEnds(t)) = 0 /\ Cardinality({0}) = 1
  <2>1. {0} \in SUBSET (0 .. 0) /\ 0 \in {0} /\ \A x \in {0} : x <= 0
    OBVIOUS
  <2> QED
    BY <1>2, <2>1, MaxEquals, FS_Singleton
<1>4. RestOf(t) = <<>>
  BY <1>1, <1>3, SubSeqEmpty DEF RestOf
<1>5. LinesOf(t, FALSE) = <<>>
  <2>1. LinesOf(t, FALSE) = Pieces(t, {0})
    BY <1>2, LinesArePieces
  <2>2. PICK l \in Seq(Text) : l = LinesOf(t, FALSE)
    BY LinesGrow
  <2>3. Pieces(t, {0}) = [k \in 1 .. 0 |-> Piece(t, {0}, k)]
    BY <1>3 DEF Pieces
  <2>4. DOMAIN l = 1 .. 0
    BY <2>1, <2>2, <2>3
  <2>5. Len(l) \in Nat /\ DOMAIN l = 1 .. Len(l)
    BY LenProperties
  <2>6. Len(l) = 0
    BY <2>4, <2>5
  <2> QED
    BY <2>2, <2>6, EmptySeq
<1>6. PICK L \in Seq(Text) : L = <<>> /\ Len(L) = 0 /\ DOMAIN L = {}
  <2>1. <<>> \in Seq(Text) /\ Len(<<>>) = 0 /\ DOMAIN <<>> = {}
    OBVIOUS
  <2> QED
    BY <2>1
<1>7. EventEnds(L) = {}
  BY <1>6 DEF EventEnds, Blank
<1>8. \A s : InOrder(s, {}) = <<>>
  <2>1. {} \in SUBSET (0 .. 0) /\ 0 \in Nat
    OBVIOUS
  <2>2. \A s : (\A i \in {} : s[i] \in Text) => InOrder(s, {}) = <<>>
    BY <2>1, InOrderIs
  <2> QED
    BY <2>2
<1>9. EventsIn(L, FALSE) = <<>>
  BY <1>7, <1>8, EventsIs
<1>10. EventAt(L, 1) = Fresh
  <2>1. \A f : Block(L, 1, f) = {}
    <3>1. 1 \in 1 .. Len(L) + 1 /\ 1 .. 1 - 1 = {}
      BY <1>6
    <3>2. \A f : Block(L, 1, f) \in SUBSET (1 .. 1 - 1)
      BY <3>1, EndsIn
    <3> QED
      BY <3>1, <3>2
  <2> QED
    BY <1>8, <2>1 DEF EventAt, Newest, Fresh
<1> QED
  BY <1>1, <1>4, <1>5, <1>6, <1>9, <1>10

LEMMA StreamInvOff == /\ text = <<>> /\ buf = <<>> /\ parser = Fresh /\ events = <<>>
                      /\ reading \in {"on", "off"}
                      => StreamInv
<1>1. Len(<<>>) + 1 = 1
  OBVIOUS
<1> QED
  BY <1>1, NothingYet DEF StreamInv, StreamIsLossless, EventsOf

LEMMA ReceiveInv == StreamInv /\ Receive => StreamInv'
<1> SUFFICES ASSUME StreamInv, Receive PROVE StreamInv'
  OBVIOUS
<1>1. PICK n \in 1 .. MaxChunk : \E c \in [1 .. n -> Bytes] :
         /\ text' = text \o c /\ buf' = Buffer(buf \o c).rest
         /\ Dispatch(Parse(Buffer(buf \o c).lines), "on")
  BY DEF Receive
<1>2. PICK chunk \in [1 .. n -> Bytes] :
         /\ text' = text \o chunk /\ buf' = Buffer(buf \o chunk).rest
         /\ Dispatch(Parse(Buffer(buf \o chunk).lines), "on")
  BY <1>1
<1>3. chunk \in Text
  <2>1. n \in Nat /\ chunk \in [1 .. n -> Bytes \cup {"?"}]
    BY ChunkAssumption
  <2> QED
    BY <2>1, SeqDef DEF Text
<1>4. /\ reading = "on" /\ text \in Text /\ buf = RestOf(text)
      /\ parser = EventAt(LinesOf(text, FALSE), Len(LinesOf(text, FALSE)) + 1)
      /\ events = EventsIn(LinesOf(text, FALSE), FALSE)
  BY DEF Receive, StreamInv, StreamIsLossless, EventsOf
<1>5. PICK b : b = Buffer(buf \o chunk)
  OBVIOUS
<1>6. /\ text' \in Text /\ b \in BufferType /\ b.rest = RestOf(text')
      /\ LinesOf(text', FALSE) = LinesOf(text, FALSE) \o Stripes(b.lines)
  <2>1. PICK t, u : t \in Text /\ t = text /\ u = text' /\ u = t \o chunk
    BY <1>2, <1>4
  <2>2. b = Buffer(RestOf(t) \o chunk)
    BY <1>4, <1>5, <2>1
  <2>3. PICK c \in Text : c = chunk
    BY <1>3
  <2>4. /\ t \o c \in Text /\ Buffer(RestOf(t) \o c) \in BufferType
        /\ Buffer(RestOf(t) \o c).rest = RestOf(t \o c)
        /\ LinesOf(t \o c, FALSE)
             = LinesOf(t, FALSE) \o Stripes(Buffer(RestOf(t) \o c).lines)
    BY <2>1, BufferAgrees
  <2> QED
    BY <2>1, <2>2, <2>3, <2>4
<1>7. PICK M : M = LinesOf(text', FALSE)
  OBVIOUS
<1>8. PICK p \in ParseType : /\ p = Parse(b.lines) /\ p.state = EventAt(M, Len(M) + 1)
                             /\ events \o p.out = EventsIn(M, FALSE)
  <2>1. PICK L \in Seq(Text), lines \in Seq(Text), e \in Seq(StateType) :
           L = LinesOf(text, FALSE) /\ lines = b.lines /\ e = events
    BY <1>4, <1>6, LinesGrow, EventsBegin DEF BufferType
  <2>2. parser = EventAt(L, Len(L) + 1) /\ e = EventsIn(L, FALSE) /\ M = L \o Stripes(lines)
    BY <1>4, <1>6, <1>7, <2>1
  <2>3. /\ Parse(lines) \in ParseType
        /\ Parse(lines).state = EventAt(L \o Stripes(lines), Len(L \o Stripes(lines)) + 1)
        /\ e \o Parse(lines).out = EventsIn(L \o Stripes(lines), FALSE)
    BY <2>2, ParseAgrees
  <2> QED
    BY <2>1, <2>2, <2>3
<1>9. CASE events' = events \o p.out /\ parser' = p.state /\ reading' = "on"
  BY <1>2, <1>5, <1>6, <1>7, <1>8, <1>9 DEF StreamInv, StreamIsLossless, EventsOf
<1>10. ASSUME NEW k \in DOMAIN p.out, events' = events \o SubSeq(p.out, 1, k), reading' = "broken"
       PROVE  StreamInv'
  <2>1. PICK e \in Seq(StateType), o \in Seq(StateType) : e = events /\ o = p.out
    BY <1>4, EventsBegin DEF ParseType
  <2>2. PICK s \in Seq(StateType) : s = e \o SubSeq(o, 1, k) /\ IsPrefix(s, e \o o)
    BY <1>10, <2>1, PrefixOfConcat
  <2>3. PICK x \in Seq(StateType), y \in Seq(StateType) :
           /\ x = EventsIn(LinesOf(text', FALSE), FALSE) /\ y = EventsIn(LinesOf(text', TRUE), TRUE)
           /\ IsPrefix(x, y)
    BY <1>6, EventsBegin
  <2>4. IsPrefix(s, y)
    BY <1>7, <1>8, <2>1, <2>2, <2>3, PrefixTransitive
  <2> QED
    BY <1>6, <1>10, <2>1, <2>2, <2>3, <2>4 DEF StreamInv, StreamIsLossless, EventsOf
<1> QED
  BY <1>2, <1>5, <1>8, <1>9, <1>10 DEF Dispatch

LEMMA EndOfStreamInv == StreamInv /\ EndOfStream => StreamInv'
<1> SUFFICES ASSUME StreamInv, EndOfStream PROVE StreamInv'
  OBVIOUS
<1>1. /\ reading = "on" /\ text \in Text /\ buf = RestOf(text) /\ text' = text
      /\ parser = EventAt(LinesOf(text, FALSE), Len(LinesOf(text, FALSE)) + 1)
      /\ events = EventsIn(LinesOf(text, FALSE), FALSE)
      /\ Dispatch(Flush(Parse(Trailing)), "done")
  BY DEF EndOfStream, StreamInv, StreamIsLossless, EventsOf
<1>2. PICK L \in Seq(Text), e \in Seq(StateType), r \in Text :
         L = LinesOf(text, FALSE) /\ e = events /\ r = RestOf(text)
  BY <1>1, LinesGrow, EventsBegin, RestText
<1>3. LinesOf(text, TRUE) = Append(L, Stripped(Line(r)))
  BY <1>1, <1>2, LinesGrow
<1>4. parser = EventAt(L, Len(L) + 1) /\ e = EventsIn(L, FALSE)
  BY <1>1, <1>2
<1>5. PICK p, q : /\ p \in ParseType /\ p = Parse(Trailing)
                  /\ q = Flush(p) /\ q.out \in Seq(StateType)
                  /\ e \o q.out = EventsIn(LinesOf(text, TRUE), TRUE)
  <2>1. \A lines \in Seq(Text), M \in Seq(Text) :
           M = L \o Stripes(lines) =>
             /\ Parse(lines) \in ParseType /\ Flush(Parse(lines)).out \in Seq(StateType)
             /\ e \o Flush(Parse(lines)).out = EventsIn(M, TRUE)
    <3> SUFFICES ASSUME NEW lines \in Seq(Text), NEW M \in Seq(Text), M = L \o Stripes(lines)
                 PROVE  /\ Parse(lines) \in ParseType /\ Flush(Parse(lines)).out \in Seq(StateType)
                        /\ e \o Flush(Parse(lines)).out = EventsIn(M, TRUE)
      OBVIOUS
    <3>1. PICK p \in ParseType : /\ p = Parse(lines) /\ p.state = EventAt(M, Len(M) + 1)
                                 /\ e \o p.out = EventsIn(M, FALSE)
      <4>1. /\ Parse(lines) \in ParseType
            /\ Parse(lines).state = EventAt(L \o Stripes(lines), Len(L \o Stripes(lines)) + 1)
            /\ e \o Parse(lines).out = EventsIn(L \o Stripes(lines), FALSE)
        BY <1>4, ParseAgrees
      <4> QED
        BY <4>1
    <3>2. e \o Flush(p).out = EventsIn(M, TRUE) /\ Flush(p).out \in Seq(StateType)
      BY <3>1, FlushAgrees
    <3> QED
      BY <3>1, <3>2
  <2>2. CASE r = <<>>
    <3>1. PICK lines \in Seq(Text) : lines = <<>> /\ lines = Trailing
      BY <1>1, <1>2, <2>2, EmptySeq DEF Trailing
    <3>2. L = L \o Stripes(lines)
      BY <3>1, StripesGrow, ConcatEmptySeq
    <3>3. LinesOf(text, TRUE) = Append(L, <<>>)
      BY <1>3, <2>2, EmptyLine
    <3>4. EventsIn(LinesOf(text, TRUE), TRUE) = EventsIn(L, TRUE)
      BY <3>3, EmptyLineEnds
    <3> QED
      BY <2>1, <3>1, <3>2, <3>4
  <2>3. CASE r # <<>>
    <3>1. PICK x \in Text : x = Line(r)
      BY LineText
    <3>2. PICK lines \in Seq(Text) : lines = <<x>> /\ lines = Trailing
      <4>1. <<x>> \in Seq(Text)
        OBVIOUS
      <4>2. Trailing = <<x>>
        BY <1>1, <1>2, <2>3, <3>1 DEF Trailing
      <4> QED
        BY <4>1, <4>2
    <3>3. Stripes(lines) = <<Stripped(x)>>
      <4>1. lines = Append(<<>>, x) /\ <<>> \in Seq(Text)
        BY <3>2, EmptySeq
      <4>2. Stripes(Append(<<>>, x)) = Append(Stripes(<<>>), Stripped(x))
        BY <4>1, StripesGrow
      <4>3. Append(<<>>, Stripped(x)) = <<Stripped(x)>>
        OBVIOUS
      <4> QED
        BY <4>1, <4>2, <4>3, StripesGrow
    <3>4. PICK y \in Text : y = Stripped(x)
      BY StrippedText
    <3>5. Append(L, y) = L \o <<y>> /\ Append(L, y) \in Seq(Text)
      BY AppendIsConcat, AppendProperties
    <3> QED
      BY <1>3, <2>1, <3>1, <3>2, <3>3, <3>4, <3>5, ZenonT(60)
  <2> QED
    BY <2>2, <2>3
<1>6. CASE events' = events \o q.out /\ reading' = "done"
  BY <1>1, <1>2, <1>5, <1>6 DEF StreamInv, StreamIsLossless, EventsOf
<1>7. ASSUME NEW k \in DOMAIN q.out, events' = events \o SubSeq(q.out, 1, k), reading' = "broken"
      PROVE  StreamInv'
  <2>1. PICK o \in Seq(StateType) : o = q.out
    BY <1>5
  <2>2. IsPrefix(e \o SubSeq(o, 1, k), e \o o)
    BY <1>7, <2>1, PrefixOfConcat
  <2> QED
    BY <1>1, <1>2, <1>5, <1>7, <2>1, <2>2 DEF StreamInv, StreamIsLossless, EventsOf
<1> QED
  BY <1>1, <1>5, <1>6, <1>7 DEF Dispatch

LEMMA StreamInvStep == StreamInv /\ (StreamNext \/ UNCHANGED stream) => StreamInv'
<1> SUFFICES ASSUME StreamInv, StreamNext \/ UNCHANGED stream PROVE StreamInv'
  OBVIOUS
<1>1. CASE Break
  <2>1. events = EventsIn(LinesOf(text, FALSE), FALSE) /\ text \in Text
    BY <1>1 DEF Break, StreamInv, StreamIsLossless, EventsOf
  <2>2. IsPrefix(events, EventsIn(LinesOf(text, TRUE), TRUE))
    BY <2>1, EventsBegin
  <2> QED
    BY <1>1, <2>1, <2>2 DEF Break, StreamInv, StreamIsLossless, EventsOf
<1>2. CASE UNCHANGED stream
  BY <1>2 DEF stream, StreamInv, StreamIsLossless, EventsOf
<1> QED
  BY <1>1, <1>2, ReceiveInv, EndOfStreamInv DEF StreamNext

LEMMA StreamInvInit == Init => StreamInv
<1>1. WaitInit /\ NoStream => StreamInv
  BY StreamInvOff DEF NoStream
<1>2. StreamInit /\ NoWait => StreamInv
  BY StreamInvOff DEF StreamInit
<1> QED
  BY <1>1, <1>2 DEF Init

(* Whatever chunks the network cuts an answer into, of whatever bytes and  *)
(* however many, the caller has got the events of the complete lines, each *)
(* once and in order, at the end of the answer all of its events, and when *)
(* it broke off none that was not sent.                                    *)
THEOREM CaseStreamIsLossless == Spec => []StreamIsLossless
<1>1. StreamInv /\ [Next]_<<waiting, stream>> => StreamInv'
  BY StreamInvStep DEF Next
<1>2. StreamInv => StreamIsLossless
  BY DEF StreamInv
<1> QED
  BY <1>1, <1>2, StreamInvInit, PTL DEF Spec
=============================================================================
