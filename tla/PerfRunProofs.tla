--------------------------- MODULE PerfRunProofs ----------------------------
(***************************************************************************)
(* Safety of the performance engine, for every number of arms, every       *)
(* resource profile, every SLO and every bound on the requests of a trial: *)
(* an arm starts clean, cleanup is always tried, an interrupt propagates,  *)
(* the gate and the verdict agree and a pass is earned.                    *)
(*                                                                         *)
(* PerfInv is the inductive invariant.  It adds what each phase of a trial *)
(* may have behind it: how many errors, the observer, the requests in      *)
(* flight, and whose requests a driver returned beside; and what the       *)
(* records say of the gate and of the sweep.                               *)
(***************************************************************************)
EXTENDS PerfRun, TLAPS

Observed == {"measurement", "deactivate", "cooldown", "observer"}
Scores == {"pass", "fail", "skipped"}
Trial == [errors : Seq(InTrial), reason : {"aborted", "deadline", "error_rate"},
          checks : [Slo -> Scores] \cup {<<>>}]

(* One record for each arm behind, each with checks unless it has errors.  *)
Recorded ==
  /\ trials \in Seq(Trial) /\ Len(trials) = arm - 1
  /\ phase \in InTrial \cup {"deploy", "record"} => arm <= Arms
  /\ \A i \in DOMAIN trials :
       IF trials[i].errors = <<>> THEN trials[i].checks \in [Slo -> Scores]
                                  ELSE trials[i].checks = <<>>

(* A hook that raised sends the trial to its finally clause, so at most    *)
(* one error is noted before it, and then one by the observer and one by   *)
(* cleanup.                                                                *)
FewErrors ==
  /\ phase \in {"deploy", "setup", "measurement", "deactivate", "cooldown"} => errors = <<>>
  /\ phase = "observer" => Len(errors) <= 1
  /\ phase = "cleanup" => Len(errors) <= 2

(* The observer runs exactly from the end of setup to its finally step.    *)
ObserverRuns ==
  IF phase \in Observed THEN observing = TRUE ELSE observing = FALSE

(* A trial that was not interrupted has no request in flight once its      *)
(* driver returned or raised, and nothing that could send one.             *)
Quiet ==
  /\ stage = "rest" => flying = 0
  /\ phase \in {"deploy", "setup"} => stage = "load" /\ flying = 0 /\ done = 0
  /\ phase \in {"deactivate", "cooldown"} => stage = "rest"
  /\ phase \in {"observer", "cleanup", "record", "next"} /\ ~fatal =>
       flying = 0 /\ (stage = "rest" \/ done = 0)

(* A driver returns beside retired users' requests only in an arm whose    *)
(* schedule falls, so before an arm is measured they are an earlier one's. *)
Behind == IF phase \in {"next", "deploy", "setup"} THEN arm - 1 ELSE arm
Leftovers == LeftBy(Behind)

(* An interrupt is on its way to the end of the run.                       *)
Interrupt ==
  /\ fatal => phase \in {"observer", "cleanup", "teardown", "raised"}
  /\ fatal /\ phase = "teardown" => result # "run"
  /\ phase \notin {"teardown", "raised"} => result = "run"

(* The gate is the conjunction of the records, and the sweep goes on only  *)
(* past records that do not stop it.                                       *)
Gate ==
  /\ passed = (\A i \in DOMAIN trials : ~Failed(trials[i]))
  /\ phase \notin {"teardown", "written", "raised"} =>
       \A i \in DOMAIN trials : ~StopsSweep(trials[i])
  /\ phase \in {"teardown", "written"} /\ result = "run" =>
       arm = Arms + 1 \/ \E i \in DOMAIN trials : StopsSweep(trials[i])

PerfInv == TypeOK /\ Recorded /\ FewErrors /\ ObserverRuns /\ Quiet /\ Leftovers /\ Interrupt /\ Gate

-----------------------------------------------------------------------------
(* What a hook's outcome leaves in the diagnostics of the trial.           *)
LEMMA NotedIs ==
  ASSUME errors \in Seq(InTrial), fatal \in BOOLEAN, NEW o, NEW where \in InTrial, Noted(o, where)
  PROVE  /\ errors' \in Seq(InTrial) /\ Len(errors') <= Len(errors) + 1
         /\ fatal' \in BOOLEAN /\ (o # "fatal" => fatal' = fatal)
         /\ (o # "error" => errors' = errors)
<1>1. CASE o = "error"
  <2>1. errors' = Append(errors, where)
    BY <1>1 DEF Noted
  <2>2. errors' \in Seq(InTrial) /\ Len(errors') = Len(errors) + 1
    BY <2>1
  <2> QED
    BY <1>1, <2>2 DEF Noted
<1>2. CASE o # "error"
  BY <1>2 DEF Noted
<1> QED
  BY <1>1, <1>2

LEMMA Empty == <<>> \in Seq(InTrial) /\ Len(<<>>) = 0 /\ {0} \subseteq 0 .. MaxFires
  BY PerfAssumption

LEMMA Bounded ==
  ASSUME NEW a \in Nat, NEW b \in Nat, NEW c \in Nat, a + b + c <= MaxFires
  PROVE  {b, a, c} \subseteq 0 .. MaxFires
<1>1. a \in 0 .. MaxFires /\ b \in 0 .. MaxFires /\ c \in 0 .. MaxFires
  BY PerfAssumption
<1> QED
  BY <1>1

LEMMA TypeInit == Init => TypeOK
<1> SUFFICES ASSUME Init PROVE TypeOK
  OBVIOUS
<1>1. errors \in Seq(InTrial) /\ Len(errors) <= 3 /\ Len(trials) <= Arms
  BY Empty, PerfAssumption DEF Init
<1>2. arm \in 1 .. Arms + 1 /\ {flying, done, cut} \subseteq 0 .. MaxFires
  BY Empty, PerfAssumption DEF Init, Load!TrialInit
<1> QED
  BY <1>1, <1>2 DEF Init, Load!TrialInit, TypeOK, InTrial

(* What a hook leaves behind in a trial of a state of the invariant.       *)
LEMMA HookNotes ==
  ASSUME PerfInv, NEW o, NEW where \in InTrial, Noted(o, where)
  PROVE  /\ errors' \in Seq(InTrial) /\ Len(errors') <= Len(errors) + 1
         /\ fatal' \in BOOLEAN /\ (o # "fatal" => fatal' = fatal)
         /\ (o # "error" => errors' = errors)
         /\ errors = <<>> => Len(errors) = 0
<1>1. errors \in Seq(InTrial) /\ fatal \in BOOLEAN
  BY DEF PerfInv, TypeOK
<1> QED
  BY <1>1, NotedIs, Empty

LEMMA DriveMoves ==
  ASSUME TypeOK, Drive
  PROVE  /\ flying' \in Nat /\ done' \in Nat /\ cut' \in Nat /\ stage' \in {"load", "stop", "rest"}
         /\ left' \in Nat
<1>1. /\ flying \in Nat /\ done \in Nat /\ cut \in Nat /\ stage \in {"load", "stop", "rest"}
      /\ left \in Nat
  BY PerfAssumption DEF TypeOK
<1>2. CASE Load!Dispatch /\ UNCHANGED left
  BY <1>1, <1>2 DEF Load!Dispatch
<1>3. CASE Load!Complete /\ UNCHANGED left
  BY <1>1, <1>3 DEF Load!Complete
<1>4. CASE Load!CompleteAndDispatch /\ UNCHANGED left
  BY <1>1, <1>4 DEF Load!CompleteAndDispatch
<1>5. CASE Load!Cancel /\ UNCHANGED left
  BY <1>1, <1>5 DEF Load!Cancel
<1>6. CASE (Load!Stop \/ Load!Rest) /\ UNCHANGED left
  BY <1>1, <1>6 DEF Load!Stop, Load!Rest
<1>7. CASE RestBesideRetired
  BY <1>1, <1>7 DEF RestBesideRetired
<1> QED
  BY <1>2, <1>3, <1>4, <1>5, <1>6, <1>7 DEF Drive, Load!TrialNext

(* Of the type, only the diagnostics and the counters need care.           *)
LEMMA TypeStep == PerfInv /\ [Next]_vars => TypeOK'
<1> SUFFICES ASSUME PerfInv, [Next]_vars PROVE TypeOK'
  OBVIOUS
<1>0. TypeOK /\ Recorded /\ FewErrors
  BY DEF PerfInv
<1> USE PerfAssumption DEF TypeOK, InTrial, Ended, Outcomes
<1>1. CASE NextArm
  <2>1. errors' \in Seq(InTrial) /\ Len(errors') <= 3
    BY <1>1, Empty DEF NextArm
  <2>2. {flying', done', cut'} \subseteq 0 .. MaxFires
    BY <1>1, Empty DEF NextArm
  <2> QED
    BY <1>0, <1>1, <2>1, <2>2 DEF NextArm
<1>2. CASE Deploy
  BY <1>0, <1>2 DEF Deploy, driver
<1>3. CASE Setup
  <2>1. errors' \in Seq(InTrial) /\ Len(errors') <= 3 /\ fatal' \in BOOLEAN
    BY <1>0, <1>3, HookNotes DEF FewErrors, Setup
  <2> QED
    BY <1>0, <1>3, <2>1 DEF Setup, Finally, driver
<1>4. CASE Driven
  BY <1>0, <1>4 DEF Driven, driver
<1>5. CASE Deactivate
  <2>1. errors' \in Seq(InTrial) /\ Len(errors') <= 3 /\ fatal' \in BOOLEAN
    BY <1>0, <1>5, HookNotes DEF FewErrors, Deactivate
  <2> QED
    BY <1>0, <1>5, <2>1 DEF Deactivate, Finally, driver
<1>6. CASE Cooldown
  <2>1. errors' \in Seq(InTrial) /\ Len(errors') <= 3 /\ fatal' \in BOOLEAN
    BY <1>0, <1>6, HookNotes DEF FewErrors, Cooldown
  <2> QED
    BY <1>0, <1>6, <2>1 DEF Cooldown, Finally, driver
<1>7. CASE Observer
  <2>1. errors' \in Seq(InTrial) /\ Len(errors') <= 3 /\ fatal' \in BOOLEAN
    BY <1>0, <1>7, HookNotes DEF FewErrors, Observer
  <2> QED
    BY <1>0, <1>7, <2>1 DEF Observer, driver
<1>8. CASE Cleanup
  <2>1. errors' \in Seq(InTrial) /\ Len(errors') <= 3 /\ fatal' \in BOOLEAN
    BY <1>0, <1>8, HookNotes DEF FewErrors, Cleanup
  <2> QED
    BY <1>0, <1>8, <2>1 DEF Cleanup, driver
<1>9. CASE Record
  <2>1. arm <= Arms /\ arm' = arm + 1 /\ Len(trials) = arm - 1
    BY <1>0, <1>9 DEF Record, Recorded
  <2>2. PICK t : trials' = Append(trials, t)
    BY <1>9 DEF Record
  <2>3. Len(trials') <= Arms
    BY <1>0, <2>1, <2>2 DEF Recorded
  <2>4. passed' \in BOOLEAN /\ phase' \in {"teardown", "next"}
    BY <1>9 DEF Record
  <2> QED
    BY <1>0, <1>9, <2>1, <2>3, <2>4 DEF Record, driver
<1>10. CASE End
  BY <1>0, <1>10 DEF End, driver
<1>11. CASE Drive
  <2>1. {flying', done', cut'} \subseteq 0 .. MaxFires /\ stage' \in {"load", "stop", "rest"} /\ left' \in Nat
    <3>2. /\ flying' \in Nat /\ done' \in Nat /\ cut' \in Nat /\ stage' \in {"load", "stop", "rest"}
          /\ left' \in Nat
      BY <1>0, <1>11, DriveMoves
    <3>3. done' + flying' + cut' <= MaxFires
      BY <1>11 DEF Drive
    <3> QED
      BY <3>2, <3>3, Bounded
  <2> QED
    BY <1>0, <1>11, <2>1 DEF Drive, engine
<1>12. CASE DriveRaises
  <2>1. errors' \in Seq(InTrial) /\ Len(errors') <= 3 /\ fatal' \in BOOLEAN
    BY <1>0, <1>12, HookNotes DEF FewErrors, DriveRaises
  <2> QED
    BY <1>0, <1>12, <2>1 DEF DriveRaises, Finally, driver
<1>13. CASE RecordRaises
  BY <1>0, <1>13 DEF RecordRaises, driver
<1>14. CASE UNCHANGED vars
  BY <1>0, <1>14 DEF vars, engine, driver
<1>15. CASE Unwind
  BY <1>0, <1>15 DEF Unwind, engine
<1> QED
  BY <1>1, <1>2, <1>3, <1>4, <1>5, <1>6, <1>7, <1>8, <1>9, <1>10, <1>11, <1>12, <1>13, <1>14, <1>15
     DEF Next, Step, Over

-----------------------------------------------------------------------------
(* A hook notes one error at most, and then the trial is in its finally.   *)
LEMMA ErrorsStep == PerfInv /\ [Next]_vars => FewErrors'
<1> SUFFICES ASSUME PerfInv, [Next]_vars PROVE FewErrors'
  OBVIOUS
<1>0. FewErrors /\ TypeOK /\ ObserverRuns
  BY DEF PerfInv
<1>1. errors \in Seq(InTrial) /\ at \in InTrial /\ "cleanup" \in InTrial
      /\ (errors = <<>> => Len(errors) = 0)
  BY <1>0, Empty DEF TypeOK, InTrial
<1> USE DEF FewErrors
<1>2. CASE NextArm
  BY <1>2 DEF NextArm
<1>3. CASE Deploy \/ Driven \/ Record \/ RecordRaises \/ End
  BY <1>0, <1>3 DEF Deploy, Driven, Record, RecordRaises, End
<1>4. CASE Setup \/ Deactivate
  <2>1. PICK o \in Outcomes : Noted(o, at) /\ (o # "ok" => phase' = Finally)
    BY <1>4 DEF Setup, Deactivate
  <2>2. Len(errors') <= 1 /\ (o = "ok" => errors' = <<>>)
    BY <1>0, <1>1, <1>4, <2>1, HookNotes DEF Setup, Deactivate
  <2>3. phase' = Finally \/ (phase' \in {"measurement", "cooldown"} /\ o = "ok")
    BY <1>4, <2>1 DEF Setup, Deactivate
  <2> QED
    BY <2>2, <2>3 DEF Finally
<1>5. CASE DriveRaises \/ Cooldown
  <2>1. PICK o \in Outcomes : Noted(o, at)
    BY <1>5 DEF DriveRaises, Cooldown, Outcomes
  <2>2. Len(errors') <= 1
    BY <1>0, <1>1, <1>5, <2>1, HookNotes DEF DriveRaises, Cooldown
  <2> QED
    BY <1>5, <2>2 DEF DriveRaises, Cooldown, Finally
<1>6. CASE Observer
  <2>1. Len(errors') <= 2
    BY <1>0, <1>1, <1>6, HookNotes DEF Observer
  <2> QED
    BY <1>6, <2>1 DEF Observer
<1>7. CASE Cleanup
  BY <1>7 DEF Cleanup
<1>8. CASE Drive \/ Unwind \/ UNCHANGED vars
  BY <1>0, <1>8 DEF Drive, Unwind, vars, engine
<1> QED
  BY <1>2, <1>3, <1>4, <1>5, <1>6, <1>7, <1>8 DEF Next, Step, Over

LEMMA ObserverStep == PerfInv /\ [Next]_vars => ObserverRuns'
<1> SUFFICES ASSUME PerfInv, [Next]_vars PROVE ObserverRuns'
  OBVIOUS
<1>0. ObserverRuns /\ observing \in BOOLEAN
  BY DEF PerfInv, TypeOK
<1> USE DEF ObserverRuns, Observed
<1>1. CASE NextArm \/ Deploy \/ Cleanup \/ Record \/ RecordRaises \/ End
  BY <1>0, <1>1 DEF NextArm, Deploy, Cleanup, Record, RecordRaises, End, Ended
<1>2. CASE Setup \/ Driven \/ Deactivate \/ Cooldown \/ DriveRaises
  BY <1>0, <1>2 DEF Setup, Driven, Deactivate, Cooldown, DriveRaises, Finally
<1>3. CASE Observer
  BY <1>3 DEF Observer
<1>4. CASE Drive \/ Unwind \/ UNCHANGED vars
  BY <1>0, <1>4 DEF Drive, Unwind, vars, engine
<1> QED
  BY <1>1, <1>2, <1>3, <1>4 DEF Next, Step, Over

LEMMA InterruptStep == PerfInv /\ [Next]_vars => Interrupt'
<1> SUFFICES ASSUME PerfInv, [Next]_vars PROVE Interrupt'
  OBVIOUS
<1>0. Interrupt /\ ObserverRuns /\ TypeOK
  BY DEF PerfInv
<1>1. errors \in Seq(InTrial) /\ at \in InTrial /\ "cleanup" \in InTrial
  BY <1>0 DEF TypeOK, InTrial
<1> USE DEF Interrupt
<1>2. CASE NextArm \/ Deploy \/ Driven \/ Record \/ RecordRaises \/ End
  BY <1>0, <1>2 DEF NextArm, Deploy, Driven, Record, RecordRaises, End, Outcomes
<1>3. CASE Setup \/ Deactivate \/ Cooldown
  <2>1. PICK o \in Outcomes : Noted(o, at) /\ (o # "ok" => phase' = Finally)
    BY <1>3 DEF Setup, Deactivate, Cooldown, Outcomes
  <2>2. o = "ok" => fatal' = fatal
    BY <1>1, <2>1, HookNotes
  <2> QED
    BY <1>0, <1>3, <2>1, <2>2 DEF Setup, Deactivate, Cooldown, Finally
<1>4. CASE DriveRaises
  BY <1>0, <1>4 DEF DriveRaises, Finally
<1>5. CASE Observer
  BY <1>0, <1>5 DEF Observer
<1>6. CASE Cleanup
  BY <1>0, <1>6 DEF Cleanup
<1>7. CASE Drive \/ Unwind \/ UNCHANGED vars
  BY <1>0, <1>7 DEF Drive, Unwind, vars, engine
<1> QED
  BY <1>2, <1>3, <1>4, <1>5, <1>6, <1>7 DEF Next, Step, Over

(* The driver moves after its trial only if it was interrupted: otherwise  *)
(* it rests, or it raised before its first request.                        *)
LEMMA QuietStep == PerfInv /\ [Next]_vars => Quiet'
<1> SUFFICES ASSUME PerfInv, [Next]_vars PROVE Quiet'
  OBVIOUS
<1>0. Quiet /\ TypeOK /\ Interrupt
  BY DEF PerfInv
<1>1. errors \in Seq(InTrial) /\ at \in InTrial /\ "cleanup" \in InTrial /\ fatal \in BOOLEAN
      /\ flying \in Nat /\ done \in Nat /\ cut \in Nat
  BY <1>0, PerfAssumption DEF TypeOK, InTrial
<1> USE DEF Quiet
<1>2. CASE NextArm
  BY <1>2 DEF NextArm
<1>3. CASE Deploy \/ Driven \/ Record \/ RecordRaises \/ End
  BY <1>0, <1>3 DEF Deploy, Driven, Record, RecordRaises, End, driver
<1>4. CASE Setup \/ Deactivate \/ Cooldown
  BY <1>0, <1>4 DEF Setup, Deactivate, Cooldown, Finally, driver
<1>5. CASE DriveRaises
  <2>1. (stage = "load" /\ flying = 0 /\ done = 0) \/ fatal'
    <3>1. CASE Noted("fatal", at)
      BY <3>1 DEF Noted
    <3>2. CASE stage = "load" /\ flying + done = 0
      BY <1>1, <3>2
    <3> QED
      BY <1>5, <3>1, <3>2 DEF DriveRaises
  <2> QED
    BY <1>0, <1>5, <2>1 DEF DriveRaises, Finally, driver
<1>6. CASE Observer
  <2>1. fatal => fatal'
    <3>1. PICK o \in Outcomes : Noted(o, at)
      BY <1>6 DEF Observer
    <3> QED
      BY <3>1, <1>1 DEF Noted
  <2> QED
    BY <1>0, <1>6, <2>1 DEF Observer, driver
<1>7. CASE Cleanup
  <2>1. fatal => fatal'
    BY <1>7, <1>1 DEF Cleanup, Noted
  <2> QED
    BY <1>0, <1>7, <2>1 DEF Cleanup, driver
<1>8. CASE Drive
  <2>1. phase' = phase /\ fatal' = fatal
    BY <1>8 DEF Drive, engine
  <2>2. CASE phase = "measurement"
    <3>1. Load!TrialNext \/ RestBesideRetired
      BY <1>8, <2>2 DEF Drive
    <3>2. stage' = "rest" => flying' = 0
      BY <1>0, <1>1, <3>1 DEF RestBesideRetired, Load!TrialNext, Load!Dispatch, Load!Complete,
         Load!CompleteAndDispatch, Load!Cancel, Load!Stop, Load!Rest
    <3> QED
      BY <2>1, <2>2, <3>2
  <2>3. CASE phase # "measurement"
    <3>1. phase \in InTrial \ {"setup", "measurement"} /\ stage # "rest"
      BY <1>8, <2>3 DEF Drive
    <3>2. stage' = stage /\ (flying > 0 \/ done > 0)
      BY <1>8, <2>3 DEF Drive, Load!Complete, Load!CompleteAndDispatch, Load!Dispatch
    <3>3. phase \in {"observer", "cleanup"} /\ fatal
      BY <1>0, <1>1, <3>1, <3>2 DEF InTrial
    <3> QED
      BY <2>1, <3>1, <3>2, <3>3
  <2> QED
    BY <2>2, <2>3
<1>9. CASE Unwind \/ UNCHANGED vars
  BY <1>0, <1>9 DEF Unwind, vars, engine, driver
<1> QED
  BY <1>2, <1>3, <1>4, <1>5, <1>6, <1>7, <1>8, <1>9 DEF Next, Step, Over

(* Only a driver adds to what is left, in an arm whose schedule falls.     *)
LEMMA LeftoversStep == PerfInv /\ [Next]_vars => Leftovers'
<1> SUFFICES ASSUME PerfInv, [Next]_vars PROVE Leftovers'
  OBVIOUS
<1>0. Leftovers /\ TypeOK /\ Recorded
  BY DEF PerfInv
<1>1. arm \in Nat /\ left \in Nat /\ StepsDown \in [1 .. Arms -> BOOLEAN]
  BY <1>0, PerfAssumption DEF TypeOK
<1>m. ASSUME left' # 0 => left # 0, arm' \in Nat, Behind <= Behind' PROVE Leftovers'
  <2>1. CASE left' = 0
    BY <2>1 DEF Leftovers, LeftBy
  <2>2. CASE left' # 0
    <3>1. Closed
      BY <1>0, <1>m, <2>2 DEF Leftovers, LeftBy
    <3>2. PICK i \in 1 .. Arms : i <= Behind /\ StepsDown[i]
      BY <1>0, <1>m, <2>2 DEF Leftovers, LeftBy
    <3>3. Behind \in Int /\ Behind' \in Int /\ i \in Int
      BY <1>1, <1>m, PerfAssumption DEF Behind
    <3>4. i <= Behind'
      BY <1>m, <3>2, <3>3
    <3> QED
      BY <3>1, <3>2, <3>4 DEF Leftovers, LeftBy
  <2> QED
    BY <2>1, <2>2
<1>2. CASE Record
  <2>1. left' = left /\ arm' = arm + 1 /\ phase = "record"
    BY <1>2 DEF Record, driver
  <2> QED
    BY <1>1, <1>m, <2>1 DEF Behind
<1>3. CASE NextArm \/ Deploy \/ Setup \/ Driven \/ Deactivate \/ Cooldown
  <2>1. left' = left /\ arm' = arm /\ (phase' \in {"next", "deploy", "setup"} => phase \in {"next", "deploy"})
    BY <1>3 DEF NextArm, Deploy, Setup, Driven, Deactivate, Cooldown, Finally, driver
  <2> QED
    BY <1>1, <1>m, <2>1 DEF Behind
<1>4. CASE Observer \/ Cleanup \/ RecordRaises \/ End \/ DriveRaises
  <2>1. left' = left /\ arm' = arm /\ phase' \notin {"next", "deploy", "setup"}
    BY <1>4 DEF Observer, Cleanup, RecordRaises, End, DriveRaises, Finally, driver
  <2> QED
    BY <1>1, <1>m, <2>1 DEF Behind
<1>5. CASE Drive
  <2>1. UNCHANGED <<phase, arm>>
    BY <1>5 DEF Drive, engine
  <2>2. CASE UNCHANGED left
    BY <1>1, <1>m, <2>1, <2>2 DEF Behind
  <2>3. CASE RestBesideRetired /\ phase = "measurement"
    <3>1. Closed /\ StepsDown[arm] /\ arm \in 1 .. Arms
      BY <1>0, <2>3 DEF RestBesideRetired, Recorded, TypeOK, InTrial
    <3> QED
      BY <1>1, <2>1, <2>3, <3>1 DEF Leftovers, LeftBy, Behind
  <2> QED
    BY <1>5, <2>2, <2>3 DEF Drive
<1>6. CASE Unwind \/ UNCHANGED vars
  <2>1. (left' # 0 => left # 0) /\ UNCHANGED <<arm, phase>>
    BY <1>1, <1>6 DEF Unwind, vars, engine, driver
  <2> QED
    BY <1>1, <1>m, <2>1 DEF Behind
<1> QED
  BY <1>2, <1>3, <1>4, <1>5, <1>6 DEF Next, Step, Over

-----------------------------------------------------------------------------
(* What Record appends.                                                    *)
LEMMA RecordAppends ==
  ASSUME PerfInv, Record
  PROVE  \E t \in Trial :
           /\ trials' = Append(trials, t) /\ passed' = (passed /\ ~Failed(t))
           /\ phase' = (IF StopsSweep(t) THEN "teardown" ELSE "next")
           /\ IF t.errors = <<>> THEN t.checks \in [Slo -> Scores] ELSE t.checks = <<>>
           /\ trials' \in Seq(Trial) /\ Len(trials') = Len(trials) + 1
           /\ \A i \in DOMAIN trials' :
                (i \in DOMAIN trials /\ trials'[i] = trials[i]) \/ (i = Len(trials) + 1 /\ trials'[i] = t)
           /\ DOMAIN trials \subseteq DOMAIN trials'
           /\ Len(trials) + 1 \in DOMAIN trials'
<1>0. TypeOK /\ Recorded
  BY DEF PerfInv
<1>1. PICK c \in IF errors = <<>> THEN Checks ELSE {<<>>} :
        LET t == [errors |-> errors, reason |-> reason, checks |-> c]
        IN /\ trials' = Append(trials, t)
           /\ passed' = (passed /\ ~Failed(t))
           /\ phase' = IF StopsSweep(t) THEN "teardown" ELSE "next"
  BY DEF Record
<1> DEFINE t == [errors |-> errors, reason |-> reason, checks |-> c]
<1>2. IF errors = <<>> THEN c \in [Slo -> Scores] ELSE c = <<>>
  BY <1>1 DEF Checks, Scores
<1>3. t \in Trial
  BY <1>0, <1>2 DEF Trial, TypeOK
<1>4. /\ trials' = Append(trials, t) /\ passed' = (passed /\ ~Failed(t))
      /\ phase' = (IF StopsSweep(t) THEN "teardown" ELSE "next")
  BY <1>1
<1>5. IF t.errors = <<>> THEN t.checks \in [Slo -> Scores] ELSE t.checks = <<>>
  BY <1>2
<1> HIDE DEF t
<1>6. trials \in Seq(Trial)
  BY <1>0 DEF Recorded
<1>7. /\ trials' \in Seq(Trial) /\ Len(trials') = Len(trials) + 1
      /\ \A i \in DOMAIN trials' :
           (i \in DOMAIN trials /\ trials'[i] = trials[i]) \/ (i = Len(trials) + 1 /\ trials'[i] = t)
      /\ DOMAIN trials \subseteq DOMAIN trials'
      /\ Len(trials) + 1 \in DOMAIN trials'
  BY <1>3, <1>4, <1>6
<1> QED
  BY <1>3, <1>4, <1>5, <1>7

LEMMA RecordedStep == PerfInv /\ [Next]_vars => Recorded'
<1> SUFFICES ASSUME PerfInv, [Next]_vars PROVE Recorded'
  OBVIOUS
<1>0. Recorded /\ TypeOK /\ ObserverRuns
  BY DEF PerfInv
<1> USE DEF Recorded
<1>1. CASE NextArm
  BY <1>0, <1>1, PerfAssumption DEF NextArm, TypeOK, InTrial
<1>2. CASE Record
  <2>1. trials' \in Seq(Trial) /\ Len(trials') = Len(trials) + 1 /\ arm' = arm + 1
    BY <1>2, RecordAppends DEF Record
  <2>2. \A i \in DOMAIN trials' :
          IF trials'[i].errors = <<>> THEN trials'[i].checks \in [Slo -> Scores]
                                      ELSE trials'[i].checks = <<>>
    BY <1>0, <1>2, RecordAppends
  <2>3. Len(trials') = arm' - 1
    BY <1>0, <2>1, PerfAssumption DEF TypeOK
  <2>4. phase' \in {"teardown", "next"}
    BY <1>2 DEF Record
  <2> QED
    BY <2>1, <2>2, <2>3, <2>4 DEF InTrial
<1>3. CASE Deploy \/ Setup \/ Driven \/ Deactivate \/ Cooldown
  BY <1>0, <1>3 DEF Deploy, Setup, Driven, Deactivate, Cooldown, InTrial
<1>4. CASE DriveRaises \/ Observer \/ Cleanup \/ RecordRaises \/ End
  BY <1>0, <1>4 DEF DriveRaises, Observer, Cleanup, RecordRaises, End, Finally, InTrial
<1>5. CASE Drive \/ Unwind \/ UNCHANGED vars
  BY <1>0, <1>5 DEF Drive, Unwind, vars, engine
<1> QED
  BY <1>1, <1>2, <1>3, <1>4, <1>5 DEF Next, Step, Over

(* The gate after a step that writes no record.                            *)
LEMMA GateKept ==
  ASSUME PerfInv, UNCHANGED <<options, trials, passed>>,
         phase' \notin {"teardown", "written", "raised"} =>
           phase \notin {"teardown", "written", "raised"},
         phase' \in {"teardown", "written"} /\ result' = "run" =>
           arm' = Arms + 1 \/ \E i \in DOMAIN trials : StopsSweep(trials[i])
  PROVE  Gate'
<1>1. Gate
  BY DEF PerfInv
<1>2. \A t : (Failed(t) <=> Failed(t)') /\ (StopsSweep(t) <=> StopsSweep(t)')
  BY DEF Failed, StopsSweep, Fails
<1> QED
  BY <1>1, <1>2 DEF Gate

LEMMA GateStep == PerfInv /\ [Next]_vars => Gate'
<1> SUFFICES ASSUME PerfInv, [Next]_vars PROVE Gate'
  OBVIOUS
<1>0. Gate /\ TypeOK /\ Interrupt /\ Recorded
  BY DEF PerfInv
<1>1. CASE NextArm
  <2>1. phase' = "teardown" => arm' = Arms + 1
    BY <1>0, <1>1, PerfAssumption DEF NextArm, TypeOK
  <2> QED
    BY <1>1, <2>1, GateKept DEF NextArm
<1>2. CASE Deploy
  BY <1>2, GateKept DEF Deploy, Outcomes
<1>3. CASE Setup \/ Driven \/ Deactivate \/ Cooldown \/ DriveRaises \/ Observer
  BY <1>3, GateKept DEF Setup, Driven, Deactivate, Cooldown, DriveRaises, Observer, Finally
<1>4. CASE Cleanup \/ RecordRaises
  BY <1>4, GateKept DEF Cleanup, RecordRaises
<1>5. CASE End
  <2>1. phase' = "written" => result' = result
    BY <1>5 DEF End, Outcomes
  <2> QED
    BY <1>0, <1>5, <2>1, GateKept DEF End, Gate
<1>6. CASE Drive \/ Unwind \/ UNCHANGED vars
  BY <1>0, <1>6, GateKept DEF Drive, Unwind, vars, engine, Gate
<1>7. CASE Record
  <2>1. PICK t \in Trial :
          /\ passed' = (passed /\ ~Failed(t))
          /\ phase' = (IF StopsSweep(t) THEN "teardown" ELSE "next")
          /\ \A i \in DOMAIN trials' :
               (i \in DOMAIN trials /\ trials'[i] = trials[i]) \/ (i = Len(trials) + 1 /\ trials'[i] = t)
          /\ DOMAIN trials \subseteq DOMAIN trials' /\ Len(trials) + 1 \in DOMAIN trials'
          /\ trials' = Append(trials, t)
    BY <1>7, RecordAppends
  <2>2. phase = "record" /\ options' = options
    BY <1>7 DEF Record
  <2>3. \A u : (Failed(u)' <=> Failed(u)) /\ (StopsSweep(u)' <=> StopsSweep(u))
    BY <2>2 DEF Failed, StopsSweep, Fails
  <2>4. \A i \in DOMAIN trials : trials'[i] = trials[i]
    BY <1>0, <2>1 DEF Recorded
  <2>5. trials'[Len(trials) + 1] = t
    BY <1>0, <2>1 DEF Recorded
  <2>6. passed' = (\A i \in DOMAIN trials' : ~Failed(trials'[i]))
    BY <1>0, <2>1, <2>4, <2>5 DEF Gate
  <2>7. ~StopsSweep(t) => \A i \in DOMAIN trials' : ~StopsSweep(trials'[i])
    BY <1>0, <2>1, <2>2 DEF Gate
  <2>8. StopsSweep(t) => \E i \in DOMAIN trials' : StopsSweep(trials'[i])
    BY <2>1, <2>5
  <2> QED
    BY <2>1, <2>3, <2>6, <2>7, <2>8 DEF Gate
<1> QED
  BY <1>1, <1>2, <1>3, <1>4, <1>5, <1>6, <1>7 DEF Next, Step, Over

-----------------------------------------------------------------------------
LEMMA PerfInit == Init => PerfInv
<1> SUFFICES ASSUME Init PROVE PerfInv
  OBVIOUS
<1>1. Recorded
  BY PerfAssumption DEF Init, Recorded, InTrial
<1>2. FewErrors /\ ObserverRuns /\ Quiet /\ Leftovers /\ Interrupt
  BY DEF Init, Load!TrialInit, FewErrors, ObserverRuns, Observed, Quiet, Leftovers, LeftBy, Interrupt
<1>3. Gate
  BY DEF Init, Gate
<1> QED
  BY <1>1, <1>2, <1>3, TypeInit DEF PerfInv

LEMMA PerfStep == PerfInv /\ [Next]_vars => PerfInv'
  BY TypeStep, RecordedStep, ErrorsStep, ObserverStep, QuietStep, LeftoversStep, InterruptStep, GateStep
     DEF PerfInv

LEMMA PerfInvariant == Spec => []PerfInv
  BY PerfInit, PerfStep, PTL DEF Spec

(* An arm starts from a clean testbed: no error and no observer of an      *)
(* earlier trial is left, and no request of one but cancelled requests of  *)
(* users that an earlier closed loop on a falling schedule retired; so too *)
(* for what cleanup of a trial that was not interrupted finds in flight.   *)
THEOREM PerfCleanBaseline == Spec => []CleanBaseline
<1>1. PerfInv => CleanBaseline
  <2> SUFFICES ASSUME PerfInv PROVE CleanBaseline
    OBVIOUS
  <2>1. phase \in {"deploy", "setup"} => \A i \in DOMAIN trials : trials[i].errors = <<>>
    BY DEF PerfInv, Gate, StopsSweep
  <2>2. phase \in {"deploy", "setup"} => ~observing
    BY DEF PerfInv, ObserverRuns, Observed
  <2> QED
    BY <2>1, <2>2 DEF CleanBaseline, PerfInv, Quiet, Leftovers, Behind
<1> QED
  BY <1>1, PerfInvariant, PTL

(* Cleanup is always tried: no step leaves a trial from another phase.     *)
THEOREM PerfAlwaysCleansUp == Spec => AlwaysCleansUp
<1>1. [Next]_vars => [(phase \in InTrial /\ phase' \notin InTrial) => phase = "cleanup"]_vars
  <2> SUFFICES ASSUME Next, phase \in InTrial, phase' \notin InTrial PROVE phase = "cleanup"
    BY DEF vars
  <2>1. CASE NextArm \/ Deploy \/ Setup \/ Driven \/ Deactivate \/ Cooldown \/ Observer
    BY <2>1 DEF NextArm, Deploy, Setup, Driven, Deactivate, Cooldown, Observer, Finally, InTrial
  <2>2. CASE Cleanup \/ Record \/ RecordRaises \/ End \/ DriveRaises
    BY <2>2 DEF Cleanup, Record, RecordRaises, End, DriveRaises, Finally, InTrial
  <2>3. CASE Drive \/ Unwind \/ Over
    BY <2>3 DEF Drive, Unwind, Over, vars, engine
  <2> QED
    BY <2>1, <2>2, <2>3 DEF Next, Step
<1> QED
  BY <1>1, PTL DEF Spec, AlwaysCleansUp

-----------------------------------------------------------------------------
(* A record the verdict counts against the run, and the verdict in terms   *)
(* of it.                                                                  *)
Against(t) ==
  \/ t.errors # <<>> \/ t.reason # "deadline"
  \/ \E w \in DOMAIN t.checks : t.checks[w] = "fail"
  \/ "cooldown" \in DOMAIN t.checks /\ t.checks["cooldown"] = "skipped"

LEMMA VerdictIs ==
  /\ Verdict \in {"fail", "error"} <=> \E i \in DOMAIN trials : Against(trials[i])
  /\ Verdict = "pass" => \A i \in DOMAIN trials : ~Against(trials[i])
  BY DEF Verdict, Against

(* What fails the gate, in terms of what the verdict counts.               *)
LEMMA FailedIs ==
  ASSUME NEW t
  PROVE  /\ Against(t) => Failed(t)
         /\ Failed(t) /\ "strict_slo" \notin options => Against(t)
<1>1. Against(t) => Failed(t)
  BY DEF Against, Failed, Fails
<1>2. Failed(t) /\ "strict_slo" \notin options => Against(t)
  BY DEF Against, Failed, Fails
<1> QED
  BY <1>1, <1>2

LEMMA GateAgrees == PerfInv => GateIsVerdict
<1> SUFFICES ASSUME PerfInv PROVE GateIsVerdict
  OBVIOUS
<1>1. passed = (\A i \in DOMAIN trials : ~Failed(trials[i])) /\ passed \in BOOLEAN
  BY DEF PerfInv, Gate, TypeOK
<1>2. Verdict \in {"fail", "error"} => ~passed
  BY <1>1, VerdictIs, FailedIs
<1>3. ~passed /\ "strict_slo" \notin options => Verdict \in {"fail", "error"}
  BY <1>1, VerdictIs, FailedIs
<1> QED
  BY <1>2, <1>3 DEF GateIsVerdict

(* A sweep with a pass was not cut short: what stops it fails the run or   *)
(* counts against it.                                                      *)
LEMMA PassEarned == PerfInv => PassIsEarned
<1> SUFFICES ASSUME PerfInv, phase = "written", Verdict = "pass",
                    passed \/ "strict_slo" \notin options
             PROVE  /\ Len(trials) = Arms
                    /\ \A i \in DOMAIN trials :
                         /\ trials[i].reason = "deadline" /\ trials[i].errors = <<>>
                         /\ \A w \in Slo : trials[i].checks[w] # "fail"
                         /\ "cooldown" \in Slo => trials[i].checks["cooldown"] = "pass"
  BY DEF PassIsEarned
<1>0. Recorded /\ Gate /\ Interrupt /\ TypeOK
  BY DEF PerfInv
<1>1. \A i \in DOMAIN trials : ~Against(trials[i])
  BY VerdictIs
<1>2. \A i \in DOMAIN trials : ~Failed(trials[i])
  BY <1>0, <1>1, FailedIs DEF Gate, TypeOK
<1>3. arm = Arms + 1
  <2>1. \A i \in DOMAIN trials : ~StopsSweep(trials[i])
    BY <1>1, <1>2 DEF StopsSweep, Against
  <2>2. result = "run"
    BY <1>0 DEF Interrupt
  <2> QED
    BY <1>0, <2>1, <2>2 DEF Gate
<1>4. Len(trials) = Arms
  BY <1>0, <1>3, PerfAssumption DEF Recorded
<1>5. ASSUME NEW i \in DOMAIN trials
      PROVE  /\ trials[i].reason = "deadline" /\ trials[i].errors = <<>>
             /\ \A w \in Slo : trials[i].checks[w] # "fail"
             /\ "cooldown" \in Slo => trials[i].checks["cooldown"] = "pass"
  <2>1. trials[i].reason = "deadline" /\ trials[i].errors = <<>>
    BY <1>1 DEF Against
  <2>2. trials[i].checks \in [Slo -> Scores]
    BY <1>0, <2>1 DEF Recorded
  <2> QED
    BY <1>1, <2>1, <2>2 DEF Against, Scores
<1> QED
  BY <1>4, <1>5

(* What an ended run says, strict or not: an interrupt propagates, the     *)
(* exit code and the verdict agree, and a pass was earned by every arm.    *)
THEOREM PerfVerdictIsEarned == Spec => []VerdictIsEarned
<1>1. PerfInv => InterruptPropagates
  BY DEF PerfInv, Interrupt, InterruptPropagates
<1>2. PerfInv => VerdictIsEarned
  BY <1>1, GateAgrees, PassEarned DEF VerdictIsEarned, PerfInv
<1> QED
  BY <1>2, PerfInvariant, PTL

=============================================================================
