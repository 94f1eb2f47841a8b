------------------------------ MODULE PerfRun -------------------------------
(***************************************************************************)
(* Engine.run and Engine._run_trial (perf_harness/engine.py): the sweep    *)
(* over the arms, the lifecycle of one trial (setup, measurement,          *)
(* deactivate, cooldown, observer, cleanup), the run gate and the verdict. *)
(*                                                                         *)
(* The driver of the measurement is LoadTrial, the abstract trial that     *)
(* OpenLoop and ClosedLoop implement, with ClosedLoop's exception: it may  *)
(* return beside cancelled requests of users that a falling schedule       *)
(* retired.  Its steps interleave with the engine's.  Every hook (deploy,  *)
(* setup, deactivate, the observer, cleanup, teardown) returns, raises an  *)
(* Exception ("error"), or lets a BaseException through ("fatal": a        *)
(* cancelled task, Ctrl-C).                                                *)
(***************************************************************************)
EXTENDS Naturals, Sequences, SequencesExt

CONSTANTS
  Arms,        \* number of arms of the sweep
  Profile,     \* the resource profile of each arm
  Deploys,     \* a deployer is configured
  Teardown,    \* Experiment.teardown
  CooldownOn,  \* cooldown_s > 0
  Slo,         \* the windows the SLOs look at: "measurement", "cooldown"
  Closed,      \* load.model: users go on by themselves, arrivals do not
  StepsDown,   \* of each arm: its schedule falls, so a closed loop retires users
  MaxFires     \* bound on the requests of one trial

ASSUME PerfAssumption ==
  /\ Arms \in Nat /\ MaxFires \in Nat /\ DOMAIN Profile = 1 .. Arms
  /\ StepsDown \in [1 .. Arms -> BOOLEAN]
  /\ Slo \subseteq {"measurement", "cooldown"}
  /\ {Deploys, Teardown, CooldownOn, Closed} \subseteq BOOLEAN

VARIABLES
  options,    \* the gates asked for: "strict_slo", "abort_on_fail"; fixed
  phase,      \* where Engine.run is
  arm,        \* the arm at hand
  applied,    \* the profile deployed last, 0 for None
  at,         \* _TrialExecution.phase
  errors,     \* _TrialExecution.phase_errors
  fatal,      \* fatal_error is set
  cooled,     \* the cooldown window was closed
  observing,  \* the observer task runs
  reason,     \* TrialStop.reason
  trials,     \* the records so far
  passed,     \* the run gate
  result,     \* how Engine.run ends: "run", "error" or "fatal"
  stage, flying, done, cut, \* the driver of the trial at hand, see LoadTrial
  left        \* cancelled requests that their driver returned beside

engine == <<options, phase, arm, applied, at, errors, fatal, cooled, observing, reason, trials, passed, result>>
driver == <<stage, flying, done, cut, left>>
vars == <<engine, driver>>

Load == INSTANCE LoadTrial

Outcomes == {"ok", "error", "fatal"}
InTrial == {"setup", "measurement", "deactivate", "cooldown", "observer", "cleanup"}
Ended == {"written", "raised"}

Init ==
  /\ options \in SUBSET {"strict_slo", "abort_on_fail"}
  /\ phase = "next" /\ arm = 1 /\ applied = 0
  /\ at = "setup" /\ errors = <<>> /\ fatal = FALSE /\ cooled = FALSE
  /\ observing = FALSE /\ reason = "aborted"
  /\ trials = <<>> /\ passed = TRUE /\ result = "run"
  /\ Load!TrialInit /\ left = 0

-----------------------------------------------------------------------------
(* The sweep: the head of the loop over the arms.  A new driver counts     *)
(* from 0; nothing looks at what an earlier one left.                      *)
NextArm ==
  /\ phase = "next"
  /\ phase' = IF arm > Arms THEN "teardown"
              ELSE IF Deploys /\ Profile[arm] # applied THEN "deploy" ELSE "setup"
  /\ at' = "setup" /\ errors' = <<>> /\ cooled' = FALSE /\ reason' = "aborted"
  /\ stage' = "load" /\ flying' = 0 /\ done' = 0 /\ cut' = 0
  /\ UNCHANGED <<options, arm, applied, fatal, observing, trials, passed, result, left>>

Deploy ==
  /\ phase = "deploy"
  /\ \E o \in Outcomes :
       IF o = "ok"
         THEN phase' = "setup" /\ applied' = Profile[arm] /\ UNCHANGED result
         ELSE phase' = "teardown" /\ result' = o /\ UNCHANGED applied
  /\ UNCHANGED <<options, arm, at, errors, fatal, cooled, observing, reason, trials, passed, driver>>

-----------------------------------------------------------------------------
(* execution.record and the except clauses: where a hook's outcome leaves  *)
(* the diagnostics of the trial.                                           *)
Noted(o, where) ==
  /\ errors' = IF o = "error" THEN Append(errors, where) ELSE errors
  /\ fatal' = (fatal \/ o = "fatal")

(* The first finally step: the observer, when there is one.                *)
Finally == IF observing THEN "observer" ELSE "cleanup"

SetupOutside ==  \* mutant: setup is called before the try
  /\ phase = "setup"
  /\ \E o \in Outcomes :
       IF o = "ok"
         THEN phase' = "measurement" /\ at' = "measurement" /\ observing' = TRUE /\ UNCHANGED result
         ELSE phase' = "teardown" /\ result' = o /\ UNCHANGED <<at, observing>>
  /\ UNCHANGED <<options, arm, applied, errors, fatal, cooled, reason, trials, passed, driver>>

Setup ==
  /\ phase = "setup"
  /\ \E o \in Outcomes :
       /\ Noted(o, at)
       /\ IF o = "ok"
            THEN phase' = "measurement" /\ at' = "measurement" /\ observing' = TRUE
            ELSE phase' = Finally /\ UNCHANGED <<at, observing>>
  /\ UNCHANGED <<options, arm, applied, cooled, reason, trials, passed, result, driver>>

(* The end of drive_closed when a falling schedule has retired users: it   *)
(* gathered the users still in its list, not the ones popped and cancelled *)
(* before, whose requests are still unwinding.                             *)
RestBesideRetired ==
  /\ Closed /\ StepsDown[arm]
  /\ stage = "stop" /\ stage' = "rest"
  /\ flying' = 0 /\ left' = left + flying
  /\ UNCHANGED <<done, cut>>

(* One of them has unwound, in whatever phase of whatever trial.           *)
Unwind == left > 0 /\ left' = left - 1 /\ UNCHANGED <<engine, stage, flying, done, cut>>

(* The driver's own steps, bounded by MaxFires.  A driver that was         *)
(* cancelled leaves its tasks behind: requests complete, and the users of  *)
(* a closed loop send again; nobody drains or cancels them.                *)
Drive ==
  /\ IF phase = "measurement"
       THEN (Load!TrialNext /\ UNCHANGED left) \/ RestBesideRetired
       ELSE phase \in InTrial \ {"setup"} /\ stage # "rest" /\ UNCHANGED left
            /\ \/ Load!Complete
               \/ Closed /\ Load!CompleteAndDispatch
               \/ Closed /\ done > 0 /\ Load!Dispatch
  /\ done' + flying' + cut' <= MaxFires
  /\ UNCHANGED engine

(* drive returns its TrialStop.                                            *)
Driven ==
  /\ phase = "measurement" /\ stage = "rest"
  /\ reason' \in {"deadline", "error_rate"}
  /\ phase' = "deactivate" /\ at' = "deactivate"
  /\ UNCHANGED <<options, arm, applied, errors, fatal, cooled, observing, trials, passed, result, driver>>

(* drive raises: weights of a mix that are all 0 before the first request, *)
(* or the run is cancelled at any time.                                    *)
DriveRaises ==
  /\ phase = "measurement"
  /\ \/ stage = "load" /\ flying + done = 0 /\ Noted("error", at)
     \/ Noted("fatal", at)
  /\ phase' = Finally
  /\ UNCHANGED <<options, arm, applied, at, cooled, observing, reason, trials, passed, result, driver>>

Deactivate ==
  /\ phase = "deactivate"
  /\ \E o \in Outcomes :
       /\ Noted(o, at)
       /\ IF o = "ok" /\ CooldownOn
            THEN phase' = "cooldown" /\ at' = "cooldown"
            ELSE phase' = Finally /\ UNCHANGED at
  /\ UNCHANGED <<options, arm, applied, cooled, observing, reason, trials, passed, result, driver>>

Cooldown ==
  /\ phase = "cooldown"
  /\ \E o \in {"ok", "fatal"} : Noted(o, at)
  /\ phase' = Finally
  /\ UNCHANGED <<options, arm, applied, at, cooled, observing, reason, trials, passed, result, driver>>

ObserverUnstopped ==  \* mutant: the stop event is not set, the observer samples on
  /\ phase = "observer"
  /\ UNCHANGED vars

(* stop.set() and await observer; the cooldown window closes only here,    *)
(* and only if the cooldown was entered.                                   *)
Observer ==
  /\ phase = "observer"
  /\ \E o \in Outcomes :
       /\ Noted(o, at)
       /\ cooled' = (o = "ok" /\ at = "cooldown")
  /\ phase' = "cleanup" /\ observing' = FALSE
  /\ UNCHANGED <<options, arm, applied, at, reason, trials, passed, result, driver>>

CleanupHidesFatal ==  \* mutant: a cleanup error is recorded although the run is interrupted
  /\ phase = "cleanup"
  /\ \E o \in Outcomes :
       /\ Noted(o, "cleanup")
       /\ IF fatal' /\ o # "error" THEN phase' = "teardown" /\ result' = "fatal"
                                   ELSE phase' = "record" /\ UNCHANGED result
  /\ UNCHANGED <<options, arm, applied, at, cooled, observing, reason, trials, passed, driver>>

(* cleanup is always tried; a fatal error wins over what it raises.        *)
Cleanup ==
  /\ phase = "cleanup"
  /\ \E o \in Outcomes :
       /\ Noted(IF fatal THEN "ok" ELSE o, "cleanup")
       /\ IF fatal' THEN phase' = "teardown" /\ result' = "fatal"
                    ELSE phase' = "record" /\ UNCHANGED result
  /\ UNCHANGED <<options, arm, applied, at, cooled, observing, reason, trials, passed, driver>>

-----------------------------------------------------------------------------
(* evaluate_slo: the checks of a trial; a window that is not there, or a   *)
(* metric missing in it, skips the check.                                  *)
Checks ==
  {c \in [Slo -> {"pass", "fail", "skipped"}] :
     "cooldown" \in Slo /\ ~cooled => c["cooldown"] = "skipped"}

(* A check that fails the run gate.                                        *)
Fails(c) ==
  \E w \in DOMAIN c : c[w] = "fail" \/ (c[w] = "skipped" /\ ("strict_slo" \in options \/ w = "cooldown"))

Failed(t) == t.reason # "deadline" \/ t.errors # <<>> \/ Fails(t.checks)

ContinueUnlessAsked(t) == "abort_on_fail" \in options /\ Failed(t)  \* mutant: the sweep goes on after an error

StopsSweep(t) == t.errors # <<>> \/ ("abort_on_fail" \in options /\ Failed(t))

(* _aggregate, the SLOs, the gate and the decision to go on; describe and  *)
(* summarize of the workload and the probes run here, outside every try.   *)
Record ==
  /\ phase = "record"
  /\ \E c \in IF errors = <<>> THEN Checks ELSE {<<>>} :
       LET t == [errors |-> errors, reason |-> reason, checks |-> c]
       IN /\ trials' = Append(trials, t)
          /\ passed' = (passed /\ ~Failed(t))
          /\ phase' = IF StopsSweep(t) THEN "teardown" ELSE "next"
  /\ arm' = arm + 1
  /\ UNCHANGED <<options, applied, at, errors, fatal, cooled, observing, reason, result, driver>>

RecordRaises ==
  /\ phase = "record"
  /\ phase' = "teardown" /\ result' = "error"
  /\ UNCHANGED <<options, arm, applied, at, errors, fatal, cooled, observing, reason, trials, passed, driver>>

(* The finally clause of Engine.run, then write_run of the CLI.            *)
End ==
  /\ phase = "teardown"
  /\ \E o \in IF Teardown /\ Deploys THEN Outcomes ELSE {"ok"} :
       /\ result' = IF o = "ok" THEN result ELSE o
       /\ phase' = IF result' = "run" THEN "written" ELSE "raised"
  /\ UNCHANGED <<options, arm, applied, at, errors, fatal, cooled, observing, reason, trials, passed, driver>>

Over == phase \in Ended /\ UNCHANGED vars

Step == NextArm \/ Deploy \/ Setup \/ Driven \/ Deactivate \/ Cooldown \/ Observer \/ Cleanup
        \/ Record \/ End

Next == Step \/ Drive \/ Unwind \/ DriveRaises \/ RecordRaises \/ Over

Spec == Init /\ [][Next]_vars

(* Hooks return, and the driver stops (TrialStops of OpenLoop, ClosedLoop).*)
DriverStops == phase = "measurement" /\ (Load!Stop \/ Load!Cancel \/ Load!Rest) /\ UNCHANGED <<engine, left>>

FairSpec == Spec /\ WF_vars(Step) /\ WF_vars(DriverStops)
-----------------------------------------------------------------------------
(* _build of perf_harness/verdict.py.                                      *)
Verdict ==
  LET some(s) == \E i \in DOMAIN trials : \E w \in DOMAIN trials[i].checks : trials[i].checks[w] = s
      early == \E i \in DOMAIN trials : trials[i].reason # "deadline"
      unseen == \E i \in DOMAIN trials :
                  "cooldown" \in DOMAIN trials[i].checks /\ trials[i].checks["cooldown"] = "skipped"
  IN IF \E i \in DOMAIN trials : trials[i].errors # <<>> THEN "error"
     ELSE IF early \/ some("fail") \/ unseen THEN "fail"
     ELSE IF some("pass") THEN "pass" ELSE "skipped"

TypeOK ==
  /\ options \subseteq {"strict_slo", "abort_on_fail"}
  /\ phase \in InTrial \cup Ended \cup {"next", "deploy", "record", "teardown"}
  /\ arm \in 1 .. Arms + 1 /\ at \in InTrial
  /\ errors \in Seq(InTrial) /\ Len(errors) <= 3
  /\ {fatal, cooled, observing, passed} \subseteq BOOLEAN
  /\ reason \in {"aborted", "deadline", "error_rate"} /\ result \in {"run", "error", "fatal"}
  /\ Len(trials) <= Arms /\ stage \in {"load", "stop", "rest"}
  /\ {flying, done, cut} \subseteq 0 .. MaxFires /\ left \in Nat

(* An arm starts from a testbed as clean as the code gives it: no earlier  *)
(* trial has a phase error, no observer of one is left, and no request of  *)
(* one either unless an earlier arm ran a closed loop on a falling         *)
(* schedule.  Cleanup of a trial that was not interrupted finds no request *)
(* in flight, but for such ones of this arm or of an earlier one.          *)
LeftBy(n) == left = 0 \/ (Closed /\ \E i \in 1 .. Arms : i <= n /\ StepsDown[i])

CleanBaseline ==
  /\ phase \in {"deploy", "setup"} =>
       /\ ~observing /\ flying = 0 /\ LeftBy(arm - 1)
       /\ \A i \in DOMAIN trials : trials[i].errors = <<>>
  /\ phase = "cleanup" /\ ~fatal => flying = 0 /\ LeftBy(arm)

(* perf-contract.md: cleanup is always tried.  Whatever raises, the only   *)
(* way out of a trial that was begun is its cleanup.                       *)
AlwaysCleansUp == [][(phase \in InTrial /\ phase' \notin InTrial) => phase = "cleanup"]_vars

(* Control flow is control flow: an interrupted run is not reported as a   *)
(* finished one, whatever the observer or the cleanup raises after it.     *)
InterruptPropagates == phase = "written" => ~fatal /\ result = "run"

(* The exit code and the verdict agree (with strict_slo only one way: the  *)
(* recorded verdict does not turn a skip into a failure).                  *)
GateIsVerdict ==
  phase = "written" =>
    /\ Verdict \in {"fail", "error"} => ~passed
    /\ ~passed /\ "strict_slo" \notin options => Verdict \in {"fail", "error"}

(* A pass is earned: every arm was measured to its deadline without an     *)
(* error, nothing it was checked for failed, and recovery was observed.    *)
(* With strict_slo the run must pass too: a skipped check then fails the   *)
(* run and may end the sweep, but does not show in the verdict.            *)
PassIsEarned ==
  phase = "written" /\ Verdict = "pass" /\ (passed \/ "strict_slo" \notin options) =>
    /\ Len(trials) = Arms
    /\ \A i \in DOMAIN trials :
         /\ trials[i].reason = "deadline" /\ trials[i].errors = <<>>
         /\ \A w \in Slo : trials[i].checks[w] # "fail"
         /\ "cooldown" \in Slo => trials[i].checks["cooldown"] = "pass"

(* The exit code and the verdict of a run that ended, strict or not:       *)
(* they agree, a pass was earned, and an interrupt is neither.             *)
VerdictIsEarned == TypeOK /\ InterruptPropagates /\ GateIsVerdict /\ PassIsEarned

(* The sweep ends when the hooks return.                                   *)
RunEnds == <>(phase \in Ended)
=============================================================================
