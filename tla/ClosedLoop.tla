----------------------------- MODULE ClosedLoop -----------------------------
(***************************************************************************)
(* drive_closed (perf_harness/drive/scheduler.py): a supervisor keeps as   *)
(* many virtual user loops as the schedule asks for, retiring the newest   *)
(* first; each user sends, thinks and sends again until the stop.          *)
(*                                                                         *)
(* One event loop: a supervisor tick and a user's steps between two awaits *)
(* are atomic, and the users a tick created take their first step before   *)
(* the next tick.  A user loop that has ended is never started again.      *)
(***************************************************************************)
EXTENDS Integers, FiniteSets, Sequences, SequencesExt

CONSTANTS
  MaxUsers,     \* bound on the user loops of the trial
  MaxSent,      \* bound on the requests of the trial
  Trials,       \* the trials: whether the schedule may lower the target, and
                \* whether Workload.judge may raise
  Waits,        \* whether pacing.wait_s is positive: none {FALSE}, constant
                \* {TRUE}, constant_pacing {TRUE, FALSE}
  BreakerOn, BreakerMinN, AbortNum, AbortDen, Graceful  \* as in OpenLoop

ASSUME ClosedAssumption ==
  /\ {MaxUsers, MaxSent, BreakerMinN, AbortNum} \subseteq Nat
  /\ AbortDen \in Nat \ {0}
  /\ Waits \subseteq BOOLEAN /\ Waits # {}
  /\ Trials \subseteq [stepsDown : BOOLEAN, judgeRaises : BOOLEAN]
  /\ {BreakerOn, Graceful} \subseteq BOOLEAN

VARIABLES
  trial,     \* the trial that is run
  loop,      \* "run", "drain", "cancel" or "stopped"; stopping is set after "run"
  late,      \* time.monotonic() has reached the deadline
  target,    \* what the schedule asked for at the last tick
  users,     \* the list the supervisor appends to and pops from
  user,      \* where each user loop is
  count,     \* the requests sent, and how they ended
  inflight,  \* ClientStats.inflight
  stop       \* the TrialStop under construction

vars == <<trial, loop, late, target, users, user, count, inflight, stop>>

Users == 1 .. MaxUsers
In(S) == {u \in Users : user[u] \in S}
Flying == In({"flying", "cutting"})
Live == In({"created", "flying", "thinking"})

NoStop == [reason |-> "none", sent |-> 0, errors |-> 0, atStop |-> 0, interrupted |-> 0]

Init ==
  /\ trial \in Trials
  /\ loop = "run" /\ late = FALSE /\ target = 0
  /\ users = <<>>
  /\ user = [u \in Users |-> "none"]
  /\ count = [sent |-> 0, ok |-> 0, bad |-> 0, lost |-> 0, cut |-> 0]
  /\ inflight = 0
  /\ stop = NoStop

-----------------------------------------------------------------------------
(* Task.cancel: a request in flight is cut at its await, which may take    *)
(* the client some steps to unwind; a thinking user just ends.             *)
CancelAll(S) ==
  user' = [u \in Users |->
             IF u \notin S THEN user[u]
             ELSE CASE user[u] = "flying" -> "cutting"
                    [] user[u] = "thinking" -> "ended"
                    [] OTHER -> user[u]]

(* _breaker_snapshot                                                       *)
Trips ==
  LET n == count.ok + count.bad
  IN BreakerOn /\ n >= BreakerMinN /\ count.bad * AbortDen >= AbortNum * n

AtTick == loop = "run" /\ In({"created"}) = {}

Spawn(n) ==
  LET first == Cardinality(Users \ In({"none"}))
  IN /\ first + n <= MaxUsers
     /\ users' = users \o [i \in 1 .. n |-> first + i]
     /\ user' = [u \in Users |-> IF u \in first + 1 .. first + n THEN "created" ELSE user[u]]

RetireUncancelled(t) ==  \* mutant: popped, but not cancelled
  /\ users' = SubSeq(users, 1, t)
  /\ UNCHANGED user

Retire(t) ==
  /\ users' = SubSeq(users, 1, t)
  /\ CancelAll(ToSet(SubSeq(users, t + 1, Len(users))))

(* A tick that stops nothing.                                              *)
Supervise ==
  /\ AtTick /\ ~late /\ ~Trips
  /\ \E t \in 0 .. MaxUsers :
       /\ trial.stepsDown \/ t >= target
       /\ target' = t
       /\ IF t >= Len(users) THEN Spawn(t - Len(users)) ELSE Retire(t)
  /\ UNCHANGED <<trial, loop, late, count, inflight, stop>>

Clock == ~late /\ late' = TRUE /\ UNCHANGED <<trial, loop, target, users, user, count, inflight, stop>>

-----------------------------------------------------------------------------
GoesOnForever == ~late  \* mutant: the user loop does not look at stopping

(* The head of the user loop.                                              *)
GoesOn == loop = "run" /\ ~late

SendAgain(u, ended) ==
  IF GoesOn
    THEN /\ count.sent < MaxSent
         /\ user' = [user EXCEPT ![u] = "flying"]
         /\ count' = [ended EXCEPT !.sent = @ + 1]
    ELSE user' = [user EXCEPT ![u] = "ended"] /\ count' = ended

(* The user's first step, and the one after its think time or the stop.    *)
UserTurns(u) ==
  /\ user[u] \in {"created", "thinking"}
  /\ SendAgain(u, count)
  /\ inflight' = inflight + (IF GoesOn THEN 1 ELSE 0)
  /\ UNCHANGED <<trial, loop, late, target, users, stop>>

(* A request ends: the outcome is judged, then the user waits or goes on;  *)
(* done() and the next start() are both in this step.                      *)
FireEnds(u) ==
  /\ user[u] = "flying"
  /\ \E v \in {"ok", "bad"}, waits \in Waits :
       LET ended == [count EXCEPT ![v] = @ + 1]
       IN IF waits
            THEN /\ user' = [user EXCEPT ![u] = "thinking"] /\ count' = ended
                 /\ inflight' = inflight - 1
            ELSE SendAgain(u, ended) /\ inflight' = inflight - (IF GoesOn THEN 0 ELSE 1)
  /\ UNCHANGED <<trial, loop, late, target, users, stop>>

(* judge raised: the exception ends the user loop's task.                  *)
JudgeFails(u) ==
  /\ trial.judgeRaises /\ user[u] = "flying"
  /\ user' = [user EXCEPT ![u] = "ended"]
  /\ count' = [count EXCEPT !.lost = @ + 1]
  /\ inflight' = inflight - 1
  /\ UNCHANGED <<trial, loop, late, target, users, stop>>

(* The cancelled request has unwound through _fire's finally clause.       *)
Cut(u) ==
  /\ user[u] = "cutting"
  /\ user' = [user EXCEPT ![u] = "ended"]
  /\ count' = [count EXCEPT !.cut = @ + 1]
  /\ inflight' = inflight - 1
  /\ UNCHANGED <<trial, loop, late, target, users, stop>>

-----------------------------------------------------------------------------
CancelFrom(s) ==
  /\ loop' = "cancel"
  /\ stop' = [s EXCEPT !.interrupted = inflight]
  /\ CancelAll(ToSet(users))

(* _winddown: only the tasks still in the list are drained and cancelled.  *)
WindDown(reason, n, e) ==
  LET s == [NoStop EXCEPT !.reason = reason, !.sent = n, !.errors = e, !.atStop = inflight]
  IN IF Live \cap ToSet(users) # {} /\ Graceful
       THEN loop' = "drain" /\ stop' = s /\ UNCHANGED user
       ELSE CancelFrom(s)

Deadline ==
  /\ AtTick /\ late
  /\ WindDown("deadline", 0, 0)
  /\ UNCHANGED <<trial, late, target, users, count, inflight>>

Break ==
  /\ AtTick /\ ~late /\ Trips
  /\ WindDown("error_rate", count.ok + count.bad, count.bad)
  /\ UNCHANGED <<trial, late, target, users, count, inflight>>

DrainForever ==  \* mutant: the drain has no timeout
  /\ loop = "drain" /\ Live \cap ToSet(users) = {}
  /\ CancelFrom(stop)
  /\ UNCHANGED <<trial, late, target, users, count, inflight>>

DrainEnds ==
  /\ loop = "drain"
  /\ CancelFrom(stop)
  /\ UNCHANGED <<trial, late, target, users, count, inflight>>

Stopped ==
  /\ loop = "cancel" /\ Flying \cap ToSet(users) = {}
  /\ loop' = "stopped"
  /\ UNCHANGED <<trial, late, target, users, user, count, inflight, stop>>

Returned == loop = "stopped" /\ UNCHANGED vars

UserStep(u) == UserTurns(u) \/ FireEnds(u) \/ JudgeFails(u) \/ Cut(u)

Next ==
  \/ Supervise \/ Clock \/ Deadline \/ Break \/ DrainEnds \/ Stopped \/ Returned
  \/ \E u \in Users : UserStep(u)

Spec == Init /\ [][Next]_vars

(* The clock runs and cancellation is delivered; requests need not end.    *)
FairSpec ==
  /\ Spec
  /\ WF_vars(Clock) /\ WF_vars(Deadline \/ Break) /\ WF_vars(DrainEnds) /\ WF_vars(Stopped)
  /\ \A u \in Users : WF_vars(UserTurns(u)) /\ WF_vars(Cut(u))
-----------------------------------------------------------------------------
TypeOK ==
  /\ loop \in {"run", "drain", "cancel", "stopped"} /\ late \in BOOLEAN
  /\ target \in 0 .. MaxUsers
  /\ users \in Seq(Users) /\ IsInjective(users)
  /\ user \in [Users -> {"none", "created", "flying", "thinking", "cutting", "ended"}]
  /\ count \in [{"sent", "ok", "bad", "lost", "cut"} -> 0 .. MaxSent]
  /\ inflight \in 0 .. MaxUsers
  /\ stop \in [reason : {"none", "deadline", "error_rate"}, sent : Nat, errors : Nat,
               atStop : Nat, interrupted : Nat]

(* Nothing is lost or counted twice: the counter is what is in flight, and *)
(* each request sent is judged, lost with its judge, cut or in flight.     *)
Conservation ==
  /\ inflight = Cardinality(Flying)
  /\ count.sent = count.ok + count.bad + count.lost + count.cut + inflight

(* "tracks the Schedule's target concurrency", "never let one fire kill    *)
(* the generator": while the trial runs there are as many user loops as    *)
(* the schedule last asked for, unless a judge that raised ended some.     *)
TargetTracked ==
  loop = "run" /\ ~late => LET n == Cardinality(Live)
                           IN  n = target \/ (n < target /\ count.lost > 0)

(* The census: what the stop interrupted was in flight at the stop, and    *)
(* was cut or still is being cut; it is all that was cut unless users were *)
(* retired before.                                                         *)
CensusAddsUp ==
  loop = "stopped" =>
    /\ stop.interrupted <= stop.atStop /\ stop.interrupted <= count.cut + inflight
    /\ ~trial.stepsDown => stop.interrupted = count.cut

(* The driver's counters and its users, whichever way a request or a user  *)
(* ends: nothing is lost, the target is kept, the census is of the stop.   *)
UsersAddUp == TypeOK /\ Conservation /\ TargetTracked /\ CensusAddsUp

(* The trial stops even if no request ever ends.                           *)
TrialStops == <>(loop = "stopped")

Abstract == INSTANCE LoadTrial
  WITH stage  <- IF loop = "run" THEN "load" ELSE IF loop = "stopped" THEN "rest" ELSE "stop",
       flying <- Cardinality(Flying), done <- count.ok + count.bad + count.lost,
       cut <- count.cut

(* The driver implements the abstract trial, but for one step: users that  *)
(* a falling schedule retired are nobody's to wait for when it returns.    *)
ReturnsBesideRetired ==
  /\ loop = "cancel" /\ loop' = "stopped"
  /\ trial.stepsDown /\ Flying \cap ToSet(users) = {}

ImplementsTrial ==
  Abstract!TrialInit /\ [][Abstract!TrialNext \/ ReturnsBesideRetired]_(Abstract!trialVars)
=============================================================================
