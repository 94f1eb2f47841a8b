------------------------------ MODULE OpenLoop ------------------------------
(***************************************************************************)
(* drive_open (perf_harness/drive/scheduler.py): arrivals at the rate of   *)
(* the schedule, the error-rate breaker, and the wind-down that drains and *)
(* then cancels what is in flight.                                         *)
(*                                                                         *)
(* One event loop: a tick runs from one sleep to the next, and the fires   *)
(* it created take their first step before the sleep is over (asyncio runs *)
(* ready tasks in the order they became ready).  A tick brings any number  *)
(* of arrivals up to MaxBurst: intensity * dt of the schedule.             *)
(***************************************************************************)
EXTENDS Integers, FiniteSets

CONSTANTS
  Fires,        \* the arrivals of the trial
  MaxBurst,     \* bound on the arrivals of one tick
  MaxInflight,  \* LoadProfile.max_inflight, 0 for None
  BreakerOn,    \* abort_on_error_rate is not None
  BreakerMinN,  \* breaker_min_n
  AbortNum, AbortDen,  \* abort_on_error_rate = AbortNum / AbortDen
  Graceful      \* graceful_stop_s > 0

ASSUME OpenAssumption ==
  /\ IsFiniteSet(Fires)
  /\ MaxBurst \in Nat /\ MaxInflight \in Nat /\ BreakerMinN \in Nat
  /\ AbortNum \in Nat /\ AbortDen \in Nat \ {0}
  /\ BreakerOn \in BOOLEAN /\ Graceful \in BOOLEAN

VARIABLES
  loop,      \* "run", "drain", "cancel" or "stopped"
  fire,      \* where each arrival is
  inflight,  \* ClientStats.inflight
  stop       \* the TrialStop under construction

vars == <<loop, fire, inflight, stop>>

In(S) == {f \in Fires : fire[f] \in S}
Unissued == In({"none"})

(* ctx.stats counts between start() and done(): a created task is neither. *)
Flying == In({"flying", "cutting"})
Judged == In({"ok", "bad"})

NoStop == [reason |-> "none", sent |-> 0, errors |-> 0, atStop |-> 0, interrupted |-> 0]

Init ==
  /\ loop = "run"
  /\ fire = [f \in Fires |-> "none"]
  /\ inflight = 0
  /\ stop = NoStop

-----------------------------------------------------------------------------
AtTick == loop = "run" /\ In({"created"}) = {}

TripsOnDrops ==  \* mutant: drops count as sent and failed
  LET n == Cardinality(In({"ok", "bad", "drop"}))
      e == Cardinality(In({"bad", "drop"}))
  IN BreakerOn /\ n >= BreakerMinN /\ e * AbortDen >= AbortNum * n

(* _breaker_snapshot: n = 0 is the code's 0 / 0 when breaker_min_n is 0.   *)
Trips ==
  LET n == Cardinality(Judged)
      e == Cardinality(In({"bad"}))
  IN BreakerOn /\ n >= BreakerMinN /\ e * AbortDen >= AbortNum * n

Shed == MaxInflight > 0 /\ inflight >= MaxInflight

Issue(S) ==
  fire' = [f \in Fires |-> IF f \in S THEN IF Shed THEN "drop" ELSE "created" ELSE fire[f]]

TickUncapped ==  \* mutant: max_inflight is not looked at
  /\ AtTick /\ ~Trips
  /\ \E S \in SUBSET Unissued :
       /\ Cardinality(S) \in 1 .. MaxBurst
       /\ fire' = [f \in Fires |-> IF f \in S THEN "created" ELSE fire[f]]
  /\ UNCHANGED <<loop, inflight, stop>>

(* A tick that stops nothing; inflight does not move while it issues.      *)
Tick ==
  /\ AtTick /\ ~Trips
  /\ \E S \in SUBSET Unissued : Cardinality(S) \in 1 .. MaxBurst /\ Issue(S)
  /\ UNCHANGED <<loop, inflight, stop>>

(* _fire up to its await, ...                                              *)
FireStarts(f) ==
  /\ fire[f] = "created"
  /\ fire' = [fire EXCEPT ![f] = "flying"]
  /\ inflight' = inflight + 1
  /\ UNCHANGED <<loop, stop>>

(* ... and from it: fire() returned or raised, and the outcome is judged.  *)
(* A judge that raises ends the task with no outcome: "lost".              *)
FireEnds(f) ==
  /\ fire[f] = "flying"
  /\ \E v \in {"ok", "bad", "lost"} : fire' = [fire EXCEPT ![f] = v]
  /\ inflight' = inflight - 1
  /\ UNCHANGED <<loop, stop>>

-----------------------------------------------------------------------------
(* The survivors are counted and cancelled in one go.                      *)
CancelFrom(s) ==
  /\ loop' = "cancel"
  /\ stop' = [s EXCEPT !.interrupted = inflight]
  /\ fire' = [f \in Fires |-> IF fire[f] = "flying" THEN "cutting" ELSE fire[f]]

(* _winddown from the driver's break to its first await.                   *)
WindDown(reason, n, e) ==
  LET s == [NoStop EXCEPT !.reason = reason, !.sent = n, !.errors = e, !.atStop = inflight]
  IN IF inflight > 0 /\ Graceful
       THEN loop' = "drain" /\ stop' = s /\ UNCHANGED fire
       ELSE CancelFrom(s)

Deadline ==
  /\ AtTick
  /\ WindDown("deadline", 0, 0)
  /\ UNCHANGED inflight

Break ==
  /\ AtTick /\ Trips
  /\ WindDown("error_rate", Cardinality(Judged), Cardinality(In({"bad"})))
  /\ UNCHANGED inflight

DrainForever ==  \* mutant: the drain has no timeout
  /\ loop = "drain" /\ Flying = {}
  /\ CancelFrom(stop)
  /\ UNCHANGED inflight

(* Every task is done, or graceful_stop_s is over.                         *)
DrainEnds ==
  /\ loop = "drain"
  /\ CancelFrom(stop)
  /\ UNCHANGED inflight

(* A cancelled fire: CancelledError passes through _fire, done() is in the *)
(* finally clause, no outcome is appended.                                 *)
Cut(f) ==
  /\ fire[f] = "cutting"
  /\ fire' = [fire EXCEPT ![f] = "cut"]
  /\ inflight' = inflight - 1
  /\ UNCHANGED <<loop, stop>>

StopUnwaited ==  \* mutant: the cancelled tasks are not awaited
  /\ loop = "cancel"
  /\ loop' = "stopped"
  /\ UNCHANGED <<fire, inflight, stop>>

Stopped ==
  /\ loop = "cancel" /\ Flying = {}
  /\ loop' = "stopped"
  /\ UNCHANGED <<fire, inflight, stop>>

Returned == loop = "stopped" /\ UNCHANGED vars

FireStep(f) == FireStarts(f) \/ FireEnds(f) \/ Cut(f)

Next ==
  \/ Tick \/ Deadline \/ Break \/ DrainEnds \/ Stopped \/ Returned
  \/ \E f \in Fires : FireStep(f)

Spec == Init /\ [][Next]_vars

(* The clock runs and cancellation is delivered; requests need not end.    *)
FairSpec ==
  /\ Spec
  /\ WF_vars(Deadline \/ Break) /\ WF_vars(DrainEnds) /\ WF_vars(Stopped)
  /\ \A f \in Fires : WF_vars(FireStarts(f)) /\ WF_vars(Cut(f))
-----------------------------------------------------------------------------
TypeOK ==
  /\ loop \in {"run", "drain", "cancel", "stopped"}
  /\ fire \in [Fires -> {"none", "created", "drop", "flying", "ok", "bad", "lost", "cutting", "cut"}]
  /\ inflight \in 0 .. Cardinality(Fires)
  /\ stop \in [reason : {"none", "deadline", "error_rate"}, sent : Nat, errors : Nat,
               atStop : Nat, interrupted : Nat]

(* The counter the cap and the census read is the number of requests in    *)
(* flight, on every way out of a fire: done, raised, cancelled.            *)
InflightMatches == inflight = Cardinality(Flying)

(* The census adds up once the load is at rest: what was in flight at the  *)
(* stop ended in the drain or is counted as interrupted, the interrupted   *)
(* requests are the ones that were cut, and none is left.                  *)
CensusAddsUp ==
  loop = "stopped" =>
    /\ stop.interrupted = Cardinality(In({"cut"})) /\ stop.interrupted <= stop.atStop
    /\ In({"created", "flying", "cutting"}) = {} /\ inflight = 0

(* A trial that was aborted really had the error rate: over requests that  *)
(* were sent and judged, at least breaker_min_n of them, drops left out.   *)
AbortIsJustified ==
  stop.reason = "error_rate" =>
    /\ stop.sent >= BreakerMinN /\ stop.sent <= Cardinality(Judged)
    /\ stop.errors <= Cardinality(In({"bad"}))
    /\ stop.errors * AbortDen >= AbortNum * stop.sent

(* The driver's counters, whichever way its requests end: what is in       *)
(* flight, what the stop found and cut, and what the breaker divided.      *)
CountersAddUp == TypeOK /\ InflightMatches /\ CensusAddsUp /\ AbortIsJustified

(* How far the cap can be overshot: by one tick's arrivals, no more.       *)
OverCapByABurst ==
  MaxInflight > 0 =>
    Cardinality(Flying \cup In({"created"})) <= MaxInflight - 1 + MaxBurst

(* The trial stops even if no request ever ends.                           *)
TrialStops == <>(loop = "stopped")

Abstract == INSTANCE LoadTrial
  WITH stage  <- IF loop = "run" THEN "load" ELSE IF loop = "stopped" THEN "rest" ELSE "stop",
       flying <- Cardinality(Flying), done <- Cardinality(In({"ok", "bad", "lost"})),
       cut <- Cardinality(In({"cut"}))
ImplementsTrial == Abstract!TrialSpec
=============================================================================
