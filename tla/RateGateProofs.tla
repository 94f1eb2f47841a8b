--------------------------- MODULE RateGateProofs ---------------------------
(***************************************************************************)
(* What TLAPS proves of the rate gate, for every number of coroutines,     *)
(* every range of limits and every number of attempts.                     *)
(*                                                                         *)
(* TypeOK is not inductive: `tries` stays in range only because a task     *)
(* that may still fail has an attempt left (AttemptLeft).  The wake-up     *)
(* property needs the exact slot count (SlotsMatchHolders) and MinLimit    *)
(* >= 1: a task waits only if inflight >= limit >= 1, so there is a holder.*)
(***************************************************************************)
EXTENDS RateGate, FiniteSetTheorems, TLAPS

AttemptLeft ==
  \A t \in Tasks :
    pc[t] \in {"arrive", "acquireQ", "cooldown", "waiting", "calling", "backoff"}
      => tries[t] < MaxAttempts

TypeInv == TypeOK /\ AttemptLeft

-----------------------------------------------------------------------------
(* Halving a limit never leaves MinLimit .. MaxLimit (RateGate.on_error).  *)
LEMMA HalvingInRange ==
  ASSUME limit \in MinLimit .. MaxLimit
  PROVE  Larger(MinLimit, limit \div 2) \in MinLimit .. MaxLimit
  BY GateAssumption DEF Larger

(* The two ways fn() ends keep the gate's numbers in range.                *)
LEMMA OnSuccessType ==
  ASSUME TypeOK, OnSuccess
  PROVE  limit' \in MinLimit .. MaxLimit /\ okStreak' \in Nat
  BY GateAssumption DEF TypeOK, OnSuccess

LEMMA OnErrorType ==
  ASSUME TypeOK, OnError
  PROVE  /\ limit' \in MinLimit .. MaxLimit
         /\ okStreak' \in Nat
         /\ cooling' \in BOOLEAN
  BY GateAssumption, HalvingInRange DEF TypeOK, OnError

LEMMA TypeInvInit == Init => TypeInv
<1> SUFFICES ASSUME Init PROVE TypeInv
  OBVIOUS
<1>1. queue \in Seq(Tasks)
  BY DEF Init
<1>2. pc \in [Tasks -> PCs] /\ returned \in [Tasks -> BOOLEAN]
  BY DEF Init, PCs
<1>3. tries \in [Tasks -> 0 .. MaxAttempts] /\ AttemptLeft
  BY GateAssumption DEF Init, AttemptLeft
<1> QED
  BY GateAssumption, <1>1, <1>2, <1>3 DEF Init, TypeInv, TypeOK

LEMMA AdmitTypeInv ==
  ASSUME TypeInv, NEW t \in Tasks, pc[t] \in {"acquireQ", "cooldown"},
         Admit(t), queue' \in Seq(Tasks)
  PROVE  TypeInv'
<1>1. inflight' \in Nat
  BY DEF Admit, TypeInv, TypeOK
<1>2. \E s \in {"calling", "waiting"} : pc' = [pc EXCEPT ![t] = s]
  BY DEF Admit
<1>3. pc' \in [Tasks -> PCs]
  BY <1>2 DEF TypeInv, TypeOK, PCs
<1>4. AttemptLeft'
  BY <1>2 DEF Admit, TypeInv, TypeOK, AttemptLeft
<1> QED
  BY <1>1, <1>3, <1>4 DEF Admit, TypeInv, TypeOK

LEMMA TypeInvStep == TypeInv /\ [Next]_vars => TypeInv'
<1> SUFFICES ASSUME TypeInv, [Next]_vars PROVE TypeInv'
  OBVIOUS
<1> USE GateAssumption
<1>1. ASSUME NEW t \in Tasks, JoinLock(t) PROVE TypeInv'
  <2>1. queue' \in Seq(Tasks)
    BY <1>1 DEF JoinLock, TypeInv, TypeOK
  <2> QED
    BY <1>1, <2>1 DEF JoinLock, gate, TypeInv, TypeOK, AttemptLeft, PCs
<1>2. ASSUME NEW t \in Tasks, Acquire(t) PROVE TypeInv'
  <2>1. queue' \in Seq(Tasks)
    BY <1>2 DEF Acquire, HasLock, TypeInv, TypeOK
  <2>2. CASE cooling
    BY <1>2, <2>1, <2>2 DEF Acquire, gate, TypeInv, TypeOK, AttemptLeft, PCs
  <2>3. CASE ~cooling
    BY <1>2, <2>1, <2>3, AdmitTypeInv DEF Acquire
  <2> QED
    BY <2>2, <2>3
<1>3. ASSUME NEW t \in Tasks, ResumeAcquire(t) PROVE TypeInv'
  <2>1. queue' \in Seq(Tasks)
    BY <1>3 DEF ResumeAcquire, TypeInv, TypeOK
  <2> QED
    BY <1>3, <2>1, AdmitTypeInv DEF ResumeAcquire
<1>4. ASSUME NEW t \in Tasks, CallReturns(t) PROVE TypeInv'
  BY <1>4, OnSuccessType DEF CallReturns, TypeInv, TypeOK, AttemptLeft, PCs
<1>5. ASSUME NEW t \in Tasks, CallRaises(t) PROVE TypeInv'
  BY <1>5, OnErrorType DEF CallRaises, TypeInv, TypeOK, AttemptLeft, PCs
<1>6. ASSUME NEW t \in Tasks, BackoffEnds(t) PROVE TypeInv'
  BY <1>6 DEF BackoffEnds, gate, TypeInv, TypeOK, AttemptLeft, PCs
<1>7. ASSUME NEW t \in Tasks, Release(t) PROVE TypeInv'
  <2>1. queue' \in Seq(Tasks)
    BY <1>7 DEF Release, HasLock, TypeInv, TypeOK
  <2>2. inflight' \in Nat
    BY <1>7 DEF Release, Larger, TypeInv, TypeOK
  <2> QED
    BY <1>7, <2>1, <2>2 DEF Release, AfterRelease, TypeInv, TypeOK, AttemptLeft, PCs
<1>8. CASE CoolDownEnds
  BY <1>8 DEF CoolDownEnds, TypeInv, TypeOK, AttemptLeft, PCs
<1>9. CASE UNCHANGED vars
  BY <1>9 DEF vars, TypeInv, TypeOK, AttemptLeft
<1> QED
  BY <1>1, <1>2, <1>3, <1>4, <1>5, <1>6, <1>7, <1>8, <1>9 DEF Next, Step, AllDone

(* Every variable of the gate and of the retry loop keeps its type; in     *)
(* particular the limit never leaves MinLimit .. MaxLimit, whatever        *)
(* sequence of successes and errors the calls produce.                     *)
THEOREM GateTypeCorrect == Spec => []TypeOK
<1>1. Spec => []TypeInv
  BY TypeInvInit, TypeInvStep, PTL DEF Spec
<1> QED
  BY <1>1, PTL DEF TypeInv
-----------------------------------------------------------------------------
(* Below the maximum the success streak stays short of the limit, whatever *)
(* the order of successes and errors: additive increase is always paid for.*)
THEOREM GateStreak == Spec => []StreakBelowLimit
<1>1. Init => StreakBelowLimit
  BY GateAssumption DEF Init, StreakBelowLimit
<1>2. TypeInv /\ StreakBelowLimit /\ [Next]_vars => StreakBelowLimit'
  <2> SUFFICES ASSUME TypeInv, StreakBelowLimit, [Next]_vars
               PROVE  StreakBelowLimit'
    OBVIOUS
  <2>1. ASSUME NEW t \in Tasks, CallReturns(t) PROVE StreakBelowLimit'
    BY <2>1, GateAssumption
       DEF CallReturns, OnSuccess, TypeInv, TypeOK, StreakBelowLimit
  <2>2. ASSUME NEW t \in Tasks, CallRaises(t) PROVE StreakBelowLimit'
    BY <2>2, GateAssumption, HalvingInRange
       DEF CallRaises, OnError, TypeInv, TypeOK, StreakBelowLimit
  <2>3. CASE UNCHANGED <<limit, okStreak>>
    BY <2>3 DEF StreakBelowLimit
  <2> QED
    BY <2>1, <2>2, <2>3 DEF Next, Step, AllDone, vars, gate, JoinLock, Acquire,
       Admit, ResumeAcquire, BackoffEnds, Release, CoolDownEnds
<1>3. Spec => []TypeInv
  BY TypeInvInit, TypeInvStep, PTL DEF Spec
<1> QED
  BY <1>1, <1>2, <1>3, PTL DEF Spec

-----------------------------------------------------------------------------
(* How each step moves the set of tasks that own a slot: admission adds    *)
(* the task, the release removes it, every other step leaves the set alone.*)
LEMMA AdmitHolders ==
  ASSUME TypeOK, NEW t \in Tasks, pc[t] \in {"acquireQ", "cooldown"}, Admit(t)
  PROVE  /\ t \notin Holders
         /\ \/ /\ inflight < limit /\ inflight' = inflight + 1
               /\ Holders' = Holders \cup {t} /\ Waiters' = Waiters
            \/ /\ inflight >= limit /\ inflight' = inflight
               /\ Holders' = Holders /\ Waiters' = Waiters \cup {t}
<1>1. CASE inflight < limit
  BY <1>1 DEF TypeOK, Admit, Holders, Waiters
<1>2. CASE ~(inflight < limit)
  BY <1>2, GateAssumption DEF TypeOK, Admit, Holders, Waiters
<1> QED
  BY <1>1, <1>2 DEF TypeOK, Holders

LEMMA ReleaseHolders ==
  ASSUME TypeOK, NEW t \in Tasks, Release(t)
  PROVE  t \in Holders /\ Holders' = Holders \ {t} /\ Waiters' = {}
  BY DEF TypeOK, Release, AfterRelease, Holders, Waiters

LEMMA OtherHolders ==
  ASSUME TypeOK, NEW t \in Tasks,
         \/ JoinLock(t) \/ CallReturns(t) \/ CallRaises(t) \/ BackoffEnds(t)
  PROVE  /\ inflight' = inflight /\ Holders' = Holders
         /\ Waiters' = Waiters
<1>1. CASE JoinLock(t)
  BY <1>1 DEF TypeOK, JoinLock, gate, Holders, Waiters
<1>2. CASE CallReturns(t)
  BY <1>2 DEF TypeOK, CallReturns, Holders, Waiters
<1>3. CASE CallRaises(t)
  BY <1>3 DEF TypeOK, CallRaises, Holders, Waiters
<1>4. CASE BackoffEnds(t)
  BY <1>4 DEF TypeOK, BackoffEnds, gate, Holders, Waiters
<1> QED
  BY <1>1, <1>2, <1>3, <1>4

LEMMA AcquireHolders ==
  ASSUME TypeOK, NEW t \in Tasks, Acquire(t) \/ ResumeAcquire(t)
  PROVE  \/ Admit(t) /\ ~cooling /\ pc[t] \in {"acquireQ", "cooldown"}
         \/ /\ inflight' = inflight /\ limit' = limit
            /\ Holders' = Holders /\ Waiters' = Waiters
            /\ pc'[t] # "calling"
<1>1. CASE Acquire(t) /\ cooling
  BY <1>1 DEF TypeOK, Acquire, Admit, gate, Holders, Waiters
<1>2. CASE Acquire(t) /\ ~cooling
  BY <1>2 DEF Acquire
<1>3. CASE ResumeAcquire(t)
  BY <1>3 DEF ResumeAcquire
<1> QED
  BY <1>1, <1>2, <1>3

LEMMA HoldersFinite == IsFiniteSet(Holders) /\ Cardinality(Holders) \in Nat
  BY GateAssumption, FS_Subset, FS_CardinalityType DEF Holders

-----------------------------------------------------------------------------
(* The strengthening: the count is exact and every wait is covered by a    *)
(* slot that is still to be released.                                      *)
SlotInv == SlotsMatchHolders /\ NoLostWakeup

LEMMA SlotInvInit == Init => SlotInv
<1> SUFFICES ASSUME Init PROVE SlotInv
  OBVIOUS
<1>1. Holders = {} /\ Waiters = {}
  BY DEF Init, Holders, Waiters
<1> QED
  BY <1>1, FS_EmptySet DEF Init, SlotInv, SlotsMatchHolders, NoLostWakeup

LEMMA SlotInvStep == TypeInv /\ SlotInv /\ [Next]_vars => SlotInv'
<1> SUFFICES ASSUME TypeInv, SlotInv, [Next]_vars PROVE SlotInv'
  OBVIOUS
<1> USE DEF TypeInv
<1>0. ASSUME NEW t \in Tasks, Admit(t), pc[t] \in {"acquireQ", "cooldown"}
      PROVE  SlotInv'
  <2>1. CASE /\ inflight' = inflight + 1
             /\ Holders' = Holders \cup {t} /\ Waiters' = Waiters
    <3>1. t \notin Holders
      BY <1>0, AdmitHolders
    <3>2. Cardinality(Holders \cup {t}) = Cardinality(Holders) + 1
      BY <3>1, HoldersFinite, FS_AddElement
    <3> QED
      BY <2>1, <3>2 DEF SlotInv, SlotsMatchHolders, NoLostWakeup
  <2>2. CASE /\ inflight >= limit /\ inflight' = inflight
             /\ Holders' = Holders /\ Waiters' = Waiters \cup {t}
    <3>1. Cardinality(Holders) >= 1
      BY <2>2, GateAssumption DEF TypeOK, SlotInv, SlotsMatchHolders
    <3>2. Holders # {}
      BY <3>1, FS_EmptySet
    <3> QED
      BY <2>2, <3>2 DEF SlotInv, SlotsMatchHolders, NoLostWakeup
  <2> QED
    BY <1>0, <2>1, <2>2, AdmitHolders
<1>1. ASSUME NEW t \in Tasks, Acquire(t) \/ ResumeAcquire(t) PROVE SlotInv'
  BY <1>0, <1>1, AcquireHolders DEF SlotInv, SlotsMatchHolders, NoLostWakeup
<1>2. ASSUME NEW t \in Tasks,
             JoinLock(t) \/ CallReturns(t) \/ CallRaises(t) \/ BackoffEnds(t)
      PROVE  SlotInv'
  BY <1>2, OtherHolders DEF SlotInv, SlotsMatchHolders, NoLostWakeup
<1>3. ASSUME NEW t \in Tasks, Release(t) PROVE SlotInv'
  <2>1. t \in Holders /\ Holders' = Holders \ {t} /\ Waiters' = {}
    BY <1>3, ReleaseHolders
  <2>2. Cardinality(Holders \ {t}) = Cardinality(Holders) - 1
    BY <2>1, HoldersFinite, FS_RemoveElement
  <2>3. Cardinality(Holders) >= 1
    BY <2>1, HoldersFinite, FS_EmptySet
  <2>4. inflight' = inflight - 1
    BY <1>3, <2>3, HoldersFinite DEF Release, Larger, SlotInv, SlotsMatchHolders
  <2> QED
    BY <2>1, <2>2, <2>4 DEF SlotInv, SlotsMatchHolders, NoLostWakeup
<1>4. CASE CoolDownEnds \/ UNCHANGED vars
  BY <1>4 DEF CoolDownEnds, vars, SlotInv, SlotsMatchHolders, NoLostWakeup,
     Holders, Waiters
<1> QED
  BY <1>1, <1>2, <1>3, <1>4 DEF Next, Step, AllDone

LEMMA GateInvariant == Spec => [](TypeInv /\ SlotInv)
<1>1. Init => TypeInv /\ SlotInv
  BY TypeInvInit, SlotInvInit
<1>2. TypeInv /\ SlotInv /\ [Next]_vars => (TypeInv /\ SlotInv)'
  BY TypeInvStep, SlotInvStep
<1> QED
  BY <1>1, <1>2, PTL DEF Spec

(* The gate's counter equals the number of tasks that own a slot.          *)
THEOREM GateSlots == Spec => []SlotsMatchHolders
  BY GateInvariant, PTL DEF SlotInv

(* No waiter is ever left without a slot holder whose release notifies it. *)
THEOREM GateNoLostWakeup == Spec => []NoLostWakeup
  BY GateInvariant, PTL DEF SlotInv

(* The gate's invariants together, as the run checks them.                 *)
THEOREM GateSound == Spec => []GateIsSound
  BY GateTypeCorrect, GateSlots, GateNoLostWakeup, GateStreak, PTL DEF GateIsSound

-----------------------------------------------------------------------------
(* A call starts only outside the cool-down and under the limit in force.  *)
LEMMA StartStep ==
  ASSUME TypeInv, SlotInv, [Next]_vars, NEW t \in Tasks,
         pc[t] # "calling", pc'[t] = "calling"
  PROVE  ~cooling /\ Cardinality(Holders') <= limit
<1> USE DEF TypeInv
<1>1. ~UNCHANGED vars /\ ~CoolDownEnds /\ ~AllDone
  BY DEF vars, CoolDownEnds, AllDone
<1>2. PICK u \in Tasks : Step(u)
  BY <1>1 DEF Next
<1>3. Acquire(u) \/ ResumeAcquire(u)
  BY <1>2 DEF Step, JoinLock, CallReturns, CallRaises, BackoffEnds, Release,
     AfterRelease, TypeOK
<1>4. u = t
  BY <1>3 DEF Acquire, ResumeAcquire, Admit, TypeOK
<1>5. Admit(t) /\ ~cooling /\ pc[t] \in {"acquireQ", "cooldown"}
  BY <1>3, <1>4, AcquireHolders
<1>6. inflight < limit
  BY <1>5 DEF Admit, TypeOK, PCs
<1>7. Holders' = Holders \cup {t} /\ t \notin Holders
  BY <1>5, <1>6, AdmitHolders, GateAssumption DEF TypeOK
<1>8. Cardinality(Holders') = inflight + 1
  BY <1>7, HoldersFinite, FS_AddElement DEF SlotInv, SlotsMatchHolders
<1> QED
  BY <1>5, <1>6, <1>8, GateAssumption DEF TypeOK

(* Every call that starts, starts outside the cool-down and brings the     *)
(* number in flight to at most the limit in force at that moment.          *)
THEOREM GateStarts == Spec => StartsWithinLimit
<1>1. TypeInv /\ SlotInv /\ [Next]_vars
        => [\A t \in Tasks : pc[t] # "calling" /\ pc'[t] = "calling"
              => ~cooling /\ Cardinality(Holders') <= limit]_vars
  BY StartStep
<1> QED
  BY <1>1, GateInvariant, PTL DEF Spec, StartsWithinLimit

-----------------------------------------------------------------------------
(* Initial states of the gate map to initial states of the limiter.        *)
LEMMA RefinesInit == Init => Abstract!LimiterInit
<1> SUFFICES ASSUME Init PROVE Abstract!LimiterInit
  OBVIOUS
<1>1. Holders = {}
  BY DEF Init, Holders
<1> QED
  BY <1>1, GateAssumption DEF Init, Abstract!LimiterInit

(* Every step of the gate is a step of the limiter or leaves it unchanged. *)
LEMMA RefinesStep ==
  TypeInv /\ SlotInv /\ [Next]_vars
    => [Abstract!LimiterNext]_(Abstract!limiterVars)
<1> SUFFICES ASSUME TypeInv, SlotInv, [Next]_vars
             PROVE  [Abstract!LimiterNext]_(Abstract!limiterVars)
  OBVIOUS
<1> USE DEF TypeInv
<1> DEFINE AbsStep == [Abstract!LimiterNext]_(Abstract!limiterVars)
<1>1. ASSUME NEW t \in Tasks, Admit(t), pc[t] \in {"acquireQ", "cooldown"}
      PROVE  AbsStep
  <2>1. limit' = limit
    BY <1>1 DEF Admit
  <2>2. CASE inflight < limit
    <3>1. t \notin Holders /\ Holders' = Holders \cup {t}
      BY <1>1, <2>2, AdmitHolders, GateAssumption DEF TypeOK
    <3>2. Cardinality(Holders) < limit
      BY <2>2 DEF SlotInv, SlotsMatchHolders
    <3>3. Abstract!Cardinality(Holders) = Cardinality(Holders)
      BY Zenon DEF Abstract!Cardinality, Cardinality
    <3>4. Abstract!Enter(t)
      BY <2>1, <3>1, <3>2, <3>3 DEF Abstract!Enter
    <3> QED
      BY <3>4 DEF Abstract!LimiterNext
  <2>3. CASE ~(inflight < limit)
    <3>1. Holders' = Holders
      BY <1>1, <2>3, AdmitHolders
    <3> QED
      BY <2>1, <3>1 DEF Abstract!limiterVars
  <2> QED
    BY <2>2, <2>3
<1>2. ASSUME NEW t \in Tasks, Acquire(t) \/ ResumeAcquire(t) PROVE AbsStep
  <2>1. CASE Admit(t) /\ pc[t] \in {"acquireQ", "cooldown"}
    BY <2>1, <1>1
  <2>2. CASE limit' = limit /\ Holders' = Holders
    BY <2>2 DEF Abstract!limiterVars
  <2> QED
    BY <1>2, <2>1, <2>2, AcquireHolders
<1>3. ASSUME NEW t \in Tasks, JoinLock(t) \/ BackoffEnds(t) PROVE AbsStep
  <2>1. limit' = limit /\ Holders' = Holders
    BY <1>3, OtherHolders DEF JoinLock, BackoffEnds, gate
  <2> QED
    BY <2>1 DEF Abstract!limiterVars
<1>4. ASSUME NEW t \in Tasks, CallReturns(t) \/ CallRaises(t) PROVE AbsStep
  <2>1. limit' \in 1 .. MaxLimit
    BY <1>4, OnSuccessType, OnErrorType, GateAssumption DEF CallReturns, CallRaises
  <2>2. Holders' = Holders
    BY <1>4, OtherHolders
  <2> QED
    BY <2>1, <2>2 DEF Abstract!LimiterNext, Abstract!Adjust
<1>5. ASSUME NEW t \in Tasks, Release(t) PROVE AbsStep
  <2>1. t \in Holders /\ Holders' = Holders \ {t} /\ limit' = limit
    BY <1>5, ReleaseHolders DEF Release
  <2>2. Abstract!Leave(t)
    BY <2>1 DEF Abstract!Leave
  <2> QED
    BY <2>2 DEF Abstract!LimiterNext
<1>6. CASE CoolDownEnds \/ UNCHANGED vars
  BY <1>6 DEF CoolDownEnds, vars, Holders, Abstract!limiterVars
<1> QED
  BY <1>2, <1>3, <1>4, <1>5, <1>6 DEF Next, Step, AllDone

(* The gate implements the abstract limiter, for every set of coroutines.  *)
THEOREM GateImplementsLimiter == Spec => ImplementsLimiter
  BY RefinesInit, RefinesStep, GateInvariant, PTL
  DEF Spec, ImplementsLimiter, Abstract!LimiterSpec
=============================================================================
