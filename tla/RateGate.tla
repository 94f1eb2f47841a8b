------------------------------ MODULE RateGate ------------------------------
(***************************************************************************)
(* The adaptive rate gate of the eval harness (schedule/ratelimit.py) and  *)
(* the retry loop that calls through it (ReconcileEngine._attempt).        *)
(*                                                                         *)
(* Coroutines run on one event loop, so a step is the code between two     *)
(* awaits.  The gate's asyncio.Condition is a FIFO lock plus a wait set.   *)
(* acquire() sleeps out a cool-down while it HOLDS that lock: state        *)
(* "cooldown" is the only one in which the lock is held across an await,   *)
(* so the lock is free iff no task is in it.                               *)
(***************************************************************************)
EXTENDS Integers, Sequences, FiniteSets

CONSTANTS
  Tasks,        \* the coroutines that call through the gate
  MinLimit,     \* RateGate._min
  MaxLimit,     \* RateGate._max
  InitLimit,    \* RateGate.limit as constructed
  MaxAttempts,  \* attempts _attempt makes before it re-raises
  Backoff       \* TRUE iff backoff_base > 0

ASSUME GateAssumption ==
  /\ IsFiniteSet(Tasks)
  /\ MinLimit \in Nat \ {0}
  /\ MaxLimit \in Nat
  /\ InitLimit \in MinLimit .. MaxLimit
  /\ MaxAttempts \in Nat \ {0}
  /\ Backoff \in BOOLEAN

VARIABLES
  limit,     \* RateGate.limit
  inflight,  \* RateGate._inflight
  okStreak,  \* RateGate._ok_streak
  cooling,   \* now < RateGate._resume_at
  queue,     \* FIFO of the tasks that wait for the condition's lock
  pc,        \* where each task is in acquire / fn / release
  tries,     \* failed attempts of each task's current _attempt call
  returned   \* TRUE iff the task's last fn() returned instead of raising

vars == <<limit, inflight, okStreak, cooling, queue, pc, tries, returned>>
gate == <<limit, inflight, okStreak, cooling>>

Larger(a, b) == IF a > b THEN a ELSE b

PCs == {"arrive", "acquireQ", "cooldown", "waiting", "calling", "backoff",
        "release", "releaseQ", "done", "failed"}

(* A task owns a slot from the moment acquire() counts it until release()  *)
(* has taken it back.                                                      *)
Holders == {t \in Tasks : pc[t] \in {"calling", "backoff", "release", "releaseQ"}}
Waiters == {t \in Tasks : pc[t] = "waiting"}

LockFree   == \A t \in Tasks : pc[t] # "cooldown"
HasLock(t) == LockFree /\ queue # <<>> /\ t = Head(queue)

Init ==
  /\ limit = InitLimit
  /\ inflight = 0
  /\ okStreak = 0
  /\ cooling = FALSE
  /\ queue = <<>>
  /\ pc = [t \in Tasks |-> "arrive"]
  /\ tries = [t \in Tasks |-> 0]
  /\ returned = [t \in Tasks |-> FALSE]

-----------------------------------------------------------------------------
(* `async with self._cond` on the way into acquire() or release(); a task  *)
(* notify_all() woke comes back here too, to take the lock again.          *)
JoinLock(t) ==
  /\ \/ pc[t] = "arrive"  /\ pc' = [pc EXCEPT ![t] = "acquireQ"]
     \/ pc[t] = "release" /\ pc' = [pc EXCEPT ![t] = "releaseQ"]
  /\ queue' = Append(queue, t)
  /\ UNCHANGED <<gate, tries, returned>>

AdmitOneTooMany(t) ==  \* mutant: <= for <
  /\ IF inflight <= limit
       THEN inflight' = inflight + 1 /\ pc' = [pc EXCEPT ![t] = "calling"]
       ELSE UNCHANGED inflight       /\ pc' = [pc EXCEPT ![t] = "waiting"]
  /\ UNCHANGED <<limit, okStreak, cooling, tries, returned>>

(* The body of acquire()'s loop once the cool-down is over.                *)
Admit(t) ==
  /\ IF inflight < limit
       THEN inflight' = inflight + 1 /\ pc' = [pc EXCEPT ![t] = "calling"]
       ELSE UNCHANGED inflight       /\ pc' = [pc EXCEPT ![t] = "waiting"]
  /\ UNCHANGED <<limit, okStreak, cooling, tries, returned>>

Acquire(t) ==
  /\ HasLock(t) /\ pc[t] = "acquireQ"
  /\ queue' = Tail(queue)
  /\ \/ /\ cooling
        /\ pc' = [pc EXCEPT ![t] = "cooldown"]
        /\ UNCHANGED <<gate, tries, returned>>
     \/ ~cooling /\ Admit(t)

ResumeAcquireEarly(t) ==  \* mutant: no re-check of _resume_at after the sleep
  /\ pc[t] = "cooldown"
  /\ Admit(t)
  /\ UNCHANGED queue

(* The sleeper re-reads _resume_at when its timer fires: if on_error moved *)
(* it meanwhile the task goes back to sleep, which changes nothing here.   *)
ResumeAcquire(t) ==
  /\ pc[t] = "cooldown" /\ ~cooling
  /\ Admit(t)
  /\ UNCHANGED queue

-----------------------------------------------------------------------------
OnSuccess ==
  IF okStreak + 1 >= limit /\ limit < MaxLimit
    THEN limit' = limit + 1 /\ okStreak' = 0
    ELSE UNCHANGED limit    /\ okStreak' = okStreak + 1

OnErrorKeepingStreak ==  \* mutant: the streak survives an error
  /\ limit' = Larger(MinLimit, limit \div 2)
  /\ UNCHANGED okStreak
  /\ cooling' = TRUE

OnError ==
  /\ limit' = Larger(MinLimit, limit \div 2)
  /\ okStreak' = 0
  /\ cooling' = TRUE

(* fn() returned: on_success, then the finally clause releases.            *)
CallReturns(t) ==
  /\ pc[t] = "calling"
  /\ OnSuccess
  /\ pc' = [pc EXCEPT ![t] = "release"]
  /\ returned' = [returned EXCEPT ![t] = TRUE]
  /\ UNCHANGED <<inflight, cooling, queue, tries>>

CallRaisesUncounted(t) ==  \* mutant: the attempt is not counted
  /\ pc[t] = "calling"
  /\ OnError
  /\ pc' = [pc EXCEPT ![t] = "release"]
  /\ returned' = [returned EXCEPT ![t] = FALSE]
  /\ UNCHANGED <<inflight, queue, tries>>

(* fn() raised: on_error, then the back-off sleep when another attempt is  *)
(* left -- inside the try, so the slot is kept through it -- then release. *)
CallRaises(t) ==
  /\ pc[t] = "calling"
  /\ OnError
  /\ tries' = [tries EXCEPT ![t] = @ + 1]
  /\ pc' = [pc EXCEPT ![t] = IF Backoff /\ tries[t] + 1 < MaxAttempts
                               THEN "backoff" ELSE "release"]
  /\ returned' = [returned EXCEPT ![t] = FALSE]
  /\ UNCHANGED <<inflight, queue>>

BackoffEnds(t) ==
  /\ pc[t] = "backoff"
  /\ pc' = [pc EXCEPT ![t] = "release"]
  /\ UNCHANGED <<gate, queue, tries, returned>>

AfterRelease(t) ==
  IF returned[t] THEN "done" ELSE IF tries[t] < MaxAttempts THEN "arrive" ELSE "failed"

(* release(): give the slot back and notify_all(); _attempt then returns,  *)
(* tries again or re-raises.                                               *)
Release(t) ==
  /\ HasLock(t) /\ pc[t] = "releaseQ"
  /\ queue' = Tail(queue)
  /\ inflight' = Larger(0, inflight - 1)
  /\ pc' = [x \in Tasks |-> IF x = t THEN AfterRelease(t)
                            ELSE IF pc[x] = "waiting" THEN "arrive" ELSE pc[x]]
  /\ UNCHANGED <<limit, okStreak, cooling, tries, returned>>

(* The clock passes _resume_at.                                            *)
CoolDownEnds ==
  /\ cooling
  /\ cooling' = FALSE
  /\ UNCHANGED <<limit, inflight, okStreak, queue, pc, tries, returned>>

Step(t) ==
  \/ JoinLock(t)
  \/ Acquire(t)
  \/ ResumeAcquire(t)
  \/ CallReturns(t)
  \/ CallRaises(t)
  \/ BackoffEnds(t)
  \/ Release(t)

(* Every _attempt is over; any other state without a step is a deadlock.   *)
AllDone ==
  /\ \A t \in Tasks : pc[t] \in {"done", "failed"}
  /\ ~cooling
  /\ UNCHANGED vars

Next == (\E t \in Tasks : Step(t)) \/ CoolDownEnds \/ AllDone

Spec == Init /\ [][Next]_vars

(* The event loop runs every ready coroutine, timers fire, and the call    *)
(* behind fn() returns or raises at some point (the engine sets no timeout *)
(* of its own: this last one is an assumption on the injected producers).  *)
Fairness == (\A t \in Tasks : WF_vars(Step(t))) /\ WF_vars(CoolDownEnds)

FairSpec == Spec /\ Fairness
-----------------------------------------------------------------------------
TypeOK ==
  /\ limit \in MinLimit .. MaxLimit
  /\ inflight \in Nat
  /\ okStreak \in Nat
  /\ cooling \in BOOLEAN
  /\ queue \in Seq(Tasks)
  /\ pc \in [Tasks -> PCs]
  /\ tries \in [Tasks -> 0 .. MaxAttempts]
  /\ returned \in [Tasks -> BOOLEAN]

(* The counter the gate admits by is exactly the number of tasks that own  *)
(* a slot, on every path out of fn(): a slot kept over a failed attempt or *)
(* given back twice (release's max(0, .) would hide it) breaks this.       *)
SlotsMatchHolders == inflight = Cardinality(Holders)

(* Nobody waits on the condition unless some task still owns a slot, whose *)
(* release() will notify: no wake-up is lost, not even when the limit is   *)
(* raised (on_success does not notify) or halved below inflight.           *)
NoLostWakeup == Waiters # {} => Holders # {}

(* Additive increase: below the maximum the success streak is always short *)
(* of the limit, so each +1 is paid for by `limit` successes since the     *)
(* last change -- also after a decrease, which shrinks the target.         *)
StreakBelowLimit == limit < MaxLimit => okStreak < limit

(* What ratelimit.py keeps true at every await: slots are owned or free,   *)
(* a waiter has somebody to wake it, and the streak stays behind the limit.*)
GateIsSound == TypeOK /\ SlotsMatchHolders /\ NoLostWakeup /\ StreakBelowLimit

(* A call starts only under the limit then in force and outside the        *)
(* cool-down, on both ways into the slot (straight in, or after a sleep).  *)
StartsWithinLimit ==
  [][\A t \in Tasks : pc[t] # "calling" /\ pc'[t] = "calling"
        => ~cooling /\ Cardinality(Holders') <= limit]_vars

(* Every _attempt through the gate ends: it returns or re-raises.          *)
EveryAttemptEnds == \A t \in Tasks : <>(pc[t] \in {"done", "failed"})

(* The gate implements the abstract limiter.                               *)
Abstract == INSTANCE Limiter
  WITH Clients <- Tasks, Ceiling <- MaxLimit, bound <- limit, holders <- Holders
ImplementsLimiter == Abstract!LimiterSpec
=============================================================================
