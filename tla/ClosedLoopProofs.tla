-------------------------- MODULE ClosedLoopProofs --------------------------
(***************************************************************************)
(* Safety of the closed-loop driver, for every number of user loops and    *)
(* requests, every pacing, breaker and schedule, with and without a        *)
(* graceful stop: no request is lost, the target is tracked, the census is *)
(* of the stop, and the driver implements the abstract trial.              *)
(*                                                                         *)
(* ClosedInv is the inductive invariant.  It adds which user loops the     *)
(* supervisor's list holds (Listed), and where users can be before, while  *)
(* and after the load is brought to rest (Stages).                         *)
(***************************************************************************)
EXTENDS ClosedLoop, FiniteSetTheorems, SequenceTheorems, TLAPS

UserStates == {"none", "created", "flying", "thinking", "cutting", "ended"}
Counters == {"sent", "ok", "bad", "lost", "cut"}
StopType ==
  [reason : {"none", "deadline", "error_rate"}, sent : Nat, errors : Nat,
   atStop : Nat, interrupted : Nat]

(* TypeOK without the bounds on the counters, which Conservation gives.    *)
Shape ==
  /\ trial \in Trials
  /\ loop \in {"run", "drain", "cancel", "stopped"} /\ late \in BOOLEAN
  /\ target \in 0 .. MaxUsers
  /\ users \in Seq(Users) /\ IsInjective(users)
  /\ user \in [Users -> UserStates]
  /\ count \in [Counters -> Nat] /\ count.sent <= MaxSent
  /\ inflight \in Nat
  /\ stop \in StopType

Listed == ToSet(users)
Spawned == Users \ In({"none"})

(* User loops are created in order, and the supervisor's list holds every  *)
(* one that may still send.  While the trial runs it is as long as the     *)
(* target, and holds nobody else unless a judge raised.                    *)
Supervised ==
  /\ \E k \in 0 .. MaxUsers : Spawned = 1 .. k
  /\ Listed \subseteq Spawned /\ Live \subseteq Listed
  /\ loop = "run" => Len(users) = target
  /\ loop = "run" /\ ~late /\ count.lost = 0 => Listed \subseteq Live
  /\ ~trial.stepsDown => Spawned \subseteq Listed

Stages ==
  /\ loop # "run" => In({"created"}) = {}
  /\ loop \in {"cancel", "stopped"} => In({"flying"}) = {}
  /\ loop = "drain" => inflight <= stop.atStop
  /\ loop \in {"cancel", "stopped"} =>
       /\ stop.interrupted <= stop.atStop /\ stop.interrupted <= count.cut + inflight
       /\ ~trial.stepsDown => stop.interrupted = count.cut + inflight
  /\ ~trial.stepsDown /\ loop \in {"run", "drain"} => count.cut = 0 /\ In({"cutting"}) = {}
  /\ ~trial.stepsDown /\ loop = "stopped" => Flying = {}

ClosedInv == Shape /\ Conservation /\ Supervised /\ Stages

-----------------------------------------------------------------------------
LEMMA UsersFinite == IsFiniteSet(Users) /\ Cardinality(Users) = MaxUsers
  BY ClosedAssumption, FS_Interval DEF Users

LEMMA InFinite ==
  ASSUME NEW S
  PROVE  IsFiniteSet(In(S)) /\ Cardinality(In(S)) \in Nat /\ Cardinality(In(S)) <= MaxUsers
<1>1. In(S) \in SUBSET Users
  BY DEF In
<1> QED
  BY <1>1, UsersFinite, FS_Subset, FS_CardinalityType

(* How a step moves the users: one of them ...                             *)
LEMMA OneMoves ==
  ASSUME Shape, NEW u \in Users, NEW s \in UserStates, user' = [user EXCEPT ![u] = s]
  PROVE  /\ user' \in [Users -> UserStates]
         /\ user'[u] = s /\ \A v \in Users \ {u} : user'[v] = user[v]
  BY DEF Shape

(* ... or those that are cancelled.                                        *)
LEMMA CancelMoves ==
  ASSUME Shape, NEW S, CancelAll(S)
  PROVE  /\ user' \in [Users -> UserStates]
         /\ Flying' = Flying /\ Spawned' = Spawned /\ In({"created"})' = In({"created"})
         /\ In({"flying"})' = In({"flying"}) \ S
         /\ In({"cutting"})' = In({"cutting"}) \cup (In({"flying"}) \cap S)
         /\ Live' = (Live \ S) \cup In({"created"})
<1>1. /\ user' \in [Users -> UserStates]
      /\ \A u \in Users :
           user'[u] = IF u \in S /\ user[u] = "flying" THEN "cutting"
                      ELSE IF u \in S /\ user[u] = "thinking" THEN "ended" ELSE user[u]
  BY DEF CancelAll, Shape, UserStates
<1> QED
  BY <1>1 DEF Flying, Spawned, Live, In, UserStates

(* The next user loop to be created is the one after those that were.      *)
LEMMA FirstFree ==
  ASSUME NEW k \in Nat, Spawned = 1 .. k
  PROVE  Cardinality(Users \ In({"none"})) = k
<1>1. Cardinality(1 .. k) = IF 1 > k THEN 0 ELSE k - 1 + 1
  BY FS_Interval
<1>2. Cardinality(1 .. k) = k
  BY <1>1
<1> QED
  BY <1>2 DEF Spawned

LEMMA SpawnMoves ==
  ASSUME Shape, Supervised, NEW n \in Nat, Spawn(n)
  PROVE  \E k \in Nat :
           /\ k + n <= MaxUsers /\ Spawned = 1 .. k /\ Spawned' = 1 .. k + n
           /\ user' \in [Users -> UserStates] /\ Flying' = Flying
           /\ Live' = Live \cup (k + 1 .. k + n) /\ In({"cutting"})' = In({"cutting"})
           /\ users' \in Seq(Users) /\ IsInjective(users') /\ Len(users') = Len(users) + n
           /\ Listed' = Listed \cup (k + 1 .. k + n)
<1>1. PICK k \in 0 .. MaxUsers : Spawned = 1 .. k
  BY DEF Supervised
<1>2. k \in Nat /\ MaxUsers \in Nat
  BY ClosedAssumption
<1>3. /\ k + n <= MaxUsers /\ users' = users \o [i \in 1 .. n |-> k + i]
      /\ user' = [u \in Users |-> IF u \in k + 1 .. k + n THEN "created" ELSE user[u]]
  BY <1>1, <1>2, FirstFree DEF Spawn
<1>4. /\ user' \in [Users -> UserStates]
      /\ \A u \in Users : user'[u] = IF u \in k + 1 .. k + n THEN "created" ELSE user[u]
  BY <1>3 DEF Shape, UserStates
<1>5. /\ \A u \in Users : user[u] = "none" <=> u > k
      /\ \A u : u \in k + 1 .. k + n => u \in Users /\ user[u] = "none"
  <2>1. \A u \in Users : u \in 1 .. k <=> user[u] # "none"
    BY <1>1 DEF Spawned, In
  <2>2. \A u \in Users : user[u] = "none" <=> u > k
    BY <2>1, <1>2 DEF Users
  <2> QED
    BY <2>2, <1>2, <1>3 DEF Users
<1>6. Flying' = Flying /\ Live' = Live \cup (k + 1 .. k + n) /\ In({"cutting"})' = In({"cutting"})
  BY <1>4, <1>5 DEF Flying, Live, In
<1>7. Spawned' = 1 .. k + n
  <2>1. \A u \in Users : user'[u] # "none" <=> u \in 1 .. k + n
    BY <1>2, <1>4, <1>5 DEF Users
  <2>2. 1 .. k + n \subseteq Users
    BY <1>2, <1>3 DEF Users
  <2> QED
    BY <2>1, <2>2 DEF Spawned, In
<1>8. /\ users' \in Seq(Users) /\ Len(users') = Len(users) + n
      /\ \A i \in 1 .. Len(users) : users'[i] = users[i]
      /\ \A i \in Len(users) + 1 .. Len(users) + n : users'[i] = k + (i - Len(users))
  <2>1. users \in Seq(Users) /\ [i \in 1 .. n |-> k + i] \in Seq(Users)
    BY <1>2, <1>3 DEF Shape, Users
  <2> QED
    BY <2>1, <1>3
<1>9. DOMAIN users = 1 .. Len(users) /\ DOMAIN users' = 1 .. Len(users) + n /\ Len(users) \in Nat
  BY <1>8 DEF Shape
<1>10. \A i \in 1 .. Len(users) : users[i] \in 1 .. k
  BY <1>1, <1>9 DEF Supervised, Listed, ToSet
<1>11. IsInjective(users')
  <2>1. ASSUME NEW a \in 1 .. Len(users) + n, NEW b \in 1 .. Len(users) + n, users'[a] = users'[b]
        PROVE  a = b
    <3>1. CASE a <= Len(users) /\ b <= Len(users)
      BY <2>1, <3>1, <1>8, <1>9, SMTT(30) DEF Shape, IsInjective
    <3>2. CASE a > Len(users) /\ b > Len(users)
      BY <2>1, <3>2, <1>2, <1>8, <1>9
    <3>3. CASE a <= Len(users) /\ b > Len(users)
      BY <2>1, <3>3, <1>2, <1>8, <1>9, <1>10
    <3>4. CASE a > Len(users) /\ b <= Len(users)
      BY <2>1, <3>4, <1>2, <1>8, <1>9, <1>10
    <3> QED
      BY <3>1, <3>2, <3>3, <3>4, <1>9
  <2> QED
    BY <2>1, <1>9 DEF IsInjective
<1>12. Listed' = Listed \cup (k + 1 .. k + n)
  <2>1. ASSUME NEW x \in Listed' PROVE x \in Listed \cup (k + 1 .. k + n)
    <3>1. PICK i \in 1 .. Len(users) + n : x = users'[i]
      BY <1>9 DEF Listed, ToSet
    <3>2. CASE i <= Len(users)
      BY <3>1, <3>2, <1>8, <1>9 DEF Listed, ToSet
    <3>3. CASE i > Len(users)
      BY <3>1, <3>3, <1>2, <1>8, <1>9
    <3> QED
      BY <3>2, <3>3, <1>9
  <2>2. ASSUME NEW x \in Listed PROVE x \in Listed'
    <3>1. PICK i \in 1 .. Len(users) : x = users[i]
      BY <1>9 DEF Listed, ToSet
    <3> QED
      BY <3>1, <1>8, <1>9 DEF Listed, ToSet
  <2>3. ASSUME NEW x \in k + 1 .. k + n PROVE x \in Listed'
    <3>1. Len(users) + (x - k) \in Len(users) + 1 .. Len(users) + n
      BY <1>2, <1>9
    <3>2. users'[Len(users) + (x - k)] = x
      BY <3>1, <1>2, <1>8, <1>9, SMTT(30)
    <3> QED
      BY <3>1, <3>2, <1>9 DEF Listed, ToSet
  <2> QED
    BY <2>1, <2>2, <2>3
<1> QED
  BY <1>1, <1>2, <1>3, <1>4, <1>6, <1>7, <1>8, <1>11, <1>12

(* The newest are retired: the list keeps the first t user loops.          *)
LEMMA RetireMoves ==
  ASSUME Shape, NEW t \in Nat, t < Len(users), Retire(t), In({"created"}) = {}
  PROVE  \E S :
           /\ user' \in [Users -> UserStates] /\ Flying' = Flying /\ Spawned' = Spawned
           /\ In({"created"})' = {} /\ Live' = Live \ S
           /\ users' \in Seq(Users) /\ IsInjective(users') /\ Len(users') = t
           /\ Listed = Listed' \cup S /\ Listed' \cap S = {}
<1> DEFINE S == ToSet(SubSeq(users, t + 1, Len(users)))
<1>1. users \in Seq(Users) /\ Len(users) \in Nat /\ DOMAIN users = 1 .. Len(users)
  BY DEF Shape
<1>2. users' = SubSeq(users, 1, t) /\ CancelAll(S)
  BY DEF Retire
<1>3. /\ users' \in Seq(Users) /\ Len(users') = t /\ DOMAIN users' = 1 .. t
      /\ \A i \in 1 .. t : users'[i] = users[i]
  BY <1>1, <1>2
<1>4. S = {users[i] : i \in t + 1 .. Len(users)}
  <2> DEFINE q == SubSeq(users, t + 1, Len(users))
  <2>1. /\ t + 1 \in Int /\ t + 1 <= Len(users) /\ Len(users) - (t + 1) + 1 = Len(users) - t
        /\ \A i \in t + 1 .. Len(users) : users[i] \in Users
    BY <1>1
  <2>2. /\ q \in Seq(Users) /\ Len(q) = Len(users) - t
        /\ \A i \in 1 .. Len(users) - t : q[i] = users[t + 1 + i - 1]
    BY <1>1, <2>1, SubSeqProperties
  <2>3. /\ DOMAIN q = 1 .. Len(users) - t
        /\ \A i \in 1 .. Len(users) - t : q[i] = users[t + i]
    <3>1. DOMAIN q = 1 .. Len(q)
      BY <2>2
    <3>2. \A i \in 1 .. Len(users) - t : t + 1 + i - 1 = t + i
      BY <1>1
    <3> QED
      BY <2>2, <3>1, <3>2
  <2> HIDE DEF q
  <2>4. ToSet(q) = {users[i] : i \in t + 1 .. Len(users)}
    <3>1. ASSUME NEW x \in ToSet(q) PROVE x \in {users[i] : i \in t + 1 .. Len(users)}
      <4>1. PICK i \in 1 .. Len(users) - t : x = q[i]
        BY <2>3 DEF ToSet
      <4>2. t + i \in t + 1 .. Len(users) /\ x = users[t + i]
        BY <1>1, <2>3, <4>1
      <4> QED
        BY <4>2
    <3>2. ASSUME NEW i \in t + 1 .. Len(users) PROVE users[i] \in ToSet(q)
      <4>1. i - t \in 1 .. Len(users) - t /\ t + (i - t) = i
        BY <1>1
      <4>2. q[i - t] = users[i]
        BY <2>3, <4>1
      <4> QED
        BY <2>3, <4>1, <4>2 DEF ToSet
    <3> QED
      BY <3>1, <3>2
  <2> QED
    BY <2>4 DEF q
<1> HIDE DEF S
<1>5. IsInjective(users')
  BY <1>1, <1>3 DEF Shape, IsInjective
<1>6. Listed = Listed' \cup S /\ Listed' \cap S = {}
  <2>1. Listed' = {users[i] : i \in 1 .. t}
    <3>1. Listed' = {users'[i] : i \in 1 .. t}
      BY <1>3 DEF Listed, ToSet
    <3> QED
      BY <1>3, <3>1
  <2>2. Listed = {users[i] : i \in 1 .. Len(users)}
    BY <1>1 DEF Listed, ToSet
  <2>3. \A i \in 1 .. Len(users) : i \in 1 .. t \/ i \in t + 1 .. Len(users)
    BY <1>1
  <2>4. \A i \in 1 .. t, j \in t + 1 .. Len(users) :
          i \in 1 .. Len(users) /\ j \in 1 .. Len(users) /\ i # j
    BY <1>1
  <2>5. \A i \in 1 .. t, j \in t + 1 .. Len(users) : users[i] # users[j]
    BY <1>1, <2>4 DEF Shape, IsInjective
  <2> QED
    BY <2>1, <2>2, <2>3, <2>4, <2>5, <1>4
<1> QED
  BY <1>2, <1>3, <1>5, <1>6, CancelMoves

(* Distinct user loops: the list is as long as the set it holds.           *)
LEMMA ListedCount ==
  ASSUME Shape
  PROVE  IsFiniteSet(Listed) /\ Cardinality(Listed) = Len(users)
<1>1. DOMAIN users = 1 .. Len(users) /\ Len(users) \in Nat /\ IsInjective(users)
      /\ users \in [1 .. Len(users) -> Users]
  BY DEF Shape
<1>2. users \in [1 .. Len(users) -> Listed]
  BY <1>1 DEF Listed, ToSet
<1>3. users \in Injection(1 .. Len(users), Listed)
  BY <1>1, <1>2 DEF Injection
<1>4. users \in Surjection(1 .. Len(users), Listed)
  BY <1>1, <1>2 DEF Surjection, Listed, ToSet
<1>5. ExistsBijection(1 .. Len(users), Listed)
  BY <1>3, <1>4 DEF ExistsBijection, Bijection
<1> QED
  BY <1>1, <1>5, FS_Interval, FS_Bijection

-----------------------------------------------------------------------------
LEMMA ClosedInit == Init => ClosedInv
<1> SUFFICES ASSUME Init PROVE ClosedInv
  OBVIOUS
<1>1. MaxUsers \in Nat /\ MaxSent \in Nat
  BY ClosedAssumption
<1>2. \A S : In(S) = IF "none" \in S THEN Users ELSE {}
  BY DEF Init, In
<1>3. Flying = {} /\ Live = {} /\ Spawned = {} /\ In({"flying"}) = {} /\ In({"created"}) = {}
      /\ In({"cutting"}) = {}
  BY <1>2 DEF Flying, Live, Spawned
<1>4. Listed = {} /\ Len(users) = 0 /\ users \in Seq(Users) /\ IsInjective(users)
  BY DEF Init, Listed, ToSet, IsInjective
<1>5. Shape
  <2>1. count \in [Counters -> Nat] /\ count.sent = 0
    BY DEF Init, Counters
  <2>2. stop \in StopType
    BY DEF Init, StopType, NoStop
  <2>3. user \in [Users -> UserStates]
    BY DEF Init, UserStates
  <2>4. trial \in Trials /\ loop = "run" /\ late \in BOOLEAN
    BY DEF Init
  <2>5. target \in 0 .. MaxUsers /\ inflight \in Nat /\ count.sent <= MaxSent
    BY <1>1, <2>1 DEF Init
  <2> QED
    BY <1>4, <2>1, <2>2, <2>3, <2>4, <2>5 DEF Shape
<1>6. Conservation
  BY <1>3, FS_EmptySet DEF Init, Conservation
<1>7. Supervised
  <2>1. Spawned = 1 .. 0 /\ 0 \in 0 .. MaxUsers
    BY <1>1, <1>3
  <2> QED
    BY <2>1, <1>3, <1>4 DEF Supervised, Init
<1>8. Stages
  BY <1>3 DEF Stages, Init
<1> QED
  BY <1>5, <1>6, <1>7, <1>8 DEF ClosedInv

(* A tick moves nobody who is in flight.                                   *)
LEMMA SuperviseInv == ClosedInv /\ Supervise => ClosedInv'
<1> SUFFICES ASSUME ClosedInv, Supervise PROVE ClosedInv'
  OBVIOUS
<1> USE DEF ClosedInv
<1>1. PICK t \in 0 .. MaxUsers :
        /\ trial.stepsDown \/ t >= target
        /\ target' = t
        /\ IF t >= Len(users) THEN Spawn(t - Len(users)) ELSE Retire(t)
  BY DEF Supervise
<1>2. /\ UNCHANGED <<trial, loop, late, count, inflight, stop>>
      /\ loop = "run" /\ In({"created"}) = {}
  BY DEF Supervise, AtTick
<1>3. t \in Nat /\ MaxUsers \in Nat /\ Len(users) \in Nat /\ Len(users) = target
  BY <1>2, ClosedAssumption DEF Shape, Supervised
<1>4. ASSUME Flying' = Flying, user' \in [Users -> UserStates],
             users' \in Seq(Users), IsInjective(users'),
             ~trial.stepsDown => In({"cutting"})' = In({"cutting"})
      PROVE  Shape' /\ Conservation' /\ Stages'
  <2>1. Shape'
    BY <1>1, <1>2, <1>4 DEF Shape
  <2>2. Conservation'
    BY <1>2, <1>4 DEF Conservation
  <2>3. Stages'
    BY <1>2, <1>4 DEF Stages
  <2> QED
    BY <2>1, <2>2, <2>3
<1>5. CASE t >= Len(users)
  <2> DEFINE n == t - Len(users)
  <2>1. n \in Nat /\ Len(users) + n = t /\ Spawn(n)
    BY <1>1, <1>3, <1>5
  <2> HIDE DEF n
  <2>2. PICK k \in Nat :
          /\ k + n <= MaxUsers /\ Spawned = 1 .. k /\ Spawned' = 1 .. k + n
          /\ user' \in [Users -> UserStates] /\ Flying' = Flying
          /\ Live' = Live \cup (k + 1 .. k + n) /\ In({"cutting"})' = In({"cutting"})
          /\ users' \in Seq(Users) /\ IsInjective(users') /\ Len(users') = Len(users) + n
          /\ Listed' = Listed \cup (k + 1 .. k + n)
    BY <2>1, SpawnMoves
  <2>3. Spawned' = Spawned \cup (k + 1 .. k + n) /\ k + n \in 0 .. MaxUsers
    BY <1>3, <2>1, <2>2
  <2>4. Supervised'
    BY <1>1, <1>2, <2>1, <2>2, <2>3 DEF Supervised
  <2> QED
    BY <1>4, <2>2, <2>4
<1>6. CASE t < Len(users)
  <2>1. Retire(t) /\ trial.stepsDown
    BY <1>1, <1>3, <1>6
  <2>2. PICK S :
          /\ user' \in [Users -> UserStates] /\ Flying' = Flying /\ Spawned' = Spawned
          /\ In({"created"})' = {} /\ Live' = Live \ S
          /\ users' \in Seq(Users) /\ IsInjective(users') /\ Len(users') = t
          /\ Listed = Listed' \cup S /\ Listed' \cap S = {}
    BY <1>2, <1>3, <1>6, <2>1, RetireMoves
  <2>3. Supervised'
    BY <1>1, <1>2, <2>1, <2>2 DEF Supervised
  <2> QED
    BY <1>4, <2>1, <2>2, <2>3
<1> QED
  BY <1>3, <1>5, <1>6

(* The listed users are cancelled: with them everyone who is in flight.    *)
LEMMA CancelInv ==
  ASSUME ClosedInv, In({"created"}) = {}, NEW s \in StopType, inflight <= s.atStop,
         loop \in {"run", "drain"}, CancelFrom(s),
         UNCHANGED <<trial, late, target, users, count, inflight>>
  PROVE  ClosedInv' /\ Flying' = Flying /\ loop' = "cancel"
<1> USE DEF ClosedInv
<1>1. /\ loop' = "cancel" /\ stop' = [s EXCEPT !.interrupted = inflight] /\ CancelAll(Listed)
  BY DEF CancelFrom, Listed
<1>2. /\ user' \in [Users -> UserStates]
      /\ Flying' = Flying /\ Spawned' = Spawned /\ In({"created"})' = {}
      /\ In({"flying"})' = In({"flying"}) \ Listed /\ Live' = (Live \ Listed) \cup {}
  BY <1>1, CancelMoves
<1>3. In({"flying"})' = {} /\ Live' = {}
  BY <1>2 DEF Supervised, Live, In
<1>4. /\ stop' \in StopType /\ stop'.interrupted = inflight /\ stop'.atStop = s.atStop
  BY <1>1 DEF StopType, Shape
<1>5. Shape'
  BY <1>1, <1>2, <1>4 DEF Shape
<1>6. Conservation'
  BY <1>2 DEF Conservation
<1>7. Supervised'
  <2>1. Listed' = Listed
    BY DEF Listed
  <2> QED
    BY <1>1, <1>2, <1>3, <2>1 DEF Supervised
<1>8. Stages'
  <2>1. count.cut \in Nat /\ inflight \in Nat
    BY DEF Shape, Counters
  <2> QED
    BY <1>1, <1>2, <1>3, <1>4, <2>1 DEF Stages
<1> QED
  BY <1>1, <1>2, <1>5, <1>6, <1>7, <1>8

LEMMA WindDownInv ==
  ASSUME ClosedInv, AtTick, NEW reason \in {"deadline", "error_rate"}, NEW n \in Nat,
         NEW e \in Nat, WindDown(reason, n, e),
         UNCHANGED <<trial, late, target, users, count, inflight>>
  PROVE  ClosedInv' /\ Flying' = Flying /\ loop' \in {"drain", "cancel"}
<1> DEFINE s == [NoStop EXCEPT !.reason = reason, !.sent = n, !.errors = e, !.atStop = inflight]
<1> USE DEF ClosedInv
<1>1. s \in StopType /\ s.atStop = inflight
  BY DEF NoStop, StopType, Shape
<1> HIDE DEF s
<1>2. In({"created"}) = {} /\ inflight <= s.atStop /\ loop = "run"
  BY <1>1 DEF AtTick, Shape
<1>3. CASE loop' = "drain" /\ stop' = s /\ UNCHANGED user
  <2>1. /\ Flying' = Flying /\ Live' = Live /\ Spawned' = Spawned /\ Listed' = Listed
        /\ In({"created"})' = {} /\ In({"cutting"})' = In({"cutting"})
    BY <1>2, <1>3 DEF Flying, Live, Spawned, Listed, In
  <2>2. Shape'
    BY <1>1, <1>3 DEF Shape
  <2>3. Conservation' /\ Supervised' /\ Stages'
    BY <1>1, <1>2, <1>3, <2>1 DEF Conservation, Supervised, Stages
  <2> QED
    BY <1>3, <2>1, <2>2, <2>3
<1>4. CASE CancelFrom(s)
  BY <1>1, <1>2, <1>4, CancelInv
<1> QED
  BY <1>3, <1>4 DEF WindDown, s

(* One of the driver's counters goes up.                                   *)
LEMMA OneCounted ==
  ASSUME NEW f \in [Counters -> Nat], NEW c \in Counters, NEW g, g = [f EXCEPT ![c] = @ + 1]
  PROVE  /\ g \in [Counters -> Nat] /\ g[c] = f[c] + 1
         /\ \A d \in Counters \ {c} : g[d] = f[d]
  BY SMT

(* A user's request starts or ends: the counter follows.                   *)
LEMMA FlyingCount ==
  ASSUME Conservation, NEW u \in Users
  PROVE  /\ u \notin Flying /\ Flying' = Flying \cup {u} => inflight + 1 = Cardinality(Flying')
         /\ u \in Flying /\ Flying' = Flying \ {u} =>
              inflight - 1 = Cardinality(Flying') /\ inflight - 1 \in Nat
<1>1. IsFiniteSet(Flying) /\ inflight = Cardinality(Flying)
  BY InFinite DEF Flying, Conservation
<1>2. IsFiniteSet(Flying \ {u}) /\ Cardinality(Flying \ {u}) \in Nat
  BY <1>1, FS_Subset, FS_CardinalityType
<1> QED
  BY <1>1, <1>2, FS_AddElement, FS_RemoveElement

(* A step of a user leaves the supervisor alone.                           *)
LEMMA UserTurnsInv ==
  ASSUME ClosedInv, NEW u \in Users, UserTurns(u)
  PROVE  ClosedInv' /\ IF GoesOn THEN u \notin Flying /\ Flying' = Flying \cup {u}
                                 ELSE UNCHANGED <<Flying, count>>
<1> USE DEF ClosedInv
<1>1. /\ UNCHANGED <<trial, loop, late, target, users, stop>> /\ Listed' = Listed
      /\ user[u] \in {"created", "thinking"} /\ u \notin Flying /\ u \in Live
  BY DEF UserTurns, Listed, Flying, Live, In
<1>2. CASE GoesOn
  <2>1. /\ count.sent < MaxSent /\ user' = [user EXCEPT ![u] = "flying"]
        /\ count' = [count EXCEPT !.sent = @ + 1] /\ inflight' = inflight + 1 /\ loop = "run"
    BY <1>2 DEF UserTurns, SendAgain, GoesOn
  <2>2. /\ user' \in [Users -> UserStates]
        /\ user'[u] = "flying" /\ \A v \in Users \ {u} : user'[v] = user[v]
    BY <2>1, OneMoves DEF UserStates
  <2>3. /\ Flying' = Flying \cup {u} /\ Live' = Live /\ Spawned' = Spawned
        /\ In({"cutting"})' = In({"cutting"})
    BY <1>1, <2>2 DEF Flying, Live, Spawned, In
  <2>4. /\ count' \in [Counters -> Nat] /\ count'.sent = count.sent + 1 /\ count'.sent <= MaxSent
        /\ \A c \in Counters \ {"sent"} : count'[c] = count[c]
    <3>1. count \in [Counters -> Nat] /\ "sent" \in Counters
      BY DEF Shape, Counters
    <3>2. count' \in [Counters -> Nat] /\ count'["sent"] = count["sent"] + 1
          /\ \A c \in Counters \ {"sent"} : count'[c] = count[c]
      BY <2>1, <3>1, OneCounted
    <3> QED
      BY <2>1, <3>1, <3>2, ClosedAssumption
  <2>5. Conservation'
    <3>1. inflight' = Cardinality(Flying')
      BY <1>1, <2>1, <2>3, FlyingCount
    <3>2. /\ {count.sent, count.ok, count.bad, count.lost, count.cut, inflight} \subseteq Nat
          /\ count'.ok = count.ok /\ count'.bad = count.bad
          /\ count'.lost = count.lost /\ count'.cut = count.cut
      BY <2>4 DEF Shape, Counters
    <3> QED
      BY <2>1, <2>4, <3>1, <3>2 DEF Conservation
  <2>6. Shape'
    BY <1>1, <2>1, <2>2, <2>4 DEF Shape
  <2>7. Supervised'
    BY <1>1, <2>3, <2>4 DEF Supervised, Counters
  <2>8. Stages'
    BY <1>1, <2>1, <2>3, <2>4 DEF Stages, Counters
  <2> QED
    BY <1>1, <1>2, <2>3, <2>5, <2>6, <2>7, <2>8
<1>3. CASE ~GoesOn
  <2>1. user' = [user EXCEPT ![u] = "ended"] /\ count' = count /\ inflight' = inflight
    BY <1>3 DEF UserTurns, SendAgain, Shape
  <2>2. /\ user' \in [Users -> UserStates]
        /\ user'[u] = "ended" /\ \A v \in Users \ {u} : user'[v] = user[v]
    BY <2>1, OneMoves DEF UserStates
  <2>3. /\ Flying' = Flying /\ Live' \subseteq Live /\ Spawned' = Spawned
        /\ In({"cutting"})' = In({"cutting"}) /\ In({"created"})' \subseteq In({"created"})
        /\ In({"flying"})' = In({"flying"})
    BY <1>1, <2>2 DEF Flying, Live, Spawned, In
  <2>4. Shape'
    BY <1>1, <2>1, <2>2 DEF Shape
  <2>5. Conservation' /\ Stages'
    BY <1>1, <2>1, <2>3 DEF Conservation, Stages
  <2>6. Supervised'
    BY <1>1, <1>3, <2>1, <2>3 DEF Supervised, GoesOn
  <2> QED
    BY <1>3, <2>1, <2>3, <2>4, <2>5, <2>6
<1> QED
  BY <1>2, <1>3

(* A request ends, judged, lost with its judge or cut: it was in flight,   *)
(* and is counted once.                                                    *)
LEMMA RequestEndsInv ==
  ASSUME ClosedInv, NEW u \in Users, NEW c \in {"ok", "bad", "lost", "cut"},
         NEW s \in {"thinking", "ended"},
         user' = [user EXCEPT ![u] = s], count' = [count EXCEPT ![c] = @ + 1],
         inflight' = inflight - 1, UNCHANGED <<trial, loop, late, target, users, stop>>,
         user[u] = IF c = "cut" THEN "cutting" ELSE "flying",
         s = "thinking" \/ c = "cut" \/ c = "lost" \/ ~GoesOn,
         c = "cut" => s = "ended"
  PROVE  ClosedInv' /\ u \in Flying /\ Flying' = Flying \ {u}
<1> USE DEF ClosedInv
<1>1. /\ Listed' = Listed /\ u \in Flying
      /\ c # "cut" => u \in In({"flying"})
      /\ c = "cut" => u \in In({"cutting"})
  BY DEF Listed, Flying, In
<1>2. /\ user' \in [Users -> UserStates]
      /\ user'[u] = s /\ \A v \in Users \ {u} : user'[v] = user[v]
  BY OneMoves DEF UserStates
<1>3. /\ Flying' = Flying \ {u} /\ Spawned' = Spawned
      /\ In({"cutting"})' \subseteq In({"cutting"}) /\ In({"created"})' \subseteq In({"created"})
      /\ In({"flying"})' \subseteq In({"flying"})
      /\ Live' \subseteq Live /\ (s = "thinking" \/ c = "cut" => Live' = Live)
  BY <1>1, <1>2 DEF Flying, Live, Spawned, In
<1>4. /\ count' \in [Counters -> Nat] /\ count'[c] = count[c] + 1
      /\ \A d \in Counters \ {c} : count'[d] = count[d]
  <2>1. count \in [Counters -> Nat] /\ c \in Counters
    BY DEF Shape, Counters
  <2> QED
    BY <2>1, OneCounted
<1>5. inflight \in Nat /\ inflight' \in Nat /\ inflight' = Cardinality(Flying')
  BY <1>1, <1>3, FlyingCount DEF Shape
<1>6. Shape'
  BY <1>2, <1>4, <1>5 DEF Shape, Counters
<1>7. Conservation'
  <2>1. count'.sent = count.sent
    BY <1>4 DEF Counters
  <2>2. /\ {count.ok, count.bad, count.lost, count.cut} \subseteq Nat
        /\ count'.ok + count'.bad + count'.lost + count'.cut
             = count.ok + count.bad + count.lost + count.cut + 1
    <3>1. count.ok \in Nat /\ count.bad \in Nat /\ count.lost \in Nat /\ count.cut \in Nat
      BY DEF Shape, Counters
    <3>2. CASE c = "ok"
      BY <1>4, <3>1, <3>2 DEF Counters
    <3>3. CASE c = "bad"
      BY <1>4, <3>1, <3>3 DEF Counters
    <3>4. CASE c = "lost"
      BY <1>4, <3>1, <3>4 DEF Counters
    <3>5. CASE c = "cut"
      BY <1>4, <3>1, <3>5 DEF Counters
    <3> QED
      BY <3>1, <3>2, <3>3, <3>4, <3>5
  <2> QED
    BY <1>5, <2>1, <2>2 DEF Conservation
<1>8. Supervised'
  <2>1. c = "lost" => count'.lost # 0
    BY <1>4 DEF Shape, Counters
  <2>2. count'.lost = 0 => count.lost = 0
    BY <1>4, <2>1 DEF Counters
  <2> QED
    BY <1>1, <1>3, <2>1, <2>2 DEF Supervised, GoesOn
<1>9. Stages'
  <2>1. CASE c # "cut"
    <3>0. count'.cut = count.cut
      BY <1>4, <2>1 DEF Counters
    <3>1. loop \in {"run", "drain"} /\ count'.cut = count.cut
      BY <1>1, <2>1, <3>0 DEF Stages, Shape
    <3> QED
      BY <1>3, <1>5, <3>1 DEF Stages, Shape, StopType
  <2>2. CASE c = "cut"
    <3>1. count'.cut + inflight' = count.cut + inflight
      BY <1>4, <1>5, <2>2 DEF Shape, Counters
    <3>2. ~trial.stepsDown => loop = "cancel"
      BY <1>1, <2>2 DEF Stages, Shape
    <3> QED
      BY <1>3, <1>5, <3>1, <3>2 DEF Stages, Shape, StopType
  <2> QED
    BY <2>1, <2>2
<1> QED
  BY <1>1, <1>3, <1>6, <1>7, <1>8, <1>9

(* ... and a user that does not think sends the next request at once.      *)
LEMMA SendsAgainInv ==
  ASSUME ClosedInv, NEW u \in Users, NEW v \in {"ok", "bad"}, user[u] = "flying", GoesOn,
         SendAgain(u, [count EXCEPT ![v] = @ + 1]), inflight' = inflight - 0,
         UNCHANGED <<trial, loop, late, target, users, stop>>
  PROVE  /\ ClosedInv' /\ u \in Flying /\ Flying' = Flying
         /\ count'[v] = count[v] + 1 /\ \A d \in Counters \ {v, "sent"} : count'[d] = count[d]
<1> USE DEF ClosedInv
<1> DEFINE ended == [count EXCEPT ![v] = @ + 1]
<1>1. /\ count.sent < MaxSent /\ user' = [user EXCEPT ![u] = "flying"]
      /\ count' = [ended EXCEPT !["sent"] = @ + 1] /\ loop = "run"
  BY DEF SendAgain, GoesOn
<1>2. user' = user /\ inflight' = inflight /\ u \in Flying
  BY <1>1 DEF Shape, Flying, In
<1>3. /\ count \in [Counters -> Nat] /\ {v, "sent"} \subseteq Counters /\ v # "sent"
      /\ ended \in [Counters -> Nat] /\ ended[v] = count[v] + 1
      /\ \A d \in Counters \ {v} : ended[d] = count[d]
  <2>1. count \in [Counters -> Nat] /\ {v, "sent"} \subseteq Counters /\ v # "sent"
    BY DEF Shape, Counters
  <2> QED
    BY <2>1, OneCounted
<1> HIDE DEF ended
<1>4. /\ count' \in [Counters -> Nat] /\ count'[v] = count[v] + 1
      /\ count'.sent = count.sent + 1 /\ count'.sent <= MaxSent
      /\ \A d \in Counters \ {v, "sent"} : count'[d] = count[d]
  <2>1. count' \in [Counters -> Nat] /\ count'["sent"] = ended["sent"] + 1
        /\ \A d \in Counters \ {"sent"} : count'[d] = ended[d]
    BY <1>1, <1>3, OneCounted
  <2> QED
    BY <1>1, <1>3, <2>1, ClosedAssumption
<1>5. /\ Flying' = Flying /\ Live' = Live /\ Spawned' = Spawned /\ Listed' = Listed
      /\ In({"cutting"})' = In({"cutting"})
  BY <1>2 DEF Flying, Live, Spawned, Listed, In
<1>6. Shape'
  BY <1>1, <1>2, <1>4 DEF Shape
<1>7. Conservation'
  <2>1. /\ {count.sent, count.ok, count.bad, count.lost, count.cut, inflight} \subseteq Nat
        /\ count'.ok + count'.bad = count.ok + count.bad + 1
        /\ count'.lost = count.lost /\ count'.cut = count.cut
    <3>1. {count.sent, count.ok, count.bad, count.lost, count.cut, inflight} \subseteq Nat
      BY DEF Shape, Counters
    <3>2. CASE v = "ok"
      BY <1>4, <3>1, <3>2 DEF Counters
    <3>3. CASE v = "bad"
      BY <1>4, <3>1, <3>3 DEF Counters
    <3> QED
      BY <3>1, <3>2, <3>3
  <2> QED
    BY <1>2, <1>4, <1>5, <2>1 DEF Conservation
<1>8. Supervised' /\ Stages'
  BY <1>1, <1>2, <1>4, <1>5 DEF Supervised, Stages, Counters
<1> QED
  BY <1>2, <1>4, <1>5, <1>6, <1>7, <1>8

Done == count.ok + count.bad + count.lost

(* What a step of a user does to the requests, as a trial counts them.     *)
Requests(fly, done, cut) ==
  inflight' = inflight + fly /\ Done' = Done + done /\ count'.cut = count.cut + cut

LEMMA EndsOnce ==
  ASSUME ClosedInv, NEW u \in Users, NEW c \in {"ok", "bad", "lost", "cut"},
         NEW s \in {"thinking", "ended"},
         user' = [user EXCEPT ![u] = s], count' = [count EXCEPT ![c] = @ + 1],
         inflight' = inflight - 1, UNCHANGED <<trial, loop, late, target, users, stop>>,
         user[u] = IF c = "cut" THEN "cutting" ELSE "flying",
         s = "thinking" \/ c = "cut" \/ c = "lost" \/ ~GoesOn,
         c = "cut" => s = "ended"
  PROVE  /\ ClosedInv' /\ inflight > 0
         /\ IF c = "cut" THEN Requests(-1, 0, 1) ELSE Requests(-1, 1, 0)
<1>1. ClosedInv' /\ u \in Flying /\ Flying' = Flying \ {u}
  BY RequestEndsInv
<1>2. inflight - 1 \in Nat /\ inflight \in Nat
  BY <1>1, FlyingCount DEF ClosedInv, Shape
<1>3. count \in [Counters -> Nat] /\ c \in Counters
  BY DEF ClosedInv, Shape, Counters
<1>4. count'[c] = count[c] + 1 /\ \A d \in Counters \ {c} : count'[d] = count[d]
  BY <1>3, OneCounted
<1>5. count.ok \in Nat /\ count.bad \in Nat /\ count.lost \in Nat /\ count.cut \in Nat
  BY <1>3 DEF Counters
<1>6. CASE c = "ok"
  BY <1>1, <1>2, <1>4, <1>5, <1>6 DEF Requests, Done, Counters
<1>7. CASE c = "bad"
  BY <1>1, <1>2, <1>4, <1>5, <1>7 DEF Requests, Done, Counters
<1>8. CASE c = "lost"
  BY <1>1, <1>2, <1>4, <1>5, <1>8 DEF Requests, Done, Counters
<1>9. CASE c = "cut"
  BY <1>1, <1>2, <1>4, <1>5, <1>9 DEF Requests, Done, Counters
<1> QED
  BY <1>6, <1>7, <1>8, <1>9

LEMMA UserStepInv ==
  ASSUME ClosedInv, NEW u \in Users, UserStep(u)
  PROVE  /\ ClosedInv' /\ UNCHANGED loop
         /\ \/ loop = "run" /\ Requests(1, 0, 0)
            \/ Requests(0, 0, 0)
            \/ inflight > 0 /\ Requests(-1, 1, 0)
            \/ loop = "run" /\ inflight > 0 /\ Requests(0, 1, 0)
            \/ inflight > 0 /\ Requests(-1, 0, 1)
<1>0. /\ UNCHANGED loop /\ inflight \in Nat /\ count \in [Counters -> Nat]
      /\ count.ok \in Nat /\ count.bad \in Nat /\ count.lost \in Nat /\ count.cut \in Nat
  BY DEF UserStep, UserTurns, FireEnds, JudgeFails, Cut, ClosedInv, Shape, Counters
<1>1. CASE UserTurns(u)
  <2>1. ClosedInv'
    BY <1>1, UserTurnsInv
  <2>2. CASE GoesOn
    <3>1. /\ loop = "run" /\ inflight' = inflight + 1
          /\ count' = [count EXCEPT !["sent"] = @ + 1] /\ "sent" \in Counters
      BY <1>1, <2>2 DEF UserTurns, SendAgain, GoesOn, Counters
    <3>2. \A d \in Counters \ {"sent"} : count'[d] = count[d]
      BY <1>0, <3>1, OneCounted
    <3>3. Requests(1, 0, 0)
      BY <1>0, <3>1, <3>2 DEF Requests, Done, Counters
    <3> QED
      BY <1>0, <2>1, <3>1, <3>3
  <2>3. CASE ~GoesOn
    <3>1. inflight' = inflight + 0 /\ count' = count
      BY <1>1, <2>3 DEF UserTurns, SendAgain
    <3>2. Requests(0, 0, 0)
      BY <1>0, <3>1 DEF Requests, Done
    <3> QED
      BY <1>0, <2>1, <3>2
  <2> QED
    BY <2>2, <2>3
<1>2. CASE FireEnds(u)
  <2>1. PICK v \in {"ok", "bad"}, waits \in Waits :
          IF waits
            THEN /\ user' = [user EXCEPT ![u] = "thinking"]
                 /\ count' = [count EXCEPT ![v] = @ + 1] /\ inflight' = inflight - 1
            ELSE /\ SendAgain(u, [count EXCEPT ![v] = @ + 1])
                 /\ inflight' = inflight - (IF GoesOn THEN 0 ELSE 1)
    BY <1>2 DEF FireEnds
  <2>2. user[u] = "flying" /\ UNCHANGED <<trial, loop, late, target, users, stop>>
    BY <1>2 DEF FireEnds
  <2>3. v \in {"ok", "bad", "lost", "cut"} /\ v # "cut"
    OBVIOUS
  <2>4. CASE waits
    <3>1. ClosedInv' /\ inflight > 0 /\ Requests(-1, 1, 0)
      BY <2>1, <2>2, <2>3, <2>4, EndsOnce
    <3> QED
      BY <1>0, <3>1
  <2>5. CASE ~waits /\ ~GoesOn
    <3>1. /\ user' = [user EXCEPT ![u] = "ended"]
          /\ count' = [count EXCEPT ![v] = @ + 1] /\ inflight' = inflight - 1
      BY <2>1, <2>5 DEF SendAgain
    <3>2. ClosedInv' /\ inflight > 0 /\ Requests(-1, 1, 0)
      BY <2>2, <2>3, <2>5, <3>1, EndsOnce
    <3> QED
      BY <1>0, <3>2
  <2>6. CASE ~waits /\ GoesOn
    <3>1. SendAgain(u, [count EXCEPT ![v] = @ + 1]) /\ inflight' = inflight - 0 /\ loop = "run"
      BY <2>1, <2>6 DEF GoesOn
    <3>2. /\ ClosedInv' /\ u \in Flying /\ Flying' = Flying
          /\ count'[v] = count[v] + 1 /\ \A d \in Counters \ {v, "sent"} : count'[d] = count[d]
      BY <2>2, <2>6, <3>1, SendsAgainInv
    <3>3. inflight > 0
      BY <1>0, <3>2, InFinite, FS_EmptySet DEF ClosedInv, Conservation, Flying
    <3>4. CASE v = "ok"
      BY <1>0, <3>1, <3>2, <3>3, <3>4 DEF Requests, Done, Counters
    <3>5. CASE v = "bad"
      BY <1>0, <3>1, <3>2, <3>3, <3>5 DEF Requests, Done, Counters
    <3> QED
      BY <3>4, <3>5
  <2> QED
    BY <2>4, <2>5, <2>6
<1>3. CASE JudgeFails(u)
  <2>1. /\ user[u] = "flying" /\ user' = [user EXCEPT ![u] = "ended"]
        /\ count' = [count EXCEPT !["lost"] = @ + 1] /\ inflight' = inflight - 1
        /\ UNCHANGED <<trial, loop, late, target, users, stop>>
    BY <1>3 DEF JudgeFails
  <2>2. ClosedInv' /\ inflight > 0 /\ Requests(-1, 1, 0)
    BY <2>1, EndsOnce
  <2> QED
    BY <1>0, <2>2
<1>4. CASE Cut(u)
  <2>1. /\ user[u] = "cutting" /\ user' = [user EXCEPT ![u] = "ended"]
        /\ count' = [count EXCEPT !["cut"] = @ + 1] /\ inflight' = inflight - 1
        /\ UNCHANGED <<trial, loop, late, target, users, stop>>
    BY <1>4 DEF Cut
  <2>2. ClosedInv' /\ inflight > 0 /\ Requests(-1, 0, 1)
    BY <2>1, EndsOnce
  <2> QED
    BY <1>0, <2>2
<1> QED
  BY <1>1, <1>2, <1>3, <1>4 DEF UserStep

LEMMA BreakCounts ==
  ASSUME ClosedInv
  PROVE  count.ok + count.bad \in Nat /\ count.bad \in Nat
  BY DEF ClosedInv, Shape, Counters

LEMMA StoppedInv == ClosedInv /\ Stopped => ClosedInv' /\ UNCHANGED <<Flying, count, trial>>
<1> SUFFICES ASSUME ClosedInv, Stopped
             PROVE  ClosedInv' /\ UNCHANGED <<Flying, count, trial>>
  OBVIOUS
<1> USE DEF ClosedInv
<1>1. /\ loop = "cancel" /\ loop' = "stopped" /\ Flying \cap Listed = {}
      /\ UNCHANGED <<trial, late, target, users, user, count, inflight, stop>>
  BY DEF Stopped, Listed
<1>2. Flying' = Flying /\ Live' = Live /\ Spawned' = Spawned /\ Listed' = Listed
      /\ In({"created"})' = In({"created"}) /\ In({"flying"})' = In({"flying"})
  BY <1>1 DEF Flying, Live, Spawned, Listed, In
<1>3. ~trial.stepsDown => Flying = {}
  <2>1. Flying \subseteq Spawned
    BY DEF Flying, Spawned, In
  <2> QED
    BY <1>1, <2>1 DEF Supervised
<1>4. Shape'
  BY <1>1 DEF Shape
<1>5. Conservation' /\ Supervised' /\ Stages'
  BY <1>1, <1>2, <1>3 DEF Conservation, Supervised, Stages
<1> QED
  BY <1>1, <1>2, <1>4, <1>5

LEMMA DrainEndsInv ==
  ClosedInv /\ DrainEnds => ClosedInv' /\ Flying' = Flying /\ loop' = "cancel"
<1> SUFFICES ASSUME ClosedInv, DrainEnds
             PROVE  ClosedInv' /\ Flying' = Flying /\ loop' = "cancel"
  OBVIOUS
<1>1. /\ loop = "drain" /\ CancelFrom(stop)
      /\ UNCHANGED <<trial, late, target, users, count, inflight>>
  BY DEF DrainEnds
<1>2. In({"created"}) = {} /\ stop \in StopType /\ inflight <= stop.atStop
  BY <1>1 DEF ClosedInv, Shape, Stages
<1> QED
  BY <1>1, <1>2, CancelInv

LEMMA QuietInv ==
  ASSUME ClosedInv, late' \in BOOLEAN, late => late',
         UNCHANGED <<trial, loop, target, users, user, count, inflight, stop>>
  PROVE  ClosedInv' /\ Flying' = Flying
<1>1. Flying' = Flying /\ Live' = Live /\ Spawned' = Spawned /\ Listed' = Listed
      /\ In({"created"})' = In({"created"}) /\ In({"flying"})' = In({"flying"})
      /\ In({"cutting"})' = In({"cutting"})
  BY DEF Flying, Live, Spawned, Listed, In
<1>2. Shape'
  BY DEF ClosedInv, Shape
<1>3. Conservation' /\ Supervised' /\ Stages'
  BY <1>1 DEF ClosedInv, Conservation, Supervised, Stages
<1> QED
  BY <1>1, <1>2, <1>3 DEF ClosedInv

LEMMA ClosedStep == ClosedInv /\ [Next]_vars => ClosedInv'
<1> SUFFICES ASSUME ClosedInv, [Next]_vars PROVE ClosedInv'
  OBVIOUS
<1>1. CASE Supervise
  BY <1>1, SuperviseInv
<1>2. CASE Clock
  BY <1>2, QuietInv DEF Clock
<1>3. CASE Deadline
  BY <1>3, WindDownInv DEF Deadline
<1>4. CASE Break
  BY <1>4, BreakCounts, WindDownInv DEF Break
<1>5. CASE DrainEnds
  BY <1>5, DrainEndsInv
<1>6. CASE Stopped
  BY <1>6, StoppedInv
<1>7. CASE UNCHANGED vars
  BY <1>7, QuietInv DEF vars, ClosedInv, Shape
<1>8. ASSUME NEW u \in Users, UserStep(u) PROVE ClosedInv'
  BY <1>8, UserStepInv
<1> QED
  BY <1>1, <1>2, <1>3, <1>4, <1>5, <1>6, <1>7, <1>8 DEF Next, Returned

LEMMA ClosedInvariant == Spec => []ClosedInv
  BY ClosedInit, ClosedStep, PTL DEF Spec

-----------------------------------------------------------------------------
LEMMA InvType == ClosedInv => TypeOK
<1> SUFFICES ASSUME ClosedInv PROVE TypeOK
  OBVIOUS
<1>1. Shape /\ Conservation
  BY DEF ClosedInv
<1>2. inflight \in 0 .. MaxUsers
  BY <1>1, InFinite, ClosedAssumption DEF Conservation, Flying
<1>3. /\ count.sent \in Nat /\ count.ok \in Nat /\ count.bad \in Nat /\ count.lost \in Nat
      /\ count.cut \in Nat /\ inflight \in Nat /\ count.sent <= MaxSent /\ MaxSent \in Nat
      /\ count \in [Counters -> Nat]
  BY <1>1, ClosedAssumption DEF Shape, Counters
<1>4. count.sent = count.ok + count.bad + count.lost + count.cut + inflight
  BY <1>1 DEF Conservation
<1>5. /\ count["sent"] \in 0 .. MaxSent /\ count["ok"] \in 0 .. MaxSent
      /\ count["bad"] \in 0 .. MaxSent /\ count["lost"] \in 0 .. MaxSent
      /\ count["cut"] \in 0 .. MaxSent
  BY <1>3, <1>4
<1>6. count \in [{"sent", "ok", "bad", "lost", "cut"} -> 0 .. MaxSent]
  <2>1. \A c \in Counters : count[c] \in 0 .. MaxSent
    BY <1>5 DEF Counters
  <2> QED
    BY <1>3, <2>1 DEF Counters
<1> QED
  BY <1>1, <1>2, <1>6 DEF Shape, UserStates, StopType, TypeOK

LEMMA InvTracked == ClosedInv => TargetTracked
<1> SUFFICES ASSUME ClosedInv, loop = "run", ~late
             PROVE  LET n == Cardinality(Live)
                    IN  n = target \/ (n < target /\ count.lost > 0)
  BY DEF TargetTracked
<1>1. /\ Live \subseteq Listed /\ Len(users) = target
      /\ (count.lost = 0 => Live = Listed) /\ count.lost \in Nat /\ target \in Nat
  <2>1. count.lost \in Nat /\ target \in Nat
    BY ClosedAssumption DEF ClosedInv, Shape, Counters
  <2>2. Live \subseteq Listed /\ Len(users) = target /\ (count.lost = 0 => Listed \subseteq Live)
    BY DEF ClosedInv, Supervised
  <2> QED
    BY <2>1, <2>2
<1>2. IsFiniteSet(Listed) /\ Cardinality(Listed) = target
  BY <1>1, ListedCount DEF ClosedInv
<1>3. Cardinality(Live) \in Nat /\ Cardinality(Live) <= target
  BY <1>1, <1>2, FS_Subset, InFinite DEF Live
<1> QED
  BY <1>1, <1>2, <1>3

LEMMA InvCensus == ClosedInv => CensusAddsUp
<1> SUFFICES ASSUME ClosedInv, loop = "stopped"
             PROVE  /\ stop.interrupted <= stop.atStop
                    /\ stop.interrupted <= count.cut + inflight
                    /\ ~trial.stepsDown => stop.interrupted = count.cut
  BY DEF CensusAddsUp
<1>1. ~trial.stepsDown => inflight = 0
  BY FS_EmptySet DEF ClosedInv, Stages, Conservation
<1>2. count.cut \in Nat
  BY DEF ClosedInv, Shape, Counters
<1> QED
  BY <1>1, <1>2 DEF ClosedInv, Stages

(* The driver's counters and its users, as the run checks them: whatever   *)
(* the schedule asks for and however requests and users end, no request is *)
(* lost or counted twice, while the load runs there are as many user loops *)
(* as asked for (fewer only where a judge raised), and what the stop       *)
(* reports as interrupted is what was in flight then and was cut.          *)
THEOREM ClosedUsersAddUp == Spec => []UsersAddUp
<1>1. ClosedInv => UsersAddUp
  BY InvType, InvTracked, InvCensus DEF UsersAddUp, ClosedInv
<1> QED
  BY <1>1, ClosedInvariant, PTL

-----------------------------------------------------------------------------
(* The driver starts a trial as the abstract trial starts.                 *)
LEMMA TrialRefinesInit == Init => Abstract!TrialInit
<1> SUFFICES ASSUME Init PROVE Abstract!TrialInit
  OBVIOUS
<1>1. Flying = {} /\ Cardinality(Flying) = 0
  BY FS_EmptySet DEF Init, Flying, In
<1> QED
  BY <1>1 DEF Init, Abstract!TrialInit

(* What its users do to the requests is what the abstract trial allows.    *)
LEMMA TrialRefinesUserStep ==
  ASSUME ClosedInv, NEW u \in Users, UserStep(u)
  PROVE  [Abstract!TrialNext]_(Abstract!trialVars)
<1>1. /\ ClosedInv' /\ UNCHANGED loop
      /\ \/ loop = "run" /\ Requests(1, 0, 0)
         \/ Requests(0, 0, 0)
         \/ inflight > 0 /\ Requests(-1, 1, 0)
         \/ loop = "run" /\ inflight > 0 /\ Requests(0, 1, 0)
         \/ inflight > 0 /\ Requests(-1, 0, 1)
  BY UserStepInv
<1>2. /\ Cardinality(Flying) = inflight /\ Cardinality(Flying') = inflight'
      /\ inflight \in Nat /\ Done \in Nat /\ count.cut \in Nat
  <2>1. Cardinality(Flying) = inflight /\ Cardinality(Flying') = inflight'
    BY <1>1 DEF ClosedInv, Conservation
  <2>2. inflight \in Nat /\ count \in [Counters -> Nat]
    BY DEF ClosedInv, Shape
  <2>3. count.ok \in Nat /\ count.bad \in Nat /\ count.lost \in Nat /\ count.cut \in Nat
    BY <2>2 DEF Counters
  <2> QED
    BY <2>1, <2>2, <2>3 DEF Done
<1>3. CASE loop = "run" /\ Requests(1, 0, 0)
  <2>1. Abstract!Dispatch
    BY <1>1, <1>2, <1>3 DEF Abstract!Dispatch, Requests, Done
  <2> QED
    BY <2>1 DEF Abstract!TrialNext
<1>4. CASE Requests(0, 0, 0)
  BY <1>1, <1>2, <1>4 DEF Abstract!trialVars, Requests, Done
<1>5. CASE inflight > 0 /\ Requests(-1, 1, 0)
  <2>1. Abstract!Complete
    BY <1>1, <1>2, <1>5 DEF Abstract!Complete, Requests, Done
  <2> QED
    BY <2>1 DEF Abstract!TrialNext
<1>6. CASE loop = "run" /\ inflight > 0 /\ Requests(0, 1, 0)
  <2>1. Abstract!CompleteAndDispatch
    BY <1>1, <1>2, <1>6 DEF Abstract!CompleteAndDispatch, Requests, Done
  <2> QED
    BY <2>1 DEF Abstract!TrialNext
<1>7. CASE inflight > 0 /\ Requests(-1, 0, 1)
  <2>1. Abstract!Cancel
    BY <1>1, <1>2, <1>7 DEF Abstract!Cancel, Requests, Done
  <2> QED
    BY <2>1 DEF Abstract!TrialNext
<1> QED
  BY <1>1, <1>3, <1>4, <1>5, <1>6, <1>7

(* Every other step is a step of the trial, leaves it unchanged, or is the *)
(* return beside users that a falling schedule retired.                    *)
LEMMA TrialRefinesStep ==
  ClosedInv /\ [Next]_vars =>
    [Abstract!TrialNext \/ ReturnsBesideRetired]_(Abstract!trialVars)
<1> SUFFICES ASSUME ClosedInv, [Next]_vars
             PROVE  [Abstract!TrialNext \/ ReturnsBesideRetired]_(Abstract!trialVars)
  OBVIOUS
<1> DEFINE AbsStep == [Abstract!TrialNext \/ ReturnsBesideRetired]_(Abstract!trialVars)
<1>1. ASSUME Flying' = Flying, count' = count, loop' = loop PROVE AbsStep
  BY <1>1 DEF Abstract!trialVars
<1>2. ASSUME loop = "run", loop' \in {"drain", "cancel"}, Flying' = Flying, count' = count
      PROVE  AbsStep
  <2>1. Abstract!Stop
    BY <1>2 DEF Abstract!Stop
  <2> QED
    BY <2>1 DEF Abstract!TrialNext
<1>3. CASE Supervise
  <2>1. ClosedInv' /\ inflight' = inflight /\ count' = count /\ loop' = loop
    BY <1>3, SuperviseInv DEF Supervise
  <2>2. Cardinality(Flying)' = Cardinality(Flying)
    BY <2>1 DEF ClosedInv, Conservation
  <2> QED
    BY <2>1, <2>2 DEF Abstract!trialVars
<1>4. CASE Clock \/ UNCHANGED vars
  BY <1>1, <1>4 DEF Clock, vars, Flying, In
<1>5. CASE Deadline \/ Break
  <2>1. AtTick /\ loop = "run" /\ UNCHANGED <<trial, late, target, users, count, inflight>>
    BY <1>5 DEF Deadline, Break, AtTick
  <2>2. PICK r \in {"deadline", "error_rate"}, n \in Nat, e \in Nat : WindDown(r, n, e)
    BY <1>5, BreakCounts DEF Deadline, Break
  <2>3. Flying' = Flying /\ loop' \in {"drain", "cancel"}
    BY <2>1, <2>2, WindDownInv
  <2> QED
    BY <1>2, <2>1, <2>3
<1>6. CASE DrainEnds
  <2>1. loop = "drain" /\ loop' = "cancel" /\ Flying' = Flying /\ count' = count
    BY <1>6, DrainEndsInv DEF DrainEnds
  <2> QED
    BY <2>1 DEF Abstract!trialVars
<1>7. CASE Stopped
  <2>1. /\ ClosedInv' /\ loop = "cancel" /\ loop' = "stopped" /\ Flying \cap ToSet(users) = {}
        /\ UNCHANGED <<Flying, count, trial>>
    BY <1>7, StoppedInv DEF Stopped
  <2>2. CASE trial.stepsDown
    BY <2>1, <2>2 DEF ReturnsBesideRetired
  <2>3. CASE ~trial.stepsDown
    <3>1. Flying = {}
      BY <2>1, <2>3 DEF ClosedInv, Stages
    <3>2. Abstract!Rest
      BY <2>1, <3>1, FS_EmptySet DEF Abstract!Rest
    <3> QED
      BY <3>2 DEF Abstract!TrialNext
  <2> QED
    BY <2>2, <2>3
<1>8. ASSUME NEW u \in Users, UserStep(u) PROVE AbsStep
  BY <1>8, TrialRefinesUserStep
<1> QED
  BY <1>3, <1>4, <1>5, <1>6, <1>7, <1>8 DEF Next, Returned

(* drive_closed keeps the promise of a load driver but for one step: users *)
(* that a falling schedule retired may still be cutting their requests off *)
(* when it returns.  With a schedule that never falls that step is not     *)
(* taken, and nothing is in flight at rest.                                *)
THEOREM ClosedImplementsTrial == Spec => ImplementsTrial
  BY TrialRefinesInit, TrialRefinesStep, ClosedInvariant, PTL DEF Spec, ImplementsTrial

(* With a schedule that never lowers its target the exception is gone: the *)
(* driver is the abstract trial, and nothing is in flight at rest.         *)
THEOREM ClosedSteadyIsTrial == (\A t \in Trials : ~t.stepsDown) => (Spec => Abstract!TrialSpec)
<1> SUFFICES ASSUME \A t \in Trials : ~t.stepsDown PROVE Spec => Abstract!TrialSpec
  OBVIOUS
<1>1. ClosedInv => ~ReturnsBesideRetired
  BY DEF ClosedInv, Shape, ReturnsBesideRetired
<1>2. ClosedInv /\ [Next]_vars => [Abstract!TrialNext]_(Abstract!trialVars)
  BY <1>1, TrialRefinesStep
<1> QED
  BY <1>2, TrialRefinesInit, ClosedInvariant, PTL DEF Spec, Abstract!TrialSpec
=============================================================================
