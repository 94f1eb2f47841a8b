------------------------ MODULE TrajectoryMetricsProofs ------------------------
(***************************************************************************)
(* The metrics of a trajectory run add up, for any number of recordings,   *)
(* whatever they hold, whichever plugins raise, and however often the      *)
(* process dies and the run is run again.                                  *)
(*                                                                         *)
(* MetricsInv is the inductive invariant.  To RunInv it adds that the      *)
(* trajectories of the dataset hold as many failures as the recordings     *)
(* they were read from tell of (FailuresRead), which the loader's own      *)
(* steps, traces and merged spans make the hard part, and that from        *)
(* aggregation on the metrics are those of the dataset (AddsUp).           *)
(*                                                                         *)
(* In order: sums over sets, sequences and the keys they are grouped by;   *)
(* the failures a recording tells of and those its trajectories hold; the  *)
(* metrics one kind at a time, as sets of named values; the two sums, over *)
(* targets and over targets and failures; percentiles; the measurers'      *)
(* values as numbers; the invariant.                                       *)
(***************************************************************************)
EXTENDS TrajectoryRunProofs

(* The sum over two parts that have nothing in common.                     *)
LEMMA SumUnion ==
  ASSUME NEW S, IsFiniteSet(S), NEW f \in [S -> Int], NEW sigma, IsSum(sigma, f, S),
         NEW A \in SUBSET S, NEW B \in SUBSET S, A \cap B = {}
  PROVE  sigma[A \cup B] = sigma[A] + sigma[B]
<1> DEFINE Q == {s \in SUBSET B : sigma[A \cup s] = sigma[A] + sigma[s]}
<1>0. /\ sigma \in [SUBSET S -> Int] /\ sigma[{}] = 0
      /\ \A s \in SUBSET S : \A x \in s : sigma[s] = f[x] + sigma[s \ {x}]
  BY DEF IsSum
<1>1. {} \in Q
  <2>1. A \cup {} = A /\ sigma[A] \in Int
    BY <1>0
  <2> QED
    BY <1>0, <2>1
<1>2. ASSUME NEW s \in SUBSET B, s # {} PROVE \E x \in s : s \ {x} \in Q => s \in Q
  <2>1. PICK x \in s : TRUE
    BY <1>2
  <2>2. PICK b, C, D : b = s \ {x} /\ C = A \cup s /\ D = A \cup b
    OBVIOUS
  <2>3. /\ C \in SUBSET S /\ x \in C /\ D = C \ {x} /\ s \in SUBSET S /\ b \in SUBSET S
        /\ D \in SUBSET S /\ x \in S
    BY <2>1, <2>2
  <2>4. sigma[C] = f[x] + sigma[D] /\ sigma[s] = f[x] + sigma[b]
    <3>1. sigma[C] = f[x] + sigma[C \ {x}]
      BY <1>0, <2>3
    <3>2. sigma[s] = f[x] + sigma[s \ {x}]
      BY <1>0, <2>1, <2>3
    <3> QED
      BY <2>2, <2>3, <3>1, <3>2
  <2>5. f[x] \in Int /\ sigma[D] \in Int /\ sigma[b] \in Int /\ sigma[A] \in Int
    BY <1>0, <2>3
  <2>6. sigma[D] = sigma[A] + sigma[b] => sigma[C] = sigma[A] + sigma[s]
    BY <2>4, <2>5
  <2> QED
    BY <2>1, <2>2, <2>6
<1> HIDE DEF Q
<1>3. IsFiniteSet(B)
  <2>1. B \subseteq S
    OBVIOUS
  <2> QED
    BY <2>1, FS_Subset
<1>4. \A s \in SUBSET B : s \in Q
  BY <1>1, <1>2, <1>3, SubsetInduction
<1>5. B \in Q
  BY <1>4
<1> QED
  BY <1>5 DEF Q

(* The sum over the elements of each key, and then over the keys.          *)
Grouped(S, sigma, K, h, g) ==
  g \in [S -> K] /\ \A k \in K : h[k] = sigma[{x \in S : g[x] = k}]

LEMMA SumByKey ==
  ASSUME NEW S, IsFiniteSet(S), NEW f \in [S -> Int], NEW sigma, IsSum(sigma, f, S),
         NEW K, IsFiniteSet(K), NEW h \in [K -> Int], NEW tau, IsSum(tau, h, K),
         NEW g, Grouped(S, sigma, K, h, g)
  PROVE  tau[K] = sigma[S]
<1> DEFINE Of(s) == {x \in S : g[x] \in s}
           Q == {s \in SUBSET K : tau[s] = sigma[Of(s)]}
<1>10. g \in [S -> K] /\ \A k \in K : h[k] = sigma[{x \in S : g[x] = k}]
  BY DEF Grouped
<1>0. /\ tau \in [SUBSET K -> Int] /\ tau[{}] = 0 /\ sigma[{}] = 0
      /\ \A s \in SUBSET K : \A x \in s : tau[s] = h[x] + tau[s \ {x}]
  BY DEF IsSum
<1>1. {} \in Q
  <2>1. Of({}) = {}
    OBVIOUS
  <2> HIDE DEF Of
  <2> QED
    BY <1>0, <2>1
<1>2. ASSUME NEW s \in SUBSET K, s # {} PROVE \E x \in s : s \ {x} \in Q => s \in Q
  <2>1. PICK k \in s : TRUE
    BY <1>2
  <2>2. PICK b, A, B : b = s \ {k} /\ A = {x \in S : g[x] = k} /\ B = Of(b)
    OBVIOUS
  <2>3. A \in SUBSET S /\ B \in SUBSET S /\ A \cap B = {} /\ Of(s) = A \cup B
    BY <2>1, <2>2
  <2>4. sigma[A \cup B] = sigma[A] + sigma[B]
    BY <2>3, SumUnion
  <2>5. tau[s] = h[k] + tau[b] /\ h[k] = sigma[A]
    <3>1. k \in K /\ h[k] = sigma[A]
      BY <1>10, <2>1, <2>2
    <3> QED
      BY <1>0, <2>1, <2>2, <3>1
  <2> HIDE DEF Of
  <2>6. tau[b] = sigma[Of(b)] => tau[s] = sigma[Of(s)]
    BY <2>2, <2>3, <2>4, <2>5
  <2>7. b \in SUBSET K
    BY <2>2
  <2> QED
    BY <2>1, <2>2, <2>6, <2>7
<1> HIDE DEF Q
<1>3. K \in Q
  BY <1>1, <1>2, SubsetInduction
<1>4. Of(K) = S
  BY <1>10
<1> QED
  BY <1>3, <1>4 DEF Q

(* Counting is adding ones.                                                *)
LEMMA CountIsSum ==
  ASSUME NEW S, IsFiniteSet(S)
  PROVE  IsSum([s \in SUBSET S |-> Cardinality(s)], [x \in S |-> 1], S)
<1> DEFINE c == [s \in SUBSET S |-> Cardinality(s)]
           one == [x \in S |-> 1]
<1>1. \A s \in SUBSET S : IsFiniteSet(s) /\ Cardinality(s) \in Int
  BY FS_Subset, FS_CardinalityType
<1>2. c \in [SUBSET S -> Int]
  BY <1>1
<1>3. c[{}] = 0
  <2>1. Cardinality({}) = 0
    BY FS_EmptySet
  <2> QED
    BY <2>1
<1>4. ASSUME NEW s \in SUBSET S, NEW x \in s PROVE c[s] = one[x] + c[s \ {x}]
  <2>1. Cardinality(s \ {x}) = Cardinality(s) - 1
    BY <1>1, FS_RemoveElement
  <2>2. s \ {x} \in SUBSET S /\ one[x] = 1
    OBVIOUS
  <2>3. c[s] = Cardinality(s) /\ c[s \ {x}] = Cardinality(s \ {x})
    BY <2>2
  <2> HIDE DEF c, one
  <2> QED
    BY <1>1, <2>1, <2>2, <2>3
<1> HIDE DEF c, one
<1>5. IsSum(c, one, S)
  BY <1>2, <1>3, <1>4 DEF IsSum
<1> QED
  BY <1>5 DEF c, one

(* The sum of a function that is given in two ways.                        *)
LEMMA SumSame ==
  ASSUME NEW S, IsFiniteSet(S), NEW f, NEW sigma, IsSum(sigma, f, S), NEW g, NEW tau, IsSum(tau, g, S),
         \A x \in S : f[x] = g[x]
  PROVE  sigma[S] = tau[S]
<1>1. PICK name : name = [x \in S |-> x]
  OBVIOUS
<1>2. name \in [S -> S] /\ (\A j, k \in S : name[j] = name[k] => j = k) /\ \A k \in S : g[k] = f[name[k]]
  BY <1>1
<1>3. \A t \in SUBSET S : tau[t] = sigma[{name[k] : k \in t}]
  BY <1>2, SumRenamed
<1>4. {name[k] : k \in S} = S
  BY <1>1
<1> QED
  BY <1>3, <1>4

(* The sum of what two sequences hold.                                     *)
LEMMA TotalConcat ==
  ASSUME NEW p \in Seq(Int), NEW q \in Seq(Int)
  PROVE  Total(p \o q) = Total(p) + Total(q) /\ Total(p) \in Int /\ Total(q) \in Int
<1>0. PICK m, n, r : m = Len(p) /\ n = Len(q) /\ r = p \o q
  OBVIOUS
<1>01. r \in Seq(Int) /\ Len(r) = m + n
  BY <1>0, ConcatProperties
<1>1. /\ m = Len(p) /\ n = Len(q) /\ r = p \o q /\ m \in Nat /\ n \in Nat
      /\ r \in Seq(Int) /\ DOMAIN p = 1 .. m /\ DOMAIN q = 1 .. n /\ DOMAIN r = 1 .. m + n
  BY <1>0, <1>01, SeqFacts
<1>2. /\ \A i \in 1 .. m : r[i] = p[i]
      /\ \A i \in 1 .. n : r[m + i] = q[i]
  BY <1>1, ConcatProperties
<1>3. PICK D, A, B : D = 1 .. m + n /\ A = 1 .. m /\ B = m + 1 .. m + n
  OBVIOUS
<1>4. A \in SUBSET D /\ B \in SUBSET D /\ A \cap B = {} /\ A \cup B = D
  BY <1>1, <1>3
<1>5. IsFiniteSet(D) /\ IsFiniteSet(A) /\ IsFiniteSet(1 .. n)
  BY <1>1, <1>3, IntervalCount
<1>6. p \in [A -> Int] /\ q \in [1 .. n -> Int] /\ r \in [D -> Int]
  <2>1. p \in [1 .. m -> Int] /\ q \in [1 .. n -> Int] /\ r \in [1 .. Len(r) -> Int]
    BY <1>0, LenProperties, <1>01
  <2> QED
    BY <1>01, <1>3, <2>1
<1>7. PICK sp, sq, sr : IsSum(sp, p, A) /\ IsSum(sq, q, 1 .. n) /\ IsSum(sr, r, D)
  BY <1>5, <1>6, SumExists
<1>8. Total(p) = sp[A] /\ Total(q) = sq[1 .. n] /\ Total(r) = sr[D]
      /\ Total(p) \in Int /\ Total(q) \in Int
  BY <1>1, <1>3, <1>7, TotalIs
<1>9. sp[A] = sr[A]
  <2>1. PICK name : name = [i \in A |-> i]
    OBVIOUS
  <2>2. name \in [A -> D] /\ (\A j, k \in A : name[j] = name[k] => j = k) /\ \A k \in A : p[k] = r[name[k]]
    BY <1>2, <1>3, <1>4, <2>1
  <2>3. \A t \in SUBSET A : sp[t] = sr[{name[k] : k \in t}]
    <3>1. /\ IsFiniteSet(A) /\ IsSum(sp, p, A) /\ IsSum(sr, r, D)
          /\ name \in [A -> D] /\ (\A j, k \in A : name[j] = name[k] => j = k)
          /\ \A k \in A : p[k] = r[name[k]]
      BY <1>5, <1>7, <2>2
    <3> QED
      BY <3>1, SumRenamed
  <2>4. {name[k] : k \in A} = A
    BY <2>1
  <2> QED
    BY <2>3, <2>4
<1>10. sq[1 .. n] = sr[B]
  <2>1. PICK T, name : T = 1 .. n /\ name = [i \in T |-> m + i]
    OBVIOUS
  <2>2. name \in [T -> D] /\ (\A j, k \in T : name[j] = name[k] => j = k) /\ \A k \in T : q[k] = r[name[k]]
    BY <1>1, <1>2, <1>3, <2>1
  <2>3. \A t \in SUBSET T : sq[t] = sr[{name[k] : k \in t}]
    <3>1. /\ IsFiniteSet(T) /\ IsSum(sq, q, T) /\ IsSum(sr, r, D)
          /\ name \in [T -> D] /\ (\A j, k \in T : name[j] = name[k] => j = k)
          /\ \A k \in T : q[k] = r[name[k]]
      BY <1>5, <1>7, <2>1, <2>2
    <3> QED
      BY <3>1, SumRenamed
  <2>4. {name[k] : k \in T} = B
    <3>1. \A i \in B : i - m \in T /\ name[i - m] = i
      BY <1>1, <1>3, <2>1
    <3>2. \A k \in T : name[k] \in B
      BY <1>1, <1>3, <2>1
    <3> QED
      BY <3>1, <3>2
  <2>5. sq[T] = sr[{name[k] : k \in T}]
    BY <2>3
  <2> QED
    BY <2>1, <2>4, <2>5
<1>11. sr[A \cup B] = sr[A] + sr[B]
  <2>1. IsFiniteSet(D) /\ r \in [D -> Int] /\ IsSum(sr, r, D)
    BY <1>5, <1>6, <1>7
  <2>2. A \in SUBSET D /\ B \in SUBSET D /\ A \cap B = {}
    BY <1>4
  <2> QED
    BY <2>1, <2>2, SumUnion
<1> QED
  BY <1>1, <1>4, <1>8, <1>9, <1>10, <1>11

(* The sum of the values of some metrics.                                  *)
LEMMA SumOfValues ==
  ASSUME NEW S, IsFiniteSet(S), NEW f \in [S -> Int], \A m \in S : f[m] = m.value[1],
         NEW sigma, IsSum(sigma, f, S)
  PROVE  MapThenSumSet(LAMBDA m : m.value[1], S) = sigma[S]
<1> DEFINE any(s) == CHOOSE x \in s : TRUE
           Body(g) == [s \in SUBSET S |-> IF s = {} THEN 0 ELSE any(s).value[1] + g[s \ {any(s)}]]
           it == CHOOSE g : g = Body(g)
<1>1. MapThenSumSet(LAMBDA m : m.value[1], S) = it[S]
  BY Zenon DEF MapThenSumSet, MapThenFoldSet
<1>2. \A s \in SUBSET S : s # {} => any(s) \in s
  OBVIOUS
<1> HIDE DEF any
<1>3. /\ sigma \in [SUBSET S -> Int] /\ sigma[{}] = 0
      /\ \A s \in SUBSET S : \A x \in s : sigma[s] = f[x] + sigma[s \ {x}]
  BY DEF IsSum
<1>4. sigma = Body(sigma)
  <2>1. ASSUME NEW s \in SUBSET S, s # {} PROVE sigma[s] = any(s).value[1] + sigma[s \ {any(s)}]
    <3>1. PICK x : x = any(s) /\ x \in s /\ x \in S
      BY <1>2, <2>1
    <3>2. sigma[s] = f[x] + sigma[s \ {x}] /\ f[x] = x.value[1]
      BY <1>3, <3>1
    <3> QED
      BY <3>1, <3>2
  <2> QED
    BY <1>3, <2>1
<1>5. it = Body(it)
  <2> HIDE DEF Body
  <2> QED
    BY <1>4
<1>6. it[{}] = 0 /\ \A s \in SUBSET S : s # {} => it[s] = any(s).value[1] + it[s \ {any(s)}]
  <2> HIDE DEF it
  <2> QED
    BY <1>5
<1> DEFINE Q == {s \in SUBSET S : it[s] = sigma[s]}
<1>7. {} \in Q
  BY <1>3, <1>6
<1> HIDE DEF it
<1>8. ASSUME NEW s \in SUBSET S, s # {} PROVE \E x \in s : s \ {x} \in Q => s \in Q
  <2>1. PICK x : x = any(s) /\ x \in s /\ x \in S
    BY <1>2, <1>8
  <2>2. sigma[s] = f[x] + sigma[s \ {x}] /\ f[x] = x.value[1]
    BY <1>3, <2>1
  <2>3. it[s] = x.value[1] + it[s \ {x}]
    BY <1>6, <1>8, <2>1
  <2> QED
    BY <2>1, <2>2, <2>3
<1> HIDE DEF Q
<1>9. \A s \in SUBSET S : s \in Q
  BY <1>7, <1>8, SubsetInduction
<1> QED
  BY <1>1, <1>9 DEF Q

(* As many as are told apart, and no more.                                 *)
LEMMA FiniteImage ==
  ASSUME NEW S, IsFiniteSet(S), NEW f, NEW T, T = {f[x] : x \in S}
  PROVE  IsFiniteSet(T)
<1>1. PICK g : g = [x \in S |-> f[x]]
  OBVIOUS
<1>2. g \in Surjection(S, T)
  BY <1>1 DEF Surjection
<1> QED
  BY <1>2, FS_Surjection

(* A metric for each p of P adds up to the sum over P.                     *)
Listed(M, name, v, P) == M = {Metric(name, p, Ratio(v[p], 1)) : p \in P}

LEMMA SumOfMetrics ==
  ASSUME NEW P, IsFiniteSet(P), NEW v \in [P -> Int], NEW sigma, IsSum(sigma, v, P), NEW name,
         NEW M, Listed(M, name, v, P)
  PROVE  MapThenSumSet(LAMBDA m : m.value[1], M) = sigma[P]
<1> DEFINE met(p) == Metric(name, p, Ratio(v[p], 1))
<1>1. \A p \in P : met(p).of = p /\ met(p).value[1] = v[p]
  BY DEF Metric, Ratio
<1>2. M = {met(p) : p \in P}
  BY DEF Listed
<1> HIDE DEF met
<1>3. IsFiniteSet(M)
  <2>1. PICK nm : nm = [p \in P |-> met(p)]
    OBVIOUS
  <2>2. M = {nm[p] : p \in P}
    BY <1>2, <2>1
  <2> QED
    BY <2>2, FiniteImage
<1>4. PICK f : f = [m \in M |-> m.value[1]]
  OBVIOUS
<1>5. f \in [M -> Int] /\ \A m \in M : f[m] = m.value[1]
  <2>1. ASSUME NEW m \in M PROVE m.value[1] \in Int
    <3>1. PICK p \in P : m = met(p)
      BY <1>2
    <3>2. v[p] \in Int /\ m.value[1] = v[p]
      BY <1>1, <3>1
    <3> QED
      BY <3>2
  <2> QED
    BY <1>4, <2>1
<1>6. PICK tau : IsSum(tau, f, M)
  BY <1>3, <1>5, SumExists
<1>7. MapThenSumSet(LAMBDA m : m.value[1], M) = tau[M]
  BY <1>3, <1>5, <1>6, SumOfValues
<1>8. PICK nm : nm = [p \in P |-> met(p)]
  OBVIOUS
<1>9. /\ nm \in [P -> M] /\ \A p \in P : nm[p].of = p /\ nm[p].value[1] = v[p]
  BY <1>1, <1>2, <1>8
<1>10. /\ (\A j, k \in P : nm[j] = nm[k] => j = k) /\ \A k \in P : v[k] = f[nm[k]]
  <2>1. \A j, k \in P : nm[j] = nm[k] => j = k
    <3> TAKE j, k \in P
    <3>1. nm[j].of = j /\ nm[k].of = k
      BY <1>9
    <3> QED
      BY <3>1
  <2>2. \A k \in P : nm[k] \in M /\ nm[k].value[1] = v[k]
    BY <1>9
  <2> QED
    BY <1>5, <2>1, <2>2
<1>11. \A t \in SUBSET P : sigma[t] = tau[{nm[p] : p \in t}]
  <2>1. /\ IsFiniteSet(P) /\ IsSum(tau, f, M) /\ IsSum(sigma, v, P) /\ nm \in [P -> M]
        /\ (\A j, k \in P : nm[j] = nm[k] => j = k) /\ \A k \in P : v[k] = f[nm[k]]
    BY <1>6, <1>9, <1>10
  <2> QED
    BY <2>1, SumRenamed
<1>12. sigma[P] = tau[{nm[p] : p \in P}]
  BY <1>11
<1>13. {nm[p] : p \in P} = M
  BY <1>2, <1>8
<1> QED
  BY <1>7, <1>12, <1>13

(* How often each element of a sequence occurs in it.                      *)
LEMMA OccurrencesAddUp ==
  ASSUME NEW T, NEW seq \in Seq(T), NEW h \in [ToSet(seq) -> Int],
         \A x \in ToSet(seq) : h[x] = Cardinality({i \in DOMAIN seq : seq[i] = x}),
         NEW tau, IsSum(tau, h, ToSet(seq))
  PROVE  tau[ToSet(seq)] = Len(seq)
<1>1. PICK n, S, K : n = Len(seq) /\ n \in Nat /\ S = DOMAIN seq /\ S = 1 .. n /\ K = ToSet(seq)
  BY SeqFacts
<1>2. IsFiniteSet(S) /\ Cardinality(S) = n
  BY <1>1, IntervalCount
<1>3. PICK sigma, f : sigma = [s \in SUBSET S |-> Cardinality(s)] /\ f = [x \in S |-> 1]
  OBVIOUS
<1>4. IsSum(sigma, f, S) /\ f \in [S -> Int]
  <2>1. IsSum([s \in SUBSET S |-> Cardinality(s)], [x \in S |-> 1], S)
    BY <1>2, CountIsSum
  <2> QED
    BY <1>3, <2>1
<1>5. PICK g : g = [i \in S |-> seq[i]]
  OBVIOUS
<1>6. g \in [S -> K] /\ K = {g[i] : i \in S}
  BY <1>1, <1>5 DEF ToSet
<1>7. IsFiniteSet(K)
  BY <1>2, <1>6, FiniteImage
<1>8. \A x \in K : h[x] = sigma[{i \in S : g[i] = x}]
  <2> TAKE x \in K
  <2>1. {i \in S : g[i] = x} = {i \in S : seq[i] = x} /\ {i \in S : g[i] = x} \in SUBSET S
    BY <1>5
  <2> QED
    BY <1>1, <1>3, <2>1
<1>9. h \in [K -> Int] /\ IsSum(tau, h, K)
  BY <1>1
<1>10. tau[K] = sigma[S]
  <2>1. /\ IsFiniteSet(S) /\ f \in [S -> Int] /\ IsSum(sigma, f, S)
        /\ IsFiniteSet(K) /\ h \in [K -> Int] /\ IsSum(tau, h, K)
        /\ Grouped(S, sigma, K, h, g)
    BY <1>2, <1>4, <1>6, <1>7, <1>8, <1>9 DEF Grouped
  <2> QED
    BY <2>1, SumByKey
<1> QED
  BY <1>1, <1>2, <1>3, <1>10

(* The length of sequences put one after the other.                        *)
LEMMA FlatLen ==
  ASSUME NEW T, NEW seqs \in Seq(Seq(T)), NEW lens, lens = [i \in DOMAIN seqs |-> Len(seqs[i])]
  PROVE  Len(FlattenSeq(seqs)) = Total(lens) /\ lens \in Seq(Int)
<1>1. PICK n : n = Len(seqs) /\ n \in Nat /\ DOMAIN seqs = 1 .. n /\ \A i \in 1 .. n : seqs[i] \in Seq(T)
  BY SeqFacts
<1>2. lens \in [1 .. n -> Int]
  <2>1. \A i \in 1 .. n : Len(seqs[i]) \in Int
    BY <1>1, LenProperties
  <2> QED
    BY <1>1, <2>1
<1>3. lens \in Seq(Int) /\ DOMAIN lens = 1 .. n
  BY <1>1, <1>2, SeqOfFunction
<1>4. PICK h \in [0 .. n -> Seq(T)] :
        h[n] = FlattenSeq(seqs) /\ h[0] = <<>> /\ \A i \in 1 .. n : h[i] = h[i - 1] \o seqs[i]
  BY <1>1, FlatChain
<1>5. IsFiniteSet(1 .. n)
  BY <1>1, IntervalCount
<1>6. PICK sigma : IsSum(sigma, lens, 1 .. n)
  BY <1>2, <1>5, SumExists
<1>7. Total(lens) = sigma[1 .. n]
  BY <1>3, <1>6, TotalIs
<1> DEFINE Q == {i \in 0 .. n : Len(h[i]) = sigma[1 .. i]}
<1>8. 0 \in Q
  <2>1. 1 .. 0 = {} /\ sigma[{}] = 0 /\ Len(h[0]) = 0
    BY <1>4, <1>6 DEF IsSum
  <2>2. sigma[1 .. 0] = 0
    BY <2>1
  <2> QED
    BY <1>1, <2>1, <2>2
<1>9. ASSUME NEW i \in 0 .. n - 1, i \in Q PROVE i + 1 \in Q
  <2>1. PICK j : j = i + 1 /\ j \in 1 .. n /\ j - 1 = i /\ j \in 0 .. n /\ i \in 0 .. n
    BY <1>1
  <2>2. h[j] = h[i] \o seqs[j] /\ h[i] \in Seq(T) /\ seqs[j] \in Seq(T)
    BY <1>1, <1>4, <2>1
  <2>3. Len(h[j]) = Len(h[i]) + Len(seqs[j])
    BY <2>2, ConcatProperties
  <2>4. PICK A : A = 1 .. j /\ A \in SUBSET (1 .. n) /\ j \in A /\ A \ {j} = 1 .. i
    BY <1>1, <2>1
  <2>5. sigma[A] = lens[j] + sigma[A \ {j}] /\ sigma[A \ {j}] \in Int
    BY <1>6, <2>4 DEF IsSum
  <2>6. lens[j] = Len(seqs[j]) /\ Len(seqs[j]) \in Int /\ Len(h[i]) \in Int
    BY <1>1, <2>1, <2>2, LenProperties
  <2>7. Len(h[i]) = sigma[1 .. i]
    BY <1>9
  <2>8. Len(h[j]) = sigma[1 .. j]
    <3>1. PICK a, b, c : a = sigma[1 .. i] /\ b = Len(seqs[j]) /\ c = sigma[A]
      OBVIOUS
    <3>2. c = b + a /\ a \in Int /\ b \in Int
      BY <2>4, <2>5, <2>6, <3>1
    <3>3. Len(h[j]) = a + b
      BY <2>3, <2>7, <3>1
    <3>4. Len(h[j]) = c
      BY <3>2, <3>3
    <3> QED
      BY <2>4, <3>1, <3>4
  <2> QED
    BY <2>1, <2>8
<1> HIDE DEF Q
<1>10. \A i \in 0 .. n : i \in Q
  BY <1>1, <1>8, <1>9, IntervalInduction
<1>11. n \in Q
  BY <1>1, <1>10
<1> QED
  BY <1>3, <1>4, <1>7, <1>11 DEF Q

(* Every element is in what stays, and once.                               *)
LEMMA DistinctCovers ==
  ASSUME NEW T, NEW seq \in Seq(T)
  PROVE  /\ \A i \in DOMAIN seq : \E k \in DOMAIN Distinct(seq) : Distinct(seq)[k] = seq[i]
         /\ \A j, k \in DOMAIN Distinct(seq) : Distinct(seq)[j] = Distinct(seq)[k] => j = k
<1>1. PICK n, F, m, r, d : /\ n = Len(seq) /\ F = Firsts(seq) /\ m = Cardinality(F)
                           /\ r = Ranked(F) /\ d = Distinct(seq)
  OBVIOUS
<1>2. n \in Nat /\ DOMAIN seq = 1 .. n /\ F \in SUBSET (1 .. n)
  BY <1>1, SeqFacts DEF Firsts
<1>3. /\ m \in Nat /\ r \in [1 .. m -> F] /\ (\A i \in F : \E k \in 1 .. m : r[k] = i)
      /\ \A j, k \in 1 .. m : j < k <=> r[j] < r[k]
  BY <1>1, <1>2, RankedIs
<1>4. DOMAIN d = 1 .. m /\ \A k \in 1 .. m : d[k] = seq[r[k]]
  <2>1. d \in Seq(T) /\ Len(d) = m /\ \A k \in DOMAIN d : d[k] = seq[r[k]]
    BY <1>1, DistinctIs
  <2> QED
    BY <2>1, SeqFacts
<1>5. ASSUME NEW i \in 1 .. n PROVE \E k \in 1 .. m : d[k] = seq[i]
  <2>1. PICK E : E = {j \in 1 .. n : seq[j] = seq[i]}
    OBVIOUS
  <2>2. E \in SUBSET Nat /\ E # {}
    BY <1>2, <2>1
  <2>3. PICK a \in E : \A j \in E : a <= j
    BY <2>2, LeastElement
  <2>4. a \in F
    <3>1. a \in 1 .. n /\ \A j \in 1 .. a - 1 : j \in 1 .. n /\ ~(a <= j)
      BY <1>2, <2>1
    <3>2. \A j \in 1 .. a - 1 : seq[j] # seq[a]
      BY <2>1, <2>3, <3>1
    <3> QED
      BY <1>1, <1>2, <3>1, <3>2 DEF Firsts
  <2>5. PICK k \in 1 .. m : r[k] = a
    BY <1>3, <2>4
  <2> QED
    BY <1>4, <2>1, <2>5
<1>6. ASSUME NEW j \in 1 .. m, NEW k \in 1 .. m, d[j] = d[k] PROVE j = k
  <2>1. r[j] \in 1 .. n /\ r[k] \in 1 .. n /\ seq[r[j]] = seq[r[k]]
    BY <1>2, <1>3, <1>4, <1>6
  <2>2. /\ \A i \in 1 .. r[j] - 1 : seq[i] # seq[r[j]]
        /\ \A i \in 1 .. r[k] - 1 : seq[i] # seq[r[k]]
    BY <1>1, <1>3 DEF Firsts
  <2>3. ~(r[j] < r[k]) /\ ~(r[k] < r[j])
    BY <2>1, <2>2
  <2>4. ~(j < k) /\ ~(k < j)
    BY <1>3, <2>3
  <2> QED
    BY <2>4
<1> QED
  BY <1>1, <1>2, <1>4, <1>5, <1>6

Failing(t) == {i \in DOMAIN t.steps : t.steps[i].failure # ""}
Losses(t) == Cardinality(Failing(t)) + (IF t.execFailure = "" THEN 0 ELSE 1)

(* The failures of a trajectory, as many as its failing steps and, if it   *)
(* failed, its execution.                                                  *)
LEMMA FailureEventsIs ==
  ASSUME NEW t, IsTuple(t.steps)
  PROVE  /\ IsTuple(FailureEvents(t)) /\ Len(FailureEvents(t)) = Losses(t) /\ Losses(t) \in Nat
<1>1. PICK steps, I, failed, m : /\ steps = t.steps /\ I = Failing(t)
                                 /\ failed = Picked(steps, I) /\ m = Cardinality(I)
  OBVIOUS
<1>2. steps \in Seq(ToSet(steps)) /\ I \in SUBSET DOMAIN steps
  BY <1>1, TupleIs DEF Failing
<1>3. m \in Nat /\ DOMAIN failed = 1 .. m
  BY <1>1, <1>2, PickedIs
<1>4. PICK p, q : /\ p = [i \in DOMAIN failed |-> <<"step", failed[i].failure>>]
                  /\ q = IF t.execFailure = "" THEN <<>> ELSE <<<<"execution", t.execFailure>>>>
  OBVIOUS
<1>5. FailureEvents(t) = p \o q
  <2>1. Selected(t.steps, LAMBDA s : s.failure # "") = Picked(t.steps, Failing(t))
    BY Zenon DEF Selected, Ordered, Picked, Ranked, Arranged, Failing
  <2>2. Selected(t.steps, LAMBDA s : s.failure # "") = failed
    BY <1>1, <2>1, Zenon
  <2> QED
    BY <1>4, <2>2, Zenon DEF FailureEvents
<1>6. PICK S : S = {p[i] : i \in 1 .. m} \cup {<<"execution", t.execFailure>>}
  OBVIOUS
<1>7. p \in Seq(S) /\ Len(p) = m
  <2>1. p \in [1 .. m -> S]
    BY <1>3, <1>4, <1>6
  <2> QED
    BY <1>3, <2>1, SeqOfFunction
<1>8. q \in Seq(S) /\ Len(q) = IF t.execFailure = "" THEN 0 ELSE 1
  <2>1. PICK x \in S : x = <<"execution", t.execFailure>>
    BY <1>6
  <2>2. <<>> \in Seq(S) /\ Len(<<>>) = 0
    OBVIOUS
  <2>3. <<x>> \in Seq(S) /\ Len(<<x>>) = 1
    OBVIOUS
  <2>4. CASE t.execFailure = ""
    <3>1. q = <<>>
      BY <1>4, <2>4, Zenon
    <3>2. q \in Seq(S) /\ Len(q) = 0
      BY <2>2, <3>1
    <3> QED
      BY <2>4, <3>2
  <2>5. CASE t.execFailure # ""
    <3>1. q = <<x>>
      BY <1>4, <2>1, <2>5, Zenon
    <3> QED
      BY <2>3, <2>5, <3>1
  <2> QED
    BY <2>4, <2>5
<1>9. p \o q \in Seq(S) /\ Len(p \o q) = Len(p) + Len(q)
  BY <1>7, <1>8, ConcatProperties
<1>10. IsTuple(p \o q)
  BY <1>9, SeqFacts
<1>11. Losses(t) = m + (IF t.execFailure = "" THEN 0 ELSE 1)
  BY <1>1 DEF Losses
<1>12. PICK b : b = Len(q)
  OBVIOUS
<1>13. Losses(t) = m + b /\ m + b \in Nat
  <2>1. CASE t.execFailure = ""
    <3>1. b = 0 /\ Losses(t) = m + 0
      BY <1>8, <1>11, <1>12, <2>1, Zenon
    <3> QED
      BY <1>3, <3>1
  <2>2. CASE t.execFailure # ""
    <3>1. b = 1 /\ Losses(t) = m + 1
      BY <1>8, <1>11, <1>12, <2>2, Zenon
    <3> QED
      BY <1>3, <3>1
  <2> QED
    BY <2>1, <2>2
<1>14. Len(p \o q) = m + b
  BY <1>7, <1>9, <1>12
<1> QED
  BY <1>5, <1>10, <1>13, <1>14

(* The spans of GenAI of one trace, and their order.                       *)
LEMMA OwnMembers ==
  ASSUME NEW spans, IsTuple(spans), NEW t
  PROVE  \A i : i \in Own(spans, t) <=>
           i \in DOMAIN spans /\ SpanOperation(spans[i]) # "" /\ spans[i].trace = t
<1>1. spans \in Seq(ToSet(spans)) /\ Len(spans) \in Nat /\ DOMAIN spans = 1 .. Len(spans)
  BY TupleIs
<1>2. PICK I : I = {i \in DOMAIN spans : SpanOperation(spans[i]) # ""}
  OBVIOUS
<1>3. GenAi(spans) = Picked(Numbers(spans), I) /\ I \in SUBSET DOMAIN spans
  BY <1>2 DEF GenAi
<1>4. ToSet(GenAi(spans)) = I
  <2>1. PICK g, m : g = GenAi(spans) /\ m = Cardinality(I)
    OBVIOUS
  <2>2. /\ g \in Seq(I) /\ DOMAIN g = 1 .. m /\ (\A k \in 1 .. m : g[k] \in I)
        /\ \A i \in I : \E k \in 1 .. m : g[k] = i
    <3>1. spans \in Seq(ToSet(spans)) /\ I \in SUBSET DOMAIN spans /\ g = Picked(Numbers(spans), I)
      BY <1>1, <1>3, <2>1
    <3>2. /\ Picked(Numbers(spans), I) \in Seq(I)
          /\ DOMAIN Picked(Numbers(spans), I) = 1 .. Cardinality(I)
          /\ \A k \in 1 .. Cardinality(I) : Picked(Numbers(spans), I)[k] \in I
          /\ \A i \in I : \E k \in 1 .. Cardinality(I) : Picked(Numbers(spans), I)[k] = i
      <4> HIDE DEF Numbers, Picked
      <4> QED
        BY <3>1, NumbersIs
    <3> QED
      BY <2>1, <3>1, <3>2, Zenon
  <2> QED
    BY <2>1, <2>2 DEF ToSet
<1> QED
  BY <1>2, <1>4 DEF Own

LEMMA OwnIs ==
  ASSUME NEW spans, IsTuple(spans), \A i \in DOMAIN spans : SoundSpan(spans[i]), NEW t
  PROVE  /\ IsFiniteSet(Own(spans, t)) /\ Own(spans, t) \in SUBSET DOMAIN spans
         /\ OwnOrder(spans, t) \in [1 .. Cardinality(Own(spans, t)) -> Own(spans, t)]
         /\ Cardinality(Own(spans, t)) \in Nat
         /\ \A i \in Own(spans, t) : \E k \in 1 .. Cardinality(Own(spans, t)) : OwnOrder(spans, t)[k] = i
         /\ \A j, k \in 1 .. Cardinality(Own(spans, t)) :
              OwnOrder(spans, t)[j] = OwnOrder(spans, t)[k] => j = k
<1>1. spans \in Seq(ToSet(spans)) /\ Len(spans) \in Nat /\ DOMAIN spans = 1 .. Len(spans)
  BY TupleIs
<1>5. PICK O, at : O = Own(spans, t) /\ at = [i \in O |-> spans[i].start]
  OBVIOUS
<1>6. \A i : i \in O <=> i \in DOMAIN spans /\ SpanOperation(spans[i]) # "" /\ spans[i].trace = t
  BY <1>5, OwnMembers
<1>7. O \in SUBSET (1 .. Len(spans)) /\ IsFiniteSet(1 .. Len(spans))
  BY <1>1, <1>6, IntervalCount
<1>8. IsFiniteSet(O) /\ O \in SUBSET Int /\ at \in [O -> Int]
  <2>1. \A i \in O : spans[i].start \in Int
    BY <1>6 DEF SoundSpan
  <2>2. at \in [O -> Int]
    BY <1>5, <2>1
  <2>3. IsFiniteSet(O)
    BY <1>7, FS_Subset
  <2> QED
    BY <1>7, <2>2, <2>3
<1>9. OwnOrder(spans, t) = Timed(O, at)
  BY <1>5 DEF OwnOrder
<1>10. /\ Timed(O, at) \in [1 .. Cardinality(O) -> O] /\ Cardinality(O) \in Nat
       /\ \A i \in O : \E k \in 1 .. Cardinality(O) : Timed(O, at)[k] = i
  BY <1>8, TimedIs
<1>11. \A j, k \in 1 .. Cardinality(O) : Timed(O, at)[j] = Timed(O, at)[k] => j = k
  BY <1>8, TimedOnce
<1>12. \A i \in O : i \in DOMAIN spans
  BY <1>6
<1> HIDE DEF GenAi
<1>13. O \in SUBSET DOMAIN spans
  BY <1>12
<1>14. OwnOrder(spans, t) = Timed(O, at) /\ O = Own(spans, t)
  BY <1>5, <1>9
<1>15. /\ IsFiniteSet(O) /\ O \in SUBSET DOMAIN spans /\ Cardinality(O) \in Nat
       /\ OwnOrder(spans, t) \in [1 .. Cardinality(O) -> O]
  BY <1>8, <1>10, <1>13, <1>14
<1>16. /\ \A i \in O : \E k \in 1 .. Cardinality(O) : OwnOrder(spans, t)[k] = i
       /\ \A j, k \in 1 .. Cardinality(O) : OwnOrder(spans, t)[j] = OwnOrder(spans, t)[k] => j = k
  <2>1. PICK q : q = Timed(O, at)
    OBVIOUS
  <2>2. /\ \A i \in O : \E k \in 1 .. Cardinality(O) : q[k] = i
        /\ \A j, k \in 1 .. Cardinality(O) : q[j] = q[k] => j = k
    BY <1>10, <1>11, <2>1
  <2>3. OwnOrder(spans, t) = q
    BY <1>14, <2>1
  <2> HIDE DEF OwnOrder
  <2> QED
    BY <2>2, <2>3
<1>17. O = Own(spans, t)
  BY <1>14
<1> QED
  BY <1>15, <1>16, <1>17

Bad(span) == span.errorType # "" \/ span.code = "error"

(* A step fails as its span does.                                          *)
LEMMA StepFails ==
  ASSUME NEW span, NEW k
  PROVE  [OtelStep(span) EXCEPT !.id = k].failure # "" <=> Bad(span)
<1>1. PICK op : op = SpanOperation(span)
  OBVIOUS
<1>2. OtelStep(span).failure = IF SpanStatus(span) = "error" THEN FailureKind(op) ELSE ""
  BY <1>1 DEF OtelStep
<1>3. [OtelStep(span) EXCEPT !.id = k].failure = OtelStep(span).failure
  BY DEF OtelStep
<1>4. FailureKind(op) # ""
  BY DEF FailureKind
<1>5. SpanStatus(span) = "error" <=> Bad(span)
  BY DEF SpanStatus, Bad
<1> QED
  BY <1>2, <1>3, <1>4, <1>5

(* Every span of GenAI is of one of the traces, and of one only.           *)
LEMMA TracesCover ==
  ASSUME NEW spans, IsTuple(spans), \A i \in DOMAIN spans : SoundSpan(spans[i])
  PROVE  /\ IsTuple(Traces(spans))
         /\ \A i \in DOMAIN spans : SpanOperation(spans[i]) # "" =>
              \E k \in DOMAIN Traces(spans) : Traces(spans)[k] = spans[i].trace
         /\ \A j, k \in DOMAIN Traces(spans) : Traces(spans)[j] = Traces(spans)[k] => j = k
<1>1. PICK I : I = {i \in DOMAIN spans : SpanOperation(spans[i]) # ""}
  OBVIOUS
<1>2. spans \in Seq(ToSet(spans)) /\ I \in SUBSET DOMAIN spans
  BY <1>1, TupleIs
<1>3. I \subseteq ToSet(GenAi(spans))
  <2>1. PICK g : g = Picked(Numbers(spans), I)
    OBVIOUS
  <2>2. /\ DOMAIN Picked(Numbers(spans), I) = 1 .. Cardinality(I)
        /\ \A i \in I : \E k \in 1 .. Cardinality(I) : Picked(Numbers(spans), I)[k] = i
    BY <1>2, NumbersIs
  <2>3. g = GenAi(spans)
    BY <1>1, <2>1 DEF GenAi
  <2>4. DOMAIN g = 1 .. Cardinality(I) /\ \A i \in I : \E k \in 1 .. Cardinality(I) : g[k] = i
    BY <2>1, <2>2, Zenon
  <2> QED
    BY <2>3, <2>4 DEF ToSet
<1>4. IsTuple(Traces(spans))
  BY TracesIs, SeqFacts
<1>5. ASSUME NEW i \in DOMAIN spans, SpanOperation(spans[i]) # ""
      PROVE  \E k \in DOMAIN Traces(spans) : Traces(spans)[k] = spans[i].trace
  <2>1. i \in ToSet(GenAi(spans))
    BY <1>1, <1>3, <1>5
  <2>2. PICK n \in DOMAIN TraceIds : TraceIds[n] = spans[i].trace
    BY DEF SoundSpan, ToSet
  <2>3. n \in Traced(spans)
    BY <2>1, <2>2 DEF Traced
  <2> QED
    BY <2>2, <2>3, TracesIs
<1> QED
  BY <1>4, <1>5, TracesIs

(* The failing steps of a trace are its failing spans of GenAI.            *)
LEMMA OwnLosses ==
  ASSUME NEW spans, IsTuple(spans), \A i \in DOMAIN spans : SoundSpan(spans[i]), NEW t
  PROVE  /\ IsTuple(OwnSteps(spans, t))
         /\ Cardinality({k \in DOMAIN OwnSteps(spans, t) : OwnSteps(spans, t)[k].failure # ""})
              = Cardinality({i \in Own(spans, t) : Bad(spans[i])})
<1>1. PICK O, f, n, s : /\ O = Own(spans, t) /\ f = OwnOrder(spans, t) /\ n = Cardinality(O)
                        /\ s = OwnSteps(spans, t)
  OBVIOUS
<1>2. /\ f \in [1 .. n -> O] /\ n \in Nat
      /\ (\A i \in O : \E k \in 1 .. n : f[k] = i)
      /\ \A j, k \in 1 .. n : f[j] = f[k] => j = k
  <2>1. /\ OwnOrder(spans, t) \in [1 .. Cardinality(Own(spans, t)) -> Own(spans, t)]
        /\ Cardinality(Own(spans, t)) \in Nat
        /\ \A i \in Own(spans, t) : \E k \in 1 .. Cardinality(Own(spans, t)) : OwnOrder(spans, t)[k] = i
        /\ \A j, k \in 1 .. Cardinality(Own(spans, t)) :
              OwnOrder(spans, t)[j] = OwnOrder(spans, t)[k] => j = k
    <3> HIDE DEF OwnOrder, Own
    <3>1. OwnOrder(spans, t) \in [1 .. Cardinality(Own(spans, t)) -> Own(spans, t)]
      BY OwnIs
    <3>2. \A i \in Own(spans, t) : \E k \in 1 .. Cardinality(Own(spans, t)) : OwnOrder(spans, t)[k] = i
      BY OwnIs
    <3>3. \A j, k \in 1 .. Cardinality(Own(spans, t)) :
              OwnOrder(spans, t)[j] = OwnOrder(spans, t)[k] => j = k
      BY OwnIs
    <3>4. Cardinality(Own(spans, t)) \in Nat
      BY OwnIs
    <3> QED
      BY <3>1, <3>2, <3>3, <3>4
  <2> QED
    BY <1>1, <2>1, Zenon
<1>3. s = [k \in 1 .. n |-> [OtelStep(spans[f[k]]) EXCEPT !.id = k]]
  BY <1>1, <1>2 DEF OwnSteps
<1>4. IsTuple(s) /\ DOMAIN s = 1 .. n
  <2>1. SoundSteps(OwnSteps(spans, t))
    BY OwnStepsSound
  <2> QED
    BY <1>1, <1>3, <2>1 DEF SoundSteps
<1>5. \A k \in 1 .. n : s[k].failure # "" <=> Bad(spans[f[k]])
  BY <1>3, StepFails
<1>6. PICK A, B : A = {k \in 1 .. n : s[k].failure # ""} /\ B = {i \in O : Bad(spans[i])}
  OBVIOUS
<1>7. IsFiniteSet(A)
  <2>1. A \subseteq 1 .. n /\ IsFiniteSet(1 .. n)
    BY <1>2, <1>6, IntervalCount
  <2> QED
    BY <2>1, FS_Subset
<1>8. PICK h : h = [k \in A |-> f[k]]
  OBVIOUS
<1>9. /\ h \in [A -> B] /\ (\A x, y \in A : h[x] = h[y] => x = y)
      /\ \A b \in B : \E x \in A : h[x] = b
  <2>1. \A k \in A : k \in 1 .. n /\ f[k] \in B /\ h[k] = f[k]
    BY <1>2, <1>5, <1>6, <1>8
  <2>2. h \in [A -> B]
    BY <1>8, <2>1
  <2>3. \A b \in B : \E x \in A : h[x] = b
    <3> SUFFICES ASSUME NEW b \in B PROVE \E x \in A : h[x] = b
      OBVIOUS
    <3>1. b \in O /\ Bad(spans[b])
      BY <1>6
    <3>2. PICK k \in 1 .. n : f[k] = b
      BY <1>2, <3>1
    <3>3. k \in A
      BY <1>5, <1>6, <3>1, <3>2
    <3> QED
      BY <2>1, <3>2, <3>3
  <2> QED
    BY <1>2, <2>1, <2>2, <2>3
<1>10. Cardinality(B) = Cardinality(A)
  BY <1>7, <1>9, SameCount
<1> QED
  BY <1>1, <1>4, <1>6, <1>10, Zenon

FailingSpans(spans) == {i \in DOMAIN spans : SpanOperation(spans[i]) # "" /\ Bad(spans[i])}
FailureCounts(trajs) == [k \in DOMAIN trajs |-> Len(FailureEvents(trajs[k]))]

(* The failures of the trajectory of each trace.                           *)
LEMMA TraceLosses ==
  ASSUME NEW spans, IsTuple(spans), \A i \in DOMAIN spans : SoundSpan(spans[i]),
         NEW k \in DOMAIN Traces(spans)
  PROVE  Len(FailureEvents(OtelLoads(spans)[k])) =
           Cardinality({i \in FailingSpans(spans) : spans[i].trace = Traces(spans)[k]})
<1>1. PICK L, t, tr, s : /\ L = OtelLoads(spans) /\ t = Traces(spans)[k] /\ tr = L[k]
                         /\ s = OwnSteps(spans, t)
  OBVIOUS
<1>2. tr = [id |-> t, target |-> "", outcome |-> "none", execFailure |-> "",
            duration |-> None, steps |-> s]
  BY <1>1, OtelLoadsIs
<1>3. tr.steps = s /\ tr.execFailure = ""
  BY <1>2
<1>4. /\ IsTuple(s)
      /\ Cardinality({j \in DOMAIN s : s[j].failure # ""}) = Cardinality({i \in Own(spans, t) : Bad(spans[i])})
  BY <1>1, OwnLosses
<1>5. PICK c : c = Cardinality({j \in DOMAIN s : s[j].failure # ""})
  OBVIOUS
<1>6. Len(FailureEvents(tr)) = Losses(tr) /\ Losses(tr) \in Nat
  BY <1>3, <1>4, FailureEventsIs
<1>7. Failing(tr) = {j \in DOMAIN s : s[j].failure # ""}
  BY <1>3, Zenon DEF Failing
<1>8. Losses(tr) = c + 0
  BY <1>3, <1>5, <1>7, Zenon DEF Losses
<1>9. c \in Nat
  <2>1. s \in Seq(ToSet(s)) /\ {j \in DOMAIN s : s[j].failure # ""} \in SUBSET DOMAIN s
    BY <1>4, TupleIs
  <2> QED
    BY <1>5, <2>1, PickedIs
<1>10. {i \in Own(spans, t) : Bad(spans[i])} = {i \in FailingSpans(spans) : spans[i].trace = t}
  <2>1. \A i : i \in Own(spans, t) <=>
           i \in DOMAIN spans /\ SpanOperation(spans[i]) # "" /\ spans[i].trace = t
    BY OwnMembers
  <2> QED
    BY <2>1 DEF FailingSpans
<1>11. c + 0 = c
  BY <1>9
<1> QED
  BY <1>1, <1>4, <1>5, <1>6, <1>8, <1>10, <1>11, Zenon

(* The trajectories the OTel loader makes hold every failure of the spans. *)
LEMMA OtelFailures ==
  ASSUME NEW spans, IsTuple(spans), \A i \in DOMAIN spans : SoundSpan(spans[i])
  PROVE  /\ FailureCounts(OtelLoads(spans)) \in Seq(Int)
         /\ Total(FailureCounts(OtelLoads(spans))) = Cardinality(FailingSpans(spans))
<1>1. PICK S, T, K, h : /\ S = FailingSpans(spans) /\ T = Traces(spans) /\ K = DOMAIN T
                        /\ h = FailureCounts(OtelLoads(spans))
  OBVIOUS
<1>2. /\ IsTuple(T)
      /\ \A i \in S : \E k \in K : T[k] = spans[i].trace
      /\ \A j, k \in K : T[j] = T[k] => j = k
  <2>1. \A i \in S : i \in DOMAIN spans /\ SpanOperation(spans[i]) # ""
    BY <1>1 DEF FailingSpans
  <2> QED
    BY <1>1, <2>1, TracesCover
<1>3. K = 1 .. Len(T) /\ Len(T) \in Nat /\ IsFiniteSet(K)
  BY <1>1, <1>2, TupleIs, IntervalCount
<1>4. IsFiniteSet(S)
  <2>1. spans \in Seq(ToSet(spans)) /\ S \in SUBSET DOMAIN spans
    BY <1>1, TupleIs DEF FailingSpans
  <2> QED
    BY <2>1, PickedIs
<1>5. PICK g : g = [i \in S |-> CHOOSE k \in K : T[k] = spans[i].trace]
  OBVIOUS
<1>6. g \in [S -> K] /\ \A i \in S : T[g[i]] = spans[i].trace
  <2>1. \A i \in S : g[i] \in K /\ T[g[i]] = spans[i].trace
    BY <1>2, <1>5
  <2> QED
    BY <1>5, <2>1
<1>7. \A k \in K : {i \in S : g[i] = k} = {i \in S : spans[i].trace = T[k]}
  BY <1>2, <1>6
<1>8. DOMAIN h = K
  <2>1. DOMAIN OtelLoads(spans) = DOMAIN Traces(spans)
    BY OtelLoadsIs
  <2> QED
    BY <1>1, <2>1 DEF FailureCounts
<1>9. \A k \in K : h[k] = Cardinality({i \in S : spans[i].trace = T[k]})
  <2>1. \A k \in K : h[k] = Len(FailureEvents(OtelLoads(spans)[k]))
    BY <1>1, <1>8 DEF FailureCounts
  <2>2. \A k \in DOMAIN Traces(spans) : Len(FailureEvents(OtelLoads(spans)[k])) =
           Cardinality({i \in FailingSpans(spans) : spans[i].trace = Traces(spans)[k]})
    BY TraceLosses
  <2> QED
    BY <1>1, <2>1, <2>2, Zenon
<1>10. PICK sigma, f : sigma = [s \in SUBSET S |-> Cardinality(s)] /\ f = [x \in S |-> 1]
  OBVIOUS
<1>11. IsSum(sigma, f, S) /\ f \in [S -> Int]
  BY <1>4, <1>10, CountIsSum
<1>12. \A k \in K : h[k] = sigma[{i \in S : g[i] = k}]
  <2>1. \A s \in SUBSET S : sigma[s] = Cardinality(s)
    BY <1>10
  <2>2. \A k \in K : sigma[{i \in S : g[i] = k}] = Cardinality({i \in S : g[i] = k})
    BY <2>1
  <2> QED
    BY <1>7, <1>9, <2>2
<1>13. h \in [K -> Int]
  <2>1. \A k \in K : h[k] \in Int
    <3>1. sigma \in [SUBSET S -> Int]
      BY <1>11 DEF IsSum
    <3>2. \A k \in K : {i \in S : g[i] = k} \in SUBSET S
      OBVIOUS
    <3> QED
      BY <1>12, <3>1, <3>2
  <2>2. h = [k \in DOMAIN h |-> h[k]]
    BY <1>1 DEF FailureCounts
  <2> QED
    BY <1>8, <2>1, <2>2
<1>14. h \in Seq(Int) /\ DOMAIN h = K
  BY <1>3, <1>13, SeqOfFunction
<1>15. PICK tau : IsSum(tau, h, K)
  BY <1>3, <1>13, SumExists
<1>16. Total(h) = tau[K]
  BY <1>14, <1>15, TotalIs
<1>17. Grouped(S, sigma, K, h, g)
  BY <1>6, <1>12 DEF Grouped
<1>18. tau[K] = sigma[S]
  BY <1>3, <1>4, <1>11, <1>13, <1>15, <1>17, SumByKey
<1>19. sigma[S] = Cardinality(S)
  BY <1>10
<1> QED
  BY <1>1, <1>14, <1>16, <1>18, <1>19

(* A span is of GenAI when it names an operation or a tool, or has parts.  *)
Named(span) == span.operation # "" \/ span.toolName # "" \/ span.inParts # <<>> \/ span.outParts # <<>>

LEMMA OperationNamed ==
  ASSUME NEW span, SoundSpan(span)
  PROVE  SpanOperation(span) # "" <=> Named(span)
<1>1. PICK a, b : a = span.inParts /\ b = span.outParts
  OBVIOUS
<1>2. PICK S : S = ToSet(a) \cup ToSet(b)
  OBVIOUS
<1>3. a \in Seq(S) /\ b \in Seq(S)
  BY <1>1, <1>2 DEF SoundSpan, IsTuple
<1>4. a \o b = <<>> <=> a = <<>> /\ b = <<>>
  BY <1>3, ConcatEqualIffEmpty
<1>5. CASE span.operation # ""
  BY <1>5 DEF SpanOperation, Named
<1>6. CASE span.operation = "" /\ span.toolName # ""
  BY <1>6 DEF SpanOperation, Named
<1>7. CASE span.operation = "" /\ span.toolName = ""
  <2>1. SpanOperation(span) = IF a \o b # <<>> THEN "inference" ELSE ""
    BY <1>1, <1>7 DEF SpanOperation
  <2> QED
    BY <1>1, <1>4, <1>7, <2>1 DEF Named
<1> QED
  BY <1>5, <1>6, <1>7

(* What a recording tells of is what its trajectories hold.                *)
LEMMA FailuresLoaded ==
  ASSUME NEW content, SoundContent(content)
  PROVE  /\ FailureCounts(Loads(content)) \in Seq(Int)
         /\ Total(FailureCounts(Loads(content))) = Failures(content)
<1>1. CASE content.format = "otel"
  <2>1. PICK spans, B : /\ spans = content.spans
                        /\ B = {i \in DOMAIN spans : Bad(spans[i]) /\ Named(spans[i])}
    OBVIOUS
  <2>2. IsTuple(spans) /\ \A i \in DOMAIN spans : SoundSpan(spans[i])
    BY <1>1, <2>1 DEF SoundContent
  <2>3. Failures(content) = Len(Picked(spans, B))
    <3>1. Failures(content) = Len(Picked(content.spans,
             {i \in DOMAIN content.spans : Bad(content.spans[i]) /\ Named(content.spans[i])}))
      BY <1>1, Zenon DEF Failures, Selected, Ordered, Picked, Ranked, Arranged, Bad, Named
    <3> QED
      BY <2>1, <3>1
  <2>4. Len(Picked(spans, B)) = Cardinality(B)
    <3>1. spans \in Seq(ToSet(spans)) /\ B \in SUBSET DOMAIN spans
      BY <2>1, <2>2, TupleIs
    <3> QED
      BY <3>1, PickedIs
  <2>5. B = FailingSpans(spans)
    BY <2>1, <2>2, OperationNamed DEF FailingSpans
  <2>6. Loads(content) = OtelLoads(spans)
    BY <1>1, <2>1 DEF Loads
  <2>7. /\ FailureCounts(OtelLoads(spans)) \in Seq(Int)
        /\ Total(FailureCounts(OtelLoads(spans))) = Cardinality(FailingSpans(spans))
    BY <2>2, OtelFailures
  <2> QED
    BY <2>3, <2>4, <2>5, <2>6, <2>7
<1>2. CASE content.format # "otel"
  <2>1. PICK trajs : trajs = content.trajs
    OBVIOUS
  <2>2. IsTuple(trajs) /\ \A i \in DOMAIN trajs : IsTuple(trajs[i].steps)
    BY <1>2, <2>1 DEF SoundContent, SoundTrajectory, SoundSteps
  <2>3. Loads(content) = trajs
    BY <1>2, <2>1 DEF Loads
  <2>4. Failures(content) = Total(FailureCounts(trajs))
    BY <1>2, <2>1, Zenon DEF Failures, FailureCounts
  <2>5. FailureCounts(trajs) \in Seq(Int)
    <3>1. \A i \in DOMAIN trajs : Len(FailureEvents(trajs[i])) \in Int
      BY <2>2, FailureEventsIs
    <3>2. DOMAIN trajs = 1 .. Len(trajs) /\ Len(trajs) \in Nat
      BY <2>2, TupleIs
    <3>3. FailureCounts(trajs) \in [1 .. Len(trajs) -> Int]
      BY <3>1, <3>2 DEF FailureCounts
    <3> QED
      BY <3>2, <3>3, SeqOfFunction
  <2> QED
    BY <2>3, <2>4, <2>5
<1> QED
  BY <1>1, <1>2

-----------------------------------------------------------------------------
(* The values of a function over a sequence, and their sum.                *)
Through(f, seq) == [i \in DOMAIN seq |-> f[seq[i]]]

LEMMA ThroughIs ==
  ASSUME NEW T, NEW f \in [T -> Int], NEW seq \in Seq(T)
  PROVE  Through(f, seq) \in Seq(Int) /\ Len(Through(f, seq)) = Len(seq)
<1>1. DOMAIN seq = 1 .. Len(seq) /\ Len(seq) \in Nat /\ \A i \in DOMAIN seq : seq[i] \in T
  BY SeqFacts
<1>2. Through(f, seq) \in [1 .. Len(seq) -> Int]
  BY <1>1 DEF Through
<1> QED
  BY <1>1, <1>2, SeqOfFunction

LEMMA ThroughJoined ==
  ASSUME NEW T, NEW f \in [T -> Int], NEW a \in Seq(T), NEW b \in Seq(T)
  PROVE  /\ Total(Through(f, a \o b)) = Total(Through(f, a)) + Total(Through(f, b))
         /\ Total(Through(f, a)) \in Int /\ Total(Through(f, b)) \in Int
<1>1. PICK p, q, c, r, m, n : /\ p = Through(f, a) /\ q = Through(f, b) /\ c = a \o b
                              /\ r = Through(f, c) /\ m = Len(a) /\ n = Len(b)
  OBVIOUS
<1>2. /\ m \in Nat /\ n \in Nat /\ DOMAIN a = 1 .. m /\ DOMAIN b = 1 .. n
      /\ p \in Seq(Int) /\ q \in Seq(Int) /\ Len(p) = m /\ Len(q) = n
  BY <1>1, SeqFacts, ThroughIs
<1>3. /\ c \in Seq(T) /\ Len(c) = m + n
      /\ \A i \in 1 .. m + n : c[i] = IF i <= m THEN a[i] ELSE b[i - m]
  BY <1>1, ConcatProperties
<1>4. DOMAIN c = 1 .. m + n
  BY <1>3, SeqFacts
<1>5. r = [i \in 1 .. m + n |-> f[c[i]]]
  BY <1>1, <1>4 DEF Through
<1>6. /\ (p \o q) \in Seq(Int) /\ Len(p \o q) = m + n
      /\ \A i \in 1 .. m + n : (p \o q)[i] = IF i <= m THEN p[i] ELSE q[i - m]
  BY <1>2, ConcatProperties
<1>7. DOMAIN (p \o q) = 1 .. m + n
  BY <1>6, SeqFacts
<1>8. \A i \in 1 .. m + n : f[c[i]] = (p \o q)[i]
  <2>1. /\ \A i \in 1 .. m : p[i] = f[a[i]]
        /\ \A i \in 1 .. n : q[i] = f[b[i]]
    BY <1>1, <1>2 DEF Through
  <2> SUFFICES ASSUME NEW i \in 1 .. m + n PROVE f[c[i]] = (p \o q)[i]
    OBVIOUS
  <2>2. CASE i <= m
    BY <1>2, <1>3, <1>6, <2>1, <2>2
  <2>3. CASE ~(i <= m)
    <3>1. i - m \in 1 .. n
      BY <1>2, <2>3
    <3>2. c[i] = b[i - m] /\ (p \o q)[i] = q[i - m]
      BY <1>3, <1>6, <2>3
    <3> QED
      BY <2>1, <3>1, <3>2
  <2> QED
    BY <2>2, <2>3
<1>9. r = p \o q
  <2>1. (p \o q) = [i \in 1 .. m + n |-> (p \o q)[i]]
    <3>1. PICK w : w = p \o q
      OBVIOUS
    <3>2. w \in [1 .. m + n -> Int]
      BY <1>6, <3>1, LenProperties
    <3>3. w = [i \in 1 .. m + n |-> w[i]]
      BY <3>2
    <3> QED
      BY <3>1, <3>3
  <2> QED
    BY <1>5, <1>8, <2>1
<1>10. Total(p \o q) = Total(p) + Total(q) /\ Total(p) \in Int /\ Total(q) \in Int
  BY <1>2, TotalConcat
<1> QED
  BY <1>1, <1>9, <1>10

LEMMA TotalNone == ASSUME NEW f PROVE Total(Through(f, <<>>)) = 0
<1>1. PICK e : e = Through(f, <<>>)
  OBVIOUS
<1>2. e = <<>>
  BY <1>1 DEF Through
<1>3. e \in Seq(Int) /\ DOMAIN e = {}
  BY <1>2
<1>4. PICK sigma : IsSum(sigma, e, {})
  <2>1. IsFiniteSet({}) /\ e \in [{} -> Int]
    BY <1>2, FS_EmptySet
  <2> QED
    BY <2>1, SumExists
<1>5. Total(e) = sigma[{}]
  BY <1>3, <1>4, TotalIs
<1> QED
  BY <1>1, <1>4, <1>5 DEF IsSum

(* The failures of the trajectories so far are those of the recordings     *)
(* that were read.                                                         *)
Held == [t \in Loadable |-> Len(FailureEvents(t))]
Told == [content \in Readable |-> Failures(content)]
FailuresRead == Total(Through(Held, dataset.trajs)) = Total(Through(Told, dataset.read))

LEMMA HeldIs == Held \in [Loadable -> Int]
<1>1. \A t \in Loadable : Len(FailureEvents(t)) \in Int
  <2> SUFFICES ASSUME NEW t \in Loadable PROVE Len(FailureEvents(t)) \in Int
    OBVIOUS
  <2>1. IsTuple(t.steps)
    BY LoadableIsSound DEF SoundSteps
  <2> QED
    BY <2>1, FailureEventsIs
<1> QED
  BY <1>1 DEF Held

LEMMA ReadableIsSound ==
  ASSUME NEW content \in Readable
  PROVE  SoundContent(content)
BY RecordingsAssumption DEF Readable

LEMMA ToldIs == Told \in [Readable -> Int]
<1>1. \A content \in Readable : Failures(content) \in Int
  <2> SUFFICES ASSUME NEW content \in Readable PROVE Failures(content) \in Int
    OBVIOUS
  <2>1. PICK c : c = FailureCounts(Loads(content))
    OBVIOUS
  <2>2. c \in Seq(Int) /\ Total(c) = Failures(content)
    BY <2>1, ReadableIsSound, FailuresLoaded
  <2>3. Total(c) \in Int
    <3>1. DOMAIN c = 1 .. Len(c) /\ Len(c) \in Nat /\ \A i \in DOMAIN c : c[i] \in Int
      BY <2>2, SeqFacts
    <3>2. IsFiniteSet(DOMAIN c) /\ c \in [DOMAIN c -> Int]
      BY <2>2, <3>1, IntervalCount, LenProperties
    <3>3. PICK sigma : IsSum(sigma, c, DOMAIN c)
      BY <3>2, SumExists
    <3> QED
      BY <2>2, <3>3, TotalIs
  <2> QED
    BY <2>2, <2>3
<1> QED
  BY <1>1 DEF Told

LEMMA TotalOne == ASSUME NEW x \in Int PROVE Total(<<x>>) = x
<1>1. PICK e : e = <<x>>
  OBVIOUS
<1>2. e \in Seq(Int) /\ DOMAIN e = {1} /\ e[1] = x /\ e \in [{1} -> Int]
  BY <1>1
<1>3. PICK sigma : IsSum(sigma, e, {1})
  <2>1. IsFiniteSet({1})
    BY FS_Singleton
  <2> QED
    BY <1>2, <2>1, SumExists
<1>4. Total(e) = sigma[{1}]
  BY <1>2, <1>3, TotalIs
<1>5. sigma[{1}] = e[1] + sigma[{1} \ {1}] /\ sigma[{}] = 0
  BY <1>3 DEF IsSum
<1>6. {1} \ {1} = {}
  OBVIOUS
<1>7. sigma[{1}] = x + 0
  BY <1>2, <1>5, <1>6
<1> QED
  BY <1>1, <1>4, <1>7

LEMMA ContentFailures ==
  ASSUME NEW content \in Readable, Loads(content) \in Seq(Loadable)
  PROVE  Total(Through(Held, Loads(content))) = Total(Through(Told, <<content>>))
<1>1. PICK L : L = Loads(content)
  OBVIOUS
<1>2. \A i \in DOMAIN L : L[i] \in Loadable
  BY <1>1, SeqFacts
<1>3. Through(Held, L) = FailureCounts(L)
  BY <1>2 DEF Through, Held, FailureCounts
<1>4. Total(FailureCounts(L)) = Failures(content)
  BY <1>1, ReadableIsSound, FailuresLoaded
<1>5. Told[content] = Failures(content) /\ Told[content] \in Int
  BY ToldIs DEF Told
<1>6. Through(Told, <<content>>) = <<Told[content]>>
  BY DEF Through
<1>7. Total(<<Told[content]>>) = Told[content]
  BY <1>5, TotalOne
<1> QED
  BY <1>1, <1>3, <1>4, <1>5, <1>6, <1>7

LEMMA FailuresReadInit == Init => FailuresRead
<1> SUFFICES ASSUME Init PROVE FailuresRead
  OBVIOUS
<1>1. dataset.read = <<>> /\ dataset.trajs = <<>>
  BY DEF Init
<1> QED
  BY <1>1, TotalNone DEF FailuresRead

LEMMA FailuresReadBuild ==
  ASSUME RunInv, FailuresRead, NEW read \in Seq(Readable), NEW loaded \in Seq(Loadable), NEW issues,
         BuildStep(read, loaded, issues),
         Total(Through(Held, loaded)) = Total(Through(Told, read))
  PROVE  FailuresRead'
<1>1. PICK r, t : r = dataset.read /\ t = dataset.trajs
  OBVIOUS
<1>2. r \in Seq(Readable) /\ t \in Seq(Loadable)
  BY <1>1, Fields DEF RunInv
<1>3. dataset'.read = r \o read /\ dataset'.trajs = t \o loaded
  BY <1>1 DEF BuildStep, RunInv, Shape
<1>4. Total(Through(Held, t \o loaded)) = Total(Through(Held, t)) + Total(Through(Held, loaded))
  BY <1>2, HeldIs, ThroughJoined
<1>5. Total(Through(Told, r \o read)) = Total(Through(Told, r)) + Total(Through(Told, read))
  BY <1>2, ToldIs, ThroughJoined
<1>6. Total(Through(Held, t)) = Total(Through(Told, r))
  BY <1>1 DEF FailuresRead
<1>7. Total(Through(Held, t \o loaded)) = Total(Through(Told, r \o read))
  BY <1>4, <1>5, <1>6
<1> QED
  BY <1>3, <1>7 DEF FailuresRead

LEMMA FailuresReadStep == RunInv /\ FailuresRead /\ [Next]_vars => FailuresRead'
<1> SUFFICES ASSUME RunInv, FailuresRead, [Next]_vars PROVE FailuresRead'
  OBVIOUS
<1>1. CASE FetchFails \/ LoadFails
  <2>1. PICK kind : BuildStep(<<>>, <<>>, <<kind>>)
    BY <1>1 DEF FetchFails, LoadFails
  <2>2. <<>> \in Seq(Readable) /\ <<>> \in Seq(Loadable)
    OBVIOUS
  <2>3. Total(Through(Held, <<>>)) = Total(Through(Told, <<>>))
    BY TotalNone
  <2> QED
    BY <2>1, <2>2, <2>3, FailuresReadBuild
<1>2. CASE LoadWorks
  <2>1. next \in DOMAIN Recordings
    BY <1>2, RecordingsCount DEF LoadWorks, RunInv, Shape
  <2>2. PICK content \in Contents[Recordings[next]] : BuildStep(<<content>>, Loads(content), <<>>)
    BY <1>2 DEF LoadWorks
  <2>3. content \in Readable /\ Loads(content) \in Seq(Loadable)
    BY <2>1, <2>2, LoadsLoadable
  <2>4. <<content>> \in Seq(Readable)
    BY <2>3, OneOrNone
  <2>5. Total(Through(Held, Loads(content))) = Total(Through(Told, <<content>>))
    BY <2>3, ContentFailures
  <2> QED
    BY <2>2, <2>3, <2>4, <2>5, FailuresReadBuild
<1>3. CASE Rerun
  <2>1. dataset'.read = <<>> /\ dataset'.trajs = <<>>
    BY <1>3 DEF Rerun
  <2> QED
    BY <2>1, TotalNone DEF FailuresRead
<1>4. CASE UNCHANGED dataset
  BY <1>4 DEF FailuresRead
<1> QED
  BY <1>1, <1>2, <1>3, <1>4
     DEF Next, vars, Assemble, Analyze, Aggregate, WriteDataset, WriteRun, WriteVerdict, Finished

-----------------------------------------------------------------------------
(* The rows of a target, and the results of a plugin over them.            *)

Plugins == [detections    |-> DetectorIds,
            verifications |-> <<"execution_success", "tool_success", "measurement_threshold">>,
            measurements  |-> <<"context_usage", "model_usage", "retry_usage", "tool_usage">>]
Good == [detections |-> "analyzed", verifications |-> "verified", measurements |-> "measured"]

(* A row has a result of every plugin.                                     *)
Row(r) == \A kind \in Kinds :
            /\ DOMAIN r[kind] = DOMAIN Plugins[kind]
            /\ \A k \in DOMAIN Plugins[kind] : r[kind][k].id = Plugins[kind][k]

LEMMA PluginsOnce ==
  ASSUME NEW kind \in Kinds
  PROVE  /\ 1 \in DOMAIN Plugins[kind]
         /\ \A j, k \in DOMAIN Plugins[kind] : Plugins[kind][j] = Plugins[kind][k] => j = k
<1>1. CASE kind = "detections"
  <2>1. Plugins[kind] = DetectorIds
    BY <1>1 DEF Plugins
  <2>2. DOMAIN DetectorIds = 1 .. 8
    BY DEF DetectorIds
  <2>3. \A j, k \in 1 .. 8 : DetectorIds[j] = DetectorIds[k] => j = k
    BY DEF DetectorIds
  <2> QED
    BY <2>1, <2>2, <2>3
<1>2. CASE kind = "verifications"
  BY <1>2 DEF Plugins
<1>3. CASE kind = "measurements"
  BY <1>3 DEF Plugins
<1> QED
  BY <1>1, <1>2, <1>3 DEF Kinds

LEMMA AnalysisIsRow == ASSUME NEW t PROVE Row(Analysis(t))
<1>1. PICK r, m : r = Analysis(t) /\ m = Measure(t)
  OBVIOUS
<1>2. r["measurements"] = m /\ r["detections"] = Detect(t, m) /\ r["verifications"] = Verify(t, m)
  BY <1>1, AnalysisIs
<1>3. /\ DOMAIN m = 1 .. 4 /\ m[1].id = "context_usage" /\ m[2].id = "model_usage"
      /\ m[3].id = "retry_usage" /\ m[4].id = "tool_usage"
  <2>1. PICK a, b, c, d : /\ a = ContextUsage(t.steps) /\ b = ModelUsage(t.steps)
                          /\ c = RetryUsage(t.steps) /\ d = ToolUsage(t.steps)
    OBVIOUS
  <2>2. /\ DOMAIN m = 1 .. 4 /\ m[1] = Isolated(a) /\ m[2] = Isolated(b)
        /\ m[3] = Isolated(c) /\ m[4] = Isolated(d)
    BY <1>1, <2>1, MeasureIs, Zenon
  <2>3. /\ Reports(a, "context_usage") /\ Reports(b, "model_usage")
        /\ Reports(c, "retry_usage") /\ Reports(d, "tool_usage")
    BY <2>1, MeasurersReport, Zenon
  <2>4. /\ Isolated(a).id = "context_usage" /\ Isolated(b).id = "model_usage"
        /\ Isolated(c).id = "retry_usage" /\ Isolated(d).id = "tool_usage"
    BY <2>3, IsolatedReport
  <2> QED
    BY <2>2, <2>4
<1>4. DOMAIN Detect(t, m) = 1 .. 8 /\ \A k \in 1 .. 8 : Detect(t, m)[k].id = DetectorIds[k]
  BY DetectIs, IsolatedJudgement
<1>5. /\ DOMAIN Verify(t, m) = 1 .. 3 /\ Verify(t, m)[1].id = "execution_success"
      /\ Verify(t, m)[2].id = "tool_success" /\ Verify(t, m)[3].id = "measurement_threshold"
  <2>1. PICK a, b, c :
          /\ a = ExecutionSuccess(t.outcome) /\ b = ToolSuccess(t.steps)
          /\ c = MeasurementThreshold(m, "retry_usage", "unchanged_retry_count", 0)
    OBVIOUS
  <2>2. Verify(t, m) = Each(<<a, b, c>>)
    BY <2>1, Zenon DEF Verify
  <2>3. /\ DOMAIN Each(<<a, b, c>>) = 1 .. 3 /\ Each(<<a, b, c>>)[1] = Isolated(a)
        /\ Each(<<a, b, c>>)[2] = Isolated(b) /\ Each(<<a, b, c>>)[3] = Isolated(c)
    BY DEF Each
  <2>4. /\ Rules(a, "execution_success") /\ Rules(b, "tool_success")
        /\ Rules(c, "measurement_threshold")
    BY <2>1, VerifiersRule, Zenon
  <2> QED
    BY <2>2, <2>3, <2>4, IsolatedRuling
<1>6. ASSUME NEW kind \in Kinds
      PROVE  /\ DOMAIN r[kind] = DOMAIN Plugins[kind]
             /\ \A k \in DOMAIN Plugins[kind] : r[kind][k].id = Plugins[kind][k]
  <2>1. CASE kind = "detections"
    <3>1. Plugins[kind] = DetectorIds /\ DOMAIN DetectorIds = 1 .. 8
      BY <2>1 DEF Plugins, DetectorIds
    <3> QED
      BY <1>2, <1>4, <2>1, <3>1
  <2>2. CASE kind = "verifications"
    <3>1. PICK p : p = Plugins[kind]
      OBVIOUS
    <3>2. /\ DOMAIN p = 1 .. 3 /\ p[1] = "execution_success" /\ p[2] = "tool_success"
          /\ p[3] = "measurement_threshold"
      BY <2>2, <3>1 DEF Plugins
    <3>3. \A k \in 1 .. 3 : k = 1 \/ k = 2 \/ k = 3
      OBVIOUS
    <3> QED
      BY <1>2, <1>5, <2>2, <3>1, <3>2, <3>3
  <2>3. CASE kind = "measurements"
    <3>1. PICK p : p = Plugins[kind]
      OBVIOUS
    <3>2. /\ DOMAIN p = 1 .. 4 /\ p[1] = "context_usage" /\ p[2] = "model_usage"
          /\ p[3] = "retry_usage" /\ p[4] = "tool_usage"
      BY <2>3, <3>1 DEF Plugins
    <3>3. \A k \in 1 .. 4 : k = 1 \/ k = 2 \/ k = 3 \/ k = 4
      OBVIOUS
    <3> QED
      BY <1>2, <1>3, <2>3, <3>1, <3>2, <3>3
  <2> QED
    BY <2>1, <2>2, <2>3 DEF Kinds
<1> QED
  BY <1>1, <1>6 DEF Row

(* When all trajectories are analyzed, the results are theirs, in order.   *)
Complete ==
  /\ dataset.trajs \in Seq(Loadable) /\ IsTuple(run.results)
  /\ DOMAIN run.results = DOMAIN dataset.trajs
  /\ \A i \in DOMAIN run.results : run.results[i] = Analysis(dataset.trajs[i])

LEMMA ReadyComplete ==
  ASSUME RunInv, phase = "analyze", next > Len(dataset.trajs)
  PROVE  Complete
<1>1. /\ dataset.trajs \in Seq(Loadable) /\ Len(dataset.trajs) \in Nat
      /\ DOMAIN dataset.trajs = 1 .. Len(dataset.trajs) /\ next \in Nat
  BY Fields DEF RunInv, Shape
<1>2. next <= Len(dataset.trajs) + 1
  BY DEF RunInv, AnalyzedSoFar
<1>3. IsTuple(run.results) /\ Len(run.results) = next - 1
      /\ \A i \in 1 .. Len(run.results) : run.results[i] = Analysis(dataset.trajs[i])
  BY DEF RunInv, Analyses
<1>4. next - 1 = Len(dataset.trajs)
  BY <1>1, <1>2
<1>5. DOMAIN run.results = 1 .. Len(run.results)
  BY <1>3, TupleIs
<1> QED
  BY <1>1, <1>3, <1>4, <1>5 DEF Complete

PlacesOf(target) == {i \in DOMAIN run.results : run.results[i].t.target = target}

LEMMA RowsIs ==
  ASSUME Complete, NEW target
  PROVE  /\ OfTarget(target) = Picked(run.results, PlacesOf(target))
         /\ OfTarget(target) \in Seq(ToSet(run.results))
         /\ Len(OfTarget(target)) = Cardinality(PlacesOf(target))
         /\ target \in Targets => OfTarget(target) # <<>>
<1>1. OfTarget(target) = Picked(run.results, PlacesOf(target))
  BY Zenon DEF OfTarget, Selected, Ordered, Picked, Ranked, Arranged, PlacesOf
<1>2. run.results \in Seq(ToSet(run.results))
  BY DEF Complete, IsTuple
<1>3. PlacesOf(target) \in SUBSET DOMAIN run.results
  BY DEF PlacesOf
<1>4. /\ Picked(run.results, PlacesOf(target)) \in Seq(ToSet(run.results))
      /\ Len(Picked(run.results, PlacesOf(target))) = Cardinality(PlacesOf(target))
      /\ Picked(run.results, PlacesOf(target)) = <<>> <=> PlacesOf(target) = {}
  BY <1>2, <1>3, PickedIs
<1>5. target \in Targets => PlacesOf(target) # {}
  BY DEF Targets, PlacesOf
<1> QED
  BY <1>1, <1>4, <1>5

LEMMA ResultIsRow ==
  ASSUME Complete, NEW r \in ToSet(run.results)
  PROVE  Row(r) /\ r.t \in Loadable
<1>1. PICK i \in DOMAIN run.results : r = run.results[i]
  BY DEF ToSet
<1>2. PICK t : t = dataset.trajs[i] /\ t \in Loadable /\ r = Analysis(t)
  <2>1. dataset.trajs \in Seq(Loadable) /\ i \in DOMAIN dataset.trajs
    BY DEF Complete
  <2> QED
    BY <1>1, <2>1, SeqFacts DEF Complete
<1> QED
  BY <1>2, AnalysisIsRow, AnalysisIs

LEMMA ResultsIs ==
  ASSUME Complete, NEW target \in Targets, NEW kind \in Kinds, NEW k \in DOMAIN Plugins[kind]
  PROVE  /\ IsTuple(ResultsOf(target, kind, k))
         /\ Len(ResultsOf(target, kind, k)) = Len(OfTarget(target))
         /\ Len(OfTarget(target)) \in Nat
         /\ ResultsOf(target, kind, k) # <<>>
         /\ ResultsOf(target, kind, k)[1].id = Plugins[kind][k]
         /\ DOMAIN OfTarget(target)[1][kind] = DOMAIN Plugins[kind]
<1>1. PICK rows, res : rows = OfTarget(target) /\ res = ResultsOf(target, kind, k)
  OBVIOUS
<1>2. rows \in Seq(ToSet(run.results)) /\ rows # <<>>
  BY <1>1, RowsIs
<1>3. /\ DOMAIN rows = 1 .. Len(rows) /\ Len(rows) \in Nat
      /\ \A i \in DOMAIN rows : rows[i] \in ToSet(run.results)
  BY <1>2, SeqFacts
<1>4. res = [i \in 1 .. Len(rows) |-> rows[i][kind][k]]
  BY <1>1, <1>3 DEF ResultsOf
<1>5. PICK S : S = {rows[i][kind][k] : i \in 1 .. Len(rows)}
  OBVIOUS
<1>6. res \in [1 .. Len(rows) -> S]
  BY <1>4, <1>5
<1>7. res \in Seq(S) /\ Len(res) = Len(rows)
  BY <1>3, <1>6, SeqOfFunction
<1>8. IsTuple(res)
  BY <1>7, SeqFacts
<1>9. 1 \in 1 .. Len(rows)
  BY <1>2, <1>3, EmptySeq
<1>10. Row(rows[1])
  BY <1>3, <1>9, ResultIsRow
<1>11. res[1] = rows[1][kind][k] /\ res # <<>>
  BY <1>4, <1>7, <1>9, EmptySeq
<1> QED
  BY <1>1, <1>3, <1>7, <1>8, <1>10, <1>11 DEF Row

(* Disjoint parts of a sequence are no longer than it, together.           *)
LEMMA PartsFit ==
  ASSUME NEW seq, IsTuple(seq), NEW A \in SUBSET DOMAIN seq, NEW B \in SUBSET DOMAIN seq, A \cap B = {}
  PROVE  /\ Cardinality(A) \in Nat /\ Cardinality(B) \in Nat
         /\ Cardinality(A) + Cardinality(B) <= Len(seq)
<1>1. DOMAIN seq = 1 .. Len(seq) /\ Len(seq) \in Nat
  BY TupleIs
<1>2. IsFiniteSet(DOMAIN seq) /\ Cardinality(DOMAIN seq) = Len(seq)
  BY <1>1, IntervalCount
<1>3. PICK C : C = A \cup B /\ C \subseteq DOMAIN seq
  OBVIOUS
<1>4. IsFiniteSet(A) /\ IsFiniteSet(B) /\ IsFiniteSet(C)
  BY <1>2, <1>3, FS_Subset
<1>5. Cardinality(A) + Cardinality(B) = Cardinality(C)
  BY <1>3, <1>4, SplitCount
<1>6. Cardinality(C) <= Cardinality(DOMAIN seq)
  BY <1>2, <1>3, FS_Subset
<1>7. Cardinality(A) \in Nat /\ Cardinality(B) \in Nat
  BY <1>4, FS_CardinalityType
<1> QED
  BY <1>2, <1>5, <1>6, <1>7

LEMMA PartFits ==
  ASSUME NEW seq, IsTuple(seq), NEW A \in SUBSET DOMAIN seq
  PROVE  Cardinality(A) \in Nat /\ Cardinality(A) <= Len(seq) /\ Len(Picked(seq, A)) = Cardinality(A)
<1>1. seq \in Seq(ToSet(seq)) /\ Len(seq) \in Nat
  BY TupleIs
<1>2. Len(Picked(seq, A)) = Cardinality(A)
  BY <1>1, PickedIs
<1>3. Cardinality({}) = 0 /\ {} \in SUBSET DOMAIN seq /\ A \cap {} = {}
  BY FS_EmptySet
<1>4. Cardinality(A) \in Nat /\ Cardinality(A) + Cardinality({}) <= Len(seq)
  BY <1>3, PartsFit
<1> QED
  BY <1>1, <1>2, <1>3, <1>4

LEMMA MetricIs ==
  ASSUME NEW name, NEW of, NEW a, NEW b
  PROVE  LET m == Metric(name, of, Ratio(a, b)) IN
         m.name = name /\ m.of = of /\ m.value[1] = a /\ m.value[2] = b /\ "agg" \notin DOMAIN m
BY DEF Metric, Ratio

LEMMA AggregatedIs ==
  ASSUME NEW name, NEW of, NEW agg, NEW a, NEW b
  PROVE  LET m == Aggregated(name, of, agg, Ratio(a, b)) IN
         m.name = name /\ m.of = of /\ m.value[1] = a /\ "agg" \in DOMAIN m /\ m.agg = agg
<1>1. PICK f, g : f = Metric(name, of, Ratio(a, b)) /\ g = [agg |-> agg]
  OBVIOUS
<1>2. /\ DOMAIN f = {"name", "of", "value"} /\ f["name"] = name /\ f["of"] = of /\ f["value"][1] = a
      /\ DOMAIN g = {"agg"} /\ g["agg"] = agg
  BY <1>1 DEF Metric, Ratio
<1>3. PICK h : h = f ++ g
  OBVIOUS
<1>4. /\ DOMAIN h = DOMAIN f \cup DOMAIN g
      /\ \A x \in DOMAIN f \cup DOMAIN g : h[x] = IF x \in DOMAIN f THEN f[x] ELSE g[x]
  BY <1>3 DEF ++
<1>5. h.name = name /\ h.of = of /\ h.value[1] = a /\ "agg" \in DOMAIN h /\ h.agg = agg
  BY <1>2, <1>4
<1> QED
  BY <1>1, <1>3, <1>5, Zenon DEF Aggregated

-----------------------------------------------------------------------------
(* The health of the plugins.                                              *)
Having(res, status) == {i \in DOMAIN res : res[i].status = status}
HealthOf(target, kind, k) ==
  HealthMetrics(target, kind, Plugins[kind][k], ResultsOf(target, kind, k), Good[kind])

LEMMA HealthIs ==
  ASSUME NEW target, NEW kind, NEW id, NEW res, IsTuple(res), NEW good,
         NEW m \in HealthMetrics(target, kind, id, res, good)
  PROVE  /\ m.of = <<target, kind, id>> /\ m.value[2] = Len(OfTarget(target)) /\ "agg" \notin DOMAIN m
         /\ \/ m.name = "applicability" /\ m.value[1] = Cardinality(Having(res, good))
            \/ m.name = "error" /\ m.value[1] = Cardinality(Having(res, "error"))
<1>1. PICK of, rows, a, b : /\ of = <<target, kind, id>> /\ rows = Len(OfTarget(target))
                            /\ a = Len(Picked(res, Having(res, good)))
                            /\ b = Len(Picked(res, Having(res, "error")))
  OBVIOUS
<1>2. \/ m = Metric("applicability", of, Ratio(a, rows))
      \/ m = Metric("error", of, Ratio(b, rows))
  <2>1. HealthMetrics(target, kind, id, res, good) =
          {Metric("applicability", of, Ratio(a, rows)), Metric("error", of, Ratio(b, rows))}
    BY <1>1, Zenon DEF HealthMetrics, Selected, Ordered, Picked, Ranked, Arranged, Having
  <2> QED
    BY <2>1
<1>3. a = Cardinality(Having(res, good)) /\ b = Cardinality(Having(res, "error"))
  <2>1. Having(res, good) \in SUBSET DOMAIN res /\ Having(res, "error") \in SUBSET DOMAIN res
    BY DEF Having
  <2> QED
    BY <1>1, <2>1, PartFits
<1>4. CASE m = Metric("applicability", of, Ratio(a, rows))
  BY <1>1, <1>3, <1>4, MetricIs
<1>5. CASE m = Metric("error", of, Ratio(b, rows))
  BY <1>1, <1>3, <1>5, MetricIs
<1> QED
  BY <1>2, <1>4, <1>5

(* A plugin is never applicable and in error on one trajectory.            *)
LEMMA HealthFits ==
  ASSUME Complete,
         NEW s \in Targets, NEW kind \in Kinds, NEW j \in DOMAIN Plugins[kind], NEW m \in HealthOf(s, kind, j),
         NEW t \in Targets, NEW kynd \in Kinds, NEW k \in DOMAIN Plugins[kynd], NEW n \in HealthOf(t, kynd, k),
         m.name = "applicability", n.name = "error", m.of = n.of
  PROVE  m.value[1] + n.value[1] <= n.value[2]
<1>1. PICK res, good : res = ResultsOf(s, kind, j) /\ good = Good[kind]
  OBVIOUS
<1>2. IsTuple(res) /\ Len(res) = Len(OfTarget(s)) /\ Len(OfTarget(s)) \in Nat
  BY <1>1, ResultsIs
<1>3. IsTuple(ResultsOf(t, kynd, k))
  BY ResultsIs
<1>4. m.of = <<s, kind, Plugins[kind][j]>> /\ n.of = <<t, kynd, Plugins[kynd][k]>>
  <2>1. m \in HealthMetrics(s, kind, Plugins[kind][j], res, good)
    BY <1>1 DEF HealthOf
  <2>2. m.of = <<s, kind, Plugins[kind][j]>>
    BY <1>2, <2>1, HealthIs
  <2>3. PICK other, fine : other = ResultsOf(t, kynd, k) /\ fine = Good[kynd]
    OBVIOUS
  <2>4. IsTuple(other) /\ n \in HealthMetrics(t, kynd, Plugins[kynd][k], other, fine)
    BY <1>3, <2>3 DEF HealthOf
  <2>5. n.of = <<t, kynd, Plugins[kynd][k]>>
    BY <2>4, HealthIs
  <2> QED
    BY <2>2, <2>5
<1>5. s = t /\ kind = kynd /\ Plugins[kind][j] = Plugins[kynd][k]
  <2>1. <<s, kind, Plugins[kind][j]>> = <<t, kynd, Plugins[kynd][k]>>
    BY <1>4
  <2> QED
    BY <2>1
<1>6. j = k
  BY <1>5, PluginsOnce
<1>7. n \in HealthMetrics(s, kind, Plugins[kind][j], res, good)
      /\ m \in HealthMetrics(s, kind, Plugins[kind][j], res, good)
  BY <1>1, <1>5, <1>6 DEF HealthOf
<1>8. m.value[1] = Cardinality(Having(res, good))
  <2>1. \/ m.name = "applicability" /\ m.value[1] = Cardinality(Having(res, good))
        \/ m.name = "error" /\ m.value[1] = Cardinality(Having(res, "error"))
    BY <1>2, <1>7, HealthIs
  <2> QED
    BY <2>1
<1>9. n.value[1] = Cardinality(Having(res, "error")) /\ n.value[2] = Len(OfTarget(s))
  <2>1. /\ \/ n.name = "applicability" /\ n.value[1] = Cardinality(Having(res, good))
           \/ n.name = "error" /\ n.value[1] = Cardinality(Having(res, "error"))
        /\ n.value[2] = Len(OfTarget(s))
    BY <1>2, <1>7, HealthIs
  <2> QED
    BY <2>1
<1>10. good # "error"
  BY <1>1 DEF Good, Kinds
<1>11. /\ Having(res, good) \in SUBSET DOMAIN res /\ Having(res, "error") \in SUBSET DOMAIN res
       /\ Having(res, good) \cap Having(res, "error") = {}
  BY <1>10 DEF Having
<1>12. Cardinality(Having(res, good)) + Cardinality(Having(res, "error")) <= Len(res)
  BY <1>2, <1>11, PartsFit
<1> QED
  BY <1>2, <1>8, <1>9, <1>12

-----------------------------------------------------------------------------
(* What the metrics are, part by part.                                     *)
RateMetrics == {"execution.completion", "execution.timeout", "execution.failure",
                "failure.rate", "finding.rate", "verification.pass"}
IsRate(m) == /\ m.name \in RateMetrics /\ "agg" \notin DOMAIN m
             /\ 0 <= m.value[1] /\ m.value[1] <= m.value[2]
IsHealth(m) == \E target \in Targets : \E kind \in Kinds : \E k \in DOMAIN Plugins[kind] :
                 m \in HealthOf(target, kind, k)

LEMMA RateIs ==
  ASSUME NEW seq, IsTuple(seq), NEW A \in SUBSET DOMAIN seq, NEW name \in RateMetrics, NEW of
  PROVE  IsRate(Metric(name, of, Ratio(Len(Picked(seq, A)), Len(seq))))
<1>1. PICK m, a, n : a = Len(Picked(seq, A)) /\ n = Len(seq) /\ m = Metric(name, of, Ratio(a, n))
  OBVIOUS
<1>2. a \in Nat /\ a <= n
  BY <1>1, PartFits
<1>3. m.name = name /\ m.value[1] = a /\ m.value[2] = n /\ "agg" \notin DOMAIN m
  BY <1>1, MetricIs
<1>4. IsRate(m)
  BY <1>2, <1>3 DEF IsRate
<1> QED
  BY <1>1, <1>4

Found(res) == {i \in DOMAIN res : res[i].findings # <<>>}
FindingsOf(res) == [i \in DOMAIN Picked(res, Found(res)) |-> Len(Picked(res, Found(res))[i].findings)]
DetectionOf(target, k) ==
  LET res == ResultsOf(target, "detections", k)
      of  == <<target, "detections", res[1].id>>
  IN  HealthMetrics(target, "detections", res[1].id, res, "analyzed")
        \cup IF Picked(res, Found(res)) = <<>> THEN {}
             ELSE {Metric("finding.count", of, Ratio(Total(FindingsOf(res)), 1)),
                   Metric("finding.rate", of, Ratio(Len(Picked(res, Found(res))), Len(OfTarget(target))))}

LEMMA DetectionIs ==
  ASSUME Complete, NEW target \in Targets, NEW m \in DetectionMetrics(target)
  PROVE  \/ IsHealth(m) \/ IsRate(m)
         \/ m.name = "finding.count" /\ "agg" \notin DOMAIN m
<1>1. DetectionMetrics(target) = UNION {DetectionOf(target, k) : k \in DOMAIN OfTarget(target)[1]["detections"]}
  BY ZenonT(60) DEF DetectionMetrics, DetectionOf, Selected, Ordered, Picked, Ranked, Arranged, Found, FindingsOf
<1>2. PICK k \in DOMAIN OfTarget(target)[1]["detections"] : m \in DetectionOf(target, k)
  BY <1>1
<1>3. "detections" \in Kinds
  BY DEF Kinds
<1>4. k \in DOMAIN Plugins["detections"]
  <2>1. 1 \in DOMAIN Plugins["detections"]
    BY <1>3, PluginsOnce
  <2> QED
    BY <1>2, <1>3, <2>1, ResultsIs
<1>5. PICK res, id, of, a, b, c : /\ res = ResultsOf(target, "detections", k) /\ id = res[1].id
                        /\ of = <<target, "detections", id>>
                        /\ a = Total(FindingsOf(res)) /\ b = Len(Picked(res, Found(res)))
                        /\ c = Len(OfTarget(target))
  OBVIOUS
<1>6. IsTuple(res) /\ Len(res) = c /\ id = Plugins["detections"][k]
  BY <1>3, <1>4, <1>5, ResultsIs
<1>7. \/ m \in HealthMetrics(target, "detections", id, res, "analyzed")
      \/ m = Metric("finding.count", of, Ratio(a, 1))
      \/ m = Metric("finding.rate", of, Ratio(b, c))
  BY <1>2, <1>5, Zenon DEF DetectionOf
<1>8. CASE m \in HealthMetrics(target, "detections", id, res, "analyzed")
  <2>1. Good["detections"] = "analyzed"
    BY DEF Good
  <2>2. m \in HealthOf(target, "detections", k)
    BY <1>5, <1>6, <1>8, <2>1 DEF HealthOf
  <2> QED
    BY <1>3, <1>4, <2>2 DEF IsHealth
<1>9. CASE m = Metric("finding.count", of, Ratio(a, 1))
  BY <1>9, MetricIs
<1>10. CASE m = Metric("finding.rate", of, Ratio(b, c))
  <2>1. Found(res) \in SUBSET DOMAIN res /\ "finding.rate" \in RateMetrics
    BY DEF Found, RateMetrics
  <2>2. IsRate(Metric("finding.rate", of, Ratio(Len(Picked(res, Found(res))), Len(res))))
    BY <1>6, <2>1, RateIs
  <2> QED
    BY <1>5, <1>6, <1>10, <2>2
<1> QED
  BY <1>7, <1>8, <1>9, <1>10

Judgements(res) == Picked(res, {i \in DOMAIN res : res[i].status = "verified" /\ res[i].verdict # "none"})
Passing(res) == {i \in DOMAIN Judgements(res) : Judgements(res)[i].verdict = "pass"}
VerificationOf(target, k) ==
  LET res == ResultsOf(target, "verifications", k)
  IN  HealthMetrics(target, "verifications", res[1].id, res, "verified")
        \cup IF Judgements(res) = <<>> THEN {}
             ELSE {Metric("verification.pass", <<target, "verifications", res[1].id>>,
                     Ratio(Len(Picked(Judgements(res), Passing(res))), Len(Judgements(res))))}

LEMMA VerificationIs ==
  ASSUME Complete, NEW target \in Targets, NEW m \in VerificationMetrics(target)
  PROVE  IsHealth(m) \/ IsRate(m)
<1>1. VerificationMetrics(target)
        = UNION {VerificationOf(target, k) : k \in DOMAIN OfTarget(target)[1]["verifications"]}
  BY ZenonT(60) DEF VerificationMetrics, VerificationOf, Selected, Ordered, Picked, Ranked, Arranged,
                    Judgements, Passing
<1>2. PICK k \in DOMAIN OfTarget(target)[1]["verifications"] : m \in VerificationOf(target, k)
  BY <1>1
<1>3. "verifications" \in Kinds
  BY DEF Kinds
<1>4. k \in DOMAIN Plugins["verifications"]
  <2>1. 1 \in DOMAIN Plugins["verifications"]
    BY <1>3, PluginsOnce
  <2> QED
    BY <1>2, <1>3, <2>1, ResultsIs
<1>5. PICK res, id, of, b, c, I :
        /\ res = ResultsOf(target, "verifications", k) /\ id = res[1].id
        /\ of = <<target, "verifications", id>>
        /\ b = Len(Picked(Judgements(res), Passing(res))) /\ c = Len(Judgements(res))
        /\ I = {i \in DOMAIN res : res[i].status = "verified" /\ res[i].verdict # "none"}
  OBVIOUS
<1>6. IsTuple(res) /\ id = Plugins["verifications"][k]
  BY <1>3, <1>4, <1>5, ResultsIs
<1>7. \/ m \in HealthMetrics(target, "verifications", id, res, "verified")
      \/ m = Metric("verification.pass", of, Ratio(b, c))
  BY <1>2, <1>5, Zenon DEF VerificationOf
<1>8. CASE m \in HealthMetrics(target, "verifications", id, res, "verified")
  <2>1. Good["verifications"] = "verified"
    BY DEF Good
  <2>2. m \in HealthOf(target, "verifications", k)
    BY <1>5, <1>6, <1>8, <2>1 DEF HealthOf
  <2> QED
    BY <1>3, <1>4, <2>2 DEF IsHealth
<1>9. CASE m = Metric("verification.pass", of, Ratio(b, c))
  <2>1. Passing(res) \in SUBSET DOMAIN Judgements(res) /\ "verification.pass" \in RateMetrics
    BY DEF Passing, RateMetrics
  <2>2. IsTuple(Judgements(res))
    <3>1. res \in Seq(ToSet(res)) /\ I \in SUBSET DOMAIN res
      BY <1>5, <1>6, TupleIs
    <3>2. Picked(res, I) \in Seq(ToSet(res))
      BY <3>1, PickedIs
    <3>3. Judgements(res) = Picked(res, I)
      BY <1>5, Zenon DEF Judgements
    <3> QED
      BY <3>2, <3>3, SeqFacts
  <2>3. IsRate(Metric("verification.pass", of, Ratio(Len(Picked(Judgements(res), Passing(res))),
                                                     Len(Judgements(res)))))
    BY <2>1, <2>2, RateIs
  <2> QED
    BY <1>5, <1>9, <2>3
<1> QED
  BY <1>7, <1>8, <1>9

LEMMA SpreadIs ==
  ASSUME NEW name, NEW of, NEW values, NEW aggs, NEW m \in DistributionMetrics(name, of, values, aggs)
  PROVE  /\ values # <<>> /\ m.name = name /\ m.of = of /\ "agg" \in DOMAIN m
         /\ m.agg = "p50" => m.value[1] = Percentile(values, 50)
         /\ m.agg = "p95" => m.value[1] = Percentile(values, 95)
<1>1. PICK s, n, p, q : /\ s = Total(values) /\ n = Len(values)
                        /\ p = Percentile(values, 50) /\ q = Percentile(values, 95)
  OBVIOUS
<1>2. values # <<>> /\ \/ m = Aggregated(name, of, "sum", Ratio(s, 1))
                       \/ m = Aggregated(name, of, "mean", Ratio(s, n))
                       \/ m = Aggregated(name, of, "p50", Ratio(p, 1))
                       \/ m = Aggregated(name, of, "p95", Ratio(q, 1))
  BY <1>1, Zenon DEF DistributionMetrics
<1>3. CASE m = Aggregated(name, of, "sum", Ratio(s, 1))
  BY <1>2, <1>3, AggregatedIs
<1>4. CASE m = Aggregated(name, of, "mean", Ratio(s, n))
  BY <1>2, <1>4, AggregatedIs
<1>5. CASE m = Aggregated(name, of, "p50", Ratio(p, 1))
  BY <1>1, <1>2, <1>5, AggregatedIs
<1>6. CASE m = Aggregated(name, of, "p95", Ratio(q, 1))
  BY <1>1, <1>2, <1>6, AggregatedIs
<1> QED
  BY <1>2, <1>3, <1>4, <1>5, <1>6

(* The outcomes of a target.                                               *)
Known(rows) == Picked(rows, {i \in DOMAIN rows : rows[i].t.outcome \notin {"none", "unknown"}})
Ended(known, outcomes) == {i \in DOMAIN known : known[i].t.outcome \in outcomes}
Timely(known) == Picked(known, {i \in DOMAIN known : known[i].t.duration # None})
Durations(target) == [i \in DOMAIN Timely(Known(OfTarget(target))) |->
                        Timely(Known(OfTarget(target)))[i].t.duration]
RateOf(name, target, outcomes) ==
  Metric(name, target, Ratio(Len(Picked(Known(OfTarget(target)), Ended(Known(OfTarget(target)), outcomes))),
                             Len(Known(OfTarget(target)))))
TrajectoryMetric(target) == Metric("trajectory", target, Ratio(Len(OfTarget(target)), 1))
ExecutionOf(target) ==
  {TrajectoryMetric(target)} \cup
  IF Known(OfTarget(target)) = <<>> THEN {}
  ELSE {RateOf("execution.completion", target, {"completed"}),
        RateOf("execution.timeout", target, {"timeout"}),
        RateOf("execution.failure", target, {"failed", "timeout"})}
       \cup DistributionMetrics("execution.duration_ms", target, Durations(target), Aggregations("execution.duration_ms"))
IsDuration(m) == \E target \in Targets :
                   m \in DistributionMetrics("execution.duration_ms", target, Durations(target),
                                             Aggregations("execution.duration_ms"))

LEMMA ExecutionIs ==
  ASSUME Complete, NEW target \in Targets
  PROVE  /\ TrajectoryMetric(target) \in ExecutionMetrics(target)
         /\ \A m \in ExecutionMetrics(target) : m = TrajectoryMetric(target) \/ IsRate(m) \/ IsDuration(m)
<1>1. ExecutionMetrics(target) = ExecutionOf(target)
  BY ZenonT(60) DEF ExecutionMetrics, ExecutionOf, Selected, Ordered, Picked, Ranked, Arranged, Known, Ended,
                    Timely, Durations, RateOf, TrajectoryMetric
<1>2. PICK rows, known : rows = OfTarget(target) /\ known = Known(rows)
  OBVIOUS
<1>3. IsTuple(known)
  <2>1. PICK I : I = {i \in DOMAIN rows : rows[i].t.outcome \notin {"none", "unknown"}}
    OBVIOUS
  <2>2. rows \in Seq(ToSet(run.results)) /\ I \in SUBSET DOMAIN rows
    BY <1>2, <2>1, RowsIs
  <2>3. Picked(rows, I) \in Seq(ToSet(run.results))
    BY <2>2, PickedIs
  <2>4. known = Picked(rows, I)
    BY <1>2, <2>1, Zenon DEF Known
  <2> QED
    BY <2>3, <2>4, SeqFacts
<1>4. ASSUME NEW name \in {"execution.completion", "execution.timeout", "execution.failure"}, NEW outcomes
      PROVE  IsRate(RateOf(name, target, outcomes))
  <2>1. Ended(known, outcomes) \in SUBSET DOMAIN known /\ name \in RateMetrics
    BY DEF Ended, RateMetrics
  <2>2. IsRate(Metric(name, target, Ratio(Len(Picked(known, Ended(known, outcomes))), Len(known))))
    BY <1>3, <2>1, RateIs
  <2> QED
    BY <1>2, <2>2 DEF RateOf
<1>5. ASSUME NEW m \in ExecutionOf(target)
      PROVE  m = TrajectoryMetric(target) \/ IsRate(m) \/ IsDuration(m)
  <2>1. \/ m = TrajectoryMetric(target) \/ m = RateOf("execution.completion", target, {"completed"})
        \/ m = RateOf("execution.timeout", target, {"timeout"})
        \/ m = RateOf("execution.failure", target, {"failed", "timeout"})
        \/ m \in DistributionMetrics("execution.duration_ms", target, Durations(target),
                                     Aggregations("execution.duration_ms"))
    BY DEF ExecutionOf
  <2> QED
    BY <1>4, <2>1 DEF IsDuration
<1>6. TrajectoryMetric(target) \in ExecutionOf(target)
  BY DEF ExecutionOf
<1> QED
  BY <1>1, <1>5, <1>6

(* The failures of a target.                                               *)
EventsOfTarget(target) == FlattenSeq([i \in DOMAIN OfTarget(target) |-> FailureEvents(OfTarget(target)[i].t)])
Occurrences(events, key) == {i \in DOMAIN events : events[i] = key}
Affected(rows, key) == {i \in DOMAIN rows : key \in ToSet(FailureEvents(rows[i].t))}
FailureCount(target, key) == Len(Picked(EventsOfTarget(target), Occurrences(EventsOfTarget(target), key)))
FailureMetric(target, key) == Metric("failure.count", <<target, key>>, Ratio(FailureCount(target, key), 1))
FailureRate(target, key) ==
  Metric("failure.rate", <<target, key>>,
         Ratio(Len(Picked(OfTarget(target), Affected(OfTarget(target), key))), Len(OfTarget(target))))

LEMMA FailureIs ==
  ASSUME Complete, NEW target \in Targets
  PROVE  /\ \A key \in ToSet(EventsOfTarget(target)) : FailureMetric(target, key) \in FailureMetrics(target)
         /\ \A m \in FailureMetrics(target) :
              IsRate(m) \/ \E key \in ToSet(EventsOfTarget(target)) : m = FailureMetric(target, key)
<1>1. FailureMetrics(target) = UNION {{FailureMetric(target, key), FailureRate(target, key)}
                                      : key \in ToSet(EventsOfTarget(target))}
  BY ZenonT(60) DEF FailureMetrics, FailureMetric, FailureCount, FailureRate, Selected, Ordered, Picked,
                    Ranked, Arranged, EventsOfTarget, Occurrences, Affected
<1>2. ASSUME NEW key PROVE IsRate(FailureRate(target, key))
  <2>1. PICK rows : rows = OfTarget(target)
    OBVIOUS
  <2>2. IsTuple(rows)
    BY <2>1, RowsIs, SeqFacts
  <2>3. Affected(rows, key) \in SUBSET DOMAIN rows /\ "failure.rate" \in RateMetrics
    BY DEF Affected, RateMetrics
  <2>4. IsRate(Metric("failure.rate", <<target, key>>, Ratio(Len(Picked(rows, Affected(rows, key))), Len(rows))))
    BY <2>2, <2>3, RateIs
  <2> QED
    BY <2>1, <2>4 DEF FailureRate
<1> QED
  BY <1>1, <1>2

(* The values of a measurement over the rows of a target.                  *)
Bearing(res, name) == Picked(res, {i \in DOMAIN res : res[i].status = "measured" /\ name \in DOMAIN res[i].values})
ValuesOf(res, name) == [i \in DOMAIN Bearing(res, name) |-> Bearing(res, name)[i].values[name]]
MeasurementOf(target, k) ==
  LET res == ResultsOf(target, "measurements", k)
  IN  HealthMetrics(target, "measurements", res[1].id, res, "measured")
        \cup UNION {DistributionMetrics("measurement.value", <<target, res[1].id, name>>, ValuesOf(res, name), Aggregations(name))
                    : name \in SpecOf(res[1].id) \ RatioNames}
ValueMetrics(target, k, name) ==
  DistributionMetrics("measurement.value", <<target, Plugins["measurements"][k], name>>,
                      ValuesOf(ResultsOf(target, "measurements", k), name), Aggregations(name))
IsValue(m) == \E target \in Targets : \E k \in DOMAIN Plugins["measurements"] :
                \E name \in SpecOf(Plugins["measurements"][k]) \ RatioNames : m \in ValueMetrics(target, k, name)

LEMMA MeasurementIs ==
  ASSUME Complete, NEW target \in Targets, NEW m \in MeasurementMetrics(target)
  PROVE  IsHealth(m) \/ IsValue(m)
<1>1. MeasurementMetrics(target)
        = UNION {MeasurementOf(target, k) : k \in DOMAIN OfTarget(target)[1]["measurements"]}
  BY ZenonT(60) DEF MeasurementMetrics, MeasurementOf, Selected, Ordered, Picked, Ranked, Arranged,
                    Bearing, ValuesOf
<1>2. PICK k \in DOMAIN OfTarget(target)[1]["measurements"] : m \in MeasurementOf(target, k)
  BY <1>1
<1>3. "measurements" \in Kinds
  BY DEF Kinds
<1>4. k \in DOMAIN Plugins["measurements"]
  <2>1. 1 \in DOMAIN Plugins["measurements"]
    BY <1>3, PluginsOnce
  <2> QED
    BY <1>2, <1>3, <2>1, ResultsIs
<1>5. PICK res, id : res = ResultsOf(target, "measurements", k) /\ id = res[1].id
  OBVIOUS
<1>6. IsTuple(res) /\ id = Plugins["measurements"][k]
  BY <1>3, <1>4, <1>5, ResultsIs
<1>7. \/ m \in HealthMetrics(target, "measurements", id, res, "measured")
      \/ \E name \in SpecOf(id) \ RatioNames :
           m \in DistributionMetrics("measurement.value", <<target, id, name>>, ValuesOf(res, name), Aggregations(name))
  BY <1>2, <1>5, Zenon DEF MeasurementOf
<1>8. CASE m \in HealthMetrics(target, "measurements", id, res, "measured")
  <2>1. Good["measurements"] = "measured"
    BY DEF Good
  <2>2. m \in HealthOf(target, "measurements", k)
    BY <1>5, <1>6, <1>8, <2>1 DEF HealthOf
  <2> QED
    BY <1>3, <1>4, <2>2 DEF IsHealth
<1>9. ASSUME NEW name \in SpecOf(id) \ RatioNames,
             m \in DistributionMetrics("measurement.value", <<target, id, name>>, ValuesOf(res, name), Aggregations(name))
      PROVE  IsValue(m)
  <2>1. m \in ValueMetrics(target, k, name)
    BY <1>5, <1>6, <1>9 DEF ValueMetrics
  <2> QED
    BY <1>4, <1>6, <1>9, <2>1 DEF IsValue
<1> QED
  BY <1>7, <1>8, <1>9

(* Every metric is of one of these kinds.                                  *)
IsTrajectory(m) == \E target \in Targets : m = TrajectoryMetric(target)
IsFailure(m) == \E target \in Targets : \E key \in ToSet(EventsOfTarget(target)) : m = FailureMetric(target, key)
IsFinding(m) == m.name = "finding.count" /\ "agg" \notin DOMAIN m

LEMMA MetricsAre ==
  ASSUME Complete
  PROVE  /\ \A m \in AggregateMetrics : \/ IsTrajectory(m) \/ IsFailure(m) \/ IsFinding(m) \/ IsRate(m)
                                        \/ IsHealth(m) \/ IsDuration(m) \/ IsValue(m)
         /\ \A target \in Targets : TrajectoryMetric(target) \in AggregateMetrics
         /\ \A target \in Targets : \A key \in ToSet(EventsOfTarget(target)) :
              FailureMetric(target, key) \in AggregateMetrics
<1>1. ASSUME NEW m \in AggregateMetrics
      PROVE  \/ IsTrajectory(m) \/ IsFailure(m) \/ IsFinding(m) \/ IsRate(m)
             \/ IsHealth(m) \/ IsDuration(m) \/ IsValue(m)
  <2>1. PICK target \in Targets :
          \/ m \in ExecutionMetrics(target) \/ m \in FailureMetrics(target)
          \/ m \in DetectionMetrics(target) \/ m \in VerificationMetrics(target)
          \/ m \in MeasurementMetrics(target)
    BY DEF AggregateMetrics
  <2>2. CASE m \in ExecutionMetrics(target)
    BY <2>2, ExecutionIs DEF IsTrajectory
  <2>3. CASE m \in FailureMetrics(target)
    BY <2>3, FailureIs DEF IsFailure
  <2>4. CASE m \in DetectionMetrics(target)
    BY <2>4, DetectionIs DEF IsFinding
  <2>5. CASE m \in VerificationMetrics(target)
    BY <2>5, VerificationIs
  <2>6. CASE m \in MeasurementMetrics(target)
    BY <2>6, MeasurementIs
  <2> QED
    BY <2>1, <2>2, <2>3, <2>4, <2>5, <2>6
<1>2. ASSUME NEW target \in Targets
      PROVE  ExecutionMetrics(target) \subseteq AggregateMetrics /\ FailureMetrics(target) \subseteq AggregateMetrics
  BY DEF AggregateMetrics
<1>3. \A target \in Targets : TrajectoryMetric(target) \in AggregateMetrics
  BY <1>2, ExecutionIs
<1>4. \A target \in Targets : \A key \in ToSet(EventsOfTarget(target)) : FailureMetric(target, key) \in AggregateMetrics
  BY <1>2, FailureIs
<1> QED
  BY <1>1, <1>3, <1>4

(* Their names.                                                            *)
LEMMA MetricNames ==
  ASSUME Complete, NEW m
  PROVE  /\ IsTrajectory(m) => m.name = "trajectory" /\ "agg" \notin DOMAIN m
         /\ IsFailure(m) => m.name = "failure.count" /\ "agg" \notin DOMAIN m
         /\ IsFinding(m) => m.name = "finding.count" /\ "agg" \notin DOMAIN m
         /\ IsRate(m) => m.name \in RateMetrics /\ "agg" \notin DOMAIN m
         /\ IsHealth(m) => m.name \in {"applicability", "error"} /\ "agg" \notin DOMAIN m
         /\ IsDuration(m) => m.name = "execution.duration_ms"
         /\ IsValue(m) => m.name = "measurement.value"
<1>1. ASSUME IsTrajectory(m) PROVE m.name = "trajectory" /\ "agg" \notin DOMAIN m
  BY <1>1, MetricIs DEF IsTrajectory, TrajectoryMetric
<1>2. ASSUME IsFailure(m) PROVE m.name = "failure.count" /\ "agg" \notin DOMAIN m
  BY <1>2, MetricIs DEF IsFailure, FailureMetric
<1>3. ASSUME IsHealth(m) PROVE m.name \in {"applicability", "error"} /\ "agg" \notin DOMAIN m
  <2>1. PICK target \in Targets, kind \in Kinds : \E k \in DOMAIN Plugins[kind] : m \in HealthOf(target, kind, k)
    BY <1>3 DEF IsHealth
  <2>2. PICK k \in DOMAIN Plugins[kind] : m \in HealthOf(target, kind, k)
    BY <2>1
  <2>3. PICK res, good : res = ResultsOf(target, kind, k) /\ good = Good[kind]
    OBVIOUS
  <2>4. IsTuple(res) /\ m \in HealthMetrics(target, kind, Plugins[kind][k], res, good)
    BY <2>2, <2>3, ResultsIs DEF HealthOf
  <2> QED
    BY <2>4, HealthIs
<1>4. ASSUME IsDuration(m) PROVE m.name = "execution.duration_ms"
  BY <1>4, SpreadIs DEF IsDuration
<1>5. ASSUME IsValue(m) PROVE m.name = "measurement.value"
  BY <1>5, SpreadIs DEF IsValue, ValueMetrics
<1> QED
  BY <1>1, <1>2, <1>3, <1>4, <1>5 DEF IsFinding, IsRate

(* Every trajectory is counted under its target.                           *)
LEMMA TrajectoriesAddUp ==
  ASSUME Complete
  PROVE  MapThenSumSet(LAMBDA m : m.value[1], {m \in AggregateMetrics : m.name = "trajectory"})
           = Len(dataset.trajs)
<1>1. PICK seq, n, v, M : /\ n = Len(dataset.trajs) /\ seq = [i \in DOMAIN run.results |-> run.results[i].t.target]
                          /\ v = [target \in Targets |-> Len(OfTarget(target))]
                          /\ M = {m \in AggregateMetrics : m.name = "trajectory"}
  OBVIOUS
<1>2. DOMAIN run.results = 1 .. n /\ n \in Nat
  BY <1>1, SeqFacts DEF Complete
<1>3. seq \in [1 .. n -> Targets]
  BY <1>1, <1>2 DEF Targets
<1>4. seq \in Seq(Targets) /\ Len(seq) = n /\ DOMAIN seq = 1 .. n
  BY <1>2, <1>3, SeqOfFunction
<1>5. ToSet(seq) = Targets
  BY <1>1, <1>2 DEF ToSet, Targets
<1>6. \A target \in Targets : v[target] = Cardinality({i \in DOMAIN seq : seq[i] = target})
  <2> SUFFICES ASSUME NEW target \in Targets
               PROVE  v[target] = Cardinality({i \in DOMAIN seq : seq[i] = target})
    OBVIOUS
  <2>1. PlacesOf(target) = {i \in DOMAIN seq : seq[i] = target}
    BY <1>1 DEF PlacesOf
  <2>2. v[target] = Len(OfTarget(target))
    BY <1>1
  <2> QED
    BY <2>1, <2>2, RowsIs
<1>7. IsFiniteSet(Targets)
  <2>1. IsFiniteSet(1 .. n)
    BY <1>2, IntervalCount
  <2>2. Targets = {seq[i] : i \in 1 .. n}
    BY <1>4, <1>5 DEF ToSet
  <2> QED
    BY <2>1, <2>2, FiniteImage
<1>8. v \in [Targets -> Int]
  <2>1. \A target \in Targets : Len(OfTarget(target)) \in Int
    BY RowsIs, LenProperties
  <2> QED
    BY <1>1, <2>1
<1>9. PICK tau : IsSum(tau, v, Targets)
  BY <1>7, <1>8, SumExists
<1>10. tau[Targets] = n
  BY <1>4, <1>5, <1>6, <1>8, <1>9, OccurrencesAddUp
<1>11. M = {Metric("trajectory", target, Ratio(v[target], 1)) : target \in Targets}
  <2>1. \A target \in Targets : TrajectoryMetric(target) = Metric("trajectory", target, Ratio(v[target], 1))
    BY <1>1 DEF TrajectoryMetric
  <2>2. \A m \in M : IsTrajectory(m)
    BY <1>1, MetricsAre, MetricNames DEF RateMetrics
  <2>3. \A target \in Targets : TrajectoryMetric(target) \in M
    BY <1>1, MetricsAre, MetricNames DEF IsTrajectory
  <2>4. M = {TrajectoryMetric(target) : target \in Targets}
    BY <2>2, <2>3 DEF IsTrajectory
  <2> QED
    BY <2>1, <2>4
<1>12. MapThenSumSet(LAMBDA m : m.value[1], M) = tau[Targets]
  <2>1. PICK name : name = "trajectory"
    OBVIOUS
  <2>2. Listed(M, name, v, Targets)
    BY <1>11, <2>1 DEF Listed
  <2> QED
    BY <1>7, <1>8, <1>9, <2>2, SumOfMetrics
<1> QED
  BY <1>1, <1>10, <1>12, Zenon

(* A sequence is one of every set that has its elements.                   *)
LEMMA WiderTuple ==
  ASSUME NEW seq, IsTuple(seq), NEW T, ToSet(seq) \subseteq T
  PROVE  seq \in Seq(T)
<1>1. PICK n, S : n = Len(seq) /\ S = ToSet(seq) /\ n \in Nat /\ seq \in Seq(S)
  BY TupleIs
<1>2. seq \in [1 .. n -> S]
  BY <1>1, LenProperties
<1>3. seq \in [1 .. n -> T]
  BY <1>1, <1>2
<1>4. n \in Nat
  BY <1>1
<1> QED
  BY <1>3, <1>4, SeqOfFunction

(* Every result is of its trajectory, whose failures are held.             *)
LEMMA HeldOfRows ==
  ASSUME Complete, NEW f, f = Through(Held, dataset.trajs)
  PROVE  /\ f \in Seq(Int) /\ f \in [DOMAIN run.results -> Int]
         /\ DOMAIN f = DOMAIN run.results /\ IsFiniteSet(DOMAIN f)
         /\ \A i \in DOMAIN run.results : /\ IsTuple(FailureEvents(run.results[i].t))
                                          /\ f[i] = Len(FailureEvents(run.results[i].t))
<1>1. PICK trajs, n : trajs = dataset.trajs /\ n = Len(trajs)
  OBVIOUS
<1>2. /\ trajs \in Seq(Loadable) /\ DOMAIN run.results = DOMAIN trajs
      /\ \A i \in DOMAIN run.results : run.results[i] = Analysis(trajs[i])
  BY <1>1 DEF Complete
<1>3. n \in Nat /\ DOMAIN trajs = 1 .. n /\ \A i \in 1 .. n : trajs[i] \in Loadable
  BY <1>1, <1>2, SeqFacts
<1>4. f \in Seq(Int) /\ Len(f) = n
  BY <1>1, <1>2, HeldIs, ThroughIs
<1>5. DOMAIN f = 1 .. n /\ IsFiniteSet(1 .. n) /\ f \in [1 .. n -> Int]
  BY <1>3, <1>4, SeqFacts, IntervalCount, LenProperties
<1>6. ASSUME NEW i \in 1 .. n
      PROVE  /\ IsTuple(FailureEvents(run.results[i].t))
             /\ f[i] = Len(FailureEvents(run.results[i].t))
  <2>1. PICK t : t = trajs[i] /\ t \in Loadable
    BY <1>3
  <2>2. run.results[i].t = t
    BY <1>2, <1>3, <2>1, AnalysisIs
  <2>3. IsTuple(t.steps)
    BY <2>1, LoadableIsSound DEF SoundSteps
  <2>4. IsTuple(FailureEvents(t))
    BY <2>3, FailureEventsIs
  <2>5. f[i] = Held[t]
    BY <1>1, <1>3, <2>1 DEF Through
  <2>6. Held[t] = Len(FailureEvents(t))
    BY <2>1 DEF Held
  <2> QED
    BY <2>2, <2>4, <2>5, <2>6
<1> QED
  BY <1>2, <1>3, <1>4, <1>5, <1>6

(* The events of a target are those of its rows.                           *)
LEMMA EventsAre ==
  ASSUME Complete, NEW f, f = Through(Held, dataset.trajs), NEW target
  PROVE  /\ IsTuple(EventsOfTarget(target))
         /\ Len(EventsOfTarget(target)) = Total(Picked(f, PlacesOf(target)))
<1>1. PICK I, rows, res, seqs : /\ I = PlacesOf(target) /\ rows = OfTarget(target) /\ res = run.results
                                /\ seqs = [i \in DOMAIN rows |-> FailureEvents(rows[i].t)]
  OBVIOUS
<1>2. rows = Picked(res, I) /\ res \in Seq(ToSet(res)) /\ I \in SUBSET DOMAIN res
  BY <1>1, RowsIs DEF Complete, IsTuple, PlacesOf
<1>3. PICK c : c = Cardinality(I)
  OBVIOUS
<1>4. /\ c \in Nat /\ DOMAIN rows = 1 .. c
      /\ \A k \in 1 .. c : Ranked(I)[k] \in I /\ rows[k] = res[Ranked(I)[k]]
  BY <1>2, <1>3, PickedIs
<1>5. /\ f \in Seq(Int) /\ DOMAIN f = DOMAIN res
      /\ \A i \in DOMAIN res : IsTuple(FailureEvents(res[i].t)) /\ f[i] = Len(FailureEvents(res[i].t))
  BY <1>1, HeldOfRows
<1>6. /\ DOMAIN Picked(f, I) = 1 .. c
      /\ \A k \in 1 .. c : Picked(f, I)[k] = f[Ranked(I)[k]]
  <2>1. I \in SUBSET DOMAIN f
    BY <1>2, <1>5
  <2> QED
    BY <1>3, <1>5, <2>1, PickedIs
<1>7. \A k \in 1 .. c : IsTuple(seqs[k]) /\ Picked(f, I)[k] = Len(seqs[k])
  <2> SUFFICES ASSUME NEW k \in 1 .. c PROVE IsTuple(seqs[k]) /\ Picked(f, I)[k] = Len(seqs[k])
    OBVIOUS
  <2>1. PICK i : i = Ranked(I)[k] /\ i \in I /\ rows[k] = res[i]
    BY <1>4
  <2>2. seqs[k] = FailureEvents(res[i].t)
    BY <1>1, <1>4, <2>1
  <2>3. i \in DOMAIN res
    BY <1>2, <2>1
  <2> QED
    BY <1>5, <1>6, <2>1, <2>2, <2>3
<1>8. PICK T : T = UNION {ToSet(seqs[k]) : k \in 1 .. c}
  OBVIOUS
<1>9. \A k \in 1 .. c : seqs[k] \in Seq(T)
  <2> SUFFICES ASSUME NEW k \in 1 .. c PROVE seqs[k] \in Seq(T)
    OBVIOUS
  <2>1. PICK s : s = seqs[k]
    OBVIOUS
  <2>2. IsTuple(s) /\ ToSet(s) \subseteq T
    BY <1>7, <1>8, <2>1
  <2>3. s \in Seq(T)
    BY <2>2, WiderTuple
  <2> QED
    BY <2>1, <2>3
<1>10. seqs \in [1 .. c -> Seq(T)]
  BY <1>1, <1>4, <1>9
<1>11. seqs \in Seq(Seq(T)) /\ DOMAIN seqs = 1 .. c
  BY <1>4, <1>10, SeqOfFunction
<1>12. PICK lens : lens = [k \in DOMAIN seqs |-> Len(seqs[k])]
  OBVIOUS
<1>13. Len(FlattenSeq(seqs)) = Total(lens) /\ FlattenSeq(seqs) \in Seq(T)
  BY <1>11, <1>12, FlatLen, FlatType
<1>14. Picked(f, I) = [k \in 1 .. c |-> Picked(f, I)[k]]
  <2>1. I \in SUBSET DOMAIN f
    BY <1>2, <1>5
  <2>2. Picked(f, I) \in Seq(Int) /\ Len(Picked(f, I)) = c
    BY <1>3, <1>5, <2>1, PickedIs
  <2>3. Picked(f, I) \in [1 .. c -> Int]
    BY <2>2, LenProperties
  <2> QED
    BY <2>3
<1>15. lens = Picked(f, I)
  BY <1>7, <1>11, <1>12, <1>14
<1>16. EventsOfTarget(target) = FlattenSeq(seqs)
  BY <1>1, Zenon DEF EventsOfTarget
<1>17. IsTuple(FlattenSeq(seqs))
  BY <1>13, SeqFacts
<1> QED
  BY <1>1, <1>13, <1>15, <1>16, <1>17

(* As FiniteImage and SumRenamed, element by element.                      *)
LEMMA FiniteOnto ==
  ASSUME NEW S, IsFiniteSet(S), NEW f, NEW T, \A y \in T : \E x \in S : y = f[x]
  PROVE  IsFiniteSet(T)
<1>1. PICK A : A = {f[x] : x \in S}
  OBVIOUS
<1>2. IsFiniteSet(A)
  BY <1>1, FiniteImage
<1>3. T \subseteq A
  BY <1>1
<1> QED
  BY <1>2, <1>3, FS_Subset

Renames(name, T, g, S, f, Z) ==
  /\ name \in [T -> S] /\ \A j, k \in T : name[j] = name[k] => j = k
  /\ \A k \in T : g[k] = f[name[k]]
  /\ \A k \in T : name[k] \in Z
  /\ \A z \in Z : \E k \in T : z = name[k]

LEMMA SumOnto ==
  ASSUME NEW S, NEW f, NEW sigma, IsSum(sigma, f, S),
         NEW T, IsFiniteSet(T), NEW g, NEW tau, IsSum(tau, g, T),
         NEW name, NEW Z, Renames(name, T, g, S, f, Z)
  PROVE  tau[T] = sigma[Z]
<1>0. /\ name \in [T -> S] /\ \A j, k \in T : name[j] = name[k] => j = k
      /\ \A k \in T : g[k] = f[name[k]]
  BY DEF Renames
<1>1. \A t \in SUBSET T : tau[t] = sigma[{name[k] : k \in t}]
  BY <1>0, SumRenamed
<1>2. {name[k] : k \in T} = Z
  BY DEF Renames
<1>3. tau[T] = sigma[{name[k] : k \in T}]
  BY <1>1
<1> QED
  BY <1>2, <1>3

(* A failure count is of a target and of a failure of it.                  *)
KeysOf(target) == {<<target, key>> : key \in ToSet(EventsOfTarget(target))}
FailureKeys == UNION {KeysOf(target) : target \in Targets}

LEMMA KeysAre ==
  ASSUME NEW target, IsTuple(EventsOfTarget(target)), NEW name,
         name = [key \in ToSet(EventsOfTarget(target)) |-> <<target, key>>]
  PROVE  /\ IsFiniteSet(ToSet(EventsOfTarget(target))) /\ IsFiniteSet(KeysOf(target))
         /\ KeysOf(target) = {name[key] : key \in ToSet(EventsOfTarget(target))}
<1>1. PICK seq, n, K : seq = EventsOfTarget(target) /\ n = Len(seq) /\ K = ToSet(seq)
  OBVIOUS
<1>2. n \in Nat /\ DOMAIN seq = 1 .. n
  BY <1>1, TupleIs
<1>3. K = {seq[i] : i \in 1 .. n}
  BY <1>1, <1>2 DEF ToSet
<1>4. IsFiniteSet(1 .. n)
  BY <1>2, IntervalCount
<1>5. IsFiniteSet(K)
  BY <1>3, <1>4, FiniteImage
<1>6. PICK Z : Z = KeysOf(target) /\ Z = {name[key] : key \in K}
  BY <1>1 DEF KeysOf
<1>7. IsFiniteSet(Z)
  <2>1. \A y \in Z : \E x \in K : y = name[x]
    BY <1>6
  <2> QED
    BY <1>5, <2>1, FiniteOnto
<1> QED
  BY <1>1, <1>5, <1>6, <1>7

LEMMA TargetsFinite == ASSUME Complete PROVE IsFiniteSet(Targets)
<1>1. PICK res, n, g : res = run.results /\ n = Len(res) /\ g = [i \in 1 .. n |-> res[i].t.target]
  OBVIOUS
<1>2. n \in Nat /\ DOMAIN res = 1 .. n
  BY <1>1, TupleIs DEF Complete
<1>3. Targets = {g[i] : i \in 1 .. n}
  BY <1>1, <1>2 DEF Targets
<1>4. IsFiniteSet(1 .. n)
  BY <1>2, IntervalCount
<1> QED
  BY <1>3, <1>4, FiniteImage

LEMMA FailureKeysFinite == ASSUME Complete PROVE IsFiniteSet(FailureKeys)
<1>1. \A target \in Targets : IsFiniteSet(KeysOf(target))
  <2> SUFFICES ASSUME NEW target \in Targets PROVE IsFiniteSet(KeysOf(target))
    OBVIOUS
  <2>1. PICK f, name : /\ f = Through(Held, dataset.trajs)
                       /\ name = [key \in ToSet(EventsOfTarget(target)) |-> <<target, key>>]
    OBVIOUS
  <2>2. IsTuple(EventsOfTarget(target))
    BY <2>1, EventsAre
  <2> QED
    BY <2>1, <2>2, KeysAre
<1>2. PICK k, F : k = [target \in Targets |-> KeysOf(target)] /\ F = {k[target] : target \in Targets}
  OBVIOUS
<1>3. IsFiniteSet(F)
  BY <1>2, TargetsFinite, FiniteImage
<1>4. \A T \in F : IsFiniteSet(T)
  BY <1>1, <1>2
<1>5. FailureKeys = UNION F
  BY <1>2 DEF FailureKeys
<1> QED
  BY <1>3, <1>4, <1>5, FS_UNION

(* The counts of one target add up to its events.                          *)
LEMMA CountsOfTarget ==
  ASSUME NEW target \in Targets, IsTuple(EventsOfTarget(target)), IsFiniteSet(FailureKeys),
         NEW v, v = [p \in FailureKeys |-> FailureCount(p[1], p[2])],
         v \in [FailureKeys -> Int], NEW rho, IsSum(rho, v, FailureKeys)
  PROVE  rho[KeysOf(target)] = Len(EventsOfTarget(target))
<1>1. PICK seq, K, h, name : /\ seq = EventsOfTarget(target) /\ K = ToSet(seq)
                             /\ h = [key \in K |-> FailureCount(target, key)]
                             /\ name = [key \in K |-> <<target, key>>]
  OBVIOUS
<1>2. IsFiniteSet(K) /\ KeysOf(target) = {name[key] : key \in K}
  BY <1>1, KeysAre
<1>3. seq \in Seq(K)
  BY <1>1 DEF IsTuple
<1>4. \A key \in K : h[key] = Cardinality({i \in DOMAIN seq : seq[i] = key}) /\ h[key] \in Int
  <2> SUFFICES ASSUME NEW key \in K
               PROVE  h[key] = Cardinality({i \in DOMAIN seq : seq[i] = key}) /\ h[key] \in Int
    OBVIOUS
  <2>1. PICK I : I = Occurrences(seq, key)
    OBVIOUS
  <2>2. I \in SUBSET DOMAIN seq /\ I = {i \in DOMAIN seq : seq[i] = key}
    BY <2>1 DEF Occurrences
  <2>3. Len(Picked(seq, I)) = Cardinality(I) /\ Cardinality(I) \in Nat
    BY <1>3, <2>2, PickedIs
  <2>4. h[key] = Len(Picked(seq, I))
    BY <1>1, <2>1 DEF FailureCount
  <2> QED
    BY <2>2, <2>3, <2>4
<1>5. h \in [K -> Int]
  BY <1>1, <1>4
<1>6. PICK kappa : IsSum(kappa, h, K)
  BY <1>2, <1>5, SumExists
<1>7. kappa[K] = Len(seq)
  <2>1. /\ seq \in Seq(K) /\ h \in [ToSet(seq) -> Int] /\ IsSum(kappa, h, ToSet(seq))
        /\ \A x \in ToSet(seq) : h[x] = Cardinality({i \in DOMAIN seq : seq[i] = x})
    BY <1>1, <1>3, <1>4, <1>5, <1>6
  <2>2. kappa[ToSet(seq)] = Len(seq)
    BY <2>1, OccurrencesAddUp
  <2> QED
    BY <1>1, <2>2
<1>8. /\ name \in [K -> FailureKeys]
      /\ \A j, k \in K : name[j] = name[k] => j = k
      /\ \A k \in K : h[k] = v[name[k]]
  <2>1. \A k \in K : name[k] = <<target, k>> /\ name[k] \in FailureKeys
    <3>1. KeysOf(target) \subseteq FailureKeys
      BY DEF FailureKeys
    <3> QED
      BY <1>1, <1>2, <3>1
  <2>2. \A k \in K : v[name[k]] = FailureCount(target, k)
    BY <2>1
  <2> QED
    BY <1>1, <2>1, <2>2
<1>9. kappa[K] = rho[KeysOf(target)]
  <2>1. (\A k \in K : name[k] \in KeysOf(target)) /\ \A z \in KeysOf(target) : \E k \in K : z = name[k]
    BY <1>2
  <2>2. Renames(name, K, h, FailureKeys, v, KeysOf(target))
    BY <1>8, <2>1 DEF Renames
  <2> QED
    BY <1>2, <1>6, <2>2, SumOnto
<1> QED
  BY <1>1, <1>7, <1>9

(* Every failure of a trajectory is counted under one target and failure.  *)
LEMMA FailuresAddUp ==
  ASSUME Complete
  PROVE  MapThenSumSet(LAMBDA m : m.value[1], {m \in AggregateMetrics : m.name = "failure.count"})
           = Total(Through(Held, dataset.trajs))
<1>1. PICK f, S, g, h, v, M :
        /\ f = Through(Held, dataset.trajs) /\ S = DOMAIN run.results
        /\ g = [i \in S |-> run.results[i].t.target]
        /\ h = [target \in Targets |-> Len(EventsOfTarget(target))]
        /\ v = [p \in FailureKeys |-> FailureCount(p[1], p[2])]
        /\ M = {m \in AggregateMetrics : m.name = "failure.count"}
  OBVIOUS
<1>2. f \in Seq(Int) /\ f \in [S -> Int] /\ DOMAIN f = S /\ IsFiniteSet(S)
  BY <1>1, HeldOfRows
<1>3. PICK sigma : IsSum(sigma, f, S)
  BY <1>2, SumExists
<1>4. Total(f) = sigma[S]
  BY <1>2, <1>3, TotalIs
<1>5. \A target \in Targets : IsTuple(EventsOfTarget(target)) /\ h[target] = sigma[PlacesOf(target)] /\ h[target] \in Int
  <2> SUFFICES ASSUME NEW target \in Targets
               PROVE  IsTuple(EventsOfTarget(target)) /\ h[target] = sigma[PlacesOf(target)] /\ h[target] \in Int
    OBVIOUS
  <2>1. PICK I : I = PlacesOf(target)
    OBVIOUS
  <2>2. I \in SUBSET DOMAIN f /\ IsSum(sigma, f, DOMAIN f)
    BY <1>1, <1>2, <1>3, <2>1 DEF PlacesOf
  <2>3. Total(Picked(f, I)) = sigma[I] /\ sigma[I] \in Int
    BY <1>2, <2>2, TotalPicked
  <2>4. IsTuple(EventsOfTarget(target)) /\ Len(EventsOfTarget(target)) = Total(Picked(f, I))
    BY <1>1, <2>1, EventsAre
  <2>5. h[target] = Len(EventsOfTarget(target))
    BY <1>1
  <2> QED
    BY <2>1, <2>3, <2>4, <2>5
<1>6. h \in [Targets -> Int] /\ IsFiniteSet(Targets) /\ IsFiniteSet(FailureKeys)
  BY <1>1, <1>5, TargetsFinite, FailureKeysFinite
<1>7. PICK tau : IsSum(tau, h, Targets)
  BY <1>6, SumExists
<1>8. tau[Targets] = sigma[S]
  <2>1. g \in [S -> Targets]
    BY <1>1 DEF Targets
  <2>2. \A target \in Targets : h[target] = sigma[{i \in S : g[i] = target}]
    <3> SUFFICES ASSUME NEW target \in Targets PROVE h[target] = sigma[{i \in S : g[i] = target}]
      OBVIOUS
    <3>1. {i \in S : g[i] = target} = PlacesOf(target)
      BY <1>1 DEF PlacesOf
    <3> QED
      BY <1>5, <3>1
  <2>3. Grouped(S, sigma, Targets, h, g)
    BY <2>1, <2>2 DEF Grouped
  <2> QED
    BY <1>2, <1>3, <1>6, <1>7, <2>3, SumByKey
<1>9. v \in [FailureKeys -> Int]
  <2>1. ASSUME NEW p \in FailureKeys PROVE FailureCount(p[1], p[2]) \in Int
    <3>1. PICK target \in Targets : p \in KeysOf(target)
      BY DEF FailureKeys
    <3>2. PICK key : p = <<target, key>>
      BY <3>1 DEF KeysOf
    <3>3. PICK seq, I : seq = EventsOfTarget(target) /\ I = Occurrences(seq, key)
      OBVIOUS
    <3>4. seq \in Seq(ToSet(seq)) /\ I \in SUBSET DOMAIN seq
      BY <1>5, <3>3 DEF IsTuple, Occurrences
    <3>5. Len(Picked(seq, I)) \in Int
      BY <3>4, PickedIs
    <3>6. FailureCount(target, key) \in Int
      BY <3>3, <3>5 DEF FailureCount
    <3>7. p[1] = target /\ p[2] = key
      BY <3>2
    <3> QED
      BY <3>6, <3>7
  <2> QED
    BY <1>1, <2>1
<1>10. PICK rho : IsSum(rho, v, FailureKeys)
  BY <1>6, <1>9, SumExists
<1>11. tau[Targets] = rho[FailureKeys]
  <2>1. PICK first : first = [p \in FailureKeys |-> p[1]]
    OBVIOUS
  <2>2. \A p \in FailureKeys : \A target \in Targets : p[1] = target <=> p \in KeysOf(target)
    BY DEF FailureKeys, KeysOf
  <2>3. \A p \in FailureKeys : first[p] \in Targets
    BY <2>1 DEF FailureKeys, KeysOf
  <2>4. first \in [FailureKeys -> Targets]
    BY <2>1, <2>3
  <2>5. \A target \in Targets : h[target] = rho[{p \in FailureKeys : first[p] = target}]
    <3> SUFFICES ASSUME NEW target \in Targets PROVE h[target] = rho[{p \in FailureKeys : first[p] = target}]
      OBVIOUS
    <3>1. KeysOf(target) \subseteq FailureKeys
      BY DEF FailureKeys
    <3>2. {p \in FailureKeys : first[p] = target} = KeysOf(target)
      BY <2>1, <2>2, <3>1
    <3>3. rho[KeysOf(target)] = Len(EventsOfTarget(target))
      <4>1. IsTuple(EventsOfTarget(target)) /\ IsFiniteSet(FailureKeys)
        BY <1>5, <1>6
      <4> QED
        BY <1>1, <1>9, <1>10, <4>1, CountsOfTarget
    <3>4. h[target] = Len(EventsOfTarget(target))
      BY <1>1
    <3> QED
      BY <3>2, <3>3, <3>4
  <2>6. Grouped(FailureKeys, rho, Targets, h, first)
    BY <2>4, <2>5 DEF Grouped
  <2> QED
    BY <1>6, <1>7, <1>9, <1>10, <2>6, SumByKey
<1>12. PICK name : name = "failure.count"
  OBVIOUS
<1>13. Listed(M, name, v, FailureKeys)
  <2>1. \A target, key : <<target, key>> \in FailureKeys =>
          FailureMetric(target, key) = Metric(name, <<target, key>>, Ratio(v[<<target, key>>], 1))
    BY <1>1, <1>12 DEF FailureMetric
  <2>2. ASSUME NEW m \in M PROVE \E p \in FailureKeys : m = Metric(name, p, Ratio(v[p], 1))
    <3>1. IsFailure(m)
      BY <1>1, MetricsAre, MetricNames DEF RateMetrics
    <3>2. PICK target \in Targets : \E key \in ToSet(EventsOfTarget(target)) : m = FailureMetric(target, key)
      BY <3>1 DEF IsFailure
    <3>3. PICK key \in ToSet(EventsOfTarget(target)) : m = FailureMetric(target, key)
      BY <3>2
    <3>4. <<target, key>> \in FailureKeys
      BY DEF FailureKeys, KeysOf
    <3>5. m = Metric(name, <<target, key>>, Ratio(v[<<target, key>>], 1))
      BY <2>1, <3>3, <3>4
    <3> QED
      BY <3>4, <3>5
  <2>3. ASSUME NEW p \in FailureKeys PROVE Metric(name, p, Ratio(v[p], 1)) \in M
    <3>1. PICK target \in Targets : \E key \in ToSet(EventsOfTarget(target)) : p = <<target, key>>
      BY DEF FailureKeys, KeysOf
    <3>2. PICK key \in ToSet(EventsOfTarget(target)) : p = <<target, key>>
      BY <3>1
    <3>3. FailureMetric(target, key) \in AggregateMetrics
      BY MetricsAre
    <3>4. FailureMetric(target, key).name = "failure.count"
      BY MetricNames DEF IsFailure
    <3> QED
      BY <1>1, <2>1, <3>2, <3>3, <3>4
  <2> QED
    BY <2>2, <2>3 DEF Listed
<1>14. MapThenSumSet(LAMBDA m : m.value[1], M) = rho[FailureKeys]
  BY <1>6, <1>9, <1>10, <1>13, SumOfMetrics
<1> QED
  BY <1>1, <1>4, <1>8, <1>11, <1>14, Zenon

(* What the dataset read tells of.                                         *)
LEMMA ToldTotal ==
  ASSUME dataset.read \in Seq(Readable)
  PROVE  Total(Through(Told, dataset.read)) = Total([i \in DOMAIN dataset.read |-> Failures(dataset.read[i])])
<1>1. \A i \in DOMAIN dataset.read : dataset.read[i] \in Readable
  BY SeqFacts
<1>2. Through(Told, dataset.read) = [i \in DOMAIN dataset.read |-> Failures(dataset.read[i])]
  BY <1>1 DEF Through, Told
<1> QED
  BY <1>2

-----------------------------------------------------------------------------
(* The percentiles of a distribution of numbers.                           *)

LEMMA SortedIs ==
  ASSUME NEW values \in Seq(Int), NEW n, n = Len(values)
  PROVE  /\ Sorted(values) \in [1 .. n -> Int]
         /\ \A j, k \in 1 .. n : j <= k => Sorted(values)[j] <= Sorted(values)[k]
<1>1. PICK D, f : D = DOMAIN values /\ f = Timed(D, values)
  OBVIOUS
<1>2. D = 1 .. n /\ n \in Nat
  BY <1>1, SeqFacts
<1>3. IsFiniteSet(D) /\ Cardinality(D) = n
  BY <1>2, IntervalCount
<1>4. values \in [D -> Int] /\ D \in SUBSET Int
  BY <1>2, LenProperties
<1>5. /\ f \in [1 .. n -> D]
      /\ \A j, k \in 1 .. n : j < k <=>
           \/ values[f[j]] < values[f[k]]
           \/ values[f[j]] = values[f[k]] /\ f[j] < f[k]
  <2>1. PICK c : c = Cardinality(D)
    OBVIOUS
  <2>2. /\ Timed(D, values) \in [1 .. c -> D]
        /\ \A j, k \in 1 .. c : j < k <=>
             \/ values[Timed(D, values)[j]] < values[Timed(D, values)[k]]
             \/ /\ values[Timed(D, values)[j]] = values[Timed(D, values)[k]]
                /\ Timed(D, values)[j] < Timed(D, values)[k]
    BY <1>3, <1>4, <2>1, TimedIs
  <2> QED
    BY <1>1, <1>3, <2>1, <2>2
<1>6. Sorted(values) = [k \in DOMAIN f |-> values[f[k]]]
  <2>1. Sorted(values) = [k \in DOMAIN Timed(DOMAIN values, values) |->
                            values[Timed(DOMAIN values, values)[k]]]
    BY ZenonT(60) DEF Sorted, Ordered, Timed, Arranged
  <2> QED
    BY <1>1, <2>1, Zenon
<1>7. Sorted(values) = [k \in 1 .. n |-> values[f[k]]]
  BY <1>5, <1>6
<1>8. \A k \in 1 .. n : values[f[k]] \in Int
  BY <1>4, <1>5
<1>9. \A j, k \in 1 .. n : j <= k => values[f[j]] <= values[f[k]]
  <2> SUFFICES ASSUME NEW j \in 1 .. n, NEW k \in 1 .. n, j <= k PROVE values[f[j]] <= values[f[k]]
    OBVIOUS
  <2>1. CASE j < k
    BY <1>5, <1>8, <2>1
  <2>2. CASE j = k
    BY <1>8, <2>2
  <2> QED
    BY <2>1, <2>2
<1> QED
  BY <1>7, <1>8, <1>9

LEMMA RankIs ==
  ASSUME NEW n \in Nat, n > 0, NEW p \in 1 .. 100, NEW r, r = (p * n + 99) \div 100
  PROVE  r \in 1 .. n /\ Max({1, r}) = r
<1>1. PICK x \in Nat : x = p * n /\ n <= x /\ x <= 100 * n
  <2>1. p * n \in Nat /\ n <= p * n /\ p * n <= 100 * n
    OBVIOUS
  <2> QED
    BY <2>1
<1>2. r = (x + 99) \div 100
  BY <1>1
<1>3. r \in Int /\ r >= 1 /\ r <= n
  BY <1>1, <1>2
<1>4. Max({1, r}) \in {1, r} /\ Max({1, r}) >= r
  BY <1>3, MaxOfTwo
<1> QED
  BY <1>3, <1>4

LEMMA PercentilesInOrder ==
  ASSUME NEW values \in Seq(Int), values # <<>>
  PROVE  Percentile(values, 50) <= Percentile(values, 95)
<1>1. PICK n : n = Len(values) /\ n \in Nat /\ n > 0
  BY EmptySeq, LenProperties
<1>2. PICK i, j : i = (50 * n + 99) \div 100 /\ j = (95 * n + 99) \div 100
  OBVIOUS
<1>3. i \in 1 .. n /\ Max({1, i}) = i
  <2>1. PICK p : p = 50 /\ p \in 1 .. 100 /\ i = (p * n + 99) \div 100
    BY <1>2
  <2> QED
    BY <1>1, <2>1, RankIs
<1>4. j \in 1 .. n /\ Max({1, j}) = j
  <2>1. PICK p : p = 95 /\ p \in 1 .. 100 /\ j = (p * n + 99) \div 100
    BY <1>2
  <2> QED
    BY <1>1, <2>1, RankIs
<1>5. i <= j
  BY <1>1, <1>2
<1>6. Percentile(values, 50) = Sorted(values)[i] /\ Percentile(values, 95) = Sorted(values)[j]
  BY <1>1, <1>2, <1>3, <1>4 DEF Percentile
<1>7. \A k, m \in 1 .. n : k <= m => Sorted(values)[k] <= Sorted(values)[m]
  BY <1>1, SortedIs
<1> QED
  BY <1>3, <1>4, <1>5, <1>6, <1>7

-----------------------------------------------------------------------------
(* The values a measurer reports are integers, but for the ratios.         *)
Numeric(values) == \A name \in DOMAIN values \ RatioNames : values[name] \in Int

LEMMA NumericPlus ==
  ASSUME NEW f, NEW g, Numeric(f), Numeric(g)
  PROVE  Numeric(f ++ g)
BY DEF Numeric, ++

LEMMA NumericWhen ==
  ASSUME NEW c \in BOOLEAN, NEW f, c => Numeric(f)
  PROVE  Numeric(When(c, f))
BY DEF Numeric, When

LEMMA NumericNone == ASSUME NEW id PROVE Numeric(NotApplicable(id).values)
<1>1. NotApplicable(id).values = <<>>
  BY DEF NotApplicable
<1> QED
  BY <1>1 DEF Numeric

LEMMA MaxInt ==
  ASSUME NEW seq \in Seq(Int), seq # <<>>
  PROVE  Max(ToSet(seq)) \in Int
<1>1. PICK n : n = Len(seq) /\ n \in Nat /\ n > 0 /\ DOMAIN seq = 1 .. n /\ ToSet(seq) \subseteq Int
  BY SeqFacts, EmptySeq
<1>2. ToSet(seq) = {seq[i] : i \in 1 .. n} /\ 1 \in 1 .. n
  BY <1>1 DEF ToSet
<1>3. IsFiniteSet(ToSet(seq)) /\ ToSet(seq) # {}
  <2>1. IsFiniteSet(1 .. n)
    BY <1>1, IntervalCount
  <2>2. IsFiniteSet({seq[i] : i \in 1 .. n})
    BY <2>1, FiniteImage
  <2> QED
    BY <1>2, <2>2
<1> QED
  BY <1>1, <1>3, MaxIs

LEMMA OverlapInt ==
  ASSUME NEW steps, SoundSteps(steps)
  PROVE  Overlap(steps) \in Int
<1>1. IsFiniteSet(ToSet(steps))
  <2>1. PICK n : n \in Nat /\ DOMAIN steps = 1 .. n
    BY TupleIs DEF SoundSteps
  <2>2. IsFiniteSet(1 .. n)
    BY <2>1, IntervalCount
  <2>3. ToSet(steps) = {steps[i] : i \in 1 .. n}
    BY <2>1 DEF ToSet
  <2>4. IsFiniteSet({steps[i] : i \in 1 .. n})
    BY <2>2, FiniteImage
  <2> QED
    BY <2>3, <2>4
<1>2. PICK W : W = TimedSteps(steps) /\ IsFiniteSet(W)
  <2>1. TimedSteps(steps) \in SUBSET ToSet(steps)
    BY DEF TimedSteps
  <2> QED
    BY <1>1, <2>1, FS_Subset
<1> DEFINE at(p) == {s \in W : s.start <= p /\ p < s.start + s.dur}
           most == {Cardinality(at(s.start)) : s \in W}
<1>3. Overlap(steps) = Max({1} \cup most)
  BY <1>2, Zenon DEF Overlap, TimedSteps
<1>4. \A p : Cardinality(at(p)) \in Nat
  <2> SUFFICES ASSUME NEW p PROVE Cardinality(at(p)) \in Nat
    OBVIOUS
  <2>1. at(p) \in SUBSET W
    OBVIOUS
  <2> HIDE DEF at
  <2> QED
    BY <1>2, <2>1, FS_Subset, FS_CardinalityType
<1>5. most \subseteq Nat
  <2> HIDE DEF at
  <2> QED
    BY <1>4
<1>6. IsFiniteSet(most)
  <2> HIDE DEF at
  <2>1. PICK f : f = [s \in W |-> Cardinality(at(s.start))]
    OBVIOUS
  <2>2. most = {f[s] : s \in W}
    BY <2>1
  <2>3. IsFiniteSet({f[s] : s \in W})
    BY <1>2, FiniteImage
  <2> HIDE DEF most
  <2> QED
    BY <2>2, <2>3
<1> HIDE DEF most
<1>7. PICK all : all = {1} \cup most
  OBVIOUS
<1>8. IsFiniteSet(all)
  <2>1. IsFiniteSet({1})
    BY FS_Singleton
  <2> QED
    BY <1>6, <1>7, <2>1, FS_Union
<1>9. all \in SUBSET Int /\ all # {}
  BY <1>5, <1>7
<1>10. Max(all) \in Int
  BY <1>8, <1>9, MaxIs
<1> QED
  BY <1>3, <1>7, <1>10

(* The executions of a trajectory, as a typed sequence.                    *)
LEMMA ExecutionsType ==
  ASSUME NEW steps, SoundSteps(steps)
  PROVE  /\ Executions(steps) \in Seq(ToSet(steps)) /\ Len(Executions(steps)) \in Nat
         /\ \A s \in ToSet(steps) : SoundStep(s)
<1>1. steps \in Seq(ToSet(steps)) /\ \A s \in ToSet(steps) : SoundStep(s)
  BY TupleIs, SMTT(30) DEF SoundSteps, ToSet
<1>2. PICK I : I = {i \in DOMAIN steps : HasToolExecution(steps[i])} /\ I \in SUBSET DOMAIN steps
  OBVIOUS
<1>3. Executions(steps) = Picked(steps, I)
  <2>1. Executions(steps) = Picked(steps, {i \in DOMAIN steps : HasToolExecution(steps[i])})
    BY Zenon DEF Executions, Selected, Ordered, Picked, Ranked, Arranged
  <2> QED
    BY <1>2, <2>1
<1>4. Picked(steps, I) \in Seq(ToSet(steps))
  BY <1>1, <1>2, PickedIs
<1> QED
  BY <1>1, <1>3, <1>4, SeqFacts

(* A selection of a sequence has a length, and is of the same elements.    *)
LEMMA PickedType ==
  ASSUME NEW T, NEW seq \in Seq(T), NEW I \in SUBSET DOMAIN seq
  PROVE  Picked(seq, I) \in Seq(T) /\ Len(Picked(seq, I)) \in Int
BY PickedIs

LEMMA ToolUsageNumeric ==
  ASSUME NEW steps, SoundSteps(steps)
  PROVE  Numeric(ToolUsage(steps).values)
<1> DEFINE calls == Executions(steps)
           failed   == Selected(calls, LAMBDA s : s.failure # "")
           reported == Selected(calls, OutputReported)
           sizes    == [i \in DOMAIN reported |-> ToolOutputBytes(reported[i])]
           durs     == [i \in DOMAIN calls |-> calls[i].dur]
           head == [tool_call_count        |-> Len(calls),
                failed_tool_call_count |-> Len(failed),
                tool_failure_ratio     |-> Ratio(Len(failed), Len(calls)),
                tool_duration_ms |-> Total(durs),
                result_reported_call_count |-> Len(reported),
                result_coverage_ratio |-> Ratio(Len(reported), Len(calls)),
                result_bytes |-> Total(sizes),
                max_concurrent_tool_calls |-> MaxConcurrency(calls)]
           peaks == [average_result_bytes_per_call |-> Ratio(Total(sizes), Len(sizes)),
                     peak_result_bytes_per_call |-> Max(ToSet(sizes))]
           rest == When(sizes # <<>>, peaks)
<1>1. \/ ToolUsage(steps) = NotApplicable("tool_usage")
      \/ ToolUsage(steps) = Measured("tool_usage", head ++ rest, StepIds(calls))
  BY ZenonT(60) DEF ToolUsage, Executions
<1>2. MaxConcurrency(calls) \in Int
  BY ConcurrencyIs, OverlapInt
<1>3. calls \in Seq(ToSet(steps)) /\ Len(calls) \in Int /\ \A s \in ToSet(steps) : SoundStep(s)
  BY ExecutionsType
<1> HIDE DEF calls
<1>4. Len(failed) \in Int
  <2>1. failed = Picked(calls, {i \in DOMAIN calls : calls[i].failure # ""})
    BY Zenon DEF Selected, Ordered, Picked, Ranked, Arranged
  <2>2. {i \in DOMAIN calls : calls[i].failure # ""} \in SUBSET DOMAIN calls
    OBVIOUS
  <2> QED
    BY <1>3, <2>1, <2>2, PickedType
<1>5. reported \in Seq(ToSet(steps)) /\ Len(reported) \in Int
  <2>1. reported = Picked(calls, {i \in DOMAIN calls : OutputReported(calls[i])})
    BY Zenon DEF Selected, Ordered, Picked, Ranked, Arranged
  <2>2. {i \in DOMAIN calls : OutputReported(calls[i])} \in SUBSET DOMAIN calls
    OBVIOUS
  <2> QED
    BY <1>3, <2>1, <2>2, PickedType
<1> HIDE DEF failed, reported
<1>6. durs \in Seq(Int)
  <2>1. PICK n : n \in Nat /\ DOMAIN calls = 1 .. n /\ \A i \in 1 .. n : calls[i] \in ToSet(steps)
    BY <1>3, SeqFacts
  <2>2. \A i \in 1 .. n : calls[i].dur \in Int
    BY <1>3, <2>1 DEF SoundStep
  <2>3. durs \in [1 .. n -> Int]
    BY <2>1, <2>2
  <2> QED
    BY <2>1, <2>3, SeqOfFunction
<1>7. sizes \in Seq(Int)
  <2>1. PICK n : n \in Nat /\ DOMAIN reported = 1 .. n /\ \A i \in 1 .. n : reported[i] \in ToSet(steps)
    BY <1>5, SeqFacts
  <2>2. \A s \in ToSet(steps) : ToolOutputBytes(s) \in Int
    <3> SUFFICES ASSUME NEW s \in ToSet(steps) PROVE ToolOutputBytes(s) \in Int
      OBVIOUS
    <3>1. s.obs \in Int /\ IsTuple(s.outMsgs)
      BY <1>3 DEF SoundStep
    <3>2. Len(s.outMsgs) \in Nat
      BY <3>1, TupleIs
    <3> QED
      BY <3>1, <3>2 DEF ToolOutputBytes
  <2>3. sizes \in [1 .. n -> Int]
    BY <2>1, <2>2
  <2> QED
    BY <2>1, <2>3, SeqOfFunction
<1> HIDE DEF durs, sizes
<1>8. Total(durs) \in Int /\ Total(sizes) \in Int
  BY <1>6, <1>7, TotalInt
<1>9. Numeric(head)
  <2>1. PICK a, b, c, d, e, f, g, h :
          /\ a = Len(calls) /\ b = Len(failed) /\ c = Ratio(Len(failed), Len(calls)) /\ d = Total(durs)
          /\ e = Len(reported) /\ f = Ratio(Len(reported), Len(calls)) /\ g = Total(sizes)
          /\ h = MaxConcurrency(calls)
    OBVIOUS
  <2>2. /\ a \in Int /\ b \in Int /\ d \in Int /\ e \in Int /\ g \in Int /\ h \in Int
    BY <1>2, <1>3, <1>4, <1>5, <1>8, <2>1
  <2>3. head = [tool_call_count |-> a, failed_tool_call_count |-> b, tool_failure_ratio |-> c,
                tool_duration_ms |-> d, result_reported_call_count |-> e,
                result_coverage_ratio |-> f, result_bytes |-> g, max_concurrent_tool_calls |-> h]
    BY <2>1, Zenon
  <2> HIDE DEF head
  <2> QED
    BY <2>2, <2>3 DEF Numeric, RatioNames
<1>10. sizes # <<>> => Numeric(peaks)
  <2> SUFFICES ASSUME sizes # <<>> PROVE Numeric(peaks)
    OBVIOUS
  <2>1. PICK a, b : a = Ratio(Total(sizes), Len(sizes)) /\ b = Max(ToSet(sizes)) /\ b \in Int
    BY <1>7, MaxInt
  <2>2. peaks = [average_result_bytes_per_call |-> a, peak_result_bytes_per_call |-> b]
    BY <2>1, Zenon
  <2> HIDE DEF peaks
  <2> QED
    BY <2>1, <2>2 DEF Numeric, RatioNames
<1> HIDE DEF head, peaks
<1>11. Numeric(rest)
  <2>1. (sizes # <<>>) \in BOOLEAN
    OBVIOUS
  <2> QED
    BY <1>10, <2>1, NumericWhen
<1> HIDE DEF rest
<1>12. Numeric(head ++ rest)
  BY <1>9, <1>11, NumericPlus
<1>13. CASE ToolUsage(steps) = NotApplicable("tool_usage")
  BY <1>13, NumericNone
<1>14. CASE ToolUsage(steps) = Measured("tool_usage", head ++ rest, StepIds(calls))
  <2>1. ToolUsage(steps).values = head ++ rest
    BY <1>14 DEF Measured
  <2> QED
    BY <1>12, <2>1
<1> QED
  BY <1>1, <1>13, <1>14

LEMMA RetryUsageNumeric ==
  ASSUME NEW steps, SoundSteps(steps)
  PROVE  Numeric(RetryUsage(steps).values)
<1>1. CASE RetryUsage(steps) = NotApplicable("retry_usage")
  BY <1>1, NumericNone
<1>2. CASE RetryUsage(steps) # NotApplicable("retry_usage")
  <2>1. PICK calls, moves : calls = ToolCalls(steps) /\ moves = RetryTransitions(steps)
    OBVIOUS
  <2>2. PICK rest, ids :
          /\ DOMAIN rest \subseteq {"retried_failure_ratio"}
          /\ RetryUsage(steps) = Measured("retry_usage", RetryCounts(calls, moves) ++ rest, ids)
    BY <1>2, <2>1, RetryUsageIs
  <2>3. moves \in Seq(ToSet(moves)) /\ Len(moves) \in Int
    BY <2>1, TransitionsType, TupleIs
  <2>4. calls \in Seq(ToSet(calls))
    BY <2>1, ToolCallsType, SeqFacts, TupleIs
  <2>5. Len(Unchanged(moves)) \in Int /\ Len(Changed(moves)) \in Int /\ Len(Recoveries(moves)) \in Int
    <3>1. PICK I, J, K : /\ I = {k \in DOMAIN moves : ~ArgumentsChanged(moves[k])}
                         /\ J = {k \in DOMAIN moves : ArgumentsChanged(moves[k])}
                         /\ K = {k \in DOMAIN moves : Recovered(moves[k])}
      OBVIOUS
    <3>2. I \in SUBSET DOMAIN moves /\ J \in SUBSET DOMAIN moves /\ K \in SUBSET DOMAIN moves
      BY <3>1
    <3>3. Len(Picked(moves, I)) \in Int /\ Len(Picked(moves, J)) \in Int /\ Len(Picked(moves, K)) \in Int
      BY <2>3, <3>2, PickedType
    <3> QED
      BY <3>1, <3>3, Zenon DEF Unchanged, Changed, Recoveries
  <2>6. Len(FailedCalls(calls)) \in Int
    <3>1. PICK I : I = {k \in DOMAIN calls : CallFailed(calls[k])} /\ I \in SUBSET DOMAIN calls
      OBVIOUS
    <3>2. Len(Picked(calls, I)) \in Int
      BY <2>4, <3>1, PickedType
    <3> QED
      BY <3>1, <3>2, Zenon DEF FailedCalls
  <2>7. Numeric(RetryCounts(calls, moves))
    BY <2>3, <2>5, <2>6 DEF Numeric, RetryCounts
  <2>8. Numeric(rest)
    BY <2>2 DEF Numeric, RatioNames
  <2>9. RetryUsage(steps).values = RetryCounts(calls, moves) ++ rest
    BY <2>2 DEF Measured
  <2> QED
    BY <2>7, <2>8, <2>9, NumericPlus
<1> QED
  BY <1>1, <1>2

LEMMA ReportedType ==
  ASSUME NEW steps, SoundSteps(steps), NEW calls, calls = ModelCalls(steps),
         NEW kind \in {"input", "output", "cached"}
  PROVE  Reported(calls, kind) \in Seq(Int) /\ Len(Reported(calls, kind)) \in Int
<1>1. calls \in Seq(ToSet(steps)) /\ \A i \in DOMAIN calls : SoundStep(calls[i])
  BY CallsAndCounts
<1>2. PICK counts, I : counts = Counts(calls, kind) /\ I = ReportedAt(calls, kind)
  OBVIOUS
<1>3. counts \in Seq(Int) /\ DOMAIN counts = DOMAIN calls
  BY <1>1, <1>2, CountsType
<1>4. I \in SUBSET DOMAIN counts
  BY <1>2, <1>3 DEF ReportedAt
<1>5. Picked(counts, I) \in Seq(Int) /\ Len(Picked(counts, I)) \in Int
  BY <1>3, <1>4, PickedType
<1>6. Reported(calls, kind) = Picked(counts, I)
  BY <1>2, ReportedIs
<1> QED
  BY <1>5, <1>6

LEMMA InputNumeric ==
  ASSUME NEW ins \in Seq(Int)
  PROVE  Numeric(InputValues(ins))
<1>1. PICK a, b, c : a = Total(ins) /\ b = Ratio(Total(ins), Len(ins)) /\ c = Max(ToSet(ins))
  OBVIOUS
<1>2. PICK f : f = [input_tokens |-> a, average_input_tokens_per_call |-> b, peak_input_tokens_per_call |-> c]
  OBVIOUS
<1>3. a \in Int /\ (ins # <<>> => c \in Int)
  BY <1>1, TotalInt, MaxInt
<1>4. ins # <<>> => Numeric(f)
  BY <1>2, <1>3 DEF Numeric, RatioNames
<1>5. (ins # <<>>) \in BOOLEAN
  OBVIOUS
<1>6. Numeric(When(ins # <<>>, f))
  BY <1>4, <1>5, NumericWhen
<1> QED
  BY <1>1, <1>2, <1>6, Zenon DEF InputValues

LEMMA CacheNumeric ==
  ASSUME NEW in \in Int, NEW cached \in Int
  PROVE  Numeric(CacheValues(in, cached))
<1>1. PICK a, b : a = in - cached /\ b = Ratio(cached, in) /\ a \in Int
  OBVIOUS
<1>2. PICK f : f = [uncached_input_tokens |-> a, cache_hit_ratio |-> b]
  OBVIOUS
<1>3. Numeric(f)
  BY <1>1, <1>2 DEF Numeric, RatioNames
<1>4. (in > 0) \in BOOLEAN
  OBVIOUS
<1>5. Numeric(When(in > 0, f))
  BY <1>3, <1>4, NumericWhen
<1> QED
  BY <1>1, <1>2, <1>5, Zenon DEF CacheValues

LEMMA ModelUsageNumeric ==
  ASSUME NEW steps, SoundSteps(steps)
  PROVE  Numeric(ModelUsage(steps).values)
<1> DEFINE calls == ModelCalls(steps)
           outs  == Reported(calls, "output")
           short == Selected(outs, LAMBDA n : n < ShortTokens)
           usage == Selected(calls, LAMBDA c :
                \E kind \in {"input", "output", "cached"} : TokenCount(c, kind) # None)
           head == [model_call_count |-> Len(calls),
                usage_reported_call_count |-> Len(usage),
                usage_coverage_ratio |-> Ratio(Len(usage), Len(calls))]
           out == [output_tokens |-> Total(outs),
                       output_reported_call_count |-> Len(outs),
                       average_output_tokens_per_call |-> Ratio(Total(outs), Len(outs)),
                       peak_output_tokens_per_call |-> Max(ToSet(outs)),
                       output_under_500_tokens_call_count |-> Len(short),
                       output_under_500_tokens_ratio |-> Ratio(Len(short), Len(outs))]
           ins == Reported(calls, "input")
           total == [total_tokens |-> Total(ins \o outs)]
           hits == Reported(calls, "cached")
           hit == [cached_input_tokens |-> Total(hits)]
           in == Total(Counts(Paired(calls), "input"))
           cached == Total(Counts(Paired(calls), "cached"))
           values == head ++ InputValues(ins) ++ When(outs # <<>>, out)
                       ++ When(ins \o outs # <<>>, total)
                       ++ When(hits # <<>>, hit)
                       ++ CacheValues(in, cached)
<1>1. \/ ModelUsage(steps) = NotApplicable("model_usage")
      \/ \E ids : ModelUsage(steps) = Measured("model_usage", values, ids)
  BY ZenonT(60) DEF ModelUsage, Reported, Counts, ModelCalls, Paired, InputValues, CacheValues
<1>2. in \in Int /\ cached \in Int
  BY CachedWithinInput
<1>3. /\ ins \in Seq(Int) /\ outs \in Seq(Int) /\ hits \in Seq(Int)
      /\ Len(outs) \in Int
  <2>1. PICK c : c = ModelCalls(steps)
    OBVIOUS
  <2>2. /\ Reported(c, "input") \in Seq(Int) /\ Reported(c, "output") \in Seq(Int)
        /\ Reported(c, "cached") \in Seq(Int) /\ Len(Reported(c, "output")) \in Int
    BY <2>1, ReportedType
  <2> QED
    BY <2>1, <2>2
<1>4. calls \in Seq(ToSet(steps)) /\ Len(calls) \in Int
  BY CallsAndCounts, SeqFacts
<1> HIDE DEF calls, outs, ins, hits, in, cached
<1>5. Len(short) \in Int
  <2>1. PICK I : I = {i \in DOMAIN outs : outs[i] < ShortTokens} /\ I \in SUBSET DOMAIN outs
    OBVIOUS
  <2>2. Selected(outs, LAMBDA n : n < ShortTokens) = Picked(outs, {i \in DOMAIN outs : outs[i] < ShortTokens})
    BY Zenon DEF Selected, Ordered, Picked, Ranked, Arranged
  <2>3. Len(Picked(outs, I)) \in Int
    BY <1>3, <2>1, PickedType
  <2> QED
    BY <2>1, <2>2, <2>3
<1>6. Len(usage) \in Int
  <2>1. PICK I : /\ I = {i \in DOMAIN calls : \E kind \in {"input", "output", "cached"} :
                                                TokenCount(calls[i], kind) # None}
                 /\ I \in SUBSET DOMAIN calls
    OBVIOUS
  <2>2. usage = Picked(calls, {i \in DOMAIN calls : \E kind \in {"input", "output", "cached"} :
                                                TokenCount(calls[i], kind) # None})
    BY Zenon DEF Selected, Ordered, Picked, Ranked, Arranged
  <2>3. Len(Picked(calls, I)) \in Int
    BY <1>4, <2>1, PickedType
  <2> HIDE DEF usage
  <2> QED
    BY <2>1, <2>2, <2>3
<1> HIDE DEF short, usage
<1>7. Numeric(head)
  <2>1. PICK a, b, c : a = Len(calls) /\ b = Len(usage) /\ c = Ratio(Len(usage), Len(calls))
    OBVIOUS
  <2>2. head = [model_call_count |-> a, usage_reported_call_count |-> b, usage_coverage_ratio |-> c]
    BY <2>1, Zenon
  <2> HIDE DEF head
  <2> QED
    BY <1>4, <1>6, <2>1, <2>2 DEF Numeric, RatioNames
<1>8. outs # <<>> => Numeric(out)
  <2> SUFFICES ASSUME outs # <<>> PROVE Numeric(out)
    OBVIOUS
  <2>1. PICK a, b, c, d, e, f :
          /\ a = Total(outs) /\ b = Len(outs) /\ c = Ratio(Total(outs), Len(outs))
          /\ d = Max(ToSet(outs)) /\ e = Len(short) /\ f = Ratio(Len(short), Len(outs))
    OBVIOUS
  <2>2. a \in Int /\ b \in Int /\ d \in Int /\ e \in Int
    BY <1>3, <1>5, <2>1, TotalInt, MaxInt
  <2>3. out = [output_tokens |-> a, output_reported_call_count |-> b,
               average_output_tokens_per_call |-> c, peak_output_tokens_per_call |-> d,
               output_under_500_tokens_call_count |-> e, output_under_500_tokens_ratio |-> f]
    BY <2>1, Zenon
  <2> HIDE DEF out
  <2> QED
    BY <2>2, <2>3 DEF Numeric, RatioNames
<1>9. Numeric(total) /\ Numeric(hit)
  <2>1. ins \o outs \in Seq(Int)
    BY <1>3, ConcatProperties
  <2>2. PICK a, b : a = Total(ins \o outs) /\ b = Total(hits) /\ a \in Int /\ b \in Int
    BY <1>3, <2>1, TotalInt
  <2> QED
    BY <2>2 DEF Numeric
<1> HIDE DEF head, out, total, hit
<1>10. PICK o, t, h : /\ o = When(outs # <<>>, out) /\ t = When(ins \o outs # <<>>, total)
                     /\ h = When(hits # <<>>, hit)
  OBVIOUS
<1>11. Numeric(o) /\ Numeric(t) /\ Numeric(h)
  <2>1. (outs # <<>>) \in BOOLEAN /\ (ins \o outs # <<>>) \in BOOLEAN /\ (hits # <<>>) \in BOOLEAN
    OBVIOUS
  <2> QED
    BY <1>8, <1>9, <1>10, <2>1, NumericWhen
<1>12. PICK p, q : p = InputValues(ins) /\ q = CacheValues(in, cached) /\ Numeric(p) /\ Numeric(q)
  BY <1>2, <1>3, InputNumeric, CacheNumeric
<1>13. values = head ++ p ++ o ++ t ++ h ++ q
  BY <1>10, <1>12, Zenon
<1> HIDE DEF values
<1>14. Numeric(values)
  <2>1. Numeric(head ++ p)
    BY <1>7, <1>12, NumericPlus
  <2>2. Numeric(head ++ p ++ o)
    BY <1>11, <2>1, NumericPlus
  <2>3. Numeric(head ++ p ++ o ++ t)
    BY <1>11, <2>2, NumericPlus
  <2>4. Numeric(head ++ p ++ o ++ t ++ h)
    BY <1>11, <2>3, NumericPlus
  <2>5. Numeric(head ++ p ++ o ++ t ++ h ++ q)
    BY <1>12, <2>4, NumericPlus
  <2> QED
    BY <1>13, <2>5, Zenon
<1>15. CASE ModelUsage(steps) = NotApplicable("model_usage")
  BY <1>15, NumericNone
<1>16. CASE \E ids : ModelUsage(steps) = Measured("model_usage", values, ids)
  <2>1. ModelUsage(steps).values = values
    BY <1>16 DEF Measured
  <2> QED
    BY <1>14, <2>1
<1> QED
  BY <1>1, <1>15, <1>16

(* The counts of the covered calls, in start order, and the changes over   *)
(* compact steps.                                                          *)
LEMMA ReadIsSeq ==
  ASSUME NEW I, NEW p, NEW l, Rises(p, l, I), NEW f, NEW seq, Reads(seq, f, p, l),
         NEW T, \A x \in I : f[x] \in T
  PROVE  seq \in Seq(T) /\ Len(seq) = l /\ l \in Nat /\ DOMAIN seq = 1 .. l
<1>1. l \in Nat /\ \A k \in 1 .. l : p[k] \in I
  BY DEF Rises
<1>2. seq = [k \in 1 .. l |-> f[p[k]]]
  BY DEF Reads
<1>3. seq \in [1 .. l -> T]
  BY <1>1, <1>2
<1> QED
  BY <1>1, <1>3, SeqOfFunction

LEMMA InOrderType ==
  ASSUME NEW steps, SoundSteps(steps), NEW ord, ord = InOrder(steps)
  PROVE  \E n \in Nat : /\ DOMAIN ord = 1 .. n /\ ord = [k \in 1 .. n |-> ord[k]]
                        /\ ord \in Seq(ToSet(steps)) /\ \A k \in 1 .. n : Tokens(ord)[k] \in Int
<1>1. PICK n, o : n = Len(steps) /\ o = StartOrder(steps)
  OBVIOUS
<1>2. /\ n \in Nat /\ DOMAIN steps = 1 .. n /\ o \in [1 .. n -> 1 .. n]
      /\ ord = [k \in 1 .. n |-> steps[o[k]]]
  BY <1>1, InOrderIs DEF Started
<1>3. \A k \in 1 .. n : ord[k] \in ToSet(steps) /\ SoundStep(ord[k])
  <2>1. \A i \in 1 .. n : steps[i] \in ToSet(steps) /\ SoundStep(steps[i])
    BY <1>2 DEF SoundSteps, ToSet
  <2> QED
    BY <1>2, <2>1
<1>4. ord \in [1 .. n -> ToSet(steps)]
  BY <1>2, <1>3
<1>5. ord \in Seq(ToSet(steps)) /\ DOMAIN ord = 1 .. n
  BY <1>2, <1>4, SeqOfFunction
<1>6. \A k \in 1 .. n : Tokens(ord)[k] \in Int
  <2> SUFFICES ASSUME NEW k \in 1 .. n PROVE Tokens(ord)[k] \in Int
    OBVIOUS
  <2>1. Tokens(ord)[k] = TokenCount(ord[k], "input")
    BY <1>5 DEF Tokens
  <2>2. TokenCount(ord[k], "input") \in Int
    BY <1>3, TokenCountIs
  <2> QED
    BY <2>1, <2>2
<1> QED
  BY <1>2, <1>4, <1>5, <1>6

LEMMA CoveredCounts ==
  ASSUME NEW steps, SoundSteps(steps), NEW ord, ord = InOrder(steps),
         NEW covered, covered = Covered(Selected(ord, IsModelCall)),
         NEW counts, counts = [i \in DOMAIN covered |-> covered[i][2]]
  PROVE  counts \in Seq(Int) /\ Len(covered) \in Int
<1>1. PICK n \in Nat : DOMAIN ord = 1 .. n /\ ord = [k \in 1 .. n |-> ord[k]]
                       /\ \A k \in 1 .. n : Tokens(ord)[k] \in Int
  BY InOrderType
<1>2. PICK p, l : /\ Rises(p, l, CoveredAt(ord))
                  /\ Reads(Covered(Selected(ord, IsModelCall)), WithTokens(ord), p, l)
  BY <1>1, CoveredRead
<1>3. PICK I, g, T : /\ I = CoveredAt(ord) /\ g = WithTokens(ord)
                     /\ T = {g[x] : x \in I}
  OBVIOUS
<1>4. I \subseteq 1 .. n
  BY <1>1, <1>3 DEF CoveredAt, CallsAt
<1>5. \A x \in I : g[x] \in T /\ g[x][2] \in Int
  <2> SUFFICES ASSUME NEW x \in I PROVE g[x] \in T /\ g[x][2] \in Int
    OBVIOUS
  <2>1. g[x] = <<ord[x], Tokens(ord)[x]>>
    BY <1>1, <1>3, <1>4 DEF WithTokens
  <2>2. x \in 1 .. n /\ g[x] \in T
    BY <1>3, <1>4
  <2>3. PICK a : a = Tokens(ord)[x] /\ a \in Int
    BY <1>1, <2>2
  <2>4. g[x][2] = a
    BY <2>1, <2>3
  <2> QED
    BY <2>2, <2>3, <2>4
<1>6. covered \in Seq(T) /\ Len(covered) = l /\ l \in Nat /\ DOMAIN covered = 1 .. l
  <2>1. Rises(p, l, I) /\ Reads(covered, g, p, l) /\ \A x \in I : g[x] \in T
    BY <1>2, <1>3, <1>5, Zenon
  <2> QED
    BY <2>1, ReadIsSeq
<1>7. \A k \in 1 .. l : covered[k][2] \in Int
  BY <1>3, <1>5, <1>6, SeqFacts
<1>8. counts \in [1 .. l -> Int]
  BY <1>6, <1>7
<1> QED
  BY <1>6, <1>8, SeqOfFunction

LEMMA ChangesType ==
  ASSUME NEW steps, SoundSteps(steps)
  PROVE  Changes(steps) \in Seq(Int) /\ Len(Changes(steps)) \in Int
<1>1. PICK n, o, ord, C, D, A, f :
        /\ n = Len(steps) /\ o = StartOrder(steps) /\ ord = InOrder(steps)
        /\ C = CoveredAt(ord) /\ D = CompactsAt(ord)
        /\ A = Around(C, D) /\ f = ChangeAt(ord, C, D)
  OBVIOUS
<1>2. \A x \in A : f[x] \in Int
  <2> SUFFICES ASSUME NEW x \in A PROVE f[x] \in Int
    OBVIOUS
  <2>1. x \in D /\ x \in Around(C, D)
    BY <1>1 DEF Around
  <2>2. ChangeAt(ord, C, D)[x] \in Int
    BY <1>1, <2>1, NearestAt
  <2> QED
    BY <1>1, <2>2
<1>3. PICK q, h : Rises(q, h, A) /\ Reads(Changes(steps), f, q, h)
  BY <1>1, ChangesRead
<1> QED
  BY <1>2, <1>3, ReadIsSeq

LEMMA TokensNumeric ==
  ASSUME NEW counts \in Seq(Int), counts # <<>>
  PROVE  Numeric([first_input_tokens |-> counts[1], last_input_tokens  |-> Last(counts),
                  peak_input_tokens  |-> Max(ToSet(counts)),
                  input_token_delta  |-> Last(counts) - counts[1]])
<1>1. PICK n : n = Len(counts) /\ n \in Nat /\ n > 0 /\ \A i \in 1 .. n : counts[i] \in Int
  BY SeqFacts, EmptySeq
<1>2. PICK a, b, c, d : a = counts[1] /\ b = Last(counts) /\ c = Max(ToSet(counts)) /\ d = b - a
  OBVIOUS
<1>3. a \in Int /\ b \in Int
  BY <1>1, <1>2 DEF Last
<1>4. c \in Int /\ d \in Int
  BY <1>2, <1>3, MaxInt
<1>5. Numeric([first_input_tokens |-> a, last_input_tokens |-> b, peak_input_tokens |-> c,
               input_token_delta |-> d])
  BY <1>3, <1>4 DEF Numeric
<1> QED
  BY <1>2, <1>5, Zenon

LEMMA ContextUsageNumeric ==
  ASSUME NEW steps, SoundSteps(steps)
  PROVE  Numeric(ContextUsage(steps).values)
<1> DEFINE ordered == InOrder(steps)
           calls    == Selected(ordered, IsModelCall)
           compacts == Selected(ordered, IsCompactStep)
           covered  == Covered(calls)
           counts   == [i \in DOMAIN covered |-> covered[i][2]]
           moved    == Changes(steps)
           head == [model_call_count |-> Len(calls), compact_count |-> Len(compacts),
                input_reported_call_count |-> Len(covered),
                post_compact_observed_count |-> Len(moved)]
           ratio == [input_coverage_ratio |-> Ratio(Len(covered), Len(calls))]
           sizes == [first_input_tokens |-> counts[1],
                       last_input_tokens  |-> Last(counts),
                       peak_input_tokens  |-> Max(ToSet(counts)),
                       input_token_delta  |-> Last(counts) - counts[1]]
           grown == [input_growth_ratio |-> Ratio(Last(counts), counts[1])]
           delta == [post_compact_input_delta_tokens |-> Total(moved)]
           cover == When(calls # <<>>, ratio)
           tokens == When(counts # <<>>, sizes)
           growth == When(counts # <<>> /\ counts[1] > 0, grown)
           change == When(moved # <<>>, delta)
           ids == Distinct([i \in DOMAIN covered |-> covered[i][1].id] \o StepIds(compacts))
<1>1. \/ ContextUsage(steps) = NotApplicable("context_usage")
      \/ ContextUsage(steps) = Measured("context_usage",
            head ++ cover ++ tokens ++ growth ++ change, ids)
  BY ZenonT(60) DEF ContextUsage, InOrder, Covered, Changes
<1>2. counts \in Seq(Int) /\ Len(covered) \in Int
  <2>1. PICK o, a, b : /\ o = ordered /\ a = Covered(Selected(o, IsModelCall))
                       /\ b = [i \in DOMAIN a |-> a[i][2]]
    OBVIOUS
  <2>2. o = InOrder(steps)
    BY <2>1
  <2>3. b \in Seq(Int) /\ Len(a) \in Int
    BY <2>1, <2>2, CoveredCounts
  <2> QED
    BY <2>1, <2>3, Zenon
<1>3. moved \in Seq(Int) /\ Len(moved) \in Int
  BY ChangesType
<1>4. Len(calls) \in Int /\ Len(compacts) \in Int
  <2>1. PICK ord, I, J : /\ ord = ordered /\ I = {k \in DOMAIN ord : IsModelCall(ord[k])}
                         /\ J = {k \in DOMAIN ord : IsCompactStep(ord[k])}
    OBVIOUS
  <2>2. ord \in Seq(ToSet(steps)) /\ I \in SUBSET DOMAIN ord /\ J \in SUBSET DOMAIN ord
    BY <2>1, InOrderType
  <2>3. Len(Picked(ord, I)) \in Int /\ Len(Picked(ord, J)) \in Int
    BY <2>2, PickedType
  <2>4. /\ Selected(ord, IsModelCall) = Picked(ord, {k \in DOMAIN ord : IsModelCall(ord[k])})
        /\ Selected(ord, IsCompactStep) = Picked(ord, {k \in DOMAIN ord : IsCompactStep(ord[k])})
    BY ZenonT(60) DEF Selected, Ordered, Picked, Ranked, Arranged
  <2> QED
    BY <2>1, <2>3, <2>4, Zenon
<1> HIDE DEF calls, compacts, covered, counts, moved, ordered, ids
<1>5. Numeric(head)
  <2>1. PICK a, b, c, d : a = Len(calls) /\ b = Len(compacts) /\ c = Len(covered) /\ d = Len(moved)
    OBVIOUS
  <2>2. head = [model_call_count |-> a, compact_count |-> b, input_reported_call_count |-> c,
                post_compact_observed_count |-> d]
    BY <2>1, Zenon
  <2> HIDE DEF head
  <2> QED
    BY <1>2, <1>3, <1>4, <2>1, <2>2 DEF Numeric
<1>6. Numeric(ratio) /\ Numeric(grown)
  BY DEF Numeric, RatioNames
<1>7. counts # <<>> => Numeric(sizes)
  BY <1>2, TokensNumeric
<1>8. Numeric(delta)
  BY <1>3, TotalInt DEF Numeric
<1> HIDE DEF head, ratio, sizes, grown, delta
<1>9. Numeric(cover) /\ Numeric(tokens) /\ Numeric(growth) /\ Numeric(change)
  <2>1. /\ (calls # <<>>) \in BOOLEAN /\ (counts # <<>>) \in BOOLEAN /\ (moved # <<>>) \in BOOLEAN
        /\ (counts # <<>> /\ counts[1] > 0) \in BOOLEAN
    OBVIOUS
  <2> QED
    BY <1>6, <1>7, <1>8, <2>1, NumericWhen
<1> HIDE DEF cover, tokens, growth, change
<1>10. Numeric(head ++ cover ++ tokens ++ growth ++ change)
  <2>1. Numeric(head ++ cover)
    BY <1>5, <1>9, NumericPlus
  <2>2. Numeric(head ++ cover ++ tokens)
    BY <1>9, <2>1, NumericPlus
  <2>3. Numeric(head ++ cover ++ tokens ++ growth)
    BY <1>9, <2>2, NumericPlus
  <2> QED
    BY <1>9, <2>3, NumericPlus
<1>11. CASE ContextUsage(steps) = NotApplicable("context_usage")
  BY <1>11, NumericNone
<1>12. CASE ContextUsage(steps) = Measured("context_usage",
                                           head ++ cover ++ tokens ++ growth ++ change, ids)
  <2>1. ContextUsage(steps).values = head ++ cover ++ tokens ++ growth ++ change
    BY <1>12 DEF Measured
  <2> QED
    BY <1>10, <2>1
<1> QED
  BY <1>1, <1>11, <1>12

LEMMA MeasurersNumeric ==
  ASSUME NEW steps, SoundSteps(steps), NEW k \in 1 .. 4
  PROVE  Numeric(Measurers(steps)[k].values)
<1>1. PICK a, b, c, d : /\ a = ContextUsage(steps) /\ b = ModelUsage(steps)
                        /\ c = RetryUsage(steps) /\ d = ToolUsage(steps)
  OBVIOUS
<1>2. Numeric(a.values) /\ Numeric(b.values) /\ Numeric(c.values) /\ Numeric(d.values)
  BY <1>1, ContextUsageNumeric, ModelUsageNumeric, RetryUsageNumeric, ToolUsageNumeric
<1>3. Measurers(steps) = <<a, b, c, d>>
  BY <1>1, Zenon DEF Measurers
<1>4. k = 1 \/ k = 2 \/ k = 3 \/ k = 4
  OBVIOUS
<1> QED
  BY <1>2, <1>3, <1>4

LEMMA MeasuredNumeric ==
  ASSUME NEW t, SoundSteps(t.steps), NEW k \in 1 .. 4, NEW m, m = Measure(t)[k], m.status = "measured"
  PROVE  Numeric(m.values)
<1>1. PICK own, id : /\ own = Measurers(t.steps)[k] /\ id = MeasurerIds[k]
                     /\ m = Isolated(own) /\ Reports(own, id)
  BY MeasureRuns
<1>2. id \notin broken
  BY <1>1, IsolatedReport
<1>3. m = own
  BY <1>1, <1>2, IsolatedReport
<1> QED
  BY <1>1, <1>3, MeasurersNumeric

(* The values of a measurement over the rows of a target are integers.     *)
LEMMA ValuesType ==
  ASSUME Complete, NEW target \in Targets, NEW k \in DOMAIN Plugins["measurements"],
         NEW name, name \notin RatioNames
  PROVE  ValuesOf(ResultsOf(target, "measurements", k), name) \in Seq(Int)
<1>1. PICK kind, rows, res : /\ kind = "measurements" /\ rows = OfTarget(target)
                             /\ res = ResultsOf(target, "measurements", k)
  OBVIOUS
<1>2. k \in 1 .. 4
  BY DEF Plugins
<1>3. rows \in Seq(ToSet(run.results))
  BY <1>1, RowsIs
<1>4. PICK n : n \in Nat /\ DOMAIN rows = 1 .. n /\ \A i \in 1 .. n : rows[i] \in ToSet(run.results)
  BY <1>3, SeqFacts
<1>5. res = [i \in 1 .. n |-> rows[i]["measurements"][k]]
  BY <1>1, <1>4 DEF ResultsOf
<1>6. PICK T : T = {x \in {res[i] : i \in 1 .. n} : x.status = "measured" => Numeric(x.values)}
  OBVIOUS
<1>7. \A i \in 1 .. n : res[i].status = "measured" => Numeric(res[i].values)
  <2> SUFFICES ASSUME NEW i \in 1 .. n, res[i].status = "measured" PROVE Numeric(res[i].values)
    OBVIOUS
  <2>1. PICK j \in DOMAIN run.results : rows[i] = run.results[j]
    BY <1>4 DEF ToSet
  <2>2. PICK t : t = dataset.trajs[j] /\ t \in Loadable /\ rows[i] = Analysis(t)
    <3>1. dataset.trajs \in Seq(Loadable) /\ j \in DOMAIN dataset.trajs
      BY DEF Complete
    <3> QED
      BY <2>1, <3>1, SeqFacts DEF Complete
  <2>3. PICK x : x = res[i] /\ x = Measure(t)[k]
    <3>1. rows[i]["measurements"] = Measure(t)
      BY <2>2, AnalysisIs
    <3>2. res[i] = rows[i]["measurements"][k]
      BY <1>5
    <3> QED
      BY <3>1, <3>2
  <2>4. SoundSteps(t.steps)
    BY <2>2, LoadableIsSound
  <2>5. x.status = "measured"
    BY <2>3
  <2>6. Numeric(x.values)
    BY <1>2, <2>3, <2>4, <2>5, MeasuredNumeric
  <2> QED
    BY <2>3, <2>6
<1>8. res \in [1 .. n -> T]
  <2>1. \A i \in 1 .. n : res[i] \in T
    BY <1>6, <1>7
  <2> QED
    BY <1>5, <2>1
<1>9. res \in Seq(T) /\ DOMAIN res = 1 .. n
  BY <1>4, <1>8, SeqOfFunction
<1>10. PICK I, p : /\ I = {i \in DOMAIN res : res[i].status = "measured" /\ name \in DOMAIN res[i].values}
                   /\ p = Picked(res, I) /\ I \in SUBSET DOMAIN res
  OBVIOUS
<1>11. PICK m : /\ m \in Nat /\ DOMAIN p = 1 .. m
                /\ \A j \in 1 .. m : Ranked(I)[j] \in I /\ p[j] = res[Ranked(I)[j]]
  <2>1. PICK m : m = Cardinality(I)
    OBVIOUS
  <2>2. /\ m \in Nat /\ DOMAIN Picked(res, I) = 1 .. m
        /\ \A j \in 1 .. m : Ranked(I)[j] \in I /\ Picked(res, I)[j] = res[Ranked(I)[j]]
    <3>1. res \in Seq(T) /\ I \in SUBSET DOMAIN res
      BY <1>9, <1>10
    <3> QED
      BY <2>1, <3>1, PickedIs
  <2> QED
    BY <1>10, <2>2
<1>12. \A j \in 1 .. m : p[j].values[name] \in Int
  <2> SUFFICES ASSUME NEW j \in 1 .. m PROVE p[j].values[name] \in Int
    OBVIOUS
  <2>1. PICK i : i \in I /\ p[j] = res[i]
    BY <1>11
  <2>2. i \in 1 .. n /\ res[i].status = "measured" /\ name \in DOMAIN res[i].values
    BY <1>9, <1>10, <2>1
  <2>3. PICK values : values = res[i].values /\ Numeric(values) /\ name \in DOMAIN values
    BY <1>7, <2>2
  <2>4. values[name] \in Int
    BY <2>3 DEF Numeric
  <2>5. p[j].values = values
    BY <2>1, <2>3, Zenon
  <2> QED
    BY <2>4, <2>5, Zenon
<1>13. PICK q : q = [j \in DOMAIN p |-> p[j].values[name]] /\ q \in [1 .. m -> Int]
  <2>1. [j \in DOMAIN p |-> p[j].values[name]] \in [1 .. m -> Int]
    BY <1>11, <1>12
  <2> QED
    BY <2>1
<1>14. ValuesOf(res, name) = q
  <2>1. Bearing(res, name) = p
    BY <1>10, Zenon DEF Bearing
  <2> QED
    BY <1>13, <2>1, Zenon DEF ValuesOf
<1>15. q \in Seq(Int)
  BY <1>11, <1>13, SeqOfFunction
<1> QED
  BY <1>1, <1>14, <1>15

(* The durations of the executions of a target are integers.               *)
LEMMA DurationsType ==
  ASSUME Complete, NEW target
  PROVE  Durations(target) \in Seq(Int)
<1>1. PICK S, rows : S = ToSet(run.results) /\ rows = OfTarget(target) /\ rows \in Seq(S)
  BY RowsIs
<1>2. PICK I, known : /\ I = {i \in DOMAIN rows : rows[i].t.outcome \notin {"none", "unknown"}}
                      /\ known = Picked(rows, I) /\ I \in SUBSET DOMAIN rows
  OBVIOUS
<1>3. known \in Seq(S)
  BY <1>1, <1>2, PickedIs
<1>4. PICK J, timed : /\ J = {i \in DOMAIN known : known[i].t.duration # None}
                      /\ timed = Picked(known, J) /\ J \in SUBSET DOMAIN known
  OBVIOUS
<1>5. timed \in Seq(S)
  BY <1>3, <1>4, PickedIs
<1>6. PICK n : n \in Nat /\ DOMAIN timed = 1 .. n /\ \A i \in 1 .. n : timed[i] \in S
  BY <1>5, SeqFacts
<1>7. \A r \in S : r.t.duration \in Int
  BY <1>1, ResultIsRow, LoadableIsSound
<1>8. PICK q : q = [i \in DOMAIN timed |-> timed[i].t.duration] /\ q \in [1 .. n -> Int]
  <2>1. \A i \in 1 .. n : timed[i].t.duration \in Int
    BY <1>6, <1>7
  <2>2. [i \in DOMAIN timed |-> timed[i].t.duration] \in [1 .. n -> Int]
    BY <1>6, <2>1
  <2> QED
    BY <2>2
<1>9. Durations(target) = q
  <2>1. Known(rows) = known
    BY <1>2, Zenon DEF Known
  <2>2. Timely(known) = timed
    BY <1>4, Zenon DEF Timely
  <2> QED
    BY <1>1, <1>8, <2>1, <2>2, Zenon DEF Durations
<1> QED
  BY <1>6, <1>8, <1>9, SeqOfFunction

(* The percentiles of a distribution are in order.                         *)
LEMMA SpreadInOrder ==
  ASSUME NEW name, NEW of, NEW values \in Seq(Int),
         NEW aggs, NEW m \in DistributionMetrics(name, of, values, aggs),
         NEW n \in DistributionMetrics(name, of, values, aggs),
         m.agg = "p50", n.agg = "p95"
  PROVE  m.value[1] <= n.value[1]
<1>1. values # <<>> /\ m.value[1] = Percentile(values, 50) /\ n.value[1] = Percentile(values, 95)
  BY SpreadIs
<1> QED
  BY <1>1, PercentilesInOrder

LEMMA PercentilesRise ==
  ASSUME Complete, NEW m \in AggregateMetrics, NEW n \in AggregateMetrics,
         "agg" \in DOMAIN m, "agg" \in DOMAIN n, m.name = n.name, m.of = n.of,
         m.agg = "p50", n.agg = "p95"
  PROVE  m.value[1] <= n.value[1]
<1>1. IsDuration(m) \/ IsValue(m)
  BY MetricsAre, MetricNames
<1>2. IsDuration(n) \/ IsValue(n)
  BY MetricsAre, MetricNames
<1>3. CASE IsDuration(m)
  <2>1. IsDuration(n)
    BY <1>2, <1>3, MetricNames
  <2> DEFINE aggs == Aggregations("execution.duration_ms")
  <2>2. PICK s \in Targets : m \in DistributionMetrics("execution.duration_ms", s, Durations(s), aggs)
    BY <1>3 DEF IsDuration
  <2>3. PICK t \in Targets : n \in DistributionMetrics("execution.duration_ms", t, Durations(t), aggs)
    BY <2>1 DEF IsDuration
  <2> HIDE DEF aggs
  <2>4. m.of = s /\ n.of = t
    BY <2>2, <2>3, SpreadIs
  <2>5. PICK values : /\ values = Durations(s) /\ values \in Seq(Int)
                      /\ m \in DistributionMetrics("execution.duration_ms", s, values, aggs)
                      /\ n \in DistributionMetrics("execution.duration_ms", s, values, aggs)
    BY <2>2, <2>3, <2>4, DurationsType
  <2> QED
    BY <2>5, SpreadInOrder
<1>4. CASE IsValue(m)
  <2>1. IsValue(n)
    BY <1>2, <1>4, MetricNames
  <2>2. PICK s \in Targets, j \in DOMAIN Plugins["measurements"] :
          \E name \in SpecOf(Plugins["measurements"][j]) \ RatioNames : m \in ValueMetrics(s, j, name)
    BY <1>4 DEF IsValue
  <2>3. PICK a \in SpecOf(Plugins["measurements"][j]) \ RatioNames : m \in ValueMetrics(s, j, a)
    BY <2>2
  <2>4. PICK t \in Targets, k \in DOMAIN Plugins["measurements"] :
          \E name \in SpecOf(Plugins["measurements"][k]) \ RatioNames : n \in ValueMetrics(t, k, name)
    BY <2>1 DEF IsValue
  <2>5. PICK b \in SpecOf(Plugins["measurements"][k]) \ RatioNames : n \in ValueMetrics(t, k, b)
    BY <2>4
  <2>6. PICK u, v, of, og : /\ u = ValuesOf(ResultsOf(s, "measurements", j), a)
                    /\ v = ValuesOf(ResultsOf(t, "measurements", k), b)
                    /\ of = <<s, Plugins["measurements"][j], a>>
                    /\ og = <<t, Plugins["measurements"][k], b>>
    OBVIOUS
  <2>7. m \in DistributionMetrics("measurement.value", of, u, Aggregations(a))
    BY <2>3, <2>6 DEF ValueMetrics
  <2>8. n \in DistributionMetrics("measurement.value", og, v, Aggregations(b))
    BY <2>5, <2>6 DEF ValueMetrics
  <2>9. of = og
    BY <2>7, <2>8, SpreadIs
  <2>10. s = t /\ Plugins["measurements"][j] = Plugins["measurements"][k] /\ a = b
    <3>1. <<s, Plugins["measurements"][j], a>> = <<t, Plugins["measurements"][k], b>>
      BY <2>6, <2>9
    <3> QED
      BY <3>1
  <2>11. j = k
    <3>1. "measurements" \in Kinds
      BY DEF Kinds
    <3> QED
      BY <2>10, <3>1, PluginsOnce
  <2>12. u = v
    BY <2>6, <2>10, <2>11
  <2>13. u \in Seq(Int)
    BY <2>3, <2>6, ValuesType
  <2>14. n \in DistributionMetrics("measurement.value", of, u, Aggregations(a))
    BY <2>8, <2>9, <2>10, <2>12
  <2> QED
    BY <2>7, <2>13, <2>14, SpreadInOrder
<1> QED
  BY <1>1, <1>3, <1>4

-----------------------------------------------------------------------------
(* Metrics that add up to the trajectories of a dataset.                   *)
SumsUp(M, D) ==
  /\ MapThenSumSet(LAMBDA m : m.value[1], {x \in M : x.name = "trajectory"}) = Len(D.trajs)
  /\ MapThenSumSet(LAMBDA m : m.value[1], {x \in M : x.name = "failure.count"})
       = Total([i \in DOMAIN D.read |-> Failures(D.read[i])])
RatesFit(M) == \A m \in M : m.name \in RateMetrics => 0 <= m.value[1] /\ m.value[1] <= m.value[2]
HealthAndSpread(M) ==
  \A m, n \in M :
    /\ m.name = "applicability" /\ n.name = "error" /\ m.of = n.of => m.value[1] + n.value[1] <= n.value[2]
    /\ "agg" \in DOMAIN m /\ "agg" \in DOMAIN n /\ m.name = n.name /\ m.of = n.of
         => (m.agg = "p50" /\ n.agg = "p95" => m.value[1] <= n.value[1])

LEMMA SumsHold ==
  ASSUME Complete, FailuresRead, dataset.read \in Seq(Readable)
  PROVE  SumsUp(AggregateMetrics, dataset)
<1>1. MapThenSumSet(LAMBDA m : m.value[1], {m \in AggregateMetrics : m.name = "trajectory"}) = Len(dataset.trajs)
  BY TrajectoriesAddUp
<1>2. MapThenSumSet(LAMBDA m : m.value[1], {m \in AggregateMetrics : m.name = "failure.count"})
        = Total(Through(Held, dataset.trajs))
  BY FailuresAddUp
<1>3. Total(Through(Held, dataset.trajs)) = Total([i \in DOMAIN dataset.read |-> Failures(dataset.read[i])])
  BY ToldTotal DEF FailuresRead
<1> QED
  BY <1>1, <1>2, <1>3, Zenon DEF SumsUp

LEMMA RatesHold == ASSUME Complete PROVE RatesFit(AggregateMetrics)
<1> SUFFICES ASSUME NEW m \in AggregateMetrics, m.name \in RateMetrics
             PROVE  0 <= m.value[1] /\ m.value[1] <= m.value[2]
  BY DEF RatesFit
<1>1. IsRate(m)
  BY MetricsAre, MetricNames DEF RateMetrics
<1> QED
  BY <1>1 DEF IsRate

LEMMA HealthHolds ==
  ASSUME Complete, NEW m \in AggregateMetrics, NEW n \in AggregateMetrics,
         m.name = "applicability", n.name = "error", m.of = n.of
  PROVE  m.value[1] + n.value[1] <= n.value[2]
<1>1. IsHealth(m) /\ IsHealth(n)
  BY MetricsAre, MetricNames DEF RateMetrics
<1>2. PICK s \in Targets, kind \in Kinds : \E j \in DOMAIN Plugins[kind] : m \in HealthOf(s, kind, j)
  BY <1>1 DEF IsHealth
<1>3. PICK j \in DOMAIN Plugins[kind] : m \in HealthOf(s, kind, j)
  BY <1>2
<1>4. PICK t \in Targets, kynd \in Kinds : \E k \in DOMAIN Plugins[kynd] : n \in HealthOf(t, kynd, k)
  BY <1>1 DEF IsHealth
<1>5. PICK k \in DOMAIN Plugins[kynd] : n \in HealthOf(t, kynd, k)
  BY <1>4
<1> QED
  BY <1>3, <1>5, HealthFits

LEMMA HealthAndSpreadHold == ASSUME Complete PROVE HealthAndSpread(AggregateMetrics)
<1> SUFFICES ASSUME NEW m \in AggregateMetrics, NEW n \in AggregateMetrics
             PROVE  /\ m.name = "applicability" /\ n.name = "error" /\ m.of = n.of
                         => m.value[1] + n.value[1] <= n.value[2]
                    /\ "agg" \in DOMAIN m /\ "agg" \in DOMAIN n /\ m.name = n.name /\ m.of = n.of
                         => (m.agg = "p50" /\ n.agg = "p95" => m.value[1] <= n.value[1])
  BY DEF HealthAndSpread
<1>1. ASSUME m.name = "applicability", n.name = "error", m.of = n.of
      PROVE  m.value[1] + n.value[1] <= n.value[2]
  BY <1>1, HealthHolds
<1>2. ASSUME "agg" \in DOMAIN m, "agg" \in DOMAIN n, m.name = n.name, m.of = n.of,
             m.agg = "p50", n.agg = "p95"
      PROVE  m.value[1] <= n.value[1]
  BY <1>2, PercentilesRise
<1> QED
  BY <1>1, <1>2

(* The property, as one of the metrics and the dataset.                    *)
AddsUp(M, D) == SumsUp(M, D) /\ RatesFit(M) /\ HealthAndSpread(M)

LEMMA RatesAsValues ==
  ASSUME NEW M, RatesFit(M)
  PROVE  \A name \in {"execution.completion", "execution.timeout", "execution.failure",
                         "failure.rate", "finding.rate", "verification.pass"} :
             \A v \in {m.value : m \in {x \in M : x.name = name}} : 0 <= v[1] /\ v[1] <= v[2]
  BY DEF RatesFit, RateMetrics

LEMMA AddsUpMeans == ASSUME phase = "write_dataset" => AddsUp(metrics, dataset) PROVE MetricsAddUp
<1> SUFFICES ASSUME phase = "write_dataset" PROVE MetricsAddUp
  BY DEF MetricsAddUp
<1>1. SumsUp(metrics, dataset) /\ RatesFit(metrics) /\ HealthAndSpread(metrics)
  BY DEF AddsUp
<1>2. /\ SumOf("trajectory") = Len(dataset.trajs)
      /\ SumOf("failure.count") = Total([i \in DOMAIN dataset.read |-> Failures(dataset.read[i])])
  BY <1>1, Zenon DEF SumsUp, SumOf
<1>3. \A name \in {"execution.completion", "execution.timeout", "execution.failure",
                         "failure.rate", "finding.rate", "verification.pass"} :
             \A v \in Value(name) : 0 <= v[1] /\ v[1] <= v[2]
  BY <1>1, RatesAsValues, Zenon DEF Value
<1> QED
  BY <1>1, <1>2, <1>3, Zenon DEF MetricsAddUp, HealthAndSpread

MetricsInv == RunInv /\ FailuresRead /\ (phase = "write_dataset" => AddsUp(metrics, dataset))

LEMMA MetricsInvInit == Init => MetricsInv
BY RunInvInit, FailuresReadInit DEF MetricsInv, Init

LEMMA MetricsInvStep == MetricsInv /\ [Next]_vars => MetricsInv'
<1> SUFFICES ASSUME RunInv, FailuresRead, phase = "write_dataset" => AddsUp(metrics, dataset), [Next]_vars
             PROVE  MetricsInv'
  BY DEF MetricsInv
<1>1. RunInv' /\ FailuresRead'
  BY RunInvStep, FailuresReadStep
<1>2. CASE Aggregate
  <2>1. /\ phase = "analyze" /\ next > Len(dataset.trajs) /\ dataset' = dataset
        /\ metrics' = AggregateMetrics
    BY <1>2 DEF Aggregate
  <2>2. Complete
    BY <2>1, ReadyComplete
  <2>3. dataset.read \in Seq(Readable)
    BY Fields DEF RunInv
  <2>4. PICK M : M = AggregateMetrics /\ AddsUp(M, dataset)
    BY <2>2, <2>3, SumsHold, RatesHold, HealthAndSpreadHold DEF AddsUp
  <2>5. AddsUp(metrics', dataset')
    BY <2>1, <2>4
  <2> QED
    BY <1>1, <2>5 DEF MetricsInv
<1>3. CASE UNCHANGED <<phase, metrics, dataset>>
  BY <1>1, <1>3 DEF MetricsInv
<1>4. CASE phase' # "write_dataset"
  BY <1>1, <1>4 DEF MetricsInv
<1>5. \/ Aggregate \/ UNCHANGED <<phase, metrics, dataset>> \/ phase' # "write_dataset"
  <2>1. CASE FetchFails \/ LoadFails \/ LoadWorks
    <3>1. phase' = "build"
      BY <2>1 DEF FetchFails, LoadFails, LoadWorks, BuildStep
    <3> QED
      BY <3>1
  <2>2. CASE Analyze
    BY <2>2 DEF Analyze
  <2>3. CASE UNCHANGED vars \/ Finished
    BY <2>3 DEF Finished, vars
  <2>4. CASE Assemble
    BY <2>4 DEF Assemble
  <2>5. CASE WriteDataset \/ WriteRun \/ WriteVerdict \/ Rerun
    BY <2>5 DEF WriteDataset, WriteRun, WriteVerdict, Rerun
  <2> QED
    BY <2>1, <2>2, <2>3, <2>4, <2>5 DEF Next
<1> QED
  BY <1>2, <1>3, <1>4, <1>5

(* The metrics that AggregateMetrics makes of a run account for all that   *)
(* was read: each trajectory is counted under one target, and each failure *)
(* that a recording tells of in one failure count, through the loader and  *)
(* the analysis; every rate is within 0 and 1; no plugin is both           *)
(* applicable to and in error on one trajectory; of the same values the    *)
(* 50th percentile is not above the 95th.                                  *)
THEOREM TrajectoryMetricsAddUp == Spec => []MetricsAddUp
<1>1. MetricsInv => MetricsAddUp
  BY AddsUpMeans DEF MetricsInv
<1> QED
  BY <1>1, MetricsInvInit, MetricsInvStep, PTL DEF Spec
=============================================================================
