------------------------- MODULE TrajectoryRunProofs -------------------------
(***************************************************************************)
(* What trajectory_harness leaves in a run directory is sound, what its    *)
(* analyses say of a trajectory agrees and what they measure of it is      *)
(* exact, for any number of recordings, whatever they hold, whichever      *)
(* plugins raise, and however often the process dies and the run is run    *)
(* again.                                                                  *)
(*                                                                         *)
(* The first parts are about the operators: sequences picked and ordered   *)
(* by rank, the loader, the tool calls of a trajectory, retries, repeats   *)
(* and refetches, and the results of the plugins; then sums, the values of *)
(* each measurer, the sweep that finds the most calls at once, and the     *)
(* changes over compact steps.  The last part is about the run.  RunInv is *)
(* the inductive invariant: in each phase it says how much of the dataset  *)
(* has been read or recorded as an issue (Counted), which trajectories the *)
(* run has analyzed (AnalyzedSoFar) and with what results (Analyses), and  *)
(* which of the two files are of this run (Written).  DetectorsAgree,      *)
(* MeasurementsAreExact and PublishedRunIsSound are about one phase each   *)
(* and are not inductive by themselves.                                    *)
(***************************************************************************)
EXTENDS TrajectoryRun, FiniteSetTheorems, SequenceTheorems, WellFoundedInduction, TLAPS

-----------------------------------------------------------------------------
(* Putting a finite set in order: the k-th element is the one that has     *)
(* k - 1 others below it.                                                  *)
Below(S, R, x) == {y \in S : <<y, x>> \in R}
Rank(S, R) == [x \in S |-> Cardinality(Below(S, R, x))]
Arranged(S, rank) == [k \in 1 .. Cardinality(S) |-> CHOOSE x \in S : rank[x] = k - 1]
StrictOrder(S, R) ==
  /\ \A x \in S : <<x, x>> \notin R
  /\ \A x, y \in S : x # y => <<x, y>> \in R \/ <<y, x>> \in R
  /\ \A x, y, z \in S : <<x, y>> \in R /\ <<y, z>> \in R => <<x, z>> \in R

LEMMA BelowCount ==
  ASSUME NEW S, IsFiniteSet(S), NEW R, StrictOrder(S, R), NEW x \in S
  PROVE  /\ IsFiniteSet(Below(S, R, x)) /\ Cardinality(S) \in Nat
         /\ Cardinality(Below(S, R, x)) \in 0 .. Cardinality(S) - 1
<1>1. Below(S, R, x) \in SUBSET (S \ {x})
  BY DEF Below, StrictOrder
<1>2. IsFiniteSet(S \ {x}) /\ Cardinality(S \ {x}) = Cardinality(S) - 1 /\ Cardinality(S) \in Nat
  BY FS_RemoveElement, FS_CardinalityType
<1>3. /\ IsFiniteSet(Below(S, R, x))
      /\ Cardinality(Below(S, R, x)) <= Cardinality(S \ {x})
      /\ Cardinality(Below(S, R, x)) \in Nat
  BY <1>1, <1>2, FS_Subset, FS_CardinalityType
<1> QED
  BY <1>2, <1>3

LEMMA BelowRises ==
  ASSUME NEW S, IsFiniteSet(S), NEW R, StrictOrder(S, R), NEW x \in S, NEW y \in S,
         <<x, y>> \in R
  PROVE  Cardinality(Below(S, R, x)) < Cardinality(Below(S, R, y))
<1> DEFINE A == Below(S, R, x)
           B == Below(S, R, y)
<1>1. x \notin A /\ A \cup {x} \in SUBSET B
  BY DEF Below, StrictOrder
<1>2. IsFiniteSet(A) /\ IsFiniteSet(B) /\ Cardinality(A) \in Nat /\ Cardinality(B) \in Nat
  BY BelowCount, FS_CardinalityType
<1>3. Cardinality(A \cup {x}) = Cardinality(A) + 1 /\ Cardinality(A \cup {x}) <= Cardinality(B)
  BY <1>1, <1>2, FS_AddElement, FS_Subset
<1> QED
  BY <1>2, <1>3

(* Every element has a place, and the places are in order.                 *)
LEMMA ArrangedIs ==
  ASSUME NEW S, IsFiniteSet(S), NEW R, StrictOrder(S, R)
  PROVE  /\ Arranged(S, Rank(S, R)) \in [1 .. Cardinality(S) -> S] /\ Cardinality(S) \in Nat
         /\ \A x \in S : \E k \in 1 .. Cardinality(S) : Arranged(S, Rank(S, R))[k] = x
         /\ \A j, k \in 1 .. Cardinality(S) :
              j < k <=> <<Arranged(S, Rank(S, R))[j], Arranged(S, Rank(S, R))[k]>> \in R
<1> DEFINE n == Cardinality(S)
           rank == Rank(S, R)
           f == Arranged(S, Rank(S, R))
<1>1. n \in Nat /\ IsFiniteSet(0 .. n - 1) /\ Cardinality(0 .. n - 1) = n
  <2>1. n \in Nat
    BY FS_CardinalityType
  <2> HIDE DEF n
  <2> QED
    BY <2>1, FS_Interval
<1>2. \A x \in S : rank[x] \in 0 .. n - 1
  BY BelowCount DEF Rank
<1>3. \A x, y \in S : <<x, y>> \in R => rank[x] < rank[y]
  BY BelowRises DEF Rank
<1>4. \A x, y \in S : rank[x] = rank[y] => x = y
  <2> SUFFICES ASSUME NEW x \in S, NEW y \in S, rank[x] = rank[y], x # y PROVE FALSE
    OBVIOUS
  <2>1. <<x, y>> \in R \/ <<y, x>> \in R
    BY DEF StrictOrder
  <2>2. rank[x] < rank[y] \/ rank[y] < rank[x]
    BY <1>3, <2>1
  <2>3. rank[x] \in Nat
    BY <1>1, <1>2
  <2> HIDE DEF rank
  <2> QED
    BY <2>2, <2>3
<1>5. rank \in Injection(S, 0 .. n - 1)
  BY <1>2, <1>4 DEF Injection, IsInjective, Rank
<1>6. rank \in Surjection(S, 0 .. n - 1)
  <2>1. PICK T : T = 0 .. n - 1
    OBVIOUS
  <2>2. rank \in Injection(S, T) /\ IsFiniteSet(T) /\ Cardinality(S) = Cardinality(T)
    BY <1>1, <1>5, <2>1
  <2> HIDE DEF rank, n
  <2>3. rank \in Surjection(S, T)
    BY <2>2, FS_Injection
  <2> QED
    BY <2>1, <2>3
<1>7. \A r \in 0 .. n - 1 : \E x \in S : rank[x] = r
  <2> HIDE DEF rank, n
  <2> QED
    BY <1>6 DEF Surjection
<1>8. ASSUME NEW k \in 1 .. n PROVE f[k] \in S /\ rank[f[k]] = k - 1
  <2>1. PICK x \in S : rank[x] = k - 1
    BY <1>1, <1>7
  <2>2. f[k] = CHOOSE y \in S : rank[y] = k - 1
    BY DEF Arranged
  <2> HIDE DEF rank, f
  <2> QED
    BY <2>1, <2>2
<1>9. f \in [1 .. n -> S]
  <2>1. \A k \in 1 .. n : f[k] \in S
    BY <1>8
  <2> QED
    BY <2>1 DEF Arranged
<1>10. ASSUME NEW x \in S PROVE \E k \in 1 .. n : f[k] = x
  <2>1. rank[x] \in 0 .. n - 1
    BY <1>2
  <2> HIDE DEF rank, f, n
  <2>2. rank[x] + 1 \in 1 .. n /\ (rank[x] + 1) - 1 = rank[x]
    BY <1>1, <2>1
  <2>3. f[rank[x] + 1] \in S /\ rank[f[rank[x] + 1]] = (rank[x] + 1) - 1
    BY <1>8, <2>2
  <2>4. f[rank[x] + 1] = x
    BY <1>4, <2>2, <2>3
  <2> QED
    BY <2>2, <2>4
<1>11. ASSUME NEW j \in 1 .. n, NEW k \in 1 .. n
       PROVE  j < k <=> <<f[j], f[k]>> \in R
  <2> HIDE DEF rank, f, n
  <2>1. f[j] \in S /\ rank[f[j]] = j - 1 /\ f[k] \in S /\ rank[f[k]] = k - 1
    BY <1>8
  <2>2. j \in Nat /\ k \in Nat
    OBVIOUS
  <2>3. <<f[j], f[k]>> \in R => j < k
    BY <1>3, <2>1, <2>2
  <2>4. j < k => f[j] # f[k] /\ ~(rank[f[k]] < rank[f[j]])
    BY <2>1, <2>2
  <2>5. j < k => <<f[j], f[k]>> \in R
    BY <1>3, <2>1, <2>4 DEF StrictOrder
  <2> QED
    BY <2>3, <2>5
<1> QED
  BY <1>1, <1>9, <1>10, <1>11

-----------------------------------------------------------------------------
(* The elements of a sequence at a set of its places.                      *)
Ranked(I) == Arranged(I, [x \in I |-> Cardinality({y \in I : y < x})])
Picked(seq, I) == [k \in DOMAIN Ranked(I) |-> seq[Ranked(I)[k]]]

LEMMA RankedIs ==
  ASSUME NEW n \in Nat, NEW I \in SUBSET (1 .. n)
  PROVE  /\ IsFiniteSet(I) /\ Cardinality(I) \in Nat
         /\ Ranked(I) \in [1 .. Cardinality(I) -> I]
         /\ \A i \in I : \E k \in 1 .. Cardinality(I) : Ranked(I)[k] = i
         /\ \A j, k \in 1 .. Cardinality(I) : j < k <=> Ranked(I)[j] < Ranked(I)[k]
<1> DEFINE R == {p \in I \X I : p[1] < p[2]}
<1>0. \A i \in I : i \in Nat
  OBVIOUS
<1>1. IsFiniteSet(I)
  <2>1. IsFiniteSet(1 .. n)
    BY FS_Interval
  <2> QED
    BY <2>1, FS_Subset
<1>2. StrictOrder(I, R)
  BY <1>0 DEF StrictOrder
<1>3. \A x \in I : Below(I, R, x) = {y \in I : y < x}
  BY DEF Below
<1>4. Ranked(I) = Arranged(I, Rank(I, R))
  <2>1. [x \in I |-> Cardinality({y \in I : y < x})] = Rank(I, R)
    BY <1>3 DEF Rank
  <2> QED
    BY <2>1 DEF Ranked
<1>5. \A i, j \in I : <<i, j>> \in R <=> i < j
  OBVIOUS
<1> HIDE DEF R
<1>6. /\ Arranged(I, Rank(I, R)) \in [1 .. Cardinality(I) -> I] /\ Cardinality(I) \in Nat
      /\ \A x \in I : \E k \in 1 .. Cardinality(I) : Arranged(I, Rank(I, R))[k] = x
      /\ \A j, k \in 1 .. Cardinality(I) :
           j < k <=> <<Arranged(I, Rank(I, R))[j], Arranged(I, Rank(I, R))[k]>> \in R
  BY <1>1, <1>2, ArrangedIs
<1> QED
  BY <1>1, <1>4, <1>5, <1>6

LEMMA PickedIs ==
  ASSUME NEW T, NEW seq \in Seq(T), NEW I \in SUBSET DOMAIN seq
  PROVE  /\ IsFiniteSet(I) /\ Cardinality(I) \in Nat
         /\ Picked(seq, I) \in Seq(T)
         /\ Len(Picked(seq, I)) = Cardinality(I)
         /\ DOMAIN Picked(seq, I) = 1 .. Cardinality(I)
         /\ \A k \in 1 .. Cardinality(I) :
              Ranked(I)[k] \in I /\ Picked(seq, I)[k] = seq[Ranked(I)[k]]
         /\ \A i \in I : \E k \in 1 .. Cardinality(I) : Ranked(I)[k] = i
         /\ \A j, k \in 1 .. Cardinality(I) : j < k <=> Ranked(I)[j] < Ranked(I)[k]
         /\ Picked(seq, I) = <<>> <=> I = {}
<1> DEFINE m == Cardinality(I)
           f == Ranked(I)
<1>1. Len(seq) \in Nat /\ I \in SUBSET (1 .. Len(seq)) /\ \A i \in I : seq[i] \in T
  BY LenProperties, ElementOfSeq
<1>2. /\ IsFiniteSet(I) /\ m \in Nat /\ f \in [1 .. m -> I]
      /\ \A i \in I : \E k \in 1 .. m : f[k] = i
      /\ \A j, k \in 1 .. m : j < k <=> f[j] < f[k]
  BY <1>1, RankedIs
<1>3. m = 0 <=> I = {}
  BY <1>2, FS_EmptySet
<1> HIDE DEF m, f
<1>4. Picked(seq, I) = [k \in 1 .. m |-> seq[f[k]]]
  BY <1>2 DEF Picked, f
<1>5. \A k \in 1 .. m : f[k] \in I
  BY <1>2
<1>6. Picked(seq, I) \in [1 .. m -> T]
  BY <1>1, <1>4, <1>5
<1>7. Picked(seq, I) \in Seq(T) /\ Len(Picked(seq, I)) = m
  BY <1>2, <1>6, SeqDef
<1>8. Picked(seq, I) = <<>> <=> m = 0
  BY <1>7, EmptySeq
<1> QED
  BY <1>2, <1>3, <1>4, <1>5, <1>6, <1>7, <1>8 DEF m, f

-----------------------------------------------------------------------------
(* Least and greatest elements, and induction over an interval, for a set. *)
LEMMA LeastElement ==
  ASSUME NEW T \in SUBSET Nat, T # {}
  PROVE  \E n \in T : \A m \in T : n <= m
<1> DEFINE R == {ss \in Nat \X Nat : ss[1] < ss[2]}
<1>1. IsWellFoundedOn(R, Nat)
  BY NatLessThanWellFounded DEF OpToRel
<1> HIDE DEF R
<1>2. PICK x \in T : \A y \in T : ~ (<<y, x>> \in R)
  BY <1>1, WFMin
<1>3. \A y \in T : ~ (y < x)
  BY <1>2 DEF R
<1> QED
  BY <1>3

LEMMA IntervalInduction ==
  ASSUME NEW n \in Nat, NEW T, 0 \in T, \A i \in 0 .. n - 1 : i \in T => i + 1 \in T
  PROVE  \A i \in 0 .. n : i \in T
<1> DEFINE Out == {i \in 0 .. n : i \notin T}
<1>1. SUFFICES ASSUME Out # {} PROVE FALSE
  OBVIOUS
<1>2. PICK m \in Out : \A i \in Out : m <= i
  <2>1. Out \in SUBSET Nat
    OBVIOUS
  <2> HIDE DEF Out
  <2> QED
    BY <1>1, <2>1, LeastElement
<1>3. m \in Nat /\ m <= n /\ m # 0 /\ m \notin T
  OBVIOUS
<1>4. m - 1 \in 0 .. n - 1 /\ m - 1 \in 0 .. n
  BY <1>3
<1>5. m - 1 \in T
  BY <1>2, <1>3, <1>4
<1>6. (m - 1) + 1 \in T
  BY <1>4, <1>5
<1> QED
  BY <1>3, <1>6

LEMMA MinIs ==
  ASSUME NEW T \in SUBSET Nat, T # {}
  PROVE  Min(T) \in T /\ \A x \in T : Min(T) <= x
<1>1. \E n \in T : \A m \in T : n <= m
  BY LeastElement
<1> QED
  BY <1>1 DEF Min

(* A finite set of integers has a greatest element.                        *)
LEMMA MaxIs ==
  ASSUME NEW T \in SUBSET Int, IsFiniteSet(T), T # {}
  PROVE  Max(T) \in T /\ \A x \in T : x <= Max(T)
<1> DEFINE R == {p \in T \X T : p[1] < p[2]}
           n == Cardinality(T)
           f == Arranged(T, Rank(T, R))
<1>1. StrictOrder(T, R)
  <2>1. \A i \in T : i \in Int
    OBVIOUS
  <2> QED
    BY <2>1 DEF StrictOrder
<1>2. \A i, j \in T : <<i, j>> \in R <=> i < j
  OBVIOUS
<1> HIDE DEF R
<1>3. /\ f \in [1 .. n -> T] /\ n \in Nat
      /\ \A x \in T : \E k \in 1 .. n : f[k] = x
      /\ \A j, k \in 1 .. n : j < k <=> <<f[j], f[k]>> \in R
  BY <1>1, ArrangedIs
<1>4. n # 0
  BY FS_EmptySet
<1> HIDE DEF f, n
<1>5. n \in 1 .. n /\ f[n] \in T
  BY <1>3, <1>4
<1>6. \A x \in T : f[n] >= x
  <2> SUFFICES ASSUME NEW x \in T PROVE f[n] >= x
    OBVIOUS
  <2>1. PICK k \in 1 .. n : f[k] = x
    BY <1>3
  <2>2. ~(n < k)
    BY <1>3
  <2>3. ~(f[n] < f[k])
    BY <1>2, <1>3, <1>5, <2>1, <2>2
  <2>4. f[n] \in Int /\ x \in Int
    BY <1>5
  <2> QED
    BY <2>1, <2>3, <2>4
<1>7. \E m \in T : \A x \in T : m >= x
  BY <1>5, <1>6
<1>8. Max(T) \in T /\ \A x \in T : Max(T) >= x
  BY <1>7 DEF Max
<1>9. \A x \in T : x \in Int
  OBVIOUS
<1> QED
  BY <1>8, <1>9

-----------------------------------------------------------------------------
(* Sequences one after the other.                                          *)
LEMMA FlatChain ==
  ASSUME NEW T, NEW seqs \in Seq(Seq(T))
  PROVE  \E h \in [0 .. Len(seqs) -> Seq(T)] :
            /\ h[0] = <<>> /\ h[Len(seqs)] = FlattenSeq(seqs)
            /\ \A i \in 1 .. Len(seqs) : h[i] = h[i - 1] \o seqs[i]
<1> DEFINE n == Len(seqs)
           Body(f) == [i \in 1 .. n |-> IF i = 1 THEN seqs[i] ELSE f[i - 1] \o seqs[i]]
           it == CHOOSE f : f = Body(f)
           Begun(m) == \E g \in [0 .. m -> Seq(T)] :
                         g[0] = <<>> /\ \A i \in 1 .. m : g[i] = g[i - 1] \o seqs[i]
           B == {m \in 0 .. n : Begun(m)}
<1>1. n \in Nat /\ \A i \in 1 .. n : seqs[i] \in Seq(T)
  BY LenProperties, ElementOfSeq
<1>2. \A s, t \in Seq(T) : s \o t \in Seq(T)
  BY ConcatProperties
<1>3. \A s \in Seq(T) : <<>> \o s = s /\ <<>> \in Seq(T)
  BY ConcatEmptySeq, EmptySeq
<1>4. 0 \in B
  <2> DEFINE e == [i \in 0 .. 0 |-> <<>>]
  <2>1. e \in [0 .. 0 -> Seq(T)]
    BY EmptySeq
  <2>2. 0 \in 0 .. n
    BY <1>1
  <2>3. e[0] = <<>> /\ 1 .. 0 = {}
    OBVIOUS
  <2>4. Begun(0)
    <3> HIDE DEF e
    <3> QED
      BY <2>1, <2>3
  <2> HIDE DEF Begun
  <2> QED
    BY <2>2, <2>4
<1>5. ASSUME NEW m \in 0 .. n - 1, m \in B PROVE m + 1 \in B
  <2>1. PICK g \in [0 .. m -> Seq(T)] : g[0] = <<>> /\ \A i \in 1 .. m : g[i] = g[i - 1] \o seqs[i]
    BY <1>5
  <2>2. m \in Nat /\ m + 1 \in 0 .. n /\ m + 1 \in 1 .. n /\ m \in 0 .. m
    BY <1>1
  <2> DEFINE e == [i \in 0 .. m + 1 |-> IF i = m + 1 THEN g[m] \o seqs[m + 1] ELSE g[i]]
  <2> HIDE DEF n
  <2>3. e \in [0 .. m + 1 -> Seq(T)]
    <3>1. g[m] \o seqs[m + 1] \in Seq(T)
      BY <1>1, <1>2, <2>2
    <3>2. \A i \in 0 .. m + 1 : i # m + 1 => g[i] \in Seq(T)
      BY <2>2
    <3> QED
      BY <3>1, <3>2
  <2>4. e[0] = <<>>
    BY <2>1, <2>2, SMTT(30)
  <2>5. ASSUME NEW i \in 1 .. m + 1 PROVE e[i] = e[i - 1] \o seqs[i]
    <3>1. i \in 0 .. m + 1 /\ i - 1 \in 0 .. m /\ i - 1 \in 0 .. m + 1 /\ i - 1 # m + 1
      BY <2>2
    <3>2. e[i - 1] = g[i - 1]
      BY <3>1
    <3>3. CASE i = m + 1
      <4>1. i - 1 = m
        BY <2>2, <3>3
      <4> QED
        BY <3>1, <3>2, <3>3, <4>1
    <3>4. CASE i # m + 1
      <4>1. i \in 1 .. m
        BY <2>2, <3>4
      <4>2. e[i] = g[i]
        BY <3>1, <3>4
      <4> QED
        BY <2>1, <3>2, <4>1, <4>2
    <3> QED
      BY <3>3, <3>4
  <2> HIDE DEF e
  <2>6. Begun(m + 1)
    BY <2>3, <2>4, <2>5
  <2> HIDE DEF Begun
  <2> QED
    BY <2>2, <2>6
<1>6. PICK g \in [0 .. n -> Seq(T)] : g[0] = <<>> /\ \A i \in 1 .. n : g[i] = g[i - 1] \o seqs[i]
  <2> HIDE DEF B, n
  <2>1. n \in B
    <3>1. n \in 0 .. n
      BY <1>1
    <3> QED
      BY <1>1, <1>4, <1>5, <3>1, IntervalInduction
  <2> QED
    BY <2>1 DEF B
<1> DEFINE f == [i \in 1 .. n |-> g[i]]
<1>7. f = Body(f)
  <2> SUFFICES ASSUME NEW i \in 1 .. n
               PROVE  g[i] = IF i = 1 THEN seqs[i] ELSE f[i - 1] \o seqs[i]
    OBVIOUS
  <2> HIDE DEF n
  <2>1. CASE i = 1
    <3>1. g[i] = <<>> \o seqs[i]
      <4>1. g[i] = g[i - 1] \o seqs[i]
        BY <1>6
      <4>2. i - 1 = 0
        BY <2>1
      <4> QED
        BY <1>6, <4>1, <4>2
    <3> QED
      BY <1>1, <1>3, <2>1, <3>1
  <2>2. CASE i # 1
    <3>1. i - 1 \in 1 .. n
      BY <1>1, <2>2
    <3> QED
      BY <1>6, <2>2, <3>1
  <2> QED
    BY <2>1, <2>2
<1>8. it = Body(it)
  <2> HIDE DEF Body
  <2> QED
    BY <1>7
<1>9. n # 0 => FlattenSeq(seqs) = it[n]
  BY Zenon DEF FlattenSeq
<1>10. n = 0 => FlattenSeq(seqs) = <<>>
  BY EmptySeq DEF FlattenSeq
<1> DEFINE h == [i \in 0 .. n |-> IF i = 0 THEN <<>> ELSE it[i]]
           H == {i \in 0 .. n : h[i] = g[i]}
<1>11. ASSUME NEW i \in 1 .. n PROVE h[i] = h[i - 1] \o seqs[i]
  <2>1. it[i] = IF i = 1 THEN seqs[i] ELSE it[i - 1] \o seqs[i]
    BY <1>8
  <2> HIDE DEF it, n, Body
  <2>2. i \in 0 .. n /\ i - 1 \in 0 .. n /\ i # 0
    BY <1>1
  <2>3. CASE i = 1
    <3>1. h[i - 1] = <<>> /\ h[i] = seqs[i]
      BY <2>1, <2>2, <2>3
    <3> QED
      BY <1>1, <1>3, <3>1
  <2>4. CASE i # 1
    <3>1. i - 1 # 0
      BY <2>4
    <3>2. h[i - 1] = it[i - 1] /\ h[i] = it[i]
      BY <2>2, <3>1
    <3> QED
      BY <2>1, <2>4, <3>2
  <2> QED
    BY <2>3, <2>4
<1>12. \A i \in 0 .. n : i \in H
  <2> HIDE DEF it, n, Body
  <2>1. 0 \in H
    BY <1>1, <1>6
  <2>2. ASSUME NEW i \in 0 .. n - 1, i \in H PROVE i + 1 \in H
    <3>1. i + 1 \in 1 .. n /\ i + 1 \in 0 .. n /\ (i + 1) - 1 = i
      BY <1>1
    <3>2. h[i] = g[i]
      BY <2>2
    <3> HIDE DEF h
    <3>3. h[i + 1] = h[i] \o seqs[i + 1] /\ g[i + 1] = g[i] \o seqs[i + 1]
      BY <1>6, <1>11, <3>1
    <3> QED
      BY <3>1, <3>2, <3>3
  <2> HIDE DEF H
  <2> QED
    BY <1>1, <2>1, <2>2, IntervalInduction
<1>13. h \in [0 .. n -> Seq(T)]
  <2>1. \A i \in 0 .. n : h[i] = g[i]
    BY <1>12
  <2> HIDE DEF it
  <2>2. \A i \in 0 .. n : (IF i = 0 THEN <<>> ELSE it[i]) \in Seq(T)
    BY <2>1
  <2> QED
    BY <2>2
<1>14. h[0] = <<>> /\ h[n] = FlattenSeq(seqs)
  <2> HIDE DEF it, n
  <2>1. 0 \in 0 .. n /\ n \in 0 .. n
    BY <1>1
  <2> QED
    BY <1>9, <1>10, <2>1
<1> HIDE DEF h
<1> QED
  BY <1>11, <1>13, <1>14

LEMMA FlatType ==
  ASSUME NEW T, NEW seqs \in Seq(Seq(T))
  PROVE  FlattenSeq(seqs) \in Seq(T)
<1>1. PICK h \in [0 .. Len(seqs) -> Seq(T)] : h[Len(seqs)] = FlattenSeq(seqs)
  BY FlatChain
<1>2. Len(seqs) \in 0 .. Len(seqs)
  BY LenProperties
<1> QED
  BY <1>1, <1>2

(* There is something in it when each of them has something.               *)
LEMMA FlatNotEmpty ==
  ASSUME NEW T, NEW seqs \in Seq(Seq(T)), seqs # <<>>, \A i \in 1 .. Len(seqs) : seqs[i] # <<>>
  PROVE  FlattenSeq(seqs) # <<>>
<1>1. PICK h \in [0 .. Len(seqs) -> Seq(T)] :
        h[Len(seqs)] = FlattenSeq(seqs) /\ \A i \in 1 .. Len(seqs) : h[i] = h[i - 1] \o seqs[i]
  BY FlatChain
<1>2. Len(seqs) \in 1 .. Len(seqs) /\ Len(seqs) - 1 \in 0 .. Len(seqs)
  BY EmptySeq
<1>3. PICK n : n = Len(seqs)
  OBVIOUS
<1>4. h[n - 1] \in Seq(T) /\ seqs[n] \in Seq(T) /\ seqs[n] # <<>>
  BY <1>2, <1>3, ElementOfSeq
<1>5. h[n] = h[n - 1] \o seqs[n]
  BY <1>1, <1>2, <1>3
<1>6. h[n - 1] \o seqs[n] # <<>>
  BY <1>4, ConcatEqualIffEmpty
<1> QED
  BY <1>1, <1>3, <1>5, <1>6

(* In the order of a time, and among equal times in that of the places.    *)
Timed(D, at) ==
  Arranged(D, [x \in D |-> Cardinality({y \in D : at[y] < at[x] \/ (at[y] = at[x] /\ y < x)})])

LEMMA TimedIs ==
  ASSUME NEW D \in SUBSET Int, IsFiniteSet(D), NEW at \in [D -> Int]
  PROVE  /\ Timed(D, at) \in [1 .. Cardinality(D) -> D] /\ Cardinality(D) \in Nat
         /\ \A x \in D : \E k \in 1 .. Cardinality(D) : Timed(D, at)[k] = x
         /\ \A j, k \in 1 .. Cardinality(D) : j < k <=>
              \/ at[Timed(D, at)[j]] < at[Timed(D, at)[k]]
              \/ at[Timed(D, at)[j]] = at[Timed(D, at)[k]] /\ Timed(D, at)[j] < Timed(D, at)[k]
<1> DEFINE R == {p \in D \X D : at[p[1]] < at[p[2]] \/ (at[p[1]] = at[p[2]] /\ p[1] < p[2])}
<1>1. \A x, y \in D : <<x, y>> \in R <=> (at[x] < at[y] \/ (at[x] = at[y] /\ x < y))
  OBVIOUS
<1>2. \A x \in D : at[x] \in Int /\ x \in Int
  OBVIOUS
<1> HIDE DEF R
<1>3. StrictOrder(D, R)
  <2>1. \A x \in D : <<x, x>> \notin R
    BY <1>1, <1>2
  <2>2. \A x, y \in D : x # y => <<x, y>> \in R \/ <<y, x>> \in R
    BY <1>1, <1>2
  <2>3. \A x, y, z \in D : <<x, y>> \in R /\ <<y, z>> \in R => <<x, z>> \in R
    BY <1>1, <1>2
  <2> QED
    BY <2>1, <2>2, <2>3 DEF StrictOrder
<1>4. \A x \in D : Below(D, R, x) = {y \in D : at[y] < at[x] \/ (at[y] = at[x] /\ y < x)}
  BY <1>1 DEF Below
<1>5. Rank(D, R) = [x \in D |-> Cardinality({y \in D : at[y] < at[x] \/ (at[y] = at[x] /\ y < x)})]
  BY <1>4 DEF Rank
<1>6. Timed(D, at) = Arranged(D, Rank(D, R))
  BY <1>5 DEF Timed
<1>7. /\ Arranged(D, Rank(D, R)) \in [1 .. Cardinality(D) -> D] /\ Cardinality(D) \in Nat
      /\ \A x \in D : \E k \in 1 .. Cardinality(D) : Arranged(D, Rank(D, R))[k] = x
      /\ \A j, k \in 1 .. Cardinality(D) :
           j < k <=> <<Arranged(D, Rank(D, R))[j], Arranged(D, Rank(D, R))[k]>> \in R
  BY <1>3, ArrangedIs
<1> DEFINE f == Arranged(D, Rank(D, R))
<1>8. \A k \in 1 .. Cardinality(D) : f[k] \in D
  BY <1>7
<1> HIDE DEF f
<1>9. \A j, k \in 1 .. Cardinality(D) : j < k <=> (at[f[j]] < at[f[k]] \/ (at[f[j]] = at[f[k]] /\ f[j] < f[k]))
  BY <1>1, <1>7, <1>8 DEF f
<1> QED
  BY <1>6, <1>7, <1>9 DEF f

(* No two places of the order hold the same.                               *)
LEMMA TimedOnce ==
  ASSUME NEW D \in SUBSET Int, IsFiniteSet(D), NEW at \in [D -> Int],
         NEW j \in 1 .. Cardinality(D), NEW k \in 1 .. Cardinality(D), Timed(D, at)[j] = Timed(D, at)[k]
  PROVE  j = k
<1>1. Timed(D, at)[j] \in D /\ Cardinality(D) \in Nat
  BY TimedIs
<1>2. PICK x \in D : x = Timed(D, at)[j] /\ x = Timed(D, at)[k]
  BY <1>1
<1>3. ~(at[x] < at[x]) /\ ~(x < x)
  <2>1. at[x] \in Int /\ x \in Int
    OBVIOUS
  <2> QED
    BY <2>1
<1>4. ~(j < k) /\ ~(k < j)
  BY <1>2, <1>3, TimedIs
<1> QED
  BY <1>1, <1>4

LEMMA SeqFacts ==
  ASSUME NEW T, NEW seq \in Seq(T)
  PROVE  /\ IsTuple(seq) /\ DOMAIN seq = 1 .. Len(seq) /\ Len(seq) \in Nat
         /\ \A i \in DOMAIN seq : seq[i] \in T
         /\ ToSet(seq) \subseteq T
<1>1. Len(seq) \in Nat /\ DOMAIN seq = 1 .. Len(seq) /\ \A i \in 1 .. Len(seq) : seq[i] \in T
  BY LenProperties, ElementOfSeq
<1>2. \A i \in 1 .. Len(seq) : seq[i] \in ToSet(seq)
  BY <1>1 DEF ToSet
<1>3. seq \in [1 .. Len(seq) -> ToSet(seq)]
  BY <1>2, LenProperties
<1>4. seq \in Seq(ToSet(seq))
  BY <1>1, <1>3, SeqDef
<1> QED
  BY <1>1, <1>4 DEF IsTuple, ToSet

(* The domain of a tuple, and what a function over it is.                  *)
LEMMA TupleIs ==
  ASSUME NEW seq, IsTuple(seq)
  PROVE  /\ seq \in Seq(ToSet(seq)) /\ Len(seq) \in Nat /\ DOMAIN seq = 1 .. Len(seq)
         /\ \A i \in DOMAIN seq : seq[i] \in ToSet(seq)
  BY LenProperties, ElementOfSeq DEF IsTuple

LEMMA SeqOfFunction ==
  ASSUME NEW n \in Nat, NEW T, NEW f \in [1 .. n -> T]
  PROVE  f \in Seq(T) /\ Len(f) = n /\ DOMAIN f = 1 .. n /\ ToSet(f) \subseteq T
<1>1. f \in Seq(T)
  BY SeqDef
<1>2. DOMAIN f = 1 .. n
  OBVIOUS
<1> QED
  BY <1>1, <1>2, SeqFacts

(* What stays when repeated elements are left out.                         *)
Numbered(seq) == [i \in DOMAIN seq |-> <<i, seq[i]>>]
Firsts(seq) == {i \in DOMAIN seq : \A j \in 1 .. i - 1 : seq[j] # seq[i]}

LEMMA UniqueIs ==
  ASSUME NEW T, NEW seq \in Seq(T)
  PROVE  Unique(seq) = Picked(Numbered(seq), Firsts(seq))
<1>1. Unique(seq) = Picked(Numbered(seq), {i \in DOMAIN Numbered(seq) :
                             \A j \in 1 .. Numbered(seq)[i][1] - 1 : seq[j] # Numbered(seq)[i][2]})
  BY Zenon DEF Unique, Selected, Ordered, Picked, Ranked, Arranged, Numbered
<1>2. DOMAIN Numbered(seq) = DOMAIN seq
      /\ \A i \in DOMAIN seq : Numbered(seq)[i][1] = i /\ Numbered(seq)[i][2] = seq[i]
  BY DEF Numbered
<1>3. {i \in DOMAIN Numbered(seq) : \A j \in 1 .. Numbered(seq)[i][1] - 1 : seq[j] # Numbered(seq)[i][2]}
        = Firsts(seq)
  BY <1>2 DEF Firsts
<1> QED
  BY <1>1, <1>3, SMTT(30)

LEMMA DistinctIs ==
  ASSUME NEW T, NEW seq \in Seq(T)
  PROVE  /\ Distinct(seq) \in Seq(T)
         /\ Len(Distinct(seq)) = Cardinality(Firsts(seq))
         /\ \A k \in DOMAIN Distinct(seq) : Distinct(seq)[k] = seq[Ranked(Firsts(seq))[k]]
         /\ seq # <<>> => Distinct(seq) # <<>>
<1> DEFINE F == Firsts(seq)
           m == Cardinality(F)
           N == Numbered(seq)
<1>1. Len(seq) \in Nat /\ DOMAIN seq = 1 .. Len(seq) /\ \A i \in DOMAIN seq : seq[i] \in T
  BY SeqFacts
<1>2. N \in Seq(Nat \X T) /\ DOMAIN N = DOMAIN seq /\ F \in SUBSET DOMAIN N
  <2>1. \A i \in 1 .. Len(seq) : <<i, seq[i]>> \in Nat \X T
    BY <1>1
  <2>2. N \in [1 .. Len(seq) -> Nat \X T]
    BY <1>1, <2>1 DEF Numbered
  <2>3. N \in Seq(Nat \X T)
    BY <1>1, <2>2, SeqOfFunction
  <2> QED
    BY <2>3 DEF Numbered, Firsts
<1>3. \A i \in DOMAIN seq : N[i][2] = seq[i]
  BY DEF Numbered
<1> HIDE DEF N, F
<1>4. /\ m \in Nat /\ DOMAIN Picked(N, F) = 1 .. m
      /\ \A k \in 1 .. m : Ranked(F)[k] \in F /\ Picked(N, F)[k] = N[Ranked(F)[k]]
      /\ F = {} <=> m = 0
  <2>1. /\ IsFiniteSet(F) /\ m \in Nat /\ DOMAIN Picked(N, F) = 1 .. m
        /\ \A k \in 1 .. m : Ranked(F)[k] \in F /\ Picked(N, F)[k] = N[Ranked(F)[k]]
    <3> HIDE DEF m
    <3>1. PICK S : S = Nat \X T
      OBVIOUS
    <3>2. N \in Seq(S) /\ F \in SUBSET DOMAIN N
      BY <1>2, <3>1
    <3> QED
      BY <3>2, PickedIs DEF m
  <2> QED
    BY <2>1, FS_EmptySet
<1>5. Distinct(seq) = [k \in 1 .. m |-> Picked(N, F)[k][2]]
  BY <1>4, UniqueIs DEF Distinct, N, F
<1> HIDE DEF m
<1>6. \A k \in 1 .. m : Ranked(F)[k] \in DOMAIN seq
  BY <1>2, <1>4
<1>7. \A k \in 1 .. m : Picked(N, F)[k][2] = seq[Ranked(F)[k]]
  BY <1>3, <1>4, <1>6
<1>8. Distinct(seq) \in [1 .. m -> T]
  <2>1. \A k \in 1 .. m : Picked(N, F)[k][2] \in T
    BY <1>1, <1>6, <1>7
  <2> QED
    BY <1>5, <2>1
<1>9. Distinct(seq) \in Seq(T) /\ Len(Distinct(seq)) = m /\ DOMAIN Distinct(seq) = 1 .. m
  BY <1>4, <1>8, SeqOfFunction
<1>10. ASSUME seq # <<>> PROVE Distinct(seq) # <<>>
  <2>1. 1 \in DOMAIN seq
    BY <1>1, <1>10, EmptySeq
  <2>2. 1 \in F
    BY <2>1 DEF F, Firsts
  <2>3. m # 0
    BY <1>4, <2>2
  <2> QED
    BY <1>9, <2>3, EmptySeq
<1>11. \A k \in DOMAIN Distinct(seq) : Distinct(seq)[k] = seq[Ranked(F)[k]]
  BY <1>5, <1>7, <1>9
<1> QED
  BY <1>9, <1>10, <1>11 DEF F, m

(* Two numbers have a greatest one.                                        *)
LEMMA MaxOfTwo ==
  ASSUME NEW a \in Int, NEW b \in Int
  PROVE  Max({a, b}) \in {a, b} /\ Max({a, b}) >= a /\ Max({a, b}) >= b
<1>1. \E x \in {a, b} : \A y \in {a, b} : x >= y
  <2>1. a >= b \/ b >= a
    OBVIOUS
  <2>2. a >= a /\ b >= b
    OBVIOUS
  <2> QED
    BY <2>1, <2>2
<1> QED
  BY <1>1 DEF Max

LEMMA OneIsTuple == ASSUME NEW x PROVE IsTuple(<<x>>)
<1>1. <<x>> \in Seq({x})
  OBVIOUS
<1> QED
  BY <1>1, SeqFacts

LEMMA NoneIsTuple == IsTuple(<<>>)
<1>1. <<>> \in Seq({})
  BY EmptySeq
<1> QED
  BY <1>1, SeqFacts

Numbers(seq) == [i \in DOMAIN seq |-> i]
GenAi(spans) == Picked(Numbers(spans), {i \in DOMAIN spans : SpanOperation(spans[i]) # ""})
Traced(spans) == {n \in DOMAIN TraceIds : \E i \in ToSet(GenAi(spans)) : spans[i].trace = TraceIds[n]}
Traces(spans) == Picked(TraceIds, Traced(spans))
Own(spans, t) == {i \in ToSet(GenAi(spans)) : spans[i].trace = t}
OwnOrder(spans, t) == Timed(Own(spans, t), [i \in Own(spans, t) |-> spans[i].start])
OwnSteps(spans, t) == [k \in DOMAIN OwnOrder(spans, t) |->
                         [OtelStep(spans[OwnOrder(spans, t)[k]]) EXCEPT !.id = k]]

LEMMA NumbersIs ==
  ASSUME NEW T, NEW seq \in Seq(T), NEW I \in SUBSET DOMAIN seq
  PROVE  /\ Numbers(seq) \in Seq(Nat) /\ DOMAIN Numbers(seq) = DOMAIN seq
         /\ IsFiniteSet(I) /\ Cardinality(I) \in Nat
         /\ Picked(Numbers(seq), I) \in Seq(I)
         /\ Len(Picked(Numbers(seq), I)) = Cardinality(I)
         /\ DOMAIN Picked(Numbers(seq), I) = 1 .. Cardinality(I)
         /\ \A k \in 1 .. Cardinality(I) : Picked(Numbers(seq), I)[k] \in I
         /\ \A i \in I : \E k \in 1 .. Cardinality(I) : Picked(Numbers(seq), I)[k] = i
         /\ \A j, k \in 1 .. Cardinality(I) :
              j < k <=> Picked(Numbers(seq), I)[j] < Picked(Numbers(seq), I)[k]
<1>1. Len(seq) \in Nat /\ DOMAIN seq = 1 .. Len(seq)
  BY SeqFacts
<1>2. Numbers(seq) \in [1 .. Len(seq) -> Nat] /\ \A i \in I : Numbers(seq)[i] = i
  BY <1>1 DEF Numbers
<1>3. Numbers(seq) \in Seq(Nat) /\ DOMAIN Numbers(seq) = DOMAIN seq
  BY <1>1, <1>2, SeqOfFunction
<1> DEFINE m == Cardinality(I)
           N == Numbers(seq)
<1> HIDE DEF m, N
<1>4. /\ IsFiniteSet(I) /\ m \in Nat /\ DOMAIN Picked(N, I) = 1 .. m /\ Len(Picked(N, I)) = m
      /\ \A k \in 1 .. m : Ranked(I)[k] \in I /\ Picked(N, I)[k] = N[Ranked(I)[k]]
      /\ \A i \in I : \E k \in 1 .. m : Ranked(I)[k] = i
      /\ \A j, k \in 1 .. m : j < k <=> Ranked(I)[j] < Ranked(I)[k]
      /\ Picked(N, I) \in Seq(Nat)
  BY <1>3, PickedIs DEF m, N
<1>5. \A k \in 1 .. m : Picked(N, I)[k] = Ranked(I)[k] /\ Picked(N, I)[k] \in I
  BY <1>2, <1>4 DEF N
<1>6. Picked(N, I) \in [1 .. m -> I]
  BY <1>4, <1>5, LenProperties
<1>7. Picked(N, I) \in Seq(I)
  BY <1>4, <1>6, SeqOfFunction
<1> QED
  BY <1>3, <1>4, <1>5, <1>7 DEF m, N

LEMMA OtelLoadsIs ==
  ASSUME NEW spans, IsTuple(spans)
  PROVE  OtelLoads(spans) = [k \in DOMAIN Traces(spans) |->
           [id |-> Traces(spans)[k], target |-> "", outcome |-> "none", execFailure |-> "",
            duration |-> None, steps |-> OwnSteps(spans, Traces(spans)[k])]]
<1> DEFINE genai == Selected([i \in DOMAIN spans |-> i], LAMBDA i : SpanOperation(spans[i]) # "")
           traces == Selected(TraceIds, LAMBDA t : \E i \in ToSet(genai) : spans[i].trace = t)
           own(t) == Ordered({ i \in ToSet(genai) : spans[i].trace = t },
                    LAMBDA i, j : \/ spans[i].start < spans[j].start
                                  \/ spans[i].start = spans[j].start /\ i < j)
           steps(t) == [k \in DOMAIN own(t) |-> [OtelStep(spans[own(t)[k]]) EXCEPT !.id = k]]
<1>1. genai = GenAi(spans)
  <2> DEFINE N == Numbers(spans)
  <2>1. genai = Picked(N, {i \in DOMAIN N : SpanOperation(spans[N[i]]) # ""})
    BY Zenon DEF Selected, Ordered, Picked, Ranked, Arranged, Numbers
  <2>2. DOMAIN N = DOMAIN spans /\ \A i \in DOMAIN spans : N[i] = i
    BY DEF Numbers
  <2> HIDE DEF N
  <2>3. {i \in DOMAIN N : SpanOperation(spans[N[i]]) # ""} = {i \in DOMAIN spans : SpanOperation(spans[i]) # ""}
    BY <2>2
  <2> HIDE DEF genai
  <2> QED
    BY <2>1, <2>3 DEF GenAi, N
<1> HIDE DEF genai
<1>2. traces = Traces(spans)
  <2>1. traces = Picked(TraceIds, {n \in DOMAIN TraceIds : \E i \in ToSet(genai) : spans[i].trace = TraceIds[n]})
    BY Zenon DEF Selected, Ordered, Picked, Ranked, Arranged
  <2> QED
    BY <1>1, <2>1, Zenon DEF Traces, Traced
<1>3. ASSUME NEW t PROVE own(t) = OwnOrder(spans, t)
  <2> DEFINE O == { i \in ToSet(genai) : spans[i].trace = t }
             at == [i \in O |-> spans[i].start]
  <2>1. own(t) = Arranged(O, [x \in O |-> Cardinality({y \in O :
                    spans[y].start < spans[x].start \/ (spans[y].start = spans[x].start /\ y < x)})])
    BY Zenon DEF Ordered, Arranged
  <2>2. O = Own(spans, t)
    BY <1>1 DEF Own
  <2>3. \A x \in O : at[x] = spans[x].start
    OBVIOUS
  <2> HIDE DEF O, own
  <2>4. \A x \in O : {y \in O : spans[y].start < spans[x].start \/ (spans[y].start = spans[x].start /\ y < x)}
           = {y \in O : at[y] < at[x] \/ (at[y] = at[x] /\ y < x)}
    BY <2>3
  <2> HIDE DEF at
  <2>5. own(t) = Timed(O, at)
    BY <2>1, <2>4 DEF Timed
  <2> QED
    BY <2>2, <2>5 DEF OwnOrder, at
<1>4. ASSUME NEW t PROVE steps(t) = OwnSteps(spans, t)
  <2> HIDE DEF own
  <2> QED
    BY <1>3, Zenon DEF OwnSteps
<1>5. OtelLoads(spans) = [k \in DOMAIN traces |->
           [id |-> traces[k], target |-> "", outcome |-> "none", execFailure |-> "",
            duration |-> None, steps |-> steps(traces[k])]]
  BY Zenon DEF OtelLoads, genai
<1> HIDE DEF own, traces, steps
<1> QED
  BY <1>2, <1>4, <1>5

-----------------------------------------------------------------------------
(* The tool calls of a trajectory.                                         *)
CallsOf(steps) == UNION {ToSet(CallsInStep(s, preferInput)) : s \in ToSet(steps),
                                                              preferInput \in BOOLEAN}

LEMMA CallsInStepIs ==
  ASSUME NEW s, SoundStep(s), NEW preferInput \in BOOLEAN
  PROVE  /\ IsTuple(CallsInStep(s, preferInput))
         /\ \A c \in ToSet(CallsInStep(s, preferInput)) : c.step = s
<1> DEFINE parts == IF preferInput THEN s.inMsgs ELSE s.outMsgs
           I == {i \in DOMAIN parts : parts[i].type = "tool_call"}
           found == IF s.calls # <<>> THEN s.calls ELSE Picked(parts, I)
           call(i) == [step |-> s, tool |-> found[i].tool, args |-> found[i].args]
           C == CallsInStep(s, preferInput)
<1>1. Selected(parts, LAMBDA p : p.type = "tool_call") = Picked(parts, I)
  BY Zenon DEF Selected, Ordered, Picked, Ranked, Arranged
<1>2. C = [i \in DOMAIN found |-> call(i)]
  <2>1. C = LET f == IF s.calls # <<>> THEN s.calls
                     ELSE Selected(parts, LAMBDA p : p.type = "tool_call")
            IN  [i \in DOMAIN f |-> [step |-> s, tool |-> f[i].tool, args |-> f[i].args]]
    BY Zenon DEF CallsInStep
  <2> HIDE DEF parts, I
  <2> QED
    BY <1>1, <2>1
<1>3. IsTuple(parts) /\ IsTuple(s.calls)
  BY DEF SoundStep
<1>4. IsTuple(found)
  <2>1. parts \in Seq(ToSet(parts)) /\ I \in SUBSET DOMAIN parts
    BY <1>3, TupleIs
  <2> HIDE DEF parts, I
  <2>2. Picked(parts, I) \in Seq(ToSet(parts))
    BY <2>1, PickedIs
  <2>3. IsTuple(Picked(parts, I))
    BY <2>2, SeqFacts
  <2> QED
    BY <1>3, <2>3
<1> HIDE DEF found
<1>5. Len(found) \in Nat /\ DOMAIN found = 1 .. Len(found)
  BY <1>4, TupleIs
<1> DEFINE S == {call(i) : i \in DOMAIN found}
<1>6. C \in [1 .. Len(found) -> S]
  <2> HIDE DEF C, call
  <2> QED
    BY <1>2, <1>5
<1>7. C \in Seq(S) /\ ToSet(C) \subseteq S
  <2> HIDE DEF C, S
  <2> QED
    BY <1>5, <1>6, SeqOfFunction
<1>8. IsTuple(C)
  <2> HIDE DEF C, S
  <2> QED
    BY <1>7, SeqFacts
<1>9. \A c \in S : c.step = s
  OBVIOUS
<1> HIDE DEF C, S
<1> QED
  BY <1>7, <1>8, <1>9 DEF C

(* The calls of some of the steps, one step after the other.               *)
LEMMA CallsFlat ==
  ASSUME NEW steps, SoundSteps(steps), NEW seq \in Seq(ToSet(steps)), NEW preferInput \in BOOLEAN
  PROVE  FlattenSeq([i \in DOMAIN seq |-> CallsInStep(seq[i], preferInput)]) \in Seq(CallsOf(steps))
<1> DEFINE g == [i \in DOMAIN seq |-> CallsInStep(seq[i], preferInput)]
<1>1. Len(seq) \in Nat /\ DOMAIN seq = 1 .. Len(seq) /\ \A i \in DOMAIN seq : seq[i] \in ToSet(steps)
  BY SeqFacts
<1>2. \A s \in ToSet(steps) : SoundStep(s)
  BY DEF ToSet, SoundSteps
<1>3. ASSUME NEW s \in ToSet(steps) PROVE CallsInStep(s, preferInput) \in Seq(CallsOf(steps))
  <2>1. CallsInStep(s, preferInput) \in Seq(ToSet(CallsInStep(s, preferInput)))
    BY <1>2, CallsInStepIs DEF IsTuple
  <2>2. ToSet(CallsInStep(s, preferInput)) \subseteq CallsOf(steps)
    BY DEF CallsOf
  <2> QED
    BY <2>1, <2>2, SeqMonotonic
<1>4. g \in [1 .. Len(seq) -> Seq(CallsOf(steps))]
  BY <1>1, <1>3
<1>5. g \in Seq(Seq(CallsOf(steps)))
  <2> HIDE DEF g
  <2> QED
    BY <1>1, <1>4, SeqOfFunction
<1> HIDE DEF g
<1>6. FlattenSeq(g) \in Seq(CallsOf(steps))
  BY <1>5, FlatType
<1> QED
  BY <1>6 DEF g

LEMMA ToolCallsType ==
  ASSUME NEW steps, SoundSteps(steps)
  PROVE  /\ ToolCalls(steps) \in Seq(CallsOf(steps))
         /\ \A c \in CallsOf(steps) : c.step \in ToSet(steps)
<1> DEFINE I == {i \in DOMAIN steps : StepOperation(steps[i]) = "execute_tool"}
           E == Picked(steps, I)
<1>1. Selected(steps, LAMBDA s : StepOperation(s) = "execute_tool") = E
  BY Zenon DEF Selected, Ordered, Picked, Ranked, Arranged
<1>2. ToolCalls(steps) = IF E # <<>> THEN FlattenSeq([i \in DOMAIN E |-> CallsInStep(E[i], TRUE)])
                         ELSE FlattenSeq([i \in DOMAIN steps |-> CallsInStep(steps[i], FALSE)])
  <2>1. ToolCalls(steps) = LET X == Selected(steps, LAMBDA s : StepOperation(s) = "execute_tool")
            IN  IF X # <<>> THEN FlattenSeq([i \in DOMAIN X |-> CallsInStep(X[i], TRUE)])
                ELSE FlattenSeq([i \in DOMAIN steps |-> CallsInStep(steps[i], FALSE)])
    BY Zenon DEF ToolCalls
  <2> HIDE DEF E
  <2> QED
    BY <1>1, <2>1
<1>3. steps \in Seq(ToSet(steps)) /\ I \in SUBSET DOMAIN steps
  BY TupleIs DEF SoundSteps
<1> HIDE DEF I
<1>4. E \in Seq(ToSet(steps))
  BY <1>3, PickedIs
<1> HIDE DEF E
<1>5. ToolCalls(steps) \in Seq(CallsOf(steps))
  BY <1>2, <1>3, <1>4, CallsFlat
<1>6. ASSUME NEW c \in CallsOf(steps) PROVE c.step \in ToSet(steps)
  <2>1. PICK s \in ToSet(steps), b \in BOOLEAN : c \in ToSet(CallsInStep(s, b))
    BY DEF CallsOf
  <2>2. SoundStep(s)
    BY DEF ToSet, SoundSteps
  <2> QED
    BY <2>1, <2>2, CallsInStepIs
<1> QED
  BY <1>5, <1>6, SMTT(30)

(* Two calls with the same tool and arguments: the later one is a repeat.  *)
Repeats(calls) == {i \in DOMAIN calls : \E j \in 1 .. i - 1 : Signature(calls[j]) = Signature(calls[i])}

LEMMA RepeatedIs ==
  ASSUME NEW steps, SoundSteps(steps), NEW i \in Repeats(ToolCalls(steps))
  PROVE  /\ RepeatedToolCall(steps).id = "repeated_tool_call"
         /\ RepeatedToolCall(steps).status = "analyzed"
         /\ \E k \in DOMAIN RepeatedToolCall(steps).findings :
              ToolCalls(steps)[i].step.id \in ToSet(RepeatedToolCall(steps).findings[k])
<1> DEFINE calls == ToolCalls(steps)
           N == Numbers(calls)
           picked == Picked(N, Repeats(calls))
           finding == [k \in DOMAIN picked |-> calls[picked[k]].step.id]
<1>1. Selected([j \in DOMAIN calls |-> j],
               LAMBDA x : \E j \in 1..(x - 1) : Signature(calls[j]) = Signature(calls[x])) = picked
  <2>1. Selected([j \in DOMAIN calls |-> j],
                 LAMBDA x : \E j \in 1..(x - 1) : Signature(calls[j]) = Signature(calls[x]))
          = Picked(N, {x \in DOMAIN N : \E j \in 1..(N[x] - 1) : Signature(calls[j]) = Signature(calls[N[x]])})
    BY Zenon DEF Selected, Ordered, Picked, Ranked, Arranged, Numbers
  <2>2. DOMAIN N = DOMAIN calls /\ \A x \in DOMAIN calls : N[x] = x
    BY DEF Numbers
  <2> HIDE DEF N, calls
  <2>3. {x \in DOMAIN N : \E j \in 1..(N[x] - 1) : Signature(calls[j]) = Signature(calls[N[x]])} = Repeats(calls)
    BY <2>2 DEF Repeats
  <2> QED
    BY <2>1, <2>3, SMTT(30)
<1>2. RepeatedToolCall(steps) =
        IF calls = <<>> THEN Inapplicable("repeated_tool_call")
        ELSE Analyzed("repeated_tool_call", IF picked = <<>> THEN <<>> ELSE <<finding>>)
  <2>1. RepeatedToolCall(steps) =
          LET r == Selected([j \in DOMAIN calls |-> j],
                       LAMBDA x : \E j \in 1..(x - 1) : Signature(calls[j]) = Signature(calls[x]))
          IN  IF calls = <<>> THEN Inapplicable("repeated_tool_call")
              ELSE Analyzed("repeated_tool_call",
                     IF r = <<>> THEN <<>> ELSE <<[k \in DOMAIN r |-> calls[r[k]].step.id]>>)
    BY Zenon DEF RepeatedToolCall
  <2> HIDE DEF calls, picked
  <2> QED
    BY <1>1, <2>1
<1>3. calls \in Seq(CallsOf(steps)) /\ Repeats(calls) \in SUBSET DOMAIN calls
  BY ToolCallsType DEF Repeats
<1>4. i \in DOMAIN calls /\ calls # <<>> /\ i \in Repeats(calls)
  BY <1>3
<1>5. /\ DOMAIN picked = 1 .. Cardinality(Repeats(calls))
      /\ Len(picked) = Cardinality(Repeats(calls)) /\ Cardinality(Repeats(calls)) \in Nat
      /\ \E k \in 1 .. Cardinality(Repeats(calls)) : picked[k] = i
  <2> HIDE DEF calls
  <2> QED
    BY <1>3, <1>4, NumbersIs, ZenonT(60)
<1> HIDE DEF picked, calls
<1>6. PICK k \in DOMAIN picked : picked[k] = i
  BY <1>5
<1>7. picked # <<>>
  BY <1>6
<1>8. RepeatedToolCall(steps) = Analyzed("repeated_tool_call", <<finding>>)
  BY <1>2, <1>4, <1>7
<1>9. calls[i].step.id \in ToSet(finding)
  BY <1>6 DEF ToSet
<1> HIDE DEF finding
<1>10. RepeatedToolCall(steps).findings = <<finding>>
  BY <1>8 DEF Analyzed, Detection
<1>11. 1 \in DOMAIN <<finding>> /\ <<finding>>[1] = finding
  OBVIOUS
<1>12. 1 \in DOMAIN RepeatedToolCall(steps).findings
       /\ calls[i].step.id \in ToSet(RepeatedToolCall(steps).findings[1])
  BY <1>9, <1>10, <1>11
<1> QED
  BY <1>8, <1>12 DEF Analyzed, Detection, calls

LEMMA LaterRepeats ==
  ASSUME NEW S, NEW calls \in Seq(S), NEW i \in DOMAIN calls, NEW j \in DOMAIN calls, i # j,
         Signature(calls[i]) = Signature(calls[j])
  PROVE  i \in Repeats(calls) \/ j \in Repeats(calls)
<1>1. Len(calls) \in Nat /\ DOMAIN calls = 1 .. Len(calls)
  BY SeqFacts
<1>2. i \in 1 .. j - 1 \/ j \in 1 .. i - 1
  BY <1>1
<1> QED
  BY <1>2 DEF Repeats

-----------------------------------------------------------------------------
(* The retries among the calls.                                            *)
Follow(calls, i) == {j \in i + 1 .. Len(calls) : /\ calls[j].tool = calls[i].tool
                                                 /\ calls[j].step.id # calls[i].step.id}
NextCall(calls, i) == IF Follow(calls, i) # {} THEN Min(Follow(calls, i)) ELSE 0
Retried(calls) == {i \in DOMAIN calls : CallFailed(calls[i]) /\ NextCall(calls, i) # 0}
Retry(calls, i) == [failed |-> calls[i], retry |-> calls[NextCall(calls, i)]]

LEMMA RetriesIs ==
  ASSUME NEW calls
  PROVE  RetriesAmong(calls) = [k \in DOMAIN Picked(Numbers(calls), Retried(calls)) |->
                                  Retry(calls, Picked(Numbers(calls), Retried(calls))[k])]
<1> DEFINE N == Numbers(calls)
           next1(i) == SelectInSubSeq(calls, i + 1, Len(calls),
                         LAMBDA c : c.tool = calls[i].tool /\ c.step.id # calls[i].step.id)
           sel == Selected([i \in DOMAIN calls |-> i], LAMBDA i : CallFailed(calls[i]) /\ next1(i) # 0)
<1>1. ASSUME NEW i PROVE next1(i) = NextCall(calls, i)
  BY Zenon DEF SelectInSubSeq, NextCall, Follow
<1>2. sel = Picked(N, Retried(calls))
  <2>1. sel = Picked(N, {i \in DOMAIN N : CallFailed(calls[N[i]]) /\ next1(N[i]) # 0})
    BY Zenon DEF Selected, Ordered, Picked, Ranked, Arranged, Numbers
  <2>2. DOMAIN N = DOMAIN calls /\ \A i \in DOMAIN calls : N[i] = i
    BY DEF Numbers
  <2> HIDE DEF N, next1
  <2>3. {i \in DOMAIN N : CallFailed(calls[N[i]]) /\ next1(N[i]) # 0} = Retried(calls)
    BY <1>1, <2>2 DEF Retried
  <2> QED
    BY <2>1, <2>3, SMTT(30)
<1>3. RetriesAmong(calls) =
        [k \in DOMAIN sel |-> [failed |-> calls[sel[k]], retry |-> calls[next1(sel[k])]]]
  BY Zenon DEF RetriesAmong
<1> HIDE DEF sel, next1
<1> QED
  BY <1>1, <1>2, <1>3 DEF Retry

LEMMA RetriesAre ==
  ASSUME NEW S, NEW calls \in Seq(S)
  PROVE  /\ RetriesAmong(calls) \in Seq({Retry(calls, i) : i \in Retried(calls)})
         /\ Len(RetriesAmong(calls)) = Cardinality(Retried(calls))
         /\ \A i \in Retried(calls) :
              /\ i \in DOMAIN calls /\ NextCall(calls, i) \in DOMAIN calls /\ i < NextCall(calls, i)
              /\ calls[NextCall(calls, i)].step.id # calls[i].step.id
<1> DEFINE I == Retried(calls)
           P == Picked(Numbers(calls), I)
           T == {Retry(calls, i) : i \in I}
<1>1. /\ I \in SUBSET DOMAIN calls /\ Len(calls) \in Nat /\ DOMAIN calls = 1 .. Len(calls)
  BY SeqFacts DEF Retried
<1>2. /\ Cardinality(I) \in Nat /\ DOMAIN P = 1 .. Cardinality(I)
      /\ \A k \in 1 .. Cardinality(I) : P[k] \in I
  <2> HIDE DEF I
  <2> QED
    BY <1>1, NumbersIs
<1>3. RetriesAmong(calls) \in [1 .. Cardinality(I) -> T]
  <2>1. RetriesAmong(calls) = [k \in 1 .. Cardinality(I) |-> Retry(calls, P[k])]
    BY <1>2, RetriesIs
  <2> HIDE DEF I, P
  <2> QED
    BY <1>2, <2>1
<1>4. RetriesAmong(calls) \in Seq(T) /\ Len(RetriesAmong(calls)) = Cardinality(I)
  <2> HIDE DEF I, T
  <2> QED
    BY <1>2, <1>3, SeqOfFunction
<1>5. ASSUME NEW i \in I
      PROVE  /\ i \in DOMAIN calls /\ NextCall(calls, i) \in DOMAIN calls /\ i < NextCall(calls, i)
             /\ calls[NextCall(calls, i)].step.id # calls[i].step.id
  <2>1. i \in 1 .. Len(calls) /\ NextCall(calls, i) # 0
    BY <1>1 DEF Retried
  <2>2. Follow(calls, i) # {} /\ NextCall(calls, i) = Min(Follow(calls, i))
    BY <2>1 DEF NextCall
  <2>3. Follow(calls, i) \in SUBSET Nat
    BY <1>1, <2>1 DEF Follow
  <2>4. NextCall(calls, i) \in Follow(calls, i)
    BY <2>2, <2>3, MinIs
  <2> QED
    BY <1>1, <2>1, <2>4 DEF Follow
<1> QED
  BY <1>4, <1>5

(* A retry with unchanged arguments repeats the call that failed.          *)
LEMMA UnchangedRepeats ==
  ASSUME NEW steps, SoundSteps(steps), NEW t \in ToSet(RetryTransitions(steps)), ~ArgumentsChanged(t)
  PROVE  /\ t.failed.step.id # t.retry.step.id
         /\ \E j \in Repeats(ToolCalls(steps)) : t.retry = ToolCalls(steps)[j]
<1> DEFINE calls == ToolCalls(steps)
<1>1. calls \in Seq(CallsOf(steps))
  BY ToolCallsType
<1>2. ToSet(RetryTransitions(steps)) \subseteq {Retry(calls, i) : i \in Retried(calls)}
  <2> DEFINE T == {Retry(calls, i) : i \in Retried(calls)}
  <2>1. RetriesAmong(calls) \in Seq(T)
    BY <1>1, RetriesAre
  <2> HIDE DEF T, calls
  <2>2. ToSet(RetriesAmong(calls)) \subseteq T
    BY <2>1, SeqFacts
  <2> QED
    BY <2>2 DEF RetryTransitions, T, calls
<1> HIDE DEF calls
<1>3. PICK i \in Retried(calls) : t = Retry(calls, i)
  BY <1>2
<1>4. /\ i \in DOMAIN calls /\ NextCall(calls, i) \in DOMAIN calls /\ i < NextCall(calls, i)
      /\ calls[NextCall(calls, i)].step.id # calls[i].step.id
  BY <1>1, RetriesAre
<1>5. t.failed = calls[i] /\ t.retry = calls[NextCall(calls, i)]
  BY <1>3 DEF Retry
<1>6. Signature(calls[i]) = Signature(calls[NextCall(calls, i)])
  BY <1>5 DEF ArgumentsChanged
<1>7. i \in 1 .. NextCall(calls, i) - 1
  <2>1. DOMAIN calls = 1 .. Len(calls) /\ Len(calls) \in Nat
    BY <1>1, SeqFacts
  <2> QED
    BY <1>4, <2>1
<1>8. NextCall(calls, i) \in Repeats(calls)
  BY <1>4, <1>6, <1>7 DEF Repeats
<1> QED
  BY <1>4, <1>5, <1>8 DEF calls

(* The places of the steps in start order.                                 *)
Starts(steps) == [i \in DOMAIN steps |-> steps[i].start]

LEMMA StartOrderIs ==
  ASSUME NEW steps, SoundSteps(steps)
  PROVE  /\ StartOrder(steps) = Timed(DOMAIN steps, Starts(steps))
         /\ DOMAIN steps = 1 .. Len(steps) /\ Len(steps) \in Nat
         /\ Cardinality(DOMAIN steps) = Len(steps)
         /\ IsFiniteSet(DOMAIN steps) /\ DOMAIN steps \in SUBSET Int
         /\ Starts(steps) \in [DOMAIN steps -> Int]
<1>1. StartOrder(steps) = Arranged(DOMAIN steps, [x \in DOMAIN steps |-> Cardinality({y \in DOMAIN steps :
         steps[y].start < steps[x].start \/ (steps[y].start = steps[x].start /\ y < x)})])
  BY Zenon DEF StartOrder, Ordered, Arranged
<1>2. \A x \in DOMAIN steps : Starts(steps)[x] = steps[x].start
  BY DEF Starts
<1>3. \A x \in DOMAIN steps :
        {y \in DOMAIN steps : steps[y].start < steps[x].start \/ (steps[y].start = steps[x].start /\ y < x)}
          = {y \in DOMAIN steps : \/ Starts(steps)[y] < Starts(steps)[x]
                                  \/ (Starts(steps)[y] = Starts(steps)[x] /\ y < x)}
  BY <1>2
<1>4. StartOrder(steps) = Timed(DOMAIN steps, Starts(steps))
  BY <1>1, <1>3 DEF Timed
<1>5. DOMAIN steps = 1 .. Len(steps) /\ Len(steps) \in Nat
  BY TupleIs DEF SoundSteps
<1>6. Starts(steps) \in [DOMAIN steps -> Int]
  BY DEF Starts, SoundSteps, SoundStep
<1>7. IsFiniteSet(1 .. Len(steps)) /\ Cardinality(1 .. Len(steps)) = Len(steps)
  <2>1. PICK n : n = Len(steps) /\ n \in Nat
    BY <1>5
  <2>2. 1 \in Int /\ n \in Int
    BY <2>1
  <2>3. IsFiniteSet(1 .. n)
    BY <2>2, FS_Interval
  <2>4. Cardinality(1 .. n) = (IF 1 > n THEN 0 ELSE n - 1 + 1)
    BY <2>2, FS_Interval, Zenon
  <2>5. Cardinality(1 .. n) = n
    BY <2>1, <2>4
  <2> QED
    BY <2>1, <2>3, <2>5
<1>8. Cardinality(DOMAIN steps) = Len(steps) /\ IsFiniteSet(DOMAIN steps)
  BY <1>5, <1>7, Zenon
<1>9. DOMAIN steps \in SUBSET Int
  BY <1>5
<1> QED
  BY <1>4, <1>5, <1>6, <1>8, <1>9, Zenon

LEMMA PlaceIs ==
  ASSUME NEW steps, SoundSteps(steps), NEW s \in ToSet(steps)
  PROVE  Places(steps)[s.id] \in 1 .. Len(steps)
<1> DEFINE order == StartOrder(steps)
           n == Len(steps)
<1>1. PICK i \in DOMAIN steps : s = steps[i]
  BY DEF ToSet
<1>2. order \in [1 .. n -> DOMAIN steps] /\ \A x \in DOMAIN steps : \E k \in 1 .. n : order[k] = x
  <2>1. PICK D, at : D = DOMAIN steps /\ at = Starts(steps)
    OBVIOUS
  <2>2. /\ D \in SUBSET Int /\ IsFiniteSet(D) /\ at \in [D -> Int] /\ Cardinality(D) = n
        /\ order = Timed(D, at)
    BY <2>1, StartOrderIs
  <2> HIDE DEF n, order
  <2>3. /\ Timed(D, at) \in [1 .. n -> D]
        /\ \A x \in D : \E k \in 1 .. n : Timed(D, at)[k] = x
    BY <2>2, TimedIs
  <2> QED
    BY <2>1, <2>2, <2>3
<1>3. \E p \in DOMAIN order : steps[order[p]].id = s.id
  <2> HIDE DEF order
  <2> QED
    BY <1>1, <1>2
<1>4. s.id \in ToSet(StepIds(steps))
  BY <1>1 DEF ToSet, StepIds
<1>5. Places(steps)[s.id] = CHOOSE p \in DOMAIN order : steps[order[p]].id = s.id
  BY <1>4 DEF Places
<1> HIDE DEF order
<1> QED
  BY <1>2, <1>3, <1>5

-----------------------------------------------------------------------------
(* The calls in start order, and the refetches among them.                 *)
PlaceOf(calls, place) == [i \in DOMAIN calls |-> place[calls[i].step.id]]
CallOrder(calls, place) == Timed(DOMAIN calls, PlaceOf(calls, place))

LEMMA PlacedIs ==
  ASSUME NEW calls, NEW place
  PROVE  PlacedCalls(calls, place) = [k \in DOMAIN CallOrder(calls, place) |->
            [at |-> place[calls[CallOrder(calls, place)[k]].step.id],
             call |-> calls[CallOrder(calls, place)[k]]]]
<1> DEFINE D == DOMAIN calls
           at == PlaceOf(calls, place)
           order == Ordered(D, LAMBDA i, j : \/ place[calls[i].step.id] < place[calls[j].step.id]
                                             \/ (place[calls[i].step.id] = place[calls[j].step.id] /\ i < j))
<1>1. order = CallOrder(calls, place)
  <2>1. order = Arranged(D, [x \in D |-> Cardinality({y \in D :
                  \/ place[calls[y].step.id] < place[calls[x].step.id]
                  \/ (place[calls[y].step.id] = place[calls[x].step.id] /\ y < x)})])
    BY Zenon DEF Ordered, Arranged
  <2>2. \A x \in D : at[x] = place[calls[x].step.id]
    BY DEF PlaceOf
  <2> HIDE DEF at, order, D
  <2>3. \A x \in D : {y \in D : \/ place[calls[y].step.id] < place[calls[x].step.id]
                                \/ (place[calls[y].step.id] = place[calls[x].step.id] /\ y < x)}
                       = {y \in D : at[y] < at[x] \/ (at[y] = at[x] /\ y < x)}
    BY <2>2
  <2>4. order = Timed(D, at)
    BY <2>1, <2>3 DEF Timed
  <2> QED
    BY <2>4 DEF CallOrder, D, at
<1>2. PlacedCalls(calls, place) = [k \in DOMAIN order |->
            [at |-> place[calls[order[k]].step.id], call |-> calls[order[k]]]]
  BY Zenon DEF PlacedCalls
<1> HIDE DEF order
<1> QED
  BY <1>1, <1>2

Earlier(placed, compacts, k) ==
  {j \in 1 .. k - 1 : /\ Signature(placed[j].call) = Signature(placed[k].call)
                      /\ \E c \in compacts : placed[j].at < c /\ c < placed[k].at}
Match(placed, compacts, k) ==
  IF Earlier(placed, compacts, k) # {} THEN Max(Earlier(placed, compacts, k)) ELSE 0
Matched(placed, compacts) == {k \in DOMAIN placed : Match(placed, compacts, k) # 0}

LEMMA RefetchesIs ==
  ASSUME NEW placed, NEW compacts
  PROVE  RefetchesAmong(placed, compacts) =
           [m \in DOMAIN Picked(Numbers(placed), Matched(placed, compacts)) |->
              <<placed[Match(placed, compacts, Picked(Numbers(placed), Matched(placed, compacts))[m])].call.step.id,
                placed[Picked(Numbers(placed), Matched(placed, compacts))[m]].call.step.id>>]
<1> DEFINE N == Numbers(placed)
           match(k) == SelectLastInSubSeq(placed, 1, k - 1, LAMBDA p :
                         /\ Signature(p.call) = Signature(placed[k].call)
                         /\ \E c \in compacts : p.at < c /\ c < placed[k].at)
           sel == Selected([k \in DOMAIN placed |-> k], LAMBDA k : match(k) # 0)
<1>1. ASSUME NEW k PROVE match(k) = Match(placed, compacts, k)
  BY Zenon DEF SelectLastInSubSeq, Match, Earlier
<1>2. sel = Picked(N, Matched(placed, compacts))
  <2>1. sel = Picked(N, {k \in DOMAIN N : match(N[k]) # 0})
    BY Zenon DEF Selected, Ordered, Picked, Ranked, Arranged, Numbers
  <2>2. DOMAIN N = DOMAIN placed /\ \A k \in DOMAIN placed : N[k] = k
    BY DEF Numbers
  <2> HIDE DEF N, match
  <2>3. {k \in DOMAIN N : match(N[k]) # 0} = Matched(placed, compacts)
    BY <1>1, <2>2 DEF Matched
  <2> QED
    BY <2>1, <2>3
<1>3. RefetchesAmong(placed, compacts) =
        [m \in DOMAIN sel |-> <<placed[match(sel[m])].call.step.id, placed[sel[m]].call.step.id>>]
  BY Zenon DEF RefetchesAmong
<1> HIDE DEF sel, match
<1> QED
  BY <1>1, <1>2, <1>3

(* A refetch is a pair of different steps with an equal call.              *)
LEMMA RefetchRepeats ==
  ASSUME NEW steps, SoundSteps(steps), NEW p \in ToSet(RefetchPairs(steps))
  PROVE  /\ p[1] # p[2]
         /\ \E i, j \in DOMAIN ToolCalls(steps) :
              /\ i # j /\ Signature(ToolCalls(steps)[i]) = Signature(ToolCalls(steps)[j])
              /\ p = <<ToolCalls(steps)[i].step.id, ToolCalls(steps)[j].step.id>>
<1> DEFINE calls == ToolCalls(steps)
           place == Places(steps)
           at == PlaceOf(calls, place)
           order == CallOrder(calls, place)
           placed == PlacedCalls(calls, place)
           n == Len(calls)
<1>1. /\ calls \in Seq(CallsOf(steps)) /\ n \in Nat /\ DOMAIN calls = 1 .. n
      /\ \A i \in 1 .. n : calls[i].step \in ToSet(steps)
  <2>1. calls \in Seq(CallsOf(steps)) /\ \A c \in CallsOf(steps) : c.step \in ToSet(steps)
    BY ToolCallsType
  <2> HIDE DEF calls
  <2> QED
    BY <2>1, SeqFacts
<1>2. \A i \in 1 .. n : place[calls[i].step.id] \in Int
  <2>1. \A i \in 1 .. n : place[calls[i].step.id] \in 1 .. Len(steps)
    <3> HIDE DEF calls, place
    <3> QED
      BY <1>1, PlaceIs DEF place
  <2> QED
    BY <2>1
<1>3. /\ DOMAIN calls \in SUBSET Int /\ IsFiniteSet(DOMAIN calls) /\ Cardinality(DOMAIN calls) = n
      /\ at \in [DOMAIN calls -> Int]
  <2> HIDE DEF calls, place, n
  <2>1. IsFiniteSet(1 .. n) /\ Cardinality(1 .. n) = n
    BY <1>1, FS_Interval
  <2>2. at \in [1 .. n -> Int]
    BY <1>1, <1>2 DEF PlaceOf
  <2>3. 1 .. n \in SUBSET Int
    BY <1>1
  <2> QED
    BY <1>1, <2>1, <2>2, <2>3
<1>4. /\ order \in [1 .. n -> 1 .. n]
      /\ \A j, k \in 1 .. n : order[j] = order[k] => j = k
  <2>1. PICK D : D = DOMAIN calls
    OBVIOUS
  <2> HIDE DEF calls, place, n, at
  <2>2. D \in SUBSET Int /\ IsFiniteSet(D) /\ at \in [D -> Int] /\ Cardinality(D) = n /\ D = 1 .. n
    BY <1>1, <1>3, <2>1
  <2>3. Timed(D, at) \in [1 .. n -> D]
    BY <2>2, TimedIs
  <2>4. \A j, k \in 1 .. n : Timed(D, at)[j] = Timed(D, at)[k] => j = k
    BY <2>2, TimedOnce
  <2>5. order = Timed(D, at)
    BY <2>1 DEF CallOrder, at
  <2> QED
    BY <2>2, <2>3, <2>4, <2>5
<1>5. placed = [k \in 1 .. n |-> [at |-> place[calls[order[k]].step.id], call |-> calls[order[k]]]]
  <2>1. DOMAIN order = 1 .. n
    BY <1>4
  <2> HIDE DEF order, placed
  <2>2. placed = [k \in DOMAIN order |-> [at |-> place[calls[order[k]].step.id], call |-> calls[order[k]]]]
    BY PlacedIs DEF placed, order
  <2> QED
    BY <2>1, <2>2
<1> DEFINE compacts == {place[s.id] : s \in {t \in ToSet(steps) : IsCompactStep(t)}}
           M == Matched(placed, compacts)
           P == Picked(Numbers(placed), M)
<1>6. RefetchPairs(steps) = RefetchesAmong(placed, compacts)
  BY Zenon DEF RefetchPairs
<1>7. \A c \in compacts : c \in Int
  <2>1. \A s \in ToSet(steps) : place[s.id] \in 1 .. Len(steps)
    BY PlaceIs
  <2> QED
    BY <2>1
<1> HIDE DEF calls, place, at, order, compacts, n
<1>8. placed \in Seq({placed[k] : k \in 1 .. n}) /\ DOMAIN placed = 1 .. n
  <2> DEFINE S == {placed[k] : k \in 1 .. n}
  <2>1. placed \in [1 .. n -> S]
    <3> HIDE DEF placed
    <3>1. \A k \in 1 .. n : placed[k] \in S
      OBVIOUS
    <3> HIDE DEF S
    <3> QED
      BY <1>5, <3>1
  <2> HIDE DEF S, placed
  <2> QED
    BY <1>1, <2>1, SeqOfFunction DEF S
<1> HIDE DEF placed
<1>9. DOMAIN P = 1 .. Cardinality(M) /\ \A m \in DOMAIN P : P[m] \in M
  <2>1. M \in SUBSET DOMAIN placed
    BY DEF Matched
  <2>2. PICK S : placed \in Seq(S)
    BY <1>8
  <2> HIDE DEF M
  <2> QED
    BY <2>1, <2>2, NumbersIs
<1>10. PICK m \in DOMAIN P : p = <<placed[Match(placed, compacts, P[m])].call.step.id, placed[P[m]].call.step.id>>
  <2>1. RefetchesAmong(placed, compacts) = [m \in DOMAIN P |->
            <<placed[Match(placed, compacts, P[m])].call.step.id, placed[P[m]].call.step.id>>]
    BY RefetchesIs
  <2>2. p \in ToSet(RefetchesAmong(placed, compacts))
    BY <1>6
  <2> HIDE DEF P
  <2> QED
    BY <2>1, <2>2 DEF ToSet
<1>11. PICK k, j : k = P[m] /\ j = Match(placed, compacts, k)
  OBVIOUS
<1>12. k \in 1 .. n /\ j # 0 /\ k \in M
  BY <1>8, <1>9, <1>11 DEF Matched
<1>13. j \in 1 .. k - 1 /\ j \in Earlier(placed, compacts, k)
  <2>1. Earlier(placed, compacts, k) # {} /\ j = Max(Earlier(placed, compacts, k))
    BY <1>11, <1>12 DEF Match
  <2>2. Earlier(placed, compacts, k) \in SUBSET (1 .. k - 1)
    BY DEF Earlier
  <2>3. k \in Nat
    BY <1>12
  <2>4. IsFiniteSet(1 .. k - 1) /\ 1 .. k - 1 \in SUBSET Int
    <3>1. k - 1 \in Int
      BY <2>3
    <3> QED
      BY <3>1, FS_Interval
  <2>5. IsFiniteSet(Earlier(placed, compacts, k)) /\ Earlier(placed, compacts, k) \in SUBSET Int
    BY <2>2, <2>4, FS_Subset
  <2> QED
    BY <2>1, <2>2, <2>5, MaxIs
<1>14. j \in 1 .. n /\ j # k
  BY <1>1, <1>12, <1>13
<1>15. /\ order[j] \in 1 .. n /\ order[k] \in 1 .. n /\ order[j] # order[k]
       /\ placed[j] = [at |-> place[calls[order[j]].step.id], call |-> calls[order[j]]]
       /\ placed[k] = [at |-> place[calls[order[k]].step.id], call |-> calls[order[k]]]
  BY <1>4, <1>5, <1>12, <1>14
<1>16. PICK c \in compacts : placed[j].at < c /\ c < placed[k].at
  BY <1>13 DEF Earlier
<1>17. Signature(calls[order[j]]) = Signature(calls[order[k]])
  BY <1>13, <1>15 DEF Earlier
<1>18. calls[order[j]].step.id # calls[order[k]].step.id
  <2>1. /\ place[calls[order[j]].step.id] < c /\ c < place[calls[order[k]].step.id]
        /\ c \in Int /\ place[calls[order[j]].step.id] \in Int /\ place[calls[order[k]].step.id] \in Int
    BY <1>2, <1>7, <1>15, <1>16
  <2>2. \A x, y \in Int : x < c /\ c < y => x # y
    BY <2>1
  <2> QED
    BY <2>1, <2>2
<1>19. p = <<calls[order[j]].step.id, calls[order[k]].step.id>>
  BY <1>10, <1>11, <1>15
<1> QED
  BY <1>1, <1>15, <1>17, <1>18, <1>19 DEF calls

(* Each measurer has a result of its own id.                               *)
Reports(result, id) == \/ result = NotApplicable(id)
                       \/ \E values, steps : result = Measured(id, values, steps)

LEMMA MeasurersReport ==
  ASSUME NEW steps
  PROVE  /\ Reports(ContextUsage(steps), "context_usage")
         /\ Reports(ModelUsage(steps), "model_usage")
         /\ Reports(RetryUsage(steps), "retry_usage")
         /\ Reports(ToolUsage(steps), "tool_usage")
<1>1. Reports(ContextUsage(steps), "context_usage")
  BY ZenonT(60) DEF ContextUsage, Reports
<1>2. Reports(ModelUsage(steps), "model_usage")
  BY ZenonT(60) DEF ModelUsage, Reports
<1>3. Reports(RetryUsage(steps), "retry_usage")
  BY Zenon DEF RetryUsage, Reports
<1>4. Reports(ToolUsage(steps), "tool_usage")
  BY Zenon DEF ToolUsage, Reports
<1> QED
  BY <1>1, <1>2, <1>3, <1>4

LEMMA IsolatedReport ==
  ASSUME NEW result, NEW id, Reports(result, id)
  PROVE  /\ Isolated(result).id = id
         /\ id \notin broken => Isolated(result) = result
         /\ id \in broken => Isolated(result).status = "error"
<1>1. result.id = id /\ "values" \in DOMAIN result
      /\ DOMAIN result = {"id", "status", "values", "steps"}
  BY DEF Reports, NotApplicable, Measured
<1>2. CASE id \notin broken
  BY <1>1, <1>2 DEF Isolated
<1>3. CASE id \in broken
  <2>1. Isolated(result) = [result EXCEPT !.status = "error", !.values = <<>>, !.steps = <<>>]
    BY <1>1, <1>3, Zenon DEF Isolated
  <2> QED
    BY <1>1, <1>3, <2>1
<1> QED
  BY <1>2, <1>3

LEMMA MeasureIs ==
  ASSUME NEW t
  PROVE  /\ DOMAIN Measure(t) = 1 .. 4
         /\ Measure(t)[1] = Isolated(ContextUsage(t.steps))
         /\ Measure(t)[2] = Isolated(ModelUsage(t.steps))
         /\ Measure(t)[3] = Isolated(RetryUsage(t.steps))
         /\ Measure(t)[4] = Isolated(ToolUsage(t.steps))
<1>1. PICK a, b, c, d : /\ a = ContextUsage(t.steps) /\ b = ModelUsage(t.steps)
                        /\ c = RetryUsage(t.steps) /\ d = ToolUsage(t.steps)
  OBVIOUS
<1>2. Measure(t) = Each(<<a, b, c, d>>)
  BY <1>1, Zenon DEF Measure
<1>3. Each(<<a, b, c, d>>) = [i \in 1 .. 4 |-> Isolated(<<a, b, c, d>>[i])]
  BY DEF Each
<1>4. /\ DOMAIN Each(<<a, b, c, d>>) = 1 .. 4
      /\ Each(<<a, b, c, d>>)[1] = Isolated(a) /\ Each(<<a, b, c, d>>)[2] = Isolated(b)
      /\ Each(<<a, b, c, d>>)[3] = Isolated(c) /\ Each(<<a, b, c, d>>)[4] = Isolated(d)
  BY <1>3
<1> QED
  BY <1>1, <1>2, <1>4, Zenon

(* Each detector has a result of its own id.                               *)
Judges(result, id) == result = Inapplicable(id) \/ \E findings : result = Analyzed(id, findings)

DetectorIds == <<"cache_retention_bloat", "context_bloat_without_compact", "oversized_tool_observation",
                 "post_compact_refetch", "repeated_tool_call", "retry_loop", "short_decision_churn",
                 "unchanged_tool_retry">>

LEMMA DetectorsJudge ==
  ASSUME NEW steps, NEW measured
  PROVE  /\ Judges(CacheRetentionBloat(measured), "cache_retention_bloat")
         /\ Judges(ContextBloat(measured), "context_bloat_without_compact")
         /\ Judges(OversizedToolObservation(steps), "oversized_tool_observation")
         /\ Judges(PostCompactRefetch(steps), "post_compact_refetch")
         /\ Judges(RepeatedToolCall(steps), "repeated_tool_call")
         /\ Judges(RetryLoop(steps), "retry_loop")
         /\ Judges(ShortDecisionChurn(steps), "short_decision_churn")
         /\ Judges(UnchangedToolRetry(steps), "unchanged_tool_retry")
<1>1. Judges(CacheRetentionBloat(measured), "cache_retention_bloat")
  BY Zenon DEF CacheRetentionBloat, Judges
<1>2. Judges(ContextBloat(measured), "context_bloat_without_compact")
  BY Zenon DEF ContextBloat, Judges
<1>3. Judges(OversizedToolObservation(steps), "oversized_tool_observation")
  BY Zenon DEF OversizedToolObservation, Judges
<1>4. Judges(PostCompactRefetch(steps), "post_compact_refetch")
  BY Zenon DEF PostCompactRefetch, Judges
<1>5. Judges(RepeatedToolCall(steps), "repeated_tool_call")
  BY Zenon DEF RepeatedToolCall, Judges
<1>6. Judges(RetryLoop(steps), "retry_loop")
  BY Zenon DEF RetryLoop, Judges
<1>7. Judges(ShortDecisionChurn(steps), "short_decision_churn")
  BY Zenon DEF ShortDecisionChurn, Judges
<1>8. Judges(UnchangedToolRetry(steps), "unchanged_tool_retry")
  BY Zenon DEF UnchangedToolRetry, Judges
<1> QED
  BY <1>1, <1>2, <1>3, <1>4, <1>5, <1>6, <1>7, <1>8, Zenon

LEMMA IsolatedJudgement ==
  ASSUME NEW result, NEW id, Judges(result, id)
  PROVE  /\ Isolated(result).id = id
         /\ id \notin broken => Isolated(result) = result
         /\ id \in broken => Isolated(result).status = "error"
<1>1. result.id = id /\ DOMAIN result = {"id", "status", "findings"}
  BY DEF Judges, Inapplicable, Analyzed, Detection
<1>2. CASE id \notin broken
  BY <1>1, <1>2 DEF Isolated
<1>3. CASE id \in broken
  <2>0. "findings" \in DOMAIN result /\ ~("values" \in DOMAIN result)
    BY <1>1
  <2>1. Isolated(result) = [result EXCEPT !.status = "error", !.findings = <<>>]
    BY <1>1, <1>3, <2>0 DEF Isolated
  <2> QED
    BY <1>1, <1>3, <2>1
<1> QED
  BY <1>2, <1>3

(* What the run has of one trajectory, detector by detector.               *)
LEMMA DetectIs ==
  ASSUME NEW t, NEW measured
  PROVE  /\ DOMAIN Detect(t, measured) = 1 .. 8
         /\ Detect(t, measured)[5] = Isolated(RepeatedToolCall(t.steps))
         /\ Detect(t, measured)[8] = Isolated(UnchangedToolRetry(t.steps))
         /\ \A k \in 1 .. 8 : \E x : Judges(x, DetectorIds[k]) /\ Detect(t, measured)[k] = Isolated(x)
<1>1. PICK a, b, c, d, e, f, g, h :
         /\ a = CacheRetentionBloat(measured) /\ b = ContextBloat(measured)
         /\ c = OversizedToolObservation(t.steps) /\ d = PostCompactRefetch(t.steps)
         /\ e = RepeatedToolCall(t.steps) /\ f = RetryLoop(t.steps)
         /\ g = ShortDecisionChurn(t.steps) /\ h = UnchangedToolRetry(t.steps)
  OBVIOUS
<1>2. Detect(t, measured) = Each(<<a, b, c, d, e, f, g, h>>)
  BY <1>1, Zenon DEF Detect
<1>3. Each(<<a, b, c, d, e, f, g, h>>) = [i \in 1 .. 8 |-> Isolated(<<a, b, c, d, e, f, g, h>>[i])]
  BY DEF Each
<1>4. DOMAIN Each(<<a, b, c, d, e, f, g, h>>) = 1 .. 8
  BY <1>3
<1>5. /\ Each(<<a, b, c, d, e, f, g, h>>)[5] = Isolated(e)
      /\ Each(<<a, b, c, d, e, f, g, h>>)[8] = Isolated(h)
  BY <1>3
<1>6. ASSUME NEW k \in 1 .. 8
      PROVE  \E x : Judges(x, DetectorIds[k]) /\ Each(<<a, b, c, d, e, f, g, h>>)[k] = Isolated(x)
  <2>1. /\ Judges(a, DetectorIds[1]) /\ Judges(b, DetectorIds[2]) /\ Judges(c, DetectorIds[3])
        /\ Judges(d, DetectorIds[4]) /\ Judges(e, DetectorIds[5]) /\ Judges(f, DetectorIds[6])
        /\ Judges(g, DetectorIds[7]) /\ Judges(h, DetectorIds[8])
    BY <1>1, DetectorsJudge DEF DetectorIds
  <2> DEFINE x == <<a, b, c, d, e, f, g, h>>[k]
  <2>2. Judges(x, DetectorIds[k])
    <3>1. \/ k = 1 \/ k = 2 \/ k = 3 \/ k = 4 \/ k = 5 \/ k = 6 \/ k = 7 \/ k = 8
      OBVIOUS
    <3> QED
      BY <2>1, <3>1
  <2>3. Each(<<a, b, c, d, e, f, g, h>>)[k] = Isolated(x)
    BY <1>3
  <2> HIDE DEF x
  <2> QED
    BY <2>2, <2>3
<1> QED
  BY <1>1, <1>2, <1>4, <1>5, <1>6, Zenon

LEMMA AnalysisIs ==
  ASSUME NEW t
  PROVE  /\ Analysis(t).t = t
         /\ Analysis(t)["measurements"] = Measure(t)
         /\ Analysis(t)["detections"] = Detect(t, Measure(t))
         /\ Analysis(t)["verifications"] = Verify(t, Measure(t))
<1>1. PICK m : m = Measure(t)
  OBVIOUS
<1>2. Analysis(t) = Judged(t, m)
  BY <1>1, Zenon DEF Analysis
<1>3. /\ Judged(t, m).t = t /\ Judged(t, m)["measurements"] = m
      /\ Judged(t, m)["detections"] = Detect(t, m) /\ Judged(t, m)["verifications"] = Verify(t, m)
  BY DEF Judged
<1> QED
  BY <1>1, <1>2, <1>3, Zenon

(* The evidence of a detector that does not raise is its own findings.     *)
LEMMA EvidenceIs ==
  ASSUME NEW t, NEW n \in 1 .. 8, NEW result, Judges(result, DetectorIds[n]),
         Detect(t, Measure(t))[n] = Isolated(result), DetectorIds[n] \notin broken
  PROVE  Evidence(Analysis(t), DetectorIds[n])
           = UNION {ToSet(result.findings[k]) : k \in DOMAIN result.findings}
<1>1. PICK D, id : D = Detect(t, Measure(t)) /\ id = DetectorIds[n]
  OBVIOUS
<1>2. Analysis(t)["detections"] = D
  BY <1>1, AnalysisIs, Zenon
<1>3. D[n] = result /\ result.id = id
  BY <1>1, IsolatedJudgement, Zenon
<1>4. DOMAIN D = 1 .. 8 /\ \A k \in 1 .. 8 : D[k].id = DetectorIds[k]
  <2>1. /\ DOMAIN D = 1 .. 8
        /\ \A k \in 1 .. 8 : \E x : Judges(x, DetectorIds[k]) /\ D[k] = Isolated(x)
    BY <1>1, DetectIs
  <2>2. ASSUME NEW k \in 1 .. 8 PROVE D[k].id = DetectorIds[k]
    <3>1. PICK x : Judges(x, DetectorIds[k]) /\ D[k] = Isolated(x)
      BY <2>1, Zenon
    <3>2. Isolated(x).id = DetectorIds[k]
      BY <3>1, IsolatedJudgement
    <3> QED
      BY <3>1, <3>2, Zenon
  <2> QED
    BY <2>1, <2>2, Zenon
<1>5. \A k \in 1 .. 8 : DetectorIds[k] = DetectorIds[n] => k = n
  BY DEF DetectorIds
<1>6. \A x \in ToSet(D) : x.id = id => x = result
  BY <1>1, <1>3, <1>4, <1>5 DEF ToSet
<1>7. result \in ToSet(D)
  BY <1>3, <1>4 DEF ToSet
<1>8. \A x \in Usable(Analysis(t), "detections", id) : x = result
  BY <1>2, <1>6, Zenon DEF Usable
<1>9. CASE result.status = "analyzed"
  <2>1. Usable(Analysis(t), "detections", id) = {result}
    <3>1. result \in Usable(Analysis(t), "detections", id)
      BY <1>2, <1>3, <1>7, <1>9 DEF Usable
    <3> QED
      BY <1>8, <3>1, Zenon
  <2> QED
    BY <1>1, <2>1 DEF Evidence
<1>10. CASE result.status # "analyzed"
  <2>1. result.findings = <<>> /\ result.status = "not_applicable"
    BY <1>10 DEF Judges, Inapplicable, Analyzed, Detection
  <2>2. Usable(Analysis(t), "detections", id) = {}
    BY <1>8, <2>1 DEF Usable
  <2>3. DOMAIN result.findings = {}
    BY <2>1
  <2>4. Evidence(Analysis(t), id) = {}
    BY <2>2, Zenon DEF Evidence
  <2> QED
    BY <1>1, <2>3, <2>4, Zenon
<1> QED
  BY <1>9, <1>10

LEMMA RepeatedEvidence ==
  ASSUME NEW t, SoundSteps(t.steps), "repeated_tool_call" \notin broken,
         NEW i \in Repeats(ToolCalls(t.steps))
  PROVE  ToolCalls(t.steps)[i].step.id \in Evidence(Analysis(t), "repeated_tool_call")
<1>1. PICK result : result = RepeatedToolCall(t.steps)
  OBVIOUS
<1>2. DetectorIds[5] = "repeated_tool_call" /\ 5 \in 1 .. 8
  BY DEF DetectorIds
<1>3. Judges(result, "repeated_tool_call")
  BY <1>1, DetectorsJudge, Zenon
<1>4. Detect(t, Measure(t))[5] = Isolated(result)
  BY <1>1, DetectIs, Zenon
<1>5. Evidence(Analysis(t), "repeated_tool_call")
           = UNION {ToSet(result.findings[k]) : k \in DOMAIN result.findings}
  <2>1. Judges(result, DetectorIds[5]) /\ DetectorIds[5] \notin broken
    BY <1>2, <1>3, Zenon
  <2>2. Evidence(Analysis(t), DetectorIds[5])
           = UNION {ToSet(result.findings[k]) : k \in DOMAIN result.findings}
    BY <1>2, <1>4, <2>1, EvidenceIs
  <2> QED
    BY <1>2, <2>2, Zenon
<1>6. \E k \in DOMAIN result.findings : ToolCalls(t.steps)[i].step.id \in ToSet(result.findings[k])
  BY <1>1, RepeatedIs, Zenon
<1> QED
  BY <1>5, <1>6, Zenon

(* A pair of equal calls has a step that the repeated-call detector reports. *)
LEMMA EqualCallsAreReported ==
  ASSUME NEW t, SoundSteps(t.steps), "repeated_tool_call" \notin broken
  PROVE  /\ \A p \in ToSet(RefetchPairs(t.steps)) : p[1] # p[2] /\
              {p[1], p[2]} \cap Evidence(Analysis(t), "repeated_tool_call") # {}
         /\ \A u \in ToSet(RetryTransitions(t.steps)) : ~ArgumentsChanged(u) =>
              /\ u.failed.step.id # u.retry.step.id
              /\ {u.failed.step.id, u.retry.step.id}
                   \cap Evidence(Analysis(t), "repeated_tool_call") # {}
<1>0. PICK calls, found : /\ calls = ToolCalls(t.steps)
                          /\ found = Evidence(Analysis(t), "repeated_tool_call")
  OBVIOUS
<1>1. \A i \in Repeats(calls) : calls[i].step.id \in found
  BY <1>0, RepeatedEvidence, Zenon
<1>2. ASSUME NEW p \in ToSet(RefetchPairs(t.steps))
      PROVE  p[1] # p[2] /\ {p[1], p[2]} \cap found # {}
  <2>1. p[1] # p[2]
    BY RefetchRepeats, Zenon
  <2>2. \E i, j \in DOMAIN calls :
           /\ i # j /\ Signature(calls[i]) = Signature(calls[j])
           /\ p = <<calls[i].step.id, calls[j].step.id>>
    <3>1. \E i, j \in DOMAIN ToolCalls(t.steps) :
             /\ i # j /\ Signature(ToolCalls(t.steps)[i]) = Signature(ToolCalls(t.steps)[j])
             /\ p = <<ToolCalls(t.steps)[i].step.id, ToolCalls(t.steps)[j].step.id>>
      BY RefetchRepeats
    <3> QED
      BY <1>0, <3>1
  <2>3. PICK i \in DOMAIN calls, j \in DOMAIN calls :
           /\ i # j /\ Signature(calls[i]) = Signature(calls[j])
           /\ p = <<calls[i].step.id, calls[j].step.id>>
    BY <2>2, Zenon
  <2>4. calls \in Seq(CallsOf(t.steps))
    BY <1>0, ToolCallsType, Zenon
  <2>5. i \in Repeats(calls) \/ j \in Repeats(calls)
    BY <2>3, <2>4, LaterRepeats, Zenon
  <2>6. p[1] = calls[i].step.id /\ p[2] = calls[j].step.id
    BY <2>3
  <2> QED
    BY <1>1, <2>1, <2>5, <2>6, Zenon
<1>3. ASSUME NEW u \in ToSet(RetryTransitions(t.steps)), ~ArgumentsChanged(u)
      PROVE  /\ u.failed.step.id # u.retry.step.id
             /\ {u.failed.step.id, u.retry.step.id} \cap found # {}
  <2>1. /\ u.failed.step.id # u.retry.step.id
        /\ \E j \in Repeats(calls) : u.retry = calls[j]
    BY <1>0, <1>3, UnchangedRepeats, Zenon
  <2>2. u.retry.step.id \in found
    BY <1>1, <2>1, Zenon
  <2> QED
    BY <2>1, <2>2, Zenon
<1> QED
  BY <1>0, <1>2, <1>3, Zenon

(* A part of two records as one: the first has its way.                    *)
LEMMA PlusIs ==
  ASSUME NEW f, NEW g, NEW name \in DOMAIN f
  PROVE  name \in DOMAIN (f ++ g) /\ (f ++ g)[name] = f[name]
BY DEF ++

Unchanged(moves) == Picked(moves, {k \in DOMAIN moves : ~ArgumentsChanged(moves[k])})
Changed(moves) == Picked(moves, {k \in DOMAIN moves : ArgumentsChanged(moves[k])})
Recoveries(moves) == Picked(moves, {k \in DOMAIN moves : Recovered(moves[k])})
FailedCalls(calls) == Picked(calls, {k \in DOMAIN calls : CallFailed(calls[k])})

RetryCounts(calls, moves) ==
  [failed_tool_call_count         |-> Len(FailedCalls(calls)),
   retried_failed_tool_call_count |-> Len(moves),
   unchanged_retry_count          |-> Len(Unchanged(moves)),
   changed_retry_count            |-> Len(Changed(moves)),
   recovered_retry_count          |-> Len(Recoveries(moves))]

LEMMA SelectedMoves ==
  ASSUME NEW moves
  PROVE  /\ Selected(moves, LAMBDA t : ~ArgumentsChanged(t)) = Unchanged(moves)
         /\ Selected(moves, ArgumentsChanged) = Changed(moves)
         /\ Selected(moves, Recovered) = Recoveries(moves)
         /\ Selected(moves, CallFailed) = FailedCalls(moves)
<1>1. Selected(moves, LAMBDA t : ~ArgumentsChanged(t)) = Unchanged(moves)
  BY ZenonT(60) DEF Selected, Ordered, Picked, Ranked, Arranged, Unchanged
<1>2. Selected(moves, ArgumentsChanged) = Changed(moves)
  BY ZenonT(60) DEF Selected, Ordered, Picked, Ranked, Arranged, Changed
<1>3. Selected(moves, Recovered) = Recoveries(moves)
  BY ZenonT(60) DEF Selected, Ordered, Picked, Ranked, Arranged, Recoveries
<1>4. Selected(moves, CallFailed) = FailedCalls(moves)
  BY ZenonT(60) DEF Selected, Ordered, Picked, Ranked, Arranged, FailedCalls
<1> QED
  BY <1>1, <1>2, <1>3, <1>4, ZenonT(60)

LEMMA RetryUsageIs ==
  ASSUME NEW steps
  PROVE  \/ ToolCalls(steps) = <<>> /\ RetryUsage(steps) = NotApplicable("retry_usage")
         \/ /\ ToolCalls(steps) # <<>>
            /\ \E rest, ids :
                 /\ DOMAIN rest \subseteq {"retried_failure_ratio"}
                 /\ RetryUsage(steps) = Measured("retry_usage",
                      RetryCounts(ToolCalls(steps), RetryTransitions(steps)) ++ rest, ids)
<1>1. PICK moves, calls : moves = RetryTransitions(steps) /\ calls = ToolCalls(steps)
  OBVIOUS
<1>2. ASSUME calls # <<>>
      PROVE  \E x, ids : RetryUsage(steps) = Measured("retry_usage",
               [failed_tool_call_count         |-> Len(Selected(calls, CallFailed)),
                retried_failed_tool_call_count |-> Len(moves),
                unchanged_retry_count |->
                    Len(Selected(moves, LAMBDA t : ~ArgumentsChanged(t))),
                changed_retry_count   |-> Len(Selected(moves, ArgumentsChanged)),
                recovered_retry_count |-> Len(Selected(moves, Recovered))]
                 ++ When(Selected(calls, CallFailed) # <<>>, [retried_failure_ratio |-> x]), ids)
  BY <1>1, <1>2, Zenon DEF RetryUsage
<1>3. calls = <<>> => RetryUsage(steps) = NotApplicable("retry_usage")
  BY <1>1, Zenon DEF RetryUsage
<1>4. [failed_tool_call_count         |-> Len(Selected(calls, CallFailed)),
       retried_failed_tool_call_count |-> Len(moves),
       unchanged_retry_count |-> Len(Selected(moves, LAMBDA t : ~ArgumentsChanged(t))),
       changed_retry_count   |-> Len(Selected(moves, ArgumentsChanged)),
       recovered_retry_count |-> Len(Selected(moves, Recovered))] = RetryCounts(calls, moves)
  BY SelectedMoves, Zenon DEF RetryCounts
<1>5. \A c \in BOOLEAN : \A x :
        DOMAIN When(c, [retried_failure_ratio |-> x]) \subseteq {"retried_failure_ratio"}
  BY DEF When
<1>6. (Selected(calls, CallFailed) # <<>>) \in BOOLEAN
  OBVIOUS
<1> QED
  BY <1>1, <1>2, <1>3, <1>4, <1>5, <1>6, Zenon

(* The retries of a trajectory, as a typed sequence.                       *)
LEMMA TransitionsType ==
  ASSUME NEW steps, SoundSteps(steps)
  PROVE  /\ IsTuple(RetryTransitions(steps)) /\ Len(RetryTransitions(steps)) \in Nat
         /\ DOMAIN RetryTransitions(steps) = 1 .. Len(RetryTransitions(steps))
         /\ Len(RetryTransitions(steps)) = Cardinality(Retried(ToolCalls(steps)))
<1>1. PICK calls, S : calls = ToolCalls(steps) /\ S = CallsOf(steps) /\ calls \in Seq(S)
  BY ToolCallsType
<1>2. PICK moves, T : moves = RetriesAmong(calls) /\ T = {Retry(calls, i) : i \in Retried(calls)}
  OBVIOUS
<1>3. moves \in Seq(T) /\ Len(moves) = Cardinality(Retried(calls))
  BY <1>1, <1>2, RetriesAre
<1>4. IsTuple(moves) /\ Len(moves) \in Nat /\ DOMAIN moves = 1 .. Len(moves)
  BY <1>3, SeqFacts
<1> QED
  BY <1>1, <1>2, <1>3, <1>4, Zenon DEF RetryTransitions

LEMMA IntervalCount == ASSUME NEW n \in Nat PROVE IsFiniteSet(1 .. n) /\ Cardinality(1 .. n) = n
<1>1. 1 \in Int /\ n \in Int
  OBVIOUS
<1>2. Cardinality(1 .. n) = (IF 1 > n THEN 0 ELSE n - 1 + 1)
  BY <1>1, FS_Interval, Zenon
<1> QED
  BY <1>1, <1>2, FS_Interval

LEMMA PickedLen ==
  ASSUME NEW T, NEW seq \in Seq(T), NEW I \in SUBSET DOMAIN seq
  PROVE  /\ Len(Picked(seq, I)) = Cardinality(I) /\ IsFiniteSet(I) /\ Cardinality(I) \in Nat
         /\ Picked(seq, I) = <<>> <=> I = {}
BY PickedIs, Zenon

(* Two parts of a finite set.                                              *)
LEMMA SplitCount ==
  ASSUME NEW A, NEW B, NEW C, IsFiniteSet(A), IsFiniteSet(B), A \cup B = C, A \cap B = {}
  PROVE  Cardinality(A) + Cardinality(B) = Cardinality(C)
<1>1. Cardinality(A \cup B) = Cardinality(A) + Cardinality(B) - Cardinality(A \cap B)
  BY FS_Union, Zenon
<1>2. Cardinality({}) = 0
  BY FS_EmptySet
<1>3. PICK a \in Nat, b \in Nat : a = Cardinality(A) /\ b = Cardinality(B)
  BY FS_CardinalityType
<1>4. Cardinality(A \cap B) = 0
  BY <1>2, Zenon
<1>5. Cardinality(C) = a + b - 0
  BY <1>1, <1>3, <1>4, Zenon
<1>6. a + b - 0 = a + b
  OBVIOUS
<1> QED
  BY <1>3, <1>5, <1>6, Zenon, SMTT(30)

(* The retries split into unchanged and changed ones, and only a failed    *)
(* call is retried.                                                        *)
LEMMA RetriesAddUp ==
  ASSUME NEW steps, SoundSteps(steps), NEW calls, calls = ToolCalls(steps),
         NEW moves, moves = RetryTransitions(steps)
  PROVE  /\ Len(Unchanged(moves)) + Len(Changed(moves)) = Len(moves)
         /\ Len(Recoveries(moves)) <= Len(moves)
         /\ Len(moves) <= Len(FailedCalls(calls))
         /\ Len(Unchanged(moves)) \in Nat
         /\ Unchanged(moves) = <<>> <=> Len(Unchanged(moves)) = 0
         /\ \A u \in ToSet(moves) : u \in {moves[k] : k \in 1 .. Len(moves)}
<1>1. PICK n : n = Len(moves) /\ n \in Nat /\ DOMAIN moves = 1 .. n /\ moves \in Seq(ToSet(moves))
  BY TransitionsType, TupleIs
<1> DEFINE U == {k \in DOMAIN moves : ~ArgumentsChanged(moves[k])}
           C == {k \in DOMAIN moves : ArgumentsChanged(moves[k])}
           R == {k \in DOMAIN moves : Recovered(moves[k])}
           F == {k \in DOMAIN calls : CallFailed(calls[k])}
<1>2. U \in SUBSET (1 .. n) /\ C \in SUBSET (1 .. n) /\ R \in SUBSET (1 .. n)
  BY <1>1
<1>3. Unchanged(moves) = Picked(moves, U) /\ Changed(moves) = Picked(moves, C)
      /\ Recoveries(moves) = Picked(moves, R) /\ FailedCalls(calls) = Picked(calls, F)
  BY Zenon DEF Unchanged, Changed, Recoveries, FailedCalls
<1>4. U \cup C = 1 .. n /\ U \cap C = {}
  BY <1>1
<1>5. PICK S : calls \in Seq(S)
  BY ToolCallsType
<1>6. Retried(calls) \subseteq F /\ F \in SUBSET DOMAIN calls
  BY DEF Retried
<1>7. n = Cardinality(Retried(calls))
  BY <1>1, TransitionsType
<1> HIDE DEF U, C, R, F
<1>8. /\ Len(Picked(moves, U)) = Cardinality(U) /\ IsFiniteSet(U) /\ Cardinality(U) \in Nat
      /\ Picked(moves, U) = <<>> <=> U = {}
  BY <1>1, <1>2, PickedLen
<1>81. Len(Picked(moves, C)) = Cardinality(C) /\ IsFiniteSet(C)
  BY <1>1, <1>2, PickedLen
<1>82. Len(Picked(moves, R)) = Cardinality(R)
  BY <1>1, <1>2, PickedLen
<1>9. Len(Picked(calls, F)) = Cardinality(F) /\ IsFiniteSet(F) /\ Cardinality(F) \in Nat
  BY <1>5, <1>6, PickedLen
<1>10. IsFiniteSet(1 .. n) /\ Cardinality(1 .. n) = n
  BY <1>1, IntervalCount
<1>11. Cardinality(U) + Cardinality(C) = n
  BY <1>4, <1>8, <1>81, <1>10, SplitCount
<1>12. Cardinality(R) <= n
  BY <1>2, <1>10, FS_Subset
<1>13. n <= Cardinality(F)
  BY <1>6, <1>7, <1>9, FS_Subset
<1>14. U = {} <=> Cardinality(U) = 0
  BY <1>8, FS_EmptySet
<1>15. \A u \in ToSet(moves) : u \in {moves[k] : k \in 1 .. n}
  BY <1>1, SMTT(30) DEF ToSet
<1> QED
  BY <1>1, <1>3, <1>8, <1>81, <1>82, <1>9, <1>11, <1>12, <1>13, <1>14, <1>15

(* The threshold verifier, given the measurements it selects.              *)
Compared(sources, name, limit) ==
  LET id == "measurement_threshold"
  IN  IF sources = <<>> THEN Unverified(id, "not_applicable")
      ELSE IF Len(sources) > 1 \/ sources[1].status = "error" THEN Unverified(id, "error")
      ELSE IF sources[1].status # "measured" \/ name \notin DOMAIN sources[1].values
           THEN Unverified(id, "not_applicable")
      ELSE Verification(id, "verified",
             IF sources[1].values[name] <= limit THEN "pass" ELSE "fail", sources[1].steps)
Sources(results, measurer) == Picked(results, {i \in DOMAIN results : results[i].id = measurer})

LEMMA ThresholdIs ==
  ASSUME NEW results, NEW measurer, NEW name, NEW limit
  PROVE  MeasurementThreshold(results, measurer, name, limit)
           = Compared(Sources(results, measurer), name, limit)
BY Zenon DEF MeasurementThreshold, Compared, Sources, Selected, Ordered, Picked, Ranked, Arranged

LEMMA OneSource ==
  ASSUME NEW t
  PROVE  /\ Len(Sources(Measure(t), "retry_usage")) = 1
         /\ Sources(Measure(t), "retry_usage")[1] = Isolated(RetryUsage(t.steps))
<1>1. PICK m : m = Measure(t)
  OBVIOUS
<1>2. DOMAIN m = 1 .. 4 /\ m[3] = Isolated(RetryUsage(t.steps))
  BY <1>1, MeasureIs
<1>3. /\ m[1].id = "context_usage" /\ m[2].id = "model_usage" /\ m[3].id = "retry_usage"
      /\ m[4].id = "tool_usage"
  <2>1. /\ m[1] = Isolated(ContextUsage(t.steps)) /\ m[2] = Isolated(ModelUsage(t.steps))
        /\ m[3] = Isolated(RetryUsage(t.steps)) /\ m[4] = Isolated(ToolUsage(t.steps))
    BY <1>1, MeasureIs
  <2>2. Isolated(ContextUsage(t.steps)).id = "context_usage"
    BY MeasurersReport, IsolatedReport, Zenon
  <2>3. Isolated(ModelUsage(t.steps)).id = "model_usage"
    BY MeasurersReport, IsolatedReport, Zenon
  <2>4. Isolated(RetryUsage(t.steps)).id = "retry_usage"
    BY MeasurersReport, IsolatedReport, Zenon
  <2>5. Isolated(ToolUsage(t.steps)).id = "tool_usage"
    BY MeasurersReport, IsolatedReport, Zenon
  <2> QED
    BY <2>1, <2>2, <2>3, <2>4, <2>5, Zenon
<1>4. {i \in DOMAIN m : m[i].id = "retry_usage"} = {3}
  BY <1>2, <1>3
<1>5. PICK T : m \in Seq(T)
  <2>1. m = [i \in 1 .. 4 |-> m[i]]
    <3>1. \E f : m = Each(f)
      BY <1>1, Zenon DEF Measure
    <3>2. PICK f : m = [i \in DOMAIN f |-> Isolated(f[i])]
      BY <3>1, Zenon DEF Each
    <3>3. DOMAIN f = 1 .. 4
      BY <1>2, <3>2
    <3> QED
      BY <3>2, <3>3
  <2>2. m \in [1 .. 4 -> {m[i] : i \in 1 .. 4}]
    BY <2>1
  <2>3. 4 \in Nat
    OBVIOUS
  <2>4. m \in Seq({m[i] : i \in 1 .. 4})
    BY <2>2, <2>3, SeqOfFunction
  <2> QED
    BY <2>4, Zenon
<1>6. Sources(m, "retry_usage") = Picked(m, {3})
  BY <1>4, Zenon DEF Sources
<1>7. {3} \in SUBSET DOMAIN m
  BY <1>2
<1>8. Cardinality({3}) = 1
  BY FS_Singleton
<1>9. Len(Picked(m, {3})) = Cardinality({3}) /\ \A k \in 1 .. Cardinality({3}) :
          Ranked({3})[k] \in {3} /\ Picked(m, {3})[k] = m[Ranked({3})[k]]
  BY <1>5, <1>7, PickedIs
<1> QED
  BY <1>1, <1>2, <1>6, <1>8, <1>9

(* Verifiers too have ids of their own.                                    *)
Rules(result, id) == \E status, verdict, ids : result = Verification(id, status, verdict, ids)

LEMMA VerifiersRule ==
  ASSUME NEW t, NEW measured, NEW name, NEW limit, NEW measurer
  PROVE  /\ Rules(ExecutionSuccess(t.outcome), "execution_success")
         /\ Rules(ToolSuccess(t.steps), "tool_success")
         /\ Rules(MeasurementThreshold(measured, measurer, name, limit), "measurement_threshold")
<1>1. Rules(ExecutionSuccess(t.outcome), "execution_success")
  BY Zenon DEF ExecutionSuccess, Unverified, Rules
<1>2. Rules(ToolSuccess(t.steps), "tool_success")
  BY Zenon DEF ToolSuccess, Unverified, Rules
<1>3. Rules(MeasurementThreshold(measured, measurer, name, limit), "measurement_threshold")
  BY Zenon DEF MeasurementThreshold, Unverified, Rules
<1> QED
  BY <1>1, <1>2, <1>3

LEMMA IsolatedRuling ==
  ASSUME NEW result, NEW id, Rules(result, id)
  PROVE  /\ Isolated(result).id = id
         /\ id \notin broken => Isolated(result) = result
         /\ id \in broken => Isolated(result).status = "error"
<1>1. result.id = id /\ DOMAIN result = {"id", "status", "verdict", "steps"}
  BY DEF Rules, Verification
<1>2. CASE id \notin broken
  BY <1>1, <1>2 DEF Isolated
<1>3. CASE id \in broken
  <2>0. "verdict" \in DOMAIN result /\ ~("values" \in DOMAIN result) /\ ~("findings" \in DOMAIN result)
    BY <1>1
  <2>1. Isolated(result) = [result EXCEPT !.status = "error", !.verdict = "none", !.steps = <<>>]
    BY <1>1, <1>3, <2>0 DEF Isolated
  <2> QED
    BY <1>1, <1>3, <2>1
<1> QED
  BY <1>2, <1>3

(* A verdict of the threshold verifier is about the measured retries.      *)
LEMMA ThresholdVerdict ==
  ASSUME NEW t, SoundSteps(t.steps),
         NEW v \in Usable(Analysis(t), "verifications", "measurement_threshold")
  PROVE  /\ ToolCalls(t.steps) # <<>>
         /\ v.verdict = "fail" <=> Unchanged(RetryTransitions(t.steps)) # <<>>
<1> DEFINE name == "unchanged_retry_count"
<1>1. PICK m, V, a, b, c :
        /\ m = Measure(t) /\ V = Verify(t, m) /\ a = ExecutionSuccess(t.outcome)
        /\ b = ToolSuccess(t.steps) /\ c = MeasurementThreshold(m, "retry_usage", name, 0)
  OBVIOUS
<1>2. V = Each(<<a, b, c>>)
  BY <1>1, Zenon DEF Verify
<1>3. DOMAIN V = 1 .. 3 /\ V[1] = Isolated(a) /\ V[2] = Isolated(b) /\ V[3] = Isolated(c)
  BY <1>2 DEF Each
<1>4. /\ Rules(a, "execution_success") /\ Rules(b, "tool_success")
      /\ Rules(c, "measurement_threshold")
  BY <1>1, VerifiersRule, Zenon
<1>5. v \in ToSet(V) /\ v.id = "measurement_threshold" /\ v.status \in {"analyzed", "measured", "verified"}
  BY <1>1, AnalysisIs DEF Usable
<1>6. v = Isolated(c)
  BY <1>3, <1>4, <1>5, IsolatedRuling DEF ToSet
<1>7. v = c
  BY <1>4, <1>5, <1>6, IsolatedRuling
<1>8. PICK sources : sources = Sources(m, "retry_usage") /\ c = Compared(sources, name, 0)
  BY <1>1, ThresholdIs
<1>9. Len(sources) = 1 /\ sources[1] = Isolated(RetryUsage(t.steps))
  BY <1>1, <1>8, OneSource
<1>10. PICK s : s = sources[1]
  OBVIOUS
<1>11. /\ sources # <<>> /\ s.status = "measured" /\ name \in DOMAIN s.values
       /\ v.verdict = IF s.values[name] <= 0 THEN "pass" ELSE "fail"
  BY <1>5, <1>7, <1>8, <1>9, <1>10 DEF Compared, Unverified, Verification
<1>12. Reports(RetryUsage(t.steps), "retry_usage")
  BY MeasurersReport
<1>13. s = RetryUsage(t.steps)
  BY <1>9, <1>10, <1>11, <1>12, IsolatedReport
<1>14. PICK calls, moves : calls = ToolCalls(t.steps) /\ moves = RetryTransitions(t.steps)
  OBVIOUS
<1>15. calls # <<>> /\ \E rest, ids : s = Measured("retry_usage", RetryCounts(calls, moves) ++ rest, ids)
  <2>1. s # NotApplicable("retry_usage")
    BY <1>11 DEF NotApplicable
  <2> QED
    BY <1>13, <1>14, <2>1, RetryUsageIs
<1>16. s.values[name] = Len(Unchanged(moves))
  <2>1. PICK rest, ids : s = Measured("retry_usage", RetryCounts(calls, moves) ++ rest, ids)
    BY <1>15
  <2>2. PICK counts : counts = RetryCounts(calls, moves)
    OBVIOUS
  <2>3. name \in DOMAIN counts /\ counts[name] = Len(Unchanged(moves))
    BY <2>2 DEF RetryCounts
  <2>4. (counts ++ rest)[name] = counts[name]
    BY <2>3, PlusIs
  <2>5. s.values = counts ++ rest
    BY <2>1, <2>2 DEF Measured
  <2> QED
    BY <2>3, <2>4, <2>5
<1>17. Len(Unchanged(moves)) \in Nat /\ (Unchanged(moves) = <<>> <=> Len(Unchanged(moves)) = 0)
  BY <1>14, RetriesAddUp
<1>18. PICK n \in Nat : n = Len(Unchanged(moves))
  BY <1>17
<1>19. v.verdict = "fail" <=> n # 0
  BY <1>11, <1>16, <1>18
<1> QED
  BY <1>14, <1>15, <1>17, <1>18, <1>19

Pairs(same) == [i \in DOMAIN same |-> <<same[i].failed.step.id, same[i].retry.step.id>>]

LEMMA UnchangedRetryIs ==
  ASSUME NEW steps, ToolCalls(steps) # <<>>
  PROVE  UnchangedToolRetry(steps) = Analyzed("unchanged_tool_retry",
           IF Unchanged(RetryTransitions(steps)) = <<>> THEN <<>>
           ELSE <<Distinct(FlattenSeq(Pairs(Unchanged(RetryTransitions(steps)))))>>)
<1>1. PICK moves : moves = RetryTransitions(steps)
  OBVIOUS
<1>2. UnchangedToolRetry(steps) =
        LET same == Selected(moves, LAMBDA t : ~ArgumentsChanged(t))
        IN  Analyzed("unchanged_tool_retry", IF same = <<>> THEN <<>>
               ELSE <<Distinct(FlattenSeq(Pairs(same)))>>)
  BY <1>1, Zenon DEF UnchangedToolRetry, Pairs
<1>3. Selected(moves, LAMBDA t : ~ArgumentsChanged(t)) = Unchanged(moves)
  BY SelectedMoves, Zenon
<1> QED
  BY <1>1, <1>2, <1>3, Zenon

(* The steps of at least one retry are at least one step.                  *)
LEMMA SomePair ==
  ASSUME NEW T, NEW same \in Seq(T), same # <<>>
  PROVE  \E id : id \in ToSet(Distinct(FlattenSeq(Pairs(same))))
<1>1. PICK n : n = Len(same) /\ n \in Nat /\ DOMAIN same = 1 .. n
  BY SeqFacts
<1> DEFINE S == {same[i].failed.step.id : i \in 1 .. n} \cup {same[i].retry.step.id : i \in 1 .. n}
<1>2. PICK pairs : pairs = Pairs(same)
  OBVIOUS
<1>3. pairs \in [1 .. n -> Seq(S)] /\ \A i \in 1 .. n : pairs[i] # <<>>
  BY <1>1, <1>2 DEF Pairs
<1> HIDE DEF S
<1>4. pairs \in Seq(Seq(S)) /\ Len(pairs) = n
  BY <1>1, <1>3, SeqOfFunction
<1>5. n # 0
  BY <1>1, EmptySeq
<1>6. pairs # <<>>
  BY <1>1, <1>4, <1>5
<1>7. PICK flat : flat = FlattenSeq(pairs)
  OBVIOUS
<1>8. flat \in Seq(S) /\ flat # <<>>
  BY <1>3, <1>4, <1>6, <1>7, FlatType, FlatNotEmpty
<1>9. PICK d : d = Distinct(flat)
  OBVIOUS
<1>10. d \in Seq(S) /\ d # <<>>
  BY <1>8, <1>9, DistinctIs
<1>11. d[1] \in ToSet(d)
  BY <1>10 DEF ToSet
<1> QED
  BY <1>2, <1>7, <1>9, <1>11

LEMMA UnchangedEvidence ==
  ASSUME NEW t, SoundSteps(t.steps), "unchanged_tool_retry" \notin broken, ToolCalls(t.steps) # <<>>
  PROVE  Evidence(Analysis(t), "unchanged_tool_retry") # {}
           <=> Unchanged(RetryTransitions(t.steps)) # <<>>
<1>1. PICK result, moves, same : /\ result = UnchangedToolRetry(t.steps)
                                 /\ moves = RetryTransitions(t.steps) /\ same = Unchanged(moves)
  OBVIOUS
<1>2. DetectorIds[8] = "unchanged_tool_retry" /\ 8 \in 1 .. 8
  BY DEF DetectorIds
<1>3. Judges(result, "unchanged_tool_retry")
  BY <1>1, DetectorsJudge, Zenon
<1>4. Detect(t, Measure(t))[8] = Isolated(result)
  BY <1>1, DetectIs, Zenon
<1>5. Judges(result, DetectorIds[8]) /\ DetectorIds[8] \notin broken
  BY <1>2, <1>3, Zenon
<1>6. Evidence(Analysis(t), DetectorIds[8])
           = UNION {ToSet(result.findings[k]) : k \in DOMAIN result.findings}
  BY <1>2, <1>4, <1>5, EvidenceIs
<1>7. Evidence(Analysis(t), "unchanged_tool_retry")
           = UNION {ToSet(result.findings[k]) : k \in DOMAIN result.findings}
  BY <1>2, <1>6, Zenon
<1>8. result = Analyzed("unchanged_tool_retry",
           IF same = <<>> THEN <<>> ELSE <<Distinct(FlattenSeq(Pairs(same)))>>)
  BY <1>1, UnchangedRetryIs, Zenon
<1>9. CASE same = <<>>
  <2>1. DOMAIN result.findings = {}
    BY <1>8, <1>9 DEF Analyzed, Detection
  <2> QED
    BY <1>1, <1>7, <1>9, <2>1, Zenon
<1>10. CASE same # <<>>
  <2>1. PICK d : d = Distinct(FlattenSeq(Pairs(same)))
    OBVIOUS
  <2>2. PICK T : same \in Seq(T)
    <3>1. moves \in Seq(ToSet(moves)) /\ {k \in DOMAIN moves : ~ArgumentsChanged(moves[k])} \in SUBSET DOMAIN moves
      BY <1>1, TransitionsType, TupleIs
    <3>2. Picked(moves, {k \in DOMAIN moves : ~ArgumentsChanged(moves[k])}) \in Seq(ToSet(moves))
      BY <3>1, PickedIs
    <3> QED
      BY <1>1, <3>2, Zenon DEF Unchanged
  <2>3. PICK id : id \in ToSet(d)
    BY <1>10, <2>1, <2>2, SomePair, Zenon
  <2>4. result.findings = <<d>>
    BY <1>8, <1>10, <2>1 DEF Analyzed, Detection
  <2>5. 1 \in DOMAIN result.findings /\ result.findings[1] = d
    BY <2>4
  <2>6. id \in UNION {ToSet(result.findings[k]) : k \in DOMAIN result.findings}
    BY <2>3, <2>5, Zenon
  <2> QED
    BY <1>1, <1>7, <1>10, <2>6, Zenon
<1> QED
  BY <1>9, <1>10

(* One trajectory's results agree.                                         *)
Agrees(r) ==
  LET pairs == ToSet(RefetchPairs(r.t.steps))
                 \cup { <<t.failed.step.id, t.retry.step.id>> : t \in
                       { u \in ToSet(RetryTransitions(r.t.steps)) : ~ArgumentsChanged(u) } }
  IN  /\ "repeated_tool_call" \notin broken =>
           \A p \in pairs : p[1] # p[2] /\
              {p[1], p[2]} \cap Evidence(r, "repeated_tool_call") # {}
      /\ \A v \in Usable(r, "verifications", "measurement_threshold") :
           "unchanged_tool_retry" \notin broken =>
              (v.verdict = "fail" <=> Evidence(r, "unchanged_tool_retry") # {})

LEMMA AnalysisAgrees ==
  ASSUME NEW t, SoundSteps(t.steps)
  PROVE  Agrees(Analysis(t))
<1>1. PICK r : r = Analysis(t) /\ r.t = t
  BY AnalysisIs
<1>2. ASSUME "repeated_tool_call" \notin broken,
             NEW p \in ToSet(RefetchPairs(t.steps))
                 \cup { <<u.failed.step.id, u.retry.step.id>> : u \in
                       { w \in ToSet(RetryTransitions(t.steps)) : ~ArgumentsChanged(w) } }
      PROVE  p[1] # p[2] /\ {p[1], p[2]} \cap Evidence(r, "repeated_tool_call") # {}
  <2>1. PICK found : found = Evidence(r, "repeated_tool_call")
    OBVIOUS
  <2>2. /\ \A q \in ToSet(RefetchPairs(t.steps)) : q[1] # q[2] /\ {q[1], q[2]} \cap found # {}
        /\ \A u \in ToSet(RetryTransitions(t.steps)) : ~ArgumentsChanged(u) =>
              /\ u.failed.step.id # u.retry.step.id
              /\ {u.failed.step.id, u.retry.step.id} \cap found # {}
    BY <1>1, <1>2, <2>1, EqualCallsAreReported
  <2>3. CASE p \in ToSet(RefetchPairs(t.steps))
    BY <2>1, <2>2, <2>3, Zenon
  <2>4. ASSUME NEW u \in ToSet(RetryTransitions(t.steps)), ~ArgumentsChanged(u),
               p = <<u.failed.step.id, u.retry.step.id>>
        PROVE  p[1] # p[2] /\ {p[1], p[2]} \cap Evidence(r, "repeated_tool_call") # {}
    <3>1. p[1] = u.failed.step.id /\ p[2] = u.retry.step.id
      BY <2>4
    <3> QED
      BY <2>1, <2>2, <2>4, <3>1, Zenon
  <2> QED
    BY <2>3, <2>4
<1>3. ASSUME NEW v \in Usable(r, "verifications", "measurement_threshold"),
             "unchanged_tool_retry" \notin broken
      PROVE  v.verdict = "fail" <=> Evidence(r, "unchanged_tool_retry") # {}
  BY <1>1, <1>3, ThresholdVerdict, UnchangedEvidence, Zenon
<1> QED
  BY <1>1, <1>2, <1>3, Zenon DEF Agrees

-----------------------------------------------------------------------------
(* Sums: sigma gives the sum of f over each part of S, one element at a    *)
(* time, whichever it is.                                                  *)
IsSum(sigma, f, S) ==
  /\ sigma \in [SUBSET S -> Int] /\ sigma[{}] = 0
  /\ \A s \in SUBSET S : \A x \in s : sigma[s] = f[x] + sigma[s \ {x}]

LEMMA OneMoreSum ==
  ASSUME NEW A, NEW x, x \notin A, NEW f \in [A \cup {x} -> Int], NEW g, IsSum(g, f, A)
  PROVE  IsSum([s \in SUBSET (A \cup {x}) |-> IF x \in s THEN f[x] + g[s \ {x}] ELSE g[s]],
               f, A \cup {x})
<1> DEFINE S == A \cup {x}
           sigma == [s \in SUBSET S |-> IF x \in s THEN f[x] + g[s \ {x}] ELSE g[s]]
<1>1. g \in [SUBSET A -> Int] /\ g[{}] = 0
      /\ \A s \in SUBSET A : \A y \in s : g[s] = f[y] + g[s \ {y}]
  BY DEF IsSum
<1>2. \A s \in SUBSET S : s \ {x} \in SUBSET A /\ (x \notin s => s \in SUBSET A)
  OBVIOUS
<1>3. f[x] \in Int
  OBVIOUS
<1>4. sigma \in [SUBSET S -> Int]
  BY <1>1, <1>2, <1>3
<1>5. sigma[{}] = 0
  BY <1>1
<1>6. ASSUME NEW s \in SUBSET S, NEW y \in s
      PROVE  sigma[s] = f[y] + sigma[s \ {y}]
  <2>1. s \ {y} \in SUBSET S /\ f[y] \in Int
    OBVIOUS
  <2>2. CASE y = x
    <3>1. sigma[s] = f[x] + g[s \ {x}] /\ sigma[s \ {x}] = g[s \ {x}]
      BY <2>1, <2>2
    <3> QED
      BY <2>2, <3>1
  <2>3. CASE y # x /\ x \in s
    <3>1. PICK a, b : a = s \ {x} /\ b = (s \ {y}) \ {x}
      OBVIOUS
    <3>2. a \in SUBSET A /\ y \in a /\ b = a \ {y} /\ b \in SUBSET A
      BY <1>2, <2>3, <3>1
    <3>3. sigma[s] = f[x] + g[a] /\ sigma[s \ {y}] = f[x] + g[b]
      BY <2>1, <2>3, <3>1
    <3>4. g[a] = f[y] + g[b] /\ g[b] \in Int
      BY <1>1, <3>2
    <3> HIDE DEF sigma
    <3>5. PICK i \in Int, j \in Int, k \in Int : i = f[x] /\ j = f[y] /\ k = g[b]
      BY <1>3, <2>1, <3>4
    <3>6. i + (j + k) = j + (i + k)
      OBVIOUS
    <3>7. sigma[s] = i + (j + k) /\ sigma[s \ {y}] = i + k
      BY <3>3, <3>4, <3>5
    <3> QED
      BY <3>5, <3>6, <3>7
  <2>4. CASE x \notin s
    <3>1. s \in SUBSET A /\ x \notin s \ {y}
      BY <1>2, <2>4
    <3>2. sigma[s] = g[s] /\ sigma[s \ {y}] = g[s \ {y}]
      BY <2>1, <2>4, <3>1
    <3>3. g[s] = f[y] + g[s \ {y}]
      BY <1>1, <3>1
    <3> QED
      BY <3>2, <3>3
  <2> QED
    BY <2>2, <2>3, <2>4
<1> HIDE DEF sigma
<1>7. IsSum(sigma, f, S)
  BY <1>4, <1>5, <1>6 DEF IsSum
<1> QED
  BY <1>7 DEF sigma

(* The sums over the parts of a finite set exist.                          *)
LEMMA SumExists ==
  ASSUME NEW S, IsFiniteSet(S), NEW f \in [S -> Int]
  PROVE  \E sigma : IsSum(sigma, f, S)
<1> DEFINE n == Cardinality(S)
           Summed(m) == \A A \in SUBSET S : Cardinality(A) = m => \E sigma : IsSum(sigma, f, A)
           B == {m \in 0 .. n : Summed(m)}
<1>1. n \in Nat
  BY FS_CardinalityType
<1>2. Summed(0)
  <2> SUFFICES ASSUME NEW A \in SUBSET S, Cardinality(A) = 0 PROVE \E sigma : IsSum(sigma, f, A)
    OBVIOUS
  <2>1. A = {}
    BY FS_Subset, FS_EmptySet
  <2> DEFINE sigma == [s \in SUBSET A |-> 0]
  <2>2. IsSum(sigma, f, A)
    BY <2>1 DEF IsSum
  <2> QED
    BY <2>2
<1>3. ASSUME NEW m \in 0 .. n - 1, Summed(m) PROVE Summed(m + 1)
  <2> SUFFICES ASSUME NEW A \in SUBSET S, Cardinality(A) = m + 1 PROVE \E sigma : IsSum(sigma, f, A)
    OBVIOUS
  <2>1. IsFiniteSet(A) /\ m + 1 # 0 /\ m \in Nat
    BY <1>1, FS_Subset
  <2>2. PICK x \in A : TRUE
    BY <2>1, FS_EmptySet
  <2>3. Cardinality(A \ {x}) = Cardinality(A) - 1
    BY <2>1, FS_RemoveElement
  <2>4. Cardinality(A \ {x}) = m
    BY <2>1, <2>3
  <2>5. A \ {x} \in SUBSET S
    OBVIOUS
  <2>6. PICK g : IsSum(g, f, A \ {x})
    BY <1>3, <2>4, <2>5
  <2>7. PICK C, e : C = A \ {x} /\ e = [y \in A |-> f[y]]
    OBVIOUS
  <2>8. A = C \cup {x} /\ x \notin C /\ e \in [C \cup {x} -> Int]
    BY <2>7
  <2>9. IsSum(g, e, C)
    BY <2>6, <2>7 DEF IsSum
  <2>10. \E sigma : IsSum(sigma, e, C \cup {x})
    BY <2>8, <2>9, OneMoreSum
  <2>11. PICK sigma : IsSum(sigma, e, A)
    BY <2>8, <2>10
  <2>12. IsSum(sigma, f, A)
    BY <2>7, <2>11 DEF IsSum
  <2> QED
    BY <2>12
<1> HIDE DEF Summed
<1>4. 0 \in B /\ n \in 0 .. n
  BY <1>1, <1>2
<1>5. \A m \in 0 .. n - 1 : m \in B => m + 1 \in B
  BY <1>1, <1>3
<1> HIDE DEF B
<1>6. n \in B
  BY <1>1, <1>4, <1>5, IntervalInduction
<1>7. Summed(n)
  BY <1>6 DEF B
<1> QED
  BY <1>7 DEF Summed

(* Induction over the parts of a finite set.                               *)
LEMMA SubsetInduction ==
  ASSUME NEW S, IsFiniteSet(S), NEW Q, {} \in Q,
         \A s \in SUBSET S : s # {} => \E x \in s : s \ {x} \in Q => s \in Q
  PROVE  \A s \in SUBSET S : s \in Q
<1> DEFINE n == Cardinality(S)
           Have(m) == \A s \in SUBSET S : Cardinality(s) = m => s \in Q
           B == {m \in 0 .. n : Have(m)}
<1>1. n \in Nat
  BY FS_CardinalityType
<1>2. Have(0)
  <2> SUFFICES ASSUME NEW s \in SUBSET S, Cardinality(s) = 0 PROVE s \in Q
    OBVIOUS
  <2>1. s = {}
    BY FS_Subset, FS_EmptySet
  <2> QED
    BY <2>1
<1>3. ASSUME NEW m \in 0 .. n - 1, Have(m) PROVE Have(m + 1)
  <2> SUFFICES ASSUME NEW s \in SUBSET S, Cardinality(s) = m + 1 PROVE s \in Q
    OBVIOUS
  <2>1. IsFiniteSet(s) /\ m + 1 # 0 /\ m \in Nat
    BY <1>1, FS_Subset
  <2>2. s # {}
    BY <2>1, FS_EmptySet
  <2>3. PICK x \in s : s \ {x} \in Q => s \in Q
    BY <2>2
  <2>4. Cardinality(s \ {x}) = Cardinality(s) - 1
    BY <2>1, FS_RemoveElement
  <2>5. Cardinality(s \ {x}) = m
    BY <2>1, <2>4
  <2>6. s \ {x} \in Q
    BY <1>3, <2>5
  <2> QED
    BY <2>3, <2>6
<1> HIDE DEF Have
<1>4. 0 \in B
  BY <1>1, <1>2
<1>5. \A m \in 0 .. n - 1 : m \in B => m + 1 \in B
  BY <1>1, <1>3
<1> HIDE DEF B
<1>6. \A m \in 0 .. n : m \in B
  BY <1>1, <1>4, <1>5, IntervalInduction
<1>7. ASSUME NEW s \in SUBSET S PROVE s \in Q
  <2>1. Cardinality(s) \in Nat /\ Cardinality(s) <= n
    BY FS_Subset, FS_CardinalityType
  <2>2. Cardinality(s) \in B
    BY <1>1, <1>6, <2>1
  <2>3. Have(Cardinality(s))
    BY <2>2 DEF B
  <2> QED
    BY <2>3 DEF Have
<1> QED
  BY <1>7

LEMMA TotalIs ==
  ASSUME NEW seq \in Seq(Int), NEW sigma, IsSum(sigma, seq, DOMAIN seq)
  PROVE  Total(seq) = sigma[DOMAIN seq] /\ Total(seq) \in Int
<1> DEFINE S == DOMAIN seq
           Body(g) == [s \in SUBSET S |-> IF s = {} THEN 0 ELSE g[s \ {Max(s)}] + seq[Max(s)]]
           it == CHOOSE g : g = Body(g)
<1>1. Total(seq) = it[S]
  BY Zenon DEF Total, FoldLeft, MapThenFoldSet
<1>2. Len(seq) \in Nat /\ S = 1 .. Len(seq) /\ \A i \in S : seq[i] \in Int
  BY SeqFacts
<1>3. IsFiniteSet(S)
  BY <1>2, IntervalCount
<1> HIDE DEF S
<1>4. ASSUME NEW s \in SUBSET S, s # {} PROVE Max(s) \in s
  <2>1. s \in SUBSET Int
    BY <1>2
  <2>2. IsFiniteSet(s)
    BY <1>3, FS_Subset
  <2> QED
    BY <1>4, <2>1, <2>2, MaxIs
<1>5. /\ sigma \in [SUBSET S -> Int] /\ sigma[{}] = 0
      /\ \A s \in SUBSET S : \A x \in s : sigma[s] = seq[x] + sigma[s \ {x}]
  BY DEF IsSum, S
<1>6. sigma = Body(sigma)
  <2>1. ASSUME NEW s \in SUBSET S, s # {} PROVE sigma[s] = sigma[s \ {Max(s)}] + seq[Max(s)]
    <3>1. PICK x : x = Max(s) /\ x \in s
      BY <1>4, <2>1
    <3>2. s \ {x} \in SUBSET S /\ seq[x] \in Int
      BY <1>2, <3>1
    <3>3. sigma[s] = seq[x] + sigma[s \ {x}] /\ sigma[s \ {x}] \in Int
      BY <1>5, <3>1, <3>2
    <3> QED
      BY <3>1, <3>2, <3>3
  <2> QED
    BY <1>5, <2>1
<1>7. it = Body(it)
  <2> HIDE DEF Body
  <2> QED
    BY <1>6
<1>8. it[{}] = 0 /\ \A s \in SUBSET S : s # {} => it[s] = it[s \ {Max(s)}] + seq[Max(s)]
  <2> HIDE DEF it
  <2> QED
    BY <1>7
<1> DEFINE Q == {s \in SUBSET S : it[s] = sigma[s]}
<1>9. \A s \in SUBSET S : s \in Q
  <2> HIDE DEF it
  <2>1. {} \in Q
    BY <1>5, <1>8
  <2>2. ASSUME NEW s \in SUBSET S, s # {} PROVE \E x \in s : s \ {x} \in Q => s \in Q
    <3>1. PICK x : x = Max(s) /\ x \in s
      BY <1>4, <2>2
    <3>2. s \ {x} \in SUBSET S /\ seq[x] \in Int
      BY <1>2, <3>1
    <3>3. sigma[s] = seq[x] + sigma[s \ {x}] /\ sigma[s \ {x}] \in Int
      BY <1>5, <3>1, <3>2
    <3>4. it[s] = it[s \ {x}] + seq[x]
      BY <1>8, <2>2, <3>1
    <3>5. it[s \ {x}] = sigma[s \ {x}] => it[s] = sigma[s]
      BY <3>2, <3>3, <3>4
    <3> QED
      BY <3>1, <3>5
  <2> HIDE DEF Q
  <2> QED
    BY <1>3, <2>1, <2>2, SubsetInduction
<1>10. it[S] = sigma[S]
  <2> HIDE DEF it
  <2> QED
    BY <1>9
<1> QED
  BY <1>1, <1>5, <1>10 DEF S

(* The same elements under other names.                                    *)
LEMMA SumRenamed ==
  ASSUME NEW S, NEW f, NEW sigma, IsSum(sigma, f, S),
         NEW T, IsFiniteSet(T), NEW g, NEW tau, IsSum(tau, g, T),
         NEW name \in [T -> S], \A j, k \in T : name[j] = name[k] => j = k,
         \A k \in T : g[k] = f[name[k]]
  PROVE  \A t \in SUBSET T : tau[t] = sigma[{name[k] : k \in t}]
<1> DEFINE Image(t) == {name[k] : k \in t}
           Q == {t \in SUBSET T : tau[t] = sigma[Image(t)]}
<1>1. {} \in Q
  <2>1. Image({}) = {} /\ sigma[{}] = 0 /\ tau[{}] = 0
    BY DEF IsSum
  <2> HIDE DEF Image
  <2> QED
    BY <2>1
<1>2. ASSUME NEW t \in SUBSET T, t # {} PROVE \E x \in t : t \ {x} \in Q => t \in Q
  <2>1. PICK x \in t : TRUE
    BY <1>2
  <2>2. Image(t \ {x}) = Image(t) \ {name[x]} /\ Image(t) \in SUBSET S /\ name[x] \in Image(t)
    OBVIOUS
  <2>3. PICK A, b, y : A = Image(t) /\ b = t \ {x} /\ y = name[x]
    OBVIOUS
  <2>4. tau[t] = g[x] + tau[b]
    BY <2>3 DEF IsSum
  <2>5. sigma[A] = f[y] + sigma[A \ {y}]
    BY <2>2, <2>3 DEF IsSum
  <2>6. Image(b) = A \ {y} /\ g[x] = f[y]
    BY <2>2, <2>3
  <2>7. tau[b] = sigma[Image(b)] => tau[t] = sigma[Image(t)]
    BY <2>3, <2>4, <2>5, <2>6
  <2> HIDE DEF Image
  <2> QED
    BY <2>1, <2>3, <2>7
<1> HIDE DEF Q
<1>3. \A t \in SUBSET T : t \in Q
  BY <1>1, <1>2, SubsetInduction
<1> QED
  BY <1>3 DEF Q

LEMMA TotalPicked ==
  ASSUME NEW seq \in Seq(Int), NEW sigma, IsSum(sigma, seq, DOMAIN seq),
         NEW I \in SUBSET DOMAIN seq
  PROVE  Total(Picked(seq, I)) = sigma[I] /\ sigma[I] \in Int
<1>1. PICK p, m, name : p = Picked(seq, I) /\ m = Cardinality(I) /\ name = Ranked(I)
  OBVIOUS
<1>0. p \in Seq(Int) /\ DOMAIN p = 1 .. m /\ m \in Nat
  BY <1>1, PickedIs
<1>20. \A k \in 1 .. m : name[k] \in I /\ p[k] = seq[name[k]]
  BY <1>1, PickedIs
<1>21. \A i \in I : \E k \in 1 .. m : name[k] = i
  BY <1>1, PickedIs
<1>22. \A j, k \in 1 .. m : j < k <=> name[j] < name[k]
  BY <1>1, PickedIs
<1>2. /\ p \in Seq(Int) /\ DOMAIN p = 1 .. m /\ m \in Nat
      /\ \A k \in 1 .. m : name[k] \in I /\ p[k] = seq[name[k]]
      /\ \A i \in I : \E k \in 1 .. m : name[k] = i
      /\ \A j, k \in 1 .. m : j < k <=> name[j] < name[k]
  BY <1>0, <1>20, <1>21, <1>22, Zenon
<1>3. IsFiniteSet(1 .. m)
  BY <1>2, IntervalCount
<1>4. p \in [1 .. m -> Int]
  BY <1>2
<1>5. PICK tau : IsSum(tau, p, 1 .. m)
  BY <1>3, <1>4, SumExists
<1>6. Total(p) = tau[1 .. m]
  BY <1>2, <1>5, TotalIs
<1>7. PICK nm : nm = [k \in 1 .. m |-> name[k]]
  OBVIOUS
<1>8. /\ nm \in [1 .. m -> DOMAIN seq]
      /\ \A k \in 1 .. m : p[k] = seq[nm[k]]
  BY <1>2, <1>7
<1>81. PICK D : D = DOMAIN seq /\ IsSum(sigma, seq, D)
  OBVIOUS
<1>82. PICK T : T = 1 .. m
  OBVIOUS
<1>83. IsFiniteSet(T) /\ IsSum(tau, p, T) /\ nm \in [T -> D]
       /\ (\A j, k \in T : nm[j] = nm[k] => j = k) /\ \A k \in T : p[k] = seq[nm[k]]
  <2>1. \A j, k \in 1 .. m : nm[j] = nm[k] => j = k
    <3> SUFFICES ASSUME NEW j \in 1 .. m, NEW k \in 1 .. m, nm[j] = nm[k] PROVE j = k
      OBVIOUS
    <3>1. name[j] = name[k] /\ name[j] \in Int
      <4>1. \A i \in I : i \in Int
        BY SeqFacts
      <4> QED
        BY <1>2, <1>7, <4>1
    <3>2. ~(j < k) /\ ~(k < j)
      BY <1>2, <3>1
    <3> QED
      BY <3>2
  <2> QED
    BY <1>3, <1>5, <1>8, <1>81, <1>82, <2>1
<1>9. \A t \in SUBSET T : tau[t] = sigma[{nm[k] : k \in t}]
  BY <1>81, <1>83, SumRenamed
<1>10. tau[T] = sigma[{nm[k] : k \in T}]
  BY <1>9
<1>11. {nm[k] : k \in 1 .. m} = I
  BY <1>2, <1>7
<1>12. sigma[I] \in Int
  BY DEF IsSum
<1> QED
  BY <1>1, <1>6, <1>82, <1>10, <1>11, <1>12

(* Sums of smaller numbers, and over fewer of them.                        *)
LEMMA SumSmaller ==
  ASSUME NEW S, IsFiniteSet(S), NEW f \in [S -> Int], NEW sigma, IsSum(sigma, f, S),
         NEW g \in [S -> Int], NEW tau, IsSum(tau, g, S), NEW A \in SUBSET S,
         \A x \in A : f[x] <= g[x]
  PROVE  sigma[A] <= tau[A]
<1> DEFINE Q == {s \in SUBSET A : sigma[s] <= tau[s]}
<1>1. {} \in Q
  BY DEF IsSum
<1>2. ASSUME NEW s \in SUBSET A, s # {} PROVE \E x \in s : s \ {x} \in Q => s \in Q
  <2>1. PICK x \in s : TRUE
    BY <1>2
  <2>2. PICK b : b = s \ {x} /\ b \in SUBSET A /\ b \in SUBSET S /\ s \in SUBSET S
    OBVIOUS
  <2>3. sigma[s] = f[x] + sigma[b] /\ tau[s] = g[x] + tau[b]
        /\ sigma[b] \in Int /\ tau[b] \in Int
    BY <2>1, <2>2 DEF IsSum
  <2>4. f[x] \in Int /\ g[x] \in Int /\ f[x] <= g[x]
    BY <2>1
  <2>5. sigma[b] <= tau[b] => sigma[s] <= tau[s]
    BY <2>3, <2>4
  <2> QED
    BY <2>1, <2>2, <2>5
<1> HIDE DEF Q
<1>3. IsFiniteSet(A)
  BY FS_Subset
<1>4. \A s \in SUBSET A : s \in Q
  BY <1>1, <1>2, <1>3, SubsetInduction
<1> QED
  BY <1>4 DEF Q

LEMMA SumFewer ==
  ASSUME NEW S, IsFiniteSet(S), NEW f \in [S -> Int], NEW sigma, IsSum(sigma, f, S),
         NEW B \in SUBSET S, NEW A \in SUBSET B, \A x \in B : f[x] >= 0
  PROVE  sigma[A] <= sigma[B]
<1> DEFINE Q == {s \in SUBSET B : sigma[A] <= sigma[A \cup s]}
<1>0. \A s \in SUBSET S : sigma[s] \in Int
  BY DEF IsSum
<1>1. {} \in Q
  <2>1. A \cup {} = A /\ sigma[A] \in Int
    BY <1>0
  <2> QED
    BY <2>1
<1>2. ASSUME NEW s \in SUBSET B, s # {} PROVE \E x \in s : s \ {x} \in Q => s \in Q
  <2>1. PICK x \in s : TRUE
    BY <1>2
  <2>2. PICK b, C, D : b = s \ {x} /\ C = A \cup s /\ D = A \cup b
    OBVIOUS
  <2>3. C \in SUBSET S /\ D \in SUBSET S /\ x \in C
    BY <2>1, <2>2
  <2>4. CASE x \in A
    <3>1. C = D
      BY <2>2, <2>4
    <3>2. b \in Q => s \in Q
      BY <2>2, <3>1
    <3> QED
      BY <2>1, <2>2, <3>2
  <2>5. CASE x \notin A
    <3>1. D = C \ {x}
      BY <2>2, <2>5
    <3>2. sigma[C] = f[x] + sigma[D]
      BY <2>3, <3>1 DEF IsSum
    <3>3. f[x] \in Int /\ f[x] >= 0 /\ sigma[A] \in Int /\ sigma[D] \in Int
      BY <1>0, <2>1, <2>3
    <3>4. sigma[A] <= sigma[D] => sigma[A] <= sigma[C]
      BY <3>2, <3>3
    <3>5. b \in Q => s \in Q
      BY <2>2, <3>4
    <3> QED
      BY <2>1, <2>2, <3>5
  <2> QED
    BY <2>4, <2>5
<1> HIDE DEF Q
<1>3. IsFiniteSet(B)
  <2>1. B \subseteq S
    OBVIOUS
  <2> QED
    BY <2>1, FS_Subset
<1>4. B \in Q
  BY <1>1, <1>2, <1>3, SubsetInduction
<1>5. A \cup B = B
  OBVIOUS
<1> QED
  BY <1>4, <1>5 DEF Q

(* A count of tokens is a natural number, or there is none.                *)
LEMMA TokenCountIs ==
  ASSUME NEW s, SoundStep(s), NEW kind \in {"input", "output", "cached"}
  PROVE  TokenCount(s, kind) \in Int /\ (TokenCount(s, kind) = None \/ TokenCount(s, kind) >= 0)
<1>1. PICK pair : pair = <<s.metrics[kind], s.attrs[kind]>>
  OBVIOUS
<1> DEFINE I == {i \in DOMAIN pair : pair[i] >= 0}
<1>2. pair \in Seq(Int)
  BY <1>1 DEF SoundStep
<1>3. TokenCount(s, kind) = LET valid == Selected(pair, LAMBDA n : n >= 0)
                            IN  IF valid = <<>> THEN None ELSE valid[1]
  BY <1>1, Zenon DEF TokenCount
<1>4. Selected(pair, LAMBDA n : n >= 0) = Picked(pair, I)
  BY Zenon DEF Selected, Ordered, Picked, Ranked, Arranged
<1>5. PICK valid : valid = Picked(pair, I)
  OBVIOUS
<1>6. TokenCount(s, kind) = IF valid = <<>> THEN None ELSE valid[1]
  BY <1>3, <1>4, <1>5, Zenon
<1>7. I \in SUBSET DOMAIN pair /\ \A i \in I : pair[i] \in Int /\ pair[i] >= 0
  BY <1>2
<1>8. CASE valid # <<>>
  <2> HIDE DEF I
  <2>1. PICK m : m = Cardinality(I)
    OBVIOUS
  <2>2. m \in Nat /\ (valid = <<>> <=> I = {}) /\ IsFiniteSet(I)
        /\ \A k \in 1 .. m : Ranked(I)[k] \in I /\ valid[k] = pair[Ranked(I)[k]]
    BY <1>2, <1>5, <1>7, <2>1, PickedIs
  <2>3. m # 0
    BY <1>8, <2>1, <2>2, FS_EmptySet
  <2>4. valid[1] \in Int /\ valid[1] >= 0
    BY <1>7, <2>2, <2>3
  <2> QED
    BY <1>6, <1>8, <2>4
<1>9. CASE valid = <<>>
  BY <1>6, <1>9 DEF None
<1> QED
  BY <1>8, <1>9

LEMMA PlusMore ==
  ASSUME NEW f, NEW g
  PROVE  /\ DOMAIN (f ++ g) = DOMAIN f \cup DOMAIN g
         /\ \A name \in DOMAIN g : name \notin DOMAIN f => (f ++ g)[name] = g[name]
BY DEF ++

Counts(calls, kind) == [i \in DOMAIN calls |-> TokenCount(calls[i], kind)]
Reported(calls, kind) == Selected(Counts(calls, kind), LAMBDA n : n # None)
ModelCalls(steps) == Selected(steps, IsModelCall)
Paired(calls) == Selected(calls, LAMBDA c :
            /\ TokenCount(c, "input") # None
            /\ TokenCount(c, "cached") # None
            /\ TokenCount(c, "cached") <= TokenCount(c, "input"))
InputValues(ins) == When(ins # <<>>,
                      [input_tokens |-> Total(ins),
                       average_input_tokens_per_call |-> Ratio(Total(ins), Len(ins)),
                       peak_input_tokens_per_call |-> Max(ToSet(ins))])
CacheValues(in, cached) == When(in > 0, [uncached_input_tokens |-> in - cached,
                                         cache_hit_ratio |-> Ratio(cached, in)])
CallValues == {"model_call_count", "usage_reported_call_count", "usage_coverage_ratio"}
OutputValues == {"output_tokens", "output_reported_call_count", "average_output_tokens_per_call",
                 "peak_output_tokens_per_call", "output_under_500_tokens_call_count",
                 "output_under_500_tokens_ratio"}

(* The values of model_usage, the tokens of its input in full.             *)
ModelParts(values, ins, in, cached) ==
  \E head, outs, total, hit :
    /\ DOMAIN head \subseteq CallValues /\ DOMAIN outs \subseteq OutputValues
    /\ DOMAIN total \subseteq {"total_tokens"} /\ DOMAIN hit \subseteq {"cached_input_tokens"}
    /\ values = head ++ InputValues(ins) ++ outs ++ total ++ hit ++ CacheValues(in, cached)

LEMMA WhenDomain ==
  ASSUME NEW c \in BOOLEAN, NEW v
  PROVE  DOMAIN When(c, v) \subseteq DOMAIN v
BY DEF When

LEMMA ModelUsageIs ==
  ASSUME NEW steps
  PROVE  \/ ModelUsage(steps) = NotApplicable("model_usage")
         \/ \E values, ids : /\ ModelUsage(steps) = Measured("model_usage", values, ids)
                             /\ ModelParts(values, Reported(ModelCalls(steps), "input"),
                                  Total(Counts(Paired(ModelCalls(steps)), "input")),
                                  Total(Counts(Paired(ModelCalls(steps)), "cached")))
<1> DEFINE calls == ModelCalls(steps)
           outs  == Reported(calls, "output")
           short == Selected(outs, LAMBDA n : n < ShortTokens)
           usage == Selected(calls, LAMBDA c :
                \E kind \in {"input", "output", "cached"} : TokenCount(c, kind) # None)
           head == [model_call_count |-> Len(calls),
                usage_reported_call_count |-> Len(usage),
                usage_coverage_ratio |-> Ratio(Len(usage), Len(calls))]
           out == [output_tokens |-> Total(outs),
                       output_reported_call_count |-> Len(outs),
                       average_output_tokens_per_call |-> Ratio(Total(outs), Len(outs)),
                       peak_output_tokens_per_call |-> Max(ToSet(outs)),
                       output_under_500_tokens_call_count |-> Len(short),
                       output_under_500_tokens_ratio |-> Ratio(Len(short), Len(outs))]
           ins == Reported(calls, "input")
           total == [total_tokens |-> Total(ins \o outs)]
           hit == [cached_input_tokens |-> Total(Reported(calls, "cached"))]
           in == Total(Counts(Paired(calls), "input"))
           cached == Total(Counts(Paired(calls), "cached"))
           values == head ++ InputValues(ins) ++ When(outs # <<>>, out)
                       ++ When(ins \o outs # <<>>, total)
                       ++ When(Reported(calls, "cached") # <<>>, hit)
                       ++ CacheValues(in, cached)
<1>1. \/ ModelUsage(steps) = NotApplicable("model_usage")
      \/ \E ids : ModelUsage(steps) = Measured("model_usage", values, ids)
  BY ZenonT(60) DEF ModelUsage, Reported, Counts, ModelCalls, Paired, InputValues, CacheValues
<1>2. DOMAIN head \subseteq CallValues
  BY DEF CallValues
<1>3. DOMAIN out \subseteq OutputValues /\ DOMAIN total \subseteq {"total_tokens"}
      /\ DOMAIN hit \subseteq {"cached_input_tokens"}
  BY DEF OutputValues
<1> HIDE DEF head, out, total, hit
<1>4. PICK o, t, h : /\ o = When(outs # <<>>, out) /\ t = When(ins \o outs # <<>>, total)
                     /\ h = When(Reported(calls, "cached") # <<>>, hit)
  OBVIOUS
<1>5. DOMAIN o \subseteq OutputValues /\ DOMAIN t \subseteq {"total_tokens"}
      /\ DOMAIN h \subseteq {"cached_input_tokens"}
  <2> HIDE DEF outs, ins, calls
  <2>1. DOMAIN o \subseteq DOMAIN out /\ DOMAIN t \subseteq DOMAIN total /\ DOMAIN h \subseteq DOMAIN hit
    BY <1>4 DEF When
  <2> QED
    BY <1>3, <2>1
<1>6. values = head ++ InputValues(ins) ++ o ++ t ++ h ++ CacheValues(in, cached)
  BY <1>4, Zenon
<1> HIDE DEF values
<1>7. ModelParts(values, ins, in, cached)
  <2> HIDE DEF ins, in, cached
  <2> QED
    BY <1>2, <1>5, <1>6, Zenon DEF ModelParts
<1> QED
  BY <1>1, <1>7

IsPaired(c) == /\ TokenCount(c, "input") # None
               /\ TokenCount(c, "cached") # None
               /\ TokenCount(c, "cached") <= TokenCount(c, "input")
PairedAt(calls) == {i \in DOMAIN calls : IsPaired(calls[i])}
ReportedAt(calls, kind) == {i \in DOMAIN calls : TokenCount(calls[i], kind) # None}

LEMMA CallsAndCounts ==
  ASSUME NEW steps, SoundSteps(steps), NEW calls, calls = ModelCalls(steps)
  PROVE  /\ calls \in Seq(ToSet(steps))
         /\ \A i \in DOMAIN calls : SoundStep(calls[i])
<1>1. steps \in Seq(ToSet(steps)) /\ \A s \in ToSet(steps) : SoundStep(s)
  BY TupleIs, SMTT(30) DEF SoundSteps, ToSet
<1>2. calls = Picked(steps, {i \in DOMAIN steps : IsModelCall(steps[i])})
  BY Zenon DEF ModelCalls, Selected, Ordered, Picked, Ranked, Arranged
<1>3. {i \in DOMAIN steps : IsModelCall(steps[i])} \in SUBSET DOMAIN steps
  OBVIOUS
<1>4. calls \in Seq(ToSet(steps))
  BY <1>1, <1>2, <1>3, PickedIs
<1> QED
  BY <1>1, <1>4, SeqFacts

LEMMA CountsType ==
  ASSUME NEW T, NEW calls \in Seq(T), \A i \in DOMAIN calls : SoundStep(calls[i]),
         NEW kind \in {"input", "output", "cached"}
  PROVE  /\ Counts(calls, kind) \in Seq(Int) /\ DOMAIN Counts(calls, kind) = DOMAIN calls
         /\ \A i \in DOMAIN calls : Counts(calls, kind)[i] = TokenCount(calls[i], kind)
<1>1. PICK n : n \in Nat /\ DOMAIN calls = 1 .. n
  BY SeqFacts
<1>2. \A i \in 1 .. n : TokenCount(calls[i], kind) \in Int
  BY <1>1, TokenCountIs
<1>3. Counts(calls, kind) \in [1 .. n -> Int]
  BY <1>1, <1>2 DEF Counts
<1>4. Counts(calls, kind) \in Seq(Int)
  BY <1>1, <1>3, SeqOfFunction
<1> QED
  BY <1>4 DEF Counts

LEMMA ReportedIs ==
  ASSUME NEW calls, NEW kind
  PROVE  Reported(calls, kind) = Picked(Counts(calls, kind), ReportedAt(calls, kind))
<1> DEFINE counts == Counts(calls, kind)
<1>1. Selected(counts, LAMBDA n : n # None) = Picked(counts, {i \in DOMAIN counts : counts[i] # None})
  <2> HIDE DEF counts
  <2> QED
    BY Zenon DEF Selected, Ordered, Picked, Ranked, Arranged
<1>2. {i \in DOMAIN counts : counts[i] # None} = ReportedAt(calls, kind)
  BY DEF Counts, ReportedAt
<1> HIDE DEF counts
<1> QED
  BY <1>1, <1>2, Zenon DEF Reported, counts

(* The counts of the paired calls.                                         *)
LEMMA PairedIs ==
  ASSUME NEW T, NEW calls \in Seq(T), NEW kind
  PROVE  Counts(Paired(calls), kind) = Picked(Counts(calls, kind), PairedAt(calls))
<1>1. Paired(calls) = Picked(calls, PairedAt(calls))
  BY Zenon DEF Paired, Selected, Ordered, Picked, Ranked, Arranged, PairedAt, IsPaired
<1>2. PICK I, r : I = PairedAt(calls) /\ r = Ranked(I)
  OBVIOUS
<1>3. I \in SUBSET DOMAIN calls
  BY <1>2 DEF PairedAt
<1>4. PICK m : m = Cardinality(I)
  OBVIOUS
<1>5. DOMAIN r = 1 .. m /\ \A k \in 1 .. m : r[k] \in I
  <2>1. DOMAIN Ranked(I) = 1 .. m
    BY <1>4 DEF Ranked, Arranged
  <2>2. \A k \in 1 .. m : Ranked(I)[k] \in I
    BY <1>3, <1>4, PickedIs
  <2> QED
    BY <1>2, <2>1, <2>2
<1>6. Picked(calls, I) = [k \in 1 .. m |-> calls[r[k]]]
      /\ Picked(Counts(calls, kind), I) = [k \in 1 .. m |-> Counts(calls, kind)[r[k]]]
  BY <1>2, <1>5, Zenon DEF Picked
<1>7. \A k \in 1 .. m : Counts(calls, kind)[r[k]] = TokenCount(calls[r[k]], kind)
  BY <1>3, <1>5 DEF Counts
<1>8. Counts(Picked(calls, I), kind) = [k \in 1 .. m |-> TokenCount(calls[r[k]], kind)]
  BY <1>6 DEF Counts
<1> QED
  BY <1>1, <1>2, <1>6, <1>7, <1>8

(* The cached input is part of the input it is compared with, and that of  *)
(* the input in total.                                                     *)
LEMMA CachedWithinInput ==
  ASSUME NEW steps, SoundSteps(steps), NEW calls, calls = ModelCalls(steps),
         NEW in, in = Total(Counts(Paired(calls), "input")),
         NEW cached, cached = Total(Counts(Paired(calls), "cached")),
         NEW ins, ins = Reported(calls, "input"), NEW all, all = Total(ins)
  PROVE  /\ in \in Int /\ cached \in Int /\ all \in Int
         /\ 0 <= cached /\ cached <= in /\ in <= all
         /\ in > 0 => ins # <<>>
<1>1. PICK T : calls \in Seq(T) /\ \A i \in DOMAIN calls : SoundStep(calls[i])
  BY CallsAndCounts
<1>2. PICK D, f, g : D = DOMAIN calls /\ f = Counts(calls, "input") /\ g = Counts(calls, "cached")
  OBVIOUS
<1>3. /\ f \in Seq(Int) /\ DOMAIN f = D /\ g \in Seq(Int) /\ DOMAIN g = D
      /\ \A i \in D : f[i] = TokenCount(calls[i], "input") /\ g[i] = TokenCount(calls[i], "cached")
  BY <1>1, <1>2, CountsType
<1>4. f \in [D -> Int] /\ g \in [D -> Int]
  BY <1>3
<1>5. IsFiniteSet(D)
  <2>1. PICK n : n \in Nat /\ D = 1 .. n
    BY <1>1, <1>2, SeqFacts
  <2> QED
    BY <2>1, IntervalCount
<1>6. PICK sigma, tau : IsSum(sigma, f, D) /\ IsSum(tau, g, D)
  BY <1>4, <1>5, SumExists
<1>7. PICK P, R : P = PairedAt(calls) /\ R = ReportedAt(calls, "input")
  OBVIOUS
<1>8. P \in SUBSET D /\ R \in SUBSET D /\ P \in SUBSET R
  BY <1>2, <1>7 DEF PairedAt, ReportedAt, IsPaired
<1>9. /\ \A i \in R : f[i] >= 0
      /\ \A i \in P : g[i] <= f[i] /\ g[i] >= 0
  <2>1. \A i \in D : /\ f[i] \in Int /\ (f[i] = None \/ f[i] >= 0)
                     /\ g[i] \in Int /\ (g[i] = None \/ g[i] >= 0)
    BY <1>1, <1>2, <1>3, TokenCountIs
  <2> QED
    BY <1>2, <1>3, <1>7, <1>8, <2>1 DEF PairedAt, ReportedAt, IsPaired
<1>10. in = sigma[P] /\ sigma[P] \in Int
  <2>1. in = Total(Picked(f, P))
    BY <1>1, <1>2, <1>7, PairedIs
  <2> QED
    BY <1>3, <1>6, <1>8, <2>1, TotalPicked
<1>11. cached = tau[P] /\ tau[P] \in Int
  <2>1. cached = Total(Picked(g, P))
    BY <1>1, <1>2, <1>7, PairedIs
  <2> QED
    BY <1>3, <1>6, <1>8, <2>1, TotalPicked
<1>12. ins = Picked(f, R)
  BY <1>2, <1>7, ReportedIs
<1>13. all = sigma[R] /\ sigma[R] \in Int
  BY <1>3, <1>6, <1>8, <1>12, TotalPicked
<1>14. tau[P] <= sigma[P]
  BY <1>4, <1>5, <1>6, <1>8, <1>9, SumSmaller
<1>15. sigma[P] <= sigma[R]
  BY <1>4, <1>5, <1>6, <1>8, <1>9, SumFewer
<1>16. tau[{}] <= tau[P] /\ tau[{}] = 0 /\ sigma[{}] = 0
  <2>1. {} \in SUBSET P /\ \A i \in P : g[i] >= 0
    BY <1>9
  <2>2. tau[{}] <= tau[P]
    BY <1>4, <1>5, <1>6, <1>8, <2>1, SumFewer
  <2> QED
    BY <1>6, <2>2 DEF IsSum
<1>17. in > 0 => ins # <<>>
  <2>1. in > 0 => P # {}
    BY <1>10, <1>16
  <2>2. ins = <<>> <=> R = {}
    BY <1>3, <1>8, <1>12, PickedLen
  <2> QED
    BY <1>8, <2>1, <2>2
<1> QED
  BY <1>10, <1>11, <1>13, <1>14, <1>15, <1>16, <1>17

(* What model_usage promises.                                              *)
LEMMA ModelUsageExact ==
  ASSUME NEW steps, SoundSteps(steps), NEW m, m = ModelUsage(steps)
  PROVE  /\ m.id = "model_usage"
         /\ DOMAIN m.values \subseteq ModelUsageSpec
         /\ "cache_hit_ratio" \in DOMAIN m.values =>
              /\ m.values.uncached_input_tokens >= 0
              /\ m.values.cache_hit_ratio[1] <= m.values.cache_hit_ratio[2]
              /\ m.values.uncached_input_tokens <= m.values.input_tokens
<1>1. CASE m = NotApplicable("model_usage")
  BY <1>1 DEF NotApplicable
<1>2. CASE m # NotApplicable("model_usage")
  <2>1. PICK ins, in, cached, all :
          /\ ins = Reported(ModelCalls(steps), "input")
          /\ in = Total(Counts(Paired(ModelCalls(steps)), "input"))
          /\ cached = Total(Counts(Paired(ModelCalls(steps)), "cached"))
          /\ all = Total(ins)
    OBVIOUS
  <2>2. PICK values, ids : /\ m = Measured("model_usage", values, ids)
                           /\ ModelParts(values, ins, in, cached)
    BY <1>2, <2>1, ModelUsageIs
  <2>3. /\ in \in Int /\ cached \in Int /\ all \in Int
        /\ 0 <= cached /\ cached <= in /\ in <= all
        /\ in > 0 => ins # <<>>
    BY <2>1, CachedWithinInput
  <2>4. PICK head, outs, total, hit :
          /\ DOMAIN head \subseteq CallValues /\ DOMAIN outs \subseteq OutputValues
          /\ DOMAIN total \subseteq {"total_tokens"} /\ DOMAIN hit \subseteq {"cached_input_tokens"}
          /\ values = head ++ InputValues(ins) ++ outs ++ total ++ hit ++ CacheValues(in, cached)
    BY <2>2 DEF ModelParts
  <2>5. PICK a, b, c, d, I, C :
          /\ I = InputValues(ins) /\ C = CacheValues(in, cached)
          /\ a = head ++ I /\ b = a ++ outs /\ c = b ++ total /\ d = c ++ hit
    OBVIOUS
  <2>6. values = d ++ C
    BY <2>4, <2>5, Zenon
  <2>7. /\ DOMAIN a = DOMAIN head \cup DOMAIN I /\ DOMAIN b = DOMAIN a \cup DOMAIN outs
        /\ DOMAIN c = DOMAIN b \cup DOMAIN total /\ DOMAIN d = DOMAIN c \cup DOMAIN hit
        /\ DOMAIN values = DOMAIN d \cup DOMAIN C
    BY <2>5, <2>6, PlusMore
  <2>8. /\ DOMAIN I \subseteq {"input_tokens", "average_input_tokens_per_call", "peak_input_tokens_per_call"}
        /\ DOMAIN C \subseteq {"uncached_input_tokens", "cache_hit_ratio"}
    BY <2>5 DEF InputValues, CacheValues, When
  <2>9. DOMAIN values \subseteq ModelUsageSpec
    BY <2>4, <2>7, <2>8 DEF CallValues, OutputValues, ModelUsageSpec
  <2>10. ASSUME "cache_hit_ratio" \in DOMAIN values
         PROVE  /\ values.uncached_input_tokens = in - cached
                /\ values.cache_hit_ratio = <<cached, in>>
                /\ values.input_tokens = all
    <3>1. "cache_hit_ratio" \notin DOMAIN d /\ "uncached_input_tokens" \notin DOMAIN d
      BY <2>4, <2>7, <2>8 DEF CallValues, OutputValues
    <3>2. "cache_hit_ratio" \in DOMAIN C
      BY <2>7, <2>10, <3>1
    <3>3. in > 0 /\ C = [uncached_input_tokens |-> in - cached, cache_hit_ratio |-> Ratio(cached, in)]
      BY <2>5, <3>2 DEF CacheValues, When
    <3>4. /\ "uncached_input_tokens" \in DOMAIN C /\ C["uncached_input_tokens"] = in - cached
          /\ C["cache_hit_ratio"] = <<cached, in>>
      BY <3>3 DEF Ratio
    <3>5. values["uncached_input_tokens"] = in - cached /\ values["cache_hit_ratio"] = <<cached, in>>
      <4>1. \A name \in DOMAIN C : name \notin DOMAIN d => (d ++ C)[name] = C[name]
        BY PlusMore, Zenon
      <4>2. values["uncached_input_tokens"] = C["uncached_input_tokens"]
        BY <2>6, <3>1, <3>4, <4>1, Zenon
      <4>3. values["cache_hit_ratio"] = C["cache_hit_ratio"]
        BY <2>6, <3>1, <3>2, <4>1, Zenon
      <4> QED
        BY <3>4, <4>2, <4>3
    <3>6. "input_tokens" \in DOMAIN I /\ I["input_tokens"] = all
      <4>1. ins # <<>>
        BY <2>3, <3>3
      <4>2. PICK avg, peak : I = [input_tokens |-> all, average_input_tokens_per_call |-> avg,
                                  peak_input_tokens_per_call |-> peak]
        BY <2>1, <2>5, <4>1, Zenon DEF InputValues, When
      <4> QED
        BY <4>2
    <3>7. "input_tokens" \notin DOMAIN head
      BY <2>4 DEF CallValues
    <3>8. "input_tokens" \in DOMAIN a /\ a["input_tokens"] = all
      <4>1. "input_tokens" \in DOMAIN a
        BY <2>7, <3>6
      <4>2. (head ++ I)["input_tokens"] = I["input_tokens"]
        BY <3>6, <3>7 DEF ++
      <4> QED
        BY <2>5, <3>6, <4>1, <4>2
    <3>9. "input_tokens" \in DOMAIN b /\ b["input_tokens"] = all
      BY <2>5, <3>8, PlusIs
    <3>10. "input_tokens" \in DOMAIN c /\ c["input_tokens"] = all
      BY <2>5, <3>9, PlusIs
    <3>11. "input_tokens" \in DOMAIN d /\ d["input_tokens"] = all
      BY <2>5, <3>10, PlusIs
    <3>12. values["input_tokens"] = all
      BY <2>6, <3>11, PlusIs
    <3> QED
      BY <3>5, <3>12
  <2>11. m.id = "model_usage" /\ m.values = values
    BY <2>2 DEF Measured
  <2>12. in - cached >= 0 /\ in - cached <= all
    BY <2>3
  <2>13. <<cached, in>>[1] = cached /\ <<cached, in>>[2] = in
    OBVIOUS
  <2> QED
    BY <2>3, <2>9, <2>10, <2>11, <2>12, <2>13
<1> QED
  BY <1>1, <1>2

(* What retry_usage promises.                                              *)
LEMMA RetryUsageExact ==
  ASSUME NEW steps, SoundSteps(steps), NEW m, m = RetryUsage(steps)
  PROVE  /\ m.id = "retry_usage"
         /\ DOMAIN m.values \subseteq RetryUsageSpec
         /\ m.status = "measured" =>
              /\ m.values.unchanged_retry_count + m.values.changed_retry_count
                   = m.values.retried_failed_tool_call_count
              /\ m.values.recovered_retry_count <= m.values.retried_failed_tool_call_count
              /\ m.values.retried_failed_tool_call_count <= m.values.failed_tool_call_count
<1>1. PICK calls, moves : calls = ToolCalls(steps) /\ moves = RetryTransitions(steps)
  OBVIOUS
<1>2. CASE m = NotApplicable("retry_usage")
  BY <1>2 DEF NotApplicable
<1>3. CASE m # NotApplicable("retry_usage")
  <2>1. PICK rest, ids : /\ DOMAIN rest \subseteq {"retried_failure_ratio"}
                         /\ m = Measured("retry_usage", RetryCounts(calls, moves) ++ rest, ids)
    BY <1>1, <1>3, RetryUsageIs
  <2>2. PICK counts, values : counts = RetryCounts(calls, moves) /\ values = counts ++ rest
    OBVIOUS
  <2>3. /\ Len(Unchanged(moves)) + Len(Changed(moves)) = Len(moves)
        /\ Len(Recoveries(moves)) <= Len(moves)
        /\ Len(moves) <= Len(FailedCalls(calls))
    BY <1>1, RetriesAddUp
  <2>4. PICK u, c, r, n, f : /\ u = Len(Unchanged(moves)) /\ c = Len(Changed(moves))
                             /\ r = Len(Recoveries(moves)) /\ n = Len(moves)
                             /\ f = Len(FailedCalls(calls))
    OBVIOUS
  <2>5. counts = [failed_tool_call_count |-> f, retried_failed_tool_call_count |-> n,
                  unchanged_retry_count |-> u, changed_retry_count |-> c,
                  recovered_retry_count |-> r]
    BY <2>2, <2>4 DEF RetryCounts
  <2>6. DOMAIN values = DOMAIN counts \cup DOMAIN rest
    BY <2>2, PlusMore
  <2>7. DOMAIN values \subseteq RetryUsageSpec
    BY <2>1, <2>5, <2>6 DEF RetryUsageSpec
  <2>8. \A name \in DOMAIN counts : values[name] = counts[name]
    BY <2>2, PlusIs
  <2>9. /\ values.unchanged_retry_count = u /\ values.changed_retry_count = c
        /\ values.recovered_retry_count = r /\ values.retried_failed_tool_call_count = n
        /\ values.failed_tool_call_count = f
    BY <2>5, <2>8
  <2>10. m.id = "retry_usage" /\ m.values = values
    BY <2>1, <2>2 DEF Measured
  <2> QED
    BY <2>3, <2>4, <2>7, <2>9, <2>10
<1> QED
  BY <1>2, <1>3

-----------------------------------------------------------------------------
(* tool_usage, its concurrency in full.                                    *)
Executions(steps) == Selected(steps, HasToolExecution)
ToolValues == {"tool_call_count", "failed_tool_call_count", "tool_failure_ratio",
               "tool_duration_ms", "result_reported_call_count", "result_coverage_ratio",
               "result_bytes", "max_concurrent_tool_calls"}
SizeValues == {"average_result_bytes_per_call", "peak_result_bytes_per_call"}

LEMMA ToolUsageIs ==
  ASSUME NEW steps
  PROVE  \/ ToolUsage(steps) = NotApplicable("tool_usage")
         \/ \E head, rest, ids :
              /\ DOMAIN head = ToolValues /\ DOMAIN rest \subseteq SizeValues
              /\ head["max_concurrent_tool_calls"] = MaxConcurrency(Executions(steps))
              /\ ToolUsage(steps) = Measured("tool_usage", head ++ rest, ids)
<1> DEFINE calls == Executions(steps)
           failed   == Selected(calls, LAMBDA s : s.failure # "")
           reported == Selected(calls, OutputReported)
           sizes    == [i \in DOMAIN reported |-> ToolOutputBytes(reported[i])]
           head == [tool_call_count        |-> Len(calls),
                failed_tool_call_count |-> Len(failed),
                tool_failure_ratio     |-> Ratio(Len(failed), Len(calls)),
                tool_duration_ms |-> Total([i \in DOMAIN calls |-> calls[i].dur]),
                result_reported_call_count |-> Len(reported),
                result_coverage_ratio |-> Ratio(Len(reported), Len(calls)),
                result_bytes |-> Total(sizes),
                max_concurrent_tool_calls |-> MaxConcurrency(calls)]
           peaks == [average_result_bytes_per_call |-> Ratio(Total(sizes), Len(sizes)),
                     peak_result_bytes_per_call |-> Max(ToSet(sizes))]
           rest == When(sizes # <<>>, peaks)
<1>1. \/ ToolUsage(steps) = NotApplicable("tool_usage")
      \/ ToolUsage(steps) = Measured("tool_usage", head ++ rest, StepIds(calls))
  BY ZenonT(60) DEF ToolUsage, Executions
<1> HIDE DEF calls, failed, reported, sizes
<1>2. DOMAIN head = ToolValues /\ head["max_concurrent_tool_calls"] = MaxConcurrency(calls)
  BY DEF ToolValues
<1>3. DOMAIN peaks = SizeValues
  BY DEF SizeValues
<1> HIDE DEF head, peaks
<1>4. DOMAIN rest \subseteq SizeValues
  BY <1>3 DEF When
<1> HIDE DEF rest
<1> QED
  BY <1>1, <1>2, <1>4, Zenon DEF calls

LEMMA ToolUsageNames ==
  ASSUME NEW steps, NEW m, m = ToolUsage(steps)
  PROVE  /\ m.id = "tool_usage"
         /\ DOMAIN m.values \subseteq ToolUsageSpec
         /\ m.status = "measured" =>
              m.values.max_concurrent_tool_calls = MaxConcurrency(Executions(steps))
<1>1. PICK most : most = MaxConcurrency(Executions(steps))
  OBVIOUS
<1>2. CASE m = NotApplicable("tool_usage")
  BY <1>2 DEF NotApplicable
<1>3. CASE m # NotApplicable("tool_usage")
  <2>1. PICK head, rest, ids :
              /\ DOMAIN head = ToolValues /\ DOMAIN rest \subseteq SizeValues
              /\ head["max_concurrent_tool_calls"] = most
              /\ m = Measured("tool_usage", head ++ rest, ids)
    BY <1>1, <1>3, ToolUsageIs, Zenon
  <2>2. PICK values : values = head ++ rest
    OBVIOUS
  <2>3. m.id = "tool_usage" /\ m.values = values
    BY <2>1, <2>2 DEF Measured
  <2>4. DOMAIN values = DOMAIN head \cup DOMAIN rest
    BY <2>2, PlusMore
  <2>5. DOMAIN values \subseteq ToolUsageSpec
    BY <2>1, <2>4 DEF ToolUsageSpec, ToolValues, SizeValues
  <2>6. \A name \in DOMAIN head : values[name] = head[name]
    BY <2>2, PlusIs
  <2>7. values.max_concurrent_tool_calls = most
    <3>1. "max_concurrent_tool_calls" \in DOMAIN head
      BY <2>1 DEF ToolValues
    <3> QED
      BY <2>1, <2>6, <3>1
  <2> QED
    BY <1>1, <2>3, <2>5, <2>7
<1> QED
  BY <1>2, <1>3

-----------------------------------------------------------------------------
(* context_usage, the changes over compact steps in full.                  *)
InOrder(steps) == [i \in DOMAIN StartOrder(steps) |-> steps[StartOrder(steps)[i]]]
Covered(seq) == Selected([i \in DOMAIN seq |-> <<seq[i], TokenCount(seq[i], "input")>>],
                         LAMBDA p : p[2] # None)
Changes(steps) == CompactReductions(InOrder(steps), Covered(Selected(InOrder(steps), IsModelCall)),
                                    Selected(InOrder(steps), IsCompactStep))
ContextValues == {"model_call_count", "compact_count", "input_reported_call_count",
                  "post_compact_observed_count"}
ContextTokens == {"first_input_tokens", "last_input_tokens", "peak_input_tokens",
                  "input_token_delta"}

ContextParts(values, deltas) ==
  \E head, cover, tokens, growth :
    /\ DOMAIN head = ContextValues /\ DOMAIN cover \subseteq {"input_coverage_ratio"}
    /\ DOMAIN tokens \subseteq ContextTokens /\ DOMAIN growth \subseteq {"input_growth_ratio"}
    /\ head["post_compact_observed_count"] = Len(deltas)
    /\ values = head ++ cover ++ tokens ++ growth
         ++ When(deltas # <<>>, [post_compact_input_delta_tokens |-> Total(deltas)])

LEMMA ContextUsageIs ==
  ASSUME NEW steps, NEW deltas, deltas = Changes(steps)
  PROVE  \/ ContextUsage(steps) = NotApplicable("context_usage")
         \/ \E values, ids : /\ ContextUsage(steps) = Measured("context_usage", values, ids)
                             /\ ContextParts(values, deltas)
<1> DEFINE ordered == InOrder(steps)
           calls    == Selected(ordered, IsModelCall)
           compacts == Selected(ordered, IsCompactStep)
           covered  == Covered(calls)
           counts   == [i \in DOMAIN covered |-> covered[i][2]]
           moved    == Changes(steps)
           head == [model_call_count |-> Len(calls), compact_count |-> Len(compacts),
                input_reported_call_count |-> Len(covered),
                post_compact_observed_count |-> Len(moved)]
           ratio == [input_coverage_ratio |-> Ratio(Len(covered), Len(calls))]
           sizes == [first_input_tokens |-> counts[1],
                       last_input_tokens  |-> Last(counts),
                       peak_input_tokens  |-> Max(ToSet(counts)),
                       input_token_delta  |-> Last(counts) - counts[1]]
           grown == [input_growth_ratio |-> Ratio(Last(counts), counts[1])]
           cover == When(calls # <<>>, ratio)
           tokens == When(counts # <<>>, sizes)
           growth == When(counts # <<>> /\ counts[1] > 0, grown)
           change == When(moved # <<>>, [post_compact_input_delta_tokens |-> Total(moved)])
           ids == Distinct([i \in DOMAIN covered |-> covered[i][1].id] \o StepIds(compacts))
<1>1. \/ ContextUsage(steps) = NotApplicable("context_usage")
      \/ ContextUsage(steps) = Measured("context_usage",
            head ++ cover ++ tokens ++ growth ++ change, ids)
  BY ZenonT(60) DEF ContextUsage, InOrder, Covered, Changes
<1> HIDE DEF calls, compacts, covered, counts, moved, ordered, ids
<1>2. DOMAIN head = ContextValues /\ head["post_compact_observed_count"] = Len(moved)
  BY DEF ContextValues
<1>3. DOMAIN ratio = {"input_coverage_ratio"} /\ DOMAIN sizes = ContextTokens
      /\ DOMAIN grown = {"input_growth_ratio"}
  BY DEF ContextTokens
<1> HIDE DEF head, ratio, sizes, grown
<1>4. DOMAIN cover \subseteq {"input_coverage_ratio"} /\ DOMAIN tokens \subseteq ContextTokens
      /\ DOMAIN growth \subseteq {"input_growth_ratio"}
  BY <1>3 DEF When
<1> HIDE DEF cover, tokens, growth
<1>5. moved = deltas
  BY DEF moved
<1>6. ContextParts(head ++ cover ++ tokens ++ growth ++ change, deltas)
  BY <1>2, <1>4, <1>5, Zenon DEF ContextParts
<1> QED
  BY <1>1, <1>6, Zenon

LEMMA ContextUsageNames ==
  ASSUME NEW steps, NEW m, m = ContextUsage(steps)
  PROVE  /\ m.id = "context_usage"
         /\ DOMAIN m.values \subseteq ContextUsageSpec
         /\ m.status = "measured" =>
              /\ m.values.post_compact_observed_count = Len(Changes(steps))
              /\ "post_compact_input_delta_tokens" \in DOMAIN m.values =>
                   m.values.post_compact_input_delta_tokens = Total(Changes(steps))
<1>1. PICK deltas : deltas = Changes(steps)
  OBVIOUS
<1>2. CASE m = NotApplicable("context_usage")
  BY <1>2 DEF NotApplicable
<1>3. CASE m # NotApplicable("context_usage")
  <2>0. PICK values, ids : m = Measured("context_usage", values, ids) /\ ContextParts(values, deltas)
    BY <1>1, <1>3, ContextUsageIs
  <2>1. PICK head, cover, tokens, growth :
              /\ DOMAIN head = ContextValues /\ DOMAIN cover \subseteq {"input_coverage_ratio"}
              /\ DOMAIN tokens \subseteq ContextTokens /\ DOMAIN growth \subseteq {"input_growth_ratio"}
              /\ head["post_compact_observed_count"] = Len(deltas)
              /\ values = head ++ cover ++ tokens ++ growth
                     ++ When(deltas # <<>>, [post_compact_input_delta_tokens |-> Total(deltas)])
    BY <2>0, Zenon DEF ContextParts
  <2>20. PICK total, a, b, c, d :
          /\ total = [post_compact_input_delta_tokens |-> Total(deltas)]
          /\ d = When(deltas # <<>>, total)
          /\ a = head ++ cover /\ b = a ++ tokens /\ c = b ++ growth
    OBVIOUS
  <2>21. values = c ++ d
    BY <2>1, <2>20, Zenon
  <2>2. /\ total = [post_compact_input_delta_tokens |-> Total(deltas)]
        /\ d = When(deltas # <<>>, total)
        /\ a = head ++ cover /\ b = a ++ tokens /\ c = b ++ growth /\ values = c ++ d
    BY <2>20, <2>21, Zenon
  <2>3. m.id = "context_usage" /\ m.values = values
    BY <2>0 DEF Measured
  <2>4. /\ DOMAIN a = DOMAIN head \cup DOMAIN cover /\ DOMAIN b = DOMAIN a \cup DOMAIN tokens
        /\ DOMAIN c = DOMAIN b \cup DOMAIN growth /\ DOMAIN values = DOMAIN c \cup DOMAIN d
    BY <2>2, PlusMore
  <2>5. DOMAIN d \subseteq {"post_compact_input_delta_tokens"}
    BY <2>2 DEF When
  <2>6. DOMAIN values \subseteq ContextUsageSpec
    BY <2>1, <2>4, <2>5 DEF ContextUsageSpec, ContextValues, ContextTokens
  <2>7. values.post_compact_observed_count = Len(deltas)
    <3> DEFINE name == "post_compact_observed_count"
    <3>1. name \in DOMAIN head
      BY <2>1 DEF ContextValues
    <3>2. name \in DOMAIN a /\ a[name] = head[name]
      BY <2>2, <3>1, PlusIs
    <3>3. name \in DOMAIN b /\ b[name] = head[name]
      BY <2>2, <3>2, PlusIs
    <3>4. name \in DOMAIN c /\ c[name] = head[name]
      BY <2>2, <3>3, PlusIs
    <3>5. values[name] = head[name]
      BY <2>2, <3>4, PlusIs
    <3> QED
      BY <2>1, <3>5
  <2>8. ASSUME "post_compact_input_delta_tokens" \in DOMAIN values
        PROVE  values.post_compact_input_delta_tokens = Total(deltas)
    <3>1. "post_compact_input_delta_tokens" \notin DOMAIN c
      BY <2>1, <2>4 DEF ContextValues, ContextTokens
    <3>2. "post_compact_input_delta_tokens" \in DOMAIN d
      BY <2>4, <2>8, <3>1
    <3>3. values["post_compact_input_delta_tokens"] = d["post_compact_input_delta_tokens"]
      <4>1. \A x \in DOMAIN d : x \notin DOMAIN c => (c ++ d)[x] = d[x]
        BY PlusMore
      <4> QED
        BY <2>21, <3>1, <3>2, <4>1, Zenon
    <3>4. deltas # <<>>
      <4>1. DOMAIN <<>> = {}
        OBVIOUS
      <4>2. deltas = <<>> => d = <<>>
        BY <2>2, Zenon DEF When
      <4> QED
        BY <3>2, <4>1, <4>2, Zenon
    <3>5. d = total
      BY <2>2, <3>4 DEF When
    <3>6. total["post_compact_input_delta_tokens"] = Total(deltas)
      BY <2>2
    <3> QED
      BY <3>3, <3>5, <3>6
  <2> QED
    BY <1>1, <2>3, <2>6, <2>7, <2>8
<1> QED
  BY <1>2, <1>3

-----------------------------------------------------------------------------
(* Counting and comparing.                                                 *)
LEMMA SameCount ==
  ASSUME NEW A, IsFiniteSet(A), NEW B, NEW f \in [A -> B],
         \A x, y \in A : f[x] = f[y] => x = y, \A b \in B : \E x \in A : f[x] = b
  PROVE  IsFiniteSet(B) /\ Cardinality(B) = Cardinality(A)
<1>1. f \in Injection(A, B)
  BY DEF Injection, IsInjective
<1>2. f \in Surjection(A, B)
  BY DEF Surjection
<1>3. ExistsBijection(A, B)
  BY <1>1, <1>2 DEF ExistsBijection, Bijection
<1> QED
  BY <1>3, FS_Bijection

LEMMA MaxSame ==
  ASSUME NEW A \in SUBSET Int, IsFiniteSet(A), A # {}, NEW B \in SUBSET Int, IsFiniteSet(B), B # {},
         \A a \in A : \E b \in B : a <= b, \A b \in B : \E a \in A : b <= a
  PROVE  Max(A) = Max(B)
<1>1. PICK m : m = Max(A) /\ m \in A /\ \A x \in A : x <= m
  BY MaxIs
<1>2. PICK n : n = Max(B) /\ n \in B /\ \A x \in B : x <= n
  BY MaxIs
<1>3. m \in Int /\ n \in Int /\ m <= n /\ n <= m
  <2>1. PICK b \in B : m <= b
    BY <1>1
  <2>2. PICK a \in A : n <= a
    BY <1>2
  <2>3. b <= n /\ a <= m /\ a \in Int /\ b \in Int /\ m \in Int /\ n \in Int
    BY <1>1, <1>2, <2>1, <2>2
  <2> QED
    BY <2>1, <2>2, <2>3
<1> QED
  BY <1>1, <1>2, <1>3

LEMMA MaxMore ==
  ASSUME NEW A \in SUBSET Int, IsFiniteSet(A), A # {}, NEW x \in Int
  PROVE  Max(A \cup {x}) = Max({Max(A), x}) /\ Max(A) \in Int /\ IsFiniteSet(A \cup {x})
<1>1. PICK m : m = Max(A) /\ m \in A /\ \A y \in A : y <= m
  BY MaxIs
<1>2. IsFiniteSet(A \cup {x}) /\ IsFiniteSet({m, x})
  <2>1. IsFiniteSet({m}) /\ {m, x} = {m} \cup {x}
    BY FS_Singleton
  <2> QED
    BY <2>1, FS_AddElement
<1>3. m \in Int
  BY <1>1
<1>4. Max(A \cup {x}) = Max({m, x})
  <2>1. \A a \in A \cup {x} : \E b \in {m, x} : a <= b
    <3> SUFFICES ASSUME NEW a \in A \cup {x} PROVE a <= m \/ a <= x
      OBVIOUS
    <3>1. CASE a = x
      BY <3>1
    <3>2. CASE a \in A
      BY <1>1, <3>2
    <3> QED
      BY <3>1, <3>2
  <2>2. \A b \in {m, x} : \E a \in A \cup {x} : b <= a
    BY <1>1, <1>3
  <2>3. A \cup {x} \in SUBSET Int /\ A \cup {x} # {} /\ {m, x} \in SUBSET Int /\ {m, x} # {}
    BY <1>3
  <2> QED
    BY <1>2, <2>1, <2>2, <2>3, MaxSame
<1> QED
  BY <1>1, <1>2, <1>3, <1>4

-----------------------------------------------------------------------------
(* A sweep over a sequence of changes by one.                              *)
SweepStep(acc, e) == [now  |-> acc.now + e.change,
                      peak |-> Max({acc.peak, acc.now + e.change})]
Up(seq, s) == {k \in s : seq[k].change = 1}
Down(seq, s) == {k \in s : seq[k].change = -1}
Level(seq, s) == Cardinality(Up(seq, s)) - Cardinality(Down(seq, s))
UpTo(s, k) == {j \in s : j <= k}
Levels(seq, s) == {Level(seq, UpTo(s, k)) : k \in s}

LEMMA LevelIs ==
  ASSUME NEW seq, NEW s, IsFiniteSet(s), NEW m \in s, seq[m].change \in {1, -1}
  PROVE  /\ Level(seq, s) = Level(seq, s \ {m}) + seq[m].change
         /\ Level(seq, s) \in Int /\ Level(seq, s \ {m}) \in Int
<1> DEFINE b == s \ {m}
<1>1. /\ IsFiniteSet(Up(seq, s)) /\ IsFiniteSet(Down(seq, s)) /\ IsFiniteSet(b)
      /\ IsFiniteSet(Up(seq, b)) /\ IsFiniteSet(Down(seq, b))
  BY FS_Subset DEF Up, Down
<1>2. /\ Cardinality(Up(seq, s)) \in Nat /\ Cardinality(Down(seq, s)) \in Nat
      /\ Cardinality(Up(seq, b)) \in Nat /\ Cardinality(Down(seq, b)) \in Nat
  BY <1>1, FS_CardinalityType
<1>3. CASE seq[m].change = 1
  <2>1. Up(seq, b) = Up(seq, s) \ {m} /\ m \in Up(seq, s) /\ Down(seq, b) = Down(seq, s)
    BY <1>3 DEF Up, Down
  <2>2. Cardinality(Up(seq, b)) = Cardinality(Up(seq, s)) - 1
    BY <1>1, <2>1, FS_RemoveElement
  <2> QED
    BY <1>2, <1>3, <2>1, <2>2 DEF Level
<1>4. CASE seq[m].change = -1
  <2>1. Down(seq, b) = Down(seq, s) \ {m} /\ m \in Down(seq, s) /\ Up(seq, b) = Up(seq, s)
    BY <1>4 DEF Up, Down
  <2>2. Cardinality(Down(seq, b)) = Cardinality(Down(seq, s)) - 1
    BY <1>1, <2>1, FS_RemoveElement
  <2> QED
    BY <1>2, <1>4, <2>1, <2>2 DEF Level
<1> QED
  BY <1>3, <1>4

LEMMA SweepIs ==
  ASSUME NEW T, NEW seq \in Seq(T), \A e \in T : e.change \in {1, -1}
  PROVE  /\ FoldLeft(SweepStep, [now |-> 0, peak |-> 0], seq).peak
              = Max({0} \cup Levels(seq, DOMAIN seq))
         /\ IsFiniteSet(Levels(seq, DOMAIN seq)) /\ Levels(seq, DOMAIN seq) \in SUBSET Int
<1> DEFINE S == DOMAIN seq
           Body(g) == [s \in SUBSET S |-> IF s = {} THEN [now |-> 0, peak |-> 0]
                                          ELSE SweepStep(g[s \ {Max(s)}], seq[Max(s)])]
           it == CHOOSE g : g = Body(g)
           swept == [s \in SUBSET S |-> [now |-> Level(seq, s), peak |-> Max({0} \cup Levels(seq, s))]]
<1>1. FoldLeft(SweepStep, [now |-> 0, peak |-> 0], seq) = it[S]
  BY ZenonT(30) DEF FoldLeft, MapThenFoldSet
<1>2. Len(seq) \in Nat /\ S = 1 .. Len(seq) /\ \A i \in S : seq[i].change \in {1, -1}
  BY SeqFacts
<1>3. IsFiniteSet(S)
  BY <1>2, IntervalCount
<1> HIDE DEF S
<1>4. ASSUME NEW s \in SUBSET S, s # {} PROVE Max(s) \in s /\ \A k \in s : k <= Max(s)
  <2>1. s \in SUBSET Int
    BY <1>2
  <2>2. IsFiniteSet(s)
    BY <1>3, FS_Subset
  <2> QED
    BY <1>4, <2>1, <2>2, MaxIs
<1>5. ASSUME NEW s \in SUBSET S PROVE IsFiniteSet(s) /\ Level(seq, s) \in Int
  <2>1. IsFiniteSet(s)
    BY <1>3, FS_Subset
  <2>2. IsFiniteSet(Up(seq, s)) /\ IsFiniteSet(Down(seq, s))
    BY <2>1, FS_Subset DEF Up, Down
  <2> QED
    BY <2>1, <2>2, FS_CardinalityType DEF Level
<1>6. ASSUME NEW s \in SUBSET S
      PROVE  IsFiniteSet(Levels(seq, s)) /\ Levels(seq, s) \in SUBSET Int
  <2>1. PICK L : L = [k \in s |-> Level(seq, UpTo(s, k))]
    OBVIOUS
  <2>2. \A k \in s : UpTo(s, k) \in SUBSET S
    BY DEF UpTo
  <2>3. Levels(seq, s) \in SUBSET Int
    BY <1>5, <2>2 DEF Levels
  <2>4. L \in Surjection(s, Levels(seq, s))
    BY <2>1 DEF Surjection, Levels
  <2>5. IsFiniteSet(s)
    BY <1>5
  <2> QED
    BY <2>3, <2>4, <2>5, FS_Surjection
<1>7. swept = Body(swept)
  <2>1. swept[{}] = [now |-> 0, peak |-> 0]
    <3>1. Up(seq, {}) = {} /\ Down(seq, {}) = {} /\ Levels(seq, {}) = {}
      BY DEF Up, Down, Levels
    <3>20. Cardinality({}) = 0
      BY FS_EmptySet
    <3>2. Level(seq, {}) = 0
      <4>1. Level(seq, {}) = Cardinality({}) - Cardinality({})
        BY <3>1, Zenon DEF Level
      <4> QED
        BY <3>20, <4>1
    <3>30. IsFiniteSet({0})
      BY FS_Singleton, Zenon
    <3>3. {0} \in SUBSET Int /\ IsFiniteSet({0}) /\ {0} # {}
      BY <3>30
    <3>4. Max({0}) \in {0}
      BY <3>3, MaxIs
    <3>5. {0} \cup {} = {0} /\ {} \in SUBSET S
      OBVIOUS
    <3> QED
      BY <3>1, <3>2, <3>4, <3>5
  <2>2. ASSUME NEW s \in SUBSET S, s # {}
        PROVE  swept[s] = SweepStep(swept[s \ {Max(s)}], seq[Max(s)])
    <3>1. PICK m : m = Max(s) /\ m \in s /\ \A k \in s : k <= m
      BY <1>4, <2>2
    <3>2. PICK b, n, c : b = s \ {m} /\ n = Level(seq, b) /\ c = seq[m].change
      OBVIOUS
    <3>3. b \in SUBSET S /\ c \in {1, -1} /\ IsFiniteSet(s)
      BY <1>2, <1>5, <3>1, <3>2
    <3>4. Level(seq, s) = n + c /\ n \in Int
      BY <3>1, <3>2, <3>3, LevelIs
    <3>5. Levels(seq, s) = Levels(seq, b) \cup {Level(seq, s)}
      <4>1. UpTo(s, m) = s
        BY <3>1 DEF UpTo
      <4>2. ASSUME NEW k \in b PROVE UpTo(s, k) = UpTo(b, k)
        <5>1. k \in Int /\ m \in Int /\ k # m /\ k <= m
          BY <1>2, <3>1, <3>2
        <5>2. ~(m <= k)
          BY <5>1
        <5> QED
          BY <3>2, <5>2 DEF UpTo
      <4> QED
        BY <3>1, <3>2, <4>1, <4>2 DEF Levels
    <3>6. PICK A, p : A = {0} \cup Levels(seq, b) /\ p = Max(A)
      OBVIOUS
    <3>7. A \in SUBSET Int /\ A # {} /\ IsFiniteSet(A)
      <4>1. IsFiniteSet(Levels(seq, b)) /\ Levels(seq, b) \in SUBSET Int
        BY <1>6, <3>3
      <4>2. IsFiniteSet(Levels(seq, b) \cup {0})
        BY <4>1, FS_AddElement
      <4>3. A = Levels(seq, b) \cup {0}
        BY <3>6
      <4> QED
        BY <4>1, <4>2, <4>3
    <3>8. Max(A \cup {n + c}) = Max({p, n + c})
      <4>1. n + c \in Int
        BY <3>3, <3>4
      <4> QED
        BY <3>6, <3>7, <4>1, MaxMore
    <3>9. {0} \cup Levels(seq, s) = A \cup {n + c}
      BY <3>4, <3>5, <3>6
    <3>10. swept[s] = [now |-> n + c, peak |-> Max({p, n + c})]
      BY <3>4, <3>8, <3>9
    <3>11. swept[b] = [now |-> n, peak |-> p]
      BY <3>2, <3>3, <3>6
    <3> HIDE DEF swept
    <3>12. SweepStep(swept[b], seq[m]) = [now |-> n + c, peak |-> Max({p, n + c})]
      BY <3>2, <3>11 DEF SweepStep
    <3> QED
      BY <3>1, <3>2, <3>10, <3>12
  <2>3. swept = [s \in SUBSET S |-> swept[s]]
    OBVIOUS
  <2> HIDE DEF swept
  <2> QED
    BY <2>1, <2>2, <2>3
<1>8. it = Body(it)
  <2> HIDE DEF Body, swept
  <2> QED
    BY <1>7
<1>9. /\ it[{}] = [now |-> 0, peak |-> 0]
      /\ \A s \in SUBSET S : s # {} => it[s] = SweepStep(it[s \ {Max(s)}], seq[Max(s)])
  <2> HIDE DEF it
  <2> QED
    BY <1>8
<1>10. /\ swept[{}] = [now |-> 0, peak |-> 0]
       /\ \A s \in SUBSET S : s # {} => swept[s] = SweepStep(swept[s \ {Max(s)}], seq[Max(s)])
  <2> HIDE DEF swept
  <2> QED
    BY <1>7
<1> DEFINE Q == {s \in SUBSET S : it[s] = swept[s]}
<1>11. \A s \in SUBSET S : s \in Q
  <2> HIDE DEF it, swept
  <2>1. {} \in Q
    BY <1>9, <1>10
  <2>2. ASSUME NEW s \in SUBSET S, s # {} PROVE \E x \in s : s \ {x} \in Q => s \in Q
    <3>1. PICK x : x = Max(s) /\ x \in s
      BY <1>4, <2>2
    <3>2. it[s] = SweepStep(it[s \ {x}], seq[x]) /\ swept[s] = SweepStep(swept[s \ {x}], seq[x])
      BY <1>9, <1>10, <2>2, <3>1
    <3>3. s \ {x} \in Q => s \in Q
      BY <3>2
    <3> QED
      BY <3>1, <3>3
  <2> HIDE DEF Q
  <2> QED
    BY <1>3, <2>1, <2>2, SubsetInduction
<1>12. it[S] = swept[S]
  <2> HIDE DEF it, swept
  <2> QED
    BY <1>11
<1>13. swept[S].peak = Max({0} \cup Levels(seq, S))
  OBVIOUS
<1>14. IsFiniteSet(Levels(seq, S)) /\ Levels(seq, S) \in SUBSET Int
  BY <1>6
<1> HIDE DEF it, swept
<1> QED
  BY <1>1, <1>12, <1>13, <1>14 DEF S

-----------------------------------------------------------------------------
(* Intervals 1 .. n, the i-th from st[i] to en[i], S[i] and E[i] being the *)
(* places of its two events in a sweep.                                    *)
Live(T, S, E, k) == {i \in T : S[i] <= k /\ k < E[i]}
During(T, st, en, p) == {i \in T : st[i] <= p /\ p < en[i]}

\* Where the events of T are, each at a place of its own.
Events(T, o, N, S, change) ==
  /\ S \in [T -> 1 .. N] /\ \A i, j \in T : S[i] = S[j] => i = j
  /\ \A i \in T : o[S[i]].change = change
  /\ \A k \in 1 .. N : o[k].change = change => \E i \in T : S[i] = k

Intervals(T, st, en) == /\ st \in [T -> Int] /\ en \in [T -> Int]
                        /\ \A i \in T : st[i] < en[i]
Swept(T, st, en, o, N, S, E) ==
  /\ Events(T, o, N, S, 1) /\ Events(T, o, N, E, -1)
  /\ \A i, j \in T : S[i] < E[j] <=> st[i] < en[j]
  /\ \A i, j \in T : S[i] <= S[j] => st[i] <= st[j]
Passed(T, S, k) == {i \in T : S[i] <= k}
Marked(o, N, change, k) == {j \in UpTo(1 .. N, k) : o[j].change = change}

LEMMA EventCount ==
  ASSUME NEW T, IsFiniteSet(T), NEW o, NEW N \in Nat, NEW S, NEW change, Events(T, o, N, S, change),
         NEW k \in 1 .. N
  PROVE  IsFiniteSet(Passed(T, S, k)) /\ Cardinality(Marked(o, N, change, k)) = Cardinality(Passed(T, S, k))
<1>0. PICK A, B : A = Passed(T, S, k) /\ B = Marked(o, N, change, k)
  OBVIOUS
<1>1. A = {i \in T : S[i] <= k} /\ B = {j \in UpTo(1 .. N, k) : o[j].change = change}
  BY <1>0, Zenon DEF Passed, Marked
<1>2. PICK f : f = [i \in A |-> S[i]]
  OBVIOUS
<1>3. IsFiniteSet(A)
  <2>1. A \in SUBSET T
    BY <1>1
  <2> QED
    BY <2>1, FS_Subset
<1>4. f \in [A -> B]
  BY <1>1, <1>2 DEF Events, UpTo
<1>5. \A x, y \in A : f[x] = f[y] => x = y
  BY <1>1, <1>2 DEF Events
<1>6. \A b \in B : \E x \in A : f[x] = b
  <2> SUFFICES ASSUME NEW b \in B PROVE \E x \in A : f[x] = b
    OBVIOUS
  <2>1. b \in 1 .. N /\ b <= k /\ o[b].change = change
    BY <1>1 DEF UpTo
  <2>2. PICK i \in T : S[i] = b
    BY <2>1 DEF Events
  <2>3. i \in A
    BY <1>1, <2>1, <2>2
  <2> QED
    BY <1>2, <2>2, <2>3
<1> QED
  BY <1>0, <1>3, <1>4, <1>5, <1>6, SameCount

(* The level of the sweep is the number of intervals that are live.        *)
LEMMA LiveCount ==
  ASSUME NEW T, IsFiniteSet(T), NEW o, NEW N \in Nat, NEW S, NEW E,
         Events(T, o, N, S, 1), Events(T, o, N, E, -1), \A i \in T : S[i] < E[i], NEW k \in 1 .. N
  PROVE  /\ Level(o, UpTo(1 .. N, k)) = Cardinality(Live(T, S, E, k))
         /\ IsFiniteSet(Live(T, S, E, k)) /\ Cardinality(Live(T, S, E, k)) \in Nat
<1>1. PICK A, B, L : A = {i \in T : S[i] <= k} /\ B = {i \in T : E[i] <= k} /\ L = Live(T, S, E, k)
  OBVIOUS
<1>2. /\ IsFiniteSet(A) /\ IsFiniteSet(B)
      /\ Cardinality(Up(o, UpTo(1 .. N, k))) = Cardinality(A)
      /\ Cardinality(Down(o, UpTo(1 .. N, k))) = Cardinality(B)
  <2>1. A = Passed(T, S, k) /\ B = Passed(T, E, k)
    BY <1>1, Zenon DEF Passed
  <2>2. Up(o, UpTo(1 .. N, k)) = Marked(o, N, 1, k) /\ Down(o, UpTo(1 .. N, k)) = Marked(o, N, -1, k)
    BY Zenon DEF Up, Down, Marked
  <2>3. IsFiniteSet(A) /\ Cardinality(Marked(o, N, 1, k)) = Cardinality(A)
    BY <2>1, EventCount
  <2>4. IsFiniteSet(B) /\ Cardinality(Marked(o, N, -1, k)) = Cardinality(B)
    BY <2>1, EventCount
  <2> QED
    BY <2>2, <2>3, <2>4, Zenon
<1>3. \A i \in T : S[i] \in Int /\ E[i] \in Int /\ S[i] < E[i]
  BY DEF Events
<1>4. L \cup B = A /\ L \cap B = {}
  BY <1>1, <1>3 DEF Live
<1>5. IsFiniteSet(L)
  <2>1. L \in SUBSET A
    BY <1>4
  <2> QED
    BY <1>2, <2>1, FS_Subset
<1>6. Cardinality(L) + Cardinality(B) = Cardinality(A)
  BY <1>2, <1>4, <1>5, SplitCount
<1>7. Cardinality(L) \in Nat /\ Cardinality(A) \in Nat /\ Cardinality(B) \in Nat
  BY <1>2, <1>5, FS_CardinalityType
<1>8. Level(o, UpTo(1 .. N, k)) = Cardinality(A) - Cardinality(B)
  BY <1>2, Zenon DEF Level
<1>9. Cardinality(A) - Cardinality(B) = Cardinality(L)
  BY <1>6, <1>7
<1> QED
  BY <1>1, <1>5, <1>7, <1>8, <1>9

(* The last of some intervals.                                             *)
LEMMA LastOne ==
  ASSUME NEW T, IsFiniteSet(T), NEW S \in [T -> Nat], NEW A \in SUBSET T, A # {}
  PROVE  \E m \in A : \A i \in A : S[i] <= S[m]
<1>1. PICK B, f : B = {S[i] : i \in A} /\ f = [i \in A |-> S[i]]
  OBVIOUS
<1>2. f \in Surjection(A, B)
  BY <1>1 DEF Surjection
<1>3. IsFiniteSet(A)
  BY FS_Subset
<1>4. IsFiniteSet(B) /\ B \in SUBSET Int /\ B # {}
  BY <1>1, <1>2, <1>3, FS_Surjection
<1>5. Max(B) \in B /\ \A x \in B : x <= Max(B)
  BY <1>4, MaxIs
<1>6. PICK m \in A : S[m] = Max(B)
  BY <1>1, <1>5
<1> QED
  BY <1>1, <1>5, <1>6

(* The highest level is the most intervals at the start of one.            *)
LEMMA PeakIs ==
  ASSUME NEW T, IsFiniteSet(T), NEW st, NEW en, Intervals(T, st, en),
         NEW o, NEW N \in Nat, NEW S, NEW E, Swept(T, st, en, o, N, S, E),
         IsFiniteSet(Levels(o, 1 .. N)), Levels(o, 1 .. N) \in SUBSET Int
  PROVE  /\ Max({1, Max({0} \cup Levels(o, 1 .. N))})
              = Max({1} \cup {Cardinality(During(T, st, en, st[j])) : j \in T})
         /\ \A j \in T : IsFiniteSet(During(T, st, en, st[j]))
<1>0. /\ st \in [T -> Int] /\ en \in [T -> Int] /\ \A i \in T : st[i] < en[i]
      /\ Events(T, o, N, S, 1) /\ Events(T, o, N, E, -1)
      /\ \A i, j \in T : S[i] < E[j] <=> st[i] < en[j]
      /\ \A i, j \in T : S[i] <= S[j] => st[i] <= st[j]
  BY DEF Intervals, Swept
<1> USE <1>0
<1>1. \A i \in T : S[i] \in 1 .. N /\ E[i] \in 1 .. N /\ S[i] < E[i]
  BY DEF Events
<1>2. S \in [T -> Nat]
  BY DEF Events
<1>3. \A k \in 1 .. N : /\ Level(o, UpTo(1 .. N, k)) = Cardinality(Live(T, S, E, k))
                        /\ IsFiniteSet(Live(T, S, E, k)) /\ Cardinality(Live(T, S, E, k)) \in Nat
  BY <1>1, LiveCount
<1>4. PICK At : At = [j \in T |-> During(T, st, en, st[j])]
  OBVIOUS
<1>5. \A j \in T : /\ At[j] \in SUBSET T /\ IsFiniteSet(At[j]) /\ Cardinality(At[j]) \in Nat
  <2>1. \A j \in T : At[j] \in SUBSET T
    BY <1>4 DEF During
  <2> QED
    BY <2>1, FS_Subset, FS_CardinalityType
<1>6. PICK B, L : B = {Cardinality(At[j]) : j \in T} /\ L = Levels(o, 1 .. N)
  OBVIOUS
<1>7. IsFiniteSet(B) /\ B \in SUBSET Int
  <2>1. PICK f : f = [j \in T |-> Cardinality(At[j])]
    OBVIOUS
  <2>2. f \in Surjection(T, B)
    BY <1>6, <2>1 DEF Surjection
  <2> QED
    BY <1>5, <1>6, <2>2, FS_Surjection
<1>8. \A l \in L : \E b \in {1} \cup B : l <= b
  <2> SUFFICES ASSUME NEW l \in L PROVE \E b \in {1} \cup B : l <= b
    OBVIOUS
  <2>1. PICK k \in 1 .. N : l = Cardinality(Live(T, S, E, k))
    BY <1>3, <1>6 DEF Levels
  <2>2. PICK A : A = Live(T, S, E, k) /\ A \in SUBSET T
    BY DEF Live
  <2>3. CASE A = {}
    <3>1. l = 0
      BY <2>1, <2>2, <2>3, FS_EmptySet
    <3> QED
      BY <3>1
  <2>4. CASE A # {}
    <3>1. PICK m \in A : \A i \in A : S[i] <= S[m]
      BY <1>2, <2>2, <2>4, LastOne
    <3>2. A \in SUBSET At[m]
      <4> SUFFICES ASSUME NEW i \in A PROVE i \in At[m]
        OBVIOUS
      <4>1. i \in T /\ m \in T /\ k < E[i] /\ S[m] <= k
        BY <2>2 DEF Live
      <4>2. S[m] \in Int /\ E[i] \in Int /\ k \in Int
        BY <1>1, <4>1
      <4>3. S[m] < E[i]
        BY <4>1, <4>2
      <4>4. st[m] < en[i] /\ st[i] <= st[m]
        BY <3>1, <4>1, <4>3
      <4> QED
        BY <1>4, <4>1, <4>4 DEF During
    <3>3. m \in T
      BY <2>2
    <3>4. Cardinality(A) <= Cardinality(At[m])
      BY <1>5, <3>2, <3>3, FS_Subset
    <3> QED
      BY <1>6, <2>1, <2>2, <3>3, <3>4
  <2> QED
    BY <2>3, <2>4
<1>9. \A b \in B : \E l \in L : b <= l
  <2> SUFFICES ASSUME NEW j \in T PROVE \E l \in L : Cardinality(At[j]) <= l
    BY <1>6
  <2>1. j \in At[j]
    <3>1. st[j] \in Int /\ st[j] <= st[j]
      OBVIOUS
    <3> QED
      BY <1>4, <3>1 DEF During
  <2>2. PICK m \in At[j] : \A i \in At[j] : S[i] <= S[m]
    <3>1. At[j] # {} /\ At[j] \in SUBSET T
      BY <1>5, <2>1
    <3> QED
      BY <1>2, <3>1, LastOne
  <2>3. m \in T /\ S[m] \in 1 .. N
    BY <1>1, <1>5
  <2>4. PICK k : k = S[m] /\ k \in 1 .. N
    BY <2>3
  <2>5. At[j] \in SUBSET Live(T, S, E, k)
    <3> SUFFICES ASSUME NEW i \in At[j] PROVE i \in Live(T, S, E, k)
      OBVIOUS
    <3>1. i \in T /\ st[j] < en[i] /\ st[m] <= st[j]
      BY <1>4, <2>3 DEF During
    <3>2. st[m] \in Int /\ st[j] \in Int /\ en[i] \in Int
      BY <2>3, <3>1
    <3>3. st[m] < en[i]
      BY <3>1, <3>2
    <3>4. S[m] < E[i] /\ S[i] <= S[m]
      BY <2>2, <2>3, <3>1, <3>3
    <3> QED
      BY <2>4, <3>1, <3>4 DEF Live
  <2>6. Cardinality(At[j]) <= Cardinality(Live(T, S, E, k))
    BY <1>3, <2>4, <2>5, FS_Subset
  <2>7. Cardinality(Live(T, S, E, k)) \in L
    <3>1. Level(o, UpTo(1 .. N, k)) \in L
      BY <1>6, <2>4 DEF Levels
    <3> QED
      BY <1>3, <2>4, <3>1
  <2> QED
    BY <2>6, <2>7
<1>10. PICK A, p : A = {0} \cup L /\ p = Max(A)
  OBVIOUS
<1>11. A \in SUBSET Int /\ A # {} /\ IsFiniteSet(A)
  <2>1. A = L \cup {0}
    BY <1>10
  <2>2. IsFiniteSet(L \cup {0})
    <3>1. IsFiniteSet(L)
      BY <1>6
    <3> QED
      BY <3>1, FS_AddElement
  <2>3. L \in SUBSET Int
    BY <1>6
  <2> QED
    BY <2>1, <2>2, <2>3
<1>12. Max(A \cup {1}) = Max({p, 1}) /\ IsFiniteSet(A \cup {1})
  <2>1. \A x \in Int : Max(A \cup {x}) = Max({Max(A), x}) /\ IsFiniteSet(A \cup {x})
    BY <1>11, MaxMore
  <2>2. 1 \in Int
    OBVIOUS
  <2> QED
    BY <1>10, <2>1, <2>2, Zenon
<1>13. Max(A \cup {1}) = Max({1} \cup B)
  <2>1. IsFiniteSet({1} \cup B)
    <3>1. IsFiniteSet(B \cup {1}) /\ {1} \cup B = B \cup {1}
      BY <1>7, FS_AddElement
    <3> QED
      BY <3>1
  <2>2. \A a \in A \cup {1} : \E b \in {1} \cup B : a <= b
    <3> SUFFICES ASSUME NEW a \in A \cup {1} PROVE \E b \in {1} \cup B : a <= b
      OBVIOUS
    <3>1. CASE a \in {0, 1}
      <4>1. a <= 1
        BY <3>1
      <4> QED
        BY <4>1
    <3>2. CASE a \in L
      BY <1>8, <3>2
    <3> QED
      BY <1>10, <3>1, <3>2
  <2>3. \A b \in {1} \cup B : \E a \in A \cup {1} : b <= a
    <3> SUFFICES ASSUME NEW b \in {1} \cup B PROVE \E a \in A \cup {1} : b <= a
      OBVIOUS
    <3>1. CASE b = 1
      <4>1. 1 \in A \cup {1} /\ b <= 1
        BY <3>1
      <4> QED
        BY <4>1
    <3>2. CASE b \in B
      <4>1. PICK l \in L : b <= l
        BY <1>9, <3>2
      <4> QED
        BY <1>10, <4>1
    <3> QED
      BY <3>1, <3>2
  <2>4. A \cup {1} \in SUBSET Int /\ A \cup {1} # {} /\ {1} \cup B \in SUBSET Int /\ {1} \cup B # {}
    BY <1>7, <1>11
  <2> QED
    BY <1>12, <2>1, <2>2, <2>3, <2>4, MaxSame
<1>14. {1, p} = {p, 1}
  OBVIOUS
<1>15. \A j \in T : At[j] = During(T, st, en, st[j])
  BY <1>4
<1>16. B = {Cardinality(During(T, st, en, st[j])) : j \in T}
  BY <1>6, <1>15
<1> QED
  BY <1>5, <1>6, <1>10, <1>12, <1>13, <1>14, <1>15, <1>16

TimedCalls(calls) == Selected(calls, LAMBDA s : s.dur > 0)
MarkOf(i, at, change) == [i |-> i, at |-> at, change |-> change]
Begins(timed) == {MarkOf(i, timed[i].start, 1) : i \in DOMAIN timed}
Ends(timed) == {MarkOf(i, timed[i].start + timed[i].dur, -1) : i \in DOMAIN timed}
Sooner(e, f) == \/ e.at < f.at
                \/ e.at = f.at /\ e.change < f.change
                \/ e.at = f.at /\ e.change = f.change /\ e.i < f.i
Sweep(M) == Arranged(M, [x \in M |-> Cardinality({y \in M : Sooner(y, x)})])

LEMMA MaxConcurrencyIs ==
  ASSUME NEW calls
  PROVE  MaxConcurrency(calls) =
           IF TimedCalls(calls) = <<>> THEN 1
           ELSE Max({1, FoldLeft(SweepStep, [now |-> 0, peak |-> 0],
                  Sweep(Begins(TimedCalls(calls)) \cup Ends(TimedCalls(calls)))).peak})
BY ZenonT(60) DEF MaxConcurrency, TimedCalls, SweepStep, Sweep, Begins, Ends, MarkOf, Sooner, Ordered, Arranged

\* Events with times, no two of them equal.
Marks(M) ==
  /\ IsFiniteSet(M)
  /\ \A e \in M : e.at \in Int /\ e.change \in Int /\ e.i \in Int
  /\ \A e, f \in M : e.at = f.at /\ e.change = f.change /\ e.i = f.i => e = f

LEMMA SweepOrderIs ==
  ASSUME NEW M, Marks(M)
  PROVE  /\ Sweep(M) \in [1 .. Cardinality(M) -> M] /\ Cardinality(M) \in Nat
         /\ \A x \in M : \E k \in 1 .. Cardinality(M) : Sweep(M)[k] = x
         /\ \A j, k \in 1 .. Cardinality(M) : j < k <=> Sooner(Sweep(M)[j], Sweep(M)[k])
<1> DEFINE R == {p \in M \X M : Sooner(p[1], p[2])}
<1>1. \A x, y \in M : <<x, y>> \in R <=> Sooner(x, y)
  OBVIOUS
<1> HIDE DEF R
<1>2. StrictOrder(M, R)
  <2>0. /\ \A e \in M : e.at \in Int /\ e.change \in Int /\ e.i \in Int
        /\ \A e, f \in M : e.at = f.at /\ e.change = f.change /\ e.i = f.i => e = f
    BY DEF Marks
  <2>1. \A x \in M : <<x, x>> \notin R
    BY <1>1, <2>0 DEF Sooner
  <2>2. \A x, y \in M : x # y => <<x, y>> \in R \/ <<y, x>> \in R
    BY <1>1, <2>0 DEF Sooner
  <2>3. \A x, y, z \in M : <<x, y>> \in R /\ <<y, z>> \in R => <<x, z>> \in R
    <3> SUFFICES ASSUME NEW x \in M, NEW y \in M, NEW z \in M, Sooner(x, y), Sooner(y, z)
                 PROVE  Sooner(x, z)
      BY <1>1
    <3> QED
      BY <2>0 DEF Sooner
  <2> QED
    BY <2>1, <2>2, <2>3 DEF StrictOrder
<1>3. \A x \in M : Below(M, R, x) = {y \in M : Sooner(y, x)}
  BY <1>1 DEF Below
<1>4. Rank(M, R) = [x \in M |-> Cardinality({y \in M : Sooner(y, x)})]
  BY <1>3 DEF Rank
<1>5. Sweep(M) = Arranged(M, Rank(M, R))
  BY <1>4 DEF Sweep
<1>6. PICK o : o = Arranged(M, Rank(M, R))
  OBVIOUS
<1>7. /\ o \in [1 .. Cardinality(M) -> M] /\ Cardinality(M) \in Nat
      /\ \A x \in M : \E k \in 1 .. Cardinality(M) : o[k] = x
      /\ \A j, k \in 1 .. Cardinality(M) : j < k <=> <<o[j], o[k]>> \in R
  BY <1>2, <1>6, ArrangedIs DEF Marks
<1>8. \A j, k \in 1 .. Cardinality(M) : j < k <=> Sooner(o[j], o[k])
  BY <1>1, <1>7
<1> QED
  BY <1>5, <1>6, <1>7, <1>8

LEMMA MarkFields ==
  ASSUME NEW i, NEW at, NEW change
  PROVE  /\ MarkOf(i, at, change).i = i /\ MarkOf(i, at, change).at = at
         /\ MarkOf(i, at, change).change = change
BY DEF MarkOf

MarksOf(T, st, en) == {MarkOf(i, st[i], 1) : i \in T} \cup {MarkOf(i, en[i], -1) : i \in T}

(* The sweep over the events of the intervals 1 .. n.                      *)
LEMMA SweepOf ==
  ASSUME NEW n \in Nat, NEW T, T = 1 .. n, NEW st, NEW en, Intervals(T, st, en),
         NEW M, M = MarksOf(T, st, en)
  PROVE  \E N \in Nat : \E S, E :
           Sweep(M) \in [1 .. N -> M] /\ Swept(T, st, en, Sweep(M), N, S, E)
<1>00. st \in [T -> Int] /\ en \in [T -> Int] /\ \A i \in T : st[i] < en[i]
  BY DEF Intervals
<1> USE <1>00
<1>1. PICK b, e : b = [i \in T |-> MarkOf(i, st[i], 1)] /\ e = [i \in T |-> MarkOf(i, en[i], -1)]
  OBVIOUS
<1>0. PICK down \in Int : down = -1 /\ down < 1
  OBVIOUS
<1>2. \A i \in T : /\ b[i].i = i /\ b[i].at = st[i] /\ b[i].change = 1
                   /\ e[i].i = i /\ e[i].at = en[i] /\ e[i].change = down
                   /\ i \in Int /\ st[i] \in Int /\ en[i] \in Int
  BY <1>0, <1>1, MarkFields
<1>3. PICK B, F : B = {b[i] : i \in T} /\ F = {e[i] : i \in T}
  OBVIOUS
<1>4. M = B \cup F
  BY <1>1, <1>3 DEF MarksOf
<1>5. IsFiniteSet(M)
  <2>1. IsFiniteSet(T)
    BY IntervalCount
  <2>2. b \in Surjection(T, B) /\ e \in Surjection(T, F)
    BY <1>1, <1>3 DEF Surjection
  <2>3. IsFiniteSet(B) /\ IsFiniteSet(F)
    BY <2>1, <2>2, FS_Surjection
  <2>4. IsFiniteSet(B \cup F)
    BY <2>3, FS_Union
  <2> QED
    BY <1>4, <2>4
<1>6. \A x \in M : \/ \E i \in T : x = b[i]
                   \/ \E i \in T : x = e[i]
  BY <1>3, <1>4
<1>7. \A x \in M : x.at \in Int /\ x.change \in Int /\ x.i \in Int
  <2> SUFFICES ASSUME NEW x \in M PROVE x.at \in Int /\ x.change \in Int /\ x.i \in Int
    OBVIOUS
  <2>1. PICK i \in T : x = b[i] \/ x = e[i]
    BY <1>6
  <2>2. b[i].at \in Int /\ b[i].change \in Int /\ b[i].i \in Int
    BY <1>2
  <2>3. e[i].at \in Int /\ e[i].change \in Int /\ e[i].i \in Int
    BY <1>0, <1>2
  <2> QED
    BY <2>1, <2>2, <2>3
<1>8. \A x, y \in M : x.at = y.at /\ x.change = y.change /\ x.i = y.i => x = y
  <2> SUFFICES ASSUME NEW x \in M, NEW y \in M, x.at = y.at /\ x.change = y.change /\ x.i = y.i
               PROVE  x = y
    BY Zenon
  <2>1. PICK i \in T : x = b[i] \/ x = e[i]
    BY <1>6
  <2>2. PICK j \in T : y = b[j] \/ y = e[j]
    BY <1>6
  <2>3. i = j
    BY <1>2, <2>1, <2>2
  <2>4. b[i].change = 1 /\ e[i].change = down /\ down # 1
    BY <1>0, <1>2
  <2> QED
    BY <2>1, <2>2, <2>3, <2>4
<1>9. PICK N, o : N = Cardinality(M) /\ o = Sweep(M)
  OBVIOUS
<1>10. /\ o \in [1 .. N -> M] /\ N \in Nat
       /\ \A x \in M : \E k \in 1 .. N : o[k] = x
       /\ \A j, k \in 1 .. N : j < k <=> Sooner(o[j], o[k])
  <2>1. Marks(M)
    BY <1>5, <1>7, <1>8, Zenon DEF Marks
  <2>2. /\ Sweep(M) \in [1 .. Cardinality(M) -> M] /\ Cardinality(M) \in Nat
        /\ \A x \in M : \E k \in 1 .. Cardinality(M) : Sweep(M)[k] = x
        /\ \A j, k \in 1 .. Cardinality(M) : j < k <=> Sooner(Sweep(M)[j], Sweep(M)[k])
    <3> QED
      BY <2>1, SweepOrderIs
  <2>3. PICK D : D = 1 .. Cardinality(M) /\ D = 1 .. N
    BY <1>9
  <2>4. /\ o \in [D -> M] /\ N \in Nat
        /\ \A x \in M : \E k \in D : o[k] = x
        /\ \A j, k \in D : j < k <=> Sooner(o[j], o[k])
    BY <1>9, <2>2, <2>3
  <2> QED
    BY <2>3, <2>4
<1>11. \A j, k \in 1 .. N : o[j] = o[k] => j = k
  <2> SUFFICES ASSUME NEW j \in 1 .. N, NEW k \in 1 .. N, o[j] = o[k] PROVE j = k
    OBVIOUS
  <2>1. o[j] \in M
    BY <1>10
  <2>2. ~Sooner(o[j], o[j])
    <3>1. PICK x : x = o[j] /\ x.at \in Int /\ x.change \in Int /\ x.i \in Int
      BY <1>7, <2>1
    <3>2. ~Sooner(x, x)
      BY <3>1 DEF Sooner
    <3> QED
      BY <3>1, <3>2
  <2>3. ~(j < k) /\ ~(k < j)
    BY <1>10, <2>2
  <2> QED
    BY <1>10, <2>3
<1>12. PICK S, E : /\ S = [i \in T |-> CHOOSE k \in 1 .. N : o[k] = b[i]]
                   /\ E = [i \in T |-> CHOOSE k \in 1 .. N : o[k] = e[i]]
  OBVIOUS
<1>13. \A i \in T : S[i] \in 1 .. N /\ o[S[i]] = b[i] /\ E[i] \in 1 .. N /\ o[E[i]] = e[i]
  <2> SUFFICES ASSUME NEW i \in T
               PROVE  S[i] \in 1 .. N /\ o[S[i]] = b[i] /\ E[i] \in 1 .. N /\ o[E[i]] = e[i]
    OBVIOUS
  <2>1. (\E k \in 1 .. N : o[k] = b[i]) /\ (\E k \in 1 .. N : o[k] = e[i])
    BY <1>3, <1>4, <1>10
  <2>2. S[i] = (CHOOSE k \in 1 .. N : o[k] = b[i]) /\ E[i] = (CHOOSE k \in 1 .. N : o[k] = e[i])
    BY <1>12
  <2> QED
    BY <2>1, <2>2
<1>14. Events(T, o, N, S, 1)
  <2>1. S \in [T -> 1 .. N]
    BY <1>12, <1>13
  <2>2. ASSUME NEW i \in T, NEW j \in T, S[i] = S[j] PROVE i = j
    <3>1. b[i] = b[j]
      BY <1>13, <2>2
    <3>2. b[i].i = i /\ b[j].i = j
      BY <1>2
    <3> QED
      BY <3>1, <3>2
  <2>3. \A i \in T : o[S[i]].change = 1
    BY <1>2, <1>13
  <2>4. ASSUME NEW k \in 1 .. N, o[k].change = 1 PROVE \E i \in T : S[i] = k
    <3>1. PICK i \in T : o[k] = b[i] \/ o[k] = e[i]
      BY <1>6, <1>10
    <3>2. o[k] # e[i]
      <4>1. e[i].change = down /\ down # 1
        BY <1>0, <1>2
      <4> QED
        BY <2>4, <4>1
    <3>3. o[k] = o[S[i]] /\ S[i] \in 1 .. N
      BY <1>13, <3>1, <3>2
    <3> QED
      BY <1>11, <3>3
  <2> QED
    BY <2>1, <2>2, <2>3, <2>4 DEF Events
<1>15. Events(T, o, N, E, -1)
  <2>1. E \in [T -> 1 .. N]
    BY <1>12, <1>13
  <2>2. ASSUME NEW i \in T, NEW j \in T, E[i] = E[j] PROVE i = j
    <3>1. e[i] = e[j]
      BY <1>13, <2>2
    <3>2. e[i].i = i /\ e[j].i = j
      BY <1>2
    <3> QED
      BY <3>1, <3>2
  <2>3. \A i \in T : o[E[i]].change = down
    BY <1>2, <1>13
  <2>4. ASSUME NEW k \in 1 .. N, o[k].change = down PROVE \E i \in T : E[i] = k
    <3>1. PICK i \in T : o[k] = b[i] \/ o[k] = e[i]
      BY <1>6, <1>10
    <3>2. o[k] # b[i]
      <4>1. b[i].change = 1 /\ down # 1
        BY <1>0, <1>2
      <4> QED
        BY <2>4, <4>1
    <3>3. o[k] = o[E[i]] /\ E[i] \in 1 .. N
      BY <1>13, <3>1, <3>2
    <3> QED
      BY <1>11, <3>3
  <2>5. Events(T, o, N, E, down)
    BY <2>1, <2>2, <2>3, <2>4 DEF Events
  <2> QED
    BY <1>0, <2>5
<1>16. \A i, j \in T : S[i] < E[j] <=> st[i] < en[j]
  <2> SUFFICES ASSUME NEW i \in T, NEW j \in T PROVE S[i] < E[j] <=> st[i] < en[j]
    OBVIOUS
  <2>1. S[i] < E[j] <=> Sooner(b[i], e[j])
    BY <1>10, <1>13
  <2>2. b[i].at = st[i] /\ b[i].change = 1 /\ e[j].at = en[j] /\ e[j].change = down
    BY <1>2
  <2>3. Sooner(b[i], e[j]) <=> st[i] < en[j]
    BY <1>0, <1>2, <2>2 DEF Sooner
  <2> QED
    BY <2>1, <2>3
<1>17. \A i, j \in T : S[i] <= S[j] => st[i] <= st[j]
  <2> SUFFICES ASSUME NEW i \in T, NEW j \in T, S[i] <= S[j] PROVE st[i] <= st[j]
    OBVIOUS
  <2>1. ~(S[j] < S[i])
    BY <1>13
  <2>2. ~Sooner(b[j], b[i])
    BY <1>10, <1>13, <2>1
  <2>3. b[i].at = st[i] /\ b[j].at = st[j] /\ st[i] \in Int /\ st[j] \in Int
    BY <1>2
  <2> QED
    BY <2>2, <2>3 DEF Sooner
<1>18. N \in Nat /\ o \in [1 .. N -> M]
  BY <1>10
<1>19. Swept(T, st, en, o, N, S, E)
  BY <1>14, <1>15, <1>16, <1>17, Zenon DEF Swept
<1> QED
  BY <1>9, <1>18, <1>19, Zenon

\* A sequence without repetition, of the elements of W.
Enumerates(seq, W) == /\ seq \in Seq(W) /\ \A w \in W : \E i \in DOMAIN seq : seq[i] = w
                      /\ \A i, j \in DOMAIN seq : seq[i] = seq[j] => i = j

LEMMA PickedOnce ==
  ASSUME NEW W, NEW seq, Enumerates(seq, W), NEW I \in SUBSET DOMAIN seq,
         NEW V, V = {seq[i] : i \in I}
  PROVE  Enumerates(Picked(seq, I), V)
<1>1. PICK p, r, m : p = Picked(seq, I) /\ r = Ranked(I) /\ m = Cardinality(I)
  OBVIOUS
<1>2. seq \in Seq(W)
  BY DEF Enumerates
<1>3. m \in Nat /\ DOMAIN p = 1 .. m /\ Len(p) = m
  BY <1>1, <1>2, PickedIs
<1>4. \A k \in 1 .. m : r[k] \in I /\ p[k] = seq[r[k]]
  BY <1>1, <1>2, PickedIs
<1>5. \A i \in I : \E k \in 1 .. m : r[k] = i
  BY <1>1, <1>2, PickedIs
<1>6. \A j, k \in 1 .. m : j < k <=> r[j] < r[k]
  BY <1>1, <1>2, PickedIs
<1>7. p \in Seq(V)
  <2>1. p \in Seq(W)
    BY <1>1, <1>2, PickedIs
  <2>2. \A k \in 1 .. m : p[k] \in V
    BY <1>4
  <2>3. p = [k \in 1 .. m |-> p[k]]
    BY <1>3, <2>1, SeqFacts
  <2>4. p \in [1 .. m -> V]
    BY <2>2, <2>3
  <2> QED
    BY <1>3, <2>4, SeqOfFunction
<1>8. \A w \in V : \E k \in DOMAIN p : p[k] = w
  BY <1>3, <1>4, <1>5
<1>9. ASSUME NEW j \in DOMAIN p, NEW k \in DOMAIN p, p[j] = p[k] PROVE j = k
  <2>1. r[j] \in I /\ r[k] \in I /\ seq[r[j]] = seq[r[k]]
    BY <1>3, <1>4, <1>9
  <2>2. r[j] = r[k]
    BY <2>1 DEF Enumerates
  <2>3. r[j] \in Int
    <3>1. DOMAIN seq \in SUBSET Int
      BY <1>2, SeqFacts
    <3> QED
      BY <2>1, <3>1
  <2>4. ~(j < k) /\ ~(k < j)
    BY <1>3, <1>6, <2>2, <2>3
  <2> QED
    BY <1>3, <2>4
<1> QED
  BY <1>1, <1>7, <1>8, <1>9 DEF Enumerates

LEMMA StepsOnce ==
  ASSUME NEW steps, SoundSteps(steps)
  PROVE  Enumerates(steps, ToSet(steps))
<1>1. steps \in Seq(ToSet(steps)) /\ \A i, j \in DOMAIN steps : steps[i].id = steps[j].id => i = j
  BY TupleIs DEF SoundSteps
<1> QED
  BY <1>1 DEF Enumerates, ToSet

TimedSteps(steps) == {s \in ToSet(steps) : HasToolExecution(s) /\ s.dur > 0}

LEMMA TimedOfSteps ==
  ASSUME NEW steps, SoundSteps(steps)
  PROVE  Enumerates(TimedCalls(Executions(steps)), TimedSteps(steps))
<1>1. PICK calls : calls = Executions(steps)
  OBVIOUS
<1>2. PICK I, V : I = {i \in DOMAIN steps : HasToolExecution(steps[i])} /\ V = {steps[i] : i \in I}
  OBVIOUS
<1>3. calls = Picked(steps, I)
  <2>1. Executions(steps) = Picked(steps, {i \in DOMAIN steps : HasToolExecution(steps[i])})
    BY Zenon DEF Executions, Selected, Ordered, Picked, Ranked, Arranged
  <2> QED
    BY <1>1, <1>2, <2>1
<1>4. Enumerates(calls, V)
  <2>1. Enumerates(steps, ToSet(steps)) /\ I \in SUBSET DOMAIN steps
    BY <1>2, StepsOnce
  <2> QED
    BY <1>2, <1>3, <2>1, PickedOnce
<1>5. PICK J, U : J = {i \in DOMAIN calls : calls[i].dur > 0} /\ U = {calls[i] : i \in J}
  OBVIOUS
<1>6. TimedCalls(calls) = Picked(calls, J)
  <2>1. TimedCalls(calls) = Picked(calls, {i \in DOMAIN calls : calls[i].dur > 0})
    BY Zenon DEF TimedCalls, Selected, Ordered, Picked, Ranked, Arranged
  <2> QED
    BY <1>5, <2>1
<1>7. Enumerates(TimedCalls(calls), U)
  <2>1. J \in SUBSET DOMAIN calls
    BY <1>5
  <2> QED
    BY <1>4, <1>5, <1>6, <2>1, PickedOnce
<1>8. V = {s \in ToSet(steps) : HasToolExecution(s)}
  BY <1>2 DEF ToSet
<1>9. \A i \in DOMAIN calls : calls[i] \in V
  BY <1>4, SeqFacts DEF Enumerates
<1>10. U = {s \in V : s.dur > 0}
  BY <1>4, <1>5, <1>9 DEF Enumerates
<1>11. U = TimedSteps(steps)
  BY <1>8, <1>10 DEF TimedSteps
<1> QED
  BY <1>1, <1>7, <1>11

(* The concurrency reported is the most executions that overlap.           *)
LEMMA ConcurrencyIs ==
  ASSUME NEW steps, SoundSteps(steps)
  PROVE  MaxConcurrency(Executions(steps)) = Overlap(steps)
<1>1. PICK calls, timed, W : calls = Executions(steps) /\ timed = TimedCalls(calls) /\ W = TimedSteps(steps)
  OBVIOUS
<1>2. Enumerates(timed, W)
  BY <1>1, TimedOfSteps
<1>3. PICK n, T : n = Len(timed) /\ T = 1 .. n
  OBVIOUS
<1>4. n \in Nat /\ DOMAIN timed = T /\ \A i \in T : timed[i] \in W
  BY <1>2, <1>3, SeqFacts DEF Enumerates
<1>5. \A s \in W : s.start \in Int /\ s.dur \in Int /\ s.dur > 0
  <2>1. \A i \in DOMAIN steps : steps[i].start \in Int /\ steps[i].dur \in Int
    BY DEF SoundSteps, SoundStep
  <2> QED
    BY <1>1, <2>1 DEF TimedSteps, ToSet
<1>6. PICK st, en : st = [i \in T |-> timed[i].start] /\ en = [i \in T |-> timed[i].start + timed[i].dur]
  OBVIOUS
<1>7. Intervals(T, st, en)
  <2>1. \A i \in T : timed[i].start \in Int /\ timed[i].dur \in Int /\ timed[i].dur > 0
    BY <1>4, <1>5
  <2> QED
    BY <1>6, <2>1 DEF Intervals
<1>8. IsFiniteSet(T)
  BY <1>3, <1>4, IntervalCount
<1> DEFINE during == {Cardinality(During(T, st, en, st[j])) : j \in T}
<1>9. Overlap(steps) = Max({1} \cup during)
  <2> DEFINE at(p) == {s \in W : s.start <= p /\ p < s.start + s.dur}
             most == {Cardinality(at(s.start)) : s \in W}
  <2>1. Overlap(steps) = Max({1} \cup most)
    BY <1>1, Zenon DEF Overlap, TimedSteps
  <2>2. ASSUME NEW j \in T PROVE Cardinality(at(timed[j].start)) = Cardinality(During(T, st, en, st[j]))
    <3>1. PICK p, A, B : p = st[j] /\ A = During(T, st, en, p) /\ B = at(p)
      OBVIOUS
    <3>2. PICK f : f = [i \in A |-> timed[i]]
      OBVIOUS
    <3>3. A = {i \in T : timed[i].start <= p /\ p < timed[i].start + timed[i].dur}
      BY <1>6, <3>1 DEF During
    <3>4. B = {s \in W : s.start <= p /\ p < s.start + s.dur}
      BY <3>1
    <3> HIDE DEF at
    <3>5. IsFiniteSet(A)
      <4>1. A \in SUBSET T
        BY <3>3
      <4> QED
        BY <1>8, <4>1, FS_Subset
    <3>6. f \in [A -> B]
      BY <1>4, <3>2, <3>3, <3>4
    <3>7. \A x, y \in A : f[x] = f[y] => x = y
      BY <1>2, <1>4, <3>2, <3>3 DEF Enumerates
    <3>8. \A b \in B : \E x \in A : f[x] = b
      <4> SUFFICES ASSUME NEW b \in B PROVE \E x \in A : f[x] = b
        OBVIOUS
      <4>1. b \in W
        BY <3>4
      <4>2. PICK i \in T : timed[i] = b
        BY <1>2, <1>4, <4>1 DEF Enumerates
      <4>3. i \in A
        BY <3>3, <3>4, <4>2
      <4> QED
        BY <3>2, <4>2, <4>3
    <3>9. Cardinality(B) = Cardinality(A)
      BY <3>5, <3>6, <3>7, <3>8, SameCount
    <3>10. p = timed[j].start
      BY <1>6, <3>1
    <3> QED
      BY <3>1, <3>9, <3>10
  <2>3. most = during
    <3> HIDE DEF at
    <3>1. \A s \in W : \E j \in T : timed[j] = s
      BY <1>2, <1>4 DEF Enumerates
    <3>2. \A j \in T : timed[j] \in W
      BY <1>4
    <3>3. \A x \in most : x \in during
      BY <2>2, <3>1
    <3>4. \A x \in during : x \in most
      BY <2>2, <3>2
    <3> QED
      BY <3>3, <3>4
  <2> QED
    BY <2>1, <2>3
<1>10. CASE timed = <<>>
  <2>1. MaxConcurrency(calls) = 1
    BY <1>1, <1>10, MaxConcurrencyIs
  <2>2. T = {}
    <3>1. Len(timed) = 0 /\ 1 .. 0 = {}
      BY <1>10
    <3> QED
      BY <1>3, <3>1
  <2>3. {1} \cup during = {1}
    BY <2>2
  <2>4. IsFiniteSet({1}) /\ {1} \in SUBSET Int /\ {1} # {}
    <3>1. IsFiniteSet({1})
      BY FS_Singleton, Zenon
    <3> QED
      BY <3>1
  <2>5. Max({1}) \in {1}
    BY <2>4, MaxIs
  <2> QED
    BY <1>1, <1>9, <2>1, <2>3, <2>5
<1>11. CASE timed # <<>>
  <2>1. PICK M : M = MarksOf(T, st, en)
    OBVIOUS
  <2>2. M = Begins(timed) \cup Ends(timed)
    <3>1. \A i \in T : st[i] = timed[i].start /\ en[i] = timed[i].start + timed[i].dur
      BY <1>6
    <3>2. {MarkOf(i, st[i], 1) : i \in T} = {MarkOf(i, timed[i].start, 1) : i \in T}
      BY <3>1
    <3>3. {MarkOf(i, en[i], -1) : i \in T} = {MarkOf(i, timed[i].start + timed[i].dur, -1) : i \in T}
      BY <3>1
    <3> QED
      BY <1>4, <2>1, <3>2, <3>3 DEF MarksOf, Begins, Ends
  <2>3. PICK o : o = Sweep(M)
    OBVIOUS
  <2>4. PICK N, S, E : N \in Nat /\ o \in [1 .. N -> M] /\ Swept(T, st, en, o, N, S, E)
    BY <1>3, <1>4, <1>7, <2>1, <2>3, SweepOf
  <2>5. o \in Seq(M) /\ DOMAIN o = 1 .. N
    BY <2>4, SeqOfFunction
  <2>6. \A x \in M : x.change \in {1, -1}
    BY <2>1, MarkFields DEF MarksOf
  <2>7. /\ FoldLeft(SweepStep, [now |-> 0, peak |-> 0], o).peak = Max({0} \cup Levels(o, DOMAIN o))
        /\ IsFiniteSet(Levels(o, DOMAIN o)) /\ Levels(o, DOMAIN o) \in SUBSET Int
    BY <2>5, <2>6, SweepIs
  <2>8. Max({1, Max({0} \cup Levels(o, 1 .. N))}) = Max({1} \cup during)
    <3>1. IsFiniteSet(Levels(o, 1 .. N)) /\ Levels(o, 1 .. N) \in SUBSET Int
      BY <2>5, <2>7
    <3> QED
      BY <1>7, <1>8, <2>4, <3>1, PeakIs
  <2>9. MaxConcurrency(calls) = Max({1, FoldLeft(SweepStep, [now |-> 0, peak |-> 0], o).peak})
    BY <1>1, <1>11, <2>2, <2>3, MaxConcurrencyIs
  <2> HIDE DEF during
  <2>10. Levels(o, DOMAIN o) = Levels(o, 1 .. N)
    BY <2>5
  <2> QED
    BY <1>1, <1>9, <2>7, <2>8, <2>9, <2>10
<1> QED
  BY <1>10, <1>11

-----------------------------------------------------------------------------
(* r lists the l numbers of I in order.                                    *)
Rises(r, l, I) ==
  /\ I \in SUBSET Nat /\ l \in Nat /\ r \in [1 .. l -> I] /\ \A i \in I : \E k \in 1 .. l : r[k] = i
  /\ \A j, k \in 1 .. l : j < k <=> r[j] < r[k]

LEMMA RankedRises ==
  ASSUME NEW n \in Nat, NEW I \in SUBSET (1 .. n)
  PROVE  Rises(Ranked(I), Cardinality(I), I)
<1>1. I \in SUBSET Nat
  OBVIOUS
<1> QED
  BY <1>1, RankedIs DEF Rises

LEMMA RisesFacts ==
  ASSUME NEW I, NEW r, NEW l, Rises(r, l, I)
  PROVE  /\ l \in Nat /\ IsFiniteSet(I) /\ Cardinality(I) = l
         /\ \A k \in 1 .. l : r[k] \in I /\ r[k] \in Nat
         /\ \A j, k \in 1 .. l : r[j] = r[k] => j = k
         /\ I # {} => 1 \in 1 .. l /\ l \in 1 .. l /\ \A i \in I : r[1] <= i /\ i <= r[l]
         /\ I = {} <=> l = 0
<1>1. /\ I \in SUBSET Nat /\ l \in Nat /\ r \in [1 .. l -> I] /\ \A i \in I : \E k \in 1 .. l : r[k] = i
      /\ \A j, k \in 1 .. l : j < k <=> r[j] < r[k]
  BY DEF Rises
<1>2. \A k \in 1 .. l : r[k] \in I /\ r[k] \in Nat
  BY <1>1
<1>3. ASSUME NEW j \in 1 .. l, NEW k \in 1 .. l, r[j] = r[k] PROVE j = k
  <2>1. r[j] \in Int
    BY <1>2
  <2>2. ~(j < k) /\ ~(k < j)
    BY <1>1, <1>3, <2>1
  <2> QED
    BY <1>1, <2>2
<1>4. IsFiniteSet(I) /\ Cardinality(I) = l
  <2>1. PICK A, B : A = 1 .. l /\ B = I
    OBVIOUS
  <2>2. IsFiniteSet(A) /\ Cardinality(A) = l
    BY <1>1, <2>1, IntervalCount
  <2>3. r \in [A -> B]
    BY <1>1, <2>1
  <2>4. \A b \in B : \E x \in A : r[x] = b
    BY <1>1, <2>1
  <2>5. \A x, y \in A : r[x] = r[y] => x = y
    BY <1>3, <2>1
  <2>6. IsFiniteSet(B) /\ Cardinality(B) = Cardinality(A)
    BY <2>2, <2>3, <2>4, <2>5, SameCount, Zenon
  <2> QED
    BY <2>1, <2>2, <2>6
<1>5. I = {} <=> l = 0
  BY <1>4, FS_EmptySet
<1>6. ASSUME I # {} PROVE 1 \in 1 .. l /\ l \in 1 .. l /\ \A i \in I : r[1] <= i /\ i <= r[l]
  <2>1. 1 \in 1 .. l /\ l \in 1 .. l
    <3>1. l # 0
      BY <1>5, <1>6
    <3>2. l \in Nat
      BY <1>1
    <3> QED
      BY <3>1, <3>2
  <2>2. ASSUME NEW i \in I PROVE r[1] <= i /\ i <= r[l]
    <3>1. PICK k \in 1 .. l : r[k] = i
      BY <1>1
    <3>2. r[1] \in Int /\ r[l] \in Int /\ r[k] \in Int
      BY <1>2, <2>1
    <3>3. ~(r[k] < r[1]) /\ ~(r[l] < r[k])
      <4>1. ~(k < 1) /\ ~(l < k)
        BY <1>1
      <4> QED
        BY <1>1, <2>1, <4>1
    <3> QED
      BY <3>1, <3>2, <3>3
  <2> QED
    BY <2>1, <2>2
<1> QED
  BY <1>1, <1>2, <1>3, <1>4, <1>5, <1>6

(* seq reads f at the places p lists.                                      *)
Reads(seq, f, p, l) == seq = [k \in 1 .. l |-> f[p[k]]]
(* J is where p lists K.                                                   *)
Where(J, p, l, K) == J \in SUBSET (1 .. l) /\ \A k \in 1 .. l : k \in J <=> p[k] \in K

(* What is picked from a sequence that reads f in order reads f in order.  *)
LEMMA PickedReads ==
  ASSUME NEW I, NEW p, NEW l, Rises(p, l, I), NEW f, NEW seq, Reads(seq, f, p, l), NEW K \in SUBSET I, NEW J, Where(J, p, l, K)
  PROVE  \E q, h : Rises(q, h, K) /\ Reads(Picked(seq, J), f, q, h)
<1>0. /\ seq = [k \in 1 .. l |-> f[p[k]]] /\ J \in SUBSET (1 .. l)
      /\ \A k \in 1 .. l : k \in J <=> p[k] \in K
  BY DEF Reads, Where
<1>1. l \in Nat /\ I \in SUBSET Nat /\ \A k \in 1 .. l : p[k] \in I
  BY DEF Rises
<1>2. PICK r, h : r = Ranked(J) /\ h = Cardinality(J)
  OBVIOUS
<1>3. Rises(r, h, J)
  BY <1>0, <1>1, <1>2, RankedRises
<1>4. h \in Nat /\ \A k \in 1 .. h : r[k] \in J
  BY <1>3 DEF Rises
<1>5. PICK q : q = [k \in 1 .. h |-> p[r[k]]]
  OBVIOUS
<1>6. Rises(q, h, K)
  <2>1. q \in [1 .. h -> K]
    BY <1>0, <1>4, <1>5
  <2>2. ASSUME NEW i \in K PROVE \E k \in 1 .. h : q[k] = i
    <3>1. PICK j \in 1 .. l : p[j] = i
      BY DEF Rises
    <3>2. j \in J
      BY <1>0, <3>1
    <3>3. PICK k \in 1 .. h : r[k] = j
      BY <1>3, <3>2 DEF Rises
    <3> QED
      BY <1>5, <3>1, <3>3
  <2>3. ASSUME NEW j \in 1 .. h, NEW k \in 1 .. h PROVE j < k <=> q[j] < q[k]
    <3>1. j < k <=> r[j] < r[k]
      BY <1>3 DEF Rises
    <3>2. r[j] \in 1 .. l /\ r[k] \in 1 .. l
      BY <1>0, <1>4
    <3>3. r[j] < r[k] <=> p[r[j]] < p[r[k]]
      BY <3>2 DEF Rises
    <3> QED
      BY <1>5, <3>1, <3>3
  <2> QED
    BY <1>1, <1>4, <2>1, <2>2, <2>3 DEF Rises
<1>7. Picked(seq, J) = [k \in 1 .. h |-> seq[r[k]]]
  <2>1. DOMAIN Ranked(J) = 1 .. h
    BY <1>2, <1>3 DEF Rises
  <2> QED
    BY <1>2, <2>1 DEF Picked
<1>8. \A k \in 1 .. h : seq[r[k]] = f[q[k]]
  BY <1>0, <1>4, <1>5
<1>9. Picked(seq, J) = [k \in 1 .. h |-> f[q[k]]]
  BY <1>7, <1>8
<1> QED
  BY <1>6, <1>9 DEF Reads

-----------------------------------------------------------------------------
(* The parts of the reductions.                                            *)
PositionOf(ordered, s) == CHOOSE i \in DOMAIN ordered : ordered[i].id = s.id
Before(ordered, covered, c) ==
  Picked(covered, {i \in DOMAIN covered : PositionOf(ordered, covered[i][1]) < PositionOf(ordered, c)})
After(ordered, covered, c) ==
  Picked(covered, {i \in DOMAIN covered : PositionOf(ordered, covered[i][1]) > PositionOf(ordered, c)})
Seen(ordered, covered, compacts) ==
  Picked(compacts, {j \in DOMAIN compacts : /\ Before(ordered, covered, compacts[j]) # <<>>
                                            /\ After(ordered, covered, compacts[j]) # <<>>})

LEMMA ReductionsIs ==
  ASSUME NEW ordered, NEW covered, NEW compacts
  PROVE  CompactReductions(ordered, covered, compacts) =
           [k \in DOMAIN Seen(ordered, covered, compacts) |->
              Head(After(ordered, covered, Seen(ordered, covered, compacts)[k]))[2]
                - Last(Before(ordered, covered, Seen(ordered, covered, compacts)[k]))[2]]
<1> DEFINE before(c) == Selected(covered, LAMBDA p : PositionOf(ordered, p[1]) < PositionOf(ordered, c))
           after(c) == Selected(covered, LAMBDA p : PositionOf(ordered, p[1]) > PositionOf(ordered, c))
           seen == Selected(compacts, LAMBDA c : before(c) # <<>> /\ after(c) # <<>>)
<1>1. CompactReductions(ordered, covered, compacts)
        = [k \in DOMAIN seen |-> Head(after(seen[k]))[2] - Last(before(seen[k]))[2]]
  BY ZenonT(60) DEF CompactReductions, PositionOf
<1>2. \A c : before(c) = Before(ordered, covered, c)
  BY ZenonT(60) DEF Before, Selected, Ordered, Picked, Ranked, Arranged
<1>3. \A c : after(c) = After(ordered, covered, c)
  BY ZenonT(60) DEF After, Selected, Ordered, Picked, Ranked, Arranged
<1> HIDE DEF before, after
<1>4. seen = Picked(compacts, {j \in DOMAIN compacts : before(compacts[j]) # <<>> /\ after(compacts[j]) # <<>>})
  BY Zenon DEF Selected, Ordered, Picked, Ranked, Arranged
<1>5. seen = Seen(ordered, covered, compacts)
  <2>1. {j \in DOMAIN compacts : before(compacts[j]) # <<>> /\ after(compacts[j]) # <<>>}
          = {j \in DOMAIN compacts : /\ Before(ordered, covered, compacts[j]) # <<>>
                                     /\ After(ordered, covered, compacts[j]) # <<>>}
    BY <1>2, <1>3, Zenon
  <2> HIDE DEF seen
  <2> QED
    BY <1>4, <2>1, Zenon DEF Seen
<1> HIDE DEF seen
<1>6. [k \in DOMAIN seen |-> Head(after(seen[k]))[2] - Last(before(seen[k]))[2]]
        = [k \in DOMAIN seen |-> Head(After(ordered, covered, seen[k]))[2]
                                   - Last(Before(ordered, covered, seen[k]))[2]]
  BY <1>2, <1>3, Zenon
<1> QED
  BY <1>1, <1>5, <1>6, Zenon

(* The first and the last of what is read in order.                        *)
EndsAre(seq, g, I) ==
  /\ seq # <<>> <=> I # {}
  /\ I # {} => \E a, b \in I : /\ \A i \in I : a <= i /\ i <= b
                                /\ Head(seq) = g[a] /\ Last(seq) = g[b]

LEMMA EndsRead ==
  ASSUME NEW I, NEW p, NEW l, Rises(p, l, I), NEW g,
         NEW seq, Reads(seq, g, p, l)
  PROVE  EndsAre(seq, g, I)
<1>1. /\ l \in Nat /\ \A k \in 1 .. l : p[k] \in I
      /\ I # {} => 1 \in 1 .. l /\ l \in 1 .. l /\ \A i \in I : p[1] <= i /\ i <= p[l]
      /\ I = {} <=> l = 0
  BY RisesFacts, Zenon
<1>2. seq = [k \in 1 .. l |-> g[p[k]]]
  BY DEF Reads
<1>3. seq \in Seq({g[p[k]] : k \in 1 .. l}) /\ Len(seq) = l
  <2>1. PICK T : T = {g[p[k]] : k \in 1 .. l}
    OBVIOUS
  <2>2. seq \in [1 .. l -> T]
    BY <1>2, <2>1
  <2> QED
    BY <1>1, <2>1, <2>2, SeqOfFunction
<1>4. seq # <<>> <=> I # {}
  <2>1. seq = <<>> => l = 0
    BY <1>3, EmptySeq
  <2>2. l = 0 => seq = <<>>
    BY <1>3, EmptySeq
  <2> QED
    BY <1>1, <2>1, <2>2
<1>5. ASSUME I # {} PROVE Head(seq) = g[p[1]] /\ Last(seq) = g[p[l]] /\ p[1] \in I /\ p[l] \in I
  <2>1. 1 \in 1 .. l /\ l \in 1 .. l
    BY <1>1, <1>5
  <2>2. Head(seq) = seq[1]
    <3>1. seq \in Seq({g[p[k]] : k \in 1 .. l}) /\ seq # <<>>
      BY <1>3, <1>4, <1>5
    <3> QED
      BY <3>1
  <2>3. Last(seq) = seq[l]
    BY <1>3 DEF Last
  <2> QED
    BY <1>1, <1>2, <2>1, <2>2, <2>3
<1> QED
  BY <1>1, <1>4, <1>5 DEF EndsAre

-----------------------------------------------------------------------------
(* The compact steps D that have one of C on both sides, and the nearest.  *)
Around(C, D) == {x \in D : (\E k \in C : k < x) /\ (\E k \in C : x < k)}
LastBefore(C, x, b) == b \in C /\ b < x /\ \A k \in C : k < x => k <= b
FirstAfter(C, x, a) == a \in C /\ x < a /\ \A k \in C : x < k => a <= k
Tokens(ord) == [k \in DOMAIN ord |-> TokenCount(ord[k], "input")]
WithTokens(ord) == [k \in DOMAIN ord |-> <<ord[k], Tokens(ord)[k]>>]
ChangeAt(ord, C, D) ==
  [x \in Around(C, D) |-> Tokens(ord)[CHOOSE a \in C : FirstAfter(C, x, a)]
                            - Tokens(ord)[CHOOSE b \in C : LastBefore(C, x, b)]]

LEMMA NearestOnce ==
  ASSUME NEW n \in Nat, NEW C \in SUBSET (1 .. n), NEW x \in 1 .. n, NEW a, NEW b
  PROVE  /\ FirstAfter(C, x, a) => (CHOOSE k \in C : FirstAfter(C, x, k)) = a
         /\ LastBefore(C, x, b) => (CHOOSE k \in C : LastBefore(C, x, k)) = b
<1>1. ASSUME FirstAfter(C, x, a) PROVE (CHOOSE k \in C : FirstAfter(C, x, k)) = a
  <2>1. \A k \in C : FirstAfter(C, x, k) => k = a
    BY <1>1 DEF FirstAfter
  <2>2. a \in C
    BY <1>1 DEF FirstAfter
  <2> QED
    BY <1>1, <2>1, <2>2
<1>2. ASSUME LastBefore(C, x, b) PROVE (CHOOSE k \in C : LastBefore(C, x, k)) = b
  <2>1. \A k \in C : LastBefore(C, x, k) => k = b
    BY <1>2 DEF LastBefore
  <2>2. b \in C
    BY <1>2 DEF LastBefore
  <2> QED
    BY <1>2, <2>1, <2>2
<1> QED
  BY <1>1, <1>2

(* No two of the n steps have one id.                                      *)
OwnIds(ord, n) == DOMAIN ord = 1 .. n /\ \A j, k \in 1 .. n : ord[j].id = ord[k].id => j = k

(* What a compact step sees before it and after it.                        *)
Sides(ord, covered, C, x) ==
  /\ Before(ord, covered, ord[x]) # <<>> <=> \E k \in C : k < x
  /\ (\E k \in C : k < x) => \E b : /\ LastBefore(C, x, b)
                                    /\ Last(Before(ord, covered, ord[x]))[2] = Tokens(ord)[b]
  /\ After(ord, covered, ord[x]) # <<>> <=> \E k \in C : x < k
  /\ (\E k \in C : x < k) => \E a : /\ FirstAfter(C, x, a)
                                    /\ Head(After(ord, covered, ord[x]))[2] = Tokens(ord)[a]

LEMMA SidesRead ==
  ASSUME NEW n \in Nat, NEW ord, OwnIds(ord, n),
         NEW C \in SUBSET (1 .. n), NEW p, NEW l, Rises(p, l, C),
         NEW covered, Reads(covered, WithTokens(ord), p, l), NEW x \in 1 .. n
  PROVE  Sides(ord, covered, C, x)
<1>1. \A k \in 1 .. n : PositionOf(ord, ord[k]) = k
  BY DEF PositionOf, OwnIds
<1>2. l \in Nat /\ \A k \in 1 .. l : p[k] \in C /\ p[k] \in 1 .. n
  BY DEF Rises
<1>0. PICK g : /\ g = [k \in 1 .. n |-> <<ord[k], Tokens(ord)[k]>>]
              /\ Reads(covered, g, p, l)
  BY DEF WithTokens, OwnIds
<1>3. DOMAIN covered = 1 .. l /\ \A k \in 1 .. l : covered[k][1] = ord[p[k]]
  <2>1. covered = [k \in 1 .. l |-> g[p[k]]]
    BY <1>0 DEF Reads
  <2> QED
    BY <1>0, <1>2, <2>1
<1>4. DOMAIN covered = 1 .. l /\ \A k \in 1 .. l : PositionOf(ord, covered[k][1]) = p[k]
  BY <1>1, <1>2, <1>3
<1>5. PositionOf(ord, ord[x]) = x
  BY <1>1
<1>6. \A k \in C : k \in 1 .. n /\ g[k][2] = Tokens(ord)[k]
  BY <1>0
<1>7. /\ Before(ord, covered, ord[x]) # <<>> <=> \E k \in C : k < x
      /\ (\E k \in C : k < x) => \E b : /\ LastBefore(C, x, b)
                                       /\ Last(Before(ord, covered, ord[x]))[2] = Tokens(ord)[b]
  <2>1. PICK J, K : J = {i \in 1 .. l : p[i] < x} /\ K = {k \in C : k < x}
    OBVIOUS
  <2>2. Before(ord, covered, ord[x]) = Picked(covered, J)
    <3>1. {i \in DOMAIN covered : PositionOf(ord, covered[i][1]) < PositionOf(ord, ord[x])} = J
      BY <1>4, <1>5, <2>1
    <3> QED
      BY <3>1, Zenon DEF Before
  <2>3. K \in SUBSET C /\ Where(J, p, l, K)
    BY <1>2, <2>1 DEF Where
  <2>4. PICK q, h : Rises(q, h, K) /\ Reads(Picked(covered, J), g, q, h)
    <3>1. Rises(p, l, C) /\ Reads(covered, g, p, l) /\ K \in SUBSET C /\ Where(J, p, l, K)
      BY <1>0, <2>3
    <3> QED
      BY <3>1, PickedReads, Zenon
  <2>6. PICK seq : seq = Before(ord, covered, ord[x]) /\ Reads(seq, g, q, h)
    BY <2>2, <2>4
  <2>7. /\ seq # <<>> <=> K # {}
        /\ K # {} => \E a, b \in K : /\ \A i \in K : a <= i /\ i <= b
                                     /\ Head(seq) = g[a] /\ Last(seq) = g[b]
    <3>1. Rises(q, h, K) /\ Reads(seq, g, q, h)
      BY <2>4, <2>6
    <3>2. EndsAre(seq, g, K)
      BY <3>1, EndsRead, Zenon
    <3> QED
      BY <3>2 DEF EndsAre
  <2>8. K # {} <=> \E k \in C : k < x
    BY <2>1
  <2>9. ASSUME K # {} PROVE \E b : LastBefore(C, x, b) /\ Last(seq)[2] = Tokens(ord)[b]
    <3>1. PICK b \in K : (\A i \in K : i <= b) /\ Last(seq) = g[b]
      BY <2>7, <2>9
    <3>2. LastBefore(C, x, b)
      BY <2>1, <3>1 DEF LastBefore
    <3>3. Last(seq)[2] = Tokens(ord)[b]
      BY <1>6, <2>1, <3>1
    <3> QED
      BY <3>2, <3>3
  <2> QED
    BY <2>6, <2>7, <2>8, <2>9, Zenon
<1>8. /\ After(ord, covered, ord[x]) # <<>> <=> \E k \in C : x < k
      /\ (\E k \in C : x < k) => \E a : /\ FirstAfter(C, x, a)
                                       /\ Head(After(ord, covered, ord[x]))[2] = Tokens(ord)[a]
  <2>1. PICK J, K : J = {i \in 1 .. l : p[i] > x} /\ K = {k \in C : x < k}
    OBVIOUS
  <2>2. After(ord, covered, ord[x]) = Picked(covered, J)
    <3>1. {i \in DOMAIN covered : PositionOf(ord, covered[i][1]) > PositionOf(ord, ord[x])} = J
      BY <1>4, <1>5, <2>1
    <3> QED
      BY <3>1, Zenon DEF After
  <2>3. K \in SUBSET C /\ Where(J, p, l, K)
    BY <1>2, <2>1 DEF Where
  <2>4. PICK q, h : Rises(q, h, K) /\ Reads(Picked(covered, J), g, q, h)
    <3>1. Rises(p, l, C) /\ Reads(covered, g, p, l) /\ K \in SUBSET C /\ Where(J, p, l, K)
      BY <1>0, <2>3
    <3> QED
      BY <3>1, PickedReads, Zenon
  <2>6. PICK seq : seq = After(ord, covered, ord[x]) /\ Reads(seq, g, q, h)
    BY <2>2, <2>4
  <2>7. /\ seq # <<>> <=> K # {}
        /\ K # {} => \E a, b \in K : /\ \A i \in K : a <= i /\ i <= b
                                     /\ Head(seq) = g[a] /\ Last(seq) = g[b]
    <3>1. Rises(q, h, K) /\ Reads(seq, g, q, h)
      BY <2>4, <2>6
    <3>2. EndsAre(seq, g, K)
      BY <3>1, EndsRead, Zenon
    <3> QED
      BY <3>2 DEF EndsAre
  <2>8. K # {} <=> \E k \in C : x < k
    BY <2>1
  <2>9. ASSUME K # {} PROVE \E a : FirstAfter(C, x, a) /\ Head(seq)[2] = Tokens(ord)[a]
    <3>1. PICK a \in K : (\A i \in K : a <= i) /\ Head(seq) = g[a]
      BY <2>7, <2>9
    <3>2. FirstAfter(C, x, a)
      BY <2>1, <3>1 DEF FirstAfter
    <3>3. Head(seq)[2] = Tokens(ord)[a]
      BY <1>6, <2>1, <3>1
    <3> QED
      BY <3>2, <3>3
  <2> QED
    BY <2>6, <2>7, <2>8, <2>9, Zenon
<1> QED
  BY <1>7, <1>8 DEF Sides

(* The reductions are the changes around the compact steps, in order.      *)
LEMMA ReductionsRead ==
  ASSUME NEW n \in Nat, NEW ord, OwnIds(ord, n),
         NEW C \in SUBSET (1 .. n), NEW p, NEW l, Rises(p, l, C),
         NEW covered, Reads(covered, WithTokens(ord), p, l),
         NEW D \in SUBSET (1 .. n), NEW d, NEW m, Rises(d, m, D),
         NEW compacts, Reads(compacts, ord, d, m)
  PROVE  \E q, h : /\ Rises(q, h, Around(C, D))
                   /\ Reads(CompactReductions(ord, covered, compacts), ChangeAt(ord, C, D), q, h)
<1>3. \A x \in 1 .. n :
         /\ Before(ord, covered, ord[x]) # <<>> <=> \E k \in C : k < x
         /\ (\E k \in C : k < x) => \E b : /\ LastBefore(C, x, b)
                                          /\ Last(Before(ord, covered, ord[x]))[2] = Tokens(ord)[b]
         /\ After(ord, covered, ord[x]) # <<>> <=> \E k \in C : x < k
         /\ (\E k \in C : x < k) => \E a : /\ FirstAfter(C, x, a)
                                          /\ Head(After(ord, covered, ord[x]))[2] = Tokens(ord)[a]
  <2> TAKE x \in 1 .. n
  <2>1. Sides(ord, covered, C, x)
    BY SidesRead, Zenon
  <2> QED
    BY <2>1 DEF Sides
<1>4. m \in Nat /\ \A k \in 1 .. m : d[k] \in D /\ d[k] \in 1 .. n
  BY DEF Rises
<1>5. PICK A, J : /\ A = Around(C, D)
                  /\ J = {j \in DOMAIN compacts : /\ Before(ord, covered, compacts[j]) # <<>>
                                                  /\ After(ord, covered, compacts[j]) # <<>>}
  OBVIOUS
<1>6. A \in SUBSET D /\ Where(J, d, m, A)
  <2>1. DOMAIN compacts = 1 .. m /\ \A k \in 1 .. m : compacts[k] = ord[d[k]]
    BY DEF Reads
  <2>2. \A k \in 1 .. m : k \in J <=> (\E c \in C : c < d[k]) /\ (\E c \in C : d[k] < c)
    <3> TAKE k \in 1 .. m
    <3>1. PICK x : x = d[k] /\ x \in 1 .. n /\ compacts[k] = ord[x]
      BY <1>4, <2>1
    <3>2. k \in J <=> /\ Before(ord, covered, ord[x]) # <<>>
                      /\ After(ord, covered, ord[x]) # <<>>
      BY <1>5, <2>1, <3>1, Zenon
    <3>3. /\ Before(ord, covered, ord[x]) # <<>> <=> \E c \in C : c < x
          /\ After(ord, covered, ord[x]) # <<>> <=> \E c \in C : x < c
      BY <1>3, <3>1, Zenon
    <3> QED
      BY <3>1, <3>2, <3>3, Zenon
  <2>3. \A k \in 1 .. m : d[k] \in A <=> (\E c \in C : c < d[k]) /\ (\E c \in C : d[k] < c)
    BY <1>4, <1>5 DEF Around
  <2> QED
    BY <1>5, <2>1, <2>2, <2>3 DEF Around, Where
<1>7. PICK q, h : Rises(q, h, A) /\ Reads(Picked(compacts, J), ord, q, h)
  <2>1. Rises(d, m, D) /\ Reads(compacts, ord, d, m) /\ A \in SUBSET D /\ Where(J, d, m, A)
    BY <1>6
  <2> QED
    BY <2>1, PickedReads, Zenon
<1>8. PICK seen : seen = Seen(ord, covered, compacts) /\ seen = [k \in 1 .. h |-> ord[q[k]]]
  BY <1>5, <1>7, Zenon DEF Seen, Reads
<1>9. DOMAIN seen = 1 .. h /\ \A k \in 1 .. h : seen[k] = ord[q[k]] /\ q[k] \in A
  BY <1>7, <1>8 DEF Rises
<1>10. \A k \in 1 .. h : Head(After(ord, covered, seen[k]))[2] - Last(Before(ord, covered, seen[k]))[2]
                           = ChangeAt(ord, C, D)[q[k]]
  <2> TAKE k \in 1 .. h
  <2>1. PICK x : x = q[k] /\ x \in A /\ x \in D /\ x \in 1 .. n /\ seen[k] = ord[x]
    BY <1>6, <1>9
  <2>2. (\E c \in C : c < x) /\ (\E c \in C : x < c)
    BY <1>5, <2>1 DEF Around
  <2>3. PICK b : LastBefore(C, x, b) /\ Last(Before(ord, covered, ord[x]))[2] = Tokens(ord)[b]
    BY <1>3, <2>1, <2>2, Zenon
  <2>4. PICK a : FirstAfter(C, x, a) /\ Head(After(ord, covered, ord[x]))[2] = Tokens(ord)[a]
    BY <1>3, <2>1, <2>2, Zenon
  <2>5. (CHOOSE c \in C : FirstAfter(C, x, c)) = a /\ (CHOOSE c \in C : LastBefore(C, x, c)) = b
    BY <2>1, <2>3, <2>4, NearestOnce
  <2>6. ChangeAt(ord, C, D)[x] = Tokens(ord)[CHOOSE c \in C : FirstAfter(C, x, c)]
                                  - Tokens(ord)[CHOOSE c \in C : LastBefore(C, x, c)]
    BY <1>5, <2>1, Zenon DEF ChangeAt
  <2>7. ChangeAt(ord, C, D)[x] = Tokens(ord)[a] - Tokens(ord)[b]
    BY <2>5, <2>6, Zenon
  <2> QED
    BY <2>1, <2>3, <2>4, <2>7, Zenon
<1>11. CompactReductions(ord, covered, compacts) =
         [k \in DOMAIN seen |-> Head(After(ord, covered, seen[k]))[2] - Last(Before(ord, covered, seen[k]))[2]]
  BY <1>8, ReductionsIs, Zenon
<1>12. CompactReductions(ord, covered, compacts) = [k \in 1 .. h |-> ChangeAt(ord, C, D)[q[k]]]
  <2>1. [k \in DOMAIN seen |-> Head(After(ord, covered, seen[k]))[2] - Last(Before(ord, covered, seen[k]))[2]]
          = [k \in 1 .. h |-> ChangeAt(ord, C, D)[q[k]]]
    BY <1>9, <1>10, Zenon
  <2> QED
    BY <1>11, <2>1, Zenon
<1> QED
  BY <1>5, <1>7, <1>12, ZenonT(60) DEF Reads

(* ord is the n steps in start order, o the place of each.                 *)
Started(steps, n, o, ord) ==
  /\ n \in Nat /\ DOMAIN steps = 1 .. n /\ o \in [1 .. n -> 1 .. n]
  /\ \A x \in 1 .. n : \E k \in 1 .. n : o[k] = x
  /\ \A j, k \in 1 .. n : o[j] = o[k] => j = k
  /\ \A j, k \in 1 .. n : j < k <=>
        \/ steps[o[j]].start < steps[o[k]].start
        \/ steps[o[j]].start = steps[o[k]].start /\ o[j] < o[k]
  /\ ord = [k \in 1 .. n |-> steps[o[k]]]
  /\ OwnIds(ord, n)

LEMMA InOrderIs ==
  ASSUME NEW steps, SoundSteps(steps), NEW n, n = Len(steps), NEW o, o = StartOrder(steps),
         NEW ord, ord = InOrder(steps)
  PROVE  Started(steps, n, o, ord)
<1>1. PICK D, at : D = DOMAIN steps /\ at = Starts(steps)
  OBVIOUS
<1>2. /\ n \in Nat /\ D = 1 .. n /\ D \in SUBSET Int /\ IsFiniteSet(D) /\ Cardinality(D) = n
      /\ at \in [D -> Int] /\ o = Timed(D, at)
  BY <1>1, StartOrderIs
<1>3. /\ o \in [1 .. n -> D]
      /\ \A x \in D : \E k \in 1 .. n : o[k] = x
      /\ \A j, k \in 1 .. n : j < k <=>
              at[o[j]] < at[o[k]] \/ (at[o[j]] = at[o[k]] /\ o[j] < o[k])
  <2>1. D \in SUBSET Int /\ IsFiniteSet(D) /\ at \in [D -> Int]
    BY <1>2
  <2>2. /\ Timed(D, at) \in [1 .. Cardinality(D) -> D]
        /\ \A x \in D : \E k \in 1 .. Cardinality(D) : Timed(D, at)[k] = x
        /\ \A j, k \in 1 .. Cardinality(D) : j < k <=>
              \/ at[Timed(D, at)[j]] < at[Timed(D, at)[k]]
              \/ at[Timed(D, at)[j]] = at[Timed(D, at)[k]] /\ Timed(D, at)[j] < Timed(D, at)[k]
    BY <2>1, TimedIs, Zenon
  <2>3. Cardinality(D) = n /\ Timed(D, at) = o
    BY <1>2
  <2>4. o \in [1 .. n -> D] /\ \A x \in D : \E k \in 1 .. n : o[k] = x
    BY <2>2, <2>3
  <2>5. \A j, k \in 1 .. n : j < k <=>
              at[o[j]] < at[o[k]] \/ (at[o[j]] = at[o[k]] /\ o[j] < o[k])
    BY <2>2, <2>3
  <2> QED
    BY <2>4, <2>5, Zenon
<1>4. \A j, k \in 1 .. n : o[j] = o[k] => j = k
  BY <1>2, TimedOnce
<1>5. o \in [1 .. n -> 1 .. n] /\ \A x \in 1 .. n : \E k \in 1 .. n : o[k] = x
  BY <1>2, <1>3
<1>6. \A x \in 1 .. n : at[x] = steps[x].start
  BY <1>1, <1>2 DEF Starts
<1>7. \A j, k \in 1 .. n : j < k <=>
              \/ steps[o[j]].start < steps[o[k]].start
              \/ steps[o[j]].start = steps[o[k]].start /\ o[j] < o[k]
  <2> TAKE j, k \in 1 .. n
  <2>1. at[o[j]] = steps[o[j]].start /\ at[o[k]] = steps[o[k]].start
    BY <1>5, <1>6
  <2>2. j < k <=> at[o[j]] < at[o[k]] \/ (at[o[j]] = at[o[k]] /\ o[j] < o[k])
    BY <1>3, Zenon
  <2> QED
    BY <2>1, <2>2, Zenon
<1>8. ord = [k \in 1 .. n |-> steps[o[k]]]
  BY <1>5 DEF InOrder
<1>9. OwnIds(ord, n)
  <2>1. \A j, k \in 1 .. n : steps[o[j]].id = steps[o[k]].id => o[j] = o[k]
    BY <1>1, <1>2, <1>5 DEF SoundSteps
  <2>2. DOMAIN ord = 1 .. n /\ \A k \in 1 .. n : ord[k] = steps[o[k]]
    BY <1>8
  <2> QED
    BY <1>4, <2>1, <2>2 DEF OwnIds
<1> QED
  BY <1>1, <1>2, <1>4, <1>5, <1>7, <1>8, <1>9, Zenon DEF Started

(* A selection from all of a sequence reads it in order.                   *)
LEMMA AllRead ==
  ASSUME NEW n \in Nat, NEW ord, DOMAIN ord = 1 .. n, ord = [k \in 1 .. n |-> ord[k]],
         NEW I \in SUBSET (1 .. n)
  PROVE  \E p, l : Rises(p, l, I) /\ Reads(Picked(ord, I), ord, p, l)
<1>1. PICK p, l : p = Ranked(I) /\ l = Cardinality(I)
  OBVIOUS
<1>2. Rises(p, l, I)
  BY <1>1, RankedRises
<1>3. DOMAIN p = 1 .. l
  BY <1>2 DEF Rises
<1>4. Reads(Picked(ord, I), ord, p, l)
  BY <1>1, <1>3 DEF Reads, Picked
<1> QED
  BY <1>2, <1>4

(* The model calls with a count, and the compact steps, by place.          *)
CallsAt(ord) == {k \in DOMAIN ord : IsModelCall(ord[k])}
CoveredAt(ord) == {k \in CallsAt(ord) : Tokens(ord)[k] # None}
CompactsAt(ord) == {k \in DOMAIN ord : IsCompactStep(ord[k])}

LEMMA CoveredRead ==
  ASSUME NEW n \in Nat, NEW ord, DOMAIN ord = 1 .. n, ord = [k \in 1 .. n |-> ord[k]]
  PROVE  \E p, l : Rises(p, l, CoveredAt(ord)) /\ Reads(Covered(Selected(ord, IsModelCall)), WithTokens(ord), p, l)
<1>1. PICK I, K, g : I = CallsAt(ord) /\ K = CoveredAt(ord) /\ g = WithTokens(ord)
  OBVIOUS
<1>2. I \in SUBSET (1 .. n) /\ K \in SUBSET I
  BY <1>1 DEF CallsAt, CoveredAt
<1>3. PICK calls : calls = Selected(ord, IsModelCall) /\ calls = Picked(ord, I)
  <2>1. Selected(ord, IsModelCall) = Picked(ord, {k \in DOMAIN ord : IsModelCall(ord[k])})
    BY Zenon DEF Selected, Ordered, Picked, Ranked, Arranged
  <2> QED
    BY <1>1, <2>1, Zenon DEF CallsAt
<1>4. PICK p, l : Rises(p, l, I) /\ Reads(calls, ord, p, l)
  <2>1. \E p, l : Rises(p, l, I) /\ Reads(Picked(ord, I), ord, p, l)
    BY <1>2, AllRead
  <2> QED
    BY <1>3, <2>1, Zenon
<1>5. calls = [k \in 1 .. l |-> ord[p[k]]] /\ \A k \in 1 .. l : p[k] \in I /\ p[k] \in 1 .. n
  BY <1>2, <1>4 DEF Reads, Rises
<1>6. PICK counted : counted = [i \in DOMAIN calls |-> <<calls[i], TokenCount(calls[i], "input")>>]
  OBVIOUS
<1>7. \A k \in 1 .. n : g[k] = <<ord[k], TokenCount(ord[k], "input")>> /\ Tokens(ord)[k] = TokenCount(ord[k], "input")
  BY <1>1 DEF WithTokens, Tokens
<1>8. DOMAIN counted = 1 .. l /\ \A k \in 1 .. l : counted[k] = g[p[k]] /\ counted[k][2] = Tokens(ord)[p[k]]
  <2>1. DOMAIN calls = 1 .. l /\ DOMAIN counted = 1 .. l
    BY <1>5, <1>6
  <2>2. ASSUME NEW k \in 1 .. l PROVE counted[k] = g[p[k]] /\ counted[k][2] = Tokens(ord)[p[k]]
    <3>1. calls[k] = ord[p[k]] /\ p[k] \in 1 .. n
      BY <1>5
    <3>2. counted[k] = <<calls[k], TokenCount(calls[k], "input")>>
      BY <1>6, <2>1
    <3>3. counted[k] = <<ord[p[k]], TokenCount(ord[p[k]], "input")>>
      BY <3>1, <3>2
    <3>4. /\ g[p[k]] = <<ord[p[k]], TokenCount(ord[p[k]], "input")>>
          /\ Tokens(ord)[p[k]] = TokenCount(ord[p[k]], "input")
      BY <1>7, <3>1
    <3> QED
      BY <3>3, <3>4
  <2> QED
    BY <2>1, <2>2
<1>9. Reads(counted, g, p, l)
  BY <1>6, <1>8 DEF Reads
<1>10. PICK J : J = {i \in DOMAIN counted : counted[i][2] # None}
  OBVIOUS
<1>11. Covered(Selected(ord, IsModelCall)) = Picked(counted, J)
  <2>1. Covered(calls) = Selected(counted, LAMBDA c : c[2] # None)
    BY <1>6, Zenon DEF Covered
  <2>2. Selected(counted, LAMBDA c : c[2] # None) = Picked(counted, {i \in DOMAIN counted : counted[i][2] # None})
    BY Zenon DEF Selected, Ordered, Picked, Ranked, Arranged
  <2> QED
    BY <1>3, <1>10, <2>1, <2>2, Zenon
<1>12. Where(J, p, l, K)
  <2>1. \A k \in 1 .. l : k \in J <=> Tokens(ord)[p[k]] # None
    BY <1>8, <1>10
  <2>2. \A k \in 1 .. l : p[k] \in K <=> Tokens(ord)[p[k]] # None
    BY <1>1, <1>5 DEF CoveredAt
  <2> QED
    BY <1>8, <1>10, <2>1, <2>2 DEF Where
<1>13. PICK q, h : Rises(q, h, K) /\ Reads(Picked(counted, J), g, q, h)
  BY <1>2, <1>4, <1>9, <1>12, PickedReads
<1> QED
  BY <1>1, <1>11, <1>13, Zenon

LEMMA CompactsRead ==
  ASSUME NEW n \in Nat, NEW ord, DOMAIN ord = 1 .. n, ord = [k \in 1 .. n |-> ord[k]]
  PROVE  \E p, l : Rises(p, l, CompactsAt(ord)) /\ Reads(Selected(ord, IsCompactStep), ord, p, l)
<1>1. PICK I : I = CompactsAt(ord)
  OBVIOUS
<1>2. I \in SUBSET (1 .. n)
  BY <1>1 DEF CompactsAt
<1>3. Selected(ord, IsCompactStep) = Picked(ord, I)
  <2>1. Selected(ord, IsCompactStep) = Picked(ord, {k \in DOMAIN ord : IsCompactStep(ord[k])})
    BY Zenon DEF Selected, Ordered, Picked, Ranked, Arranged
  <2> QED
    BY <1>1, <2>1, Zenon DEF CompactsAt
<1>4. \E p, l : Rises(p, l, I) /\ Reads(Picked(ord, I), ord, p, l)
  BY <1>2, AllRead
<1> QED
  BY <1>1, <1>3, <1>4, Zenon

(* The changes of a trajectory read those around its compact steps.        *)
LEMMA ChangesRead ==
  ASSUME NEW steps, SoundSteps(steps), NEW ord, ord = InOrder(steps),
         NEW A, A = Around(CoveredAt(ord), CompactsAt(ord)),
         NEW f, f = ChangeAt(ord, CoveredAt(ord), CompactsAt(ord))
  PROVE  \E q, h : Rises(q, h, A) /\ Reads(Changes(steps), f, q, h)
<1>1. PICK n : /\ n \in Nat /\ OwnIds(ord, n) /\ DOMAIN ord = 1 .. n
               /\ ord = [k \in 1 .. n |-> ord[k]]
  <2>1. PICK n, o : n = Len(steps) /\ o = StartOrder(steps)
    OBVIOUS
  <2>2. n \in Nat /\ OwnIds(ord, n) /\ ord = [k \in 1 .. n |-> steps[o[k]]]
    BY <2>1, InOrderIs DEF Started
  <2> QED
    BY <2>2
<1>2. PICK C, D : C = CoveredAt(ord) /\ D = CompactsAt(ord) /\ C \in SUBSET (1 .. n) /\ D \in SUBSET (1 .. n)
  <2>1. CoveredAt(ord) \in SUBSET (1 .. n)
    BY <1>1 DEF CoveredAt, CallsAt
  <2>2. CompactsAt(ord) \in SUBSET (1 .. n)
    BY <1>1 DEF CompactsAt
  <2> QED
    BY <2>1, <2>2, Zenon
<1>3. PICK covered, compacts : /\ covered = Covered(Selected(ord, IsModelCall))
                               /\ compacts = Selected(ord, IsCompactStep)
  OBVIOUS
<1>4. PICK p, l : Rises(p, l, C) /\ Reads(covered, WithTokens(ord), p, l)
  BY <1>1, <1>2, <1>3, CoveredRead
<1>5. PICK d, m : Rises(d, m, D) /\ Reads(compacts, ord, d, m)
  BY <1>1, <1>2, <1>3, CompactsRead
<1>6. PICK q, h : /\ Rises(q, h, Around(C, D))
                  /\ Reads(CompactReductions(ord, covered, compacts), ChangeAt(ord, C, D), q, h)
  BY <1>1, <1>2, <1>4, <1>5, ReductionsRead
<1>7. Changes(steps) = CompactReductions(ord, covered, compacts)
  BY <1>3, Zenon DEF Changes
<1> QED
  BY <1>2, <1>6, <1>7, Zenon

-----------------------------------------------------------------------------
(* The change around a step, looked for in the recorded order.             *)
StartsBefore(steps, i, j) ==
  steps[i].start < steps[j].start \/ (steps[i].start = steps[j].start /\ i < j)
Counting(steps) == {i \in DOMAIN steps : IsModelCall(steps[i]) /\ TokenCount(steps[i], "input") # None}
NearestBefore(steps, c) ==
  {i \in Counting(steps) : StartsBefore(steps, i, c) /\ \A j \in Counting(steps) :
                             StartsBefore(steps, j, c) => ~StartsBefore(steps, i, j)}
NearestAfter(steps, c) ==
  {i \in Counting(steps) : StartsBefore(steps, c, i) /\ \A j \in Counting(steps) :
                             StartsBefore(steps, c, j) => ~StartsBefore(steps, j, i)}

LEMMA NearestChangeIs ==
  ASSUME NEW steps, NEW c
  PROVE  NearestChange(steps, c) =
           {TokenCount(steps[a], "input") - TokenCount(steps[b], "input") :
              a \in NearestAfter(steps, c), b \in NearestBefore(steps, c)}
<1> DEFINE pos(i) == <<steps[i].start, i>>
           lt(i, j) == pos(i)[1] < pos(j)[1] \/ (pos(i)[1] = pos(j)[1] /\ i < j)
           calls == {i \in DOMAIN steps : IsModelCall(steps[i]) /\ TokenCount(steps[i], "input") # None}
           before == {i \in calls : lt(i, c) /\ \A j \in calls : lt(j, c) => ~lt(i, j)}
           after == {i \in calls : lt(c, i) /\ \A j \in calls : lt(c, j) => ~lt(j, i)}
<1>1. NearestChange(steps, c) =
        {TokenCount(steps[a], "input") - TokenCount(steps[b], "input") : a \in after, b \in before}
  BY SMT DEF NearestChange
<1>2. \A i, j : lt(i, j) <=> StartsBefore(steps, i, j)
  <2> TAKE i, j
  <2>1. pos(i)[1] = steps[i].start /\ pos(j)[1] = steps[j].start
    OBVIOUS
  <2> HIDE DEF pos
  <2> QED
    BY <2>1, Zenon DEF StartsBefore
<1>3. calls = Counting(steps)
  BY Zenon DEF Counting
<1> HIDE DEF lt, calls
<1>4. before = NearestBefore(steps, c)
  BY <1>2, <1>3, Zenon DEF NearestBefore
<1>5. after = NearestAfter(steps, c)
  BY <1>2, <1>3, Zenon DEF NearestAfter
<1> HIDE DEF before, after
<1> QED
  BY <1>1, <1>4, <1>5

(* There is a nearest one where there is one.                              *)
LEMMA NearestExists ==
  ASSUME NEW n \in Nat, NEW C \in SUBSET (1 .. n), NEW x \in 1 .. n
  PROVE  /\ (\E k \in C : k < x) => \E b : LastBefore(C, x, b)
         /\ (\E k \in C : x < k) => \E a : FirstAfter(C, x, a)
<1>1. ASSUME NEW K \in SUBSET (1 .. n), K # {}
      PROVE  \E a, b \in K : \A k \in K : a <= k /\ k <= b
  <2>1. PICK r, l : Rises(r, l, K)
    BY RankedRises
  <2>2. 1 \in 1 .. l /\ l \in 1 .. l /\ \A i \in K : r[1] <= i /\ i <= r[l]
    BY <1>1, <2>1, RisesFacts
  <2>3. r[1] \in K /\ r[l] \in K
    BY <2>1, <2>2 DEF Rises
  <2> QED
    BY <2>2, <2>3
<1>2. ASSUME \E k \in C : k < x PROVE \E b : LastBefore(C, x, b)
  <2>1. PICK K : K = {k \in C : k < x}
    OBVIOUS
  <2>2. K \in SUBSET (1 .. n) /\ K # {}
    BY <1>2, <2>1
  <2>3. PICK b \in K : \A k \in K : k <= b
    BY <1>1, <2>2
  <2> QED
    BY <2>1, <2>3 DEF LastBefore
<1>3. ASSUME \E k \in C : x < k PROVE \E a : FirstAfter(C, x, a)
  <2>1. PICK K : K = {k \in C : x < k}
    OBVIOUS
  <2>2. K \in SUBSET (1 .. n) /\ K # {}
    BY <1>3, <2>1
  <2>3. PICK a \in K : \A k \in K : a <= k
    BY <1>1, <2>2
  <2> QED
    BY <2>1, <2>3 DEF FirstAfter
<1> QED
  BY <1>2, <1>3

(* What is nearest in the recorded order is nearest in start order.        *)
SameNearest(steps, o, C, x) ==
  /\ NearestBefore(steps, o[x]) = {o[b] : b \in {k \in C : LastBefore(C, x, k)}}
  /\ NearestAfter(steps, o[x]) = {o[a] : a \in {k \in C : FirstAfter(C, x, k)}}

LEMMA NearestPlaces ==
  ASSUME NEW steps, SoundSteps(steps), NEW n, n = Len(steps), NEW o, o = StartOrder(steps),
         NEW ord, ord = InOrder(steps), NEW C, C = CoveredAt(ord), NEW x \in 1 .. n
  PROVE  SameNearest(steps, o, C, x)
<1>1. /\ n \in Nat /\ DOMAIN steps = 1 .. n /\ \A k \in 1 .. n : o[k] \in 1 .. n
      /\ \A i \in 1 .. n : \E k \in 1 .. n : o[k] = i
      /\ \A j, k \in 1 .. n : j < k <=> StartsBefore(steps, o[j], o[k])
      /\ ord = [k \in 1 .. n |-> steps[o[k]]]
  <2>1. /\ n \in Nat /\ DOMAIN steps = 1 .. n /\ o \in [1 .. n -> 1 .. n]
        /\ \A i \in 1 .. n : \E k \in 1 .. n : o[k] = i
        /\ \A j, k \in 1 .. n : j < k <=>
              \/ steps[o[j]].start < steps[o[k]].start
              \/ steps[o[j]].start = steps[o[k]].start /\ o[j] < o[k]
        /\ ord = [k \in 1 .. n |-> steps[o[k]]]
    <3>1. Started(steps, n, o, ord)
      BY InOrderIs
    <3> QED
      BY <3>1, Zenon DEF Started
  <2>2. \A k \in 1 .. n : o[k] \in 1 .. n
    BY <2>1
  <2> QED
    BY <2>1, <2>2, Zenon DEF StartsBefore
<1>2. C \in SUBSET (1 .. n) /\ \A k \in 1 .. n : k \in C <=> o[k] \in Counting(steps)
  <2>1. DOMAIN ord = 1 .. n /\ \A k \in 1 .. n : ord[k] = steps[o[k]] /\ o[k] \in DOMAIN steps
    BY <1>1
  <2>2. \A k \in 1 .. n : Tokens(ord)[k] = TokenCount(steps[o[k]], "input")
    BY <2>1 DEF Tokens
  <2>3. \A k \in 1 .. n : k \in C <=> /\ IsModelCall(steps[o[k]])
                                      /\ TokenCount(steps[o[k]], "input") # None
    BY <2>1, <2>2, Zenon DEF CoveredAt, CallsAt
  <2>4. \A k \in 1 .. n : o[k] \in Counting(steps) <=> /\ IsModelCall(steps[o[k]])
                                      /\ TokenCount(steps[o[k]], "input") # None
    BY <2>1, Zenon DEF Counting
  <2>5. C \in SUBSET (1 .. n)
    BY <2>1 DEF CoveredAt, CallsAt
  <2> QED
    BY <2>3, <2>4, <2>5, Zenon
<1>3. \A i \in Counting(steps) : \E k \in C : o[k] = i
  BY <1>1, <1>2 DEF Counting
<1>4. \A k \in C : k \in 1 .. n /\ o[k] \in Counting(steps)
  BY <1>2
<1>5. ASSUME NEW k \in C
      PROVE  /\ o[k] \in NearestBefore(steps, o[x]) <=> LastBefore(C, x, k)
             /\ o[k] \in NearestAfter(steps, o[x]) <=> FirstAfter(C, x, k)
  <2>1. o[k] \in Counting(steps) /\ k \in 1 .. n
    BY <1>4
  <2>2. StartsBefore(steps, o[k], o[x]) <=> k < x
    BY <1>1, <2>1
  <2>3. StartsBefore(steps, o[x], o[k]) <=> x < k
    BY <1>1, <2>1
  <2>4. (\A j \in Counting(steps) : StartsBefore(steps, j, o[x]) => ~StartsBefore(steps, o[k], j))
          <=> \A j \in C : j < x => j <= k
    <3>1. (\A j \in Counting(steps) : StartsBefore(steps, j, o[x]) => ~StartsBefore(steps, o[k], j))
            <=> \A j \in C : StartsBefore(steps, o[j], o[x]) => ~StartsBefore(steps, o[k], o[j])
      BY <1>3, <1>4, Zenon
    <3>2. \A j \in C : (StartsBefore(steps, o[j], o[x]) => ~StartsBefore(steps, o[k], o[j])) <=> (j < x => ~(k < j))
      BY <1>1, <1>4, <2>1
    <3>3. \A j \in C : ~(k < j) <=> j <= k
      BY <1>4, <2>1
    <3> QED
      BY <3>1, <3>2, <3>3, Zenon
  <2>5. (\A j \in Counting(steps) : StartsBefore(steps, o[x], j) => ~StartsBefore(steps, j, o[k]))
          <=> \A j \in C : x < j => k <= j
    <3>1. (\A j \in Counting(steps) : StartsBefore(steps, o[x], j) => ~StartsBefore(steps, j, o[k]))
            <=> \A j \in C : StartsBefore(steps, o[x], o[j]) => ~StartsBefore(steps, o[j], o[k])
      BY <1>3, <1>4, ZenonT(60)
    <3>2. \A j \in C : (StartsBefore(steps, o[x], o[j]) => ~StartsBefore(steps, o[j], o[k])) <=> (x < j => ~(j < k))
      BY <1>1, <1>4, <2>1
    <3>3. \A j \in C : ~(j < k) <=> k <= j
      BY <1>4, <2>1
    <3> QED
      BY <3>1, <3>2, <3>3, Zenon
  <2>6. o[k] \in NearestBefore(steps, o[x]) <=> LastBefore(C, x, k)
    BY <2>1, <2>2, <2>4, Zenon DEF NearestBefore, LastBefore
  <2>7. o[k] \in NearestAfter(steps, o[x]) <=> FirstAfter(C, x, k)
    BY <2>1, <2>3, <2>5, Zenon DEF NearestAfter, FirstAfter
  <2> QED
    BY <2>6, <2>7
<1>6. NearestBefore(steps, o[x]) = {o[b] : b \in {k \in C : LastBefore(C, x, k)}}
  <2>1. NearestBefore(steps, o[x]) \subseteq Counting(steps)
    BY Zenon DEF NearestBefore
  <2> QED
    BY <1>3, <1>5, <2>1
<1>7. NearestAfter(steps, o[x]) = {o[a] : a \in {k \in C : FirstAfter(C, x, k)}}
  <2>1. NearestAfter(steps, o[x]) \subseteq Counting(steps)
    BY Zenon DEF NearestAfter
  <2> QED
    BY <1>3, <1>5, <2>1
<1> QED
  BY <1>6, <1>7 DEF SameNearest

(* The change around a compact step, if there is one.                      *)
LEMMA NearestAt ==
  ASSUME NEW steps, SoundSteps(steps), NEW n, n = Len(steps), NEW o, o = StartOrder(steps),
         NEW ord, ord = InOrder(steps), NEW C, C = CoveredAt(ord), NEW D, D = CompactsAt(ord),
         NEW x \in D
  PROVE  /\ x \in 1 .. n
         /\ x \in Around(C, D) => /\ NearestChange(steps, o[x]) = {ChangeAt(ord, C, D)[x]}
                                  /\ ChangeAt(ord, C, D)[x] \in Int
         /\ x \notin Around(C, D) => NearestChange(steps, o[x]) = {}
<1>1. Started(steps, n, o, ord)
  BY InOrderIs
<1>2. /\ n \in Nat /\ DOMAIN steps = 1 .. n /\ DOMAIN ord = 1 .. n
      /\ \A k \in 1 .. n : o[k] \in DOMAIN steps /\ ord[k] = steps[o[k]]
  BY <1>1 DEF Started
<1>3. C \in SUBSET (1 .. n) /\ x \in 1 .. n
  BY <1>2 DEF CoveredAt, CallsAt, CompactsAt
<1>4. \A k \in 1 .. n : Tokens(ord)[k] = TokenCount(steps[o[k]], "input") /\ Tokens(ord)[k] \in Int
  <2>1. \A k \in 1 .. n : SoundStep(ord[k])
    BY <1>2 DEF SoundSteps
  <2>2. \A k \in 1 .. n : Tokens(ord)[k] = TokenCount(ord[k], "input")
    BY <1>2 DEF Tokens
  <2> QED
    BY <1>2, <2>1, <2>2, TokenCountIs
<1>5. /\ NearestBefore(steps, o[x]) = {o[b] : b \in {k \in C : LastBefore(C, x, k)}}
      /\ NearestAfter(steps, o[x]) = {o[a] : a \in {k \in C : FirstAfter(C, x, k)}}
  <2>1. SameNearest(steps, o, C, x)
    BY <1>3, NearestPlaces
  <2> QED
    BY <2>1, Zenon DEF SameNearest
<1>6. NearestChange(steps, o[x]) =
           {TokenCount(steps[a], "input") - TokenCount(steps[b], "input") :
              a \in NearestAfter(steps, o[x]), b \in NearestBefore(steps, o[x])}
  BY NearestChangeIs
<1>7. x \in Around(C, D) <=> (\E k \in C : k < x) /\ (\E k \in C : x < k)
  BY DEF Around
<1>8. ASSUME x \in Around(C, D)
      PROVE  /\ NearestChange(steps, o[x]) = {ChangeAt(ord, C, D)[x]}
             /\ ChangeAt(ord, C, D)[x] \in Int
  <2>1. PICK a, b : FirstAfter(C, x, a) /\ LastBefore(C, x, b)
    BY <1>2, <1>3, <1>7, <1>8, NearestExists
  <2>2. a \in C /\ b \in C /\ a \in 1 .. n /\ b \in 1 .. n
    BY <1>3, <2>1 DEF FirstAfter, LastBefore
  <2>3. {k \in C : LastBefore(C, x, k)} = {b} /\ {k \in C : FirstAfter(C, x, k)} = {a}
    BY <1>3, <2>1, <2>2 DEF FirstAfter, LastBefore
  <2>4. NearestBefore(steps, o[x]) = {o[b]} /\ NearestAfter(steps, o[x]) = {o[a]}
    BY <1>5, <2>3
  <2>5. NearestChange(steps, o[x]) = {TokenCount(steps[o[a]], "input") - TokenCount(steps[o[b]], "input")}
    BY <1>6, <2>4
  <2>6. (CHOOSE c \in C : FirstAfter(C, x, c)) = a /\ (CHOOSE c \in C : LastBefore(C, x, c)) = b
    BY <1>2, <1>3, <2>1, NearestOnce
  <2>7. ChangeAt(ord, C, D)[x] = Tokens(ord)[CHOOSE c \in C : FirstAfter(C, x, c)]
                                  - Tokens(ord)[CHOOSE c \in C : LastBefore(C, x, c)]
    BY <1>8, Zenon DEF ChangeAt
  <2>8. ChangeAt(ord, C, D)[x] = Tokens(ord)[a] - Tokens(ord)[b]
    BY <2>6, <2>7, Zenon
  <2> QED
    BY <1>4, <2>2, <2>5, <2>8
<1>9. ASSUME x \notin Around(C, D) PROVE NearestChange(steps, o[x]) = {}
  <2>1. {k \in C : LastBefore(C, x, k)} = {} \/ {k \in C : FirstAfter(C, x, k)} = {}
    BY <1>7, <1>9 DEF FirstAfter, LastBefore
  <2>2. NearestBefore(steps, o[x]) = {} \/ NearestAfter(steps, o[x]) = {}
    BY <1>5, <2>1
  <2> QED
    BY <1>6, <2>2
<1> QED
  BY <1>3, <1>8, <1>9

(* The compact steps of a trajectory, by place.                            *)
CompactSteps(steps) == {c \in DOMAIN steps : IsCompactStep(steps[c])}

LEMMA CompactStepsIs ==
  ASSUME NEW steps, NEW n, NEW o, NEW ord, Started(steps, n, o, ord)
  PROVE  CompactSteps(steps) = {o[x] : x \in CompactsAt(ord)}
<1>1. /\ DOMAIN steps = 1 .. n /\ DOMAIN ord = 1 .. n
      /\ \A k \in 1 .. n : o[k] \in 1 .. n /\ ord[k] = steps[o[k]]
      /\ \A i \in 1 .. n : \E k \in 1 .. n : o[k] = i
  BY DEF Started
<1>2. \A k \in 1 .. n : k \in CompactsAt(ord) <=> o[k] \in CompactSteps(steps)
  <2> TAKE k \in 1 .. n
  <2>1. k \in CompactsAt(ord) <=> IsCompactStep(ord[k])
    BY <1>1, Zenon DEF CompactsAt
  <2>2. o[k] \in CompactSteps(steps) <=> IsCompactStep(steps[o[k]])
    BY <1>1, Zenon DEF CompactSteps
  <2> QED
    BY <1>1, <2>1, <2>2
<1>3. CompactsAt(ord) \subseteq 1 .. n /\ CompactSteps(steps) \subseteq 1 .. n
  BY <1>1 DEF CompactsAt, CompactSteps
<1> QED
  BY <1>1, <1>2, <1>3

(* As many changes are reported as there are.                              *)
LEMMA ChangesCounted ==
  ASSUME NEW steps, SoundSteps(steps)
  PROVE  Len(Changes(steps)) = Cardinality({c \in CompactSteps(steps) : NearestChange(steps, c) # {}})
<1>1. PICK n, o, ord, C, D, A, f :
        /\ n = Len(steps) /\ o = StartOrder(steps) /\ ord = InOrder(steps)
        /\ C = CoveredAt(ord) /\ D = CompactsAt(ord)
        /\ A = Around(C, D) /\ f = ChangeAt(ord, C, D)
  OBVIOUS
<1>2. Started(steps, n, o, ord)
  BY <1>1, InOrderIs
<1>3. /\ \A x \in D : x \in 1 .. n
      /\ \A x \in D : NearestChange(steps, o[x]) # {} <=> x \in A
  <2> SUFFICES ASSUME NEW x \in D
               PROVE  x \in 1 .. n /\ (NearestChange(steps, o[x]) # {} <=> x \in A)
    OBVIOUS
  <2> QED
    BY <1>1, NearestAt
<1>4. CompactSteps(steps) = {o[x] : x \in D}
  BY <1>1, <1>2, CompactStepsIs
<1>5. PICK S : S = {c \in CompactSteps(steps) : NearestChange(steps, c) # {}}
  OBVIOUS
<1>6. A \subseteq D
  BY <1>1 DEF Around
<1>7. S = {o[x] : x \in A}
  BY <1>3, <1>4, <1>5, <1>6
<1>8. PICK q, h : Rises(q, h, A) /\ Reads(Changes(steps), f, q, h)
  BY <1>1, ChangesRead
<1>9. IsFiniteSet(A) /\ Cardinality(A) = h /\ h \in Nat
  BY <1>8, RisesFacts
<1>10. Len(Changes(steps)) = h
  <2>1. PICK T, g : g = [k \in 1 .. h |-> f[q[k]]] /\ T = {f[q[k]] : k \in 1 .. h}
    OBVIOUS
  <2>2. g \in [1 .. h -> T] /\ Changes(steps) = g
    BY <1>8, <2>1 DEF Reads
  <2> QED
    BY <1>9, <2>2, SeqOfFunction
<1>11. Cardinality(S) = Cardinality(A)
  <2>1. PICK g : g = [x \in A |-> o[x]]
    OBVIOUS
  <2>2. g \in [A -> S] /\ \A b \in S : \E x \in A : g[x] = b
    BY <1>7, <2>1
  <2>3. \A x, y \in A : g[x] = g[y] => x = y
    BY <1>2, <1>3, <1>6, <2>1 DEF Started
  <2> QED
    BY <1>9, <2>2, <2>3, SameCount
<1> QED
  BY <1>5, <1>9, <1>10, <1>11

(* The sum of no number, and of one.                                       *)
LEMMA SumSetIs ==
  ASSUME NEW S, S = {} \/ \E v \in Int : S = {v}
  PROVE  /\ S = {} => SumSet(S) = 0
         /\ \A v \in Int : S = {v} => SumSet(S) = v
<1> DEFINE any(s) == CHOOSE x \in s : TRUE
           Body(g) == [s \in SUBSET S |-> IF s = {} THEN 0 ELSE any(s) + g[s \ {any(s)}]]
           it == CHOOSE g : g = Body(g)
<1>1. SumSet(S) = it[S]
  BY Zenon DEF SumSet, FoldSet, MapThenFoldSet
<1>2. \A v : any({v}) = v
  OBVIOUS
<1> HIDE DEF any
<1>3. \E g : g = Body(g)
  <2>1. CASE S = {}
    <3>1. PICK g : g = [s \in SUBSET S |-> 0]
      OBVIOUS
    <3>2. \A s \in SUBSET S : s = {}
      BY <2>1
    <3>3. g = Body(g)
      BY <3>1, <3>2
    <3> QED
      BY <3>3
  <2>2. CASE S # {}
    <3>1. PICK v \in Int : S = {v}
      BY <2>2
    <3>2. PICK g : g = [s \in SUBSET S |-> IF s = {} THEN 0 ELSE v]
      OBVIOUS
    <3>3. \A s \in SUBSET S : s = {} \/ s = {v}
      BY <3>1
    <3>4. any({v}) = v /\ {v} \ {v} = {} /\ g[{}] = 0
      BY <1>2, <3>2
    <3>5. any({v}) + g[{v} \ {any({v})}] = v
      BY <3>4
    <3>6. \A s \in SUBSET S : g[s] = IF s = {} THEN 0 ELSE any(s) + g[s \ {any(s)}]
      BY <3>2, <3>3, <3>5
    <3>7. g = Body(g)
      BY <3>2, <3>6
    <3> QED
      BY <3>7
  <2> QED
    BY <2>1, <2>2
<1>4. it = Body(it)
  <2> HIDE DEF Body
  <2> QED
    BY <1>3
<1>5. it[{}] = 0 /\ (S # {} => it[S] = any(S) + it[S \ {any(S)}])
  <2> HIDE DEF it
  <2> QED
    BY <1>4
<1> HIDE DEF it
<1>6. S = {} => SumSet(S) = 0
  BY <1>1, <1>5
<1>7. ASSUME NEW v \in Int, S = {v} PROVE SumSet(S) = v
  <2>1. any(S) = v /\ S \ {v} = {} /\ S # {}
    BY <1>2, <1>7
  <2>2. it[S] = v + it[{}]
    BY <1>5, <2>1
  <2> QED
    BY <1>1, <1>5, <2>2
<1> QED
  BY <1>6, <1>7

(* What is zero may be left out of a sum.                                  *)
LEMMA SumZeros ==
  ASSUME NEW S, IsFiniteSet(S), NEW f, NEW sigma, IsSum(sigma, f, S), NEW A \in SUBSET S,
         \A x \in S : x \notin A => f[x] = 0
  PROVE  sigma[S] = sigma[A]
<1> DEFINE Q == {s \in SUBSET S : sigma[s] = sigma[s \cap A]}
<1>0. /\ sigma \in [SUBSET S -> Int] /\ sigma[{}] = 0
      /\ \A s \in SUBSET S : \A x \in s : sigma[s] = f[x] + sigma[s \ {x}]
  BY DEF IsSum
<1>1. {} \in Q
  <2>1. {} \cap A = {}
    OBVIOUS
  <2> QED
    BY <2>1
<1>2. ASSUME NEW s \in SUBSET S, s # {} PROVE \E x \in s : s \ {x} \in Q => s \in Q
  <2>1. PICK x \in s : TRUE
    BY <1>2
  <2>2. PICK b : b = s \ {x} /\ b \in SUBSET S /\ x \in S
    OBVIOUS
  <2>3. sigma[s] = f[x] + sigma[b] /\ sigma[b] \in Int
    BY <1>0, <2>1, <2>2
  <2>4. CASE x \in A
    <3>1. PICK t, u : t = s \cap A /\ u = b \cap A
      OBVIOUS
    <3>2. t \in SUBSET S /\ u \in SUBSET S /\ x \in t /\ u = t \ {x}
      BY <2>1, <2>2, <2>4, <3>1
    <3>3. sigma[t] = f[x] + sigma[u]
      BY <1>0, <3>2
    <3> QED
      BY <2>1, <2>2, <2>3, <3>1, <3>3
  <2>5. CASE x \notin A
    <3>1. f[x] = 0 /\ b \cap A = s \cap A
      BY <2>2, <2>5
    <3>2. sigma[s] = sigma[b]
      BY <2>3, <3>1
    <3> QED
      BY <2>1, <2>2, <3>1, <3>2
  <2> QED
    BY <2>4, <2>5
<1> HIDE DEF Q
<1>3. \A s \in SUBSET S : s \in Q
  BY <1>1, <1>2, SubsetInduction
<1>4. S \in Q
  BY <1>3
<1>5. S \cap A = A
  OBVIOUS
<1> QED
  BY <1>4, <1>5 DEF Q

(* The sum of the changes around the steps of S.                           *)
LEMMA SumOverIs ==
  ASSUME NEW steps, NEW S, IsFiniteSet(S), NEW f \in [S -> Int],
         \A c \in S : f[c] = SumSet(NearestChange(steps, c)), NEW sigma, IsSum(sigma, f, S)
  PROVE  MapThenSumSet(LAMBDA c : SumSet(NearestChange(steps, c)), S) = sigma[S]
<1> DEFINE any(s) == CHOOSE x \in s : TRUE
           Body(g) == [s \in SUBSET S |-> IF s = {} THEN 0
                         ELSE SumSet(NearestChange(steps, any(s))) + g[s \ {any(s)}]]
           it == CHOOSE g : g = Body(g)
<1>1. MapThenSumSet(LAMBDA c : SumSet(NearestChange(steps, c)), S) = it[S]
  BY Zenon DEF MapThenSumSet, MapThenFoldSet
<1>2. \A s \in SUBSET S : s # {} => any(s) \in s
  OBVIOUS
<1> HIDE DEF any
<1>3. /\ sigma \in [SUBSET S -> Int] /\ sigma[{}] = 0
      /\ \A s \in SUBSET S : \A x \in s : sigma[s] = f[x] + sigma[s \ {x}]
  BY DEF IsSum
<1>4. sigma = Body(sigma)
  <2>1. \A s \in SUBSET S : s # {} => sigma[s] = SumSet(NearestChange(steps, any(s))) + sigma[s \ {any(s)}]
    BY <1>2, <1>3
  <2> QED
    BY <1>3, <2>1
<1>5. it = Body(it)
  <2> HIDE DEF Body
  <2> QED
    BY <1>4
<1>6. it[{}] = 0 /\ \A s \in SUBSET S : s # {} => it[s] = SumSet(NearestChange(steps, any(s))) + it[s \ {any(s)}]
  <2> HIDE DEF it
  <2> QED
    BY <1>5
<1> DEFINE Q == {s \in SUBSET S : it[s] = sigma[s]}
<1>7. {} \in Q
  BY <1>3, <1>6
<1> HIDE DEF it
<1>8. ASSUME NEW s \in SUBSET S, s # {} PROVE \E x \in s : s \ {x} \in Q => s \in Q
  <2>1. PICK x : x = any(s) /\ x \in s
    BY <1>2, <1>8
  <2>2. sigma[s] = f[x] + sigma[s \ {x}]
    BY <1>3, <2>1
  <2>3. it[s] = f[x] + it[s \ {x}]
    BY <1>6, <1>8, <2>1
  <2> QED
    BY <2>1, <2>2, <2>3
<1> HIDE DEF Q
<1>9. \A s \in SUBSET S : s \in Q
  BY <1>7, <1>8, SubsetInduction
<1> QED
  BY <1>1, <1>9 DEF Q

(* The reported sum of the changes is the sum over the compact steps.      *)
LEMMA ChangesAddUp ==
  ASSUME NEW steps, SoundSteps(steps)
  PROVE  Total(Changes(steps)) =
           MapThenSumSet(LAMBDA c : SumSet(NearestChange(steps, c)), CompactSteps(steps))
<1>1. PICK n, o, ord, C, D, A, f :
        /\ n = Len(steps) /\ o = StartOrder(steps) /\ ord = InOrder(steps)
        /\ C = CoveredAt(ord) /\ D = CompactsAt(ord)
        /\ A = Around(C, D) /\ f = ChangeAt(ord, C, D)
  OBVIOUS
<1>2. Started(steps, n, o, ord)
  BY <1>1, InOrderIs
<1>3. \A x \in D : /\ x \in 1 .. n
                   /\ x \in A => NearestChange(steps, o[x]) = {f[x]} /\ f[x] \in Int
                   /\ x \notin A => NearestChange(steps, o[x]) = {}
  <2> SUFFICES ASSUME NEW x \in D
               PROVE  /\ x \in 1 .. n
                      /\ x \in A => NearestChange(steps, o[x]) = {f[x]} /\ f[x] \in Int
                      /\ x \notin A => NearestChange(steps, o[x]) = {}
    OBVIOUS
  <2> QED
    BY <1>1, NearestAt
<1>4. PICK S : S = CompactSteps(steps) /\ S = {o[x] : x \in D}
  BY <1>1, <1>2, CompactStepsIs
<1>5. \A x \in D : /\ x \in A => SumSet(NearestChange(steps, o[x])) = f[x] /\ f[x] \in Int
                   /\ x \notin A => SumSet(NearestChange(steps, o[x])) = 0
  <2> TAKE x \in D
  <2>1. PICK N : N = NearestChange(steps, o[x])
    OBVIOUS
  <2>2. CASE x \in A
    <3>1. N = {f[x]} /\ f[x] \in Int
      BY <1>3, <2>1, <2>2
    <3>2. SumSet(N) = f[x]
      BY <3>1, SumSetIs
    <3> QED
      BY <2>1, <2>2, <3>1, <3>2
  <2>3. CASE x \notin A
    <3>1. N = {}
      BY <1>3, <2>1, <2>3
    <3>2. SumSet(N) = 0
      BY <3>1, SumSetIs
    <3> QED
      BY <2>1, <2>3, <3>2
  <2> QED
    BY <2>2, <2>3
<1>6. PICK fn : fn = [c \in S |-> SumSet(NearestChange(steps, c))]
  OBVIOUS
<1>7. \A x \in D : /\ o[x] \in S
                   /\ x \in A => fn[o[x]] = f[x] /\ fn[o[x]] \in Int
                   /\ x \notin A => fn[o[x]] = 0
  BY <1>4, <1>5, <1>6
<1>8. fn \in [S -> Int]
  <2>1. \A c \in S : fn[c] \in Int
    BY <1>4, <1>7
  <2> QED
    BY <1>6, <2>1
<1>9. IsFiniteSet(S)
  <2>1. n \in Nat /\ S \subseteq 1 .. n
    BY <1>2, <1>3, <1>4 DEF Started
  <2> QED
    BY <2>1, IntervalCount, FS_Subset
<1>10. PICK sigma : IsSum(sigma, fn, S)
  BY <1>8, <1>9, SumExists
<1>11. MapThenSumSet(LAMBDA c : SumSet(NearestChange(steps, c)), S) = sigma[S]
  <2>1. \A c \in S : fn[c] = SumSet(NearestChange(steps, c))
    BY <1>6
  <2> QED
    BY <1>8, <1>9, <1>10, <2>1, SumOverIs, ZenonT(60)
<1>12. A \subseteq D
  BY <1>1 DEF Around
<1>13. PICK B : B = {o[x] : x \in A} /\ B \in SUBSET S
  BY <1>4, <1>12
<1>14. sigma[S] = sigma[B]
  <2>1. \A c \in S : c \notin B => fn[c] = 0
    BY <1>4, <1>7, <1>13
  <2> QED
    BY <1>9, <1>10, <1>13, <2>1, SumZeros
<1>15. PICK q, h : Rises(q, h, A) /\ Reads(Changes(steps), f, q, h)
  BY <1>1, ChangesRead
<1>16. PICK T, seq : T = 1 .. h /\ seq = Changes(steps) /\ seq = [k \in T |-> f[q[k]]]
  BY <1>15 DEF Reads
<1>17. /\ h \in Nat /\ IsFiniteSet(T) /\ \A k \in T : q[k] \in A
       /\ \A j, k \in T : q[j] = q[k] => j = k
       /\ \A x \in A : \E k \in T : q[k] = x
  <2>1. /\ h \in Nat /\ \A k \in 1 .. h : q[k] \in A
        /\ \A j, k \in 1 .. h : q[j] = q[k] => j = k
    BY <1>15, RisesFacts, Zenon
  <2>2. \A x \in A : \E k \in 1 .. h : q[k] = x
    BY <1>15 DEF Rises
  <2>3. IsFiniteSet(1 .. h)
    BY <2>1, IntervalCount
  <2> QED
    BY <1>16, <2>1, <2>2, <2>3, Zenon
<1>18. seq \in [T -> Int] /\ \A k \in T : seq[k] = f[q[k]]
  BY <1>7, <1>12, <1>16, <1>17
<1>19. PICK tau : IsSum(tau, seq, T)
  BY <1>17, <1>18, SumExists
<1>20. Total(seq) = tau[T]
  <2>1. seq \in Seq(Int) /\ DOMAIN seq = T
    BY <1>16, <1>17, <1>18, SeqOfFunction
  <2> QED
    BY <1>19, <2>1, TotalIs
<1>21. PICK name : name = [k \in T |-> o[q[k]]]
  OBVIOUS
<1>22. name \in [T -> S] /\ \A k \in T : seq[k] = fn[name[k]]
  BY <1>7, <1>12, <1>17, <1>18, <1>21
<1>23. \A j, k \in T : name[j] = name[k] => j = k
  <2> TAKE j, k \in T
  <2>1. q[j] \in 1 .. n /\ q[k] \in 1 .. n
    BY <1>3, <1>12, <1>17
  <2>2. o[q[j]] = o[q[k]] => q[j] = q[k]
    BY <1>2, <2>1 DEF Started
  <2> QED
    BY <1>17, <1>21, <2>2
<1>24. tau[T] = sigma[{name[k] : k \in T}]
  BY <1>10, <1>17, <1>19, <1>22, <1>23, SumRenamed
<1>25. {name[k] : k \in T} = B
  BY <1>13, <1>17, <1>21
<1> QED
  BY <1>4, <1>11, <1>14, <1>16, <1>20, <1>24, <1>25

(* What context_usage promises, in full.                                   *)
ChangeCount(steps, S) == Cardinality({c \in S : NearestChange(steps, c) # {}})
ChangeSum(steps, S) == MapThenSumSet(LAMBDA c : SumSet(NearestChange(steps, c)), S)

LEMMA ContextUsageExact ==
  ASSUME NEW steps, SoundSteps(steps), NEW m, m = ContextUsage(steps), m.status = "measured",
         NEW S, S = CompactSteps(steps)
  PROVE  /\ m.values.post_compact_observed_count = ChangeCount(steps, S)
         /\ "post_compact_input_delta_tokens" \in DOMAIN m.values =>
              m.values.post_compact_input_delta_tokens = ChangeSum(steps, S)
<1>1. /\ m.values.post_compact_observed_count = Len(Changes(steps))
      /\ "post_compact_input_delta_tokens" \in DOMAIN m.values =>
           m.values.post_compact_input_delta_tokens = Total(Changes(steps))
  BY ContextUsageNames
<1>2. Len(Changes(steps)) = Cardinality({c \in S : NearestChange(steps, c) # {}})
  BY ChangesCounted
<1>3. Total(Changes(steps)) = MapThenSumSet(LAMBDA c : SumSet(NearestChange(steps, c)), S)
  BY ChangesAddUp
<1> QED
  BY <1>1, <1>2, <1>3, Zenon DEF ChangeCount, ChangeSum

LEMMA ReportFields ==
  ASSUME NEW result, NEW id, Reports(result, id)
  PROVE  /\ result.id = id /\ result.status \in {"not_applicable", "measured"}
         /\ DOMAIN result = {"id", "status", "values", "steps"}
BY DEF Reports, NotApplicable, Measured

MeasurerIds == <<"context_usage", "model_usage", "retry_usage", "tool_usage">>
Measurers(steps) == <<ContextUsage(steps), ModelUsage(steps), RetryUsage(steps), ToolUsage(steps)>>

LEMMA MeasureRuns ==
  ASSUME NEW t, NEW k \in 1 .. 4
  PROVE  /\ DOMAIN Measure(t) = 1 .. 4
         /\ Measure(t)[k] = Isolated(Measurers(t.steps)[k])
         /\ Reports(Measurers(t.steps)[k], MeasurerIds[k])
<1>1. PICK a, b, c, d : /\ a = ContextUsage(t.steps) /\ b = ModelUsage(t.steps)
                        /\ c = RetryUsage(t.steps) /\ d = ToolUsage(t.steps)
  OBVIOUS
<1>2. /\ DOMAIN Measure(t) = 1 .. 4
      /\ Measure(t)[1] = Isolated(a) /\ Measure(t)[2] = Isolated(b)
      /\ Measure(t)[3] = Isolated(c) /\ Measure(t)[4] = Isolated(d)
  BY <1>1, MeasureIs, Zenon
<1>3. /\ Reports(a, "context_usage") /\ Reports(b, "model_usage")
      /\ Reports(c, "retry_usage") /\ Reports(d, "tool_usage")
  BY <1>1, MeasurersReport, Zenon
<1>4. PICK all : all = Measurers(t.steps) /\ all = <<a, b, c, d>>
  BY <1>1, Zenon DEF Measurers
<1>5. all[1] = a /\ all[2] = b /\ all[3] = c /\ all[4] = d
  BY <1>4
<1>6. k = 1 \/ k = 2 \/ k = 3 \/ k = 4
  OBVIOUS
<1>7. /\ MeasurerIds[1] = "context_usage" /\ MeasurerIds[2] = "model_usage"
      /\ MeasurerIds[3] = "retry_usage" /\ MeasurerIds[4] = "tool_usage"
  BY DEF MeasurerIds
<1>8. Measure(t)[k] = Isolated(all[k])
  BY <1>2, <1>5, <1>6
<1>9. Reports(all[k], MeasurerIds[k])
  BY <1>3, <1>5, <1>6, <1>7
<1> QED
  BY <1>2, <1>4, <1>8, <1>9, Zenon

(* A usable result is the measurer's own, and measured.                    *)
LEMMA UsableIs ==
  ASSUME NEW t, NEW k \in 1 .. 4, NEW m \in Usable(Analysis(t), "measurements", MeasurerIds[k])
  PROVE  m = Measurers(t.steps)[k] /\ m.status = "measured"
<1>1. PICK M : M = Measure(t) /\ Analysis(t)["measurements"] = M
  BY AnalysisIs
<1>2. m \in ToSet(M) /\ m.id = MeasurerIds[k] /\ m.status \in {"analyzed", "measured", "verified"}
  BY <1>1, Zenon DEF Usable
<1>3. DOMAIN M = 1 .. 4
  BY <1>1, MeasureRuns
<1>4. PICK j \in 1 .. 4 : m = M[j]
  BY <1>2, <1>3 DEF ToSet
<1>5. PICK own : own = Measurers(t.steps)[j] /\ M[j] = Isolated(own) /\ Reports(own, MeasurerIds[j])
  BY <1>1, MeasureRuns
<1>6. /\ m.id = MeasurerIds[j]
      /\ MeasurerIds[j] \notin broken => m = own
      /\ MeasurerIds[j] \in broken => m.status = "error"
  BY <1>4, <1>5, IsolatedReport
<1>7. j = k
  BY <1>2, <1>6 DEF MeasurerIds
<1>8. m = own
  BY <1>2, <1>6
<1>9. m.status = "measured"
  <2>1. own.status \in {"not_applicable", "measured"}
    BY <1>5, ReportFields, Zenon
  <2> QED
    BY <1>2, <1>8, <2>1
<1> QED
  BY <1>5, <1>7, <1>8, <1>9

(* A measurer reports what its specification declares, or nothing.         *)
LEMMA NamesDeclared ==
  ASSUME NEW t, SoundSteps(t.steps), NEW k \in 1 .. 4, NEW m, m = Measure(t)[k]
  PROVE  DOMAIN m.values = {} \/ DOMAIN m.values \subseteq SpecOf(m.id)
<1>1. PICK own : own = Measurers(t.steps)[k] /\ m = Isolated(own) /\ Reports(own, MeasurerIds[k])
  BY MeasureRuns
<1>2. PICK id : id = MeasurerIds[k] /\ own.id = id /\ m.id = id
  <2>1. own.id = MeasurerIds[k]
    BY <1>1, ReportFields, Zenon
  <2>2. m.id = MeasurerIds[k]
    BY <1>1, IsolatedReport
  <2> QED
    BY <2>1, <2>2
<1>3. DOMAIN own.values \subseteq SpecOf(id)
  <2>1. PICK a, b, c, d : /\ a = ContextUsage(t.steps) /\ b = ModelUsage(t.steps)
                          /\ c = RetryUsage(t.steps) /\ d = ToolUsage(t.steps)
    OBVIOUS
  <2>2. DOMAIN a.values \subseteq ContextUsageSpec
    BY <2>1, ContextUsageNames
  <2>3. DOMAIN b.values \subseteq ModelUsageSpec
    BY <2>1, ModelUsageExact
  <2>4. DOMAIN c.values \subseteq RetryUsageSpec
    BY <2>1, RetryUsageExact
  <2>5. DOMAIN d.values \subseteq ToolUsageSpec
    BY <2>1, ToolUsageNames
  <2>6. PICK all : all = Measurers(t.steps) /\ all = <<a, b, c, d>>
    BY <2>1, Zenon DEF Measurers
  <2>7. own = all[k] /\ all[1] = a /\ all[2] = b /\ all[3] = c /\ all[4] = d
    BY <1>1, <2>6
  <2>8. k = 1 \/ k = 2 \/ k = 3 \/ k = 4
    OBVIOUS
  <2>9. /\ k = 1 => own = a /\ id = "context_usage"
        /\ k = 2 => own = b /\ id = "model_usage"
        /\ k = 3 => own = c /\ id = "retry_usage"
        /\ k = 4 => own = d /\ id = "tool_usage"
    BY <1>2, <2>7 DEF MeasurerIds
  <2>10. /\ SpecOf("context_usage") = ContextUsageSpec /\ SpecOf("model_usage") = ModelUsageSpec
         /\ SpecOf("retry_usage") = RetryUsageSpec /\ SpecOf("tool_usage") = ToolUsageSpec
    BY DEF SpecOf
  <2> QED
    BY <2>2, <2>3, <2>4, <2>5, <2>8, <2>9, <2>10, Zenon
<1>4. CASE id \notin broken
  <2>1. m = own
    BY <1>1, <1>2, <1>4, IsolatedReport
  <2> QED
    BY <1>2, <1>3, <2>1, Zenon
<1>5. CASE id \in broken
  <2>1. /\ "values" \in DOMAIN own /\ DOMAIN own = {"id", "status", "values", "steps"}
    <3>1. DOMAIN own = {"id", "status", "values", "steps"}
      BY <1>1, ReportFields, Zenon
    <3> QED
      BY <3>1
  <2>2. m = [own EXCEPT !.status = "error", !.values = <<>>, !.steps = <<>>]
    BY <1>1, <1>2, <1>5, <2>1, Zenon DEF Isolated
  <2>3. m.values = <<>>
    BY <2>1, <2>2
  <2>4. DOMAIN <<>> = {}
    OBVIOUS
  <2> QED
    BY <2>3, <2>4, Zenon
<1> QED
  BY <1>4, <1>5

-----------------------------------------------------------------------------
(* One trajectory's measurements are exact.                                *)
ExactOf(r, steps, compacts) ==
  LET got(id) == Usable(r, "measurements", id)
      named(m) == DOMAIN m.values = {} \/ DOMAIN m.values \subseteq SpecOf(m.id)
  IN  /\ \A k \in DOMAIN r.measurements : named(r.measurements[k])
      /\ \A m \in got("tool_usage") : m.values.max_concurrent_tool_calls = Overlap(steps)
      /\ \A m \in got("context_usage") :
           /\ m.values.post_compact_observed_count =
                Cardinality({c \in compacts : NearestChange(steps, c) # {}})
           /\ "post_compact_input_delta_tokens" \in DOMAIN m.values =>
                m.values.post_compact_input_delta_tokens =
                MapThenSumSet(LAMBDA c : SumSet(NearestChange(steps, c)), compacts)
      /\ \A m \in got("model_usage") :
           "cache_hit_ratio" \in DOMAIN m.values =>
              /\ m.values.uncached_input_tokens >= 0
              /\ m.values.cache_hit_ratio[1] <= m.values.cache_hit_ratio[2]
              /\ m.values.uncached_input_tokens <= m.values.input_tokens
      /\ \A m \in got("retry_usage") :
           /\ m.values.unchanged_retry_count + m.values.changed_retry_count
                = m.values.retried_failed_tool_call_count
           /\ m.values.recovered_retry_count <= m.values.retried_failed_tool_call_count
           /\ m.values.retried_failed_tool_call_count <= m.values.failed_tool_call_count
Exact(r) == ExactOf(r, r.t.steps, {c \in DOMAIN r.t.steps : IsCompactStep(r.t.steps[c])})

LEMMA AnalysisExact ==
  ASSUME NEW t, SoundSteps(t.steps)
  PROVE  Exact(Analysis(t))
<1>1. PICK r, steps : r = Analysis(t) /\ r.t = t /\ steps = t.steps /\ r["measurements"] = Measure(t)
  BY AnalysisIs
<1>2. SoundSteps(steps)
  BY <1>1
<1>3. ASSUME NEW k \in 1 .. 4, NEW m \in Usable(r, "measurements", MeasurerIds[k])
      PROVE  m = Measurers(steps)[k] /\ m.status = "measured"
  BY <1>1, <1>3, UsableIs, Zenon
<1>4. /\ Measurers(steps)[1] = ContextUsage(steps) /\ Measurers(steps)[2] = ModelUsage(steps)
      /\ Measurers(steps)[3] = RetryUsage(steps) /\ Measurers(steps)[4] = ToolUsage(steps)
  BY DEF Measurers
<1>5. /\ MeasurerIds[1] = "context_usage" /\ MeasurerIds[2] = "model_usage"
      /\ MeasurerIds[3] = "retry_usage" /\ MeasurerIds[4] = "tool_usage"
  BY DEF MeasurerIds
<1>6. 1 \in 1 .. 4 /\ 2 \in 1 .. 4 /\ 3 \in 1 .. 4 /\ 4 \in 1 .. 4
  OBVIOUS
<1>7. \A m \in Usable(r, "measurements", "context_usage") : m = ContextUsage(steps) /\ m.status = "measured"
  BY <1>3, <1>4, <1>5, <1>6, Zenon
<1>8. \A m \in Usable(r, "measurements", "model_usage") : m = ModelUsage(steps)
  BY <1>3, <1>4, <1>5, <1>6, Zenon
<1>9. \A m \in Usable(r, "measurements", "retry_usage") : m = RetryUsage(steps) /\ m.status = "measured"
  BY <1>3, <1>4, <1>5, <1>6, Zenon
<1>10. \A m \in Usable(r, "measurements", "tool_usage") : m = ToolUsage(steps) /\ m.status = "measured"
  BY <1>3, <1>4, <1>5, <1>6, Zenon
<1>11. \A k \in DOMAIN r.measurements :
         \/ DOMAIN r.measurements[k].values = {}
         \/ DOMAIN r.measurements[k].values \subseteq SpecOf(r.measurements[k].id)
  <2>1. DOMAIN Measure(t) = 1 .. 4
    BY MeasureIs
  <2>2. r.measurements = Measure(t)
    BY <1>1
  <2> QED
    BY <2>1, <2>2, NamesDeclared, Zenon
<1>12. \A m \in Usable(r, "measurements", "tool_usage") : m.values.max_concurrent_tool_calls = Overlap(steps)
  <2> TAKE m \in Usable(r, "measurements", "tool_usage")
  <2>1. m = ToolUsage(steps) /\ m.status = "measured"
    BY <1>10
  <2>2. m.values.max_concurrent_tool_calls = MaxConcurrency(Executions(steps))
    BY <2>1, ToolUsageNames
  <2> QED
    BY <1>2, <2>2, ConcurrencyIs
<1>13. PICK S : S = CompactSteps(steps)
  OBVIOUS
<1>14. \A m \in Usable(r, "measurements", "context_usage") :
           /\ m.values.post_compact_observed_count = ChangeCount(steps, S)
           /\ "post_compact_input_delta_tokens" \in DOMAIN m.values =>
                m.values.post_compact_input_delta_tokens = ChangeSum(steps, S)
  <2> TAKE m \in Usable(r, "measurements", "context_usage")
  <2>1. m = ContextUsage(steps) /\ m.status = "measured"
    BY <1>7
  <2> QED
    BY <1>2, <1>13, <2>1, ContextUsageExact
<1>15. \A m \in Usable(r, "measurements", "model_usage") :
           "cache_hit_ratio" \in DOMAIN m.values =>
              /\ m.values.uncached_input_tokens >= 0
              /\ m.values.cache_hit_ratio[1] <= m.values.cache_hit_ratio[2]
              /\ m.values.uncached_input_tokens <= m.values.input_tokens
  BY <1>2, <1>8, ModelUsageExact
<1>16. \A m \in Usable(r, "measurements", "retry_usage") :
           /\ m.values.unchanged_retry_count + m.values.changed_retry_count
                = m.values.retried_failed_tool_call_count
           /\ m.values.recovered_retry_count <= m.values.retried_failed_tool_call_count
           /\ m.values.retried_failed_tool_call_count <= m.values.failed_tool_call_count
  BY <1>2, <1>9, RetryUsageExact
<1>17. r.t.steps = steps
  BY <1>1
<1>18. Exact(r) = ExactOf(r, r.t.steps, CompactSteps(r.t.steps))
  BY Zenon DEF Exact, CompactSteps
<1>19. Exact(r)
  <2>1. ExactOf(r, steps, S)
    BY <1>11, <1>12, <1>14, <1>15, <1>16, Zenon DEF ExactOf, ChangeCount, ChangeSum
  <2> QED
    BY <1>13, <1>17, <1>18, <2>1
<1> QED
  BY <1>1, <1>19

-----------------------------------------------------------------------------
(* What the loader makes of a recording.                                   *)

LEMMA TotalInt == ASSUME NEW seq \in Seq(Int) PROVE Total(seq) \in Int
<1>1. DOMAIN seq = 1 .. Len(seq) /\ Len(seq) \in Nat
  BY SeqFacts
<1>2. IsFiniteSet(DOMAIN seq) /\ seq \in [DOMAIN seq -> Int]
  BY <1>1, IntervalCount, LenProperties
<1>3. PICK sigma : IsSum(sigma, seq, DOMAIN seq)
  BY <1>2, SumExists
<1> QED
  BY <1>3, TotalIs

(* The size of an observation is a number.                                 *)
LEMMA ObservationSound ==
  ASSUME NEW span, SoundSpan(span)
  PROVE  AtifObservation(span) \in Int
<1>1. PICK out, I : /\ out = ToolMessages(span)[2]
                    /\ I = {i \in DOMAIN out : out[i].type = "tool_call_response"}
  OBVIOUS
<1>2. IsTuple(out) /\ \A i \in DOMAIN out : out[i].size \in Int
  <2>1. PICK answered : answered = [type |-> "tool_call_response", tool |-> "", args |-> "",
                                    size |-> span.result]
    OBVIOUS
  <2>2. out = <<answered>> \/ out = span.outParts
    BY <1>1, <2>1 DEF ToolMessages
  <2>3. /\ IsTuple(span.outParts) /\ span.result \in Int
        /\ \A i \in DOMAIN span.outParts : span.outParts[i].size \in Int
    BY DEF SoundSpan
  <2>4. IsTuple(<<answered>>) /\ \A i \in DOMAIN <<answered>> : <<answered>>[i].size \in Int
    <3>1. DOMAIN <<answered>> = {1} /\ <<answered>>[1] = answered
      OBVIOUS
    <3>2. answered.size = span.result
      BY <2>1
    <3> QED
      BY <2>3, <3>1, <3>2, OneIsTuple
  <2> QED
    BY <2>2, <2>3, <2>4
<1>3. PICK parts : parts = Picked(out, I)
  OBVIOUS
<1>4. PICK sizes : sizes = [i \in DOMAIN parts |-> parts[i].size]
  OBVIOUS
<1>5. AtifObservation(span) = IF parts # <<>> THEN Total(sizes) ELSE span.result
  <2>1. ResponseParts(out) = Picked(out, {i \in DOMAIN out : out[i].type = "tool_call_response"})
    BY Zenon DEF ResponseParts, Selected, Ordered, Picked, Ranked, Arranged
  <2> QED
    BY <1>1, <1>3, <1>4, <2>1, Zenon DEF AtifObservation
<1>6. sizes \in Seq(Int)
  <2>1. PICK c : c = Cardinality(I)
    OBVIOUS
  <2>2. out \in Seq(ToSet(out)) /\ I \in SUBSET DOMAIN out
    BY <1>1, <1>2, TupleIs
  <2>3. /\ c \in Nat /\ DOMAIN parts = 1 .. c
        /\ \A k \in 1 .. c : Ranked(I)[k] \in I /\ parts[k] = out[Ranked(I)[k]]
    BY <1>3, <2>1, <2>2, PickedIs
  <2>4. \A k \in 1 .. c : parts[k].size \in Int
    BY <1>2, <2>2, <2>3
  <2>5. sizes \in [1 .. c -> Int]
    BY <1>4, <2>3, <2>4
  <2> QED
    BY <2>3, <2>5, SeqOfFunction
<1>7. Total(sizes) \in Int /\ span.result \in Int
  BY <1>6, TotalInt DEF SoundSpan
<1> QED
  BY <1>5, <1>7

(* A step of the loader is one the analyses can read.                      *)
LEMMA OtelStepSound ==
  ASSUME NEW span, SoundSpan(span)
  PROVE  SoundStep(OtelStep(span))
<1> DEFINE messages == ToolMessages(span)
           step == OtelStep(span)
<1>1. IsTuple(span.inParts) /\ IsTuple(span.outParts)
  BY DEF SoundSpan
<1>2. IsTuple(messages[1]) /\ IsTuple(messages[2])
  BY <1>1, OneIsTuple DEF ToolMessages
<1>3. IsTuple(AtifToolCalls(span))
  <2> DEFINE parts == ToolCallParts(messages[1])
             I == {i \in DOMAIN messages[1] : messages[1][i].type = "tool_call"}
  <2>1. parts = Picked(messages[1], I)
    BY Zenon DEF ToolCallParts, Selected, Ordered, Picked, Ranked, Arranged
  <2>2. messages[1] \in Seq(ToSet(messages[1])) /\ I \in SUBSET DOMAIN messages[1]
    BY <1>2, TupleIs
  <2> HIDE DEF messages, I
  <2>3. DOMAIN parts = 1 .. Cardinality(I) /\ Cardinality(I) \in Nat
    BY <2>1, <2>2, PickedIs
  <2> DEFINE made == [i \in DOMAIN parts |-> CallOf(parts[i])]
             S == {CallOf(parts[i]) : i \in DOMAIN parts}
  <2>4. made \in [1 .. Cardinality(I) -> S]
    BY <2>3
  <2>5. IsTuple(made)
    <3> HIDE DEF made, S
    <3> QED
      BY <2>3, <2>4, SeqOfFunction, SeqFacts
  <2>6. AtifToolCalls(span) \in {made, <<CallOf([tool |-> span.toolName, args |-> span.args])>>, <<>>}
    BY Zenon DEF AtifToolCalls, messages
  <2> HIDE DEF made
  <2> QED
    BY <2>5, <2>6, OneIsTuple, NoneIsTuple, SMTT(30)
<1>4. step.start \in Int /\ step.dur \in Int
  <2>1. span.start \in Int /\ span.end - span.start \in Int
    BY DEF SoundSpan
  <2>2. Max({0, span.end - span.start}) \in Int
    <3>1. PICK d \in Int : d = span.end - span.start
      BY <2>1
    <3>2. Max({0, d}) \in {0, d}
      BY MaxOfTwo
    <3> QED
      BY <3>1, <3>2
  <2>3. step.start = span.start /\ step.dur = Max({0, span.end - span.start})
    BY DEF OtelStep
  <2> QED
    BY <2>1, <2>2, <2>3
<1>5. ASSUME NEW kind \in {"input", "output", "cached"}
      PROVE  step.metrics[kind] \in Int /\ step.attrs[kind] \in Int
  <2>1. span.tokens[kind] \in Int
    BY DEF SoundSpan
  <2>2. step.attrs = span.tokens
        /\ step.metrics \in {span.tokens, [input |-> None, output |-> None, cached |-> None]}
    BY DEF OtelStep
  <2>3. [input |-> None, output |-> None, cached |-> None][kind] \in Int
    BY DEF None
  <2> QED
    BY <2>1, <2>2, <2>3
<1>6. step.calls = AtifToolCalls(span) /\ step.inMsgs = messages[1] /\ step.outMsgs = messages[2]
      /\ step.obs = AtifObservation(span)
  BY DEF OtelStep
<1>7. AtifObservation(span) \in Int
  BY ObservationSound
<1> QED
  BY <1>2, <1>3, <1>4, <1>5, <1>6, <1>7 DEF SoundStep

LEMMA RenumberedSound ==
  ASSUME NEW span, SoundSpan(span), NEW k
  PROVE  SoundStep([OtelStep(span) EXCEPT !.id = k]) /\ [OtelStep(span) EXCEPT !.id = k].id = k
<1> DEFINE s == OtelStep(span)
           t == [OtelStep(span) EXCEPT !.id = k]
<1>1. /\ t.id = k /\ t.calls = s.calls /\ t.inMsgs = s.inMsgs /\ t.outMsgs = s.outMsgs
      /\ t.start = s.start /\ t.dur = s.dur /\ t.metrics = s.metrics /\ t.attrs = s.attrs
      /\ t.obs = s.obs
  BY DEF OtelStep
<1> HIDE DEF s, t
<1>2. SoundStep(s)
  BY OtelStepSound DEF s
<1>3. SoundStep(t)
  BY <1>1, <1>2 DEF SoundStep
<1> QED
  BY <1>1, <1>3 DEF t

LEMMA OwnStepsSound ==
  ASSUME NEW spans, IsTuple(spans), \A i \in DOMAIN spans : SoundSpan(spans[i]), NEW t
  PROVE  SoundSteps(OwnSteps(spans, t))
<1> DEFINE O == Own(spans, t)
           at == [i \in O |-> spans[i].start]
           n == Cardinality(O)
           f == OwnOrder(spans, t)
           S == {[OtelStep(spans[i]) EXCEPT !.id = k] : i \in O, k \in 1 .. n}
<1>1. spans \in Seq(ToSet(spans)) /\ Len(spans) \in Nat /\ DOMAIN spans = 1 .. Len(spans)
  BY TupleIs
<1>2. O \in SUBSET (1 .. Len(spans)) /\ IsFiniteSet(O)
  <2> DEFINE I == {i \in DOMAIN spans : SpanOperation(spans[i]) # ""}
  <2>1. I \in SUBSET DOMAIN spans
    OBVIOUS
  <2>2. GenAi(spans) \in Seq(I)
    <3> HIDE DEF I
    <3>1. Picked(Numbers(spans), I) \in Seq(I)
      BY <1>1, <2>1, NumbersIs
    <3> QED
      BY <3>1 DEF GenAi, I
  <2>3. ToSet(GenAi(spans)) \subseteq I
    BY <2>2, SeqFacts
  <2>4. O \in SUBSET (1 .. Len(spans))
    BY <1>1, <2>3 DEF Own
  <2>5. IsFiniteSet(1 .. Len(spans))
    BY <1>1, FS_Interval
  <2> QED
    BY <2>4, <2>5, FS_Subset
<1>3. O \in SUBSET Int /\ at \in [O -> Int]
  BY <1>1, <1>2 DEF SoundSpan
<1>4. f \in [1 .. n -> O] /\ n \in Nat
  <2> HIDE DEF O, at
  <2>1. Timed(O, at) \in [1 .. n -> O] /\ n \in Nat
    BY <1>2, <1>3, TimedIs
  <2> QED
    BY <2>1 DEF OwnOrder, O, at
<1>5. OwnSteps(spans, t) = [k \in 1 .. n |-> [OtelStep(spans[f[k]]) EXCEPT !.id = k]]
  BY <1>4 DEF OwnSteps
<1> HIDE DEF f, n, O
<1>6. \A k \in 1 .. n : f[k] \in O /\ SoundSpan(spans[f[k]])
  BY <1>1, <1>2, <1>4
<1>7. \A k \in 1 .. n : /\ SoundStep([OtelStep(spans[f[k]]) EXCEPT !.id = k])
                        /\ [OtelStep(spans[f[k]]) EXCEPT !.id = k].id = k
  BY <1>6, RenumberedSound
<1>8. OwnSteps(spans, t) \in [1 .. n -> S]
  <2> DEFINE step(i, k) == [OtelStep(spans[i]) EXCEPT !.id = k]
  <2>1. S = {step(i, k) : i \in O, k \in 1 .. n} /\ OwnSteps(spans, t) = [k \in 1 .. n |-> step(f[k], k)]
    BY <1>5
  <2> HIDE DEF step, S
  <2> QED
    BY <1>6, <2>1
<1>9. OwnSteps(spans, t) \in Seq(S) /\ DOMAIN OwnSteps(spans, t) = 1 .. n
  <2> HIDE DEF S
  <2> QED
    BY <1>4, <1>8, SeqOfFunction
<1>10. IsTuple(OwnSteps(spans, t))
  <2> HIDE DEF S
  <2> QED
    BY <1>9, SeqFacts
<1>11. \A k \in 1 .. n : SoundStep(OwnSteps(spans, t)[k]) /\ OwnSteps(spans, t)[k].id = k
  BY <1>5, <1>7
<1> QED
  BY <1>9, <1>10, <1>11 DEF SoundSteps

(* The traces are told apart by their ids, and each has a span of GenAI.   *)
LEMMA TracesIs ==
  ASSUME NEW spans
  PROVE  /\ Traces(spans) \in Seq(ToSet(TraceIds)) /\ Len(Traces(spans)) \in Nat
         /\ DOMAIN Traces(spans) = 1 .. Len(Traces(spans))
         /\ \A k \in DOMAIN Traces(spans) : \E i \in ToSet(GenAi(spans)) : spans[i].trace = Traces(spans)[k]
         /\ \A n \in Traced(spans) : \E k \in DOMAIN Traces(spans) : Traces(spans)[k] = TraceIds[n]
         /\ \A j, k \in DOMAIN Traces(spans) : Traces(spans)[j] = Traces(spans)[k] => j = k
<1>1. PICK I, m, r, t : /\ I = Traced(spans) /\ m = Cardinality(I) /\ r = Ranked(I)
                        /\ t = Traces(spans)
  OBVIOUS
<1>2. TraceIds \in Seq(ToSet(TraceIds)) /\ I \in SUBSET DOMAIN TraceIds
  BY <1>1, TraceIdsAssumption DEF IsTuple, Traced
<1>3. DOMAIN TraceIds = 1 .. Len(TraceIds) /\ Len(TraceIds) \in Nat
  BY <1>2, LenProperties
<1>4. /\ m \in Nat /\ t \in Seq(ToSet(TraceIds)) /\ Len(t) = m /\ DOMAIN t = 1 .. m
      /\ \A k \in 1 .. m : r[k] \in I /\ t[k] = TraceIds[r[k]]
      /\ \A i \in I : \E k \in 1 .. m : r[k] = i
      /\ \A j, k \in 1 .. m : j < k <=> r[j] < r[k]
  BY <1>1, <1>2, PickedIs DEF Traces
<1>5. ASSUME NEW j \in 1 .. m, NEW k \in 1 .. m, t[j] = t[k] PROVE j = k
  <2>1. r[j] \in DOMAIN TraceIds /\ r[k] \in DOMAIN TraceIds /\ TraceIds[r[j]] = TraceIds[r[k]]
    BY <1>2, <1>4, <1>5
  <2>2. r[j] = r[k] /\ r[j] \in Nat
    BY <1>3, <2>1, TraceIdsAssumption
  <2>3. ~(j < k) /\ ~(k < j)
    BY <1>4, <2>2
  <2> QED
    BY <1>4, <2>3
<1>6. ASSUME NEW k \in 1 .. m PROVE \E i \in ToSet(GenAi(spans)) : spans[i].trace = t[k]
  BY <1>1, <1>4 DEF Traced
<1> QED
  BY <1>1, <1>4, <1>5, <1>6

LEMMA OtelLoadsSound ==
  ASSUME NEW spans, IsTuple(spans), \A i \in DOMAIN spans : SoundSpan(spans[i])
  PROVE  /\ IsTuple(OtelLoads(spans))
         /\ \A k \in DOMAIN OtelLoads(spans) : SoundTrajectory(OtelLoads(spans)[k])
<1> DEFINE S == ToSet(TraceIds)
           loaded(t) == [id |-> t, target |-> "", outcome |-> "none", execFailure |-> "",
                         duration |-> None, steps |-> OwnSteps(spans, t)]
           L == OtelLoads(spans)
<1> HIDE DEF S
<1>7. Len(Traces(spans)) \in Nat /\ DOMAIN Traces(spans) = 1 .. Len(Traces(spans))
      /\ \A k \in DOMAIN Traces(spans) : Traces(spans)[k] \in S
  <2>1. Traces(spans) \in Seq(S)
    BY TracesIs DEF S
  <2> QED
    BY <2>1, SeqFacts
<1>8. L = [k \in 1 .. Len(Traces(spans)) |-> loaded(Traces(spans)[k])]
  BY <1>7, OtelLoadsIs
<1> DEFINE T == {loaded(t) : t \in S}
<1>9. L \in [1 .. Len(Traces(spans)) -> T]
  <2>1. \A k \in 1 .. Len(Traces(spans)) : loaded(Traces(spans)[k]) \in T
    BY <1>7
  <2> HIDE DEF L, loaded, T
  <2> QED
    BY <1>8, <2>1
<1>10. IsTuple(L) /\ DOMAIN L = 1 .. Len(Traces(spans))
  <2> HIDE DEF L, T
  <2> QED
    BY <1>7, <1>9, SeqOfFunction, SeqFacts
<1>11. \A k \in DOMAIN L : L[k].steps = OwnSteps(spans, Traces(spans)[k]) /\ L[k].duration \in Int
  <2>1. \A t : loaded(t).steps = OwnSteps(spans, t) /\ loaded(t).duration \in Int
    BY DEF None
  <2> HIDE DEF L, loaded
  <2> QED
    BY <1>8, <1>10, <2>1
<1> HIDE DEF L
<1>12. \A k \in DOMAIN L : SoundTrajectory(L[k])
  BY <1>11, OwnStepsSound DEF SoundTrajectory
<1> QED
  BY <1>10, <1>12 DEF L

(* Whatever a recording holds, the trajectories it loads can be analyzed.  *)
LEMMA LoadsSound ==
  ASSUME NEW content, SoundContent(content)
  PROVE  /\ Loads(content) \in Seq(ToSet(Loads(content)))
         /\ \A t \in ToSet(Loads(content)) : SoundTrajectory(t)
<1>1. CASE content.format = "otel"
  <2>1. IsTuple(content.spans) /\ \A i \in DOMAIN content.spans : SoundSpan(content.spans[i])
    BY <1>1 DEF SoundContent
  <2>2. Loads(content) = OtelLoads(content.spans)
    BY <1>1 DEF Loads
  <2>3. /\ IsTuple(Loads(content))
        /\ \A k \in DOMAIN Loads(content) : SoundTrajectory(Loads(content)[k])
    BY <2>1, <2>2, OtelLoadsSound
  <2> QED
    BY <2>3 DEF IsTuple, ToSet
<1>2. CASE content.format # "otel"
  <2>1. Loads(content) = content.trajs
    BY <1>2 DEF Loads
  <2>2. IsTuple(content.trajs)
        /\ \A i \in DOMAIN content.trajs : SoundTrajectory(content.trajs[i])
    BY <1>2 DEF SoundContent
  <2> QED
    BY <2>1, <2>2 DEF IsTuple, ToSet
<1> QED
  BY <1>1, <1>2

-----------------------------------------------------------------------------
(* The run.                                                                *)

(* What the recordings may hold, and the trajectories the loaders make.    *)
Readable == UNION {Contents[r] : r \in ToSet(Recordings)}
Loadable == UNION {ToSet(Loads(content)) : content \in Readable}

Versions == Nat \ {0}
Phases == {"build", "analyze", "write_dataset", "write_run", "verdict", "done", "raised"}

Shape ==
  /\ phase \in Phases /\ next \in Nat \ {0}
  /\ dataset \in [version : Versions, read : Seq(Readable), trajs : Seq(Loadable),
                  issues : Seq({"fetch", "load"})]
  /\ DOMAIN run = {"version", "created", "ids", "results"}
  /\ DOMAIN disk = {"dataset", "run", "verdict"}

(* Every recording so far was read, or there is an issue for it.           *)
Counted ==
  /\ phase = "build" =>
       next <= Len(Recordings) + 1 /\ Len(dataset.read) + Len(dataset.issues) = next - 1
  /\ phase \notin {"build", "raised"} =>
       Len(dataset.read) + Len(dataset.issues) = Len(Recordings)

(* The run is of the version of the dataset, and of the trajectories so far. *)
AnalyzedSoFar ==
  /\ run.version = dataset.version
  /\ phase = "build" => run.ids = {}
  /\ phase = "analyze" =>
       next <= Len(dataset.trajs) + 1 /\ run.ids = {dataset.trajs[i].id : i \in 1 .. next - 1}
  /\ phase \notin {"build", "analyze", "raised"} => run.ids = IdsOf(dataset.trajs)

(* The files of this run, and what its verdict was given for.              *)
Published == [version |-> dataset.version, ids |-> IdsOf(dataset.trajs)]
Written ==
  /\ phase \in {"write_run", "verdict", "done"} => disk.dataset = Published
  /\ phase \in {"verdict", "done"} => disk.run = RunFile
  /\ phase = "done" => disk.verdict.created = run.created
  /\ phase = "done" /\ disk.verdict.status = "pass" => HealthErrors = {}

(* The files that are there, of this run or of an earlier one: a verdict   *)
(* is never of a later run than run.json, which this run has yet to write  *)
(* before its verdict, and a pass was given for checks that passed.        *)
Earned ==
  disk.verdict.status = "pass" =>
     /\ "pass" \in ToSet(disk.verdict.checks)
     /\ ToSet(disk.verdict.checks) \subseteq {"pass", "skipped"}
     /\ disk.verdict.created = disk.run.created => disk.run.ids # {} /\ ~disk.run.errors
Dated ==
  /\ run.created \in Nat /\ disk.run.created \in Nat /\ disk.verdict.created \in Nat
  /\ disk.verdict.created <= disk.run.created /\ disk.run.created <= run.created
  /\ phase \notin {"verdict", "done"} => disk.run.created < run.created
  /\ phase = "verdict" => disk.verdict.created < run.created

(* The results so far are the analyses of the trajectories so far.         *)
Analyses ==
  /\ IsTuple(run.results)
  /\ phase = "build" => run.results = <<>>
  /\ phase = "analyze" => Len(run.results) = next - 1
  /\ phase \notin {"build", "analyze", "raised"} => Len(run.results) = Len(dataset.trajs)
  /\ \A i \in 1 .. Len(run.results) : run.results[i] = Analysis(dataset.trajs[i])

RunInv == Shape /\ Counted /\ AnalyzedSoFar /\ Written /\ Earned /\ Dated /\ Analyses

-----------------------------------------------------------------------------
(* The fields of the records, one by one.                                  *)
LEMMA Fields ==
  ASSUME Shape
  PROVE  /\ dataset.version \in Versions /\ dataset.read \in Seq(Readable)
         /\ dataset.trajs \in Seq(Loadable) /\ dataset.issues \in Seq({"fetch", "load"})
         /\ Len(dataset.read) \in Nat /\ Len(dataset.trajs) \in Nat /\ Len(dataset.issues) \in Nat
         /\ DOMAIN dataset.trajs = 1 .. Len(dataset.trajs)
<1>1. /\ dataset.version \in Versions /\ dataset.read \in Seq(Readable)
      /\ dataset.trajs \in Seq(Loadable) /\ dataset.issues \in Seq({"fetch", "load"})
  BY DEF Shape
<1> QED
  BY <1>1, LenProperties

LEMMA RecordingsCount == Len(Recordings) \in Nat /\ DOMAIN Recordings = 1 .. Len(Recordings)
  BY RecordingsAssumption, TupleIs

(* A loader's trajectories are among those that may be loaded, and sound.  *)
LEMMA LoadsLoadable ==
  ASSUME NEW i \in DOMAIN Recordings, NEW content \in Contents[Recordings[i]]
  PROVE  content \in Readable /\ Loads(content) \in Seq(Loadable)
<1>1. Recordings[i] \in ToSet(Recordings)
  BY DEF ToSet
<1>2. content \in Readable /\ Loads(content) \in Seq(ToSet(Loads(content)))
  <2>1. SoundContent(content)
    BY <1>1, RecordingsAssumption
  <2>2. Loads(content) \in Seq(ToSet(Loads(content)))
    BY <2>1, LoadsSound
  <2> QED
    BY <1>1, <2>2 DEF Readable
<1>3. ToSet(Loads(content)) \subseteq Loadable
  BY <1>2 DEF Loadable
<1> QED
  BY <1>2, <1>3

LEMMA LoadableIsSound ==
  ASSUME NEW t \in Loadable
  PROVE  SoundSteps(t.steps) /\ t.duration \in Int
<1>1. PICK content \in Readable : t \in ToSet(Loads(content))
  BY DEF Loadable
<1>2. SoundContent(content)
  BY RecordingsAssumption DEF Readable
<1> QED
  BY <1>1, <1>2, LoadsSound DEF SoundTrajectory

(* An analysis is of the trajectory and of which plugins are broken.       *)
LEMMA SameIsolated == ASSUME broken' = broken, NEW x PROVE Isolated(x)' = Isolated(x)
BY Zenon DEF Isolated

LEMMA SameEach == ASSUME broken' = broken, NEW s PROVE Each(s)' = Each(s)
BY SameIsolated, Zenon DEF Each

LEMMA SameMeasure == ASSUME broken' = broken, NEW t PROVE Measure(t)' = Measure(t)
BY SameEach, Zenon DEF Measure

LEMMA SameJudged == ASSUME broken' = broken, NEW t, NEW m PROVE Judged(t, m)' = Judged(t, m)
<1>1. Detect(t, m)' = Detect(t, m)
  BY SameEach, Zenon DEF Detect
<1>2. Verify(t, m)' = Verify(t, m)
  BY SameEach, Zenon DEF Verify
<1> QED
  BY <1>1, <1>2, Zenon DEF Judged

LEMMA AnalysisKept == ASSUME broken' = broken, NEW t PROVE Analysis(t)' = Analysis(t)
<1>1. PICK m : m = Measure(t)
  OBVIOUS
<1>2. m = Measure(t)'
  BY <1>1, SameMeasure, Zenon
<1>3. Analysis(t)' = Judged(t, m)'
  BY <1>2, Zenon DEF Analysis
<1>4. Analysis(t) = Judged(t, m)
  BY <1>1, Zenon DEF Analysis
<1> QED
  BY <1>3, <1>4, SameJudged, Zenon

LEMMA SameAnalysis ==
  ASSUME UNCHANGED <<broken, dataset>>, NEW i
  PROVE  Analysis(dataset.trajs[i])' = Analysis(dataset.trajs[i])
<1>1. PICK t : t = dataset.trajs[i] /\ t = dataset'.trajs[i]
  OBVIOUS
<1>2. Analysis(t)' = Analysis(t)
  BY AnalysisKept, Zenon
<1> QED
  BY <1>1, <1>2

LEMMA SameAnalyses ==
  ASSUME Analyses, UNCHANGED <<broken, dataset, run>>,
         phase' = "analyze" => phase = "analyze" /\ UNCHANGED next,
         phase' = "build" => phase = "build",
         phase' \notin {"build", "analyze", "raised"} =>
           phase \notin {"build", "analyze", "raised"} \/ Len(run.results) = Len(dataset.trajs)
  PROVE  Analyses'
<1>1. \A i \in 1 .. Len(run'.results) : run'.results[i] = Analysis(dataset.trajs[i])'
  <2> SUFFICES ASSUME NEW i \in 1 .. Len(run'.results)
               PROVE  run'.results[i] = Analysis(dataset.trajs[i])'
    OBVIOUS
  <2>1. Analysis(dataset.trajs[i])' = Analysis(dataset.trajs[i])
    BY SameAnalysis
  <2> QED
    BY <2>1 DEF Analyses
<1> QED
  BY <1>1 DEF Analyses

LEMMA AppendTuple ==
  ASSUME NEW seq, IsTuple(seq), NEW x
  PROVE  /\ IsTuple(Append(seq, x)) /\ Len(Append(seq, x)) = Len(seq) + 1 /\ Len(seq) \in Nat
         /\ \A i \in 1 .. Len(seq) : Append(seq, x)[i] = seq[i]
         /\ Append(seq, x)[Len(seq) + 1] = x
<1>1. PICK S : S = ToSet(seq) \cup {x}
  OBVIOUS
<1>2. seq \in Seq(S) /\ Len(seq) \in Nat
  BY <1>1, TupleIs, SeqMonotonic
<1>3. Append(seq, x) \in Seq(S) /\ Len(Append(seq, x)) = Len(seq) + 1
      /\ (\A i \in 1 .. Len(seq) : Append(seq, x)[i] = seq[i]) /\ Append(seq, x)[Len(seq) + 1] = x
  BY <1>1, <1>2, AppendProperties
<1>4. IsTuple(Append(seq, x))
  BY <1>3, SeqFacts
<1> QED
  BY <1>2, <1>3, <1>4

LEMMA RunInvInit == Init => RunInv
<1> SUFFICES ASSUME Init PROVE RunInv
  OBVIOUS
<1>1. /\ <<>> \in Seq(Readable) /\ <<>> \in Seq(Loadable) /\ <<>> \in Seq({"fetch", "load"})
      /\ Len(<<>>) = 0 /\ 1 \in Versions
  BY DEF Versions
<1>2. Shape
  BY <1>1 DEF Init, Shape, Phases, EmptyRun, Versions
<1>3. Counted /\ AnalyzedSoFar /\ Written /\ Earned /\ Dated
  BY <1>1, RecordingsCount DEF Init, Counted, AnalyzedSoFar, Written, Earned, Dated, EmptyRun, NoRun, NoVerdict
<1>4. Analyses
  BY <1>1, NoneIsTuple DEF Init, Analyses, EmptyRun
<1> QED
  BY <1>2, <1>3, <1>4 DEF RunInv

(* One more recording is read or becomes an issue.                         *)
LEMMA BuildStepInv ==
  ASSUME RunInv, NEW read \in Seq(Readable), NEW loaded \in Seq(Loadable),
         NEW issues \in Seq({"fetch", "load"}), Len(read) + Len(issues) = 1,
         BuildStep(read, loaded, issues)
  PROVE  RunInv'
<1> USE DEF RunInv
<1>1. /\ phase = "build" /\ next <= Len(Recordings) /\ next' = next + 1
      /\ UNCHANGED <<phase, run, disk, broken>>
      /\ dataset' = [dataset EXCEPT !.read = @ \o read, !.trajs = @ \o loaded,
                                    !.issues = @ \o issues]
  BY DEF BuildStep
<1>2. /\ dataset.read \o read \in Seq(Readable) /\ dataset.trajs \o loaded \in Seq(Loadable)
      /\ dataset.issues \o issues \in Seq({"fetch", "load"})
      /\ Len(dataset.read \o read) = Len(dataset.read) + Len(read)
      /\ Len(dataset.issues \o issues) = Len(dataset.issues) + Len(issues)
      /\ Len(read) \in Nat /\ Len(issues) \in Nat
  BY Fields, ConcatProperties, LenProperties
<1>3. /\ dataset'.version = dataset.version /\ dataset'.read = dataset.read \o read
      /\ dataset'.trajs = dataset.trajs \o loaded /\ dataset'.issues = dataset.issues \o issues
      /\ dataset' \in [version : Versions, read : Seq(Readable), trajs : Seq(Loadable),
                       issues : Seq({"fetch", "load"})]
  BY <1>1, <1>2 DEF Shape
<1>4. Shape'
  BY <1>1, <1>3 DEF Shape
<1>5. Counted'
  <2>1. Len(dataset.read) + Len(dataset.issues) = next - 1 /\ next \in Nat
    BY <1>1 DEF Counted, Shape
  <2>2. PICK a \in Nat, b \in Nat, c \in Nat, d \in Nat, n \in Nat :
          /\ a = Len(dataset.read) /\ b = Len(dataset.issues)
          /\ c = Len(read) /\ d = Len(issues) /\ n = next
    BY <1>2, <2>1, Fields
  <2>3. (a + c) + (b + d) = (n + 1) - 1
    <3>1. a + b = n - 1 /\ c + d = 1
      BY <2>1, <2>2
    <3> QED
      BY <3>1
  <2>4. n + 1 <= Len(Recordings) + 1
    BY <1>1, <2>2, RecordingsCount
  <2>5. Len(dataset'.read) = a + c /\ Len(dataset'.issues) = b + d /\ next' = n + 1
    BY <1>1, <1>2, <1>3, <2>2
  <2>6. PICK x, y, z : x = a + c /\ y = b + d /\ z = n + 1
    OBVIOUS
  <2>7. x + y = z - 1 /\ z <= Len(Recordings) + 1
    BY <2>3, <2>4, <2>6
  <2>8. Len(dataset'.read) = x /\ Len(dataset'.issues) = y /\ next' = z /\ phase' = "build"
    BY <1>1, <2>5, <2>6
  <2> QED
    BY <2>7, <2>8 DEF Counted
<1>6. AnalyzedSoFar' /\ Written' /\ Earned' /\ Dated'
  BY <1>1, <1>3 DEF AnalyzedSoFar, Written, Earned, Dated
<1>7. Analyses'
  <2>1. run'.results = <<>> /\ phase' = "build" /\ Len(<<>>) = 0
    BY <1>1 DEF Analyses
  <2>2. 1 .. Len(run'.results) = {}
    BY <2>1
  <2> QED
    BY <2>1, <2>2, NoneIsTuple DEF Analyses
<1> QED
  BY <1>4, <1>5, <1>6, <1>7

LEMMA OneOrNone ==
  ASSUME NEW S, NEW x \in S
  PROVE  <<>> \in Seq(S) /\ Len(<<>>) = 0 /\ <<x>> \in Seq(S) /\ Len(<<x>>) = 1
OBVIOUS

LEMMA NoElement ==
  ASSUME NEW S, NEW s \in Seq(S), DOMAIN s = {}
  PROVE  s = <<>> /\ Len(s) = 0
BY EmptySeq

LEMMA ReadingInv == RunInv /\ (FetchFails \/ LoadFails \/ LoadWorks) => RunInv'
<1> SUFFICES ASSUME RunInv, FetchFails \/ LoadFails \/ LoadWorks PROVE RunInv'
  OBVIOUS
<1>1. <<>> \in Seq(Readable) /\ <<>> \in Seq(Loadable) /\ <<>> \in Seq({"fetch", "load"})
  OBVIOUS
<1>2. CASE FetchFails \/ LoadFails
  <2>1. PICK kind \in {"fetch", "load"} : BuildStep(<<>>, <<>>, <<kind>>)
    BY <1>2 DEF FetchFails, LoadFails
  <2>2. <<kind>> \in Seq({"fetch", "load"}) /\ Len(<<>>) + Len(<<kind>>) = 1
    BY OneOrNone
  <2> QED
    BY <1>1, <2>1, <2>2, BuildStepInv
<1>4. CASE LoadWorks
  <2>1. next \in DOMAIN Recordings
    BY <1>4, RecordingsCount DEF LoadWorks, RunInv, Shape
  <2>2. PICK content \in Contents[Recordings[next]] : BuildStep(<<content>>, Loads(content), <<>>)
    BY <1>4 DEF LoadWorks
  <2>3. content \in Readable /\ Loads(content) \in Seq(Loadable)
    BY <2>1, <2>2, LoadsLoadable
  <2>4. <<content>> \in Seq(Readable) /\ Len(<<content>>) + Len(<<>>) = 1
    BY <2>3, OneOrNone
  <2> QED
    BY <1>1, <2>2, <2>3, <2>4, BuildStepInv
<1> QED
  BY <1>2, <1>4

LEMMA AssembleInv == RunInv /\ Assemble => RunInv'
<1> SUFFICES ASSUME RunInv, Assemble PROVE RunInv'
  OBVIOUS
<1> USE DEF RunInv
<1>1. /\ phase = "build" /\ next > Len(Recordings) /\ phase' \in {"analyze", "raised"} /\ next' = 1
      /\ UNCHANGED <<dataset, run, disk, broken>>
  BY DEF Assemble
<1>2. Shape'
  BY <1>1 DEF Shape, Phases
<1>3. Len(dataset.read) + Len(dataset.issues) = Len(Recordings)
  <2>1. /\ next \in Nat /\ next > Len(Recordings) /\ next <= Len(Recordings) + 1
        /\ Len(dataset.read) + Len(dataset.issues) = next - 1
    BY <1>1 DEF Counted, Shape
  <2>2. next - 1 = Len(Recordings)
    BY <2>1, RecordingsCount
  <2> QED
    BY <2>1, <2>2
<1>4. 1 <= Len(dataset.trajs) + 1 /\ 1 .. 1 - 1 = {}
  BY Fields
<1>5. Counted'
  BY <1>1, <1>3 DEF Counted
<1>6. AnalyzedSoFar'
  BY <1>1, <1>4 DEF AnalyzedSoFar
<1>7. Written' /\ Earned' /\ Dated'
  BY <1>1 DEF Written, Earned, Dated
<1>8. Analyses'
  <2>1. run'.results = <<>> /\ Len(<<>>) = 0 /\ next' = 1
    BY <1>1 DEF Analyses
  <2>2. 1 .. Len(run'.results) = {} /\ Len(run'.results) = next' - 1
    BY <2>1
  <2> QED
    BY <1>1, <2>1, <2>2, NoneIsTuple DEF Analyses
<1> QED
  BY <1>2, <1>5, <1>6, <1>7, <1>8

LEMMA AnalyzeInv == RunInv /\ Analyze => RunInv'
<1> SUFFICES ASSUME RunInv, Analyze PROVE RunInv'
  OBVIOUS
<1> USE DEF RunInv
<1>1. /\ phase = "analyze" /\ next <= Len(dataset.trajs) /\ next' = next + 1
      /\ UNCHANGED <<phase, dataset, disk, broken>>
      /\ DOMAIN run' = DOMAIN run /\ run'.version = run.version /\ run'.created = run.created
      /\ run'.ids = run.ids \cup {dataset.trajs[next].id}
  BY DEF Analyze, Shape
<1>2. next \in Nat /\ next >= 1 /\ Len(dataset.trajs) \in Nat
  BY Fields DEF Shape
<1>3. Shape'
  BY <1>1, <1>2 DEF Shape
<1>4. Counted'
  BY <1>1 DEF Counted
<1>5. AnalyzedSoFar'
  <2>1. run.ids = {dataset.trajs[i].id : i \in 1 .. next - 1}
    BY <1>1 DEF AnalyzedSoFar
  <2>2. 1 .. (next + 1) - 1 = (1 .. next - 1) \cup {next}
    BY <1>2
  <2>3. run'.ids = {dataset.trajs[i].id : i \in 1 .. (next + 1) - 1}
    BY <1>1, <2>1, <2>2
  <2>4. next + 1 <= Len(dataset.trajs) + 1
    BY <1>1, <1>2
  <2> QED
    BY <1>1, <2>3, <2>4 DEF AnalyzedSoFar
<1>6. Written' /\ Earned' /\ Dated'
  BY <1>1 DEF Written, Earned, Dated
<1>7. Analyses'
  <2>1. PICK was, x : was = run.results /\ x = Analysis(dataset.trajs[next])
    OBVIOUS
  <2>2. run'.results = Append(was, x)
    BY <2>1 DEF Analyze, Shape
  <2>3. IsTuple(was) /\ Len(was) = next - 1
    BY <1>1, <2>1 DEF Analyses
  <2>4. IsTuple(Append(was, x)) /\ Len(Append(was, x)) = next
        /\ (\A i \in 1 .. next - 1 : Append(was, x)[i] = was[i]) /\ Append(was, x)[next] = x
    BY <1>2, <2>3, AppendTuple
  <2>5. ASSUME NEW i \in 1 .. Len(run'.results)
        PROVE  run'.results[i] = Analysis(dataset.trajs[i])'
    <3>1. Analysis(dataset.trajs[i])' = Analysis(dataset.trajs[i])
      BY <1>1, SameAnalysis
    <3>2. i \in 1 .. next - 1 \/ i = next
      BY <1>2, <2>2, <2>4
    <3>3. i \in 1 .. next - 1 => was[i] = Analysis(dataset.trajs[i])
      BY <2>1, <2>3 DEF Analyses
    <3> QED
      BY <2>1, <2>2, <2>4, <3>1, <3>2, <3>3
  <2>6. phase' = "analyze" /\ Len(run'.results) = next' - 1 /\ IsTuple(run'.results)
    BY <1>1, <1>2, <2>2, <2>4
  <2> QED
    BY <2>5, <2>6 DEF Analyses
<1> QED
  BY <1>3, <1>4, <1>5, <1>6, <1>7

LEMMA AggregateInv == RunInv /\ Aggregate => RunInv'
<1> SUFFICES ASSUME RunInv, Aggregate PROVE RunInv'
  OBVIOUS
<1> USE DEF RunInv
<1>1. /\ phase = "analyze" /\ next > Len(dataset.trajs) /\ phase' = "write_dataset"
      /\ UNCHANGED <<next, dataset, run, disk, broken>>
  BY DEF Aggregate
<1>2. 1 .. next - 1 = DOMAIN dataset.trajs
  BY <1>1, Fields DEF AnalyzedSoFar, Shape
<1>3. run.ids = IdsOf(dataset.trajs)
  BY <1>1, <1>2 DEF AnalyzedSoFar, IdsOf
<1>4. Len(run.results) = Len(dataset.trajs)
  <2>1. Len(run.results) = next - 1 /\ next \in Nat /\ Len(dataset.trajs) \in Nat
        /\ next <= Len(dataset.trajs) + 1
    BY <1>1, Fields DEF Analyses, AnalyzedSoFar, Shape
  <2> QED
    BY <1>1, <2>1
<1>5. Analyses'
  BY <1>1, <1>4, SameAnalyses
<1>6. Shape' /\ Counted' /\ AnalyzedSoFar' /\ Written' /\ Earned' /\ Dated'
  BY <1>1, <1>3 DEF Shape, Phases, Counted, AnalyzedSoFar, Written, Earned, Dated, IdsOf
<1> QED
  BY <1>5, <1>6

(* The two files, then the verdict.                                        *)
LEMMA WritingInv == RunInv /\ (WriteDataset \/ WriteRun) => RunInv'
<1> SUFFICES ASSUME RunInv, WriteDataset \/ WriteRun PROVE RunInv'
  OBVIOUS
<1> USE DEF RunInv
<1>1. CASE WriteDataset
  <2>1. /\ phase = "write_dataset" /\ phase' = "write_run" /\ UNCHANGED <<next, dataset, run, broken>>
        /\ DOMAIN disk' = DOMAIN disk /\ disk'.dataset = Published
        /\ disk'.run = disk.run /\ disk'.verdict = disk.verdict
    BY <1>1 DEF WriteDataset, Published, Shape
  <2>2. Published' = Published
    BY <2>1 DEF Published, IdsOf
  <2>3. Shape' /\ Counted'
    BY <2>1 DEF Shape, Phases, Counted
  <2>4. AnalyzedSoFar' /\ Written' /\ Earned' /\ Dated'
    BY <2>1, <2>2 DEF AnalyzedSoFar, Written, Earned, Dated, IdsOf
  <2>5. Analyses'
    BY <2>1, SameAnalyses
  <2> QED
    BY <2>3, <2>4, <2>5
<1>2. CASE WriteRun
  <2>1. /\ phase = "write_run" /\ phase' = "verdict" /\ UNCHANGED <<next, dataset, run, broken>>
        /\ DOMAIN disk' = DOMAIN disk /\ disk'.dataset = disk.dataset
        /\ disk'.verdict = disk.verdict /\ disk'.run = RunFile
    BY <1>2 DEF WriteRun, Shape
  <2>2. RunFile' = RunFile /\ RunFile.created = run.created
    BY <2>1 DEF RunFile, Errors
  <2>3. Published' = Published
    BY <2>1 DEF Published, IdsOf
  <2>4. Shape' /\ Counted'
    BY <2>1 DEF Shape, Phases, Counted
  <2>5. AnalyzedSoFar' /\ Written'
    BY <2>1, <2>2, <2>3 DEF AnalyzedSoFar, Written, IdsOf
  <2>6. Dated' /\ disk'.verdict.created < disk'.run.created
    BY <2>1, <2>2 DEF Dated
  <2>7. Earned'
    <3>1. disk'.verdict.created \in Nat /\ disk'.run.created \in Nat
      BY <2>6 DEF Dated
    <3>2. disk'.verdict.created # disk'.run.created
      BY <2>6, <3>1
    <3> QED
      BY <2>1, <3>2 DEF Earned
  <2>8. Analyses'
    BY <2>1, SameAnalyses
  <2> QED
    BY <2>4, <2>5, <2>6, <2>7, <2>8
<1> QED
  BY <1>1, <1>2

(* Statuses that come to a pass: one of them passed, none did worse.       *)
LEMMA WorstIsPass ==
  ASSUME NEW statuses, IsTuple(statuses), ToSet(statuses) \subseteq ToSet(Precedence),
         WorstOf(statuses) = "pass"
  PROVE  "pass" \in ToSet(statuses) /\ ToSet(statuses) \subseteq {"pass", "skipped"}
<1> DEFINE rank(s) == CHOOSE k \in 1 .. 4 : Precedence[k] = s
<1>1. PICK D, R : D = DOMAIN statuses /\ R = {rank(statuses[i]) : i \in D}
  OBVIOUS
<1>2. /\ Precedence[1] = "skipped" /\ Precedence[2] = "pass" /\ Precedence[3] = "fail"
      /\ Precedence[4] = "error" /\ DOMAIN Precedence = 1 .. 4
  BY DEF Precedence
<1>3. \A s \in ToSet(Precedence) : rank(s) \in 1 .. 4 /\ Precedence[rank(s)] = s
  BY <1>2 DEF ToSet
<1> HIDE DEF rank
<1>4. \A i \in D : statuses[i] \in ToSet(Precedence)
  BY <1>1 DEF ToSet
<1>5. statuses # <<>> /\ WorstOf(statuses) = Precedence[Max(R)]
  BY <1>1, Zenon DEF WorstOf, rank
<1>6. R \subseteq 1 .. 4
  BY <1>1, <1>3, <1>4
<1>7. R # {}
  <2>1. statuses \in Seq(ToSet(statuses)) /\ statuses # <<>>
    BY <1>2, <1>5, TupleIs DEF WorstOf
  <2>2. D # {}
    BY <1>1, <2>1, NoElement
  <2> QED
    BY <1>1, <2>2
<1>8. Max(R) \in R /\ \A x \in R : Max(R) >= x
  <2>1. \E x \in R : \A y \in R : x >= y
    <3>1. \A x \in R : x = 1 \/ x = 2 \/ x = 3 \/ x = 4
      BY <1>6
    <3>2. CASE 4 \in R
      BY <3>1, <3>2
    <3>3. CASE 4 \notin R /\ 3 \in R
      BY <3>1, <3>3
    <3>4. CASE 4 \notin R /\ 3 \notin R /\ 2 \in R
      BY <3>1, <3>4
    <3>5. CASE 4 \notin R /\ 3 \notin R /\ 2 \notin R
      BY <1>7, <3>1, <3>5
    <3> QED
      BY <3>2, <3>3, <3>4, <3>5
  <2> QED
    BY <2>1 DEF Max
<1>9. Max(R) = 2
  <2>1. PICK m : m = Max(R)
    OBVIOUS
  <2>2. m \in R
    BY <1>8, <2>1
  <2>3. m = 1 \/ m = 2 \/ m = 3 \/ m = 4
    BY <1>6, <2>2
  <2>4. Precedence[m] = "pass"
    BY <1>5, <2>1, Zenon
  <2> QED
    BY <1>2, <2>1, <2>3, <2>4
<1>10. PICK i \in D : rank(statuses[i]) = 2
  BY <1>1, <1>8, <1>9
<1>11. statuses[i] = "pass"
  BY <1>2, <1>3, <1>4, <1>10
<1>12. \A j \in D : statuses[j] \in {"pass", "skipped"}
  <2>1. \A x \in R : x = 1 \/ x = 2
    <3>1. PICK m : m = Max(R) /\ m = 2
      BY <1>9
    <3>2. \A x \in R : x \in 1 .. 4 /\ m >= x
      BY <1>6, <1>8, <3>1
    <3> QED
      BY <3>1, <3>2
  <2>2. \A j \in D : rank(statuses[j]) = 1 \/ rank(statuses[j]) = 2
    BY <1>1, <2>1
  <2> QED
    BY <1>2, <1>3, <1>4, <2>2
<1> QED
  BY <1>1, <1>11, <1>12 DEF ToSet

(* A verdict that passes was given by a policy, over trajectories, with no *)
(* error of the run.                                                       *)
LEMMA PassIs ==
  ASSUME NEW policy \in Policies, BuildVerdict(policy).status = "pass"
  PROVE  /\ HealthErrors = {} /\ dataset.trajs # <<>>
         /\ BuildVerdict(policy).checks = policy
         /\ "pass" \in ToSet(policy) /\ ToSet(policy) \subseteq {"pass", "skipped"}
<1> DEFINE verdict(status, checks) == [status |-> status, checks |-> checks, created |-> run.created]
<1>1. BuildVerdict(policy) =
        IF HealthErrors # {} THEN verdict("error", <<>>)
        ELSE IF dataset.trajs = <<>> \/ policy = <<"none">> THEN verdict("skipped", <<>>)
        ELSE IF \E i \in DOMAIN policy : policy[i] \notin ToSet(Precedence) THEN verdict("error", <<>>)
        ELSE verdict(WorstOf(policy), policy)
  BY Zenon DEF BuildVerdict
<1>2. /\ HealthErrors = {} /\ dataset.trajs # <<>>
      /\ \A i \in DOMAIN policy : policy[i] \in ToSet(Precedence)
  BY <1>1
<1>3. BuildVerdict(policy) = verdict(WorstOf(policy), policy)
  BY <1>1, <1>2
<1>4. WorstOf(policy) = "pass" /\ BuildVerdict(policy).checks = policy
  BY <1>3
<1>5. ToSet(policy) \subseteq ToSet(Precedence)
  BY <1>2 DEF ToSet
<1>6. IsTuple(policy)
  BY PoliciesAssumption
<1> QED
  BY <1>2, <1>4, <1>5, <1>6, WorstIsPass

LEMMA WriteVerdictInv == RunInv /\ WriteVerdict => RunInv'
<1> SUFFICES ASSUME RunInv, WriteVerdict PROVE RunInv'
  OBVIOUS
<1> USE DEF RunInv
<1>1. /\ phase = "verdict" /\ phase' = "done" /\ UNCHANGED <<next, dataset, run, broken>>
  BY DEF WriteVerdict
<1>2. PICK policy \in Policies : disk' = [disk EXCEPT !.verdict = BuildVerdict(policy)]
  BY DEF WriteVerdict
<1>3. /\ DOMAIN disk' = DOMAIN disk /\ disk'.dataset = disk.dataset /\ disk'.run = disk.run
      /\ disk'.verdict = BuildVerdict(policy)
  BY <1>2 DEF Shape
<1>4. BuildVerdict(policy).created = run.created
  BY DEF BuildVerdict
<1>5. HealthErrors' = HealthErrors /\ RunFile' = RunFile
  BY <1>1 DEF HealthErrors, RunFile, Errors
<1>6. Published' = Published
  BY <1>1 DEF Published, IdsOf
<1>7. Shape' /\ Counted'
  BY <1>1, <1>3 DEF Shape, Phases, Counted
<1>8. AnalyzedSoFar' /\ Written'
  BY <1>1, <1>3, <1>4, <1>5, <1>6, PassIs DEF AnalyzedSoFar, Written, IdsOf
<1>9. Dated'
  <2>1. disk.run.created = run.created
    BY <1>1 DEF Written, RunFile
  <2> QED
    BY <1>1, <1>3, <1>4, <2>1 DEF Dated
<1>10. Earned'
  <2> SUFFICES ASSUME BuildVerdict(policy).status = "pass"
               PROVE  /\ "pass" \in ToSet(disk'.verdict.checks)
                      /\ ToSet(disk'.verdict.checks) \subseteq {"pass", "skipped"}
                      /\ disk'.run.ids # {} /\ ~disk'.run.errors
    BY <1>3 DEF Earned
  <2>1. disk'.run = RunFile
    BY <1>1, <1>3 DEF Written
  <2>2. RunFile.ids = IdsOf(dataset.trajs)
    BY <1>1 DEF RunFile, AnalyzedSoFar
  <2>3. IdsOf(dataset.trajs) # {}
    <3>1. dataset.trajs # <<>> /\ DOMAIN dataset.trajs = 1 .. Len(dataset.trajs)
          /\ dataset.trajs \in Seq(Loadable)
      BY PassIs, Fields
    <3>2. DOMAIN dataset.trajs # {}
      BY <3>1, NoElement
    <3> QED
      BY <3>2 DEF IdsOf
  <2>4. ~RunFile.errors
    <3>1. HealthErrors = {}
      BY PassIs
    <3>2. \A kind \in Kinds : Errors(kind) = {}
      BY <3>1 DEF HealthErrors
    <3> QED
      BY <3>2 DEF RunFile
  <2> QED
    BY <1>3, <2>1, <2>2, <2>3, <2>4, PassIs
<1>11. Analyses'
  BY <1>1, SameAnalyses
<1> QED
  BY <1>7, <1>8, <1>9, <1>10, <1>11

(* A rerun begins with nothing read, over the files of the run before it.  *)
LEMMA RerunInv == RunInv /\ Rerun => RunInv'
<1> SUFFICES ASSUME RunInv, Rerun PROVE RunInv'
  OBVIOUS
<1> USE DEF RunInv
<1>1. phase' = "build" /\ next' = 1 /\ UNCHANGED disk
  BY DEF Rerun
<1>2. PICK version \in {dataset.version, dataset.version + 1} :
         /\ dataset' = [version |-> version, read |-> <<>>, trajs |-> <<>>, issues |-> <<>>]
         /\ run' = EmptyRun(version, run.created + 1)
  BY DEF Rerun
<1>3. version \in Versions
  BY Fields DEF Versions
<1>4. /\ <<>> \in Seq(Readable) /\ <<>> \in Seq(Loadable) /\ <<>> \in Seq({"fetch", "load"})
      /\ Len(<<>>) = 0
  OBVIOUS
<1>5. Shape'
  BY <1>1, <1>2, <1>3, <1>4 DEF Shape, Phases, EmptyRun
<1>6. Counted'
  <2>1. dataset'.read = <<>> /\ dataset'.issues = <<>> /\ phase' = "build" /\ next' = 1
    BY <1>1, <1>2
  <2>2. 0 + 0 = 1 - 1 /\ 1 <= Len(Recordings) + 1
    BY RecordingsCount
  <2> QED
    BY <1>4, <2>1, <2>2 DEF Counted
<1>7. AnalyzedSoFar' /\ Written' /\ Earned' /\ Dated'
  BY <1>1, <1>2 DEF AnalyzedSoFar, Written, Earned, Dated, EmptyRun
<1>8. Analyses'
  <2>1. run'.results = <<>> /\ Len(<<>>) = 0 /\ phase' = "build"
    BY <1>1, <1>2 DEF EmptyRun
  <2>2. 1 .. Len(run'.results) = {}
    BY <2>1
  <2> QED
    BY <2>1, <2>2, NoneIsTuple DEF Analyses
<1> QED
  BY <1>5, <1>6, <1>7, <1>8

LEMMA RunInvStep == RunInv /\ [Next]_vars => RunInv'
<1> SUFFICES ASSUME RunInv, [Next]_vars PROVE RunInv'
  OBVIOUS
<1>1. CASE UNCHANGED vars
  <2>1. Published' = Published /\ HealthErrors' = HealthErrors /\ RunFile' = RunFile
    BY <1>1 DEF vars, Published, IdsOf, HealthErrors, RunFile, Errors
  <2>2. Shape' /\ Counted'
    BY <1>1 DEF vars, RunInv, Shape, Counted
  <2>3. AnalyzedSoFar' /\ Written' /\ Earned' /\ Dated'
    BY <1>1, <2>1 DEF vars, RunInv, AnalyzedSoFar, Written, Earned, Dated, IdsOf
  <2>4. Analyses'
    BY <1>1, SameAnalyses DEF vars, RunInv
  <2> QED
    BY <2>2, <2>3, <2>4 DEF RunInv
<1>2. CASE Finished
  BY <1>1, <1>2 DEF Finished
<1> QED
  BY <1>1, <1>2, ReadingInv, AssembleInv, AnalyzeInv, AggregateInv, WritingInv, WriteVerdictInv,
     RerunInv DEF Next

LEMMA RunInvariant == Spec => []RunInv
  BY RunInvInit, RunInvStep, PTL DEF Spec

LEMMA RunInvIsSound == RunInv => PublishedRunIsSound
<1> SUFFICES ASSUME RunInv PROVE PublishedRunIsSound
  OBVIOUS
<1> USE DEF RunInv
<1>1. disk.verdict.status = "pass" =>
         /\ "pass" \in ToSet(disk.verdict.checks)
         /\ ToSet(disk.verdict.checks) \subseteq {"pass", "skipped"}
         /\ disk.verdict.created <= disk.run.created
         /\ disk.verdict.created = disk.run.created => disk.run.ids # {} /\ ~disk.run.errors
  BY DEF Earned, Dated
<1>2. ASSUME phase = "done", disk.verdict.status = "pass"
      PROVE  dataset.issues = <<>> /\ Len(dataset.read) = Len(Recordings)
  <2>1. HealthErrors = {}
    BY <1>2 DEF Written
  <2>2. DOMAIN dataset.issues = {}
    BY <2>1 DEF HealthErrors
  <2>3. dataset.issues = <<>> /\ Len(dataset.issues) = 0
    BY <2>2, Fields, NoElement
  <2>4. Len(dataset.read) = Len(Recordings)
    BY <1>2, <2>3, Fields, RecordingsCount DEF Counted
  <2> QED
    BY <2>3, <2>4
<1>3. ASSUME phase = "done"
      PROVE  /\ LoadRunArtifact(disk) = <<Published, RunFile>>
             /\ disk.run.ids = disk.dataset.ids /\ disk.verdict.created = disk.run.created
  <2>1. disk.dataset = Published /\ disk.run = RunFile /\ disk.verdict.created = run.created
    BY <1>3 DEF Written
  <2>2. RunFile.version = dataset.version /\ RunFile.ids = IdsOf(dataset.trajs)
        /\ RunFile.created = run.created
    BY <1>3 DEF AnalyzedSoFar, RunFile
  <2>3. Published.version = dataset.version /\ Published.ids = IdsOf(dataset.trajs)
    BY DEF Published
  <2>4. Published # NoDataset /\ RunFile # NoRun
    <3>1. dataset.version # 0
      BY Fields DEF Versions
    <3> QED
      BY <2>2, <2>3, <3>1 DEF NoDataset, NoRun
  <2>5. ArtifactFits(Published, RunFile)
    BY <2>2, <2>3 DEF ArtifactFits
  <2> QED
    BY <2>1, <2>2, <2>3, <2>4, <2>5 DEF LoadRunArtifact
<1> QED
  BY <1>1, <1>2, <1>3 DEF PublishedRunIsSound, Published

(* Once every trajectory is analyzed, each result is the analysis of a     *)
(* trajectory that was loaded, and so of sound steps.                      *)
LEMMA ResultsAreAnalyses ==
  ASSUME RunInv, phase = "write_dataset", NEW i \in DOMAIN run.results
  PROVE  \E t \in Loadable : run.results[i] = Analysis(t) /\ SoundSteps(t.steps)
<1>1. i \in 1 .. Len(run.results) /\ Len(run.results) = Len(dataset.trajs)
  <2>1. IsTuple(run.results) /\ Len(run.results) = Len(dataset.trajs)
    BY DEF RunInv, Analyses
  <2> QED
    BY <2>1, TupleIs
<1>2. run.results[i] = Analysis(dataset.trajs[i])
  BY <1>1 DEF RunInv, Analyses
<1>3. dataset.trajs[i] \in Loadable
  BY <1>1, Fields DEF RunInv
<1>4. SoundSteps(dataset.trajs[i].steps)
  BY <1>3, LoadableIsSound
<1> QED
  BY <1>2, <1>3, <1>4

LEMMA RunInvAgrees == RunInv => DetectorsAgree
<1> SUFFICES ASSUME RunInv, phase = "write_dataset", NEW i \in DOMAIN run.results
             PROVE  Agrees(run.results[i])
  BY Zenon DEF DetectorsAgree, Agrees
<1>1. PICK t : run.results[i] = Analysis(t) /\ SoundSteps(t.steps)
  BY ResultsAreAnalyses
<1>2. Agrees(Analysis(t))
  BY <1>1, AnalysisAgrees
<1>3. PICK r : r = run.results[i]
  OBVIOUS
<1> QED
  BY <1>1, <1>2, Zenon

(* RepeatedToolCall, PostCompactRefetch, UnchangedToolRetry, RetryUsage    *)
(* and MeasurementThreshold: two equal calls that one detector pairs have  *)
(* a step that the repeated-call detector reports, in whichever of the two *)
(* orders each reads the calls; and the threshold verifier on unchanged    *)
(* retries fails exactly when the retry detector has evidence.             *)
THEOREM TrajectoryDetectorsAgree == Spec => []DetectorsAgree
  BY RunInvariant, RunInvAgrees, PTL

LEMMA RunInvExact == RunInv => MeasurementsAreExact
<1> SUFFICES ASSUME RunInv, phase = "write_dataset", NEW i \in DOMAIN run.results
             PROVE  Exact(run.results[i])
  BY Zenon DEF MeasurementsAreExact, Exact, ExactOf
<1>1. PICK t : run.results[i] = Analysis(t) /\ SoundSteps(t.steps)
  BY ResultsAreAnalyses
<1>2. Exact(Analysis(t))
  BY <1>1, AnalysisExact
<1> QED
  BY <1>1, <1>2, Zenon

(* ContextUsage, ModelUsage, RetryUsage, ToolUsage: the sweep over start   *)
(* and end events finds the real overlap of the calls; the changes counted *)
(* and added up over compact steps are those between the model calls       *)
(* nearest to each; cached tokens never exceed the input they are compared *)
(* with; no call counts as retried or recovered that did not fail; and     *)
(* every value reported is one the measurer declares.                      *)
THEOREM TrajectoryMeasurementsAreExact == Spec => []MeasurementsAreExact
  BY RunInvariant, RunInvExact, PTL

(* build_trajectory_verdict, load_run_artifact: a pass that is in the      *)
(* directory rests on a policy that passed a check and found nothing; if   *)
(* run.json is of the same run it holds no plugin that raised, and if not  *)
(* the verdict is the older, whatever crash or rerun came before; the      *)
(* directory of a finished run loads, every file of it is of this run, and *)
(* its pass means that every recording was read.                           *)
THEOREM TrajectoryPublishedRunIsSound == Spec => []PublishedRunIsSound
  BY RunInvariant, RunInvIsSound, PTL
=============================================================================
