--------------------------- MODULE OpenLoopProofs ---------------------------
(***************************************************************************)
(* Safety of the open-loop driver, for every finite set of arrivals, every *)
(* burst, cap and breaker, with and without a graceful stop.               *)
(*                                                                         *)
(* The counter matches the requests in flight by induction alone.  The     *)
(* census needs more (Stages): which states a fire can be in before, while *)
(* and after the load is brought to rest, and that the drain only shrinks  *)
(* what was in flight at the stop.                                         *)
(***************************************************************************)
EXTENDS OpenLoop, FiniteSetTheorems, TLAPS

FireStates == {"none", "created", "drop", "flying", "ok", "bad", "lost", "cutting", "cut"}
StopType ==
  [reason : {"none", "deadline", "error_rate"}, sent : Nat, errors : Nat,
   atStop : Nat, interrupted : Nat]

Finished == In({"ok", "bad", "lost"})
CutOff == In({"cut"})

(* TypeOK without the bound on the counter, which InflightMatches gives.   *)
Shape ==
  /\ loop \in {"run", "drain", "cancel", "stopped"}
  /\ fire \in [Fires -> FireStates]
  /\ inflight \in Nat
  /\ stop \in StopType

Stages ==
  /\ loop \in {"run", "drain"} => In({"cutting", "cut"}) = {}
  /\ loop # "run" => In({"created"}) = {}
  /\ loop \in {"cancel", "stopped"} => In({"flying"}) = {}
  /\ loop = "stopped" => Flying = {}
  /\ loop = "drain" => inflight <= stop.atStop
  /\ loop \in {"cancel", "stopped"} =>
       stop.interrupted = Cardinality(In({"cutting", "cut"})) /\ stop.interrupted <= stop.atStop

OpenInv == Shape /\ InflightMatches /\ Stages /\ AbortIsJustified
-----------------------------------------------------------------------------
LEMMA InFinite ==
  ASSUME NEW S
  PROVE  IsFiniteSet(In(S)) /\ Cardinality(In(S)) \in Nat
  BY OpenAssumption, FS_Subset, FS_CardinalityType DEF In

(* How each step moves the sets that are counted.                          *)
LEMMA TickSets ==
  ASSUME Shape, Tick
  PROVE  /\ Flying' = Flying /\ Finished' = Finished /\ CutOff' = CutOff
         /\ Judged' = Judged /\ In({"bad"})' = In({"bad"})
         /\ In({"cutting", "cut"})' = In({"cutting", "cut"})
<1>1. PICK S \in SUBSET Unissued : Issue(S)
  BY DEF Tick
<1>2. \A f \in Fires : \/ fire'[f] = fire[f]
                       \/ fire[f] = "none" /\ fire'[f] \in {"drop", "created"}
  BY <1>1 DEF Issue, Unissued, In
<1> QED
  BY <1>2 DEF Flying, Finished, CutOff, Judged, In

LEMMA FireStartsSets ==
  ASSUME Shape, NEW f \in Fires, FireStarts(f)
  PROVE  /\ f \notin Flying /\ Flying' = Flying \cup {f}
         /\ Finished' = Finished /\ CutOff' = CutOff
         /\ Judged' = Judged /\ In({"bad"})' = In({"bad"})
         /\ In({"cutting", "cut"})' = In({"cutting", "cut"})
  BY DEF Shape, FireStarts, Flying, Finished, CutOff, Judged, In

LEMMA FireEndsSets ==
  ASSUME Shape, NEW f \in Fires, FireEnds(f)
  PROVE  /\ f \in Flying /\ Flying' = Flying \ {f}
         /\ f \notin Finished /\ Finished' = Finished \cup {f} /\ CutOff' = CutOff
         /\ Judged \subseteq Judged' /\ In({"bad"}) \subseteq In({"bad"})'
         /\ In({"cutting", "cut"})' = In({"cutting", "cut"})
<1>1. PICK v \in {"ok", "bad", "lost"} : fire' = [fire EXCEPT ![f] = v]
  BY DEF FireEnds
<1>2. fire[f] = "flying" /\ fire'[f] = v /\ \A g \in Fires \ {f} : fire'[g] = fire[g]
  BY <1>1 DEF FireEnds, Shape
<1> QED
  BY <1>2 DEF Flying, Finished, CutOff, Judged, In

LEMMA CutSets ==
  ASSUME Shape, NEW f \in Fires, Cut(f)
  PROVE  /\ f \in Flying /\ Flying' = Flying \ {f}
         /\ Finished' = Finished /\ f \notin CutOff /\ CutOff' = CutOff \cup {f}
         /\ Judged' = Judged /\ In({"bad"})' = In({"bad"})
         /\ In({"cutting", "cut"})' = In({"cutting", "cut"})
  BY DEF Shape, Cut, Flying, Finished, CutOff, Judged, In

LEMMA CancelSets ==
  ASSUME Shape, NEW s, CancelFrom(s)
  PROVE  /\ Flying' = Flying /\ Finished' = Finished /\ CutOff' = CutOff
         /\ Judged' = Judged /\ In({"bad"})' = In({"bad"})
         /\ In({"flying"})' = {} /\ In({"created"})' = In({"created"})
         /\ In({"cutting", "cut"})' = In({"flying", "cutting", "cut"})
  BY DEF Shape, CancelFrom, Flying, Finished, CutOff, Judged, In
-----------------------------------------------------------------------------
LEMMA OpenInit == Init => OpenInv
<1> SUFFICES ASSUME Init PROVE OpenInv
  OBVIOUS
<1>1. Flying = {} /\ In({"cutting", "cut"}) = {} /\ In({"created"}) = {}
  BY DEF Init, Flying, In
<1> QED
  BY <1>1, FS_EmptySet DEF Init, NoStop, OpenInv, Shape, StopType, FireStates,
     InflightMatches, Stages, AbortIsJustified

(* Nothing is counted on the way to the stop: the three ways there.        *)
LEMMA CancelInv ==
  ASSUME OpenInv, NEW s \in StopType, CancelFrom(s), UNCHANGED inflight,
         In({"created"}) = {}, In({"cutting", "cut"}) = {}, inflight <= s.atStop
  PROVE  Shape' /\ InflightMatches' /\ Stages'
<1> USE DEF OpenInv
<1>1. /\ Flying' = Flying /\ In({"flying"})' = {} /\ In({"created"})' = {}
      /\ In({"cutting", "cut"})' = In({"flying", "cutting", "cut"})
  BY CancelSets
<1>2. In({"flying", "cutting", "cut"}) = Flying
  BY DEF Flying, In
<1>3. /\ loop' = "cancel" /\ stop' = [s EXCEPT !.interrupted = inflight]
      /\ fire' \in [Fires -> FireStates]
  BY DEF CancelFrom, Shape, FireStates
<1>4. Shape'
  BY <1>3 DEF Shape, StopType
<1>5. Stages'
  BY <1>1, <1>2, <1>3 DEF Stages, InflightMatches, StopType
<1> QED
  BY <1>1, <1>4, <1>5 DEF InflightMatches

LEMMA WindDownInv ==
  ASSUME OpenInv, AtTick, UNCHANGED inflight, NEW reason \in {"deadline", "error_rate"},
         NEW n \in Nat, NEW e \in Nat, WindDown(reason, n, e)
  PROVE  /\ Shape' /\ InflightMatches' /\ Stages'
         /\ stop'.reason = reason /\ stop'.sent = n /\ stop'.errors = e
         /\ Judged' = Judged /\ In({"bad"})' = In({"bad"})
<1> DEFINE s == [NoStop EXCEPT !.reason = reason, !.sent = n, !.errors = e, !.atStop = inflight]
<1> USE DEF OpenInv
<1>1. s \in StopType /\ s.atStop = inflight /\ s.reason = reason /\ s.sent = n /\ s.errors = e
  BY DEF NoStop, StopType, Shape
<1> HIDE DEF s
<1>2. In({"created"}) = {} /\ In({"cutting", "cut"}) = {} /\ inflight <= s.atStop
  BY <1>1 DEF AtTick, Stages, Shape
<1>3. CASE loop' = "drain" /\ stop' = s /\ UNCHANGED fire
  <2>1. /\ Flying' = Flying /\ In({"created"})' = {} /\ In({"cutting", "cut"})' = {}
        /\ Judged' = Judged /\ In({"bad"})' = In({"bad"})
    BY <1>2, <1>3 DEF Flying, Judged, In
  <2>2. Shape' /\ InflightMatches' /\ Stages'
    BY <1>1, <1>3, <2>1 DEF Shape, InflightMatches, Stages
  <2> QED
    BY <1>1, <1>3, <2>1, <2>2
<1>4. CASE CancelFrom(s)
  <2>1. Shape' /\ InflightMatches' /\ Stages'
    BY <1>1, <1>2, <1>4, CancelInv DEF Shape
  <2>2. stop' = [s EXCEPT !.interrupted = inflight]
    BY <1>4 DEF CancelFrom
  <2>3. stop'.reason = reason /\ stop'.sent = n /\ stop'.errors = e
    BY <1>1, <2>2 DEF StopType
  <2> QED
    BY <1>4, <2>1, <2>3, CancelSets
<1> QED
  BY <1>3, <1>4 DEF WindDown, s

(* A verdict of the breaker stays true: what it judged is not unjudged.    *)
LEMMA JustifiedStays ==
  ASSUME AbortIsJustified, Shape, Judged \subseteq Judged', In({"bad"}) \subseteq In({"bad"})',
         stop'.reason = stop.reason, stop'.sent = stop.sent, stop'.errors = stop.errors,
         IsFiniteSet(Judged'), IsFiniteSet(In({"bad"})')
  PROVE  AbortIsJustified'
<1>1. /\ Cardinality(Judged) <= Cardinality(Judged')
      /\ Cardinality(In({"bad"})) <= Cardinality(In({"bad"})')
  BY FS_Subset
<1>2. /\ Cardinality(Judged) \in Nat /\ Cardinality(Judged') \in Nat
      /\ Cardinality(In({"bad"})) \in Nat /\ Cardinality(In({"bad"})') \in Nat
  BY InFinite, FS_CardinalityType DEF Judged
<1>3. stop.sent \in Nat /\ stop.errors \in Nat
  BY DEF Shape, StopType
<1> QED
  BY <1>1, <1>2, <1>3 DEF AbortIsJustified

LEMMA PrimedFinite == IsFiniteSet(Judged') /\ IsFiniteSet(In({"bad"})')
  BY OpenAssumption, FS_Subset DEF Judged, In
-----------------------------------------------------------------------------
LEMMA FireStepInv ==
  ASSUME OpenInv, NEW f \in Fires, FireStep(f)
  PROVE  OpenInv'
<1> USE DEF OpenInv
<1>0. UNCHANGED <<loop, stop>>
  BY DEF FireStep, FireStarts, FireEnds, Cut
<1>1. IsFiniteSet(Flying) /\ Cardinality(Flying) \in Nat /\ inflight = Cardinality(Flying)
  BY InFinite DEF Flying, InflightMatches
<1>2. CASE FireStarts(f)
  <2>1. /\ f \notin Flying /\ Flying' = Flying \cup {f} /\ Judged' = Judged
        /\ In({"bad"})' = In({"bad"}) /\ In({"cutting", "cut"})' = In({"cutting", "cut"})
    BY <1>2, FireStartsSets
  <2>2. loop = "run"
    BY <1>2 DEF FireStarts, Shape, Stages, In
  <2>3. inflight' = inflight + 1 /\ Cardinality(Flying') = Cardinality(Flying) + 1
    BY <1>1, <1>2, <2>1, FS_AddElement DEF FireStarts
  <2>4. Shape' /\ InflightMatches'
    BY <1>0, <1>1, <1>2, <2>3 DEF FireStarts, Shape, FireStates, InflightMatches
  <2>5. Stages'
    BY <1>0, <2>1, <2>2 DEF Stages
  <2>6. AbortIsJustified'
    BY <1>0, <2>1 DEF AbortIsJustified
  <2> QED
    BY <2>4, <2>5, <2>6
<1>3. CASE FireEnds(f)
  <2>1. /\ f \in Flying /\ Flying' = Flying \ {f}
        /\ Judged \subseteq Judged' /\ In({"bad"}) \subseteq In({"bad"})'
        /\ In({"cutting", "cut"})' = In({"cutting", "cut"})
    BY <1>3, FireEndsSets
  <2>2. loop \in {"run", "drain"} /\ In({"created"})' = In({"created"})
    BY <1>3 DEF FireEnds, Shape, Stages, In
  <2>3. inflight' = inflight - 1 /\ Cardinality(Flying') = Cardinality(Flying) - 1
    BY <1>1, <1>3, <2>1, FS_RemoveElement DEF FireEnds
  <2>4. Cardinality(Flying') \in Nat
    BY <1>1, <2>1, FS_Subset, FS_CardinalityType
  <2>5. Shape' /\ InflightMatches'
    BY <1>0, <1>1, <1>3, <2>3, <2>4 DEF FireEnds, Shape, FireStates, InflightMatches
  <2>6. Stages'
    BY <1>0, <1>1, <2>1, <2>2, <2>3 DEF Stages, Shape, StopType
  <2>7. AbortIsJustified'
    BY <1>0, <2>1, JustifiedStays, PrimedFinite
  <2> QED
    BY <2>5, <2>6, <2>7
<1>4. CASE Cut(f)
  <2>1. /\ f \in Flying /\ Flying' = Flying \ {f}
        /\ Judged' = Judged /\ In({"bad"})' = In({"bad"})
        /\ In({"cutting", "cut"})' = In({"cutting", "cut"})
    BY <1>4, CutSets
  <2>2. /\ loop \in {"cancel", "stopped"}
        /\ In({"created"})' = In({"created"}) /\ In({"flying"})' = In({"flying"})
    BY <1>4 DEF Cut, Shape, Stages, In
  <2>3. inflight' = inflight - 1 /\ Cardinality(Flying') = Cardinality(Flying) - 1
    BY <1>1, <1>4, <2>1, FS_RemoveElement DEF Cut
  <2>4. Cardinality(Flying') \in Nat
    BY <1>1, <2>1, FS_Subset, FS_CardinalityType
  <2>5. Shape' /\ InflightMatches'
    BY <1>0, <1>1, <1>4, <2>3, <2>4 DEF Cut, Shape, FireStates, InflightMatches
  <2>6. Stages'
    BY <1>0, <2>1, <2>2 DEF Stages
  <2>7. AbortIsJustified'
    BY <1>0, <2>1 DEF AbortIsJustified
  <2> QED
    BY <2>5, <2>6, <2>7
<1> QED
  BY <1>2, <1>3, <1>4 DEF FireStep

LEMMA OpenStep == OpenInv /\ [Next]_vars => OpenInv'
<1> SUFFICES ASSUME OpenInv, [Next]_vars PROVE OpenInv'
  OBVIOUS
<1> USE DEF OpenInv
<1>1. CASE Tick
  <2>1. /\ Flying' = Flying /\ Judged' = Judged /\ In({"bad"})' = In({"bad"})
        /\ In({"cutting", "cut"})' = In({"cutting", "cut"})
    BY <1>1, TickSets
  <2>2. UNCHANGED <<loop, inflight, stop>> /\ loop = "run"
    BY <1>1 DEF Tick, AtTick
  <2>3. fire' \in [Fires -> FireStates]
    BY <1>1 DEF Tick, Issue, Shape, FireStates
  <2> QED
    BY <2>1, <2>2, <2>3 DEF Shape, InflightMatches, Stages, AbortIsJustified
<1>2. CASE Deadline
  <2>1. Shape' /\ InflightMatches' /\ Stages' /\ stop'.reason = "deadline"
    BY <1>2, WindDownInv DEF Deadline
  <2> QED
    BY <2>1 DEF AbortIsJustified
<1>3. CASE Break
  <2> DEFINE n == Cardinality(Judged)
             e == Cardinality(In({"bad"}))
  <2>1. n \in Nat /\ e \in Nat
    BY InFinite DEF Judged
  <2>2. n >= BreakerMinN /\ e * AbortDen >= AbortNum * n
    BY <1>3 DEF Break, Trips
  <2>3. /\ Shape' /\ InflightMatches' /\ Stages'
        /\ stop'.sent = n /\ stop'.errors = e
        /\ Judged' = Judged /\ In({"bad"})' = In({"bad"})
    BY <1>3, <2>1, WindDownInv DEF Break
  <2>4. AbortIsJustified'
    BY <2>1, <2>2, <2>3 DEF AbortIsJustified
  <2> QED
    BY <2>3, <2>4
<1>4. CASE DrainEnds
  <2>1. stop \in StopType /\ CancelFrom(stop) /\ UNCHANGED inflight /\ loop = "drain"
    BY <1>4 DEF DrainEnds, Shape
  <2>2. In({"created"}) = {} /\ In({"cutting", "cut"}) = {} /\ inflight <= stop.atStop
    BY <2>1 DEF Stages
  <2>3. Shape' /\ InflightMatches' /\ Stages'
    BY <2>1, <2>2, CancelInv
  <2>4. /\ stop'.reason = stop.reason /\ stop'.sent = stop.sent /\ stop'.errors = stop.errors
        /\ Judged' = Judged /\ In({"bad"})' = In({"bad"})
    BY <2>1, CancelSets DEF CancelFrom, StopType
  <2>5. AbortIsJustified'
    BY <2>4 DEF AbortIsJustified
  <2> QED
    BY <2>3, <2>5
<1>5. CASE Stopped
  <2>1. /\ UNCHANGED <<fire, inflight, stop>> /\ loop = "cancel" /\ loop' = "stopped"
        /\ Flying = {} /\ Flying' = Flying /\ Judged' = Judged /\ In({"bad"})' = In({"bad"})
        /\ In({"created"})' = In({"created"}) /\ In({"flying"})' = In({"flying"})
        /\ In({"cutting", "cut"})' = In({"cutting", "cut"})
    BY <1>5 DEF Stopped, Flying, Judged, In
  <2> QED
    BY <2>1 DEF Shape, InflightMatches, Stages, AbortIsJustified
<1>6. ASSUME NEW f \in Fires, FireStep(f) PROVE OpenInv'
  BY <1>6, FireStepInv
<1>7. CASE UNCHANGED vars
  BY <1>7 DEF vars, Shape, InflightMatches, Stages, AbortIsJustified, Flying, Judged, In
<1> QED
  BY <1>1, <1>2, <1>3, <1>4, <1>5, <1>6, <1>7 DEF Next, Returned

LEMMA OpenInvariant == Spec => []OpenInv
  BY OpenInit, OpenStep, PTL DEF Spec

-----------------------------------------------------------------------------
(* The state has its type; the counter of drive_open never leaves the      *)
(* range 0 .. |Fires|: it does not go negative and never counts twice.     *)
THEOREM OpenTypeCorrect == Spec => []TypeOK
<1>1. ASSUME OpenInv PROVE TypeOK
  <2>1. Flying \subseteq Fires /\ Cardinality(Fires) \in Nat
    BY OpenAssumption, FS_CardinalityType DEF Flying, In
  <2>2. Cardinality(Flying) <= Cardinality(Fires)
    BY <2>1, OpenAssumption, FS_Subset
  <2> QED
    BY <1>1, <2>1, <2>2 DEF OpenInv, Shape, FireStates, StopType, InflightMatches, TypeOK
<1> QED
  BY <1>1, OpenInvariant, PTL

(* ClientStats.inflight is the number of requests in flight, on every way  *)
(* out of _fire: returned, raised or cancelled.                            *)
THEOREM OpenInflight == Spec => []InflightMatches
<1>1. OpenInv => InflightMatches
  BY DEF OpenInv
<1> QED
  BY <1>1, OpenInvariant, PTL

(* A trial the breaker aborted has the error rate it was aborted for, over *)
(* enough requests that were really sent and judged.                       *)
THEOREM OpenAbortIsJustified == Spec => []AbortIsJustified
<1>1. OpenInv => AbortIsJustified
  BY DEF OpenInv
<1> QED
  BY <1>1, OpenInvariant, PTL

(* The census _winddown reports adds up: interrupted is the number of      *)
(* requests cut, of those in flight at the stop, and none is left running. *)
THEOREM OpenCensus == Spec => []CensusAddsUp
<1>1. ASSUME OpenInv, loop = "stopped"
      PROVE  /\ stop.interrupted = Cardinality(In({"cut"})) /\ stop.interrupted <= stop.atStop
             /\ In({"created", "flying", "cutting"}) = {} /\ inflight = 0
  <2>1. Flying = {} /\ In({"created"}) = {}
    BY <1>1 DEF OpenInv, Stages
  <2>2. In({"cutting", "cut"}) = In({"cut"}) /\ In({"created", "flying", "cutting"}) = {}
    BY <2>1 DEF Flying, In
  <2>3. inflight = 0
    BY <1>1, <2>1, FS_EmptySet DEF OpenInv, InflightMatches
  <2> QED
    BY <1>1, <2>2, <2>3 DEF OpenInv, Stages
<1>2. OpenInv => CensusAddsUp
  BY <1>1 DEF CensusAddsUp
<1> QED
  BY <1>2, OpenInvariant, PTL

(* The driver's counters together, as the run checks them.                 *)
THEOREM OpenCountersAddUp == Spec => []CountersAddUp
  BY OpenTypeCorrect, OpenInflight, OpenCensus, OpenAbortIsJustified, PTL DEF CountersAddUp

-----------------------------------------------------------------------------
(* The cap: only a tick brings new requests, and only while fewer than     *)
(* max_inflight are in flight and no task of an earlier tick is unstarted. *)
Busy == Flying \cup In({"created"})

LEMMA BusyFinite == IsFiniteSet(Busy) /\ Cardinality(Busy) \in Nat
  BY OpenAssumption, FS_Subset, FS_CardinalityType DEF Busy, Flying, In

LEMMA BusyShrinks ==
  ASSUME OverCapByABurst, Busy' \subseteq Busy
  PROVE  OverCapByABurst'
<1>1. Cardinality(Busy') <= Cardinality(Busy) /\ Cardinality(Busy') \in Nat
  BY BusyFinite, FS_Subset, FS_CardinalityType
<1> QED
  BY <1>1, BusyFinite, OpenAssumption DEF OverCapByABurst, Busy

LEMMA CapTick == OpenInv /\ OverCapByABurst /\ Tick => OverCapByABurst'
<1> SUFFICES ASSUME OpenInv, OverCapByABurst, Tick PROVE OverCapByABurst'
  OBVIOUS
<1>1. PICK S \in SUBSET Unissued : Cardinality(S) \in 1 .. MaxBurst /\ Issue(S)
  BY DEF Tick
<1>2. In({"created"}) = {} /\ S \subseteq Fires
  BY <1>1 DEF Tick, AtTick, Unissued, In
<1>3. CASE Shed
  <2>1. Busy' \subseteq Busy
    BY <1>1, <1>2, <1>3 DEF Issue, Busy, Flying, In
  <2> QED
    BY <2>1, BusyShrinks
<1>4. CASE ~Shed
  <2>1. Busy' \subseteq Flying \cup S
    BY <1>1, <1>2, <1>4 DEF Issue, Busy, Flying, In
  <2>2. IsFiniteSet(Flying) /\ IsFiniteSet(S) /\ Cardinality(Flying) = inflight
    BY <1>2, InFinite, OpenAssumption, FS_Subset DEF Flying, OpenInv, InflightMatches
  <2>3. /\ IsFiniteSet(Flying \cup S)
        /\ Cardinality(Flying \cup S) = inflight + Cardinality(S) - Cardinality(Flying \cap S)
    BY <2>2, FS_Union
  <2>4. Cardinality(Flying \cap S) \in Nat /\ Cardinality(S) \in Nat
    BY <2>2, FS_Subset, FS_CardinalityType
  <2>5. Cardinality(Busy') <= Cardinality(Flying \cup S) /\ Cardinality(Busy') \in Nat
    BY <2>1, <2>3, FS_Subset, FS_CardinalityType
  <2>6. inflight \in Nat /\ (MaxInflight > 0 => inflight <= MaxInflight - 1)
    BY <1>4, OpenAssumption DEF Shed, OpenInv, Shape
  <2>7. MaxInflight > 0 => Cardinality(Busy') <= MaxInflight - 1 + MaxBurst
    BY <1>1, <2>3, <2>4, <2>5, <2>6, OpenAssumption
  <2> QED
    BY <2>7 DEF OverCapByABurst, Busy
<1> QED
  BY <1>3, <1>4

LEMMA CapStep == OpenInv /\ OverCapByABurst /\ [Next]_vars => OverCapByABurst'
<1> SUFFICES ASSUME OpenInv, OverCapByABurst, [Next]_vars PROVE OverCapByABurst'
  OBVIOUS
<1>1. CASE Tick
  BY <1>1, CapTick
<1>2. ASSUME NEW s, CancelFrom(s) PROVE Busy' \subseteq Busy
  BY <1>2 DEF CancelFrom, OpenInv, Shape, Busy, Flying, In
<1>3. CASE Deadline \/ Break \/ DrainEnds
  <2>1. CASE UNCHANGED fire
    BY <2>1, BusyShrinks DEF Busy, Flying, In
  <2>2. ASSUME NEW s, CancelFrom(s) PROVE OverCapByABurst'
    BY <1>2, <2>2, BusyShrinks
  <2> QED
    BY <1>3, <2>1, <2>2 DEF Deadline, Break, DrainEnds, WindDown
<1>4. CASE Stopped \/ UNCHANGED vars
  BY <1>4, BusyShrinks DEF Stopped, vars, Busy, Flying, In
<1>5. ASSUME NEW f \in Fires, FireStep(f) PROVE OverCapByABurst'
  <2>1. CASE FireStarts(f)
    BY <2>1, BusyShrinks DEF FireStarts, OpenInv, Shape, Busy, Flying, In
  <2>2. CASE FireEnds(f)
    <3>1. PICK v \in {"ok", "bad", "lost"} : fire' = [fire EXCEPT ![f] = v]
      BY <2>2 DEF FireEnds
    <3> QED
      BY <3>1, BusyShrinks DEF OpenInv, Shape, Busy, Flying, In
  <2>3. CASE Cut(f)
    BY <2>3, BusyShrinks DEF Cut, OpenInv, Shape, Busy, Flying, In
  <2> QED
    BY <1>5, <2>1, <2>2, <2>3 DEF FireStep
<1> QED
  BY <1>1, <1>3, <1>4, <1>5 DEF Next, Returned

(* max_inflight is overshot by one tick's arrivals at most, for every cap  *)
(* and every burst: shed is decided per tick, before its tasks start.      *)
THEOREM OpenOverCapByABurst == Spec => []OverCapByABurst
<1>1. ASSUME Init PROVE OverCapByABurst
  <2>1. Flying \cup In({"created"}) = {}
    BY <1>1 DEF Init, Flying, In
  <2>2. Cardinality(Flying \cup In({"created"})) = 0
    BY <2>1, FS_EmptySet
  <2>3. MaxInflight \in Nat /\ MaxBurst \in Nat
    BY OpenAssumption
  <2> QED
    BY <2>2, <2>3 DEF OverCapByABurst
<1> QED
  BY <1>1, CapStep, OpenInvariant, PTL DEF Spec

-----------------------------------------------------------------------------
(* The driver starts a trial as the abstract trial starts.                 *)
LEMMA TrialRefinesInit == Init => Abstract!TrialInit
<1> SUFFICES ASSUME Init PROVE Abstract!TrialInit
  OBVIOUS
<1>1. Flying = {} /\ Finished = {} /\ CutOff = {}
  BY DEF Init, Flying, Finished, CutOff, In
<1> QED
  BY <1>1, FS_EmptySet DEF Init, Abstract!TrialInit, Finished, CutOff

(* Every step of the driver is a step of the trial or leaves it unchanged. *)
LEMMA TrialRefinesStep ==
  OpenInv /\ [Next]_vars => [Abstract!TrialNext]_(Abstract!trialVars)
<1> SUFFICES ASSUME OpenInv, [Next]_vars
             PROVE  [Abstract!TrialNext]_(Abstract!trialVars)
  OBVIOUS
<1> DEFINE AbsStep == [Abstract!TrialNext]_(Abstract!trialVars)
<1> USE DEF OpenInv
<1>1. /\ IsFiniteSet(Flying) /\ Cardinality(Flying) \in Nat
      /\ IsFiniteSet(Finished) /\ Cardinality(Finished) \in Nat
      /\ IsFiniteSet(CutOff) /\ Cardinality(CutOff) \in Nat
  BY InFinite DEF Flying, Finished, CutOff
<1>2. CASE Tick
  <2>1. Flying' = Flying /\ Finished' = Finished /\ CutOff' = CutOff /\ loop' = loop
    BY <1>2, TickSets DEF Tick
  <2> QED
    BY <2>1 DEF Abstract!trialVars, Finished, CutOff
<1>3. ASSUME loop = "run", loop' \in {"drain", "cancel"},
             Flying' = Flying, Finished' = Finished, CutOff' = CutOff
      PROVE  AbsStep
  <2>1. Abstract!Stop
    BY <1>3 DEF Abstract!Stop, Finished, CutOff
  <2> QED
    BY <2>1 DEF Abstract!TrialNext
<1>4. ASSUME NEW s, CancelFrom(s) PROVE
        Flying' = Flying /\ Finished' = Finished /\ CutOff' = CutOff /\ loop' = "cancel"
  BY <1>4, CancelSets DEF CancelFrom
<1>5. ASSUME NEW r, NEW n, NEW e, AtTick, WindDown(r, n, e) PROVE AbsStep
  <2>1. loop = "run"
    BY <1>5 DEF AtTick
  <2>2. CASE loop' = "drain" /\ UNCHANGED fire
    BY <1>3, <2>1, <2>2 DEF Flying, Finished, CutOff, In
  <2>3. ASSUME NEW s, CancelFrom(s) PROVE AbsStep
    BY <1>3, <1>4, <2>1, <2>3
  <2> QED
    BY <1>5, <2>2, <2>3 DEF WindDown
<1>6. CASE Deadline \/ Break
  BY <1>5, <1>6 DEF Deadline, Break
<1>7. CASE DrainEnds
  <2>1. /\ loop = "drain" /\ loop' = "cancel"
        /\ Flying' = Flying /\ Finished' = Finished /\ CutOff' = CutOff
    BY <1>4, <1>7 DEF DrainEnds
  <2> QED
    BY <2>1 DEF Abstract!trialVars, Finished, CutOff
<1>8. CASE Stopped
  <2>1. /\ loop = "cancel" /\ loop' = "stopped" /\ Flying = {}
        /\ Flying' = Flying /\ Finished' = Finished /\ CutOff' = CutOff
    BY <1>8 DEF Stopped, Flying, Finished, CutOff, In
  <2>2. Cardinality(Flying) = 0
    BY <2>1, FS_EmptySet
  <2>3. Abstract!Rest
    BY <2>1, <2>2 DEF Abstract!Rest, Finished, CutOff
  <2> QED
    BY <2>3 DEF Abstract!TrialNext
<1>9. ASSUME NEW f \in Fires, FireStarts(f) PROVE AbsStep
  <2>1. /\ f \notin Flying /\ Flying' = Flying \cup {f}
        /\ Finished' = Finished /\ CutOff' = CutOff
    BY <1>9, FireStartsSets
  <2>2. loop = "run" /\ loop' = loop
    BY <1>9 DEF FireStarts, Shape, Stages, In
  <2>3. Cardinality(Flying') = Cardinality(Flying) + 1
    BY <1>1, <2>1, FS_AddElement
  <2>4. Abstract!Dispatch
    BY <2>1, <2>2, <2>3 DEF Abstract!Dispatch, Finished, CutOff
  <2> QED
    BY <2>4 DEF Abstract!TrialNext
<1>10. ASSUME NEW f \in Fires, Flying' = Flying \ {f}, f \in Flying
       PROVE  Cardinality(Flying) > 0 /\ Cardinality(Flying') = Cardinality(Flying) - 1
  <2>1. Cardinality(Flying') = Cardinality(Flying) - 1
    BY <1>1, <1>10, FS_RemoveElement
  <2>2. Cardinality(Flying') \in Nat
    BY <1>1, <1>10, FS_Subset, FS_CardinalityType
  <2> QED
    BY <1>1, <2>1, <2>2
<1>11. ASSUME NEW f \in Fires, FireEnds(f) PROVE AbsStep
  <2>1. /\ f \in Flying /\ Flying' = Flying \ {f} /\ loop' = loop
        /\ f \notin Finished /\ Finished' = Finished \cup {f} /\ CutOff' = CutOff
    BY <1>11, FireEndsSets DEF FireEnds
  <2>2. Cardinality(Finished') = Cardinality(Finished) + 1
    BY <1>1, <2>1, FS_AddElement
  <2>3. Abstract!Complete
    BY <1>10, <2>1, <2>2 DEF Abstract!Complete, Finished, CutOff
  <2> QED
    BY <2>3 DEF Abstract!TrialNext
<1>12. ASSUME NEW f \in Fires, Cut(f) PROVE AbsStep
  <2>1. /\ f \in Flying /\ Flying' = Flying \ {f} /\ loop' = loop
        /\ f \notin CutOff /\ CutOff' = CutOff \cup {f} /\ Finished' = Finished
    BY <1>12, CutSets DEF Cut
  <2>2. Cardinality(CutOff') = Cardinality(CutOff) + 1
    BY <1>1, <2>1, FS_AddElement
  <2>3. Abstract!Cancel
    BY <1>10, <2>1, <2>2 DEF Abstract!Cancel, Finished, CutOff
  <2> QED
    BY <2>3 DEF Abstract!TrialNext
<1>13. CASE UNCHANGED vars
  BY <1>13 DEF vars, Flying, In, Abstract!trialVars
<1> QED
  BY <1>2, <1>6, <1>7, <1>8, <1>9, <1>11, <1>12, <1>13 DEF Next, Returned, FireStep

(* drive_open keeps the promise of a load driver, for every set of         *)
(* arrivals: dispatch only before the stop, each request completes or is   *)
(* cut, nothing is in flight at rest.                                      *)
THEOREM OpenImplementsTrial == Spec => ImplementsTrial
  BY TrialRefinesInit, TrialRefinesStep, OpenInvariant, PTL
  DEF Spec, ImplementsTrial, Abstract!TrialSpec
=============================================================================
