----------------------------- MODULE PerfLenses ------------------------------
(***************************************************************************)
(* The deterministic reading of a run (perf_harness/analysis): four lenses *)
(* over its trials.  An observation is <<lens, kind, what, of, evidence>>; *)
(* the rounding of the evidence is left out, the thresholds are exact.     *)
(***************************************************************************)
EXTENDS PerfWindows

CONSTANTS MinNForTail     \* MIN_N_FOR_TAIL

ASSUME LensAssumption == MinNForTail \in Nat

KneeDrop == <<15, 100>>
TtftStableSpread == <<10, 100>>
NearLimit == <<80, 100>>
IdleShare == <<5, 100>>
GrowthPct == <<10, 100>>
BreakerWindowShare == <<50, 100>>

Over(r, s) == <<r[1] * s[2], r[2] * s[1]>>     \* r / s
Minus1(r) == <<r[1] - r[2], r[2]>>
Positive(r) == r[1] > 0

Fact(lens, what, of, evidence) == <<lens, "fact", what, of, evidence>>
Flag(lens, what, of, evidence) == <<lens, "flag", what, of, evidence>>
Level(trial) == PeakLevel(trial.arm.load)
Req(trial) == Measurement(trial).request

\* A trial that broke before its measurement ended is on no curve.
OnCurve(trial) == ~Broken(trial) \/ Measurement(trial).complete
Label(trial) == trial.arm.resources

\* mutant: whatever was measured is on the curve
AllByLevel(trials) ==
    [label \in { Label(trials[i]) : i \in DOMAIN trials } |->
        SortSeq(SelectSeq(trials, LAMBDA t : Label(t) = label), LAMBDA a, b : Level(a) < Level(b))]

\* by_resources: the trials of each profile, by level.
ByResources(trials) ==
    LET kept == SelectSeq(trials, OnCurve)
    IN  [label \in { Label(kept[i]) : i \in DOMAIN kept } |->
            SortSeq(SelectSeq(kept, LAMBDA t : Label(t) = label),
                    LAMBDA a, b : Level(a) < Level(b))]

Steps(seq) == { <<seq[i], seq[i + 1]>> : i \in 1 .. (Len(seq) - 1) }

-----------------------------------------------------------------------------
(* Capacity. *)

\* Throughput per user: a fall of KneeDrop from one level to the next is the
\* knee; implied is Little's law, in requests.
ClosedScaling(label, rs) ==
    LET row(t) == [level |-> Level(t), rps |-> Req(t).rps,
                   perUser |-> IF Level(t) = 0 THEN Absent
                               ELSE <<Req(t).rps[1], Req(t).rps[2] * Level(t)>>,
                   implied |-> <<Req(t).rps[1] * Req(t).p50, Req(t).rps[2] * Second>>]
        rows == Each(rs, row)
        counts(r) == r.perUser # Absent /\ Positive(r.perUser)
        knee(a, b) == /\ counts(a) /\ counts(b)
                      /\ AtMost(Over(b.perUser, a.perUser), <<KneeDrop[2] - KneeDrop[1], KneeDrop[2]>>)
    IN  {Fact("capacity", "scaling", label, rows)}
        \cup { Flag("capacity", "knee", label, <<p[1].level, p[2].level>>)
                 : p \in {x \in Steps(rows) : knee(x[1], x[2])} }

OpenSaturation(label, rs) ==
    {Fact("capacity", "saturation", label,
          Each(rs, LAMBDA t : <<Level(t), Req(t).rps, DropRate(Req(t))>>))}

Amplification(label, rs, families) ==
    LET services == { sid[2].service : sid \in UNION { {s \in DOMAIN Measurement(rs[i]).probes :
                          s[1] = "metrics.req_total" /\ "service" \in DOMAIN s[2]} : i \in DOMAIN rs } }
        ref(svc) == [name |-> "metrics.req_total", prefix |-> "metrics",
                     labels |-> [service |-> svc], stat |-> "rate"]
        read(t, svc) == Query(families, t, ref(svc), Measurement(t))
        rows(svc) == SelectSeq(rs, LAMBDA t : IsRead(read(t, svc)) /\ Positive(Req(t).rps))
    IN  { Fact("capacity", "amplification", <<label, svc>>,
               Each(rows(svc), LAMBDA t : <<Level(t), Over(read(t, svc).value, Req(t).rps)>>))
          : svc \in {s \in services : rows(s) # <<>>} }

CapacityLens(trials, families) ==
    LET groups == ByResources(trials)
    IN  UNION { (IF groups[label][1].arm.load.model = "closed"
                 THEN ClosedScaling(label, groups[label]) ELSE OpenSaturation(label, groups[label]))
                \cup Amplification(label, groups[label], families)
                : label \in {l \in DOMAIN groups : Len(groups[l]) >= 2} }

-----------------------------------------------------------------------------
(* Latency. *)

\* The tail diverges when p99 grew by more than twice p50's growth and a tenth.
Degradation(label, rs) ==
    LET first == Req(rs[1])
        last  == Req(Last(rs))
        p50   == Minus1(<<last.p50, first.p50>>)
        p99   == Minus1(<<last.p99, first.p99>>)
        diverges == /\ Len(rs) >= 2 /\ first.p50 > 0 /\ first.p99 > 0
                    /\ Below(<<2 * p50[1], p50[2]>>, p99) /\ Below(<<1, 10>>, p99)
    IN  {Fact("latency", "by level", label,
              Each(rs, LAMBDA t : <<Level(t), Req(t).p50, Req(t).p95, Req(t).p99>>))}
        \cup (IF diverges THEN {Flag("latency", "tail diverges", label, <<p50, p99>>)} ELSE {})

\* The share of the first byte in the total is formatted without a look
\* whether there is one: without a request at the highest level it raises.
Ttft(label, rs, families) ==
    LET ref == [name |-> "ttft_ms", prefix |-> "", labels |-> <<>>, stat |-> "p50"]
        read(t) == Query(families, t, ref, Measurement(t))
        some == SelectSeq(rs, LAMBDA t : IsRead(read(t)))
        vals == Each(some, LAMBDA t : read(t).value[1])
        sum  == Total(vals)
        spread == Per((Highest(vals) - Min(Range(vals))) * Len(vals), sum)
        points == Each(some, LAMBDA t : <<Level(t), read(t).value>>)
    IN  CASE Len(some) < 2 -> {}
          [] Len(some) >= 2 /\ AtMost(spread, TtftStableSpread) ->
                IF Req(Last(rs)).p50 = 0 THEN {Flag("latency", "raises", label, <<>>)}
                ELSE {Fact("latency", "ttft stable", label, points)}
          [] OTHER -> {Flag("latency", "ttft drifts", label, points)}

Adequacy(label, rs) ==
    UNION { LET o == Req(rs[i])
                at == <<label, Level(rs[i])>>
            IN  (IF 0 < o.n /\ o.n < MinNForTail THEN {Flag("latency", "few for p99", at, o.n)} ELSE {})
                \cup (IF o.n > 0 /\ o.p95 = o.p99 /\ o.p95 > 0
                      THEN {Flag("latency", "tail exhausted", at, o.p95)} ELSE {})
                \cup { Flag("latency", "caveat", at, c) : c \in o.caveats }
            : i \in DOMAIN rs }

LatencyLens(trials, families) ==
    LET groups == ByResources(trials)
    IN  UNION { Degradation(l, groups[l]) \cup Ttft(l, groups[l], families)
                \cup Adequacy(l, groups[l]) : l \in DOMAIN groups }

-----------------------------------------------------------------------------
(* Resources: the usage families against requests and limits, at the       *)
(* hottest level and over the levels.                                      *)

Bounds == [millicores |-> <<"limits.cpu_request", "limits.cpu_limit">>,
           MiB |-> <<"limits.mem_request", "limits.mem_limit">>]

UsageFamilies(trial) ==
    {n \in DOMAIN trial.registry :
        LET f == trial.registry[n]
        IN  /\ f.side = "resource" /\ f.kind = "gauge" /\ f.unit \in DOMAIN Bounds
            /\ n \notin UNION { Range(Bounds[u]) : u \in DOMAIN Bounds }}

\* The peak of each service, or of each of its pods.
Peaks(trial, family) ==
    LET of == {p \in Pivot(Measurement(trial), family, "service") : "peak" \in DOMAIN p.summary.stats}
    IN  [k \in { <<p.key, p.rest>> : p \in of } |->
            (CHOOSE p \in of : <<p.key, p.rest>> = k).summary.stats.peak[1]]

At(f, k) == IF k \in DOMAIN f THEN f[k] ELSE 0

Headroom(of, peak, req, lim) ==
    {Fact("resource", "peak", of, <<peak, req, lim>>)}
    \cup (IF lim > 0 /\ AtMost(NearLimit, <<peak, lim>>)
          THEN {Flag("resource", "near limit", of, <<peak, lim>>)} ELSE {})

\* Least squares; a sequence of points <<x, y>> with two x's at least.
Linfit(points) ==
    LET n   == Len(points)
        sx  == Total(Each(points, LAMBDA p : p[1]))
        sy  == Total(Each(points, LAMBDA p : p[2]))
        sxx == Total(Each(points, LAMBDA p : p[1] * p[1]))
        sxy == Total(Each(points, LAMBDA p : p[1] * p[2]))
    IN  IF Cardinality({ points[i][1] : i \in DOMAIN points }) < 2 THEN Absent
        ELSE [slope |-> <<n * sxy - sx * sy, n * sxx - sx * sx>>, sy |-> sy, sx |-> sx, n |-> n]

\* The level at which the line reaches a bound.
Reaches(fit, bound) ==
    LET k == fit.slope[1]
        d == fit.slope[2]
    IN  <<bound * fit.n * d - (fit.sy * d - k * fit.sx), fit.n * k>>

Slope(of, rs, family, svc, req, lim) ==
    LET has == SelectSeq(rs, LAMBDA t : svc \in DOMAIN Peaks(t, family))
        points == Each(has, LAMBDA t : <<Level(t), Peaks(t, family)[svc]>>)
        fit == Linfit(points)
        top == Last(points)[2]
        idle == /\ req > 0 /\ Below(<<top, req>>, IdleShare)
                /\ Below(<<(IF fit.slope[1] < 0 THEN -1 ELSE 1) * fit.slope[1], fit.slope[2]>>, <<req * 5, 1000>>)
    IN  CASE fit = Absent -> {}
          [] fit # Absent /\ idle -> {Flag("resource", "idle", of, <<top, req, fit.slope>>)}
          [] fit # Absent /\ ~idle ->
                IF ~Positive(fit.slope) THEN {}
                ELSE {Fact("resource", "slope", of,
                           [slope |-> fit.slope, points |-> points,
                            reaches |-> { Reaches(fit, b) : b \in {x \in {req, lim} : top < x} }])}

\* Memory that grew by a tenth within the trial: of every series whose name
\* begins with the family's.
Growth(top, family, unit) ==
    { Flag("resource", "grows", sid, <<top.series[sid].samples[1].value, Last(top.series[sid].samples).value>>)
      : sid \in {s \in DOMAIN top.series :
                    LET samples == top.series[s].samples
                        first == samples[1].value
                        grown == Last(samples).value - first
                    IN  /\ unit = "MiB" /\ IsPrefix(family, s[1]) /\ Len(samples) >= 2
                        /\ first > 0 /\ AtMost(GrowthPct, <<grown, first>>)} }

ResourceLens(trials) ==
    LET groups == ByResources(trials)
        about(label, family) ==
            LET rs == groups[label]
                top == Last(rs)
                unit == top.registry[family].unit
                usage == Peaks(top, family)
                req(s) == At(Peaks(top, Bounds[unit][1]), s)
                lim(s) == At(Peaks(top, Bounds[unit][2]), s)
            IN  UNION { Headroom(<<label, s, family>>, usage[s], req(s), lim(s))
                        \cup Slope(<<label, s, family>>, rs, family, s, req(s), lim(s))
                        : s \in DOMAIN usage }
                \cup Growth(top, family, unit)
    IN  UNION { UNION { about(l, f) : f \in UsageFamilies(Last(groups[l])) } : l \in DOMAIN groups }

-----------------------------------------------------------------------------
(* Validity: what a reader must know before the numbers. *)

\* The breaker needs minN requests before it can trip.
Disarmed(trial) ==
    LET load == trial.arm.load
        rps  == Req(trial).rps
    IN  /\ load.threshold # Absent /\ Positive(rps) /\ Duration(load) > 0
        /\ Below(BreakerWindowShare, <<load.minN * rps[2], rps[1] * Duration(load)>>)

ValidityOf(trial) ==
    LET say(what, evidence) == Flag("validity", what, trial.arm.id, evidence)
        facets == Measurement(trial).byFacet
    IN  { say("phase error", <<trial.phaseErrors[i], Measurement(trial).complete>>)
            : i \in DOMAIN trial.phaseErrors }
        \cup { say("stopped early", <<trial.stop.reason, trial.stop.snapshot # Absent>>) : x \in {y \in {0} : Early(trial)} }
        \cup { say("interrupted", trial.stop.interrupted) : x \in {y \in {0} : trial.stop.interrupted > 0} }
        \cup { say("breaker unarmed", trial.arm.load.minN) : x \in {y \in {0} : Disarmed(trial)} }
        \cup { say("holes", <<n, trial.probeErrors[n]>>) : n \in DOMAIN trial.probeErrors }
        \cup { say("one value", <<k, DOMAIN facets[k]>>)
                 : k \in {f \in DOMAIN facets : Cardinality(DOMAIN facets[f]) = 1} }
        \cup { say("dropped", DropRate(Req(trial)))
                 : x \in {y \in {0} : Below(HighDrop, DropRate(Req(trial)))} }

ValidityLens(trials) == UNION { ValidityOf(trials[i]) : i \in DOMAIN trials }

\* analyze: a lens that raises leaves nothing of any.
Analyze(trials) ==
    LET families == FoldLeft(LAMBDA f, t : t.registry @@ f, <<>>, trials)
        latency == LatencyLens(trials, families)
    IN  IF \E o \in latency : o[3] = "raises" THEN {}
        ELSE CapacityLens(trials, families) \cup ResourceLens(trials) \cup latency
             \cup ValidityLens(trials)
=============================================================================
