----------------------------- MODULE PerfObserve -----------------------------
(***************************************************************************)
(* What the probes of perf_harness read at one tick (observe/base.py,      *)
(* observe/k8s.py) and how the observer keeps it.                          *)
(*                                                                         *)
(* The environment is a record: requests (what the load generator sent,    *)
(* by instant), served (the server's counter), rows (the labels of each    *)
(* row of its /metrics) and pods.  A reading is [ok, values], values a     *)
(* function on keys <<metric, labels>>; a probe that raises is not ok.     *)
(* The text kubectl prints is abstracted to the record it stands for.      *)
(***************************************************************************)
EXTENDS PerfMetrics

Second == 1000           \* the durations of requests are in parts of a unit of time

Gauge(unit, labels) == [kind |-> "gauge", unit |-> unit, labels |-> labels]
Counter(unit, labels) == [kind |-> "counter", unit |-> unit, labels |-> labels]

\* The metrics of each family; PrometheusProbe has one per query, and its
\* subclasses name the family.
Families ==
    [client  |-> [inflight |-> Gauge("count", {}), sent |-> Counter("count", {})],
     metrics |-> [req_total |-> Counter("count", {})],
     top     |-> [cpu_m |-> Gauge("millicores", {"pod"}), mem_mi |-> Gauge("MiB", {"pod"})],
     rss     |-> [rss_total_mi |-> Gauge("MiB", {}), n_workers |-> Gauge("count", {})],
     restart |-> [restarts |-> Counter("count", {})],
     pods    |-> [count |-> Gauge("count", {"state"})],
     limits  |-> [cpu_request |-> Gauge("millicores", {"pod"}),
                  cpu_limit   |-> Gauge("millicores", {"pod"}),
                  mem_request |-> Gauge("MiB", {"pod"}),
                  mem_limit   |-> Gauge("MiB", {"pod"})]]

\* Probe.describe: the families of one probe, with the labels of its series.
Describe(probe) ==
    [m \in DOMAIN Families[probe.family] |->
        LET spec == Families[probe.family][m]
        IN  Family("resource", spec.kind, spec.unit, spec.labels \cup DOMAIN probe.labels)]

Values(f) == [ok |-> TRUE, values |-> f]
Nothing == Values(<<>>)
Raises == [ok |-> FALSE, values |-> <<>>]
Bare(metric) == <<metric, <<>>>>
BareValues(f) == Values([k \in { Bare(m) : m \in DOMAIN f } |-> f[k[1]]])
Known(f) == [k \in {x \in DOMAIN f : f[x] # None} |-> f[k]]
SumKnown(seq) == Total(SelectSeq(seq, LAMBDA n : n # None))

-----------------------------------------------------------------------------
(* ClientStats, counted from the requests sent so far. *)

ClientSample(env, now) ==
    LET sent == SelectSeq(env.requests, LAMBDA r : ~r.outcome.dropped /\ r.t <= now)
    IN  BareValues([inflight |-> Count(sent, LAMBDA r : r.t * Second + r.outcome.ms > now * Second),
                    sent |-> Len(sent)])

\* PrometheusProbe._record_vector: the labels are the declared ones, and no
\* series comes twice.
RecordVector(query, expected, rows) ==
    IF \/ \E i \in DOMAIN rows : DOMAIN rows[i].labels # expected
       \/ \E i, j \in DOMAIN rows : i # j /\ rows[i].labels = rows[j].labels
    THEN Raises
    ELSE Values([k \in { <<query, rows[i].labels>> : i \in DOMAIN rows } |->
                    rows[CHOOSE i \in DOMAIN rows : rows[i].labels = k[2]].value])

PrometheusSample(env) ==
    RecordVector("req_total", {}, [i \in DOMAIN env.rows |->
                                     [labels |-> env.rows[i], value |-> env.served]])

-----------------------------------------------------------------------------
(* Pods: [name, phase, deleting, ready, stuck, restarts, cpu, mem, spec,   *)
(* procs], stuck for unschedulable; spec has the resources of a container  *)
(* each, procs what ps shows.                                              *)

PodCounts(pods) ==
    [state \in {"total", "active", "ready", "running", "pending", "unschedulable",
                "terminating"} |->
        Count(pods, LAMBDA p :
            CASE state = "total" -> TRUE
              [] state = "active" -> p.phase \notin {"succeeded", "failed"}
              [] state \in {"running", "pending"} -> p.phase = state
              [] state = "terminating" -> p.deleting
              [] state = "ready" -> ~p.deleting /\ p.ready
              [] state = "unschedulable" -> p.stuck)]

\* Rows that carry neither number are no rows.
TopRows(pods) == SelectSeq(pods, LAMBDA p : p.cpu # None \/ p.mem # None)

TopSample(pods, perPod) ==
    LET rows == TopRows(pods)
        labelled(p) == [k \in { <<m, [pod |-> p.name]>> : m \in {"cpu_m", "mem_mi"} } |->
                            IF k[1] = "cpu_m" THEN p.cpu ELSE p.mem]
    IN  IF perPod THEN Values(FoldLeft(LAMBDA f, p : f @@ Known(labelled(p)), <<>>, rows))
        ELSE IF rows = <<>> THEN Nothing
        ELSE BareValues([cpu_m |-> SumKnown(Each(rows, LAMBDA p : p.cpu)),
                         mem_mi |-> SumKnown(Each(rows, LAMBDA p : p.mem))])

Resources == {"cpu_request", "cpu_limit", "mem_request", "mem_limit"}

\* The resources of a pod's containers, those that any of them declares.
PodResources(p) ==
    [m \in {r \in Resources : \E i \in DOMAIN p.spec : p.spec[i][r] # None} |->
        SumKnown(Each(p.spec, LAMBDA c : c[m]))]

LimitsSample(pods, perPod) ==
    LET declared(m) == SelectSeq(pods, LAMBDA p : m \in DOMAIN PodResources(p))
    IN  IF perPod
        THEN Values(FoldLeft(LAMBDA f, p :
                f @@ [k \in { <<m, [pod |-> p.name]>> : m \in DOMAIN PodResources(p) } |->
                        PodResources(p)[k[1]]], <<>>, pods))
        ELSE BareValues([m \in {r \in Resources : declared(r) # <<>>} |->
                            Total(Each(declared(m), LAMBDA p : PodResources(p)[m]))])

\* The first pod's uvicorn processes; its name is read by a call of its own.
PodName(pods) == IF pods = <<>> THEN Absent ELSE <<pods[1].name>>

PsRss(procs) ==
    LET ours == SelectSeq(procs, LAMBDA p : p.kind \in {"master", "worker"})
    IN  [rss_total_mi |-> Total(Each(ours, LAMBDA p : p.kb)) \div 1024,
         n_workers |-> Count(ours, LAMBDA p : p.kind = "worker")]

RssSample(pods) == IF PodName(pods) = Absent THEN Raises ELSE BareValues(PsRss(pods[1].procs))

RestartSample(pods) == BareValues([restarts |-> Total(Each(pods, LAMBDA p : Total(p.restarts)))])

PodCountSample(pods) ==
    LET counts == PodCounts(pods)
    IN  Values([k \in { <<"count", [state |-> s]>> : s \in DOMAIN counts } |-> counts[k[2].state]])

\* Probe.sample.  A Kubernetes probe of a service it cannot address reads
\* nothing, and is healthy.
Sample(probe, env, now) ==
    CASE probe.family = "client" -> ClientSample(env, now)
      [] probe.family = "metrics" -> PrometheusSample(env)
      [] probe.family \notin {"client", "metrics"} /\ ~probe.addressed -> Nothing
      [] probe.family = "top" /\ probe.addressed -> TopSample(env.pods, probe.perPod)
      [] probe.family = "limits" /\ probe.addressed -> LimitsSample(env.pods, probe.perPod)
      [] probe.family = "rss" /\ probe.addressed -> RssSample(env.pods)
      [] probe.family = "restart" /\ probe.addressed -> RestartSample(env.pods)
      [] probe.family = "pods" /\ probe.addressed -> PodCountSample(env.pods)

-----------------------------------------------------------------------------
(* One tick of observe_loop: a sample of every value read, and the probe's *)
(* health beside them, stamped with the time the tick began.               *)

SamplesOf(store, key) == IF key \in DOMAIN store THEN store[key] ELSE <<>>
Push(store, key, sample) == (key :> Append(SamplesOf(store, key), sample)) @@ store

Record(store, probe, reading, now) ==
    LET up == Push(store, <<probe.name, Bare("up")>>,
                   [t |-> now, value |-> IF reading.ok THEN 1 ELSE 0])
        read == { <<probe.name, v>> : v \in DOMAIN reading.values }
    IN  [k \in DOMAIN up \cup read |->
            IF k \in read
            THEN Append(SamplesOf(store, k), [t |-> now, value |-> reading.values[k[2]]])
            ELSE up[k]]

\* ProbeErrors: the ticks each failing probe missed, of all there were.
CountFailures(failures, readings) ==
    [n \in DOMAIN failures \cup {n \in DOMAIN readings : ~readings[n].ok} |->
        (IF n \in DOMAIN failures THEN failures[n] ELSE 0)
        + (IF readings[n].ok THEN 0 ELSE 1)]
=============================================================================
