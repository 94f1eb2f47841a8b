---------------------------- MODULE MCPerfTrial -----------------------------
(* Trials of an open and a closed load and of an observed service, small   *)
(* enough to take every request, fault and ending in any order.            *)
EXTENDS PerfTrial

MCHighDrop == <<5, 100>>
MCKnee == <<1, 2>>
MCUnit == <<2501, 2500>>  \* 1.0004 s, so that the written times are rounded either way

Ref(name, prefix, labels, stat) == [name |-> name, prefix |-> prefix, labels |-> labels, stat |-> stat]
Assertion(ref, op, low, high, kind) ==
    [ref |-> ref, op |-> op, low |-> low, high |-> high,
     window |-> [kind |-> kind, name |-> "", level |-> None]]
Lte(ref, limit, kind) == Assertion(ref, "lte", Whole(0), limit, kind)

Outcome(case, ok, kind, ms, tier, metrics) ==
    [case |-> case, ok |-> ok, kind |-> kind, ms |-> ms, dropped |-> FALSE,
     facets |-> [tier |-> tier], metrics |-> metrics]
Quick   == Outcome("ask", TRUE, "", 1000, "vip", [ttft_ms |-> 100])
Slow    == Outcome("ask", TRUE, "", 2000, "std", [ttft_ms |-> 400])
Wrong   == Outcome("tell", FALSE, "http_5xx", 1000, "std", <<>>)
Dropped == [Outcome("tell", FALSE, "client_saturated", 0, "std", <<>>) EXCEPT !.dropped = TRUE]

Stage(kind, over, to) == [kind |-> kind, over |-> over, to |-> to, name |-> ""]
LoadOf(model, start, stages, warmup, threshold) ==
    [model |-> model, start |-> start, stages |-> stages, warmup |-> warmup,
     threshold |-> threshold, minN |-> 2]
ArmOf(id, load) == [id |-> id, resources |-> "2c4g", load |-> load]

OpenArm(warmup) ==
    ArmOf("open", LoadOf("open", 1, <<Stage("ramp", 1, 2), Stage("hold", 2, 2), Stage("hold", 2, 4)>>,
                         warmup, <<1, 2>>))
ClosedArm(warmup) ==
    ArmOf("closed@2", LoadOf("closed", 1, <<Stage("hold", 2, 1), Stage("ramp", 1, 2), Stage("hold", 1, 2)>>,
                             warmup, Absent))
LowArm  == ArmOf("closed@1", LoadOf("closed", 1, <<Stage("hold", 3, 1)>>, 0, Absent))

Container(cpu, mem) == [cpu_request |-> cpu, cpu_limit |-> None, mem_request |-> mem, mem_limit |-> 2 * mem]
PodOf(name, mem) ==
    [name |-> name, phase |-> "running", deleting |-> FALSE, ready |-> TRUE, stuck |-> FALSE,
     restarts |-> <<0, 1>>, cpu |-> 200, mem |-> mem, spec |-> <<Container(100, 50), Container(None, 10)>>,
     procs |-> <<[kind |-> "master", kb |-> 1024], [kind |-> "worker", kb |-> 2048], [kind |-> "other", kb |-> 9]>>]
Leaving == [PodOf("b", 90) EXCEPT !.phase = "succeeded", !.deleting = TRUE, !.ready = FALSE, !.cpu = None]
Starting == [PodOf("c", None) EXCEPT !.phase = "pending", !.ready = FALSE, !.stuck = TRUE, !.cpu = None]

OneUp == <<PodOf("a", 80)>>
TwoUp == <<PodOf("a", 110), PodOf("b", 90)>>
Scaled == <<PodOf("a", 80), Leaving>>
Replaced == <<Starting>>
NoPod == <<>>

Chat == [service |-> "chat"]
Probe(name, family, labels, perPod) ==
    [name |-> name, family |-> family, labels |-> labels, addressed |-> TRUE, perPod |-> perPod]
Client  == Probe("client", "client", <<>>, FALSE)
Metrics == Probe("metrics.chat", "metrics", Chat, FALSE)
Pods    == Probe("pods.chat", "pods", Chat, FALSE)
Top(perPod) == Probe("top.chat", "top", Chat, perPod)
Limits(perPod) == Probe("limits.chat", "limits", Chat, perPod)
Rss     == Probe("rss.chat", "rss", Chat, FALSE)
Restart == Probe("restart.chat", "restart", Chat, FALSE)
Remote  == [Probe("top.db", "top", [service |-> "db"], FALSE) EXCEPT !.addressed = FALSE]

Swift      == Assertion(Ref("p99_ms", "", <<>>, ""), "lt", Whole(0), Whole(1500), "hold")
ErrorsOf(labels) == Lte(Ref("error_rate", "", labels, ""), <<1, 2>>, "hold")
VipErrors == ErrorsOf([tier |-> "vip"])
Rate      == Assertion(Ref("request.throughput_rps", "request", <<>>, "value"), "gt", <<1, 5>>, Whole(0), "measurement")
FirstByte == Assertion(Ref("ttft_ms", "", <<>>, "p50"), "between", Whole(1), Whole(300), "measurement")
Served    == Assertion(Ref("metrics.req_total", "metrics", Chat, "increase"), "gte", Whole(2), Whole(0), "measurement")
AllGone   == Lte(Ref("pods.count", "pods", Chat @@ [state |-> "active"], "last"), Whole(1), "cooldown")
Released  == Lte(Ref("top.mem_mi", "top", Chat @@ [pod |-> "a"], "last"), Whole(100), "cooldown")

\* A trial of an earlier arm of the sweep, with samples of its own.
PastTrial(probes, slo, timed, reason) ==
    LET world == [requests |-> timed, served |-> 3, rows |-> <<<<>>>>, pods |-> OneUp]
        at(s, t) == FoldLeft(LAMBDA f, p : Record(f, p, Sample(p, world, t), t), s, probes)
        samples == at(at(<<>>, 0), 2)
        ended == [reason |-> reason, interrupted |-> 0,
                 snapshot |-> IF reason = "deadline" THEN Absent
                              ELSE [at |-> Seconds(2), sent |-> 2, errors |-> 1, rate |-> <<1, 2>>, threshold |-> <<1, 2>>]]
        trial == Aggregate(LowArm, timed, probes, samples, <<>>, 2,
                           IF reason = "deadline" THEN 3 ELSE 2, Absent, <<>>)
    IN  [slo |-> EvaluateSlo(trial, slo), stop |-> ended, phaseErrors |-> <<>>] @@ trial

SentAt(t, o) == [t |-> t, outcome |-> o]

Objectives == <<Swift, ErrorsOf(<<>>), FirstByte>>
Sweep == <<Client, Top(TRUE), Limits(TRUE)>>
Basic == [declared |-> <<>>, past |-> <<>>, outcomes |-> {Quick}, fires |-> 0, pods |-> <<OneUp>>,
          broken |-> {}, faults |-> 0, raises |-> TRUE]

OpenTrials ==
    { [arm |-> OpenArm(w), probes |-> <<Client>>, slo |-> <<Swift, ErrorsOf(<<>>), VipErrors, Rate>>,
       outcomes |-> {Quick, Wrong, Dropped}, fires |-> w, raises |-> w = 2] @@ Basic : w \in {2, 3} }

\* The arm of a sweep that follows a lower level.
Calm == PastTrial(Sweep, Objectives, <<SentAt(0, Quick), SentAt(1, Slow)>>, "deadline")
Cut  == PastTrial(Sweep, Objectives, <<SentAt(0, Quick), SentAt(1, Wrong)>>, "error_rate")

ClosedTrials ==
    LET after(past, warmup, outcomes, raises) ==
            [arm |-> ClosedArm(warmup), probes |-> Sweep, slo |-> Objectives, past |-> past,
             declared |-> [ttft_ms |-> Family("request", "distribution", "ms", {})],
             outcomes |-> outcomes, raises |-> raises] @@ Basic
    IN  {after(<<Calm>>, 0, {Quick, Wrong}, TRUE), after(<<Cut>>, 1, {Quick, Slow}, FALSE),
         after(<<>>, 1, {Quick, Slow, Wrong}, FALSE)}

ObservedTrials ==
    { [arm |-> OpenArm(0), probes |-> <<Metrics, Pods, Top(TRUE)>>,
       slo |-> <<Served, AllGone, Released>>, pods |-> <<TwoUp, OneUp, Replaced>>,
       broken |-> {"metrics.chat", "pods.chat"}, faults |-> 2, raises |-> FALSE] @@ Basic }

ClusterTrials ==
    { [arm |-> OpenArm(0), probes |-> <<Rss, Restart, Top(FALSE), Limits(FALSE), Remote>>, slo |-> <<>>,
       pods |-> <<Scaled, NoPod, Replaced>>, broken |-> {"top.chat"}, faults |-> 1] @@ Basic }

MCScenarios == OpenTrials \cup ClosedTrials \cup ObservedTrials \cup ClusterTrials

ASSUME ValidObjectives ==
    \A s \in MCScenarios : \A a \in Range(s.slo) :
        ValidAssertion(a, RequestDescriptors @@ PerRequestDescriptors
                          @@ FoldLeft(LAMBDA f, p : [n \in { p.family \o "." \o m : m \in DOMAIN Families[p.family] } |->
                                         Describe(p)[CHOOSE m \in DOMAIN Families[p.family] : p.family \o "." \o m = n]] @@ f,
                                      <<>>, s.probes),
                       {"tier"} \X {"vip", "std"}, {"chat", "db"}, Range(s.arm.load.stages), CooldownS)
=============================================================================
