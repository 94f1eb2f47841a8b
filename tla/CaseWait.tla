------------------------------ MODULE CaseWait ------------------------------
(***************************************************************************)
(* What the step of a case does while it waits: poll, retry and            *)
(* consistently of the e2e harness, and the toolbox's waits for a Pod and  *)
(* its deletion, in Python and in Go, while the cluster changes the Pods.  *)
(* The clock counts in units; a call takes at most Slow of them, and a     *)
(* sleeper wakes at most Late of them after its time.                      *)
(***************************************************************************)
EXTENDS Integers, Sequences, FiniteSets

CONSTANTS
  Plans,      \* the sequences of helpers a step may call
  Budget,     \* the deadline of the phase
  Interval,   \* the pause between two samples
  Window,     \* how long consistently observes
  Slow, Late, \* bounds of the environment: of a call, of a wake-up
  Names,      \* the names the controllers give to Pods
  MaxUid,     \* bound on the Pods that ever exist
  MaxEvents,  \* bound on what happens to them
  MaxFaults   \* bound on the calls the API server fails

ASSUME WaitAssumption ==
  /\ {Budget, Interval, Window} \subseteq Nat \ {0} /\ {Slow, Late} \subseteq Nat
  /\ {MaxUid, MaxEvents, MaxFaults} \subseteq Nat /\ Names \subseteq Nat

VARIABLES
  lang,     \* the language of the step
  now,      \* the clock
  pods,     \* the Pods of the namespace that match the selector
  born, happened, failed,  \* counters for the bounds
  plan,     \* the helpers still to call
  op,       \* the one called last
  at,       \* where in it the step is
  begun,    \* when it was called
  asked,    \* when its last sample was asked for
  wake,     \* when its sleep ends
  seen,     \* what the last sample said
  target,   \* the Pod that is deleted or waited for
  known,    \* the UIDs of the snapshot taken at first
  outcome,  \* how the helper ended
  edges,    \* since when its condition has held or not, during the helper
  killed    \* the UIDs of the Pods the step deleted

cluster == <<pods, born, happened>>
bounds  == <<lang, now, failed>>
history == <<edges, killed>>
helper  == <<plan, op, at, begun, asked, wake, seen, target, known, outcome>>
waiting == <<bounds, cluster, helper, history>>

Temporal == {"poll", "retry", "consistently"}
Helpers  == {"delete", "replacement", "ready", "unschedulable"} \cup Temporal

\* A step that waits calls some of the helpers there are.
ASSUME PlansAssumption == Plans \subseteq Seq(Helpers) \ {<<>>}

NoPod    == [name |-> 0, uid |-> 0, ready |-> FALSE, deleting |-> FALSE, unschedulable |-> FALSE]
Named(n) == {p \in pods : p.name = n}

\* The observation of a Pod: one that is being deleted is not ready.
PodFrom(p) == [p EXCEPT !.ready = @ /\ ~p.deleting]

-----------------------------------------------------------------------------
(* What a sample of the cluster says to the helper that took it. *)

Says(answer, p) == [answer |-> answer, pod |-> p]
No  == Says("no", NoPod)

Matches(p) == IF op = "unschedulable" THEN PodFrom(p).unschedulable
              ELSE PodFrom(p).ready /\ ~PodFrom(p).deleting

\* The first Pod by name that the snapshot does not know.
SampleReplacement ==
  LET new == {p \in pods : p.uid \notin known}
  IN  IF new = {} THEN No
      ELSE Says("yes", CHOOSE p \in new : \A q \in new : p.name <= q.name)

\* mutant: the Pod of that name will do
SampleNamed ==
  IF \E p \in Named(target.name) : Matches(p)
  THEN Says("yes", CHOOSE p \in Named(target.name) : Matches(p)) ELSE No

\* The Pod waited for, and no other of the same name.
SamplePod ==
  IF Named(target.name) = {} THEN No
  ELSE LET p == CHOOSE q \in Named(target.name) : TRUE
       IN  IF p.uid # target.uid THEN Says("identity", p)
           ELSE IF Matches(p) THEN Says("yes", PodFrom(p)) ELSE No

\* The condition the case gives to poll, retry and consistently: the service
\* behind the name is ready, whatever Pod it is.
SampleService ==
  IF \E p \in Named(target.name) : PodFrom(p).ready THEN Says("yes", target) ELSE No

Sample == CASE op = "replacement" -> SampleReplacement
            [] op \in {"ready", "unschedulable"} -> SamplePod
            [] op \in Temporal -> SampleService

\* The condition itself, of the helper h in the cluster ps.
Holds(h, ps) ==
  CASE h = "replacement"   -> \E p \in ps : p.uid \notin known
    [] h = "ready"         -> \E p \in ps : p.uid = target.uid /\ p.ready /\ ~p.deleting
    [] h = "unschedulable" -> \E p \in ps : p.uid = target.uid /\ p.unschedulable
    [] h \in Temporal      -> \E p \in ps : p.name = target.name /\ p.ready /\ ~p.deleting
    [] OTHER               -> FALSE

Edge(holds) == [at |-> now, holds |-> holds]

\* The cluster becomes ps, which the history of the helper takes down.
Becomes(ps) ==
  /\ pods' = ps
  /\ edges' = IF at = "begin" \/ Holds(op, ps) = Holds(op, pods) THEN edges
              ELSE Append(edges, Edge(Holds(op, ps)))

-----------------------------------------------------------------------------
WaitInit ==
  /\ lang \in {"python", "go"} /\ plan \in Plans
  /\ now = 0 /\ happened = 0 /\ failed = 0
  /\ \E ready, unschedulable \in BOOLEAN :
       /\ ~(ready /\ unschedulable)
       /\ target = [NoPod EXCEPT !.name = 1, !.uid = 1, !.ready = ready,
                                 !.unschedulable = unschedulable]
  /\ pods = {target} /\ known = {1} /\ born = 1
  /\ op = "none" /\ at = "begin" /\ outcome = "none" /\ seen = No
  /\ begun = 0 /\ asked = 0 /\ wake = 0
  /\ edges = <<>> /\ killed = {}

\* The helper ends: what it found is what the next one of the plan is about.
Ends(how) ==
  /\ outcome' = how
  /\ at' = IF how = "ok" /\ plan # <<>> THEN "begin" ELSE "over"
  /\ target' = IF how = "ok" /\ op = "replacement" THEN seen.pod ELSE target
  /\ UNCHANGED <<plan, op, begun, asked, wake, seen, known>>

\* A helper is called; consistently refuses a window that the phase is too short for.
Begin ==
  /\ at = "begin"
  /\ op' = Head(plan) /\ plan' = Tail(plan) /\ begun' = now
  /\ edges' = <<Edge(Holds(Head(plan), pods))>>
  /\ IF Head(plan) = "consistently" /\ Window >= Budget - now
     THEN at' = "over" /\ outcome' = "refused"
     ELSE at' = "check" /\ outcome' = "none"
  /\ UNCHANGED <<bounds, cluster, asked, wake, seen, target, known, killed>>

\* A sample is asked for.  Go's client and the toolbox do not start a call after
\* the deadline; a check of the Python harness is not looked at before it ends.
Heeds == lang = "go" \/ op \notin Temporal \cup {"delete"}
Check ==
  /\ at = "check"
  /\ IF Heeds /\ now >= Budget THEN Ends("timeout")
     ELSE /\ at' = "asking" /\ asked' = now
          /\ UNCHANGED <<plan, op, begun, wake, seen, target, known, outcome>>
  /\ UNCHANGED <<bounds, cluster, history>>

\* The API server answers from the cluster as it is now.
Answered == at' = "answered" /\ UNCHANGED <<plan, op, begun, asked, wake, target, known, outcome>>
Serve ==
  /\ at = "asking" /\ op # "delete"
  /\ seen' = Sample /\ Answered
  /\ UNCHANGED <<bounds, cluster, history>>

\* The server, or the way to it, fails: only retry may be told to try again, and
\* a failure that the case calls lasting ends it as well.
Fault ==
  /\ at = "asking" /\ failed < MaxFaults
  /\ failed' = failed + 1
  /\ seen' \in {Says("error", NoPod)} \cup IF op = "retry" THEN {No} ELSE {}
  /\ Answered
  /\ UNCHANGED <<lang, now, cluster, history>>

\* The Pod is deleted, at once or with its grace period, if it is still the one
\* meant: the request carries its UID.
ServeDelete ==
  /\ at = "asking" /\ op = "delete"
  /\ \E forced \in BOOLEAN : LET mine == {p \in Named(target.name) : p.uid = target.uid} IN
       /\ Becomes((pods \ mine)
                  \cup IF forced THEN {} ELSE {[p EXCEPT !.deleting = TRUE] : p \in mine})
       /\ killed' = killed \cup {p.uid : p \in mine}
       /\ seen' = IF mine = {} THEN Says("error", NoPod) ELSE Says("yes", NoPod)
  /\ Answered
  /\ UNCHANGED <<bounds, born, happened>>

Least(a, b) == IF a <= b THEN a ELSE b

\* The step sleeps; Python not beyond the end of what it waits for.
Sleeps(end) ==
  /\ wake' = IF lang = "go" THEN now + Interval ELSE now + Least(Interval, end - now)
  /\ at' = "asleep" /\ seen' = No
  /\ UNCHANGED <<plan, op, begun, asked, target, known, outcome>>

\* The answer reaches a wait.
Told ==
  /\ at = "answered" /\ op # "consistently"
  /\ IF seen.answer \in {"error", "identity"} THEN Ends(seen.answer)
     ELSE IF seen.answer = "yes" THEN Ends("ok")
     ELSE IF lang = "python" /\ now >= Budget THEN Ends("timeout")
     ELSE Sleeps(Budget)
  /\ UNCHANGED <<bounds, cluster, history>>

\* The answer reaches consistently: one sample to the contrary ends it.
ToldAgain ==
  /\ at = "answered" /\ op = "consistently"
  /\ IF seen.answer # "yes" THEN Ends(IF seen.answer = "no" THEN "false" ELSE seen.answer)
     ELSE IF lang = "python" /\ now >= begun + Window THEN Ends("ok")
     ELSE Sleeps(begun + Window)
  /\ UNCHANGED <<bounds, cluster, history>>

\* The deadline cuts a call that heeds it.
Cut ==
  /\ at \in {"asking", "answered"} /\ Heeds /\ now >= Budget
  /\ Ends("timeout")
  /\ UNCHANGED <<bounds, cluster, history>>

Resumes == /\ at' = "check" /\ wake' = 0
           /\ UNCHANGED <<plan, op, begun, asked, seen, target, known, outcome>>

\* The end of a sleep in Python: poll and retry look at the deadline first.
WakePython ==
  /\ at = "asleep" /\ lang = "python" /\ now >= wake
  /\ IF op \in {"poll", "retry"} /\ now >= Budget THEN Ends("timeout") ELSE Resumes
  /\ UNCHANGED <<bounds, cluster, history>>

\* Go selects among what is ready: the deadline, the window, the interval.
WakeGo ==
  /\ at = "asleep" /\ lang = "go"
  /\ \/ now >= Budget /\ Ends("timeout")
     \/ op = "consistently" /\ now >= begun + Window /\ Ends("ok")
     \/ now >= wake /\ Resumes
  /\ UNCHANGED <<bounds, cluster, history>>

-----------------------------------------------------------------------------
(* The cluster. *)

Event(ps) ==
  /\ at # "over" /\ happened < MaxEvents
  /\ happened' = happened + 1 /\ Becomes(ps)
  /\ UNCHANGED <<bounds, helper, killed>>

Create(n) ==
  /\ born < MaxUid /\ Named(n) = {} /\ born' = born + 1
  /\ \E u \in BOOLEAN :
       Event(pods \cup {[NoPod EXCEPT !.name = n, !.uid = born + 1, !.unschedulable = u]})
Turn(p) ==
  /\ ~p.unschedulable /\ UNCHANGED born
  /\ Event((pods \ {p}) \cup {[p EXCEPT !.ready = ~@]})
Schedule(p) ==
  /\ p.unschedulable /\ UNCHANGED born
  /\ Event((pods \ {p}) \cup {[p EXCEPT !.unschedulable = FALSE]})
Evict(p) ==
  /\ ~p.deleting /\ UNCHANGED born
  /\ Event((pods \ {p}) \cup {[p EXCEPT !.deleting = TRUE]})
Gone(p) ==
  /\ p.deleting /\ UNCHANGED born
  /\ Event(pods \ {p})
Cluster == \/ \E n \in Names : Create(n)
           \/ \E p \in pods : Turn(p) \/ Schedule(p) \/ Evict(p) \/ Gone(p)

\* When a sleeper is due: Go also wakes for the deadline and the window.
Due == IF lang = "python" THEN wake
       ELSE Least(Least(wake, Budget), IF op = "consistently" THEN begun + Window ELSE wake)

\* Time passes while the step sleeps or waits for an answer, not beyond Horizon.
Horizon == Budget + Slow + Late + Interval
Tick ==
  /\ now < Horizon
  /\ \/ at \in {"asking", "answered"} /\ now < asked + Slow /\ (Heeds => now < Budget)
     \/ at = "asleep" /\ now < Due + Late
  /\ now' = now + 1
  /\ UNCHANGED <<lang, failed, cluster, helper, history>>

WaitNext ==
  \/ Begin \/ Check \/ Serve \/ Fault \/ ServeDelete \/ Told \/ ToldAgain \/ Cut
  \/ WakePython \/ WakeGo \/ Cluster \/ Tick

-----------------------------------------------------------------------------
\* How long the condition held, or did not, each time, while the helper was on.
Stretches(holds) ==
  {[from |-> edges[i].at, to |-> IF i < Len(edges) THEN edges[i + 1].at ELSE now] :
      i \in {j \in DOMAIN edges : edges[j].holds = holds}}

\* The longest time between two samples.
Blind == Interval + Late + 2 * Slow

\* What a wait was waiting for held at some moment since it asked for its last
\* sample, and of the very Pod it was told to wait for.
OkWasTrue == outcome = "ok" /\ op # "delete" => \E s \in Stretches(TRUE) : s.to >= asked

\* One that times out did so at the deadline, and overlooked nothing that held
\* for longer than the time between two answers.
TimeoutMissedNothing ==
  outcome = "timeout" =>
    /\ now >= Budget
    /\ op # "consistently" =>
         \A s \in Stretches(TRUE) : s.to - s.from <= Blind * (1 + failed)

\* consistently observed its whole window, and overlooked no lapse longer than that.
WindowWasWatched ==
  outcome = "ok" /\ op = "consistently" =>
    /\ now >= begun + Window
    /\ \A s \in Stretches(FALSE) : s.to - s.from <= Blind

\* The step is over soon after its deadline.
OverInTime == at = "over" => now <= Budget + Slow + Late

\* A wait tells the truth, however the Pods are replaced under it, in time; and
\* the step deletes no Pod but the one it meant.
WaitsTellTheTruth ==
  OkWasTrue /\ TimeoutMissedNothing /\ WindowWasWatched /\ OverInTime /\ killed \subseteq known
=============================================================================
