------------------------------ MODULE CaseTools ------------------------------
(***************************************************************************)
(* The step of a case with what the harness gives it to wait with and to   *)
(* read an answer with: a step waits for the cluster, or it triggers a     *)
(* request and reads the stream that answers it.                           *)
(***************************************************************************)
EXTENDS CaseWait, EventStream

NoStream  == /\ text = <<>> /\ buf = <<>> /\ parser = Fresh
             /\ events = <<>> /\ reading = "off"
NoWait    == /\ lang = "python" /\ now = 0 /\ pods = {} /\ known = {} /\ target = NoPod
             /\ born = 0 /\ happened = 0 /\ failed = 0
             /\ plan = <<>> /\ op = "none" /\ at = "over" /\ outcome = "none" /\ seen = No
             /\ begun = 0 /\ asked = 0 /\ wake = 0 /\ edges = <<>> /\ killed = {}

Init == (WaitInit /\ NoStream) \/ (StreamInit /\ NoWait)

Next == \/ WaitNext /\ UNCHANGED stream
        \/ StreamNext /\ UNCHANGED waiting

Spec == Init /\ [][Next]_<<waiting, stream>>
=============================================================================
