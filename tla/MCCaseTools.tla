---------------------------- MODULE MCCaseTools ----------------------------
(* Small instances of CaseTools for TLC. *)
EXTENDS CaseTools

\* A test of a restart, and each other wait by itself.
MCPlans == {<<"delete", "replacement", "ready">>, <<"ready">>, <<"unschedulable">>,
            <<"poll">>, <<"retry">>, <<"consistently">>}

\* The halves of a character stand in a value; a line that begins with one, or
\* with a space, is of no field.
MCFields == [d |-> "data", e |-> "event", i |-> "id", c |-> "comment", sp |-> "none",
             cr |-> "none", h1 |-> "none", h2 |-> "none"] @@ ("?" :> "none")
=============================================================================
