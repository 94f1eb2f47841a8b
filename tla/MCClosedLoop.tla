---------------------------- MODULE MCClosedLoop ----------------------------
(* Up to three user loops and four requests; the breaker needs two judged  *)
(* requests, half of them bad.  The schedule goes up and down, or only up  *)
(* with a judge that may raise.                                            *)
EXTENDS ClosedLoop

MCTrials == {[stepsDown |-> TRUE, judgeRaises |-> FALSE], [stepsDown |-> FALSE, judgeRaises |-> TRUE],
             [stepsDown |-> TRUE, judgeRaises |-> TRUE]}
=============================================================================
