------------------------------ MODULE MCEvalRun ------------------------------
(* Two rows on one key, or on a key each; one or two metrics.              *)
EXTENDS EvalRun, TLC

CONSTANTS k1, k2, r1, r2, m1, m2

SharedKey == [r \in Rows |-> k1]
OwnKey    == r1 :> k1 @@ r2 :> k2
=============================================================================
