----------------------------- MODULE MCRateGate -----------------------------
(* Three coroutines, limits 1 .. 3, three attempts each.                   *)
EXTENDS RateGate

CONSTANTS t1, t2, t3
=============================================================================
