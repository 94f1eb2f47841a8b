----------------------------- MODULE MCOpenLoop -----------------------------
(* Four arrivals, up to two per tick, a cap of two; the breaker needs two  *)
(* judged requests, half of them bad.                                      *)
EXTENDS OpenLoop

CONSTANTS f1, f2, f3, f4
=============================================================================
