------------------------------ MODULE MCCaseRun ------------------------------
(* A case with all four phases; one without prepare and cleanup, which     *)
(* Python skips for want of an e2e face; one that only executes, and that  *)
(* may be broken.                                                          *)
EXTENDS CaseRun

CONSTANTS c1, c2, c3

MixedPlan == [c \in Cases |-> CASE c = c1 -> Phases
                                [] c = c2 -> {"execute", "judge"}
                                [] OTHER -> {"execute"}]
=============================================================================
