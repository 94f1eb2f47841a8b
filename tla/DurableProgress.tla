--------------------------- MODULE DurableProgress ---------------------------
(***************************************************************************)
(* What the checkpoint file promises whoever reruns an experiment: the     *)
(* work it records is closed under dependencies (a score needs its answer, *)
(* an answer needs its provisioned resource) and is never lost again,      *)
(* except to a run that was asked to discard it.                           *)
(***************************************************************************)
EXTENDS Naturals

CONSTANTS Cells,     \* the cells of the worksheet
          Needs(_)   \* the cells a cell was computed from

VARIABLES done,      \* the cells the file records as OK
          discard    \* TRUE iff the current run was started afresh

progressVars == <<done, discard>>

Closed(S) == \A c \in S : Needs(c) \subseteq S

ProgressInit == done = {} /\ discard = FALSE

Record ==
  /\ done \subseteq done' /\ done' \subseteq Cells
  /\ Closed(done')
  /\ discard' \in {discard, FALSE}

Replace ==
  /\ discard
  /\ done' \subseteq Cells
  /\ Closed(done')
  /\ discard' = FALSE

StartRun == discard' \in BOOLEAN /\ UNCHANGED done

ProgressNext == Record \/ Replace \/ StartRun

ProgressSpec == ProgressInit /\ [][ProgressNext]_progressVars
=============================================================================
