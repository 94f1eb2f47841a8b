------------------------------- MODULE Limiter -------------------------------
(***************************************************************************)
(* What a rate gate promises the coroutines that call through it: at the   *)
(* moment a call starts, fewer calls are in flight than the limit in force *)
(* at that moment.  The limit may move at any time within 1 .. Ceiling; a  *)
(* decrease never revokes a slot that was already handed out.              *)
(***************************************************************************)
EXTENDS Naturals, FiniteSets

CONSTANTS Clients,  \* the coroutines that share the gate
          Ceiling   \* the largest limit the gate may ever reach

VARIABLES bound,    \* the limit in force
          holders   \* the clients that hold a slot

limiterVars == <<bound, holders>>

LimiterInit ==
  /\ bound \in 1 .. Ceiling
  /\ holders = {}

Enter(c) ==
  /\ c \notin holders
  /\ Cardinality(holders) < bound
  /\ holders' = holders \cup {c}
  /\ UNCHANGED bound

Leave(c) ==
  /\ c \in holders
  /\ holders' = holders \ {c}
  /\ UNCHANGED bound

Adjust ==
  /\ bound' \in 1 .. Ceiling
  /\ UNCHANGED holders

LimiterNext ==
  \/ \E c \in Clients : Enter(c) \/ Leave(c)
  \/ Adjust

LimiterSpec == LimiterInit /\ [][LimiterNext]_limiterVars
=============================================================================
