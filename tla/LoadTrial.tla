----------------------------- MODULE LoadTrial ------------------------------
(***************************************************************************)
(* What a load driver promises the engine that runs a trial: requests are  *)
(* dispatched only until it decides to stop, each one either completes or  *)
(* is cut, and when it reports the stop none is in flight any more.        *)
(***************************************************************************)
EXTENDS Naturals

VARIABLES stage,   \* "load", "stop" or "rest"
          flying,  \* requests in flight
          done,    \* requests that completed
          cut      \* requests cancelled in flight

trialVars == <<stage, flying, done, cut>>

TrialInit == stage = "load" /\ flying = 0 /\ done = 0 /\ cut = 0

Dispatch ==
  /\ stage = "load" /\ flying' = flying + 1
  /\ UNCHANGED <<stage, done, cut>>

Complete ==
  /\ flying > 0 /\ flying' = flying - 1
  /\ done' = done + 1
  /\ UNCHANGED <<stage, cut>>

(* A user that does not think sends the next request at once.              *)
CompleteAndDispatch ==
  /\ stage = "load" /\ flying > 0 /\ done' = done + 1
  /\ UNCHANGED <<stage, flying, cut>>

Cancel ==
  /\ flying > 0 /\ flying' = flying - 1
  /\ cut' = cut + 1
  /\ UNCHANGED <<stage, done>>

Stop == stage = "load" /\ stage' = "stop" /\ UNCHANGED <<flying, done, cut>>

Rest ==
  /\ stage = "stop" /\ stage' = "rest" /\ flying = 0
  /\ UNCHANGED <<flying, done, cut>>

TrialNext == Dispatch \/ Complete \/ CompleteAndDispatch \/ Cancel \/ Stop \/ Rest

TrialSpec == TrialInit /\ [][TrialNext]_trialVars
=============================================================================
