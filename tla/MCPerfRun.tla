----------------------------- MODULE MCPerfRun ------------------------------
(* Three arms on two resource profiles, two requests in each trial; only   *)
(* the schedule of the second arm falls.                                   *)
EXTENDS PerfRun

ThreeArms   == <<1, 2, 2>>
SecondFalls == <<FALSE, TRUE, FALSE>>
=============================================================================
