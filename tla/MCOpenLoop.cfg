SPECIFICATION FairSpec
CONSTANTS
  f1 = f1
  f2 = f2
  f3 = f3
  f4 = f4
  Fires = {f1, f2, f3, f4}
  MaxBurst = 2
  MaxInflight = 2
  BreakerOn = TRUE
  BreakerMinN = 2
  AbortNum = 1
  AbortDen = 2
  Graceful = TRUE
INVARIANTS CountersAddUp OverCapByABurst
PROPERTIES ImplementsTrial TrialStops
