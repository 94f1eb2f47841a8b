SPECIFICATION FairSpec
CONSTANTS
  MaxUsers = 3
  MaxSent = 4
  Trials <- MCTrials
  Waits = {TRUE, FALSE}
  BreakerOn = TRUE
  BreakerMinN = 2
  AbortNum = 1
  AbortDen = 2
  Graceful = TRUE
INVARIANT UsersAddUp
PROPERTIES ImplementsTrial TrialStops
