SPECIFICATION FairSpec
CONSTANTS
  t1 = t1
  t2 = t2
  t3 = t3
  Tasks = {t1, t2, t3}
  MinLimit = 1
  MaxLimit = 3
  InitLimit = 2
  MaxAttempts = 3
  Backoff = TRUE
INVARIANT GateIsSound
PROPERTIES StartsWithinLimit ImplementsLimiter EveryAttemptEnds
