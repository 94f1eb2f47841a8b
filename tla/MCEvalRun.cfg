SPECIFICATION FairSpec
CONSTANTS
  k1 = k1
  k2 = k2
  r1 = r1
  r2 = r2
  m1 = m1
  m2 = m2
  Keys = {k1, k2}
  Rows = {r1, r2}
  KeyOf <- OwnKey
  Metrics = {m1, m2}
  Known = {m1}
  Teardown = TRUE
  AllowFresh = TRUE
  MaxFaults = 2
  MaxAnswers = 2
  NoFile = NoFile
INVARIANT SheetIsSound
PROPERTIES EndKeepsWork ImplementsProgress EventuallyComplete
