SPECIFICATION Spec
CONSTANTS
  k1 = k1
  k2 = k2
  r1 = r1
  r2 = r2
  m1 = m1
  m2 = m2
  Keys = {k1}
  Rows = {r1, r2}
  KeyOf <- SharedKey
  Metrics = {m1}
  Known = {m1}
  Teardown = TRUE
  AllowFresh = FALSE
  MaxFaults = 2
  MaxAnswers = 2
  NoFile = NoFile
PROPERTIES SolvesOnLiveSubject
