CONSTANTS
  FewSamples = 2
  HighDrop <- MCHighDrop
  MinNForTail = 3
  Scenarios <- MCScenarios
  Interval = 2
  GracefulStop = 1
  CooldownS = 2
  KneeErrRate <- MCKnee
  Unit <- MCUnit
SPECIFICATION Spec
INVARIANTS WindowsPartition SeriesTellTheTruth ClaimsAreEarned TwinsAgree RunSurvivesItsFiles ReadingIsHonest
