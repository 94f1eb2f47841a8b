SPECIFICATION FairSpec
CONSTANTS
  Arms = 3
  Profile <- ThreeArms
  Deploys = TRUE
  Teardown = TRUE
  CooldownOn = TRUE
  Slo = {"measurement", "cooldown"}
  Closed = TRUE
  StepsDown <- SecondFalls
  MaxFires = 2
INVARIANTS CleanBaseline VerdictIsEarned
PROPERTIES AlwaysCleansUp RunEnds
