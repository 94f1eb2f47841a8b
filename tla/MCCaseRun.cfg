SPECIFICATION CaseSpec
CONSTANTS
  c1 = c1
  c2 = c2
  c3 = c3
  Cases = {c1, c2, c3}
  Plan <- MixedPlan
  NoFace = {c2}
  Broken = {c3}
  Engines = {"python", "go"}
  Unwinds = TRUE
INVARIANTS OutcomeIsHonest PhaseOrder VerdictIsHonest
