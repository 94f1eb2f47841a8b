SPECIFICATION Spec
CONSTANTS
  Plans <- MCPlans
  Budget = 8
  Interval = 1
  Window = 6
  Slow = 1
  Late = 1
  Names = {1, 2}
  MaxUid = 3
  MaxEvents = 3
  MaxFaults = 1
  Bytes = {"d", "e", "sp", "cr", "nl", "h1", "h2"}
  Fields <- MCFields
  MaxText = 6
  MaxChunk = 3
CHECK_DEADLOCK FALSE
INVARIANTS WaitsTellTheTruth StreamIsLossless
