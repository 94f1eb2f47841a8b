SPECIFICATION Spec
CONSTANTS
  PeakTokens = 6
  ShortTokens = 2
  OutputBytes = 4
  Recordings <- MCRecordings
  Contents <- MCContents
  ObjectArguments = {"x", "y"}
  TraceIds <- MCTraceIds
  WorkflowOperations = {"invoke_workflow"}
  BrokenSets <- MCBrokenSets
  Policies <- MCPolicies
  MaxReruns = 1
CONSTRAINT ShortReruns
INVARIANTS DetectorsAgree MeasurementsAreExact MetricsAddUp PublishedRunIsSound
