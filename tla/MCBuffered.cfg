SPECIFICATION ClientsSpec
CONSTANTS
  Type <- MCType
  Pipelines <- MCBuffered
  MaxIterations = 3
  NumRuns = 2
INVARIANT
  HostHasResult
