SPECIFICATION ClientsSpec
CONSTANTS
  Type <- MCType
  Pipelines <- MCOrdered
  MaxIterations = 3
  NumRuns = 2
INVARIANTS
  PhasesOrdered
  HostHasResult
  LastQueueIsLast
  VerifyAccepts
