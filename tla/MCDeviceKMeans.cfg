CONSTANTS
  Unit = 840
  WorkgroupSize = 4
  MaxFeatures = 4
  Jobs <- MCJobs
SPECIFICATION Spec
INVARIANTS
  DeviceTypeOK
  CallsSucceed
  InBounds
  NoDataRace
  UniformBarriers
  LloydStep
  ReducedIsSum
PROPERTY
  ReadsAreDefined
