CONSTANTS
  Unit = 840
  WorkgroupSize = 4
  MaxFeatures = 4
  Jobs <- FurySize
SPECIFICATION Spec
INVARIANT ReducedIsSum
