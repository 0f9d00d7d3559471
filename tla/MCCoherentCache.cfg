SPECIFICATION DataSpec
CONSTANTS
  BufferSize = 2
  NumSlots = 2
  MaxObjects = 1
  ObjectSizes = {5}
  ObjectChoices <- MCObjects
  Requests <- MCAligned
  MaxUsers = 2
  MaxUnits = 5
  MaxVersion = 3
INVARIANTS
  ServedCurrent
  UncachedIsCurrent
PROPERTY ReadDelivers
