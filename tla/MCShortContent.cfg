SPECIFICATION DataSpec
CONSTANTS
  BufferSize = 2
  NumSlots = 2
  MaxObjects = 1
  ObjectSizes = {5}
  ObjectChoices <- MCObjects
  Requests <- MCMixed
  MaxUsers = 2
  MaxUnits = 5
  MaxVersion = 3
INVARIANT
  ServedCurrent
