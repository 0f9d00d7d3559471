SPECIFICATION Spec
CONSTANTS
  BufferSize = 2
  NumSlots = 3
  MaxObjects = 2
  ObjectSizes = {0, 3}
  Requests <- MCRequests
  MaxUsers = 2
INVARIANTS
  TypeOK
  LockAccounting
  OneHome
  DescriptorGood
PROPERTIES
  LockedStays
  FailureChangesNothing
