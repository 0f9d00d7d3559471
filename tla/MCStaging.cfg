SPECIFICATION SchedulerSpec
CONSTANTS
  BufferSize = 2
  NumSlots = 4
  MaxObjects = 2
  ObjectSizes <- MCNone
  Requests <- MCNone
  MaxUsers = 1
  Programs <- MCTransfers
INVARIANT KernelSeesItsBlock
