SPECIFICATION SchedulerSpec
CONSTANTS
  BufferSize = 2
  NumSlots = 4
  MaxObjects = 2
  ObjectSizes <- MCNone
  Requests <- MCNone
  MaxUsers = 1
  Programs <- MCPrograms
INVARIANTS
  SchedulerTypeOK
  NoRace
  QueueOwnsSlots
  SuccessLeavesNoLock
  NoEmptyWait
  HostCurrentAtEnd
PROPERTIES
  AppliesEachOnce
  ClientFinishes
