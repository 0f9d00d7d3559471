SPECIFICATION IOSpec
CONSTANTS
  Script <- MCScript
  Events <- MCEvents
  TaskWaits <- MCTaskWaits
  EventNeeds <- MCEventNeeds
  Null = Null
INVARIANTS
  IOTypeOK
  FlagNeverBlocks
PROPERTIES
  RunsInOrder
  EverythingJoined
