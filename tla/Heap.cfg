SPECIFICATION Spec
CONSTANTS
  Start = 256
  MemorySize = 120
  Byte = 16
  Magic = 8503
  Junk = 10
  UserData = {0}
  Requests = {0, 5, 39, 40, 65520}
  FreeOrder = "lifo"
INVARIANTS
  TypeOK
  TilesHeap
  HeldBlocksAreChunks
  HonestUntilFreed
  GuardDecides
  FaultOnlyAtBrim
PROPERTIES
  ImplementsAllocator
  SearchEnds
CHECK_DEADLOCK FALSE
