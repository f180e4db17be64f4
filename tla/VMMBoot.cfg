SPECIFICATION VMMSpec
CONSTANTS
  BlockSize = 1
  ByteBits = 2
  WordBits = 4
  KernelSize = 6
  AddrBlocks = 32
  CounterRange = 65536
  MemoryMaps <- RamMaps
  Garbage <- AllGarbage
  Requests = {1}
  PerTable = 12
  KernelIndex = 9
  HeapPages = 3
  PageGarbage = {TRUE, FALSE}
INVARIANTS
  VMMTypeOK
  HeapBacked
  KernelStaysMapped
  FaultMeansTight
  NothingElseMapped
PROPERTY
  InitEnds
CHECK_DEADLOCK FALSE
