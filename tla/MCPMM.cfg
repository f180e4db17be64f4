SPECIFICATION Spec
CONSTANTS
  BlockSize = 2
  ByteBits = 2
  WordBits = 4
  KernelSize = 4
  AddrBlocks = 16
  CounterRange = 65536
  MemoryMaps <- SmallMaps
  Garbage <- AllGarbage
  Requests = {0, 1, 2, 3}
INVARIANTS
  TypeOK
  NoDoubleAllocation
  BitmapExact
  KernelReserved
  HandedOutMemory
  RefusalMeansHeld
PROPERTY
  ImplementsAllocator
