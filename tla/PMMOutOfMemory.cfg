SPECIFICATION Spec
CONSTANTS
  BlockSize = 2
  ByteBits = 2
  WordBits = 4
  KernelSize = 4
  AddrBlocks = 16
  CounterRange = 65536
  MemoryMaps <- ReservedAboveRam
  Garbage <- AllGarbage
  Requests = {1}
INVARIANT
  OutOfMemoryIsTrue
