SPECIFICATION Spec
CONSTANTS
  SectorSize = 4
  Sectors = 2
  Width = 32
  Buffers = 2
  Offsets = {0, 3, 8}
  Sizes = {0, 1, 5}
INVARIANTS
  TypeOK
  NothingOwed
PROPERTIES
  ImplementsDisk
  CallsEnd
CHECK_DEADLOCK FALSE
