SPECIFICATION Spec
CONSTANTS
  Heap = 70
  Spares = {0, 5, 30, 56, 57, 70}
  SectorSize = 4
  Sectors = 1
  Width = 32
INVARIANTS
  MountedAsAsked
  MbrIsFirstSector
PROPERTY
  BootEnds
CHECK_DEADLOCK FALSE
