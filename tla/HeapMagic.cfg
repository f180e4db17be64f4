SPECIFICATION Spec
CONSTANTS
  Start = 256
  MemorySize = 120
  Byte = 16
  Magic = 8503
  Junk = 10
  UserData = {0}
  Requests = {0, 3, 5, 8, 40}
  FreeOrder = "any"
INVARIANTS
  MagicIsRight
CHECK_DEADLOCK FALSE
