SPECIFICATION Spec
CONSTANTS
  width = 4
  height = 2
  Byte = 3
  Levels = {"log", "warning", "error", "other"}
  KernelPanic <- Short
  StackSmashing <- Short
  Messages <- ShortMessages
  Grounds = {"black", "blue"}
  Control <- Tab
  MaxCalls = 3
INVARIANT
  TypeOK
PROPERTY
  ImplementsPaper
CHECK_DEADLOCK FALSE
