SPECIFICATION Spec
CONSTANTS
  PerPic = 3
  Cascade = 1
  Exceptions = 32
  BiosOffset = 8
  MaxNmis = 1
INVARIANTS
  TypeOK
  InServiceIsHandled
  StubsDoNotNest
PROPERTIES
  EndsOnlyItsOwn
  EveryoneServed
CHECK_DEADLOCK FALSE
