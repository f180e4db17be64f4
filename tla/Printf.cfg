SPECIFICATION Spec
CONSTANTS
  Width = 1024
  Values <- SomeValues
  Ordinary = {"o"}
  MaxFormat = 5
INVARIANT
  NumberPrinted
PROPERTY
  FormatPrinted
CHECK_DEADLOCK FALSE
