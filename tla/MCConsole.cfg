SPECIFICATION Spec
CONSTANTS
  STACK = 6
  Cells <- MCCells
  Vector <- MCVector
  BUTTONS = 2
  SERIAL_BITS = 3
  Programs <- MCPrograms
INVARIANTS TypeOK StackHolds WideNumbers PadReport
PROPERTIES ComesBack SerialRefines
CHECK_DEADLOCK TRUE
