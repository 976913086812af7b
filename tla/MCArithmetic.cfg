SPECIFICATION Spec
CONSTANTS
  BigBits = 2
  Digits = 3
  Operands = {0, 1, 7, 31, 32, 63}
  Return = Return
INVARIANTS
  DivisionsRight
  ScaledRight
  LoopEnds
  LibraryRight
  PowersRight
CHECK_DEADLOCK FALSE
