SPECIFICATION CompilerSpec
CONSTANTS
  Half = 10
  Low = 5
  Jump = 5
  GotBytes = 4
  Start = 4000
  End = 5000
  Exported <- MCExported
  Numbers <- MCNumbers
  Distances <- MCDistances
  Immediates <- MCImmediates
  Regs = {0, 5, 12, 31}
  Words = 6
  Depth = 3
  Bodies = {4084, 4092}
  USABLE_REGISTERS = 4
  Foreign = 100
  Steps = 6
INVARIANTS
  OptimizedRight
  ConstantLoaded
  AddressesReached
  EncodingsRight
  BranchesLand
CHECK_DEADLOCK FALSE
