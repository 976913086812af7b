SPECIFICATION Spec
CONSTANTS
  File = {"f1"}
  String = {"s1"}
  Block = {1, 2, 3}
  LineCount = 3
  WordCount = 2
  MaxDepth = 3
  MaxOpen = 3
  FreeLoads = FALSE
INVARIANTS
  TypeOK
  LineIntact
  SourceTold
  SavesBalance
CHECK_DEADLOCK FALSE
