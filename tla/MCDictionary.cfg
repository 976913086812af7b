SPECIFICATION Spec
CONSTANTS
  Names = {"a"}
  WL_SO_MAX = 4
  Top = 4
INVARIANTS
  FindsNewest
  SearchEnds
PROPERTY OrderImplemented
CHECK_DEADLOCK FALSE
