SPECIFICATION Spec
CONSTANTS
  Images <- MCImages
  Page = 16
  Elf_Words = 64
  Moves <- MCMoves
  Layouts <- MCLayouts
  Asked <- MCAsked
INVARIANTS
  RelocationsResolve
  WritableRight
CHECK_DEADLOCK FALSE
