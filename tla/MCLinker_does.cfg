SPECIFICATION Spec
CONSTANTS
  Images <- MCImages
  Page = 16
  Elf_Words = 64
  Moves <- MCMoves
  Layouts <- MCLayouts
  Asked <- MCAsked
INVARIANTS
  DoesNamed
CHECK_DEADLOCK FALSE
