SPECIFICATION Spec
CONSTANTS
  BufferCount = 2
  Blocks = {1, 2, 3, 4}
  Valid = {1, 2, 3}
  Data = {d1, d2}
  Absent = Absent
INVARIANTS
  TypeOK
  OneBufferPerBlock
  CleanMatchesDisk
PROPERTIES
  LastBufferSurvives
  SavePersists
  ImplementsBlockStore
