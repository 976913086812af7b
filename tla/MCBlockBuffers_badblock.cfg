SPECIFICATION Spec
CONSTANTS
  BufferCount = 2
  Blocks = {1,2,3}
  Valid = {1,2}
  Data = {d1, d2}
  Absent = Absent
PROPERTIES
  BadBlockRefused
