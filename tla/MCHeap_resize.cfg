SPECIFICATION Spec
CONSTANTS
  t1 = t1
  t2 = t2
  t3 = t3
  Tags = {t1, t2, t3}
  NoBlock = NoBlock
  HeapSize = 16
  H = 2
  Word = 32
  Requests = {0, 1, 2, 3}
  AnyResize = TRUE
PROPERTIES
  ResizeReturnsBlock
VIEW View
SYMMETRY Symmetry
CHECK_DEADLOCK FALSE
