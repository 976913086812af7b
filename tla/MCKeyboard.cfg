SPECIFICATION KSpec
CONSTANTS
  Size = 2
  Byte = {0, 1, 2, 3}
  MaxTyped = 3
  FifoDepth = 2
  LineMax = 2
INVARIANTS
  KTypeOK
  InterruptHasChar
  ParkedIffArmed
  KeysInOrder
  KeyQuestionNeverWaits
  NoKeyLost
PROPERTIES
  ReceiverDrains
  KeyWordsReturn
CHECK_DEADLOCK FALSE
