SPECIFICATION Spec
CONSTANTS
  Keys <- DeleteKeys
  Utf8 <- MCUtf8
  CodeByte <- MCCodeByte
  ShiftKeys = {}
  File <- TwoBytes
  HasPath = TRUE
  BPL = 8
  LoadSize = 64
  Heights = {8}
  MaxLen = 2
  MaxCount = 0
  MaxHistory = 2
  MaxPattern = 0
PROPERTY
  DeleteTakesOutSelected
CHECK_DEADLOCK FALSE
