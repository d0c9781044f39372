SPECIFICATION Spec
CONSTANTS
  Keys <- NoMatchKeys
  Utf8 <- MCUtf8
  CodeByte <- MCCodeByte
  ShiftKeys = {}
  File <- FourBytes
  HasPath = TRUE
  BPL = 8
  LoadSize = 64
  Heights = {8}
  MaxLen = 4
  MaxCount = 0
  MaxHistory = 0
  MaxPattern = 2
INVARIANTS
  NeverPanics
CHECK_DEADLOCK FALSE
