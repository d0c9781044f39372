SPECIFICATION Spec
CONSTANTS
  Keys <- DownKeys
  Utf8 <- MCUtf8
  CodeByte <- MCCodeByte
  ShiftKeys = {}
  File <- FiveLines
  HasPath = TRUE
  BPL = 2
  LoadSize = 2
  Heights = {1}
  MaxLen = 9
  MaxCount = 0
  MaxHistory = 1
  MaxPattern = 0
INVARIANT
  SlidingWindow
CHECK_DEADLOCK FALSE
