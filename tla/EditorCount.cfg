SPECIFICATION Spec
CONSTANTS
  Keys <- CountKeys
  Utf8 <- MCUtf8
  CodeByte <- MCCodeByte
  ShiftKeys = {}
  File <- FourBytes
  HasPath = TRUE
  BPL = 8
  LoadSize = 64
  Heights = {8}
  MaxLen = 4
  MaxCount = 7
  MaxHistory = 0
  MaxPattern = 0
INVARIANTS
  RegionsSortedDisjoint
  MainIsFlagged
PROPERTY
  LoneSelectionIsSafe
CHECK_DEADLOCK FALSE
