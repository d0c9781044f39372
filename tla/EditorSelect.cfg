SPECIFICATION Spec
CONSTANTS
  Keys <- SelectKeys
  Utf8 <- MCUtf8
  CodeByte <- MCCodeByte
  ShiftKeys = {}
  File <- FourBytes
  HasPath = TRUE
  BPL = 2
  LoadSize = 64
  Heights = {8}
  MaxLen = 4
  MaxCount = 0
  MaxHistory = 0
  MaxPattern = 2
INVARIANTS
  RegionsSortedDisjoint
  MainIsFlagged
  OnlyMainIsFlagged
  PromptCursorInPattern
  SearchSharesOut
PROPERTY
  LoneSelectionIsSafe
CHECK_DEADLOCK FALSE
