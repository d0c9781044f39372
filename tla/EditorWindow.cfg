SPECIFICATION Spec
CONSTANTS
  Keys <- WindowKeys
  Utf8 <- MCUtf8
  CodeByte <- MCCodeByte
  ShiftKeys = {}
  File <- ThreeLines
  HasPath = TRUE
  BPL = 2
  LoadSize = 2
  Heights = {1}
  MaxLen = 5
  MaxCount = 0
  MaxHistory = 1
  MaxPattern = 0
INVARIANTS
  NeverPanics
  WindowInBuffer
  MainCaretVisible
  UneditedIsFile
