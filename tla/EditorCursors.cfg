SPECIFICATION Spec
CONSTANTS
  Keys <- CursorsKeys
  Utf8 <- MCUtf8
  CodeByte <- MCCodeByte
  ShiftKeys = {}
  File <- NoFile
  HasPath = FALSE
  BPL = 8
  LoadSize = 64
  Heights = {8}
  MaxLen = 4
  MaxCount = 0
  MaxHistory = 1
  MaxPattern = 0
INVARIANTS
  RegionsSortedDisjoint
  OnlyMainIsFlagged
  CaretsInBuffer
  HalfByteUnderCaret
  NeverPanics
