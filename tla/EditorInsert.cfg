SPECIFICATION Spec
CONSTANTS
  Keys <- InsertKeys
  Utf8 <- MCUtf8
  CodeByte <- MCCodeByte
  ShiftKeys = {}
  File <- NoFile
  HasPath = FALSE
  BPL = 8
  LoadSize = 64
  Heights = {8}
  MaxLen = 2
  MaxCount = 0
  MaxHistory = 2
  MaxPattern = 0
INVARIANTS
  TypeOK
  PartialOnlyInserting
PROPERTY
  HistoryImplemented
