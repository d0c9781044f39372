SPECIFICATION Spec
CONSTANTS
  Keys <- RegisterKeys
  Utf8 <- MCUtf8
  CodeByte <- MCCodeByte
  ShiftKeys = {}
  File <- NoFile
  HasPath = FALSE
  BPL = 8
  LoadSize = 64
  Heights = {8}
  MaxLen = 3
  MaxCount = 0
  MaxHistory = 2
  MaxPattern = 0
INVARIANTS
  UndoRedoRoundTrip
  DeletePasteRoundTrip
  NeverPanics
PROPERTY
  DeleteTakesOutSelected
  HistoryImplemented
