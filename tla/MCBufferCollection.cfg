SPECIFICATION Spec
CONSTANTS
  f1 = f1
  f2 = f2
  b1 = b1
  b2 = b2
  Names <- MCNames
  Files = {f1, f2}
  Canon <- MCCanon
  NoName = NoName
  Bytes = {b1, b2}
  Stored <- MCStored
  Edited <- MCEdited
  Absent = Absent
  Shared = {f2}
  Chunk = 1
  Typed <- MCTyped
  MaxBuffers = 2
  MaxLine = 1
INVARIANTS
  TypeOK
  QuitLosesNothing
  WrittenSoFar
  FollowsFile
  OneBufferPerFile
PROPERTIES
  NoBangNoLoss
  PlainPromptIsSafe
  WritingEnds
CHECK_DEADLOCK FALSE
