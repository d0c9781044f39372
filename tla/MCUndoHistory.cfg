SPECIFICATION Spec
CONSTANTS
  MaxLen = 2
  MaxEntries = 2
  Content <- Contents
  Selections <- Offsets
  Fits <- Within
CONSTRAINT Bounded
INVARIANTS
  TypeOK
  EntriesLinked
  SelectionsFit
PROPERTY
  TimelineSpec
