SPECIFICATION Spec
CONSTANTS
  MaxLen = 3
  MaxDeltas = 3
  Typed = {17}
  Originals <- MCOriginals
INVARIANTS
  EntryLeadsBack
  EntryInverts
CHECK_DEADLOCK FALSE
