---------------------------- MODULE MCUndoHistory ----------------------------
(***************************************************************************)
(* Contents stand for themselves and their lengths: content c has c bytes, *)
(* and a selection is the greatest offset it covers.                       *)
(***************************************************************************)
EXTENDS UndoHistory

CONSTANTS MaxLen, MaxEntries

Contents  == 0 .. MaxLen
Offsets   == 0 .. MaxLen
Within(c, s) == s <= c

\* Undo and redo keep the number of entries; the edits are bounded.
Bounded == Len(undo) + Len(redo) + Len(partial) <= MaxEntries
=============================================================================
