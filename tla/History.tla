------------------------------- MODULE History -------------------------------
(***************************************************************************)
(* The undo history of a buffer (src/history.rs, struct History) as the    *)
(* operations CurrentBuffer calls.  An entry is a delta and the selection  *)
(* to restore with it; partial is a sequence of at most one entry.         *)
(***************************************************************************)
EXTENDS Delta

Entry(delta, sel) == [delta |-> delta, sel |-> sel]

EmptyHistory == [partial |-> << >>, undo |-> << >>, redo |-> << >>]

\* A slip: the redo stack outlives the edit.
FinalKeepingRedo(h, data, delta, sel) ==
  [h EXCEPT !.undo = Append(@, Entry(Invert(delta, data), sel))]

PerformFinal(h, data, delta, sel) ==
  [h EXCEPT !.undo = Append(@, Entry(Invert(delta, data), sel)), !.redo = << >>]

\* Subset::transform_expand asserts that the open delta starts from the bytes the
\* new one was applied to: it does not once a chunk is loaded or trimmed between.
ChainPanics(h, data) == h.partial # << >> /\ h.partial[1].delta.base # Len(data)

\* The first partial delta keeps its selection; the later ones are chained.
PerformPartial(h, data, delta, sel) ==
  LET inversion == Invert(delta, data)
  IN [h EXCEPT !.partial =
        << IF @ = << >> THEN Entry(inversion, sel)
           ELSE Entry(Chain(inversion, data, @[1].delta), @[1].sel) >>]

\* A slip: the redo stack outlives the insertion.
CommitKeepingRedo(h) ==
  IF h.partial = << >> THEN h
  ELSE [h EXCEPT !.partial = << >>, !.undo = @ \o h.partial]

CommitPartial(h) ==
  IF h.partial = << >> THEN h
  ELSE [partial |-> << >>, undo |-> h.undo \o h.partial, redo |-> << >>]

\* A slip: redo will restore the selection that undo restores.
UndoPopOldSelection(h, data, sel) ==
  [h EXCEPT !.undo = Front(@),
            !.redo = Append(@, Entry(Invert(Last(h.undo).delta, data), Last(h.undo).sel))]

\* undo and redo take an entry off one stack and put its inverse on the other.
UndoPop(h, data, sel) ==
  [h EXCEPT !.undo = Front(@),
            !.redo = Append(@, Entry(Invert(Last(h.undo).delta, data), sel))]

RedoPop(h, data, sel) ==
  [h EXCEPT !.redo = Front(@),
            !.undo = Append(@, Entry(Invert(Last(h.redo).delta, data), sel))]
=============================================================================
