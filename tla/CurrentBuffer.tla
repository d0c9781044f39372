---------------------------- MODULE CurrentBuffer ----------------------------
(***************************************************************************)
(* One open buffer (src/current_buffer.rs, struct CurrentBuffer): its      *)
(* bytes, selection, unnamed register, dirty flag and history.  Each       *)
(* operator is a method, from buffer to buffer; panic says that the method *)
(* panicked, which ends the program.  The ranges of bytes to repaint that  *)
(* the methods return are left out.                                        *)
(***************************************************************************)
EXTENDS History

NewBuffer(data) ==
  [data |-> data, sel |-> Cleared, reg |-> << << >> >>, dirty |-> FALSE,
   hist |-> EmptyHistory, panic |-> FALSE]

Crash(b) == [b EXCEPT !.panic = TRUE]

WithSelection(b, result) ==
  IF result.panic THEN Crash(b) ELSE [b EXCEPT !.sel = result.sel]

MapBuffer(b, f(_)) == WithSelection(b, MapEach(b.sel, f))

\* A slip: only the carets follow the delta.
CaretsAfter(sel, d, max_len, caret_offset, tail_offset) ==
  LET new_max_len == NewDocumentLen(d)
      moved(x, o) == IF x = max_len THEN new_max_len + o
                     ELSE IF Transform(d, x) + o < 0 THEN new_max_len
                     ELSE Lesser(new_max_len, Transform(d, x) + o)
  IN IF new_max_len = 0 THEN [panic |-> FALSE, sel |-> Cleared]
     ELSE MapEach(sel, LAMBDA r : Region(moved(r.caret, caret_offset), r.tail))

\* Selection::apply_delta and apply_delta_offset_carets.  An end that sat after
\* the last byte stays there.  A negative end wraps to a huge usize, which the
\* minimum cuts to the new length.
SelectionAfter(sel, d, max_len, caret_offset, tail_offset) ==
  LET new_max_len == NewDocumentLen(d)
      moved(x, o) == IF x = max_len THEN new_max_len + o
                     ELSE IF Transform(d, x) + o < 0 THEN new_max_len
                     ELSE Lesser(new_max_len, Transform(d, x) + o)
  IN IF new_max_len = 0 THEN [panic |-> FALSE, sel |-> Cleared]
     ELSE MapEach(sel, LAMBDA r : Region(moved(r.caret, caret_offset),
                                         moved(r.tail, tail_offset)))

\* apply_delta_to_current_buffer, then the selection is carried along.
ApplyEdits(b, edits, is_final, caret_offset, tail_offset) ==
  LET n == Len(b.data)
      d == Build(n, edits)
  IN IF BuildPanics(n, edits) \/ (~is_final /\ ChainPanics(b.hist, b.data)) THEN Crash(b)
     ELSE WithSelection([b EXCEPT !.data  = ApplyDelta(b.data, d),
                                  !.hist  = IF is_final THEN PerformFinal(@, b.data, d, b.sel)
                                           ELSE PerformPartial(@, b.data, d, b.sel),
                                  !.dirty = TRUE],
                        SelectionAfter(b.sel, d, n, caret_offset, tail_offset))

BufApplyDelta(b, edits) == ApplyEdits(b, edits, TRUE, 0, 0)

ApplyIncompleteDelta(b, edits) == ApplyEdits(b, edits, FALSE, 0, 0)

ApplyIncompleteDeltaOffsetCarets(b, edits, caret_offset, tail_offset) ==
  ApplyEdits(b, edits, FALSE, caret_offset, tail_offset)

CommitDelta(b) == [b EXCEPT !.hist = CommitPartial(@)]

\* A slip: the selection stays where it is.
RestoreBytes(b, entry, hist) ==
  IF ApplyPanics(b.data, entry.delta) THEN Crash(b)
  ELSE [b EXCEPT !.hist = hist, !.dirty = TRUE, !.data = ApplyDelta(b.data, entry.delta)]

\* The delta is inverted against the current bytes and then applied to them: a
\* buffer shorter than the delta expects makes one or the other panic.
Restore(b, entry, hist) ==
  IF ApplyPanics(b.data, entry.delta) THEN Crash(b)
  ELSE [b EXCEPT !.hist = hist, !.sel = entry.sel, !.dirty = TRUE,
                 !.data = ApplyDelta(b.data, entry.delta)]

PerformUndo(b) == Restore(b, Last(b.hist.undo), UndoPop(b.hist, b.data, b.sel))

PerformRedo(b) == Restore(b, Last(b.hist.redo), RedoPop(b.hist, b.data, b.sel))

RemoveSelection(b, index) ==
  [b EXCEPT !.sel = RemoveRegion(@, index % Len(@.regions))]

RetainSelection(b, index) == [b EXCEPT !.sel = Retain(@, index % Len(@.regions))]

\* Bytes min..=max of a region, as far as the buffer goes.
SliceOf(data, r) == SubSeq(data, RMin(r) + 1, Lesser(RMax(r) + 1, Len(data)))

\* Rope::slice_to_cow panics when the slice starts past the end.
SlicePanics(b) == \E i \in DOMAIN b.sel.regions : RMin(b.sel.regions[i]) > Len(b.data)

YankSelections(b) ==
  IF b.data # << >> /\ SlicePanics(b) THEN Crash(b)
  ELSE [b EXCEPT !.reg = [i \in DOMAIN b.sel.regions |->
                            IF b.data = << >> THEN << >>
                            ELSE SliceOf(b.data, b.sel.regions[i])]]
=============================================================================
