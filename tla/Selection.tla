------------------------------ MODULE Selection ------------------------------
(***************************************************************************)
(* The list of selected regions and the index of the main one              *)
(* (src/selection.rs, struct Selection).  main_selection is 0-based, as in *)
(* the code; regions is a TLA+ sequence.                                   *)
(***************************************************************************)
EXTENDS SelRegion, Sequences, SequencesExt

\* The two INVARIANT comments of the struct: sorted by starting point and
\* not overlapping.  For a region list this is one statement.
SortedDisjoint(regions) ==
  \A i \in 1 .. Len(regions) - 1 : RMax(regions[i]) < RMin(regions[i + 1])

\* Selection::default, Selection::new and Selection::clear.
Cleared == [regions |-> << [Region(0, 0) EXCEPT !.main = TRUE] >>,
            main_selection |-> 0]

MainRegion(sel) == sel.regions[sel.main_selection + 1]

Flag(sel, i, b) == [sel EXCEPT !.regions[i + 1].main = b]

LenBytes(sel) == FoldLeft(LAMBDA n, r : n + RLen(r), 0, sel.regions)

SelectAll(sel, size) ==
  IF size = 0 THEN Cleared ELSE [Cleared EXCEPT !.regions[1].caret = size - 1]

Retain(sel, i) == [regions |-> << [sel.regions[i + 1] EXCEPT !.main = TRUE] >>,
                   main_selection |-> 0]

\* A slip: the region that becomes main is not flagged.
RemoveUnflagged(sel, i) ==
  IF Len(sel.regions) = 1 THEN sel
  ELSE LET rest == RemoveAt(sel.regions, i + 1)
       IN [regions |-> rest, main_selection |-> Lesser(Len(rest) - 1, sel.main_selection)]

RemoveRegion(sel, i) ==
  IF Len(sel.regions) = 1 THEN sel
  ELSE LET rest == RemoveAt(sel.regions, i + 1)
           m    == Lesser(Len(rest) - 1, sel.main_selection)
       IN Flag([regions |-> rest, main_selection |-> m], m, TRUE)

\* Slips: the new main region is not flagged, or the old one stays flagged.
SwitchUnflagged(sel, m) == [Flag(sel, sel.main_selection, FALSE) EXCEPT !.main_selection = m]
SwitchBothFlagged(sel, m) == Flag([sel EXCEPT !.main_selection = m], m, TRUE)

\* select_next and select_prev both unflag the old main and flag the new one.
SwitchMain(sel, m) ==
  Flag([Flag(sel, sel.main_selection, FALSE) EXCEPT !.main_selection = m], m, TRUE)

SelectNext(sel, count) ==
  SwitchMain(sel, (sel.main_selection + count) % Len(sel.regions))

SelectPrev(sel, count) ==
  LET n == Len(sel.regions)
  IN SwitchMain(sel, ((sel.main_selection + n) - (count % n)) % n)

-----------------------------------------------------------------------------
(* map_selections.  news[i] is the sequence f(regions[i]) of the code.     *)

PushPanics(out, r) ==
  out # << >> /\ Overlaps(Last(out), r) /\ ~CanMerge(Last(out), r)

PushRegion(out, r) ==
  IF out = << >> \/ ~Overlaps(Last(out), r) THEN Append(out, r)
  ELSE [out EXCEPT ![Len(out)] = Merge(Last(out), r)]

\* The regions made so far, the index of the main one, and whether a merge failed.
Mapped(out, main, panic) == [out |-> out, main |-> main, panic |-> panic]

Push(acc, r) ==
  Mapped(PushRegion(acc.out, r), acc.main, acc.panic \/ PushPanics(acc.out, r))

\* The inner loop, after each of the regions rs.
PushUpTo(acc, rs) ==
  LET a[k \in 0 .. Len(rs)] == IF k = 0 THEN acc ELSE Push(a[k - 1], rs[k])
  IN a

\* The last region pushed so far is the main one; with nothing pushed yet the code
\* panics.
MarkMain(acc) ==
  LET n == Len(acc.out)
  IN IF n = 0 THEN Mapped(acc.out, acc.main, TRUE)
     ELSE Mapped([acc.out EXCEPT ![n] = [@ EXCEPT !.main = TRUE]], n - 1, acc.panic)

\* One turn of the outer loop: push the new regions of the i-th old region.
MapRegion(sel, news, acc, i) ==
  LET pushed == PushUpTo(acc, news[i])[Len(news[i])]
  IN IF acc.panic THEN acc
     ELSE IF i = sel.main_selection + 1 THEN MarkMain(pushed)
     ELSE pushed

MapUpTo(sel, news) ==
  LET a[i \in 0 .. Len(sel.regions)] ==
        IF i = 0 THEN Mapped(<< >>, 0, FALSE) ELSE MapRegion(sel, news, a[i - 1], i)
  IN a

\* [panic, sel]: whether the call panics and, if not, the new selection.
MapSelections(sel, news) ==
  LET result == MapUpTo(sel, news)[Len(sel.regions)]
  IN [panic |-> result.panic,
      sel   |-> [regions |-> result.out, main_selection |-> result.main]]

\* map_selections with the closure |region| vec![f(region)].
MapEach(sel, f(_)) ==
  MapSelections(sel, [i \in DOMAIN sel.regions |-> << f(sel.regions[i]) >>])
=============================================================================
