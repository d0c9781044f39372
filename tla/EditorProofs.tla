---------------------------- MODULE EditorProofs ----------------------------
(***************************************************************************)
(* Proofs about the editor (module Editor), for every keyboard, file,      *)
(* screen and bound.                                                       *)
(*                                                                         *)
(* An insertion is open only in insert mode.  The operations of the        *)
(* buffer and of the view are followed one by one: which of them may       *)
(* change the history, and which of those may leave an insertion open.     *)
(* The view never touches the history, whatever it loads, trims or draws;  *)
(* of the buffer's operations only the incomplete deltas open an           *)
(* insertion, and only insert mode calls them.                             *)
(*                                                                         *)
(* The cursor of the search prompt stays within the pattern, on the half   *)
(* byte while one is being typed.  That is about the mode alone.           *)
(*                                                                         *)
(* The buffer, its history and the window are well formed after every key: *)
(* the regions are sorted and apart, the main one is flagged, the window   *)
(* begins with a line.  The invariant EditorInv says that of the           *)
(* selections the history will restore as well.  The window also stays in  *)
(* the buffer, as long as the main caret does.                             *)
(*                                                                         *)
(* Every step of the editor is then one of a few kinds: it moves the       *)
(* selection, makes a final or an incomplete edit, commits an insertion,   *)
(* undoes or redoes, between two showings of the buffer (Stepped).  Module *)
(* EditorHistoryProofs builds on that.                                     *)
(***************************************************************************)
EXTENDS Editor, SelectionProofs

-----------------------------------------------------------------------------
(* Buffers and screens, and what leaves their history alone.               *)

\* The records the buffer, its history and the screen are.
HistShape(h) == \E p, u, r : h = [partial |-> p, undo |-> u, redo |-> r]

BufShape(b) ==
  /\ \E d, s, r, y, h, x :
       b = [data |-> d, sel |-> s, reg |-> r, dirty |-> y, hist |-> h, panic |-> x]
  /\ HistShape(b.hist)

ScreenShape(v) ==
  /\ \E b, s, r : v = [b |-> b, start |-> s, rows |-> r]
  /\ BufShape(v.b)

\* The buffer c, or the screen w, has the history that b, or v, has.
Keeps(b, c)       == BufShape(c) /\ c.hist = b.hist
KeepsScreen(v, w) == ScreenShape(w) /\ w.b.hist = v.b.hist

\* Assigning the bytes, the selection, the register or the panic flag of a buffer
\* leaves its history alone (the setters of current_buffer.rs).
LEMMA BufUpdates ==
  ASSUME NEW b, BufShape(b)
  PROVE  /\ Keeps(b, b)
         /\ \A x : Keeps(b, [b EXCEPT !.data = x])
         /\ \A x : Keeps(b, [b EXCEPT !.sel = x])
         /\ \A x : Keeps(b, [b EXCEPT !.reg = x])
         /\ Keeps(b, Crash(b))
<1>1. PICK d, s, r, y, h, p :
        b = [data |-> d, sel |-> s, reg |-> r, dirty |-> y, hist |-> h, panic |-> p]
  BY DEF BufShape
<1>2. HistShape(h) /\ b.hist = h
  BY <1>1 DEF BufShape
<1>3. ASSUME NEW c, NEW x, NEW q, NEW k, NEW z,
             c = [data |-> x, sel |-> q, reg |-> k, dirty |-> y, hist |-> h, panic |-> z]
      PROVE  Keeps(b, c)
  <2>1. c.hist = h
    BY <1>3
  <2> QED BY <1>2, <1>3, <2>1 DEF Keeps, BufShape
<1>4. ASSUME NEW x PROVE Keeps(b, [b EXCEPT !.data = x])
  <2>1. PICK c : c = [b EXCEPT !.data = x]
    OBVIOUS
  <2>2. c = [data |-> x, sel |-> s, reg |-> r, dirty |-> y, hist |-> h, panic |-> p]
    BY <1>1, <2>1
  <2> QED BY <1>3, <2>1, <2>2
<1>5. ASSUME NEW x PROVE Keeps(b, [b EXCEPT !.sel = x])
  <2>1. PICK c : c = [b EXCEPT !.sel = x]
    OBVIOUS
  <2>2. c = [data |-> d, sel |-> x, reg |-> r, dirty |-> y, hist |-> h, panic |-> p]
    BY <1>1, <2>1
  <2> QED BY <1>3, <2>1, <2>2
<1>6. ASSUME NEW x PROVE Keeps(b, [b EXCEPT !.reg = x])
  <2>1. PICK c : c = [b EXCEPT !.reg = x]
    OBVIOUS
  <2>2. c = [data |-> d, sel |-> s, reg |-> x, dirty |-> y, hist |-> h, panic |-> p]
    BY <1>1, <2>1
  <2> QED BY <1>3, <2>1, <2>2
<1>7. Keeps(b, Crash(b))
  <2>1. PICK c : c = Crash(b)
    OBVIOUS
  <2>2. c = [data |-> d, sel |-> s, reg |-> r, dirty |-> y, hist |-> h, panic |-> TRUE]
    BY <1>1, <2>1 DEF Crash
  <2> QED BY <1>3, <2>1, <2>2
<1>8. Keeps(b, b)
  BY <1>1, <1>3
<1> QED BY <1>4, <1>5, <1>6, <1>7, <1>8

\* So does taking over the selection a map_selections call made.
LEMMA WithSelectionKeeps ==
  ASSUME NEW b, BufShape(b), NEW result
  PROVE  Keeps(b, WithSelection(b, result))
BY BufUpdates DEF WithSelection

\* Assigning the offset of a screen, or its buffer, or panicking on it.
LEMMA ScreenUpdates ==
  ASSUME NEW v, ScreenShape(v)
  PROVE  /\ KeepsScreen(v, v)
         /\ \A x : KeepsScreen(v, [v EXCEPT !.start = x])
         /\ \A c : Keeps(v.b, c) => KeepsScreen(v, [v EXCEPT !.b = c])
         /\ KeepsScreen(v, CrashScreen(v))
<1>1. PICK b, s, r : v = [b |-> b, start |-> s, rows |-> r]
  BY DEF ScreenShape
<1>2. BufShape(b) /\ v.b = b
  BY <1>1 DEF ScreenShape
<1>3. \A c, x : Keeps(b, c) => KeepsScreen(v, [b |-> c, start |-> x, rows |-> r])
  BY <1>2 DEF Keeps, KeepsScreen, ScreenShape
<1>4. \A x : [v EXCEPT !.start = x] = [b |-> b, start |-> x, rows |-> r]
  BY <1>1
<1>5. \A c : [v EXCEPT !.b = c] = [b |-> c, start |-> s, rows |-> r]
  BY <1>1
<1>6. CrashScreen(v) = [b |-> Crash(b), start |-> s, rows |-> r]
  BY <1>1 DEF CrashScreen
<1>7. Keeps(b, b) /\ Keeps(b, Crash(b))
  BY <1>2, BufUpdates
<1> QED BY <1>1, <1>2, <1>3, <1>4, <1>5, <1>6, <1>7

\* Operations that leave the history alone can be done one after the other.
LEMMA KeepsOn ==
  ASSUME NEW u, NEW v, NEW w, KeepsScreen(u, v), KeepsScreen(v, w)
  PROVE  KeepsScreen(u, w)
BY DEF KeepsScreen

\* load_next_chunk only adds bytes.
LEMMA LoadKeeps ==
  ASSUME NEW v, ScreenShape(v), NEW size
  PROVE  KeepsScreen(v, Load(v, size))
<1>1. BufShape(v.b)
  BY DEF ScreenShape
<1>2. Keeps(v.b, LoadNextChunk(v.b, size))
  BY <1>1, BufUpdates DEF LoadNextChunk
<1>3. Load(v, size) = [v EXCEPT !.b = LoadNextChunk(v.b, size)]
  BY DEF Load
<1> QED BY <1>2, <1>3, ScreenUpdates

\* draw may load bytes or panic.
LEMMA DrawKeeps ==
  ASSUME NEW v, ScreenShape(v)
  PROVE  KeepsScreen(v, Draw(v))
<1>1. KeepsScreen(v, EnsureVisibleData(v))
  BY LoadKeeps, ScreenUpdates DEF EnsureVisibleData
<1> QED BY <1>1, ScreenUpdates DEF Draw

\* trim_buffer_top only takes bytes away: it does not tell the history.
LEMMA TrimKeeps ==
  ASSUME NEW v, ScreenShape(v)
  PROVE  KeepsScreen(v, Trim(v))
<1>1. PICK b, s, r : v = [b |-> b, start |-> s, rows |-> r]
  BY DEF ScreenShape
<1>2. BufShape(b) /\ v.b = b
  BY <1>1 DEF ScreenShape
<1>3. \A c, x : Keeps(b, c) => KeepsScreen(v, [b |-> c, start |-> x, rows |-> r])
  BY <1>2 DEF Keeps, KeepsScreen, ScreenShape
<1>4. CASE ShouldTrim(v)
  <2>1. Trim(v) = [b |-> [b EXCEPT !.data = SubSeq(b.data, ChunkSize(v) + 1, Len(b.data))],
                   start |-> Greater(0, s - ChunkSize(v)), rows |-> r]
    BY <1>1, <1>4 DEF Trim
  <2> QED BY <1>2, <1>3, <2>1, BufUpdates
<1>5. CASE ~ShouldTrim(v)
  BY <1>5, ScreenUpdates DEF Trim
<1> QED BY <1>4, <1>5

\* scroll_down loads, trims and draws.
LEMMA ScrollDownByKeeps ==
  ASSUME NEW v, ScreenShape(v), NEW n
  PROVE  KeepsScreen(v, ScrollDownBy(v, n))
<1> DEFINE next_position == v.start + n * BPL
           lacking == next_position + (v.rows + 1) * BPL > Loaded(v)
           more    == IF lacking THEN Load(v, LoadSize) ELSE v
           w       == IF Loaded(more) > Loaded(v) THEN Trim(more) ELSE v
<1>1. ScrollDownBy(v, n) =
        IF next_position >= Loaded(w) THEN w ELSE Draw([w EXCEPT !.start = next_position])
  BY DEF ScrollDownBy
<1>2. KeepsScreen(v, more)
  BY LoadKeeps, ScreenUpdates
<1> HIDE DEF more
<1>3. KeepsScreen(v, w)
  <2>1. ScreenShape(more)
    BY <1>2 DEF KeepsScreen
  <2>2. KeepsScreen(more, Trim(more))
    BY <2>1, TrimKeeps
  <2> QED BY <1>2, <2>2, KeepsOn, ScreenUpdates
<1> HIDE DEF w, next_position
<1>4. PICK z : z = [w EXCEPT !.start = next_position]
  OBVIOUS
<1>5. ScreenShape(w)
  BY <1>3 DEF KeepsScreen
<1>6. KeepsScreen(w, z)
  BY <1>4, <1>5, ScreenUpdates
<1>7. KeepsScreen(z, Draw(z))
  BY <1>6, DrawKeeps DEF KeepsScreen
<1>8. KeepsScreen(v, Draw(z))
  BY <1>3, <1>6, <1>7, KeepsOn
<1> QED BY <1>1, <1>3, <1>4, <1>8

\* scroll_up draws.
LEMMA ScrollUpByKeeps ==
  ASSUME NEW v, ScreenShape(v), NEW n
  PROVE  KeepsScreen(v, ScrollUpBy(v, n))
<1>1. PICK z : z = [v EXCEPT !.start = v.start - n * BPL]
  OBVIOUS
<1>2. KeepsScreen(v, z)
  BY <1>1, ScreenUpdates
<1>3. KeepsScreen(z, Draw(z))
  BY <1>2, DrawKeeps DEF KeepsScreen
<1>4. KeepsScreen(v, Draw(z))
  BY <1>2, <1>3, KeepsOn
<1> QED BY <1>1, <1>4, ScreenUpdates DEF ScrollUpBy

\* The carets moved by <C-e> and <C-y>.
LEMMA MoveCaretsKeeps ==
  ASSUME NEW v, ScreenShape(v), NEW dir
  PROVE  KeepsScreen(v, MoveCarets(v, dir))
<1>1. PICK result : MoveCarets(v, dir) = [v EXCEPT !.b = WithSelection(v.b, result)]
  BY DEF MoveCarets, MapBuffer, MapEach
<1> QED BY <1>1, WithSelectionKeeps, ScreenUpdates DEF ScreenShape

\* What follows a transition, and the keys the view takes itself.
LEMMA ChangesKeep ==
  ASSUME NEW v, ScreenShape(v)
  PROVE  /\ KeepsScreen(v, ChangeInPlace(v))
         /\ KeepsScreen(v, ChangeLength(v))
         /\ KeepsScreen(v, ScrollDown(v))
         /\ KeepsScreen(v, ScrollUp(v))
<1>1. ASSUME NEW z, KeepsScreen(v, z) PROVE KeepsScreen(v, Draw(z))
  <2>1. KeepsScreen(z, Draw(z))
    BY <1>1, DrawKeeps DEF KeepsScreen
  <2> QED BY <1>1, <2>1, KeepsOn
<1>2. KeepsScreen(v, MaybeUpdateOffset(v))
  BY ScreenUpdates, ScrollUpByKeeps, ScrollDownByKeeps DEF MaybeUpdateOffset
<1>3. KeepsScreen(v, ChangeInPlace(v))
  BY <1>1, <1>2, ScreenUpdates DEF ChangeInPlace
<1>4. KeepsScreen(v, ChangeLength(v))
  BY <1>1, ScreenUpdates DEF ChangeLength
<1>5. KeepsScreen(v, ScrollDown(v))
  <2>1. PICK u : u = Load(v, ChunkSize(v)) /\ KeepsScreen(v, u)
    BY LoadKeeps
  <2>2. PICK w : w = MoveCarets(u, "Down") /\ KeepsScreen(v, w)
    BY <2>1, MoveCaretsKeeps, KeepsOn DEF KeepsScreen
  <2>3. KeepsScreen(w, ScrollDownBy(w, 1))
    BY <2>2, ScrollDownByKeeps DEF KeepsScreen
  <2>4. KeepsScreen(v, ScrollDownBy(w, 1))
    BY <2>2, <2>3, KeepsOn
  <2> QED BY <1>1, <2>1, <2>2, <2>4 DEF ScrollDown
<1>6. KeepsScreen(v, ScrollUp(v))
  <2>1. PICK w : w = MoveCarets(v, "Up") /\ KeepsScreen(v, w)
    BY MoveCaretsKeeps
  <2>2. KeepsScreen(w, ScrollUpBy(w, 1))
    BY <2>1, ScrollUpByKeeps DEF KeepsScreen
  <2>3. KeepsScreen(v, ScrollUpBy(w, 1))
    BY <2>1, <2>2, KeepsOn
  <2> QED BY <1>1, <2>1, <2>3 DEF ScrollUp
<1> QED BY <1>3, <1>4, <1>5, <1>6

-----------------------------------------------------------------------------
(* The operations on the buffer.                                           *)

\* c is a buffer with an insertion open only if b has one.
Shuts(b, c) == BufShape(c) /\ c.hist.partial = b.hist.partial

\* The ways the operations of History update the record.
NewStacks(h, x, y)  == [h EXCEPT !.undo = x, !.redo = y]
NewStacks2(h, x, y) == [h EXCEPT !.redo = x, !.undo = y]
NewPartial(h, x)    == [h EXCEPT !.partial = x]

\* These updates leave the open insertion alone, but for the last.
LEMMA HistoryUpdates ==
  ASSUME NEW h, HistShape(h), NEW x, NEW y
  PROVE  /\ HistShape(NewStacks(h, x, y))  /\ NewStacks(h, x, y).partial = h.partial
         /\ HistShape(NewStacks2(h, x, y)) /\ NewStacks2(h, x, y).partial = h.partial
         /\ HistShape(NewPartial(h, x))
<1>1. PICK p, u, r : h = [partial |-> p, undo |-> u, redo |-> r]
  BY DEF HistShape
<1>2. NewStacks(h, x, y) = [partial |-> p, undo |-> x, redo |-> y]
  <2>1. PICK f : f = [h EXCEPT !.undo = x, !.redo = y]
    OBVIOUS
  <2>2. f = [partial |-> p, undo |-> x, redo |-> y]
    BY <1>1, <2>1
  <2> QED BY <2>1, <2>2, Zenon DEF NewStacks
<1>3. NewStacks2(h, x, y) = [partial |-> p, undo |-> y, redo |-> x]
  <2>1. PICK f : f = [h EXCEPT !.redo = x, !.undo = y]
    OBVIOUS
  <2>2. f = [partial |-> p, undo |-> y, redo |-> x]
    BY <1>1, <2>1
  <2> QED BY <2>1, <2>2, Zenon DEF NewStacks2
<1>4. NewPartial(h, x) = [partial |-> x, undo |-> u, redo |-> r]
  BY <1>1 DEF NewPartial
<1>5. NewStacks(h, x, y).partial = h.partial /\ NewStacks2(h, x, y).partial = h.partial
  BY <1>1, <1>2, <1>3
<1>6. HistShape(NewStacks(h, x, y)) /\ HistShape(NewStacks2(h, x, y)) /\ HistShape(NewPartial(h, x))
  BY <1>2, <1>3, <1>4 DEF HistShape
<1> QED BY <1>5, <1>6

\* A final delta leaves the open insertion alone, committing closes it.
LEMMA HistoryShapes ==
  ASSUME NEW h, HistShape(h), NEW data, NEW delta, NEW sel
  PROVE  /\ HistShape(PerformFinal(h, data, delta, sel))
         /\ PerformFinal(h, data, delta, sel).partial = h.partial
         /\ HistShape(PerformPartial(h, data, delta, sel))
         /\ HistShape(CommitPartial(h)) /\ CommitPartial(h).partial = << >>
<1>1. PICK x : PerformFinal(h, data, delta, sel) = NewStacks(h, x, << >>)
  BY Zenon DEF PerformFinal, NewStacks
<1>2. PICK w : PerformPartial(h, data, delta, sel) = NewPartial(h, w)
  BY Zenon DEF PerformPartial, NewPartial
<1>3. HistShape(CommitPartial(h)) /\ CommitPartial(h).partial = << >>
  <2>1. CASE h.partial = << >>
    BY <2>1 DEF CommitPartial
  <2>2. CASE h.partial # << >>
    <3>1. PICK v : CommitPartial(h) = [partial |-> << >>, undo |-> v, redo |-> << >>]
      BY <2>2, Zenon DEF CommitPartial
    <3>2. CommitPartial(h).partial = << >>
      BY <3>1
    <3> QED BY <3>1, <3>2, Zenon DEF HistShape
  <2> QED BY <2>1, <2>2
<1> QED BY <1>1, <1>2, <1>3, HistoryUpdates

\* Undo and redo leave the open insertion alone.
LEMMA HistoryPops ==
  ASSUME NEW h, HistShape(h), NEW data, NEW sel
  PROVE  /\ HistShape(UndoPop(h, data, sel)) /\ UndoPop(h, data, sel).partial = h.partial
         /\ HistShape(RedoPop(h, data, sel)) /\ RedoPop(h, data, sel).partial = h.partial
<1>1. PICK x, y : UndoPop(h, data, sel) = NewStacks(h, x, y)
  BY Zenon DEF UndoPop, NewStacks
<1>2. PICK v, w : RedoPop(h, data, sel) = NewStacks2(h, v, w)
  BY Zenon DEF RedoPop, NewStacks2
<1> QED BY <1>1, <1>2, HistoryUpdates

\* A buffer with a history put in its place.
LEMMA NewHistory ==
  ASSUME NEW b, BufShape(b), NEW c, NEW x, NEW q, NEW k, NEW y, NEW h, NEW z, HistShape(h),
         c = [data |-> x, sel |-> q, reg |-> k, dirty |-> y, hist |-> h, panic |-> z]
  PROVE  BufShape(c) /\ c.hist = h
<1>1. c.hist = h
  OBVIOUS
<1> QED BY <1>1 DEF BufShape

\* apply_delta_to_current_buffer: only an incomplete delta opens an insertion.
LEMMA EditShapes ==
  ASSUME NEW b, BufShape(b), NEW edits, NEW is_final \in BOOLEAN, NEW co, NEW to
  PROVE  /\ BufShape(ApplyEdits(b, edits, is_final, co, to))
         /\ is_final => Shuts(b, ApplyEdits(b, edits, is_final, co, to))
<1>1. PICK d, s, r, y, h, p :
        b = [data |-> d, sel |-> s, reg |-> r, dirty |-> y, hist |-> h, panic |-> p]
  BY DEF BufShape
<1>2. HistShape(h) /\ b.hist = h
  BY <1>1 DEF BufShape
<1>3. Keeps(b, Crash(b))
  BY BufUpdates
<1> DEFINE panics == \/ BuildPanics(Len(b.data), edits)
                     \/ ~is_final /\ ChainPanics(b.hist, b.data)
<1>4. CASE panics
  BY <1>3, <1>4 DEF ApplyEdits, Keeps, Shuts
<1>5. CASE ~panics
  <2> DEFINE D == Build(Len(b.data), edits)
             g == IF is_final THEN PerformFinal(h, b.data, D, b.sel)
                  ELSE PerformPartial(h, b.data, D, b.sel)
  <2>1. HistShape(g) /\ (is_final => g.partial = h.partial)
    BY <1>2, HistoryShapes
  <2>2. PICK c : c = [b EXCEPT !.data = ApplyDelta(b.data, D), !.hist = g, !.dirty = TRUE]
    OBVIOUS
  <2>3. PICK result : ApplyEdits(b, edits, is_final, co, to) = WithSelection(c, result)
    BY <1>2, <1>5, <2>2, Zenon DEF ApplyEdits
  <2> HIDE DEF g, D
  <2>4. c = [data |-> ApplyDelta(b.data, D), sel |-> s, reg |-> r, dirty |-> TRUE,
             hist |-> g, panic |-> p]
    BY <1>1, <2>2
  <2>5. BufShape(c) /\ c.hist = g
    BY <2>1, <2>4, NewHistory
  <2>6. Keeps(c, WithSelection(c, result))
    BY <2>5, WithSelectionKeeps
  <2> QED BY <1>2, <2>1, <2>3, <2>5, <2>6 DEF Keeps, Shuts
<1> QED BY <1>4, <1>5

\* Undo and redo, given the history that is left.
LEMMA RestoreShapes ==
  ASSUME NEW b, BufShape(b), NEW entry, NEW hist, HistShape(hist), hist.partial = b.hist.partial
  PROVE  Shuts(b, Restore(b, entry, hist))
<1>1. PICK d, s, r, y, h, p :
        b = [data |-> d, sel |-> s, reg |-> r, dirty |-> y, hist |-> h, panic |-> p]
  BY DEF BufShape
<1>2. CASE ApplyPanics(b.data, entry.delta)
  BY <1>2, BufUpdates DEF Restore, Keeps, Shuts
<1>3. CASE ~ApplyPanics(b.data, entry.delta)
  <2>1. PICK c : c = Restore(b, entry, hist)
    OBVIOUS
  <2>2. c = [data |-> ApplyDelta(b.data, entry.delta), sel |-> entry.sel, reg |-> r,
             dirty |-> TRUE, hist |-> hist, panic |-> p]
    BY <1>1, <1>3, <2>1 DEF Restore
  <2>3. BufShape(c) /\ c.hist = hist
    BY <2>2, NewHistory
  <2> QED BY <2>1, <2>3 DEF Shuts
<1> QED BY <1>2, <1>3

\* Every method of CurrentBuffer that a mode calls.
LEMMA OperationShapes ==
  ASSUME NEW b, BufShape(b)
  PROVE  /\ \A edits : Shuts(b, BufApplyDelta(b, edits))
         /\ \A edits : BufShape(ApplyIncompleteDelta(b, edits))
         /\ \A edits, co, to : BufShape(ApplyIncompleteDeltaOffsetCarets(b, edits, co, to))
         /\ BufShape(CommitDelta(b)) /\ CommitDelta(b).hist.partial = << >>
         /\ Shuts(b, PerformUndo(b)) /\ Shuts(b, PerformRedo(b))
         /\ Shuts(b, YankSelections(b)) /\ Shuts(b, DeleteSelected(b))
         /\ \A i : Shuts(b, RemoveSelection(b, i)) /\ Shuts(b, RetainSelection(b, i))
         /\ \A pattern : Shuts(b, SplitSearch(b, pattern)) /\ Shuts(b, CollapseSearch(b, pattern))
         /\ \A width : Shuts(b, SplitWidth(b, width))
         /\ \A result : Shuts(b, WithSelection(b, result))
         /\ \A sel : Shuts(b, [b EXCEPT !.sel = sel])
         /\ Shuts(b, b) /\ Shuts(b, Crash(b))
<1>1. /\ \A edits : Shuts(b, BufApplyDelta(b, edits))
      /\ \A edits : BufShape(ApplyIncompleteDelta(b, edits))
      /\ \A edits, co, to : BufShape(ApplyIncompleteDeltaOffsetCarets(b, edits, co, to))
  BY EditShapes DEF BufApplyDelta, ApplyIncompleteDelta, ApplyIncompleteDeltaOffsetCarets
<1>2. HistShape(b.hist)
  BY DEF BufShape
<1>3. BufShape(CommitDelta(b)) /\ CommitDelta(b).hist.partial = << >>
  <2>1. PICK d, s, r, y, h, p :
          b = [data |-> d, sel |-> s, reg |-> r, dirty |-> y, hist |-> h, panic |-> p]
    BY DEF BufShape
  <2>2. HistShape(CommitPartial(h)) /\ CommitPartial(h).partial = << >>
    BY <1>2, <2>1, HistoryShapes
  <2>3. PICK c : c = CommitDelta(b)
    OBVIOUS
  <2>4. c = [data |-> d, sel |-> s, reg |-> r, dirty |-> y, hist |-> CommitPartial(h), panic |-> p]
    BY <2>1, <2>3 DEF CommitDelta
  <2>5. BufShape(c) /\ c.hist = CommitPartial(h)
    BY <2>2, <2>4, NewHistory
  <2> QED BY <2>2, <2>3, <2>5
<1>4. Shuts(b, PerformUndo(b)) /\ Shuts(b, PerformRedo(b))
  <2> DEFINE g == UndoPop(b.hist, b.data, b.sel)
             f == RedoPop(b.hist, b.data, b.sel)
  <2>1. HistShape(g) /\ g.partial = b.hist.partial
    BY <1>2, HistoryPops
  <2>2. HistShape(f) /\ f.partial = b.hist.partial
    BY <1>2, HistoryPops
  <2> HIDE DEF g, f
  <2>3. \A e : Shuts(b, Restore(b, e, g)) /\ Shuts(b, Restore(b, e, f))
    BY <2>1, <2>2, RestoreShapes
  <2> QED BY <2>3, Zenon DEF PerformUndo, PerformRedo, g, f
<1>5. \A c : Keeps(b, c) => Shuts(b, c)
  BY DEF Keeps, Shuts
<1>6. Keeps(b, YankSelections(b))
  BY BufUpdates DEF YankSelections
<1>7. Shuts(b, DeleteSelected(b))
  <2>1. PICK c : c = YankSelections(b) /\ BufShape(c) /\ Shuts(b, c)
    BY <1>5, <1>6 DEF Keeps
  <2>2. Shuts(c, BufApplyDelta(c, Deletion(b.data, b.sel)))
    BY <2>1, EditShapes DEF BufApplyDelta
  <2> QED BY <2>1, <2>2 DEF DeleteSelected, Shuts
<1>8. \A i : Keeps(b, RemoveSelection(b, i)) /\ Keeps(b, RetainSelection(b, i))
  BY BufUpdates DEF RemoveSelection, RetainSelection
<1>9. \A pattern : Keeps(b, SplitSearch(b, pattern)) /\ Keeps(b, CollapseSearch(b, pattern))
  BY WithSelectionKeeps DEF SplitSearch, CollapseSearch
<1>10. \A width : Keeps(b, SplitWidth(b, width))
  BY WithSelectionKeeps, BufUpdates DEF SplitWidth
<1>11. \A result : Keeps(b, WithSelection(b, result))
  BY WithSelectionKeeps
<1>12. (\A sel : Keeps(b, [b EXCEPT !.sel = sel])) /\ Keeps(b, b) /\ Keeps(b, Crash(b))
  BY BufUpdates
<1> QED BY <1>1, <1>3, <1>4, <1>5, <1>6, <1>7, <1>8, <1>9, <1>10, <1>11, <1>12

-----------------------------------------------------------------------------
(* The invariant.                                                          *)

\* The buffer is a record with a history, and an insertion is open only in insert mode.
ShapeInv == BufShape(buf) /\ PartialOnlyInserting

\* A mode that may be entered with the buffer c.
Allowed(m, c) == BufShape(c) /\ (c.hist.partial # << >> => m.name \in {"Insert", "Crashed"})

\* The end of every transition.
LEMMA BecomeKeepsInv ==
  ASSUME ShapeInv, NEW m, NEW v, ScreenShape(v), Become(m, v),
         v.b.hist.partial # << >> => m.name \in {"Insert", "Crashed"}
  PROVE  ShapeInv'
<1>1. CASE v.b.panic /\ mode' = Crashed /\ UNCHANGED << buf, start, rows >>
  <2>1. buf' = buf /\ mode'.name = "Crashed"
    BY <1>1 DEF Crashed
  <2> QED BY <2>1 DEF ShapeInv, PartialOnlyInserting
<1>2. CASE mode' = m /\ buf' = v.b
  BY <1>2 DEF ShapeInv, PartialOnlyInserting, ScreenShape
<1> QED BY <1>1, <1>2 DEF Become

\* The three ways a mode ends a transition.
LEMMA PaintKeepsInv ==
  ASSUME ShapeInv, NEW m, NEW c, Allowed(m, c), Repaint(m, c) \/ RepaintAll(m, c) \/ Quiet(m, c)
  PROVE  ShapeInv'
<1>1. PICK v : v = Seen(c)
  OBVIOUS
<1>2. ScreenShape(v) /\ v.b = c
  <2>1. v = [b |-> c, start |-> start, rows |-> rows]
    BY <1>1 DEF Seen, Screen
  <2>2. v.b = c
    BY <2>1
  <2> QED BY <2>1, <2>2 DEF Allowed, ScreenShape
<1>3. PICK w : KeepsScreen(v, w) /\ Become(m, w)
  BY <1>1, <1>2, ChangesKeep, ScreenUpdates DEF Repaint, RepaintAll, Quiet
<1> QED BY <1>2, <1>3, BecomeKeepsInv DEF Allowed, KeepsScreen

\* What the keys make of the buffer, with a mode that goes with it.
LEMMA AllowedModes ==
  ASSUME ShapeInv
  PROVE  /\ BufShape(buf)
         /\ \A m, c : mode.name \notin {"Insert", "Crashed"} /\ Shuts(buf, c) => Allowed(m, c)
         /\ \A c : Shuts(buf, c) => Allowed(mode, c)
         /\ \A m, c : m.name = "Insert" /\ BufShape(c) => Allowed(m, c)
         /\ \A m, c : BufShape(c) /\ c.hist.partial = << >> => Allowed(m, c)
BY DEF ShapeInv, PartialOnlyInserting, Allowed, Shuts

\* Normal mode never calls an incomplete delta.
LEMMA NormalKeepsInv ==
  ASSUME ShapeInv, NEW k, NormalStep(k)
  PROVE  ShapeInv'
<1>1. mode.name = "Normal"
  BY DEF NormalStep, NormalCount, NormalMove, NormalExtend, NormalJump, NormalInsert, NormalAppend,
         NormalSwitch, NormalShape, NormalYank, NormalDelete, NormalChange, NormalPaste,
         NormalPick, NormalCycle, NormalUndo, NormalRedo, NormalKey
<1>2. ASSUME NEW m, NEW c, Shuts(buf, c), Repaint(m, c) \/ RepaintAll(m, c) \/ Quiet(m, c)
      PROVE  ShapeInv'
  BY <1>1, <1>2, AllowedModes, PaintKeepsInv
<1> USE DEF NormalKey
<1>3. BufShape(buf)
  BY AllowedModes
<1>4. CASE NormalCount(k)
  BY <1>2, <1>3, <1>4, OperationShapes DEF NormalCount
<1>5. CASE NormalMove(k)
  BY <1>2, <1>3, <1>5, OperationShapes DEF NormalMove, MapBuffer, MapEach
<1>6. CASE NormalExtend(k)
  BY <1>2, <1>3, <1>6, OperationShapes DEF NormalExtend, MapBuffer, MapEach
<1>7. CASE NormalJump(k)
  BY <1>2, <1>3, <1>7, OperationShapes DEF NormalJump, MapBuffer, MapEach
<1>8. CASE NormalInsert(k)
  BY <1>2, <1>3, <1>8, OperationShapes DEF NormalInsert, MapBuffer, MapEach
<1>9. CASE NormalAppend(k)
  BY <1>2, <1>3, <1>9, OperationShapes DEF NormalAppend, MapBuffer, MapEach
<1>10. CASE NormalSwitch(k)
  BY <1>2, <1>3, <1>10, OperationShapes DEF NormalSwitch
<1>11. CASE NormalShape(k)
  BY <1>2, <1>3, <1>11, OperationShapes DEF NormalShape, MapBuffer, MapEach
<1>12. CASE NormalYank(k)
  BY <1>2, <1>3, <1>12, OperationShapes DEF NormalYank
<1>13. CASE NormalDelete(k)
  BY <1>2, <1>3, <1>13, OperationShapes DEF NormalDelete
<1>14. CASE NormalChange(k)
  BY <1>2, <1>3, <1>14, OperationShapes DEF NormalChange
<1>15. CASE NormalPaste(k)
  BY <1>2, <1>3, <1>15, OperationShapes DEF NormalPaste, PasteRegister
<1>16. CASE NormalPick(k)
  BY <1>2, <1>3, <1>16, OperationShapes DEF NormalPick
<1>17. CASE NormalCycle(k)
  BY <1>2, <1>3, <1>17, OperationShapes DEF NormalCycle
<1>18. CASE NormalUndo(k)
  BY <1>2, <1>3, <1>18, OperationShapes DEF NormalUndo
<1>19. CASE NormalRedo(k)
  BY <1>2, <1>3, <1>19, OperationShapes DEF NormalRedo
<1> QED BY <1>4, <1>5, <1>6, <1>7, <1>8, <1>9, <1>10, <1>11, <1>12, <1>13, <1>14, <1>15, <1>16,
           <1>17, <1>18, <1>19 DEF NormalStep

\* Neither do jump, split and replace mode,
LEMMA OneKeyModesKeepInv ==
  ASSUME ShapeInv, NEW k, JumpToStep(k) \/ SplitCount(k) \/ SplitStep(k) \/ ReplaceStep(k)
  PROVE  ShapeInv'
<1>1. mode.name \in {"JumpTo", "Split", "Replace"}
  BY DEF JumpToStep, SplitCount, SplitStep, ReplaceStep
<1>2. ASSUME NEW m, NEW c, Shuts(buf, c), Repaint(m, c) \/ RepaintAll(m, c) \/ Quiet(m, c)
      PROVE  ShapeInv'
  BY <1>1, <1>2, AllowedModes, PaintKeepsInv
<1>3. BufShape(buf)
  BY AllowedModes
<1>4. CASE JumpToStep(k)
  BY <1>2, <1>3, <1>4, OperationShapes DEF JumpToStep, MapBuffer, MapEach
<1>5. CASE SplitCount(k)
  BY <1>2, <1>3, <1>5, OperationShapes DEF SplitCount
<1>6. CASE SplitStep(k)
  <2>1. ASSUME NEW pattern, Accept("Split", pattern) PROVE ShapeInv'
    BY <1>2, <1>3, <2>1, OperationShapes DEF Accept
  <2> QED BY <1>2, <1>3, <1>6, <2>1, OperationShapes DEF SplitStep
<1>7. CASE ReplaceStep(k)
  <2>1. ASSUME NEW ch, ReplaceSelected(ch) PROVE ShapeInv'
    BY <1>2, <1>3, <2>1, OperationShapes DEF ReplaceSelected
  <2> QED BY <1>2, <1>3, <1>7, <2>1, OperationShapes DEF ReplaceStep
<1> QED BY <1>4, <1>5, <1>6, <1>7

\* nor the search prompt.
LEMMA SearchKeepsInv ==
  ASSUME ShapeInv, NEW k, SearchStep(k)
  PROVE  ShapeInv'
<1>1. mode.name = "Search"
  BY DEF SearchStep, SearchInsert, SearchRemove, SearchCursor, SearchChar, SearchLeave
<1>2. ASSUME NEW m, NEW c, Shuts(buf, c), Repaint(m, c) \/ RepaintAll(m, c) \/ Quiet(m, c)
      PROVE  ShapeInv'
  BY <1>1, <1>2, AllowedModes, PaintKeepsInv
<1>3. BufShape(buf) /\ Shuts(buf, buf)
  BY AllowedModes, OperationShapes
<1>4. ASSUME NEW hex, NEW half, NEW pattern, NEW cursor, Prompt(hex, half, pattern, cursor)
      PROVE  ShapeInv'
  BY <1>2, <1>3, <1>4 DEF Prompt
<1>5. ASSUME NEW next, NEW pattern, Accept(next, pattern) PROVE ShapeInv'
  BY <1>2, <1>3, <1>5, OperationShapes DEF Accept
<1>6. CASE SearchInsert(k)
  BY <1>4, <1>6 DEF SearchInsert
<1>7. CASE SearchRemove(k)
  BY <1>4, <1>7 DEF SearchRemove
<1>8. CASE SearchCursor(k)
  BY <1>4, <1>8 DEF SearchCursor
<1>9. CASE SearchChar(k)
  BY <1>4, <1>9 DEF SearchChar
<1>10. CASE SearchLeave(k)
  BY <1>2, <1>3, <1>5, <1>10 DEF SearchLeave
<1> QED BY <1>6, <1>7, <1>8, <1>9, <1>10 DEF SearchStep

\* Insert mode stays in insert mode until <Esc> has committed the insertion.
LEMMA InsertKeepsInv ==
  ASSUME ShapeInv, NEW k, InsertStep(k)
  PROVE  ShapeInv'
<1> USE DEF InsertKey
<1>1. mode.name = "Insert"
  BY DEF InsertStep, InsertExit, InsertNull, InsertSwitch, InsertRemove, InsertMove, InsertChar
<1>2. BufShape(buf)
  BY AllowedModes
<1>3. ASSUME NEW m, NEW c, m.name = "Insert", BufShape(c),
             Repaint(m, c) \/ RepaintAll(m, c) \/ Quiet(m, c)
      PROVE  ShapeInv'
  BY <1>3, AllowedModes, PaintKeepsInv
<1>4. /\ \A kind, hex, half : InsertMode(kind, hex, half).name = "Insert"
      /\ Resume.name = "Insert"
  BY DEF InsertMode, Resume
<1>5. \A b, kind, half, digit, text :
        BufShape(b) => /\ BufShape(AsciiInsertion(b, kind, text))
                       /\ BufShape(HexInsertion(b, kind, half, digit))
  BY OperationShapes DEF AsciiInsertion, HexInsertion
<1>6. CASE InsertExit(k)
  BY <1>2, <1>6, OperationShapes, AllowedModes, PaintKeepsInv DEF InsertExit
<1>7. CASE InsertNull(k)
  BY <1>2, <1>3, <1>4, <1>7, OperationShapes DEF InsertNull
<1>8. CASE InsertSwitch(k)
  BY <1>2, <1>3, <1>4, <1>8 DEF InsertSwitch
<1>9. CASE InsertRemove(k)
  BY <1>1, <1>2, <1>3, <1>4, <1>9, OperationShapes DEF InsertRemove
<1>10. CASE InsertMove(k)
  <2>1. PICK done, result : BufShape(done) /\ Repaint(Resume, WithSelection(done, result))
    BY <1>2, <1>5, <1>10 DEF InsertMove, MapBuffer, MapEach
  <2> QED BY <1>3, <1>4, <2>1, OperationShapes DEF Shuts
<1>11. CASE InsertChar(k)
  <2>1. PICK m, c : m.name = "Insert" /\ BufShape(c) /\ RepaintAll(m, c)
    <3>1. CASE RepaintAll(mode, AsciiInsertion(buf, mode.kind, Utf8[k]))
      BY <1>1, <1>2, <1>5, <3>1
    <3>2. ASSUME NEW half, NEW digit,
                 RepaintAll(InsertMode(mode.kind, TRUE, half),
                            HexInsertion(buf, mode.kind, mode.half, digit))
          PROVE  \E m, c : m.name = "Insert" /\ BufShape(c) /\ RepaintAll(m, c)
      <4>1. BufShape(HexInsertion(buf, mode.kind, mode.half, digit))
        BY <1>2, <1>5
      <4> QED BY <1>4, <3>2, <4>1, Zenon
    <3> QED BY <1>11, <3>1, <3>2, Zenon DEF InsertChar
  <2> QED BY <1>3, <2>1
<1> QED BY <1>6, <1>7, <1>8, <1>9, <1>10, <1>11 DEF InsertStep

\* Scrolling and resizing keep the mode.
LEMMA DefaultKeepsInv ==
  ASSUME ShapeInv, NEW k, ScrollKey(k) \/ Resize(k)
  PROVE  ShapeInv'
<1>1. BufShape(buf)
  BY AllowedModes
<1>2. ASSUME NEW h PROVE ScreenShape(Screen(buf, start, h)) /\ Screen(buf, start, h).b = buf
  BY <1>1 DEF Screen, ScreenShape
<1>3. PICK v, w : ScreenShape(v) /\ v.b = buf /\ KeepsScreen(v, w) /\ Become(mode, w)
  BY <1>2, ChangesKeep, DrawKeeps DEF ScrollKey, Resize, Seen
<1> QED BY <1>3, BecomeKeepsInv DEF ShapeInv, PartialOnlyInserting, KeepsScreen

\* A new buffer has no insertion open.
LEMMA InitShape == Init => ShapeInv
<1> SUFFICES ASSUME Init PROVE ShapeInv
  OBVIOUS
<1>1. PICK b : b = NewBuffer(<< >>)
  OBVIOUS
<1>2. BufShape(b) /\ b.hist.partial = << >>
  <2>1. b = [data |-> << >>, sel |-> Cleared, reg |-> << << >> >>, dirty |-> FALSE,
             hist |-> EmptyHistory, panic |-> FALSE]
    BY <1>1 DEF NewBuffer
  <2>2. HistShape(EmptyHistory) /\ EmptyHistory.partial = << >>
    BY DEF EmptyHistory, HistShape
  <2>3. b.hist = EmptyHistory
    BY <2>1
  <2> QED BY <2>1, <2>2, <2>3 DEF BufShape
<1>3. PICK v : v = Screen(b, 0, rows)
  OBVIOUS
<1>4. ScreenShape(v) /\ v.b = b
  BY <1>2, <1>3 DEF Screen, ScreenShape
<1>5. PICK w : w = Load(v, ChunkSize(v)) /\ KeepsScreen(v, w)
  BY <1>4, LoadKeeps
<1>6. KeepsScreen(v, Draw(w))
  BY <1>5, DrawKeeps, KeepsOn DEF KeepsScreen
<1>7. buf = Draw(w).b
  BY <1>1, <1>3, <1>5 DEF Init
<1> QED BY <1>2, <1>4, <1>6, <1>7 DEF ShapeInv, PartialOnlyInserting, KeepsScreen, ScreenShape

\* An insertion is open only in insert mode: no final delta, undo or redo can come
\* before commit_delta has closed it (src/modes/insert.rs, src/history.rs).
THEOREM InsertionEndsWithMode == Spec => []PartialOnlyInserting
<1>1. ShapeInv /\ [Next]_vars => ShapeInv'
  <2> SUFFICES ASSUME ShapeInv, [Next]_vars PROVE ShapeInv'
    OBVIOUS
  <2>1. CASE Next
    BY <2>1, NormalKeepsInv, OneKeyModesKeepInv, SearchKeepsInv, InsertKeepsInv, DefaultKeepsInv
       DEF Next
  <2>2. CASE UNCHANGED vars
    BY <2>2 DEF vars, ShapeInv, PartialOnlyInserting
  <2> QED BY <2>1, <2>2
<1>2. ShapeInv => PartialOnlyInserting
  BY DEF ShapeInv
<1> QED BY <1>1, <1>2, InitShape, PTL DEF Spec

-----------------------------------------------------------------------------
(* The search prompt: InsertAt and RemoveAt on the pattern.                *)

\* Inserting one piece into a pattern.
LEMMA InsertAtProperties ==
  ASSUME NEW S, NEW s \in Seq(S), NEW i \in 1 .. Len(s) + 1, NEW e \in S
  PROVE  /\ InsertAt(s, i, e) \in Seq(S)
         /\ Len(InsertAt(s, i, e)) = Len(s) + 1
         /\ InsertAt(s, i, e)[i] = e
<1> DEFINE a == SubSeq(s, 1, i - 1)
           c == SubSeq(s, i, Len(s))
           b == a \o << e >>
<1>1. /\ i \in Nat /\ i - 1 \in Nat /\ i - 1 <= Len(s) /\ Len(s) \in Nat
      /\ i - 1 = (i - 1) - 1 + 1 /\ (i - 1) + 1 = i /\ Len(s) + 1 - i \in Nat
  BY LenProperties
<1>2. a \in Seq(S) /\ Len(a) = i - 1
  BY <1>1, SubSeqProperties
<1>3. c \in Seq(S) /\ Len(c) = Len(s) + 1 - i
  BY <1>1, SubSeqProperties
<1> HIDE DEF a, c
<1>4. << e >> \in Seq(S) /\ Len(<< e >>) = 1 /\ << e >>[1] = e
  OBVIOUS
<1>5. b \in Seq(S) /\ Len(b) = i /\ b[i] = e
  BY <1>1, <1>2, <1>4, ConcatProperties
<1> HIDE DEF b
<1>6. b \o c \in Seq(S) /\ Len(b \o c) = Len(s) + 1 /\ (b \o c)[i] = e
  BY <1>1, <1>3, <1>5, ConcatProperties
<1> QED BY <1>6 DEF InsertAt, a, b, c

-----------------------------------------------------------------------------
(* The prompt's invariant is about the mode alone.                         *)

\* A prompt whose cursor is within the pattern, on the half byte if there is one.
Prompted(hex, half, pattern, cursor) ==
  /\ \E S : pattern \in Seq(S)
  /\ cursor \in Nat /\ cursor <= Len(pattern)
  /\ half # NoHalf => hex /\ cursor < Len(pattern) /\ pattern[cursor + 1] = half

PromptOK(m) ==
  m.name = "Search" =>
    \E next, hex, half, pattern, cursor :
      m = SearchMode(next, hex, half, pattern, cursor) /\ Prompted(hex, half, pattern, cursor)

\* Modes other than the prompt.
LEMMA OtherModes ==
  /\ \A count : PromptOK(NormalMode(count)) /\ PromptOK(SplitMode(count))
  /\ \A extend : PromptOK(JumpToMode(extend))
  /\ \A kind, hex, half : PromptOK(InsertMode(kind, hex, half))
  /\ \A hex, half : PromptOK(ReplaceMode(hex, half))
  /\ PromptOK(Normal) /\ PromptOK(Crashed) /\ PromptOK(Resume)
BY DEF PromptOK, NormalMode, SplitMode, JumpToMode, InsertMode, ReplaceMode, Normal, Crashed, Resume

\* The prompt as s, S, / and ? open it.
LEMMA NewPrompt == \A next, hex : PromptOK(SearchMode(next, hex, NoHalf, << >>, 0))
<1>1. << >> \in Seq({}) /\ Len(<< >>) = 0
  OBVIOUS
<1>2. \A hex : Prompted(hex, NoHalf, << >>, 0)
  BY <1>1 DEF Prompted
<1> QED BY <1>2, Zenon DEF PromptOK

\* A transition ends in its mode, or in a panic.
LEMMA BecomesMode ==
  ASSUME NEW m, NEW c, PromptOK(m),
         (\E v : Become(m, v)) \/ Repaint(m, c) \/ RepaintAll(m, c) \/ Quiet(m, c)
  PROVE  PromptOK(mode)'
<1>1. mode' = m \/ mode' = Crashed
  BY DEF Repaint, RepaintAll, Quiet, Become
<1> QED BY <1>1, OtherModes DEF PromptOK

\* The prompt goes on with a pattern and a cursor that fit.
LEMMA PromptKeeps ==
  ASSUME NEW hex, NEW half, NEW pattern, NEW cursor, Prompted(hex, half, pattern, cursor),
         Prompt(hex, half, pattern, cursor)
  PROVE  PromptOK(mode)'
<1>1. PromptOK(SearchMode(mode.next, hex, half, pattern, cursor))
  BY Zenon DEF PromptOK
<1> QED BY <1>1, BecomesMode DEF Prompt

\* Keys of normal mode open a prompt or none.
LEMMA NormalKeepsPrompt ==
  ASSUME PromptOK(mode), NEW k, NormalStep(k)
  PROVE  PromptOK(mode)'
<1>1. CASE NormalCount(k)
  BY <1>1, OtherModes, BecomesMode DEF NormalCount
<1>2. CASE NormalMove(k)
  BY <1>2, OtherModes, BecomesMode DEF NormalMove, MapBuffer, MapEach
<1>3. CASE NormalExtend(k)
  BY <1>3, OtherModes, BecomesMode DEF NormalExtend, MapBuffer, MapEach
<1>4. CASE NormalJump(k)
  BY <1>4, OtherModes, BecomesMode DEF NormalJump, MapBuffer, MapEach
<1>5. CASE NormalInsert(k)
  BY <1>5, OtherModes, BecomesMode DEF NormalInsert, MapBuffer, MapEach
<1>6. CASE NormalAppend(k)
  BY <1>6, OtherModes, BecomesMode DEF NormalAppend, MapBuffer, MapEach
<1>7. CASE NormalSwitch(k)
  BY <1>7, OtherModes, NewPrompt, BecomesMode DEF NormalSwitch
<1>8. CASE NormalShape(k)
  BY <1>8, BecomesMode DEF NormalShape, MapBuffer, MapEach
<1>9. CASE NormalYank(k) \/ NormalDelete(k) \/ NormalPaste(k)
  BY <1>9, BecomesMode DEF NormalYank, NormalDelete, NormalPaste
<1>10. CASE NormalChange(k)
  BY <1>10, OtherModes, BecomesMode DEF NormalChange
<1>11. CASE NormalPick(k)
  BY <1>11, OtherModes, BecomesMode DEF NormalPick
<1>12. CASE NormalCycle(k) \/ NormalUndo(k) \/ NormalRedo(k)
  BY <1>12, OtherModes, BecomesMode DEF NormalCycle, NormalUndo, NormalRedo
<1> QED BY <1>1, <1>2, <1>3, <1>4, <1>5, <1>6, <1>7, <1>8, <1>9, <1>10, <1>11, <1>12 DEF NormalStep

\* An accepted pattern leads back to normal mode.
LEMMA AcceptKeepsPrompt ==
  ASSUME PromptOK(mode), NEW next, NEW pattern, Accept(next, pattern)
  PROVE  PromptOK(mode)'
BY OtherModes, BecomesMode DEF Accept

\* Split mode opens a prompt or none; jump and replace mode open none.
LEMMA OneKeyModesKeepPrompt ==
  ASSUME PromptOK(mode), NEW k, JumpToStep(k) \/ SplitCount(k) \/ SplitStep(k) \/ ReplaceStep(k)
  PROVE  PromptOK(mode)'
<1>1. CASE JumpToStep(k)
  BY <1>1, OtherModes, BecomesMode DEF JumpToStep, MapBuffer, MapEach
<1>2. CASE SplitCount(k)
  BY <1>2, OtherModes, BecomesMode DEF SplitCount
<1>3. CASE SplitStep(k)
  BY <1>3, OtherModes, NewPrompt, BecomesMode, AcceptKeepsPrompt DEF SplitStep
<1>4. CASE ReplaceStep(k)
  BY <1>4, OtherModes, BecomesMode DEF ReplaceStep, ReplaceSelected
<1> QED BY <1>1, <1>2, <1>3, <1>4

\* Insert mode opens none.
LEMMA InsertKeepsPrompt ==
  ASSUME PromptOK(mode), NEW k, InsertStep(k)
  PROVE  PromptOK(mode)'
<1>1. CASE InsertExit(k) \/ InsertNull(k) \/ InsertSwitch(k)
  BY <1>1, OtherModes, BecomesMode DEF InsertExit, InsertNull, InsertSwitch
<1>2. CASE InsertRemove(k)
  BY <1>2, OtherModes, BecomesMode DEF InsertRemove
<1>3. CASE InsertMove(k)
  BY <1>3, OtherModes, BecomesMode DEF InsertMove, MapBuffer, MapEach
<1>4. CASE InsertChar(k)
  <2>1. \A half : PromptOK(InsertMode(mode.kind, TRUE, half))
    BY OtherModes
  <2> QED BY <1>4, <2>1, BecomesMode, Zenon DEF InsertChar
<1> QED BY <1>1, <1>2, <1>3, <1>4 DEF InsertStep

\* The keys of the prompt itself.
LEMMA SearchKeepsPrompt ==
  ASSUME PromptOK(mode), NEW k, SearchStep(k)
  PROVE  PromptOK(mode)'
<1>1. mode.name = "Search"
  BY DEF SearchStep, SearchInsert, SearchRemove, SearchCursor, SearchChar, SearchLeave
<1>2. PICK hex, half, pattern, cursor :
        /\ mode.hex = hex /\ mode.half = half /\ mode.pattern = pattern /\ mode.cursor = cursor
        /\ Prompted(hex, half, pattern, cursor)
  BY <1>1 DEF PromptOK, SearchMode
<1>3. PICK S : pattern \in Seq(S)
  BY <1>2 DEF Prompted
<1>4. /\ cursor \in Nat /\ cursor <= Len(pattern) /\ Len(pattern) \in Nat
      /\ half # NoHalf => hex /\ cursor < Len(pattern) /\ pattern[cursor + 1] = half
  BY <1>2, <1>3, LenProperties DEF Prompted
<1>5. PICK at : at = PromptCursor /\ at \in Nat /\ at <= Len(pattern)
  BY <1>2, <1>4 DEF PromptCursor
<1>6. ASSUME NEW h, NEW p, NEW c \in Nat, c <= Len(p), NEW T, p \in Seq(T), Prompt(h, NoHalf, p, c)
      PROVE  PromptOK(mode)'
  BY <1>6, PromptKeeps DEF Prompted
<1>7. ASSUME NEW i \in 1 .. Len(pattern) + 1, NEW e
      PROVE  /\ \E T : InsertAt(pattern, i, e) \in Seq(T)
             /\ Len(InsertAt(pattern, i, e)) = Len(pattern) + 1
             /\ InsertAt(pattern, i, e)[i] = e
  <2>1. pattern \in Seq(S \cup {e}) /\ e \in S \cup {e}
    BY <1>3
  <2> QED BY <2>1, InsertAtProperties
<1>8. CASE SearchInsert(k)
  <2>1. PICK e : Prompt(mode.hex, NoHalf, InsertAt(pattern, at + 1, e), at + 1)
    BY <1>2, <1>5, <1>8 DEF SearchInsert
  <2>2. at + 1 \in 1 .. Len(pattern) + 1 /\ at + 1 \in Nat
    BY <1>4, <1>5
  <2> QED BY <1>4, <1>5, <1>6, <1>7, <2>1, <2>2
<1>9. CASE SearchRemove(k)
  <2>1. ASSUME at # 0, Prompt(mode.hex, NoHalf, RemoveAt(pattern, at), at - 1)
        PROVE  PromptOK(mode)'
    <3>1. at \in 1 .. Len(pattern) /\ at - 1 \in Nat
      BY <1>4, <1>5, <2>1
    <3>2. RemoveAt(pattern, at) \in Seq(S) /\ Len(RemoveAt(pattern, at)) = Len(pattern) - 1
      BY <1>3, <3>1, RemoveAtProperties
    <3> QED BY <1>4, <1>5, <1>6, <2>1, <3>1, <3>2
  <2>2. ASSUME at < Len(pattern), Prompt(mode.hex, NoHalf, RemoveAt(pattern, at + 1), at)
        PROVE  PromptOK(mode)'
    <3>1. at + 1 \in 1 .. Len(pattern)
      BY <1>4, <1>5, <2>2
    <3>2. /\ RemoveAt(pattern, at + 1) \in Seq(S)
          /\ Len(RemoveAt(pattern, at + 1)) = Len(pattern) - 1
      BY <1>3, <3>1, RemoveAtProperties
    <3> QED BY <1>4, <1>5, <1>6, <2>2, <3>2
  <2>3. ASSUME Prompt(mode.hex, NoHalf, pattern, at)
        PROVE  PromptOK(mode)'
    BY <1>3, <1>5, <1>6, <2>3
  <2> QED BY <1>2, <1>5, <1>9, <2>1, <2>2, <2>3 DEF SearchRemove
<1>10. CASE SearchCursor(k)
  <2>1. ASSUME NEW h, NEW c \in Nat, c <= Len(pattern), Prompt(h, NoHalf, pattern, c)
        PROVE  PromptOK(mode)'
    BY <1>3, <1>6, <2>1
  <2>2. /\ Greater(0, at - 1) \in Nat /\ Greater(0, at - 1) <= Len(pattern)
        /\ Lesser(Len(pattern), at + 1) \in Nat /\ Lesser(Len(pattern), at + 1) <= Len(pattern)
    BY <1>4, <1>5 DEF Greater, Lesser
  <2> QED BY <1>2, <1>5, <1>10, <2>1, <2>2 DEF SearchCursor
<1>11. CASE SearchChar(k)
  <2>1. cursor + 1 \in 1 .. Len(pattern) + 1 /\ cursor + 1 \in Nat
    BY <1>4
  <2>2. ASSUME ~hex, NEW e, Prompt(FALSE, half, InsertAt(pattern, cursor + 1, e), cursor + 1)
        PROVE  PromptOK(mode)'
    <3>1. PICK p : p = InsertAt(pattern, cursor + 1, e)
      OBVIOUS
    <3>2. PICK T : p \in Seq(T)
      BY <1>7, <2>1, <3>1
    <3>3. Len(p) = Len(pattern) + 1
      BY <1>7, <2>1, <3>1
    <3>4. Prompt(FALSE, NoHalf, p, cursor + 1)
      BY <1>4, <2>2, <3>1
    <3>5. cursor + 1 <= Len(p)
      BY <1>4, <3>3
    <3> QED BY <1>6, <2>1, <3>2, <3>4, <3>5
  <2>3. ASSUME NEW e, Prompt(TRUE, e, InsertAt(pattern, cursor + 1, e), cursor)
        PROVE  PromptOK(mode)'
    <3>1. Prompted(TRUE, e, InsertAt(pattern, cursor + 1, e), cursor)
      BY <1>4, <1>7, <2>1 DEF Prompted
    <3> QED BY <2>3, <3>1, PromptKeeps
  <2>4. ASSUME half # NoHalf, NEW e,
               Prompt(TRUE, NoHalf, [pattern EXCEPT ![cursor + 1] = e], cursor + 1)
        PROVE  PromptOK(mode)'
    <3>1. pattern \in Seq(S \cup {e}) /\ e \in S \cup {e} /\ cursor + 1 \in 1 .. Len(pattern)
      BY <1>3, <1>4, <2>4
    <3>2. PICK p : p = [pattern EXCEPT ![cursor + 1] = e]
      OBVIOUS
    <3>3. p \in Seq(S \cup {e}) /\ Len(p) = Len(pattern)
      BY <3>1, <3>2, ExceptSeq
    <3>4. cursor + 1 <= Len(p)
      BY <1>4, <2>4, <3>3
    <3>5. Prompt(TRUE, NoHalf, p, cursor + 1)
      BY <2>4, <3>2
    <3> QED BY <1>6, <2>1, <3>3, <3>4, <3>5
  <2> QED BY <1>2, <1>11, <2>2, <2>3, <2>4 DEF SearchChar
<1>12. CASE SearchLeave(k)
  BY <1>12, OtherModes, BecomesMode, AcceptKeepsPrompt DEF SearchLeave
<1> QED BY <1>8, <1>9, <1>10, <1>11, <1>12 DEF SearchStep

\* The prompt's invariant holds: each step leaves a prompt that fits, or none.
LEMMA PromptInvariant == Spec => []PromptOK(mode)
<1>1. Init => PromptOK(mode)
  BY OtherModes DEF Init
<1>2. PromptOK(mode) /\ [Next]_vars => PromptOK(mode)'
  <2> SUFFICES ASSUME PromptOK(mode), [Next]_vars PROVE PromptOK(mode)'
    OBVIOUS
  <2>1. ASSUME NEW k, ScrollKey(k) \/ Resize(k) PROVE PromptOK(mode)'
    BY <2>1, BecomesMode DEF ScrollKey, Resize
  <2>2. CASE Next
    BY <2>1, <2>2, NormalKeepsPrompt, OneKeyModesKeepPrompt, InsertKeepsPrompt, SearchKeepsPrompt
       DEF Next
  <2>3. CASE UNCHANGED vars
    BY <2>3 DEF vars, PromptOK
  <2> QED BY <2>2, <2>3
<1> QED BY <1>1, <1>2, PTL DEF Spec

\* The cursor of the search prompt stays within the pattern, on the half byte while
\* one is being typed: Pattern::insert_half_literal, remove and the slices of the
\* prompt index there (src/modes/search.rs).
THEOREM PromptAlwaysInPattern == Spec => []PromptCursorInPattern
<1>1. PromptOK(mode) => PromptCursorInPattern
  BY DEF PromptOK, Prompted, PromptCursorInPattern, SearchMode
<1> QED BY <1>1, PromptInvariant, PTL

-----------------------------------------------------------------------------
(* Well-formed buffers and the methods of CurrentBuffer.                   *)

\* The entries of a history: a delta for some length and a selection that keeps the
\* promises of struct Selection.
AnyDelta == UNION {Deltas(n) : n \in Nat}
Entries  == [delta : AnyDelta, sel : Selections]
Hists    == [partial : Seq(Entries), undo : Seq(Entries), redo : Seq(Entries)]

Registers == Seq(Text) \ {<< >>}

Bufs == [data : Text, sel : Selections, reg : Registers, dirty : BOOLEAN, hist : Hists,
         panic : BOOLEAN]

\* The fields of a buffer, and a buffer put together.
LEMMA BufFields ==
  ASSUME NEW b \in Bufs
  PROVE  /\ b.data \in Text /\ b.sel \in Selections /\ b.reg \in Registers
         /\ b.dirty \in BOOLEAN /\ b.hist \in Hists /\ b.panic \in BOOLEAN
         /\ Len(b.data) \in Nat
BY TextElements DEF Bufs

\* The setters of CurrentBuffer.
LEMMA BufSets ==
  ASSUME NEW b \in Bufs
  PROVE  /\ \A x \in Text : [b EXCEPT !.data = x] \in Bufs /\ [b EXCEPT !.data = x].data = x
         /\ \A x \in Selections : [b EXCEPT !.sel = x] \in Bufs /\ [b EXCEPT !.sel = x].data = b.data
         /\ \A x \in Registers : [b EXCEPT !.reg = x] \in Bufs /\ [b EXCEPT !.reg = x].data = b.data
         /\ \A x \in Hists : [b EXCEPT !.hist = x] \in Bufs /\ [b EXCEPT !.hist = x].data = b.data
         /\ Crash(b) \in Bufs /\ Crash(b).data = b.data /\ Crash(b).panic
<1> USE DEF Bufs
<1>1. ASSUME NEW x \in Text
      PROVE  [b EXCEPT !.data = x] \in Bufs /\ [b EXCEPT !.data = x].data = x
  OBVIOUS
<1>2. ASSUME NEW x \in Selections
      PROVE  [b EXCEPT !.sel = x] \in Bufs /\ [b EXCEPT !.sel = x].data = b.data
  OBVIOUS
<1>3. ASSUME NEW x \in Registers
      PROVE  [b EXCEPT !.reg = x] \in Bufs /\ [b EXCEPT !.reg = x].data = b.data
  OBVIOUS
<1>4. ASSUME NEW x \in Hists
      PROVE  [b EXCEPT !.hist = x] \in Bufs /\ [b EXCEPT !.hist = x].data = b.data
  OBVIOUS
<1>5. Crash(b) \in Bufs /\ Crash(b).data = b.data /\ Crash(b).panic
  BY DEF Crash
<1> HIDE DEF Bufs
<1> QED BY <1>1, <1>2, <1>3, <1>4, <1>5

-----------------------------------------------------------------------------
(* What an operation does to the bytes, the history and the selection.     *)

\* c has the bytes, the history and the flags of b.
Same(b, c) == c.data = b.data /\ c.hist = b.hist /\ c.dirty = b.dirty /\ c.panic = b.panic

\* If b has only one region flagged main, so has c.
Marks(b, c) == OneMain(b.sel) => OneMain(c.sel)

\* If the selection of b lies within its bytes, so does that of c.
Ends(b, c) == Inside(b.sel, Len(b.data)) => Inside(c.sel, Len(c.data))

\* Unless it panics, an operation that takes b to c is about the selection alone, and
\* does not reach past the bytes.
Chooses(b, c)  == ~c.panic => Same(b, c) /\ Marks(b, c)
Confines(b, c) == ~c.panic => Ends(b, c)

\* Assigning the selection or the register of a buffer.
LEMMA Assigned ==
  ASSUME NEW b \in Bufs
  PROVE  /\ \A x \in Selections : [b EXCEPT !.sel = x].sel = x /\ Same(b, [b EXCEPT !.sel = x])
         /\ \A x \in Registers : [b EXCEPT !.reg = x].sel = b.sel /\ Same(b, [b EXCEPT !.reg = x])
<1>1. ASSUME NEW x \in Selections, NEW c, c = [b EXCEPT !.sel = x] PROVE c.sel = x /\ Same(b, c)
  BY <1>1 DEF Bufs, Same
<1>2. ASSUME NEW x \in Registers, NEW c, c = [b EXCEPT !.reg = x] PROVE c.sel = b.sel /\ Same(b, c)
  BY <1>2 DEF Bufs, Same
<1> QED BY <1>1, <1>2

\* Taking over the selection of a map_selections call that did not panic.
LEMMA WithSelectionIs ==
  ASSUME NEW b \in Bufs, NEW r, ~r.panic => r.sel \in Selections, NEW c, c = WithSelection(b, r)
  PROVE  /\ c \in Bufs /\ c.data = b.data
         /\ ~c.panic => ~r.panic /\ c.sel = r.sel /\ Same(b, c)
<1>1. CASE r.panic
  <2>1. c = Crash(b)
    BY <1>1 DEF WithSelection
  <2>2. c \in Bufs /\ c.data = b.data /\ c.panic
    BY <2>1, BufSets
  <2> QED BY <2>2, Zenon
<1>2. CASE ~r.panic
  <2>1. PICK x \in Selections : x = r.sel
    BY <1>2
  <2>2. c = [b EXCEPT !.sel = x]
    BY <1>2, <2>1 DEF WithSelection
  <2>3. c \in Bufs /\ c.data = b.data
    BY <2>2, BufSets
  <2>4. c.sel = x /\ Same(b, c)
    BY <2>2, Assigned
  <2> QED BY <1>2, <2>1, <2>3, <2>4, Zenon
<1> QED BY <1>1, <1>2

\* Mapping the buffer's selection to the regions news leaves a well-formed buffer
\* with the same bytes, be it a panicked one,
MapsWell(b, news) ==
  /\ WithSelection(b, MapSelections(b.sel, news)) \in Bufs
  /\ WithSelection(b, MapSelections(b.sel, news)).data = b.data
  /\ Chooses(b, WithSelection(b, MapSelections(b.sel, news)))

\* and does not reach past the bytes.
MapsInside(b, news) == Confines(b, WithSelection(b, MapSelections(b.sel, news)))

\* A map_selections call on the buffer's selection, with regions in order.
LEMMA MapKeepsBuf ==
  ASSUME NEW b \in Bufs, NEW news, InOrder(news, Len(b.sel.regions)),
         NEW res, res = MapSelections(b.sel, news),
         ~res.panic /\ OneMain(b.sel) => OneMain(res.sel)
  PROVE  /\ MapsWell(b, news)
         /\ (~res.panic /\ Inside(b.sel, Len(b.data)) => Inside(res.sel, Len(b.data)))
              => MapsInside(b, news)
<1>1. b.sel \in Selections
  BY BufFields
<1>2. ~res.panic => res.sel \in Selections
  BY <1>1, MapKeepsSorted
<1>3. PICK c : c = WithSelection(b, res)
  OBVIOUS
<1>4. c \in Bufs /\ c.data = b.data
  BY <1>2, <1>3, WithSelectionIs
<1>5. ASSUME ~c.panic PROVE ~res.panic /\ c.sel = res.sel /\ Same(b, c)
  BY <1>2, <1>3, <1>5, WithSelectionIs
<1>6. Chooses(b, c)
  BY <1>5 DEF Chooses, Marks
<1>7. (~res.panic /\ Inside(b.sel, Len(b.data)) => Inside(res.sel, Len(b.data))) => Confines(b, c)
  BY <1>4, <1>5 DEF Confines, Ends
<1> QED BY <1>3, <1>4, <1>6, <1>7 DEF MapsWell, MapsInside

\* The same, for a closure that makes one region of one.
LEMMA SteadyKeepsBuf ==
  ASSUME NEW b \in Bufs, NEW g, Steady(g), NEW news,
         \A i \in DOMAIN b.sel.regions : news[i] = << g[b.sel.regions[i]] >>
  PROVE  MapsWell(b, news) /\ (Bounded(g, Len(b.data)) => MapsInside(b, news))
<1>1. b.sel \in Selections /\ DOMAIN b.sel.regions = 1 .. Len(b.sel.regions)
  BY BufFields, SelectionFields
<1>2. PICK s \in Selections, l \in Nat : s = b.sel /\ l = Len(b.data)
  BY BufFields
<1>3. PICK res : res = MapSelections(s, news)
  OBVIOUS
<1>4. InOrder(news, Len(s.regions))
  BY <1>1, <1>2, SteadyInOrder
<1>5. ASSUME ~res.panic
      PROVE  /\ OneMain(s) => OneMain(res.sel)
             /\ \A n \in Nat : Bounded(g, n) /\ Inside(s, n) => Inside(res.sel, n)
  BY <1>1, <1>2, <1>3, <1>5, SteadyMaps
<1>6. ~res.panic /\ OneMain(s) => OneMain(res.sel)
  BY <1>5
<1>7. /\ MapsWell(b, news)
      /\ (~res.panic /\ Inside(b.sel, Len(b.data)) => Inside(res.sel, Len(b.data)))
           => MapsInside(b, news)
  BY <1>2, <1>3, <1>4, <1>6, MapKeepsBuf
<1> QED BY <1>2, <1>5, <1>7

\* The closures of the move and extend commands.
LEMMA MoveMapsWell ==
  ASSUME NEW b \in Bufs, NEW dir \in Directions, NEW max \in Nat, NEW count \in Nat, NEW news,
         max = Len(b.data)
  PROVE  /\ news = [i \in DOMAIN b.sel.regions |->
                      << SimpleMove(b.sel.regions[i], dir, BPL, max, count) >>]
              => MapsWell(b, news) /\ MapsInside(b, news)
         /\ news = [i \in DOMAIN b.sel.regions |->
                      << SimpleExtend(b.sel.regions[i], dir, BPL, max, count) >>]
              => MapsWell(b, news) /\ MapsInside(b, news)
<1>1. PICK B \in Nat : B = BPL
  BY ViewAssumption
<1>2. \A i \in DOMAIN b.sel.regions : b.sel.regions[i] \in Regions
  BY BufFields, SelectionFields
<1>3. ASSUME news = [i \in DOMAIN b.sel.regions |->
                       << SimpleMove(b.sel.regions[i], dir, B, max, count) >>]
      PROVE  MapsWell(b, news) /\ MapsInside(b, news)
  <2>1. PICK g : g = [r \in Regions |-> SimpleMove(r, dir, B, max, count)]
    OBVIOUS
  <2>2. Steady(g)
    BY <2>1, MoveSteady
  <2>3. \A i \in DOMAIN b.sel.regions : news[i] = << g[b.sel.regions[i]] >>
    BY <1>2, <1>3, <2>1
  <2>4. Bounded(g, max)
    BY <2>1, MoveBounded DEF Bounded
  <2> QED BY <2>2, <2>3, <2>4, SteadyKeepsBuf
<1>4. ASSUME news = [i \in DOMAIN b.sel.regions |->
                       << SimpleExtend(b.sel.regions[i], dir, B, max, count) >>]
      PROVE  MapsWell(b, news) /\ MapsInside(b, news)
  <2>1. PICK g : g = [r \in Regions |-> SimpleExtend(r, dir, B, max, count)]
    OBVIOUS
  <2>2. Steady(g)
    BY <2>1, ExtendSteady
  <2>3. \A i \in DOMAIN b.sel.regions : news[i] = << g[b.sel.regions[i]] >>
    BY <1>2, <1>4, <2>1
  <2>4. Bounded(g, max)
    BY <2>1, MoveBounded DEF Bounded
  <2> QED BY <2>2, <2>3, <2>4, SteadyKeepsBuf
<1> QED BY <1>1, <1>3, <1>4

\* The closures without arguments, and the one of the append command.
LEMMA ShapeMapsWell ==
  ASSUME NEW b \in Bufs, NEW max \in Nat, NEW news, max = Len(b.data)
  PROVE  /\ news = [i \in DOMAIN b.sel.regions |-> << SwapCaret(b.sel.regions[i]) >>]
              => MapsWell(b, news) /\ MapsInside(b, news)
         /\ news = [i \in DOMAIN b.sel.regions |-> << Collapse(b.sel.regions[i]) >>]
              => MapsWell(b, news) /\ MapsInside(b, news)
         /\ news = [i \in DOMAIN b.sel.regions |-> << ToBackward(b.sel.regions[i]) >>]
              => MapsWell(b, news) /\ MapsInside(b, news)
         /\ news = [i \in DOMAIN b.sel.regions |->
                      << SimpleExtend(ToForward(b.sel.regions[i]), "Right", BPL, max, 1) >>]
              => MapsWell(b, news) /\ MapsInside(b, news)
<1>1. PICK B \in Nat : B = BPL
  BY ViewAssumption
<1>2. \A i \in DOMAIN b.sel.regions : b.sel.regions[i] \in Regions
  BY BufFields, SelectionFields
<1>3. ASSUME news = [i \in DOMAIN b.sel.regions |-> << SwapCaret(b.sel.regions[i]) >>]
      PROVE  MapsWell(b, news) /\ MapsInside(b, news)
  <2>1. PICK g : g = [r \in Regions |-> SwapCaret(r)] /\ Steady(g)
    BY ShapeSteady, Zenon
  <2>2. \A i \in DOMAIN b.sel.regions : news[i] = << g[b.sel.regions[i]] >>
    BY <1>2, <1>3, <2>1
  <2>3. Bounded(g, max)
    BY <2>1, ShapeBounded DEF Bounded
  <2> QED BY <2>1, <2>2, <2>3, SteadyKeepsBuf
<1>4. ASSUME news = [i \in DOMAIN b.sel.regions |-> << Collapse(b.sel.regions[i]) >>]
      PROVE  MapsWell(b, news) /\ MapsInside(b, news)
  <2>1. PICK g : g = [r \in Regions |-> Collapse(r)] /\ Steady(g)
    BY ShapeSteady
  <2>2. \A i \in DOMAIN b.sel.regions : news[i] = << g[b.sel.regions[i]] >>
    BY <1>2, <1>4, <2>1
  <2>3. Bounded(g, max)
    BY <2>1, ShapeBounded DEF Bounded
  <2> QED BY <2>1, <2>2, <2>3, SteadyKeepsBuf
<1>5. ASSUME news = [i \in DOMAIN b.sel.regions |-> << ToBackward(b.sel.regions[i]) >>]
      PROVE  MapsWell(b, news) /\ MapsInside(b, news)
  <2>1. PICK g : g = [r \in Regions |-> ToBackward(r)] /\ Steady(g)
    BY ShapeSteady
  <2>2. \A i \in DOMAIN b.sel.regions : news[i] = << g[b.sel.regions[i]] >>
    BY <1>2, <1>5, <2>1
  <2>3. Bounded(g, max)
    BY <2>1, ShapeBounded DEF Bounded
  <2> QED BY <2>1, <2>2, <2>3, SteadyKeepsBuf
<1>6. ASSUME news = [i \in DOMAIN b.sel.regions |->
                       << SimpleExtend(ToForward(b.sel.regions[i]), "Right", B, max, 1) >>]
      PROVE  MapsWell(b, news) /\ MapsInside(b, news)
  <2>1. PICK g : g = [r \in Regions |-> SimpleExtend(ToForward(r), "Right", B, max, 1)]
    OBVIOUS
  <2>2. Steady(g)
    BY <2>1, AppendSteady
  <2>3. \A i \in DOMAIN b.sel.regions : news[i] = << g[b.sel.regions[i]] >>
    BY <1>2, <1>6, <2>1
  <2>4. Bounded(g, max)
    <3>1. ASSUME NEW r \in Regions, RMax(r) <= max
          PROVE  RMax(SimpleExtend(ToForward(r), "Right", B, max, 1)) <= max
      <4>1. "Right" \in Directions /\ 1 \in Nat
        BY DEF Directions
      <4> QED BY <3>1, <4>1, ShapeBounded, MoveBounded
    <3> QED BY <2>1, <3>1 DEF Bounded
  <2> QED BY <2>2, <2>3, <2>4, SteadyKeepsBuf
<1> QED BY <1>1, <1>3, <1>4, <1>5, <1>6

\* The closures of the jump commands.
LEMMA JumpMapsWell ==
  ASSUME NEW b \in Bufs, NEW dir \in Directions, NEW max \in Nat, NEW offset \in Nat, NEW news,
         max = Len(b.data)
  PROVE  /\ news = [i \in DOMAIN b.sel.regions |-> << JumpTo(b.sel.regions[i], offset) >>]
              => MapsWell(b, news) /\ (offset <= max => MapsInside(b, news))
         /\ news = [i \in DOMAIN b.sel.regions |-> << ExtendTo(b.sel.regions[i], offset) >>]
              => MapsWell(b, news) /\ (offset <= max => MapsInside(b, news))
         /\ news = [i \in DOMAIN b.sel.regions |->
                      << JumpToBoundary(b.sel.regions[i], dir, BPL, max) >>]
              => MapsWell(b, news) /\ MapsInside(b, news)
         /\ news = [i \in DOMAIN b.sel.regions |->
                      << ExtendToBoundary(b.sel.regions[i], dir, BPL, max) >>]
              => MapsWell(b, news) /\ MapsInside(b, news)
<1>1. PICK B \in Nat \ {0} : B = BPL
  BY ViewAssumption
<1>2. \A i \in DOMAIN b.sel.regions : b.sel.regions[i] \in Regions
  BY BufFields, SelectionFields
<1>3. ASSUME news = [i \in DOMAIN b.sel.regions |-> << JumpTo(b.sel.regions[i], offset) >>]
      PROVE  MapsWell(b, news) /\ (offset <= max => MapsInside(b, news))
  <2>1. PICK g : g = [r \in Regions |-> JumpTo(r, offset)]
    OBVIOUS
  <2>2. Steady(g)
    BY <2>1, JumpSteady
  <2>3. \A i \in DOMAIN b.sel.regions : news[i] = << g[b.sel.regions[i]] >>
    BY <1>2, <1>3, <2>1
  <2>4. offset <= max => Bounded(g, max)
    BY <2>1, JumpBounded DEF Bounded
  <2> QED BY <2>2, <2>3, <2>4, SteadyKeepsBuf
<1>4. ASSUME news = [i \in DOMAIN b.sel.regions |-> << ExtendTo(b.sel.regions[i], offset) >>]
      PROVE  MapsWell(b, news) /\ (offset <= max => MapsInside(b, news))
  <2>1. PICK g : g = [r \in Regions |-> ExtendTo(r, offset)]
    OBVIOUS
  <2>2. Steady(g)
    BY <2>1, JumpSteady
  <2>3. \A i \in DOMAIN b.sel.regions : news[i] = << g[b.sel.regions[i]] >>
    BY <1>2, <1>4, <2>1
  <2>4. offset <= max => Bounded(g, max)
    BY <2>1, JumpBounded DEF Bounded
  <2> QED BY <2>2, <2>3, <2>4, SteadyKeepsBuf
<1>5. ASSUME news = [i \in DOMAIN b.sel.regions |->
                       << JumpToBoundary(b.sel.regions[i], dir, B, max) >>]
      PROVE  MapsWell(b, news) /\ MapsInside(b, news)
  <2>1. PICK g : g = [r \in Regions |-> JumpToBoundary(r, dir, B, max)]
    OBVIOUS
  <2>2. Steady(g)
    BY <2>1, BoundarySteady
  <2>3. \A i \in DOMAIN b.sel.regions : news[i] = << g[b.sel.regions[i]] >>
    BY <1>2, <1>5, <2>1
  <2>4. Bounded(g, max)
    BY <2>1, BoundaryBounded DEF Bounded
  <2> QED BY <2>2, <2>3, <2>4, SteadyKeepsBuf
<1>6. ASSUME news = [i \in DOMAIN b.sel.regions |->
                       << ExtendToBoundary(b.sel.regions[i], dir, B, max) >>]
      PROVE  MapsWell(b, news) /\ MapsInside(b, news)
  <2>1. PICK g : g = [r \in Regions |-> ExtendToBoundary(r, dir, B, max)]
    OBVIOUS
  <2>2. Steady(g)
    BY <2>1, BoundarySteady
  <2>3. \A i \in DOMAIN b.sel.regions : news[i] = << g[b.sel.regions[i]] >>
    BY <1>2, <1>6, <2>1
  <2>4. Bounded(g, max)
    BY <2>1, BoundaryBounded DEF Bounded
  <2> QED BY <2>2, <2>3, <2>4, SteadyKeepsBuf
<1> QED BY <1>1, <1>3, <1>4, <1>5, <1>6

\* The closure that moves the carets away from half a byte: one back where they went.
LEMMA BackMapsWell ==
  ASSUME NEW b \in Bufs, NEW dir \in Directions, NEW max \in Nat, NEW news, max = Len(b.data)
  PROVE  news = [i \in DOMAIN b.sel.regions |->
                   << SimpleMove(SimpleMove(b.sel.regions[i], dir, BPL, max, 1),
                                 "Left", BPL, max, 1) >>]
           => MapsWell(b, news) /\ MapsInside(b, news)
<1>1. PICK B \in Nat : B = BPL
  BY ViewAssumption
<1>2. \A i \in DOMAIN b.sel.regions : b.sel.regions[i] \in Regions
  BY BufFields, SelectionFields
<1>3. ASSUME news = [i \in DOMAIN b.sel.regions |->
                       << SimpleMove(SimpleMove(b.sel.regions[i], dir, B, max, 1),
                                     "Left", B, max, 1) >>]
      PROVE  MapsWell(b, news) /\ MapsInside(b, news)
  <2>1. PICK g : g = [r \in Regions |->
                        SimpleMove(SimpleMove(r, dir, B, max, 1), "Left", B, max, 1)]
    OBVIOUS
  <2>2. Steady(g)
    BY <2>1, BackSteady
  <2>3. \A i \in DOMAIN b.sel.regions : news[i] = << g[b.sel.regions[i]] >>
    BY <1>2, <1>3, <2>1
  <2>4. Bounded(g, max)
    BY <2>1, BackBounded DEF Bounded
  <2> QED BY <2>2, <2>3, <2>4, SteadyKeepsBuf
<1> QED BY <1>1, <1>3

\* Removing the region of this number takes no main flag from a later region: the main one
\* is not after it, or is the last.
Spares(s, i) ==
  LET j == i % Len(s.regions)
  IN j >= s.main_selection \/ s.main_selection = Len(s.regions) - 1

\* An operation that takes b to c without a panic, and is about the selection alone.
Picks(b, c) == c \in Bufs /\ c.data = b.data /\ Chooses(b, c) /\ Confines(b, c)

\* The methods that pick regions.
LEMMA PicksKeepBuf ==
  ASSUME NEW b \in Bufs, NEW i \in Nat, NEW count \in Nat
  PROVE  /\ RemoveSelection(b, i) \in Bufs /\ RemoveSelection(b, i).data = b.data
         /\ Same(b, RemoveSelection(b, i)) /\ Confines(b, RemoveSelection(b, i))
         /\ Spares(b.sel, i) => Chooses(b, RemoveSelection(b, i))
         /\ Picks(b, RetainSelection(b, i))
         /\ Picks(b, [b EXCEPT !.sel = SelectAll(@, Len(b.data))])
         /\ Picks(b, [b EXCEPT !.sel = SelectNext(@, count)])
         /\ Picks(b, [b EXCEPT !.sel = SelectPrev(@, count)])
<1>1. PICK s \in Selections, l \in Nat : s = b.sel /\ l = Len(b.data)
  BY BufFields
<1>2. PICK n \in Nat : n = Len(s.regions) /\ n # 0
  BY SelectionFields
<1>3. PICK j \in Nat : j = i % n /\ j < n
  <2>1. n \in Nat \ {0} /\ i <= i
    BY <1>2
  <2>2. i % n \in 0 .. n - 1
    BY <2>1, LineInOrder
  <2> QED BY <2>2
<1>4. ASSUME NEW x \in Selections, NEW c, c = [b EXCEPT !.sel = x]
      PROVE  /\ c \in Bufs /\ c.data = b.data /\ Same(b, c)
             /\ (OneMain(s) => OneMain(x)) => Chooses(b, c)
             /\ (Inside(s, l) => Inside(x, l)) => Confines(b, c)
  <2>1. c \in Bufs /\ c.data = b.data
    BY <1>4, BufSets
  <2>2. c.sel = x /\ Same(b, c)
    BY <1>4, Assigned
  <2> QED BY <1>1, <2>1, <2>2 DEF Chooses, Marks, Confines, Ends
<1>5. ASSUME NEW x \in Selections, OneMain(s) => OneMain(x), Inside(s, l) => Inside(x, l)
      PROVE  Picks(b, [b EXCEPT !.sel = x])
  BY <1>4, <1>5 DEF Picks
<1>6. PICK x \in Selections : /\ x = RemoveRegion(s, j) /\ (Inside(s, l) => Inside(x, l))
                              /\ OneMain(s) /\ Spares(s, i) => OneMain(x)
  <2>1. /\ RemoveRegion(s, j) \in Selections
        /\ OneMain(s) /\ (j >= s.main_selection \/ s.main_selection = Len(s.regions) - 1)
             => OneMain(RemoveRegion(s, j))
        /\ \A k \in Nat : Inside(s, k) => Inside(RemoveRegion(s, j), k)
    BY <1>2, <1>3, RemoveKept
  <2> QED BY <1>2, <1>3, <2>1 DEF Spares
<1>7. RemoveSelection(b, i) = [b EXCEPT !.sel = x]
  BY <1>1, <1>2, <1>3, <1>6 DEF RemoveSelection
<1>8. /\ RemoveSelection(b, i) \in Bufs /\ RemoveSelection(b, i).data = b.data
      /\ Same(b, RemoveSelection(b, i)) /\ Confines(b, RemoveSelection(b, i))
      /\ Spares(b.sel, i) => Chooses(b, RemoveSelection(b, i))
  BY <1>1, <1>4, <1>6, <1>7
<1>9. Picks(b, RetainSelection(b, i))
  <2>1. /\ Retain(s, j) \in Selections /\ OneMain(Retain(s, j))
        /\ \A k \in Nat : Inside(s, k) => Inside(Retain(s, j), k)
    BY <1>2, <1>3, OneLeft
  <2>2. RetainSelection(b, i) = [b EXCEPT !.sel = Retain(s, j)]
    BY <1>1, <1>2, <1>3 DEF RetainSelection
  <2> QED BY <1>5, <2>1, <2>2
<1>10. Picks(b, [b EXCEPT !.sel = SelectAll(@, Len(b.data))])
  <2>1. /\ SelectAll(s, l) \in Selections /\ OneMain(SelectAll(s, l))
        /\ Inside(SelectAll(s, l), l)
    BY <1>2, <1>3, OneLeft
  <2>2. [b EXCEPT !.sel = SelectAll(@, Len(b.data))] = [b EXCEPT !.sel = SelectAll(s, l)]
    BY <1>1
  <2> QED BY <1>5, <2>1, <2>2
<1>11. /\ SelectNext(s, count) \in Selections /\ SelectPrev(s, count) \in Selections
       /\ OneMain(s) => OneMain(SelectNext(s, count)) /\ OneMain(SelectPrev(s, count))
       /\ Inside(s, l) => Inside(SelectNext(s, count), l) /\ Inside(SelectPrev(s, count), l)
  BY CycleKept
<1>12. /\ [b EXCEPT !.sel = SelectNext(@, count)] = [b EXCEPT !.sel = SelectNext(s, count)]
       /\ [b EXCEPT !.sel = SelectPrev(@, count)] = [b EXCEPT !.sel = SelectPrev(s, count)]
  BY <1>1
<1>13. /\ Picks(b, [b EXCEPT !.sel = SelectNext(@, count)])
       /\ Picks(b, [b EXCEPT !.sel = SelectPrev(@, count)])
  BY <1>5, <1>11, <1>12
<1> QED BY <1>8, <1>9, <1>10, <1>13

\* yank_selections: one register value for each region.
LEMMA YankKeepsBuf ==
  ASSUME NEW b \in Bufs
  PROVE  /\ YankSelections(b) \in Bufs /\ YankSelections(b).data = b.data
         /\ ~YankSelections(b).panic => Same(b, YankSelections(b)) /\ YankSelections(b).sel = b.sel
<1>1. PICK R \in Seq(Regions), n \in Nat :
        R = b.sel.regions /\ n = Len(R) /\ n # 0 /\ DOMAIN R = 1 .. n
        /\ \A i \in 1 .. n : R[i] \in Regions
  BY BufFields, SelectionFields
<1>2. PICK t \in Text, l \in Nat : t = b.data /\ l = Len(t) /\ \A k \in 1 .. l : t[k] \in Bytes
  BY BufFields, TextElements
<1>3. ASSUME NEW i \in 1 .. n PROVE SliceOf(t, R[i]) \in Text
  <2>1. PICK x \in Nat, y \in Nat : x = RMin(R[i]) /\ y = RMax(R[i])
    BY <1>1, RegionBounds
  <2>2. PICK p \in Int, q \in Int : p = x + 1 /\ q = Lesser(y + 1, l) /\ 1 <= p /\ q <= l
    BY DEF Lesser
  <2>3. \A k \in p .. q : t[k] \in Bytes
    BY <1>2, <2>2
  <2>4. SubSeq(t, p, q) \in Seq(Bytes)
    BY <2>3, SubSeqProperties
  <2> QED BY <1>2, <2>1, <2>2, <2>4 DEF SliceOf, Text
<1>4. PICK f : f = [i \in 1 .. n |-> IF t = << >> THEN << >> ELSE SliceOf(t, R[i])]
  OBVIOUS
<1>5. f \in [1 .. n -> Text]
  BY <1>3, <1>4, TextConcat
<1>6. f \in Seq(Text) /\ Len(f) = n
  BY <1>5, SequenceOf
<1>7. f \in Registers
  BY <1>1, <1>6 DEF Registers
<1>8. YankSelections(b) = IF b.data # << >> /\ SlicePanics(b) THEN Crash(b) ELSE [b EXCEPT !.reg = f]
  BY <1>1, <1>2, <1>4 DEF YankSelections
<1>9. CASE YankSelections(b) = Crash(b)
  <2>1. Crash(b) \in Bufs /\ Crash(b).data = b.data /\ Crash(b).panic
    BY BufSets
  <2> QED BY <1>9, <2>1, Zenon
<1>10. CASE YankSelections(b) = [b EXCEPT !.reg = f]
  BY <1>7, <1>10, BufSets, Assigned
<1> QED BY <1>8, <1>9, <1>10

\* Splitting at a pattern and collapsing to it map the regions to the pieces between the
\* matches, and to the matches.
LEMMA SearchMaps ==
  ASSUME NEW b \in Bufs, NEW pattern, Len(pattern) \in Nat \ {0}
  PROVE  \E cut, found :
           /\ SplitSearch(b, pattern) = WithSelection(b, MapSelections(b.sel, cut))
           /\ CollapseSearch(b, pattern) = WithSelection(b, MapSelections(b.sel, found))
           /\ \A i \in 1 .. Len(b.sel.regions) : Shares(cut[i], found[i], b.sel.regions[i])
<1>1. PICK s \in Selections, n \in Nat : s = b.sel /\ n = Len(s.regions) /\ DOMAIN s.regions = 1 .. n
  BY BufFields, SelectionFields
<1>2. \A i \in 1 .. n : s.regions[i] \in Regions
  BY <1>1, SelectionFields
<1>3. PICK w \in Nat \ {0} : w = Len(pattern)
  OBVIOUS
<1>4. PICK M : M = [i \in 1 .. n |-> MatchStarts(b.data, s.regions[i], pattern)]
  OBVIOUS
<1>5. ASSUME NEW i \in 1 .. n PROVE Spaced(M[i], w, RMin(s.regions[i]), RMax(s.regions[i]))
  BY <1>2, <1>3, <1>4, BufFields, MatchesSpaced
<1>6. MapSelectionsToMatches(b, pattern) = M /\ DOMAIN M = 1 .. n
  BY <1>1, <1>4 DEF MapSelectionsToMatches
<1>7. PICK cut : cut = [i \in 1 .. n |-> CutOut(s.regions[i], M[i], w)]
  OBVIOUS
<1>8. PICK found : found = [i \in 1 .. n |-> FoundMatches(s.regions[i], M[i], w)]
  OBVIOUS
<1>9. SplitSearch(b, pattern) = WithSelection(b, MapSelections(s, cut))
  BY <1>1, <1>3, <1>6, <1>7 DEF SplitSearch
<1>10. CollapseSearch(b, pattern) = WithSelection(b, MapSelections(s, found))
  BY <1>1, <1>3, <1>6, <1>8 DEF CollapseSearch, FoundMatches
<1>11. ASSUME NEW i \in 1 .. n PROVE Shares(cut[i], found[i], s.regions[i])
  <2>1. cut[i] = CutOut(s.regions[i], M[i], w) /\ found[i] = FoundMatches(s.regions[i], M[i], w)
    BY <1>7, <1>8
  <2> QED BY <1>2, <1>5, <2>1, SearchReach
<1> QED BY <1>1, <1>9, <1>10, <1>11

\* Split's Width action, and splitting at or collapsing to a pattern.
LEMMA PiecesKeepBuf ==
  ASSUME NEW b \in Bufs, NEW width \in Nat, NEW pattern, Len(pattern) \in Nat \ {0}
  PROVE  /\ Picks(b, SplitWidth(b, width))
         /\ Picks(b, SplitSearch(b, pattern))
         /\ Picks(b, CollapseSearch(b, pattern))
<1>1. PICK s \in Selections, n \in Nat : s = b.sel /\ n = Len(s.regions) /\ DOMAIN s.regions = 1 .. n
  BY BufFields, SelectionFields
<1>2. \A i \in 1 .. n : s.regions[i] \in Regions
  BY <1>1, SelectionFields
<1>3. ASSUME NEW news,
             \A i \in 1 .. n :
               /\ Within(news[i], s.regions[i]) /\ Plain(news[i], s.regions[i])
               /\ \A k \in 1 .. Len(news[i]) : RMax(news[i][k]) <= RMax(s.regions[i])
      PROVE  Picks(b, WithSelection(b, MapSelections(s, news)))
  <2>1. InOrder(news, Len(s.regions))
    BY <1>1, <1>3, WithinInOrder
  <2>2. PICK res : res = MapSelections(s, news)
    OBVIOUS
  <2>3. ASSUME ~res.panic PROVE /\ OneMain(s) => OneMain(res.sel)
                                /\ \A k \in Nat : Inside(s, k) => Inside(res.sel, k)
    BY <1>1, <1>3, <2>2, <2>3, PiecesReach
  <2>4. ~res.panic /\ OneMain(s) => OneMain(res.sel)
    BY <2>3
  <2>5. Len(b.data) \in Nat
    BY BufFields
  <2>6. /\ MapsWell(b, news)
        /\ (~res.panic /\ Inside(b.sel, Len(b.data)) => Inside(res.sel, Len(b.data)))
             => MapsInside(b, news)
    BY <1>1, <2>1, <2>2, <2>4, MapKeepsBuf
  <2>7. MapsWell(b, news) /\ MapsInside(b, news)
    BY <1>1, <2>3, <2>5, <2>6
  <2> QED BY <1>1, <2>7 DEF MapsWell, MapsInside, Picks
<1>4. Picks(b, SplitWidth(b, width))
  <2>1. CASE width = 0
    <3>1. SplitWidth(b, width) = Crash(b)
      BY <2>1 DEF SplitWidth
    <3>2. Crash(b) \in Bufs /\ Crash(b).data = b.data /\ Crash(b).panic
      BY BufSets
    <3>3. Chooses(b, Crash(b)) /\ Confines(b, Crash(b))
      BY <3>2, Zenon DEF Chooses, Confines
    <3> QED BY <3>1, <3>2, <3>3 DEF Picks
  <2>2. CASE width # 0
    <3>1. PICK news : news = [i \in 1 .. n |-> WidthPieces(s.regions[i], width)]
      OBVIOUS
    <3>2. ASSUME NEW i \in 1 .. n
          PROVE  /\ Within(news[i], s.regions[i]) /\ Plain(news[i], s.regions[i])
                 /\ \A k \in 1 .. Len(news[i]) : RMax(news[i][k]) <= RMax(s.regions[i])
      <4>0. PICK r \in Regions : r = s.regions[i]
        BY <1>2
      <4>1. PICK rs : rs = WidthPieces(r, width) /\ news[i] = rs
        BY <3>1, <4>0
      <4>2. width \in Nat \ {0}
        BY <2>2
      <4>3. Within(rs, r)
        BY <4>1, <4>2, WidthWithin
      <4>4. \A k \in 1 .. Len(rs) : RMax(rs[k]) <= RMax(r)
        BY <4>1, <4>2, WidthWithin
      <4>5. \A k \in 1 .. Len(rs) : ~rs[k].main
        BY <4>1, <4>2, WidthWithin
      <4>6. Plain(rs, r)
        BY <4>5 DEF Plain
      <4> QED BY <4>0, <4>1, <4>3, <4>4, <4>6
    <3>3. SplitWidth(b, width) = WithSelection(b, MapSelections(s, news))
      BY <1>1, <2>2, <3>1 DEF SplitWidth, WidthPieces, WidthStart
    <3> QED BY <1>3, <3>2, <3>3
  <2> QED BY <2>1, <2>2
<1>5. PICK cut, found :
        /\ SplitSearch(b, pattern) = WithSelection(b, MapSelections(s, cut))
        /\ CollapseSearch(b, pattern) = WithSelection(b, MapSelections(s, found))
        /\ \A i \in 1 .. n : Shares(cut[i], found[i], s.regions[i])
  BY <1>1, SearchMaps
<1>6. Picks(b, SplitSearch(b, pattern))
  BY <1>3, <1>5 DEF Shares
<1>7. Picks(b, CollapseSearch(b, pattern))
  BY <1>3, <1>5 DEF Shares
<1> QED BY <1>4, <1>6, <1>7

-----------------------------------------------------------------------------
(* The history of a well-formed buffer.                                    *)

\* A delta for a length it tells.
LEMMA AnyDeltaOf ==
  /\ \A n \in Nat : \A d \in Deltas(n) : d \in AnyDelta
  /\ \A d \in AnyDelta : d.base \in Nat /\ d \in Deltas(d.base)
<1>1. \A n \in Nat : \A d \in Deltas(n) : d \in AnyDelta
  BY DEF AnyDelta
<1>2. ASSUME NEW d \in AnyDelta PROVE d.base \in Nat /\ d \in Deltas(d.base)
  <2>1. PICK n \in Nat : d \in Deltas(n)
    BY DEF AnyDelta
  <2>2. d.base = n
    BY <2>1 DEF Deltas
  <2> QED BY <2>1, <2>2
<1> QED BY <1>1, <1>2

\* Entries put together and taken apart.
LEMMA EntryFields ==
  /\ \A d \in AnyDelta, s \in Selections : Entry(d, s) \in Entries
  /\ \A e \in Entries : e.delta \in AnyDelta /\ e.sel \in Selections
BY DEF Entries, Entry

\* A history put together.
HistOf(p, u, r) == [partial |-> p, undo |-> u, redo |-> r]

\* Such a history is well formed.
LEMMA HistOfType ==
  ASSUME NEW p \in Seq(Entries), NEW u \in Seq(Entries), NEW r \in Seq(Entries)
  PROVE  HistOf(p, u, r) \in Hists
BY DEF Hists, HistOf

\* A history taken apart, and the updates the operations make.
LEMMA HistFields ==
  ASSUME NEW h \in Hists
  PROVE  /\ h = HistOf(h.partial, h.undo, h.redo)
         /\ h.partial \in Seq(Entries) /\ h.undo \in Seq(Entries) /\ h.redo \in Seq(Entries)
         /\ \A x, y : NewStacks(h, x, y) = HistOf(h.partial, x, y)
         /\ \A x, y : NewStacks2(h, x, y) = HistOf(h.partial, y, x)
         /\ \A x : NewPartial(h, x) = HistOf(x, h.undo, h.redo)
<1>1. /\ h = HistOf(h.partial, h.undo, h.redo)
      /\ h.partial \in Seq(Entries) /\ h.undo \in Seq(Entries) /\ h.redo \in Seq(Entries)
  BY DEF Hists, HistOf
<1>2. PICK p, u, r : h = [partial |-> p, undo |-> u, redo |-> r] /\ p = h.partial
                     /\ u = h.undo /\ r = h.redo
  BY <1>1 DEF HistOf
<1>3. ASSUME NEW x, NEW y PROVE NewStacks(h, x, y) = HistOf(h.partial, x, y)
  <2>1. PICK f : f = [h EXCEPT !.undo = x, !.redo = y]
    OBVIOUS
  <2>2. f = [partial |-> p, undo |-> x, redo |-> y]
    BY <1>2, <2>1
  <2> QED BY <1>2, <2>1, <2>2, Zenon DEF NewStacks, HistOf
<1>4. ASSUME NEW x, NEW y PROVE NewStacks2(h, x, y) = HistOf(h.partial, y, x)
  <2>1. PICK f : f = [h EXCEPT !.redo = x, !.undo = y]
    OBVIOUS
  <2>2. f = [partial |-> p, undo |-> y, redo |-> x]
    BY <1>2, <2>1
  <2> QED BY <1>2, <2>1, <2>2, Zenon DEF NewStacks2, HistOf
<1>5. ASSUME NEW x PROVE NewPartial(h, x) = HistOf(x, h.undo, h.redo)
  BY <1>2 DEF NewPartial, HistOf
<1> QED BY <1>1, <1>3, <1>4, <1>5

\* History::perform_final, perform_partial and commit_partial keep a history
\* well formed.  The incomplete delta must start from the bytes the open one leads
\* back to, which is what Subset::transform_expand asserts.
LEMMA PerformKeepsHist ==
  ASSUME NEW h \in Hists, NEW data \in Text, NEW d \in Deltas(Len(data)), NEW sel \in Selections
  PROVE  /\ PerformFinal(h, data, d, sel) \in Hists
         /\ ~ChainPanics(h, data) => PerformPartial(h, data, d, sel) \in Hists
         /\ CommitPartial(h) \in Hists
<1>1. PICK p \in Seq(Entries), u \in Seq(Entries), r \in Seq(Entries) :
        h = HistOf(p, u, r) /\ h.partial = p /\ h.undo = u /\ h.redo = r
  BY HistFields
<1>2. PICK n \in Nat, to \in Text, m \in Nat : n = Len(data) /\ to = ApplyDelta(data, d) /\ m = Len(to)
  BY ApplyType, TextElements
<1>3. PICK inv \in Deltas(m) : inv = Invert(d, data) /\ ApplyDelta(to, inv) = data
  BY <1>2, InvertUndoes
<1>4. PICK e \in Entries : e = Entry(inv, sel)
  BY AnyDeltaOf, EntryFields
<1>5. << >> \in Seq(Entries) /\ Append(u, e) \in Seq(Entries)
  OBVIOUS
<1>6. PerformFinal(h, data, d, sel) \in Hists
  <2>1. PerformFinal(h, data, d, sel) = NewStacks(h, Append(u, e), << >>)
    BY <1>1, <1>3, <1>4, Zenon DEF PerformFinal, NewStacks
  <2>2. PICK v \in Seq(Entries), w \in Seq(Entries) : v = Append(u, e) /\ w = << >>
    BY <1>5
  <2>3. PerformFinal(h, data, d, sel) = HistOf(p, v, w)
    BY <1>1, <2>1, <2>2, HistFields
  <2> QED BY <2>3, HistOfType
<1>7. CommitPartial(h) \in Hists
  <2>1. u \o p \in Seq(Entries)
    OBVIOUS
  <2>2. CASE p = << >>
    BY <1>1, <2>2 DEF CommitPartial
  <2>3. CASE p # << >>
    <3>1. PICK v \in Seq(Entries), w \in Seq(Entries) : v = u \o p /\ w = << >>
      BY <1>5, <2>1
    <3>2. CommitPartial(h) = HistOf(w, v, w)
      BY <1>1, <2>3, <3>1, Zenon DEF CommitPartial, HistOf
    <3> QED BY <3>2, HistOfType
  <2> QED BY <2>2, <2>3
<1>8. ASSUME ~ChainPanics(h, data) PROVE PerformPartial(h, data, d, sel) \in Hists
  <2>1. PICK f : f = IF p = << >> THEN e ELSE Entry(Chain(inv, data, p[1].delta), p[1].sel)
    OBVIOUS
  <2>2. f \in Entries
    <3>1. CASE p = << >>
      BY <2>1, <3>1
    <3>2. CASE p # << >>
      <4>1. p[1] \in Entries
        BY <3>2
      <4>2. PICK next : next = p[1].delta /\ next \in AnyDelta /\ p[1].sel \in Selections
        BY <4>1, EntryFields
      <4>3. next.base = n
        BY <1>1, <1>2, <1>8, <3>2, <4>2 DEF ChainPanics
      <4>4. next \in Deltas(Len(data))
        BY <1>2, <4>2, <4>3, AnyDeltaOf
      <4>5. Chain(inv, data, next) \in Deltas(Len(to))
        BY <1>2, <1>3, <4>4, ChainApplies
      <4>6. Chain(inv, data, next) \in AnyDelta
        BY <1>2, <4>5, AnyDeltaOf
      <4> QED BY <2>1, <3>2, <4>2, <4>6, EntryFields
    <3> QED BY <3>1, <3>2
  <2>3. << f >> \in Seq(Entries)
    BY <2>2
  <2>4. PerformPartial(h, data, d, sel) = NewPartial(h, << f >>)
    BY <1>1, <1>3, <1>4, <2>1, Zenon DEF PerformPartial, NewPartial
  <2>5. PICK v \in Seq(Entries) : v = << f >>
    BY <2>3
  <2>6. PerformPartial(h, data, d, sel) = HistOf(v, u, r)
    BY <1>1, <2>4, <2>5, HistFields
  <2> QED BY <2>6, HistOfType
<1> QED BY <1>6, <1>7, <1>8

\* The bytes a delta leaves are as many as Delta::new_document_len says.
LEMMA OutcomeLength ==
  ASSUME NEW data \in Text, NEW d \in Deltas(Len(data))
  PROVE  Len(ApplyDelta(data, d)) = NewDocumentLen(d)
<1>1. PICK n \in Nat : n = Len(data) /\ n = d.base /\ d \in Deltas(n)
  BY TextElements, DeltaFits
<1>2. Fits(data, d)
  BY DeltaFits
<1>3. PICK O, G : O = Outcome(data, d) /\ G = GapAfter(d)
  OBVIOUS
<1>4. /\ O[0] = d.ins[0] /\ \A g \in 0 .. n : O[g] \in Text
      /\ \A g \in 1 .. n : O[g] = O[g - 1] \o Piece(data, d, g) \o d.ins[g]
  BY <1>1, <1>2, <1>3, OutcomeDef
<1>5. /\ G[0] = Len(d.ins[0]) /\ \A g \in 0 .. n : G[g] \in Nat /\ d.ins[g] \in Text
      /\ \A g \in 1 .. n : G[g] = GapStep(d, G[g - 1], g)
  BY <1>1, <1>3, GapDef
<1> DEFINE S == {g \in 0 .. n : Len(O[g]) = G[g]}
<1>6. 0 \in S
  BY <1>4, <1>5
<1>7. ASSUME NEW k \in 0 .. n - 1, k \in S PROVE k + 1 \in S
  <2>1. PICK g \in 1 .. n : g = k + 1 /\ g - 1 = k /\ g \in 0 .. n /\ k \in 0 .. n
    OBVIOUS
  <2>2. PICK x \in Text, y \in Text : x = O[k] /\ y = d.ins[g]
    BY <1>4, <1>5, <2>1
  <2>3. PICK p \in Text : p = Piece(data, d, g) /\ Len(p) = IF g - 1 \in d.del THEN 0 ELSE 1
    <3>1. CASE g - 1 \in d.del
      <4>1. Piece(data, d, g) = << >>
        BY <3>1 DEF Piece
      <4> QED BY <3>1, <4>1, TextConcat
    <3>2. CASE g - 1 \notin d.del
      <4>1. PICK z \in Bytes : z = data[g]
        BY <1>1, <1>2 DEF Fits
      <4>2. Piece(data, d, g) = << z >> /\ Len(<< z >>) = 1
        BY <3>2, <4>1 DEF Piece
      <4> QED BY <3>2, <4>2, TextConcat
    <3> QED BY <3>1, <3>2
  <2>4. Len((x \o p) \o y) = Len(x) + Len(p) + Len(y)
    <3>1. PICK q \in Text : q = x \o p /\ Len(q) = Len(x) + Len(p)
      <4>1. x \o p \in Text
        BY TextConcat
      <4>2. Len(x \o p) = Len(x) + Len(p)
        BY ConcatProperties DEF Text
      <4> QED BY <4>1, <4>2
    <3>2. Len(q \o y) = Len(q) + Len(y)
      BY ConcatProperties DEF Text
    <3> QED BY <3>1, <3>2
  <2>5. Len(O[g]) = Len(x) + Len(p) + Len(y)
    BY <1>4, <2>1, <2>2, <2>3, <2>4
  <2>6. Len(x) = G[k]
    BY <1>7, <2>2
  <2>7. G[g] = G[k] + (IF g - 1 \in d.del THEN 0 ELSE 1) + Len(y)
    BY <1>5, <2>1, <2>2 DEF GapStep
  <2> QED BY <2>1, <2>3, <2>5, <2>6, <2>7
<1>8. \A k \in 0 .. n : k \in S
  <2> HIDE DEF S
  <2> QED BY <1>6, <1>7, Induction
<1>9. n \in 0 .. n
  OBVIOUS
<1> QED BY <1>1, <1>3, <1>8, <1>9 DEF ApplyDelta, NewDocumentLen

\* c is what a final delta, or an incomplete one, makes of b; c has the bytes, and a
\* selection within them.
Edited(b, c, d) ==
  /\ c.data = ApplyDelta(b.data, d) /\ c.dirty = TRUE
  /\ Inside(c.sel, Len(c.data)) /\ Marks(b, c)

Finals(b, c) ==
  \E d \in Deltas(Len(b.data)) :
    Edited(b, c, d) /\ c.hist = PerformFinal(b.hist, b.data, d, b.sel)

Partials(b, c) ==
  /\ ~ChainPanics(b.hist, b.data)
  /\ \E d \in Deltas(Len(b.data)) :
       Edited(b, c, d) /\ c.hist = PerformPartial(b.hist, b.data, d, b.sel)

\* Operations that end an edit, or go on with an insertion, unless they panic.
Finishes(b, c)  == c \in Bufs /\ (~c.panic => Finals(b, c))
Continues(b, c) == c \in Bufs /\ (~c.panic => Partials(b, c))

\* apply_delta_to_current_buffer, and the selection that goes along.  An offset may
\* take the carets back if the delta leaves each of them room for that.
LEMMA EditsKeepBuf ==
  ASSUME NEW b \in Bufs, NEW edits \in Seq(Edits), NEW is_final \in BOOLEAN, NEW o \in Int, o <= 0,
         \A i \in DOMAIN b.sel.regions :
           Transform(Build(Len(b.data), edits), b.sel.regions[i].caret) + o >= 0
  PROVE  /\ is_final => Finishes(b, ApplyEdits(b, edits, is_final, o, 0))
         /\ ~is_final => Continues(b, ApplyEdits(b, edits, is_final, o, 0))
<1>1. PICK t \in Text, n \in Nat, s \in Selections, h \in Hists :
        t = b.data /\ n = Len(t) /\ s = b.sel /\ h = b.hist
  BY BufFields
<1>2. PICK d \in Deltas(n) : d = Build(n, edits)
  BY BuildType
<1>3. DOMAIN s.regions = 1 .. Len(s.regions)
  BY SelectionFields
<1>4. \A i \in 1 .. Len(s.regions) : Transform(d, s.regions[i].caret) + o >= 0
  BY <1>1, <1>2, <1>3
<1>5. PICK res : res = SelectionAfter(s, d, n, o, 0)
  OBVIOUS
<1>6. ~res.panic => res.sel \in Selections
  BY <1>4, <1>5, SelectionAfterKept
<1> DEFINE panics == BuildPanics(n, edits) \/ (~is_final /\ ChainPanics(h, t))
<1>7. CASE panics
  <2>1. ApplyEdits(b, edits, is_final, o, 0) = Crash(b)
    BY <1>1, <1>7 DEF ApplyEdits
  <2>2. Crash(b) \in Bufs /\ Crash(b).panic
    BY BufSets
  <2> QED BY <2>1, <2>2, Zenon DEF Finishes, Continues
<1>8. CASE ~panics
  <2>1. PICK g : g = IF is_final THEN PerformFinal(h, t, d, s) ELSE PerformPartial(h, t, d, s)
    OBVIOUS
  <2>2. g \in Hists
    BY <1>1, <1>8, <2>1, PerformKeepsHist
  <2>3. PICK u \in Text : u = ApplyDelta(t, d)
    BY <1>1, ApplyType
  <2>4. PICK c : c = [b EXCEPT !.data = u, !.hist = g, !.dirty = TRUE]
    OBVIOUS
  <2>5. c \in Bufs
    BY <2>2, <2>4 DEF Bufs
  <2>6. c.data = u /\ c.hist = g /\ c.dirty = TRUE
    BY <2>4 DEF Bufs
  <2>7. PICK e : e = WithSelection(c, res) /\ e = ApplyEdits(b, edits, is_final, o, 0)
    BY <1>1, <1>2, <1>5, <1>8, <2>1, <2>3, <2>4, Zenon DEF ApplyEdits
  <2>8. e \in Bufs
    BY <1>6, <2>5, <2>7, WithSelectionIs
  <2>9. ASSUME ~e.panic PROVE Edited(b, e, d) /\ e.hist = g
    <3>1. ~res.panic /\ e.sel = res.sel /\ Same(c, e)
      BY <1>6, <2>5, <2>7, <2>9, WithSelectionIs
    <3>2. e.data = u /\ e.hist = g /\ e.dirty = TRUE
      BY <2>6, <3>1 DEF Same
    <3>3. OneMain(s) => OneMain(e.sel)
      BY <1>4, <1>5, <3>1, SelectionAfterReach
    <3>4. Inside(e.sel, Len(u))
      <4>1. Inside(e.sel, NewDocumentLen(d))
        BY <1>4, <1>5, <3>1, SelectionAfterReach
      <4>2. Len(u) = NewDocumentLen(d)
        BY <1>1, <2>3, OutcomeLength
      <4> QED BY <4>1, <4>2
    <3> QED BY <1>1, <2>3, <3>2, <3>3, <3>4 DEF Edited, Marks
  <2>10. is_final => Finishes(b, e)
    BY <1>1, <2>1, <2>8, <2>9 DEF Finishes, Finals
  <2>11. ~is_final => Continues(b, e)
    BY <1>1, <1>8, <2>1, <2>8, <2>9 DEF Continues, Partials
  <2> QED BY <2>7, <2>10, <2>11
<1> QED BY <1>7, <1>8

\* c is b with the open insertion, if there is one, committed.
Commits(b, c) ==
  /\ c.data = b.data /\ c.sel = b.sel /\ c.dirty = b.dirty /\ c.hist = CommitPartial(b.hist)

\* Final and incomplete deltas without an offset, and the commit.
LEMMA DeltasKeepBuf ==
  ASSUME NEW b \in Bufs
  PROVE  /\ \A edits \in Seq(Edits) : Finishes(b, BufApplyDelta(b, edits))
         /\ \A edits \in Seq(Edits) : Continues(b, ApplyIncompleteDelta(b, edits))
         /\ CommitDelta(b) \in Bufs /\ Commits(b, CommitDelta(b))
<1>1. PICK t \in Text, n \in Nat, s \in Selections, h \in Hists :
        t = b.data /\ n = Len(t) /\ s = b.sel /\ h = b.hist
  BY BufFields
<1>2. ASSUME NEW edits \in Seq(Edits), NEW is_final \in BOOLEAN
      PROVE  /\ is_final => Finishes(b, ApplyEdits(b, edits, is_final, 0, 0))
             /\ ~is_final => Continues(b, ApplyEdits(b, edits, is_final, 0, 0))
  <2>1. PICK d \in Deltas(n) : d = Build(n, edits)
    BY BuildType
  <2>2. \A i \in DOMAIN s.regions : s.regions[i].caret \in Nat
    BY SelectionFields, RegionBounds
  <2>3. \A x \in Nat : Transform(d, x) \in Nat
    BY TransformInOrder
  <2>4. ASSUME NEW i \in DOMAIN s.regions PROVE Transform(d, s.regions[i].caret) + 0 >= 0
    <3>1. PICK x \in Nat : x = Transform(d, s.regions[i].caret)
      BY <2>2, <2>3
    <3> QED BY <3>1
  <2>5. \A i \in DOMAIN b.sel.regions :
          Transform(Build(Len(b.data), edits), b.sel.regions[i].caret) + 0 >= 0
    BY <1>1, <2>1, <2>4
  <2>6. 0 \in Int /\ 0 <= 0
    OBVIOUS
  <2> QED BY <2>5, <2>6, EditsKeepBuf
<1>3. ASSUME NEW edits \in Seq(Edits)
      PROVE  Finishes(b, BufApplyDelta(b, edits)) /\ Continues(b, ApplyIncompleteDelta(b, edits))
  <2>1. TRUE \in BOOLEAN /\ FALSE \in BOOLEAN
    OBVIOUS
  <2>2. TRUE => Finishes(b, ApplyEdits(b, edits, TRUE, 0, 0))
    BY <1>2, <2>1
  <2>3. ~FALSE => Continues(b, ApplyEdits(b, edits, FALSE, 0, 0))
    BY <1>2, <2>1
  <2> QED BY <2>2, <2>3, Zenon DEF BufApplyDelta, ApplyIncompleteDelta
<1>4. CommitPartial(h) \in Hists
  <2>1. << >> \in Seq(Edits)
    OBVIOUS
  <2>2. PICK d \in Deltas(Len(t)) : d = Build(Len(t), << >>)
    BY <1>1, <2>1, BuildType
  <2> QED BY <2>2, PerformKeepsHist
<1>5. CommitDelta(b) = [b EXCEPT !.hist = CommitPartial(h)]
  BY <1>1 DEF CommitDelta
<1>6. CommitDelta(b) \in Bufs
  BY <1>4, <1>5, BufSets
<1>7. Commits(b, CommitDelta(b))
  BY <1>1, <1>4, <1>5 DEF Commits, Bufs
<1> QED BY <1>3, <1>6, <1>7

\* A delta made for fewer bytes than the buffer has: the rest is not looked at.
LEMMA LongerFits ==
  ASSUME NEW data \in Text, NEW d \in AnyDelta, ~ApplyPanics(data, d)
  PROVE  ApplyDelta(data, d) \in Text /\ Invert(d, data) \in AnyDelta
<1>1. PICK n \in Nat : n = d.base /\ d \in Deltas(n)
  BY AnyDeltaOf
<1>2. \A g \in 0 .. n : d.ins[g] \in Text
  BY <1>1, GapDef
<1>3. PICK l \in Nat : l = Len(data) /\ n <= l /\ \A k \in 1 .. l : data[k] \in Bytes
  BY <1>1, TextElements DEF ApplyPanics
<1>4. \A g \in 1 .. n : data[g] \in Bytes
  BY <1>3
<1>5. Fits(data, d)
  BY <1>1, <1>2, <1>4 DEF Fits
<1>6. n \in 0 .. n
  OBVIOUS
<1>7. Outcome(data, d)[n] \in Text
  BY <1>1, <1>5, <1>6, OutcomeDef
<1>8. UnionUpTo(d, data)[n] \in Strings
  BY <1>1, <1>5, <1>6, UnionDef
<1>9. PICK u \in Strings : u = Swapped(Union(d, data))
  BY <1>1, <1>8, SwappedReads DEF Union
<1>10. Synthesize(u) \in Deltas(Len(Read(u, InBase))) /\ Len(Read(u, InBase)) \in Nat
  BY SynthesizeApplies, ReadType, TextElements
<1>11. Invert(d, data) \in AnyDelta
  BY <1>9, <1>10, AnyDeltaOf DEF Invert
<1> QED BY <1>1, <1>7, <1>11 DEF ApplyDelta

\* A stack without its last entry.
LEMMA PoppedEntries ==
  ASSUME NEW s \in Seq(Entries), s # << >>
  PROVE  Front(s) \in Seq(Entries) /\ Last(s) \in Entries
<1>1. PICK n \in Nat : n = Len(s) /\ n # 0 /\ \A j \in 1 .. n : s[j] \in Entries
  BY LenProperties, EmptySeq, ElementOfSeq
<1>2. PICK m \in Int : m = n - 1 /\ \A j \in 1 .. m : s[j] \in Entries
  BY <1>1
<1>3. SubSeq(s, 1, m) \in Seq(Entries)
  BY <1>2, SubSeqProperties
<1>4. n \in 1 .. n
  BY <1>1
<1> QED BY <1>1, <1>2, <1>3, <1>4 DEF Front, Last

\* c is what undoing, or redoing, the entry e makes of b.
Restores(b, c, e, hist) ==
  /\ ~ApplyPanics(b.data, e.delta)
  /\ c.data = ApplyDelta(b.data, e.delta) /\ c.sel = e.sel /\ c.dirty = TRUE /\ c.hist = hist

Undoes(b, c) ==
  b.hist.undo # << >> /\ Restores(b, c, Last(b.hist.undo), UndoPop(b.hist, b.data, b.sel))

Redoes(b, c) ==
  b.hist.redo # << >> /\ Restores(b, c, Last(b.hist.redo), RedoPop(b.hist, b.data, b.sel))

\* Undo and redo put back a selection that kept the promises when it was taken.
LEMMA UndoKeepsBuf ==
  ASSUME NEW b \in Bufs
  PROVE  /\ b.hist.undo # << >> =>
              PerformUndo(b) \in Bufs /\ (~PerformUndo(b).panic => Undoes(b, PerformUndo(b)))
         /\ b.hist.redo # << >> =>
              PerformRedo(b) \in Bufs /\ (~PerformRedo(b).panic => Redoes(b, PerformRedo(b)))
<1>1. PICK t \in Text, s \in Selections, h \in Hists : t = b.data /\ s = b.sel /\ h = b.hist
  BY BufFields
<1>2. PICK p \in Seq(Entries), u \in Seq(Entries), r \in Seq(Entries) :
        h = HistOf(p, u, r) /\ h.partial = p /\ h.undo = u /\ h.redo = r
  BY HistFields
<1>3. ASSUME NEW e \in Entries, NEW g, ~ApplyPanics(t, e.delta) => g \in Hists
      PROVE  /\ Restore(b, e, g) \in Bufs
             /\ ~Restore(b, e, g).panic => Restores(b, Restore(b, e, g), e, g)
  <2>1. CASE ApplyPanics(t, e.delta)
    <3>1. Restore(b, e, g) = Crash(b)
      BY <1>1, <2>1 DEF Restore
    <3>2. Crash(b) \in Bufs /\ Crash(b).panic
      BY BufSets
    <3> QED BY <3>1, <3>2, Zenon
  <2>2. CASE ~ApplyPanics(t, e.delta)
    <3>1. PICK v \in Text : v = ApplyDelta(t, e.delta)
      BY <2>2, EntryFields, LongerFits
    <3>2. PICK q \in Selections : q = e.sel
      BY EntryFields
    <3>3. PICK c : c = [b EXCEPT !.hist = g, !.sel = q, !.dirty = TRUE, !.data = v]
      OBVIOUS
    <3>4. c \in Bufs
      BY <1>3, <2>2, <3>3 DEF Bufs
    <3>5. Restore(b, e, g) = c
      BY <1>1, <2>2, <3>1, <3>2, <3>3, Zenon DEF Restore
    <3>6. c.data = v /\ c.sel = q /\ c.dirty = TRUE /\ c.hist = g
      BY <3>3 DEF Bufs
    <3>7. Restores(b, c, e, g)
      BY <1>1, <2>2, <3>1, <3>2, <3>6 DEF Restores
    <3> QED BY <3>4, <3>5, <3>7
  <2> QED BY <2>1, <2>2
<1>4. ASSUME u # << >>
      PROVE  PerformUndo(b) \in Bufs /\ (~PerformUndo(b).panic => Undoes(b, PerformUndo(b)))
  <2>1. PICK e \in Entries, f \in Seq(Entries) : e = Last(u) /\ f = Front(u)
    BY <1>4, PoppedEntries
  <2>2. PICK x : x = Append(r, Entry(Invert(e.delta, t), s))
    OBVIOUS
  <2>3. UndoPop(h, t, s) = NewStacks(h, f, x)
    BY <1>2, <2>1, <2>2, Zenon DEF UndoPop, NewStacks
  <2>4. ASSUME ~ApplyPanics(t, e.delta) PROVE UndoPop(h, t, s) \in Hists
    <3>1. Invert(e.delta, t) \in AnyDelta
      BY <2>4, EntryFields, LongerFits
    <3>2. x \in Seq(Entries)
      BY <2>2, <3>1, EntryFields
    <3> QED BY <1>2, <2>3, <3>2, HistFields, HistOfType
  <2>5. PICK c : c = Restore(b, e, UndoPop(h, t, s))
    OBVIOUS
  <2>6. c \in Bufs /\ (~c.panic => Restores(b, c, e, UndoPop(h, t, s)))
    BY <1>3, <2>4, <2>5
  <2>7. c = PerformUndo(b)
    BY <1>1, <1>2, <2>1, <2>5 DEF PerformUndo
  <2>8. Restores(b, c, e, UndoPop(h, t, s)) => Undoes(b, c)
    BY <1>1, <1>2, <1>4, <2>1 DEF Undoes
  <2> QED BY <2>6, <2>7, <2>8
<1>5. ASSUME r # << >>
      PROVE  PerformRedo(b) \in Bufs /\ (~PerformRedo(b).panic => Redoes(b, PerformRedo(b)))
  <2>1. PICK e \in Entries, f \in Seq(Entries) : e = Last(r) /\ f = Front(r)
    BY <1>5, PoppedEntries
  <2>2. PICK x : x = Append(u, Entry(Invert(e.delta, t), s))
    OBVIOUS
  <2>3. RedoPop(h, t, s) = NewStacks2(h, f, x)
    BY <1>2, <2>1, <2>2, Zenon DEF RedoPop, NewStacks2
  <2>4. ASSUME ~ApplyPanics(t, e.delta) PROVE RedoPop(h, t, s) \in Hists
    <3>1. Invert(e.delta, t) \in AnyDelta
      BY <2>4, EntryFields, LongerFits
    <3>2. x \in Seq(Entries)
      BY <2>2, <3>1, EntryFields
    <3> QED BY <1>2, <2>3, <3>2, HistFields, HistOfType
  <2>5. PICK c : c = Restore(b, e, RedoPop(h, t, s))
    OBVIOUS
  <2>6. c \in Bufs /\ (~c.panic => Restores(b, c, e, RedoPop(h, t, s)))
    BY <1>3, <2>4, <2>5
  <2>7. c = PerformRedo(b)
    BY <1>1, <1>2, <2>1, <2>5 DEF PerformRedo
  <2>8. Restores(b, c, e, RedoPop(h, t, s)) => Redoes(b, c)
    BY <1>1, <1>2, <1>5, <2>1 DEF Redoes
  <2> QED BY <2>6, <2>7, <2>8
<1> QED BY <1>1, <1>2, <1>4, <1>5

-----------------------------------------------------------------------------
(* What the modes do to the buffer.                                        *)

\* Half a typed byte: its first digit, shifted, or none.
Halves == {NoHalf} \cup {16 * d : d \in 0 .. 15}

\* The value of a digit.
LEMMA DigitValue ==
  ASSUME NEW k
  PROVE  /\ k \in DOMAIN Digit => Digit[k] \in 0 .. 15
         /\ k \in DOMAIN HexDigit => HexDigit[k] \in 0 .. 15
<1>1. ASSUME NEW s, NEW n \in Nat, DOMAIN s = 1 .. n, k \in DOMAIN DigitsOf(s)
      PROVE  DigitsOf(s)[k] \in 0 .. n - 1
  <2>1. PICK d \in DOMAIN s : s[d] = k
    BY <1>1 DEF DigitsOf
  <2>2. PICK c : c = CHOOSE x \in DOMAIN s : s[x] = k
    OBVIOUS
  <2>3. c \in DOMAIN s
    BY <2>1, <2>2
  <2>4. DigitsOf(s)[k] = c - 1
    BY <1>1, <2>2 DEF DigitsOf
  <2> QED BY <1>1, <2>3, <2>4
<1>2. PICK s : s = << "0", "1", "2", "3", "4", "5", "6", "7", "8", "9", "a", "b", "c", "d", "e", "f" >>
  OBVIOUS
<1>3. DOMAIN s = 1 .. 16
  BY <1>2
<1>4. k \in DOMAIN Digit => Digit[k] \in 0 .. 15
  <2>1. Digit = DigitsOf(s)
    BY <1>2 DEF Digit
  <2>2. k \in DOMAIN DigitsOf(s) => DigitsOf(s)[k] \in 0 .. 16 - 1
    BY <1>1, <1>3
  <2> QED BY <2>1, <2>2
<1>5. ASSUME k \in DOMAIN HexDigit PROVE HexDigit[k] \in 0 .. 15
  <2>1. PICK cap : cap = [A |-> 10, B |-> 11, C |-> 12, D |-> 13, E |-> 14, F |-> 15]
    OBVIOUS
  <2>2. HexDigit = [x \in DOMAIN Digit \cup DOMAIN cap |->
                      IF x \in DOMAIN Digit THEN Digit[x] ELSE cap[x]]
    BY <2>1 DEF HexDigit
  <2>3. k \in DOMAIN cap => cap[k] \in 0 .. 15
    BY <2>1
  <2>4. \/ k \in DOMAIN Digit /\ HexDigit[k] = Digit[k]
        \/ k \in DOMAIN cap /\ HexDigit[k] = cap[k]
    BY <1>5, <2>2
  <2> QED BY <1>4, <2>3, <2>4
<1> QED BY <1>4, <1>5

\* A byte typed as two digits.
LEMMA TwoDigits ==
  ASSUME NEW d \in 0 .. 15
  PROVE  /\ 16 * d \in Halves /\ NoHalf \in Halves /\ 16 * d \in Bytes
         /\ \A h \in Halves : h # NoHalf => h + d \in Bytes
<1>1. 16 * d \in Halves /\ NoHalf \in Halves /\ 16 * d \in Bytes
  BY DEF Halves, Bytes
<1>2. ASSUME NEW h \in Halves, h # NoHalf PROVE h + d \in Bytes
  <2>1. PICK c \in 0 .. 15 : h = 16 * c
    BY <1>2 DEF Halves
  <2> QED BY <2>1 DEF Bytes
<1> QED BY <1>1, <1>2

\* d and c, p and P, r and R.
LEMMA FinalEditsKeepBuf ==
  ASSUME NEW b \in Bufs
  PROVE  /\ DeleteSelected(b) \in Bufs
         /\ b.data = << >> => Picks(b, DeleteSelected(b))
         /\ b.data # << >> => Finishes(b, DeleteSelected(b))
         /\ \A after \in BOOLEAN, count \in Nat : Finishes(b, PasteRegister(b, after, count))
         /\ \A ch \in Bytes : Finishes(b, BufApplyDelta(b, Replace(b.data, b.sel, ch)))
<1>1. PICK t \in Text, s \in Selections, g \in Seq(Text) :
        t = b.data /\ s = b.sel /\ g = b.reg /\ g # << >>
  BY BufFields DEF Registers
<1>2. s.regions \in Seq(Regions)
  BY SelectionFields
<1>3. PICK y \in Bufs : /\ y = YankSelections(b) /\ y.data = b.data
                        /\ ~y.panic => Same(b, y) /\ y.sel = b.sel
  BY YankKeepsBuf
<1>4. PICK edits \in Seq(Edits) : edits = Deletion(t, s)
  BY <1>2, OperationsType
<1>5. ASSUME t = << >> PROVE DeleteSelected(b) \in Bufs /\ Picks(b, DeleteSelected(b))
  <2>1. DeleteSelected(b) = y
    BY <1>1, <1>3, <1>5 DEF DeleteSelected
  <2>2. Chooses(b, y)
    BY <1>3 DEF Chooses, Marks
  <2>3. Confines(b, y)
    BY <1>3 DEF Confines, Ends
  <2> QED BY <1>3, <2>1, <2>2, <2>3 DEF Picks
<1>6. ASSUME t # << >> PROVE DeleteSelected(b) \in Bufs /\ Finishes(b, DeleteSelected(b))
  <2>1. CASE y.panic
    <3>1. DeleteSelected(b) = y
      BY <1>3, <2>1 DEF DeleteSelected
    <3> QED BY <2>1, <3>1 DEF Finishes
  <2>2. CASE ~y.panic
    <3>1. PICK c : c = BufApplyDelta(y, edits) /\ c = DeleteSelected(b)
      BY <1>1, <1>3, <1>4, <1>6, <2>2 DEF DeleteSelected
    <3>2. Finishes(y, c)
      BY <3>1, DeltasKeepBuf
    <3>3. y.data = b.data /\ y.hist = b.hist /\ y.sel = b.sel
      BY <1>3, <2>2 DEF Same
    <3>4. Finals(y, c) => Finals(b, c)
      BY <3>3 DEF Finals, Edited, Marks
    <3> QED BY <3>1, <3>2, <3>4 DEF Finishes
  <2> QED BY <2>1, <2>2
<1>7. ASSUME NEW after \in BOOLEAN, NEW count \in Nat PROVE Finishes(b, PasteRegister(b, after, count))
  <2>1. Paste(t, s, g, after, count) \in Seq(Edits)
    BY <1>1, <1>2, OperationsType
  <2> QED BY <1>1, <2>1, DeltasKeepBuf DEF PasteRegister
<1>8. ASSUME NEW ch \in Bytes PROVE Finishes(b, BufApplyDelta(b, Replace(b.data, b.sel, ch)))
  <2>1. Replace(t, s, ch) \in Seq(Edits)
    BY <1>2, OperationsType
  <2> QED BY <1>1, <2>1, DeltasKeepBuf
<1> QED BY <1>1, <1>5, <1>6, <1>7, <1>8

\* The edits of an insertion.
LEMMA InsertionsKeepBuf ==
  ASSUME NEW b \in Bufs
  PROVE  /\ \A text \in Text : Continues(b, ApplyIncompleteDelta(b, Insert(b.data, b.sel, text)))
         /\ \A kind : \A text \in Text : Continues(b, AsciiInsertion(b, kind, text))
         /\ Continues(b, ApplyIncompleteDelta(b, DeleteCursor(b.data, b.sel)))
         /\ Continues(b, ApplyIncompleteDelta(b, Backspace(b.data, b.sel)))
         /\ \A text \in Text : Continues(b, ApplyIncompleteDelta(b, Change(b.data, b.sel, text)))
<1>1. PICK t \in Text, s \in Selections : t = b.data /\ s = b.sel
  BY BufFields
<1>2. s.regions \in Seq(Regions)
  BY SelectionFields
<1>3. /\ DeleteCursor(t, s) \in Seq(Edits) /\ Backspace(t, s) \in Seq(Edits)
      /\ \A text \in Text : Insert(t, s, text) \in Seq(Edits) /\ Change(t, s, text) \in Seq(Edits)
  BY <1>2, OperationsType
<1>4. \A edits \in Seq(Edits) : Continues(b, ApplyIncompleteDelta(b, edits))
  BY DeltasKeepBuf
<1>5. /\ Continues(b, ApplyIncompleteDelta(b, DeleteCursor(b.data, b.sel)))
      /\ Continues(b, ApplyIncompleteDelta(b, Backspace(b.data, b.sel)))
      /\ \A text \in Text : /\ Continues(b, ApplyIncompleteDelta(b, Insert(b.data, b.sel, text)))
                            /\ Continues(b, ApplyIncompleteDelta(b, Change(b.data, b.sel, text)))
  BY <1>1, <1>3, <1>4
<1>6. \A kind : \A text \in Text : Continues(b, AsciiInsertion(b, kind, text))
  BY <1>5 DEF AsciiInsertion
<1> QED BY <1>5, <1>6

\* The first digit inserts a byte at or before each caret, so the caret can go back
\* to it; the second completes the byte.
LEMMA HexInsertionKeepsBuf ==
  ASSUME NEW b \in Bufs, NEW kind, NEW half \in Halves, NEW digit \in 0 .. 15
  PROVE  Continues(b, HexInsertion(b, kind, half, digit))
<1>1. PICK t \in Text, n \in Nat, s \in Selections : t = b.data /\ n = Len(t) /\ s = b.sel
  BY BufFields
<1>2. PICK R \in Seq(Regions), m \in Nat :
        /\ R = s.regions /\ m = Len(R) /\ DOMAIN R = 1 .. m /\ \A i \in 1 .. m : R[i] \in Regions
  BY SelectionFields
<1>3. ASSUME NEW edits \in Seq(Edits), Len(edits) = m,
             \A i \in 1 .. m : edits[i].text # << >> /\ edits[i].from = R[i].caret
      PROVE  Continues(b, ApplyIncompleteDeltaOffsetCarets(b, edits, -1, 0))
  <2>1. PICK d \in Deltas(n) : d = Build(n, edits)
    BY BuildType
  <2>2. ASSUME NEW i \in 1 .. m PROVE Transform(d, R[i].caret) + (-1) >= 0
    <3>1. PICK c \in Nat : c = R[i].caret
      BY <1>2, RegionBounds
    <3>2. c \in 0 .. c
      OBVIOUS
    <3>3. edits[i].text # << >> /\ edits[i].from \in 0 .. c
      BY <1>3, <3>1, <3>2
    <3>4. Transform(d, c) >= 1 /\ Transform(d, c) \in Nat
      BY <1>3, <2>1, <3>3, BuildMakes, TransformInOrder
    <3> QED BY <3>1, <3>4
  <2>3. PICK o \in Int : o = -1 /\ o <= 0
    OBVIOUS
  <2>4. \A i \in DOMAIN b.sel.regions :
          Transform(Build(Len(b.data), edits), b.sel.regions[i].caret) + o >= 0
    BY <1>1, <1>2, <2>1, <2>2, <2>3
  <2>5. ~FALSE => Continues(b, ApplyEdits(b, edits, FALSE, o, 0))
    BY <2>3, <2>4, EditsKeepBuf
  <2> QED BY <2>3, <2>5, Zenon DEF ApplyIncompleteDeltaOffsetCarets
<1>4. CASE half = NoHalf
  <2>1. PICK x \in Text : x = << 16 * digit >> /\ x # << >>
    BY TwoDigits, TextConcat
  <2>2. PICK e \in Seq(Edits) : e = Insert(t, s, x)
    BY <1>2, OperationsType
  <2>3. Len(e) = m /\ \A i \in 1 .. m : e[i].text # << >> /\ e[i].from = R[i].caret
    BY <1>2, <2>1, <2>2 DEF Insert, EachRegion, Edit
  <2>4. PICK f \in Seq(Edits) : f = OverwriteHalf(t, s, 16 * digit)
    BY <1>2, OperationsType
  <2>5. Len(f) = m /\ \A i \in 1 .. m : f[i].text # << >> /\ f[i].from = R[i].caret
    <3>1. f = [i \in DOMAIN R |->
                 Edit(R[i].caret, R[i].caret + 1,
                      << 16 * digit + (IF R[i].caret < Len(t) THEN t[R[i].caret + 1] % 16 ELSE 0) >>)]
      BY <1>2, <2>4, Zenon DEF OverwriteHalf, EachRegion
    <3>2. ASSUME NEW i \in 1 .. m PROVE f[i].text # << >> /\ f[i].from = R[i].caret
      <4>1. PICK y : f[i] = Edit(R[i].caret, R[i].caret + 1, << y >>)
        BY <1>2, <3>1
      <4> QED BY <4>1 DEF Edit
    <3>3. Len(f) = m
      BY <1>2, <3>1
    <3> QED BY <3>2, <3>3
  <2>6. /\ Continues(b, ApplyIncompleteDeltaOffsetCarets(b, e, -1, 0))
        /\ Continues(b, ApplyIncompleteDeltaOffsetCarets(b, f, -1, 0))
    BY <1>3, <2>3, <2>5
  <2> QED BY <1>1, <1>4, <2>1, <2>2, <2>4, <2>6 DEF HexInsertion
<1>5. CASE half # NoHalf
  <2>1. half + digit \in Bytes
    BY <1>5, TwoDigits
  <2>2. << half + digit >> \in Text
    BY <2>1, TextConcat
  <2> QED BY <1>5, <2>2, InsertionsKeepBuf DEF HexInsertion
<1> QED BY <1>4, <1>5

-----------------------------------------------------------------------------
(* The screen: its first byte starts a line.                               *)

\* The offsets where lines start.
Lines == {i * BPL : i \in Nat}

\* Sums and differences of them, as far as they are offsets.
LEMMA LinesAdd ==
  /\ Lines \subseteq Nat /\ 0 \in Lines /\ BPL \in Lines
  /\ \A n \in Nat : n * BPL \in Lines
  /\ \A x, y \in Lines : x + y \in Lines
  /\ \A x, y \in Lines : x >= y => x - y \in Lines
  /\ \A x, y \in Lines : Greater(0, x - y) \in Lines
<1>1. PICK B \in Nat \ {0} : B = BPL
  BY ViewAssumption
<1>2. \A n \in Nat : n * B \in Nat /\ n * BPL \in Lines
  BY <1>1 DEF Lines
<1>3. Lines \subseteq Nat
  BY <1>1, <1>2 DEF Lines
<1>4. 0 \in Lines /\ BPL \in Lines
  <2>1. 0 * B = 0 /\ 1 * B = B
    OBVIOUS
  <2> QED BY <1>1, <1>2, <2>1
<1>5. ASSUME NEW x \in Lines, NEW y \in Lines
      PROVE  x + y \in Lines /\ (x >= y => x - y \in Lines)
  <2>1. PICK i \in Nat, j \in Nat : x = i * B /\ y = j * B
    BY <1>1 DEF Lines
  <2>2. x + y = (i + j) * B
    BY <2>1
  <2>3. ASSUME x >= y PROVE x - y \in Lines
    <3>1. CASE j <= i
      <4>1. PICK d \in Nat : i = d + j
        BY <3>1
      <4>2. x - y = d * B
        BY <2>1, <4>1
      <4> QED BY <1>1, <1>2, <4>2
    <3>2. CASE i <= j
      <4>1. x <= y /\ x \in Nat /\ y \in Nat
        BY <2>1, <3>2, TimesInOrder
      <4>2. x - y = 0
        BY <2>3, <4>1
      <4> QED BY <1>4, <4>2
    <3> QED BY <3>1, <3>2
  <2>4. i + j \in Nat
    OBVIOUS
  <2> QED BY <1>1, <1>2, <2>2, <2>3, <2>4
<1>6. ASSUME NEW x \in Lines, NEW y \in Lines PROVE Greater(0, x - y) \in Lines
  <2>1. x \in Nat /\ y \in Nat
    BY <1>3
  <2> QED BY <1>4, <1>5, <2>1 DEF Greater
<1> QED BY <1>2, <1>3, <1>4, <1>5, <1>6

\* The line an offset is on, and the number of lines for so many bytes.
LEMMA LineOf ==
  ASSUME NEW x \in Nat
  PROVE  /\ x - (x % BPL) \in Lines /\ x - (x % BPL) <= x
         /\ LinesFor(x) \in Nat
         /\ x \in Lines => x % BPL = 0
<1>1. PICK B \in Nat \ {0} : B = BPL
  BY ViewAssumption
<1>2. PICK q \in Nat, r \in Nat : q = x \div B /\ r = x % B /\ x = (B * q) + r /\ r <= B - 1
  OBVIOUS
<1>3. x - r = q * B /\ x - r <= x
  BY <1>2
<1>4. x - r \in Lines
  BY <1>1, <1>3 DEF Lines
<1>5. LinesFor(x) \in Nat
  <2>1. PICK z \in Nat : z = x + B - 1
    OBVIOUS
  <2>2. z \div B \in Nat
    OBVIOUS
  <2> QED BY <1>1, <2>1, <2>2 DEF LinesFor
<1>6. ASSUME x \in Lines PROVE r = 0
  <2>1. PICK i \in Nat : x = i * B
    BY <1>1, <1>6 DEF Lines
  <2>2. CASE i <= q
    <3>1. i * B <= q * B /\ i * B \in Nat /\ q * B \in Nat
      BY <2>2, TimesInOrder
    <3> QED BY <1>3, <2>1, <3>1
  <2>3. CASE q + 1 <= i
    <3>1. (q + 1) * B <= i * B /\ i * B \in Nat /\ (q + 1) * B \in Nat
      BY <2>3, TimesInOrder
    <3>2. (q + 1) * B = (q * B) + B /\ q * B \in Nat
      OBVIOUS
    <3> QED BY <1>2, <1>3, <2>1, <3>1, <3>2
  <2> QED BY <2>2, <2>3
<1> QED BY <1>1, <1>2, <1>3, <1>4, <1>5, <1>6

\* The lines for so many bytes hold them, and no whole line is to spare.
LEMMA LinesCover ==
  ASSUME NEW x \in Nat
  PROVE  /\ LinesFor(x) * BPL \in Nat /\ x <= LinesFor(x) * BPL
         /\ \A y \in Lines : x <= y => LinesFor(x) * BPL <= y
<1>1. PICK B \in Nat \ {0} : B = BPL
  BY ViewAssumption
<1>2. PICK z \in Nat : z = x + B - 1
  OBVIOUS
<1>3. PICK q \in Nat, r \in Nat : q = z \div B /\ r = z % B /\ z = (B * q) + r /\ r <= B - 1
  OBVIOUS
<1>4. LinesFor(x) * BPL = q * B
  BY <1>1, <1>2, <1>3 DEF LinesFor
<1>5. PICK l \in Nat : l = q * B /\ l = x + B - 1 - r
  BY <1>2, <1>3
<1>6. x <= l
  BY <1>3, <1>5
<1>7. ASSUME NEW y \in Lines, x <= y PROVE l <= y
  <2>1. PICK i \in Nat : y = i * B
    BY <1>1 DEF Lines
  <2>2. CASE q <= i
    <3>1. q * B <= i * B /\ i * B \in Nat /\ q * B \in Nat
      BY <2>2, TimesInOrder
    <3> QED BY <1>5, <2>1, <3>1
  <2>3. CASE i + 1 <= q
    <3>1. (i + 1) * B <= q * B /\ (i + 1) * B \in Nat /\ q * B \in Nat
      BY <2>3, TimesInOrder
    <3>2. (i + 1) * B = (i * B) + B /\ i * B \in Nat
      OBVIOUS
    <3>3. y + B <= l /\ y \in Nat
      BY <1>5, <2>1, <3>1, <3>2
    <3> QED BY <1>5, <1>7, <3>3
  <2> QED BY <2>2, <2>3
<1> QED BY <1>4, <1>5, <1>6, <1>7

\* Screens that begin with a line, of a buffer that is well formed.
Screens == [b : Bufs, start : Lines, rows : Heights]

\* What is known of such a screen.
LEMMA ScreenFields ==
  ASSUME NEW v \in Screens
  PROVE  /\ v.b \in Bufs /\ v.start \in Lines /\ v.rows \in Heights
         /\ v.start \in Nat /\ v.rows \in Nat /\ Loaded(v) \in Nat
         /\ ChunkSize(v) \in Lines /\ ChunkSize(v) \in Nat
         /\ CaretOf(v) \in Nat /\ VisibleEnd(v) \in Nat
<1>1. v.b \in Bufs /\ v.start \in Lines /\ v.rows \in Heights
  BY DEF Screens
<1>2. v.rows \in Nat
  BY <1>1, EditorAssumption
<1>3. Loaded(v) \in Nat
  BY <1>1, BufFields DEF Loaded
<1>4. ChunkSize(v) \in Lines
  BY <1>2, LinesAdd DEF ChunkSize
<1>5. v.start \in Nat /\ ChunkSize(v) \in Nat
  BY <1>1, <1>4, LinesAdd
<1>6. CaretOf(v) \in Nat
  <2>1. PICK s \in Selections : s = v.b.sel
    BY <1>1, BufFields
  <2>2. s.main_selection + 1 \in 1 .. Len(s.regions)
    BY SelectionFields
  <2>3. s.regions[s.main_selection + 1] \in Regions
    BY <2>2, SelectionFields
  <2>4. s.regions[s.main_selection + 1].caret \in Nat
    BY <2>3, RegionBounds
  <2> QED BY <2>1, <2>4 DEF CaretOf, MainRegion
<1>7. VisibleEnd(v) \in Nat
  <2>1. PICK x \in Nat, y \in Nat : x = Loaded(v) + 1 /\ y = v.start + ChunkSize(v)
    BY <1>3, <1>5
  <2> QED BY <2>1 DEF VisibleEnd, Lesser
<1> QED BY <1>1, <1>2, <1>3, <1>4, <1>5, <1>6, <1>7

\* A screen put together, and the fields assigned.
LEMMA ScreenSets ==
  /\ \A b \in Bufs, s \in Lines, r \in Heights :
       Screen(b, s, r) \in Screens /\ Screen(b, s, r).b = b /\ Screen(b, s, r).start = s
       /\ Screen(b, s, r).rows = r
  /\ \A v \in Screens : \A s \in Lines : /\ [v EXCEPT !.start = s] \in Screens
                                         /\ [v EXCEPT !.start = s].b = v.b
                                         /\ [v EXCEPT !.start = s].start = s
  /\ \A v \in Screens : \A b \in Bufs : /\ [v EXCEPT !.b = b] \in Screens
                                        /\ [v EXCEPT !.b = b].b = b
                                        /\ [v EXCEPT !.b = b].start = v.start
<1>1. \A b \in Bufs, s \in Lines, r \in Heights :
        Screen(b, s, r) \in Screens /\ Screen(b, s, r).b = b /\ Screen(b, s, r).start = s
        /\ Screen(b, s, r).rows = r
  BY DEF Screen, Screens
<1>2. \A v \in Screens : \A s \in Lines : /\ [v EXCEPT !.start = s] \in Screens
                                          /\ [v EXCEPT !.start = s].b = v.b
                                          /\ [v EXCEPT !.start = s].start = s
  BY DEF Screens
<1>3. \A v \in Screens : \A b \in Bufs : /\ [v EXCEPT !.b = b] \in Screens
                                         /\ [v EXCEPT !.b = b].b = b
                                         /\ [v EXCEPT !.b = b].start = v.start
  BY DEF Screens
<1> QED BY <1>1, <1>2, <1>3

\* What the view may do to the bytes x: nothing without a file, and as long as the file
\* is no more than three screenfuls, the first bytes of it stay the first bytes of it.
NeverTrims  == HasPath => \A h \in Heights : Len(File) <= 3 * (h * BPL)
Starts(x)   == Len(x) <= Len(File) /\ x = SubSeq(File, 1, Len(x))
Loads(x, y) == (~HasPath => y = x) /\ (NeverTrims /\ Starts(x) => Starts(y))

\* The view takes the buffer b to c, and the screen v to w unless it panics.
Shown(b, c) == c.sel = b.sel /\ c.hist = b.hist /\ c.dirty = b.dirty /\ Loads(b.data, c.data)
Shows(v, w) == ~w.b.panic => ~v.b.panic /\ Shown(v.b, w.b)

\* The view may do nothing, and one thing after the other.
LEMMA ShowsOn ==
  /\ \A b : Shown(b, b)
  /\ \A v, w : w.b = v.b => Shows(v, w)
  /\ \A u, v, w : Shows(u, v) /\ Shows(v, w) => Shows(u, w)
  /\ \A v, w : w.b.panic => Shows(v, w)
BY DEF Shows, Shown, Loads

\* The screen begins within the buffer; or no later than the main caret.  A screen stays
\* in the buffer: it moves on only to where there are bytes.
OnBytes(v)  == v.start <= Loaded(v)
Pursues(v)  == v.b.panic \/ OnBytes(v) \/ v.start <= CaretOf(v)
Stays(v, w) == ~w.b.panic => (OnBytes(v) => OnBytes(w)) /\ (OnBytes(w) \/ w.start <= v.start)

\* A screen that stays, and the caret it is to show.
LEMMA StaysOn ==
  /\ \A v \in Screens : Stays(v, v)
  /\ \A u, v, w \in Screens : Stays(u, v) /\ Stays(v, w) /\ (v.b.panic => w.b.panic) => Stays(u, w)
  /\ \A v, w \in Screens : Pursues(v) /\ Stays(v, w) /\ Shows(v, w) => Pursues(w)
  /\ \A v, w \in Screens : Loaded(w) >= Loaded(v) /\ w.start <= v.start => Stays(v, w)
<1>1. \A v \in Screens : v.start \in Nat /\ Loaded(v) \in Nat /\ CaretOf(v) \in Nat
  BY ScreenFields
<1>2. \A v, w \in Screens : Loaded(w) >= Loaded(v) /\ w.start <= v.start => Stays(v, w)
  BY <1>1 DEF Stays, OnBytes
<1>3. \A v \in Screens : Stays(v, v)
  BY <1>1, <1>2
<1>4. \A u, v, w \in Screens : Stays(u, v) /\ Stays(v, w) /\ (v.b.panic => w.b.panic) => Stays(u, w)
  BY <1>1 DEF Stays, OnBytes
<1>5. ASSUME NEW v \in Screens, NEW w \in Screens, Pursues(v), Stays(v, w), Shows(v, w), ~w.b.panic
      PROVE  OnBytes(w) \/ w.start <= CaretOf(w)
  <2>1. ~v.b.panic /\ CaretOf(w) = CaretOf(v)
    BY <1>5 DEF Shows, Shown, CaretOf
  <2> QED BY <1>1, <1>5, <2>1 DEF Pursues, Stays
<1> QED BY <1>2, <1>3, <1>4, <1>5 DEF Pursues

\* A piece of some bytes.
LEMMA PieceOf ==
  ASSUME NEW f \in Text, NEW n \in Nat, NEW q \in Nat, n <= q, q <= Len(f)
  PROVE  /\ SubSeq(f, n + 1, q) \in Text /\ Len(SubSeq(f, n + 1, q)) = q - n
         /\ \A k \in 1 .. q - n : SubSeq(f, n + 1, q)[k] = f[n + k]
<1>1. PICK p \in Int, r \in Int, m \in Nat : p = n + 1 /\ r = q /\ m = Len(f)
  BY TextElements
<1>2. \A k \in p .. r : f[k] \in Bytes
  BY <1>1, TextElements
<1>3. /\ SubSeq(f, p, r) \in Seq(Bytes)
      /\ Len(SubSeq(f, p, r)) = IF p <= r THEN r - p + 1 ELSE 0
      /\ \A i \in 1 .. r - p + 1 : SubSeq(f, p, r)[i] = f[p + i - 1]
  BY <1>2, SubSeqProperties
<1>4. r - p + 1 = q - n /\ (IF p <= r THEN r - p + 1 ELSE 0) = q - n
  BY <1>1
<1>5. \A k \in 1 .. q - n : p + k - 1 = n + k
  BY <1>1
<1>6. PICK u : u = SubSeq(f, p, r)
  OBVIOUS
<1>7. u = SubSeq(f, n + 1, q)
  BY <1>1, <1>6
<1>8. u \in Text /\ Len(u) = q - n
  BY <1>3, <1>4, <1>6 DEF Text
<1>9. \A k \in 1 .. q - n : u[k] = f[n + k]
  <2> SUFFICES ASSUME NEW k \in 1 .. q - n PROVE u[k] = f[n + k]
    OBVIOUS
  <2>1. k \in 1 .. r - p + 1
    BY <1>4
  <2>2. u[k] = f[p + k - 1]
    BY <1>3, <1>6, <2>1
  <2> QED BY <1>5, <2>2
<1> QED BY <1>7, <1>8, <1>9

\* A chunk read on from where the first bytes of the file end.
LEMMA StartsOn ==
  ASSUME NEW x \in Text, Starts(x), NEW size \in Nat, NEW y \in Text,
         y = SubSeq(File, Len(x) + 1, Lesser(Len(x) + size, Len(File)))
  PROVE  Starts(x \o y)
<1>1. PICK f \in Text, m \in Nat, n \in Nat : f = File /\ m = Len(f) /\ n = Len(x)
  <2>1. File \in Text
    BY ViewAssumption DEF Text
  <2> QED BY <2>1, TextElements
<1>9. n <= m /\ x = SubSeq(f, 1, n)
  BY <1>1 DEF Starts
<1>2. PICK q \in Nat : q = Lesser(n + size, m) /\ n <= q /\ q <= m
  BY <1>9 DEF Lesser
<1>3. Len(y) = q - n /\ \A k \in 1 .. q - n : y[k] = f[n + k]
  <2>1. y = SubSeq(f, n + 1, q)
    BY <1>1, <1>2
  <2> QED BY <1>1, <1>2, <2>1, PieceOf
<1>4. \A k \in 1 .. n : x[k] = f[k]
  <2>1. 0 + 1 = 1 /\ n - 0 = n /\ 0 <= n /\ \A k \in 1 .. n : 0 + k = k
    OBVIOUS
  <2>2. \A k \in 1 .. n - 0 : SubSeq(f, 0 + 1, n)[k] = f[0 + k]
    BY <1>1, <1>9, <2>1, PieceOf
  <2> QED BY <1>9, <2>1, <2>2
<1>5. PICK z \in Text : z = x \o y
  BY TextConcat
<1>6. /\ Len(z) = q
      /\ \A k \in 1 .. q : z[k] = IF k <= n THEN x[k] ELSE y[k - n]
  <2>1. /\ Len(z) = Len(x) + Len(y)
        /\ \A k \in 1 .. Len(x) + Len(y) : z[k] = IF k <= Len(x) THEN x[k] ELSE y[k - Len(x)]
    BY <1>5, ConcatProperties DEF Text
  <2>2. Len(x) + Len(y) = q
    BY <1>1, <1>2, <1>3
  <2> QED BY <1>1, <2>1, <2>2
<1>7. \A k \in 1 .. q : z[k] = f[k]
  <2> SUFFICES ASSUME NEW k \in 1 .. q PROVE z[k] = f[k]
    OBVIOUS
  <2>1. CASE k <= n
    BY <1>4, <1>6, <2>1
  <2>2. CASE ~(k <= n)
    <3>1. PICK j \in 1 .. q - n : j = k - n /\ n + j = k
      BY <2>2
    <3> QED BY <1>3, <1>6, <2>2, <3>1
  <2> QED BY <2>1, <2>2
<1>8. z = SubSeq(f, 1, q)
  <2>1. PICK u : u = SubSeq(f, 1, q)
    OBVIOUS
  <2>2. 0 + 1 = 1 /\ q - 0 = q /\ 0 <= q /\ \A k \in 1 .. q : 0 + k = k
    OBVIOUS
  <2>3. /\ SubSeq(f, 0 + 1, q) \in Text /\ Len(SubSeq(f, 0 + 1, q)) = q - 0
        /\ \A k \in 1 .. q - 0 : SubSeq(f, 0 + 1, q)[k] = f[0 + k]
    <3>1. 0 \in Nat /\ 0 <= q /\ q <= Len(f)
      BY <1>1, <1>2
    <3> QED BY <3>1, PieceOf
  <2>4. u \in Text /\ Len(u) = q /\ \A k \in 1 .. q : u[k] = f[k]
    BY <2>1, <2>2, <2>3
  <2>5. \A k \in 1 .. Len(z) : z[k] = u[k]
    BY <1>6, <1>7, <2>4
  <2> QED BY <1>6, <2>1, <2>4, <2>5, TextElements
<1> QED BY <1>1, <1>2, <1>5, <1>6, <1>8 DEF Starts

\* load_next_chunk adds bytes of the file at the end.
LEMMA LoadKeepsScreen ==
  ASSUME NEW v \in Screens, NEW size \in Nat
  PROVE  /\ Load(v, size) \in Screens /\ Load(v, size).start = v.start
         /\ Load(v, size).b.sel = v.b.sel /\ Load(v, size).b.panic = v.b.panic
         /\ Loaded(Load(v, size)) >= Loaded(v) /\ Load(v, size).rows = v.rows
         /\ Shows(v, Load(v, size)) /\ (~HasPath => Load(v, size) = v)
<1>1. PICK b \in Bufs, t \in Text, n \in Nat : b = v.b /\ t = b.data /\ n = Len(t)
  BY ScreenFields, BufFields
<1>2. PICK f \in Text, m \in Nat : f = File /\ m = Len(f) /\ \A k \in 1 .. m : f[k] \in Bytes
  BY ViewAssumption, TextElements DEF Text
<1>3. PICK p \in Int, q \in Int : p = n + 1 /\ q = Lesser(n + size, m) /\ 1 <= p /\ q <= m
  BY DEF Lesser
<1>4. PICK s \in Text : s = SubSeq(f, p, q)
  <2>1. \A k \in p .. q : f[k] \in Bytes
    BY <1>2, <1>3
  <2>2. SubSeq(f, p, q) \in Seq(Bytes)
    BY <2>1, SubSeqProperties
  <2> QED BY <2>2 DEF Text
<1>5. PICK z \in Text : z = t \o s /\ Len(z) >= n
  <2>1. Len(t \o s) = Len(t) + Len(s)
    BY ConcatProperties DEF Text
  <2>2. Len(s) \in Nat /\ t \o s \in Text
    BY TextConcat, TextElements
  <2>3. PICK l \in Nat, j \in Nat : l = Len(t \o s) /\ j = Len(s) /\ l = n + j
    BY <1>1, <2>1, <2>2
  <2>4. Len(t \o s) >= n
    BY <2>3
  <2> QED BY <2>2, <2>4
<1>6. PICK c \in Bufs : c = LoadNextChunk(b, size) /\ c.sel = b.sel /\ c.panic = b.panic
                        /\ Len(c.data) >= n /\ Shown(b, c) /\ (~HasPath => c = b)
  <2>1. CASE HasPath
    <3>1. PICK c : c = [b EXCEPT !.data = z]
      OBVIOUS
    <3>2. c \in Bufs /\ c.data = z
      BY <3>1, BufSets
    <3>3. c.sel = b.sel /\ c.panic = b.panic
      BY <3>1 DEF Bufs
    <3>4. LoadNextChunk(b, size) = c
      BY <1>1, <1>2, <1>3, <1>4, <1>5, <2>1, <3>1 DEF LoadNextChunk
    <3>5. Starts(t) => Starts(z)
      <4>1. s = SubSeq(File, Len(t) + 1, Lesser(Len(t) + size, Len(File)))
        BY <1>1, <1>2, <1>3, <1>4
      <4> QED BY <1>5, <4>1, StartsOn
    <3>6. c.hist = b.hist /\ c.dirty = b.dirty
      BY <3>1 DEF Bufs
    <3>7. Shown(b, c)
      BY <1>1, <2>1, <3>2, <3>3, <3>5, <3>6 DEF Shown, Loads
    <3> QED BY <1>5, <2>1, <3>2, <3>3, <3>4, <3>7
  <2>2. CASE ~HasPath
    <3>1. LoadNextChunk(b, size) = b
      BY <2>2 DEF LoadNextChunk
    <3> QED BY <1>1, <3>1, ShowsOn
  <2> QED BY <2>1, <2>2
<1>7. Load(v, size) = [v EXCEPT !.b = c]
  BY <1>1, <1>6 DEF Load
<1>8. PICK w \in Screens : w = Load(v, size) /\ w.b = c /\ w.start = v.start
  <2>1. \A x \in Bufs : [v EXCEPT !.b = x] \in Screens /\ [v EXCEPT !.b = x].b = x
                        /\ [v EXCEPT !.b = x].start = v.start
    BY ScreenSets
  <2>2. PICK w : w = [v EXCEPT !.b = c]
    OBVIOUS
  <2>3. w \in Screens /\ w.b = c /\ w.start = v.start
    BY <2>1, <2>2
  <2> QED BY <1>7, <2>2, <2>3
<1>9. w.rows = v.rows /\ (~HasPath => w = v)
  <2>1. w.rows = v.rows
    BY <1>7, <1>8 DEF Screens
  <2>2. c = v.b => w = v
    BY <1>7, <1>8 DEF Screens
  <2> QED BY <1>1, <1>6, <2>1, <2>2
<1>10. Shows(v, w)
  BY <1>1, <1>6, <1>8 DEF Shows
<1> QED BY <1>1, <1>6, <1>8, <1>9, <1>10 DEF Loaded

\* draw may load bytes or panic.
LEMMA DrawKeepsScreen ==
  ASSUME NEW v \in Screens
  PROVE  /\ Draw(v) \in Screens
         /\ Draw(v).start = v.start /\ (~Draw(v).b.panic => Loaded(Draw(v)) >= Loaded(v))
         /\ v.b.panic => Draw(v).b.panic
         /\ Shows(v, Draw(v)) /\ Stays(v, Draw(v))
<1>1. PICK w \in Screens : /\ w = EnsureVisibleData(v) /\ Shows(v, w)
                           /\ w.start = v.start /\ Loaded(w) >= Loaded(v)
  <2>1. LoadSize \in Nat
    BY ViewAssumption
  <2>2. Loaded(v) >= Loaded(v)
    BY ScreenFields
  <2> QED BY <2>1, <2>2, LoadKeepsScreen, ShowsOn DEF EnsureVisibleData
<1>2. CASE v.b.panic
  BY <1>2, ShowsOn, StaysOn DEF Draw
<1>3. CASE ~v.b.panic /\ DrawPanics(w)
  <2>1. Draw(v) = [v EXCEPT !.b = Crash(v.b)]
    BY <1>1, <1>3 DEF Draw, CrashScreen
  <2>2. Crash(v.b) \in Bufs /\ Crash(v.b).panic
    BY ScreenFields, BufSets
  <2>3. PICK x \in Bufs : x = Crash(v.b) /\ x.panic
    BY <2>2
  <2>4. [v EXCEPT !.b = x] \in Screens /\ [v EXCEPT !.b = x].b = x /\ [v EXCEPT !.b = x].start = v.start
    BY ScreenSets
  <2>5. Draw(v) \in Screens /\ Draw(v).b.panic /\ Draw(v).start = v.start
    BY <2>1, <2>3, <2>4
  <2> QED BY <1>3, <2>5, ShowsOn DEF Stays
<1>4. CASE ~v.b.panic /\ ~DrawPanics(w)
  <2>1. Draw(v) = w
    BY <1>1, <1>4 DEF Draw
  <2>2. w.start <= v.start
    BY <1>1, ScreenFields
  <2>3. Stays(v, w)
    BY <1>1, <2>2, StaysOn
  <2> QED BY <1>1, <1>4, <2>1, <2>3
<1> QED BY <1>2, <1>3, <1>4

\* trim_buffer_top, field by field.
LEMMA TrimRecord ==
  ASSUME NEW y, NEW z, NEW r, NEW v, ShouldTrim(v)
  PROVE  v = Screen(y, z, r) =>
           Trim(v) = Screen([y EXCEPT !.data = SubSeq(y.data, ChunkSize(v) + 1, Len(y.data))],
                            Greater(0, z - ChunkSize(v)), r)
<1>1. ASSUME v = [b |-> y, start |-> z, rows |-> r]
      PROVE  Trim(v) = [b |-> [y EXCEPT !.data = SubSeq(y.data, ChunkSize(v) + 1, Len(y.data))],
                        start |-> Greater(0, z - ChunkSize(v)), rows |-> r]
  BY <1>1 DEF Trim
<1> QED BY <1>1, Zenon DEF Screen

\* trim_buffer_top takes a screenful off the top, and as much off start.
LEMMA TrimKeepsScreen ==
  ASSUME NEW v \in Screens
  PROVE  Trim(v) \in Screens /\ (HasPath => Shows(v, Trim(v))) /\ Stays(v, Trim(v))
         /\ Trim(v).b.panic = v.b.panic
<1>1. PICK b \in Bufs, t \in Text, n \in Nat :
        b = v.b /\ t = b.data /\ n = Len(t) /\ \A k \in 1 .. n : t[k] \in Bytes
  BY ScreenFields, BufFields, TextElements
<1>2. PICK c \in Lines, s \in Lines : c = ChunkSize(v) /\ s = v.start /\ c \in Nat
  BY ScreenFields
<1>3. PICK x \in Lines : x = Greater(0, s - c)
  BY LinesAdd
<1>4. PICK p \in Nat : p = c + 1 /\ 1 <= p
  BY <1>2
<1>5. PICK u \in Text : u = SubSeq(t, p, n)
  <2>1. \A k \in p .. n : t[k] \in Bytes
    BY <1>1, <1>4
  <2>2. SubSeq(t, p, n) \in Seq(Bytes)
    BY <2>1, SubSeqProperties
  <2> QED BY <2>2 DEF Text
<1>6. PICK d \in Bufs : d = [b EXCEPT !.data = u]
  BY BufSets
<1>9. NeverTrims /\ HasPath /\ Starts(t) => ~ShouldTrim(v)
  <2> SUFFICES ASSUME NeverTrims, HasPath, Starts(t) PROVE ~ShouldTrim(v)
    OBVIOUS
  <2>1. PICK m \in Nat, r \in Heights, e \in Nat : m = Len(File) /\ r = v.rows /\ e = r * BPL /\ e = c
    BY <1>2, ViewAssumption, LenProperties, ScreenFields DEF ChunkSize
  <2>2. m <= 3 * e
    BY <2>1 DEF NeverTrims
  <2>3. n <= m
    BY <1>1, <2>1 DEF Starts
  <2>4. Loaded(v) = n /\ ChunkSize(v) = e
    BY <1>1, <1>2, <2>1 DEF Loaded
  <2> QED BY <2>1, <2>2, <2>3, <2>4 DEF ShouldTrim
<1>7. CASE ShouldTrim(v)
  <2>1. PICK y \in Bufs, z \in Lines, r \in Heights : v = Screen(y, z, r) /\ y = b /\ z = s
    BY <1>1, <1>2 DEF Screens, Screen
  <2>2. Trim(v) = Screen(d, x, r)
    <3>1. Trim(v) = Screen([y EXCEPT !.data = SubSeq(y.data, ChunkSize(v) + 1, Len(y.data))],
                           Greater(0, z - ChunkSize(v)), r)
      BY <1>7, <2>1, TrimRecord
    <3>2. SubSeq(y.data, ChunkSize(v) + 1, Len(y.data)) = u
      BY <1>1, <1>2, <1>4, <1>5, <2>1
    <3>3. Greater(0, z - ChunkSize(v)) = x
      BY <1>2, <1>3, <2>1
    <3> QED BY <1>6, <2>1, <3>1, <3>2, <3>3, Zenon
  <2>3. PICK w \in Screens : w = Trim(v) /\ w.b = d
    BY <2>2, ScreenSets
  <2>4. d.sel = b.sel /\ d.hist = b.hist /\ d.dirty = b.dirty /\ d.panic = b.panic
    BY <1>6 DEF Bufs
  <2>5. HasPath => Shows(v, w)
    BY <1>1, <1>7, <1>9, <2>3, <2>4 DEF Shows, Shown, Loads
  <2>6. Len(u) = n - c /\ c < n
    <3>1. 3 * c < n
      BY <1>1, <1>2, <1>7 DEF ShouldTrim, Loaded
    <3>2. c <= n /\ n <= Len(t)
      BY <1>1, <1>2, <3>1
    <3>3. Len(SubSeq(t, c + 1, n)) = n - c
      BY <1>2, <3>2, PieceOf
    <3> QED BY <1>2, <1>4, <1>5, <3>1, <3>3
  <2>7. d.data = u
    BY <1>6 DEF Bufs
  <2>8. Loaded(w) = n - c /\ Loaded(v) = n /\ w.start = x /\ v.start = s
    BY <1>1, <1>2, <2>2, <2>3, <2>6, <2>7, ScreenSets DEF Loaded
  <2>9. s \in Nat /\ x <= s /\ (s <= n => x <= n - c)
    <3>1. s \in Nat
      BY LinesAdd
    <3>2. PICK i \in Nat : i = s
      BY <3>1
    <3>3. x = IF i - c > 0 THEN i - c ELSE 0
      BY <1>2, <1>3, <3>2 DEF Greater
    <3> QED BY <1>2, <2>6, <3>2, <3>3
  <2>10. Stays(v, w)
    BY <2>8, <2>9 DEF Stays, OnBytes
  <2> QED BY <1>1, <2>3, <2>4, <2>5, <2>10
<1>8. CASE ~ShouldTrim(v)
  BY <1>8, ShowsOn, StaysOn DEF Trim
<1> QED BY <1>7, <1>8

\* Scrolling moves start by whole lines.
LEMMA ScrollKeepsScreen ==
  ASSUME NEW v \in Screens, NEW n \in Nat
  PROVE  /\ ScrollDownBy(v, n) \in Screens /\ Shows(v, ScrollDownBy(v, n))
         /\ ScrollUpBy(v, n) \in Screens /\ Shows(v, ScrollUpBy(v, n))
         /\ Stays(v, ScrollDownBy(v, n)) /\ Stays(v, ScrollUpBy(v, n))
         /\ n * BPL <= v.start => ScrollUpBy(v, n).start = v.start - n * BPL
<1>1. PICK x \in Lines, s \in Lines : x = n * BPL /\ s = v.start
  BY ScreenFields, LinesAdd
<1>2. ASSUME NEW w \in Screens, NEW y \in Lines
      PROVE  LET z == Draw([w EXCEPT !.start = y])
             IN /\ z \in Screens /\ Shows(w, z) /\ z.start = y
                /\ (y <= w.start \/ y < Loaded(w)) => Stays(w, z)
                /\ w.b.panic => z.b.panic
  <2>1. PICK z \in Screens : z = [w EXCEPT !.start = y] /\ z.b = w.b /\ z.start = y
    <3>1. [w EXCEPT !.start = y] \in Screens /\ [w EXCEPT !.start = y].b = w.b
          /\ [w EXCEPT !.start = y].start = y
      BY ScreenSets
    <3> QED BY <3>1
  <2>2. PICK d \in Screens : /\ d = Draw(z) /\ Shows(z, d) /\ Shows(w, z) /\ Stays(z, d)
                             /\ d.start = y /\ (w.b.panic => d.b.panic)
    <3>1. /\ Draw(z) \in Screens /\ Draw(z).start = z.start /\ Shows(z, Draw(z)) /\ Stays(z, Draw(z))
          /\ z.b.panic => Draw(z).b.panic
      BY DrawKeepsScreen
    <3>2. Shows(w, z)
      BY <2>1, ShowsOn
    <3> QED BY <2>1, <3>1, <3>2
  <2>3. ASSUME y <= w.start \/ y < Loaded(w) PROVE Stays(w, z)
    <3>1. Loaded(z) = Loaded(w) /\ Loaded(w) \in Nat /\ w.start \in Nat /\ y \in Nat
      BY <2>1, ScreenFields, LinesAdd DEF Loaded
    <3> QED BY <2>1, <2>3, <3>1 DEF Stays, OnBytes
  <2>4. ASSUME y <= w.start \/ y < Loaded(w) PROVE Stays(w, d)
    BY <2>1, <2>2, <2>3, <2>4, StaysOn
  <2> QED BY <2>1, <2>2, <2>4, ShowsOn
<1>3. /\ ScrollUpBy(v, n) \in Screens /\ Shows(v, ScrollUpBy(v, n)) /\ Stays(v, ScrollUpBy(v, n))
      /\ x <= s => ScrollUpBy(v, n).start = s - x
  <2>1. x \in Nat /\ s \in Nat
    BY LinesAdd
  <2>3. ScrollUpBy(v, n) = IF s < x THEN v ELSE Draw([v EXCEPT !.start = s - x])
    BY <1>1 DEF ScrollUpBy
  <2>4. CASE s < x
    <3>1. ~(x <= s)
      BY <2>1, <2>4
    <3> QED BY <2>3, <2>4, <3>1, ShowsOn, StaysOn
  <2>5. CASE ~(s < x)
    <3>1. PICK y \in Lines : y = s - x /\ y <= s
      BY <2>1, <2>5, LinesAdd
    <3>2. ScrollUpBy(v, n) = Draw([v EXCEPT !.start = y])
      BY <2>3, <2>5, <3>1
    <3> QED BY <1>1, <1>2, <3>1, <3>2
  <2> QED BY <2>4, <2>5
<1>4. /\ ScrollDownBy(v, n) \in Screens /\ Shows(v, ScrollDownBy(v, n))
      /\ Stays(v, ScrollDownBy(v, n))
  <2>1. PICK y \in Lines : y = s + x
    BY LinesAdd
  <2>2. PICK more \in Screens : more = IF y + (v.rows + 1) * BPL > Loaded(v)
                                       THEN Load(v, LoadSize) ELSE v
    BY ViewAssumption, LoadKeepsScreen
  <2>3. PICK w \in Screens : w = IF Loaded(more) > Loaded(v) THEN Trim(more) ELSE v
    BY TrimKeepsScreen
  <2>5. Shows(v, w)
    <3>1. Shows(v, more) /\ (~HasPath => more = v)
      <4>1. /\ Shows(v, Load(v, LoadSize)) /\ (~HasPath => Load(v, LoadSize) = v)
        BY ViewAssumption, LoadKeepsScreen
      <4> QED BY <2>2, <4>1, ShowsOn
    <3>2. CASE ~(Loaded(more) > Loaded(v))
      BY <2>3, <3>2, ShowsOn
    <3>3. CASE Loaded(more) > Loaded(v)
      <4>1. HasPath /\ w = Trim(more)
        <5>1. Loaded(v) \in Nat
          BY ScreenFields
        <5>2. more # v
          BY <3>3, <5>1
        <5> QED BY <2>3, <3>1, <3>3, <5>2
      <4>2. Shows(more, w)
        BY <4>1, TrimKeepsScreen
      <4> QED BY <3>1, <4>2, ShowsOn
    <3> QED BY <3>2, <3>3
  <2>8. Stays(v, w) /\ (v.b.panic => w.b.panic)
    <3>1. /\ more.start = v.start /\ Loaded(more) >= Loaded(v)
          /\ more.b.panic = v.b.panic
      <4>1. Loaded(v) >= Loaded(v)
        BY ScreenFields
      <4> QED BY <2>2, <4>1, ViewAssumption, LoadKeepsScreen
    <3>2. Stays(v, more)
      <4>1. more.start <= v.start
        BY <3>1, ScreenFields
      <4> QED BY <3>1, <4>1, StaysOn
    <3>3. PICK z \in Screens : z = Trim(more) /\ Stays(more, z) /\ z.b.panic = more.b.panic
      BY TrimKeepsScreen
    <3>4. Stays(v, z)
      BY <3>2, <3>3, StaysOn
    <3> QED BY <2>3, <3>1, <3>3, <3>4, StaysOn
  <2>4. ScrollDownBy(v, n) = IF y >= Loaded(w) THEN w ELSE Draw([w EXCEPT !.start = y])
    BY <1>1, <2>1, <2>2, <2>3 DEF ScrollDownBy
  <2>6. CASE y >= Loaded(w)
    BY <2>4, <2>5, <2>6, <2>8
  <2>7. CASE ~(y >= Loaded(w))
    <3>1. y < Loaded(w)
      BY <2>7, ScreenFields, LinesAdd
    <3>2. PICK z \in Screens : /\ z = ScrollDownBy(v, n) /\ Shows(w, z) /\ Stays(w, z)
                               /\ (w.b.panic => z.b.panic)
      BY <1>2, <2>4, <2>7, <3>1
    <3> QED BY <2>5, <2>8, <3>2, ShowsOn, StaysOn
  <2> QED BY <2>6, <2>7
<1> QED BY <1>1, <1>3, <1>4

\* The window follows the main caret by whole lines.
LEMMA OffsetKeepsScreen ==
  ASSUME NEW v \in Screens
  PROVE  /\ MaybeUpdateOffset(v) \in Screens /\ Shows(v, MaybeUpdateOffset(v))
         /\ Pursues(MaybeUpdateOffset(v))
         /\ [v EXCEPT !.start = OffsetOfCaret(v)] \in Screens
         /\ [v EXCEPT !.start = OffsetOfCaret(v)].b = v.b
         /\ Pursues([v EXCEPT !.start = OffsetOfCaret(v)])
<1>1. PICK c \in Nat, s \in Nat, e \in Nat :
        c = CaretOf(v) /\ s = v.start /\ e = VisibleEnd(v) /\ s \in Lines
  BY ScreenFields
<1>4. ASSUME NEW w \in Screens, Shows(v, w), w.start <= c PROVE Pursues(w)
  <2>1. ~w.b.panic => CaretOf(w) = c
    BY <1>1, <1>4 DEF Shows, Shown, CaretOf
  <2> QED BY <1>4, <2>1 DEF Pursues
<1>2. /\ MaybeUpdateOffset(v) \in Screens /\ Shows(v, MaybeUpdateOffset(v))
      /\ Pursues(MaybeUpdateOffset(v))
  <2>1. CASE Loaded(v) = 0
    <3>1. PICK o \in Lines : o = 0
      BY LinesAdd
    <3>2. [v EXCEPT !.start = o] \in Screens /\ [v EXCEPT !.start = o].b = v.b
          /\ [v EXCEPT !.start = o].start = o
      BY ScreenSets
    <3>3. MaybeUpdateOffset(v) = [v EXCEPT !.start = o]
      BY <2>1, <3>1 DEF MaybeUpdateOffset
    <3>4. o <= c
      BY <3>1
    <3> QED BY <1>4, <3>2, <3>3, <3>4, ShowsOn
  <2>2. CASE Loaded(v) # 0 /\ c < s
    <3>1. PICK n \in Nat : n = s - c
      BY <2>2
    <3>2. MaybeUpdateOffset(v) = ScrollUpBy(v, LinesFor(n))
      BY <1>1, <2>2, <3>1 DEF MaybeUpdateOffset
    <3>3. PICK l \in Nat, m \in Nat : m = LinesFor(n) /\ l = m * BPL /\ n <= l /\ l <= s
      <4>1. n <= s
        BY <3>1
      <4> QED BY <1>1, <4>1, LineOf, LinesCover
    <3>4. PICK w \in Screens : w = ScrollUpBy(v, m) /\ Shows(v, w) /\ w.start = s - l
      BY <1>1, <3>3, ScrollKeepsScreen
    <3>5. w.start <= c
      BY <3>1, <3>3, <3>4
    <3> QED BY <1>4, <3>2, <3>3, <3>4, <3>5
  <2>3. CASE Loaded(v) # 0 /\ ~(c < s) /\ c >= e
    <3>1. PICK n \in Nat : n = c - e + 1
      BY <2>3
    <3>2. MaybeUpdateOffset(v) = ScrollDownBy(v, LinesFor(n))
      BY <1>1, <2>3, <3>1 DEF MaybeUpdateOffset
    <3>3. PICK w \in Screens : w = ScrollDownBy(v, LinesFor(n)) /\ Shows(v, w) /\ Stays(v, w)
      BY LineOf, ScrollKeepsScreen
    <3>4. Pursues(v)
      BY <1>1, <2>3 DEF Pursues
    <3> QED BY <3>2, <3>3, <3>4, StaysOn
  <2>4. CASE Loaded(v) # 0 /\ ~(c < s) /\ ~(c >= e)
    <3>1. MaybeUpdateOffset(v) = v /\ v.start <= c
      BY <1>1, <2>4 DEF MaybeUpdateOffset
    <3> QED BY <1>4, <3>1, ShowsOn
  <2> QED BY <2>1, <2>2, <2>3, <2>4
<1>3. OffsetOfCaret(v) \in Lines /\ OffsetOfCaret(v) <= c
  <2>1. PICK line \in Lines : line = c - (c % BPL) /\ line <= c
    BY LineOf
  <2>2. PICK above \in Lines : above = Greater(0, line + BPL - ChunkSize(v)) /\ above <= line
    <3>1. PICK x \in Lines : x = line + BPL
      BY LinesAdd
    <3>2. PICK y \in Lines : y = ChunkSize(v)
      BY ScreenFields
    <3>3. Greater(0, x - y) \in Lines
      BY LinesAdd
    <3>4. line \in Nat /\ BPL \in Nat /\ y \in Nat
      BY LinesAdd
    <3>5. line + BPL - y = x - y
      BY <3>1, <3>4
    <3>6. BPL <= y
      <4>1. PICK r \in Nat, B \in Nat : r = v.rows /\ B = BPL /\ 1 <= r
        BY ViewAssumption, EditorAssumption, ScreenFields
      <4>2. 1 * B <= r * B /\ 1 * B = B
        BY <4>1, TimesInOrder
      <4> QED BY <3>2, <4>1, <4>2 DEF ChunkSize
    <3>7. Greater(0, line + BPL - y) <= line
      BY <3>4, <3>6 DEF Greater
    <3> QED BY <3>2, <3>3, <3>5, <3>7
  <2>3. OffsetOfCaret(v) = IF c < s THEN line ELSE IF c >= e THEN above ELSE s
    BY <1>1, <2>1, <2>2 DEF OffsetOfCaret
  <2>4. line \in Nat /\ above \in Nat
    BY LinesAdd
  <2> QED BY <1>1, <2>1, <2>2, <2>3, <2>4
<1>5. PICK o \in Lines : o = OffsetOfCaret(v) /\ o <= c
  BY <1>3
<1>6. PICK w \in Screens : w = [v EXCEPT !.start = o] /\ w.b = v.b /\ w.start = o
  <2>1. [v EXCEPT !.start = o] \in Screens /\ [v EXCEPT !.start = o].b = v.b
        /\ [v EXCEPT !.start = o].start = o
    BY ScreenSets
  <2> QED BY <2>1
<1>7. Pursues(w)
  BY <1>4, <1>5, <1>6, ShowsOn
<1> QED BY <1>2, <1>5, <1>6, <1>7

\* The carets moved by <C-e> and <C-y>.
LEMMA CaretsKeepScreen ==
  ASSUME NEW v \in Screens, NEW dir \in Directions
  PROVE  /\ MoveCarets(v, dir) \in Screens /\ Picks(v.b, MoveCarets(v, dir).b)
         /\ Stays(v, MoveCarets(v, dir))
<1>1. PICK b \in Bufs, n \in Nat : b = v.b /\ n = Loaded(v) /\ n = Len(b.data)
  BY ScreenFields DEF Loaded
<1>2. PICK news : news = [i \in DOMAIN b.sel.regions |->
                            << SimpleMove(b.sel.regions[i], dir, BPL, n, 1) >>]
  OBVIOUS
<1>3. MapsWell(b, news) /\ MapsInside(b, news)
  BY <1>1, <1>2, MoveMapsWell
<1>4. MoveCarets(v, dir) = [v EXCEPT !.b = WithSelection(b, MapSelections(b.sel, news))]
  BY <1>1, <1>2 DEF MoveCarets, MapBuffer, MapEach
<1>5. Picks(b, WithSelection(b, MapSelections(b.sel, news)))
  BY <1>3 DEF MapsWell, MapsInside, Picks
<1>6. PICK d \in Bufs : d = WithSelection(b, MapSelections(b.sel, news)) /\ d.data = b.data
  BY <1>5 DEF Picks
<1>7. PICK w \in Screens : w = [v EXCEPT !.b = d] /\ w.b = d /\ w.start = v.start
  <2>1. [v EXCEPT !.b = d] \in Screens /\ [v EXCEPT !.b = d].b = d /\ [v EXCEPT !.b = d].start = v.start
    BY ScreenSets
  <2> QED BY <2>1
<1>8. Loaded(w) >= Loaded(v) /\ w.start <= v.start
  <2>1. Loaded(w) = Loaded(v)
    BY <1>1, <1>6, <1>7 DEF Loaded
  <2>2. v.start \in Nat /\ Loaded(v) \in Nat
    BY ScreenFields
  <2> QED BY <1>7, <2>1, <2>2
<1>9. Stays(v, w) /\ Picks(v.b, w.b) /\ MoveCarets(v, dir) = w
  BY <1>1, <1>4, <1>5, <1>6, <1>7, <1>8, StaysOn
<1> QED BY <1>9

\* <C-e> and <C-y> load bytes, move the carets and show the buffer.
Scrolls(v, w) ==
  ~w.b.panic => \E a \in Bufs, c \in Bufs :
                  Shown(v.b, a) /\ Picks(a, c) /\ ~c.panic /\ Shown(c, w.b)

\* What follows a transition: the window follows the main caret.  Resizing, and the keys
\* the view takes itself, leave it in the buffer if it was there.
LEMMA RepaintsDrawn ==
  ASSUME NEW v \in Screens
  PROVE  /\ Draw(v) \in Screens /\ Shows(v, Draw(v)) /\ Stays(v, Draw(v))
         /\ ChangeInPlace(v) \in Screens /\ Shows(v, ChangeInPlace(v)) /\ Pursues(ChangeInPlace(v))
         /\ ChangeLength(v) \in Screens /\ Shows(v, ChangeLength(v)) /\ Pursues(ChangeLength(v))
         /\ ScrollDown(v) \in Screens /\ Scrolls(v, ScrollDown(v)) /\ Stays(v, ScrollDown(v))
         /\ ScrollUp(v) \in Screens /\ Scrolls(v, ScrollUp(v)) /\ Stays(v, ScrollUp(v))
<1>1. ASSUME NEW w \in Screens
      PROVE  /\ Draw(w) \in Screens /\ Shows(w, Draw(w)) /\ Stays(w, Draw(w))
             /\ w.b.panic => Draw(w).b.panic
  BY DrawKeepsScreen
<1>2. ASSUME NEW w \in Screens, Shows(v, w), Pursues(w)
      PROVE  Draw(w) \in Screens /\ Shows(v, Draw(w)) /\ Pursues(Draw(w))
  <2>1. PICK d \in Screens : d = Draw(w) /\ Shows(w, d) /\ Stays(w, d)
    BY <1>1
  <2> QED BY <1>2, <2>1, ShowsOn, StaysOn
<1>3. ChangeInPlace(v) \in Screens /\ Shows(v, ChangeInPlace(v)) /\ Pursues(ChangeInPlace(v))
  <2>1. CASE v.b.panic
    BY <2>1, ShowsOn DEF ChangeInPlace, Pursues
  <2>2. CASE ~v.b.panic
    <3>1. PICK w \in Screens : w = MaybeUpdateOffset(v) /\ Shows(v, w) /\ Pursues(w)
      BY OffsetKeepsScreen
    <3>2. ChangeInPlace(v) = Draw(w)
      BY <2>2, <3>1 DEF ChangeInPlace
    <3> QED BY <1>2, <3>1, <3>2
  <2> QED BY <2>1, <2>2
<1>4. ChangeLength(v) \in Screens /\ Shows(v, ChangeLength(v)) /\ Pursues(ChangeLength(v))
  <2>1. CASE v.b.panic
    BY <2>1, ShowsOn DEF ChangeLength, Pursues
  <2>2. CASE ~v.b.panic
    <3>1. PICK w \in Screens : w = [v EXCEPT !.start = OffsetOfCaret(v)] /\ w.b = v.b /\ Pursues(w)
      BY OffsetKeepsScreen
    <3>2. ChangeLength(v) = Draw(w)
      BY <2>2, <3>1 DEF ChangeLength
    <3>3. Shows(v, w)
      BY <3>1, ShowsOn
    <3> QED BY <1>2, <3>1, <3>2, <3>3
  <2> QED BY <2>1, <2>2
<1>5. "Up" \in Directions /\ "Down" \in Directions
  BY DEF Directions
<1>6. ASSUME NEW u \in Screens, Shows(v, u), Stays(v, u),
             NEW w \in Screens, Picks(u.b, w.b), Stays(u, w),
             NEW x, NEW z \in Screens, w.b.panic => x = w,
             ~w.b.panic => x = Draw(z) /\ Shows(w, z) /\ Stays(w, z)
      PROVE  x \in Screens /\ Scrolls(v, x) /\ Stays(v, x)
  <2>1. CASE w.b.panic
    BY <1>6, <2>1 DEF Scrolls, Stays
  <2>2. CASE ~w.b.panic
    <3>1. x \in Screens /\ Shows(w, x)
      BY <1>1, <1>6, <2>2, ShowsOn
    <3>5. Stays(v, x)
      <4>1. PICK d \in Screens : d = x /\ Stays(z, d) /\ (z.b.panic => d.b.panic)
        BY <1>1, <1>6, <2>2
      <4>2. Stays(w, d)
        BY <1>6, <2>2, <4>1, StaysOn
      <4>3. ~u.b.panic
        BY <1>6, <2>2 DEF Picks, Chooses, Same
      <4>4. Stays(v, w)
        BY <1>6, <4>3, StaysOn
      <4> QED BY <2>2, <4>1, <4>2, <4>4, StaysOn
    <3>2. ~u.b.panic
      BY <1>6, <2>2 DEF Picks, Chooses, Same
    <3>3. ~x.b.panic => Shown(v.b, u.b) /\ Shown(w.b, x.b)
      BY <1>6, <3>1, <3>2 DEF Shows
    <3>4. u.b \in Bufs /\ w.b \in Bufs
      BY ScreenFields
    <3> QED BY <1>6, <2>2, <3>1, <3>3, <3>4, <3>5 DEF Scrolls
  <2> QED BY <2>1, <2>2
<1>7. ScrollDown(v) \in Screens /\ Scrolls(v, ScrollDown(v)) /\ Stays(v, ScrollDown(v))
  <2>1. PICK u \in Screens : u = Load(v, ChunkSize(v)) /\ Shows(v, u) /\ Stays(v, u)
    <3>1. PICK u \in Screens : /\ u = Load(v, ChunkSize(v)) /\ Shows(v, u)
                               /\ u.start = v.start /\ Loaded(u) >= Loaded(v)
      BY ScreenFields, LoadKeepsScreen
    <3>2. u.start <= v.start
      BY <3>1, ScreenFields
    <3> QED BY <3>1, <3>2, StaysOn
  <2>2. PICK w \in Screens : w = MoveCarets(u, "Down") /\ Picks(u.b, w.b) /\ Stays(u, w)
    BY <1>5, CaretsKeepScreen
  <2>3. PICK z \in Screens : z = ScrollDownBy(w, 1) /\ Shows(w, z) /\ Stays(w, z)
    BY ScrollKeepsScreen
  <2>4. PICK x : x = ScrollDown(v)
    OBVIOUS
  <2>5. (w.b.panic => x = w) /\ (~w.b.panic => x = Draw(z))
    BY <2>1, <2>2, <2>3, <2>4 DEF ScrollDown
  <2> QED BY <1>6, <2>1, <2>2, <2>3, <2>4, <2>5
<1>8. ScrollUp(v) \in Screens /\ Scrolls(v, ScrollUp(v)) /\ Stays(v, ScrollUp(v))
  <2>1. Shows(v, v) /\ Stays(v, v)
    BY ShowsOn, StaysOn
  <2>2. PICK w \in Screens : w = MoveCarets(v, "Up") /\ Picks(v.b, w.b) /\ Stays(v, w)
    BY <1>5, CaretsKeepScreen
  <2>3. PICK z \in Screens : z = ScrollUpBy(w, 1) /\ Shows(w, z) /\ Stays(w, z)
    BY ScrollKeepsScreen
  <2>4. PICK x : x = ScrollUp(v)
    OBVIOUS
  <2>5. (w.b.panic => x = w) /\ (~w.b.panic => x = Draw(z))
    BY <2>2, <2>3, <2>4 DEF ScrollUp
  <2> QED BY <1>6, <2>1, <2>2, <2>3, <2>4, <2>5
<1> QED BY <1>1, <1>3, <1>4, <1>7, <1>8

-----------------------------------------------------------------------------
(* The editor's invariant.                                                 *)

\* The data the modes own.
ModeNames == {"Normal", "JumpTo", "Split", "Insert", "Replace", "Search", "Crashed"}

ModeOK(m) ==
  /\ m.name \in ModeNames
  /\ m.name \in {"Normal", "Split"} => m.count \in CountStates
  /\ m.name \in {"Insert", "Replace", "Search"} => m.half \in Halves

\* The buffer is well formed, the window begins with a line.
EditorInv ==
  /\ buf \in Bufs /\ ~buf.panic
  /\ start \in Lines /\ rows \in Heights
  /\ ModeOK(mode)

\* The modes as the keys make them.
LEMMA ModesMade ==
  /\ \A count \in CountStates : ModeOK(NormalMode(count)) /\ ModeOK(SplitMode(count))
  /\ \A extend : ModeOK(JumpToMode(extend))
  /\ \A half \in Halves : \A kind, hex : ModeOK(InsertMode(kind, hex, half))
  /\ \A half \in Halves : \A hex : ModeOK(ReplaceMode(hex, half))
  /\ \A half \in Halves : \A next, hex, pattern, cursor :
       ModeOK(SearchMode(next, hex, half, pattern, cursor))
  /\ ModeOK(Normal) /\ ModeOK(Crashed) /\ ModeOK(Resume)
  /\ NoHalf \in Halves /\ NoCount \in CountStates
  /\ \A d \in 0 .. 15 : 16 * d \in Halves
<1> USE DEF ModeOK, ModeNames
<1>1. NoHalf \in Halves /\ \A d \in 0 .. 15 : 16 * d \in Halves
  BY DEF Halves
<1>2. NoCount \in CountStates
  BY DEF NoCount, CountStates
<1>3. \A count \in CountStates : ModeOK(NormalMode(count)) /\ ModeOK(SplitMode(count))
  BY DEF NormalMode, SplitMode
<1>4. \A extend : ModeOK(JumpToMode(extend))
  BY DEF JumpToMode
<1>5. \A half \in Halves : \A kind, hex : ModeOK(InsertMode(kind, hex, half))
  BY DEF InsertMode
<1>6. \A half \in Halves : \A hex : ModeOK(ReplaceMode(hex, half))
  BY DEF ReplaceMode
<1>7. \A half \in Halves : \A next, hex, pattern, cursor :
        ModeOK(SearchMode(next, hex, half, pattern, cursor))
  BY DEF SearchMode
<1>8. ModeOK(Crashed)
  BY DEF Crashed
<1> HIDE DEF ModeOK
<1>9. ModeOK(Normal) /\ ModeOK(Resume)
  BY <1>1, <1>2, <1>3, <1>5 DEF Normal, Resume
<1> QED BY <1>1, <1>2, <1>3, <1>4, <1>5, <1>6, <1>7, <1>8, <1>9

\* The digits are no other keys of a count.
LEMMA DigitNames ==
  "x" \notin DOMAIN Digit /\ "Backspace" \notin DOMAIN Digit /\ "Esc" \notin DOMAIN Digit
<1>1. PICK s : s = << "0", "1", "2", "3", "4", "5", "6", "7", "8", "9", "a", "b", "c", "d", "e", "f" >>
  OBVIOUS
<1>2. DOMAIN Digit = {s[d] : d \in DOMAIN s}
  BY <1>1 DEF Digit, DigitsOf
<1>3. DOMAIN s = 1 .. 16
  BY <1>1
<1>4. \A d \in 1 .. 16 : s[d] # "x" /\ s[d] # "Backspace" /\ s[d] # "Esc"
  BY <1>1
<1> QED BY <1>2, <1>3, <1>4

\* Counts stay counts, whatever is typed.
LEMMA CountKept ==
  ASSUME NEW s \in CountStates, NEW k
  PROVE  /\ ToCount(s) \in Nat /\ s.count \in Nat
         /\ CountHandles(s, k) => CountUpdate(s, k) \in CountStates
<1>1. PICK c \in Nat, x \in BOOLEAN : c = s.count /\ x = s.hex
  BY DEF CountStates
<1>2. ToCount(s) \in Nat
  BY <1>1 DEF ToCount
<1>3. PICK b \in Nat \ {0} : b = Base(s)
  BY DEF Base
<1>4. \A y \in BOOLEAN, n \in Nat : SomeCount(y, n) \in CountStates
  BY DEF SomeCount, CountStates
<1>5. ASSUME CountHandles(s, k) PROVE CountUpdate(s, k) \in CountStates
  <2>1. CASE k \in DOMAIN Digit
    <3>1. PICK d \in Nat : d = Digit[k]
      BY <2>1, DigitValue
    <3>2. PICK e \in Nat : e = (c * b) + d
      OBVIOUS
    <3>3. k \notin {"x", "Backspace", "Esc"}
      BY <2>1, DigitNames
    <3>4. CountUpdate(s, k) = SomeCount(s.hex, s.count * Base(s) + Digit[k])
      BY <2>1, <3>3, Zenon DEF CountUpdate
    <3>5. s.count * Base(s) + Digit[k] = e
      BY <1>1, <1>3, <3>1, <3>2
    <3> QED BY <1>1, <1>4, <3>4, <3>5
  <2>2. CASE k \notin DOMAIN Digit /\ k = "x"
    <3>1. CountUpdate(s, k) = SomeCount(~s.hex, s.count)
      BY <2>2, Zenon DEF CountUpdate
    <3>2. PICK y \in BOOLEAN : y = ~s.hex
      <4>1. CASE s.hex = TRUE
        BY <4>1
      <4>2. CASE s.hex = FALSE
        BY <4>2
      <4> QED BY <1>1, <4>1, <4>2
    <3> QED BY <1>1, <1>4, <3>1, <3>2
  <2>3. CASE k \notin DOMAIN Digit /\ k = "Backspace"
    <3>1. c \div b \in Nat
      OBVIOUS
    <3>2. CountUpdate(s, k) = IF s.count >= Base(s) THEN SomeCount(s.hex, s.count \div Base(s))
                              ELSE NoCount
      BY <2>3 DEF CountUpdate
    <3>3. CountUpdate(s, k) = SomeCount(x, c \div b) \/ CountUpdate(s, k) = NoCount
      BY <1>1, <1>3, <3>1, <3>2
    <3> QED BY <1>4, <3>3, ModesMade
  <2>4. CASE k \notin DOMAIN Digit /\ k = "Esc"
    <3>1. CountUpdate(s, k) = NoCount
      BY <2>4 DEF CountUpdate
    <3> QED BY <3>1, ModesMade
  <2> QED BY <1>5, <2>1, <2>2, <2>3, <2>4 DEF CountHandles
<1> QED BY <1>1, <1>2, <1>5

\* The key taken removes, by its number, no selection that comes before the main one,
\* unless the main one is the last; and it jumps to no offset beyond the end.
SparesMain  == NormalPick("alt ") /\ mode.count.count > 0 =>
                 Spares(buf.sel, mode.count.count - 1)
JumpsInside == \A k \in {"g", "G"} : NormalJump(k) /\ mode.count.some => Count <= Size

\* What a mode does to the buffer b, with the key taken: it panics; it chooses other
\* regions; it edits, for good or in part; it closes an insertion; it undoes or redoes.
Rechooses(b, c) == Same(b, c) /\ (SparesMain => Marks(b, c)) /\ (JumpsInside => Ends(b, c))
Works(b, c) ==
  \/ c.panic
  \/ Rechooses(b, c)
  \/ Finals(b, c) /\ mode.name \in {"Normal", "Replace"}
  \/ Partials(b, c)
  \/ Commits(b, c)
  \/ (Undoes(b, c) \/ Redoes(b, c)) /\ mode.name = "Normal"

\* A step: the view may load bytes, the mode works, and the view shows the outcome.
StepsTo(d) == \E a \in Bufs, c \in Bufs :
                Shown(buf, a) /\ Works(a, c) /\ ~c.panic /\ Shown(c, d)
Stepped    == buf' = buf \/ StepsTo(buf')

\* The main caret lies in the buffer or on the cell after it.  A window in the buffer
\* stays there with it.
MainInside  == MainRegion(buf.sel).caret <= Size
Windowed(v) == start <= Size /\ CaretOf(v) <= Loaded(v) => v.start <= Loaded(v)
WindowKept  == start <= Size /\ MainInside' => start' <= Size'

\* The invariant is kept by a step of this kind.
Advanced == EditorInv' /\ Stepped /\ WindowKept

\* A window that follows the caret, or that stays where it was.
LEMMA WindowedWhen ==
  ASSUME NEW w \in Screens, ~w.b.panic
  PROVE  /\ Pursues(w) => Windowed(w)
         /\ \A v : v.start = start /\ v.b.data = buf.data /\ Stays(v, w) => Windowed(w)
<1>1. w.start \in Nat /\ Loaded(w) \in Nat /\ CaretOf(w) \in Nat
  BY ScreenFields
<1>2. Pursues(w) => Windowed(w)
  BY <1>1 DEF Pursues, OnBytes, Windowed
<1>3. ASSUME NEW v, v.start = start, v.b.data = buf.data, Stays(v, w) PROVE Windowed(w)
  <2>1. Loaded(v) = Size
    BY <1>3 DEF Loaded, Size
  <2> QED BY <1>3, <2>1 DEF Stays, OnBytes, Windowed
<1> QED BY <1>2, <1>3

\* The kinds of work by what the operations were shown to do.
LEMMA WorksWhen ==
  /\ \A b, c : c.panic => Works(b, c)
  /\ \A b : Works(b, b)
  /\ \A b, c : Picks(b, c) => Works(b, c)
  /\ \A b, c : Chooses(b, c) /\ (JumpsInside => Confines(b, c)) => Works(b, c)
  /\ \A b, c : Confines(b, c) /\ (~c.panic => Same(b, c)) /\ (SparesMain => Chooses(b, c)) => Works(b, c)
  /\ \A b, c : Finishes(b, c) /\ mode.name \in {"Normal", "Replace"} => Works(b, c)
  /\ \A b, c : Continues(b, c) => Works(b, c)
<1>1. \A b, c : c.panic => Works(b, c)
  BY DEF Works
<1>2. \A b, c : Chooses(b, c) /\ (JumpsInside => Confines(b, c)) => Works(b, c)
  BY DEF Works, Rechooses, Chooses, Confines
<1>3. \A b, c : Confines(b, c) /\ (~c.panic => Same(b, c)) /\ (SparesMain => Chooses(b, c)) => Works(b, c)
  BY DEF Works, Rechooses, Chooses, Confines
<1>4. \A b : Works(b, b)
  BY DEF Works, Rechooses, Same, Marks, Ends
<1>5. \A b, c : Picks(b, c) => Works(b, c)
  BY <1>2 DEF Picks
<1>6. \A b, c : Finishes(b, c) /\ mode.name \in {"Normal", "Replace"} => Works(b, c)
  BY DEF Works, Finishes
<1>7. \A b, c : Continues(b, c) => Works(b, c)
  BY DEF Works, Continues
<1> QED BY <1>1, <1>2, <1>3, <1>4, <1>5, <1>6, <1>7

\* The end of every transition.
LEMMA BecomeKeepsEditor ==
  ASSUME EditorInv, NEW m, ModeOK(m), NEW v \in Screens,
         ~v.b.panic => StepsTo(v.b) /\ Windowed(v), Become(m, v)
  PROVE  Advanced
<1>1. CASE v.b.panic /\ mode' = Crashed /\ UNCHANGED << buf, start, rows >>
  <2>1. buf' = buf /\ start' = start /\ rows' = rows /\ ModeOK(mode)'
    BY <1>1, ModesMade DEF ModeOK
  <2>2. EditorInv'
    BY <2>1 DEF EditorInv
  <2>3. WindowKept
    BY <2>1 DEF WindowKept, Size
  <2> QED BY <2>1, <2>2, <2>3 DEF Advanced, Stepped
<1>2. CASE ~v.b.panic /\ mode' = m /\ buf' = v.b /\ start' = v.start /\ rows' = v.rows
  <2>1. v.b \in Bufs /\ v.start \in Lines /\ v.rows \in Heights
    BY ScreenFields
  <2>2. ModeOK(mode)'
    BY <1>2 DEF ModeOK
  <2>3. EditorInv'
    BY <1>2, <2>1, <2>2 DEF EditorInv
  <2>4. StepsTo(buf')
    BY <1>2
  <2>5. WindowKept
    BY <1>2 DEF WindowKept, Windowed, MainInside, CaretOf, Loaded, Size
  <2> QED BY <2>3, <2>4, <2>5 DEF Advanced, Stepped
<1> QED BY <1>1, <1>2 DEF Become

\* The three ways a mode ends a transition.
LEMMA PaintKeepsEditor ==
  ASSUME EditorInv, NEW m, ModeOK(m), NEW c \in Bufs, Works(buf, c),
         \/ Repaint(m, c) \/ RepaintAll(m, c)
         \/ Quiet(m, c) /\ c.data = buf.data
  PROVE  Advanced
<1>1. PICK v \in Screens : v = Seen(c) /\ v.b = c /\ v.start = start
  BY ScreenSets DEF Seen, EditorInv
<1>2. ASSUME NEW w, Shows(v, w), ~w.b.panic PROVE StepsTo(w.b)
  <2>1. Shown(c, w.b) /\ ~c.panic /\ Shown(buf, buf) /\ buf \in Bufs
    BY <1>1, <1>2, ShowsOn DEF Shows, EditorInv
  <2> QED BY <2>1 DEF StepsTo
<1>3. CASE Quiet(m, c) /\ c.data = buf.data
  <2>1. ~v.b.panic => Windowed(v)
    BY <1>1, <1>3, StaysOn, WindowedWhen
  <2>2. Shows(v, v)
    BY ShowsOn
  <2> QED BY <1>1, <1>2, <1>3, <2>1, <2>2, BecomeKeepsEditor DEF Quiet
<1>4. CASE Repaint(m, c) \/ RepaintAll(m, c)
  <2>1. PICK w \in Screens : Shows(v, w) /\ Pursues(w) /\ Become(m, w)
    BY <1>1, <1>4, RepaintsDrawn DEF Repaint, RepaintAll
  <2>2. ~w.b.panic => Windowed(w)
    BY <2>1, WindowedWhen
  <2> QED BY <1>2, <2>1, <2>2, BecomeKeepsEditor
<1> QED BY <1>3, <1>4

\* What the invariant gives to the actions.
LEMMA EditorFields ==
  ASSUME EditorInv
  PROVE  /\ buf \in Bufs /\ Size \in Nat /\ ModeOK(mode)
         /\ mode.name \in {"Normal", "Split"} =>
              mode.count \in CountStates /\ Count \in Nat /\ mode.count.count \in Nat
         /\ mode.name \in {"Insert", "Replace", "Search"} => mode.half \in Halves
<1>1. buf \in Bufs /\ ModeOK(mode)
  BY DEF EditorInv
<1>2. Size \in Nat
  BY <1>1, BufFields DEF Size
<1>3. /\ mode.name \in {"Normal", "Split"} => mode.count \in CountStates
      /\ mode.name \in {"Insert", "Replace", "Search"} => mode.half \in Halves
  BY <1>1 DEF ModeOK
<1> QED BY <1>1, <1>2, <1>3, CountKept DEF Count

\* The values of the key tables.
LEMMA KeyTables ==
  /\ \A k \in DOMAIN MoveDir : MoveDir[k] \in Directions
  /\ \A k \in DOMAIN ExtendDir : ExtendDir[k] \in Directions
  /\ \A k \in DOMAIN ArrowDir : ArrowDir[k] \in Directions
  /\ \A k \in DOMAIN Width : Width[k] \in Nat
<1>1. \A k \in DOMAIN MoveDir : MoveDir[k] \in Directions
  BY DEF MoveDir, Directions
<1>2. \A k \in DOMAIN ExtendDir : ExtendDir[k] \in Directions
  BY DEF ExtendDir, Directions
<1>3. \A k \in DOMAIN ArrowDir : ArrowDir[k] \in Directions
  BY DEF ArrowDir, Directions
<1>4. \A k \in DOMAIN Width : Width[k] \in Nat
  BY DEF Width
<1> QED BY <1>1, <1>2, <1>3, <1>4

\* A repaint after map_selections.
LEMMA MappedKeepsEditor ==
  ASSUME EditorInv, NEW m, ModeOK(m), NEW b \in Bufs, NEW news, MapsWell(b, news),
         b = buf, JumpsInside => MapsInside(b, news),
         Repaint(m, WithSelection(b, MapSelections(b.sel, news)))
  PROVE  Advanced
<1>1. PICK c \in Bufs : c = WithSelection(b, MapSelections(b.sel, news))
  BY DEF MapsWell
<1>2. Works(buf, c)
  BY <1>1, WorksWhen DEF MapsWell, MapsInside
<1> QED BY <1>1, <1>2, PaintKeepsEditor

\* The keys of normal mode that map the selection.
LEMMA NormalMapsKeepEditor ==
  ASSUME EditorInv, NEW k,
         \/ NormalMove(k) \/ NormalExtend(k) \/ NormalJump(k) \/ NormalInsert(k) \/ NormalAppend(k)
         \/ NormalShape(k)
  PROVE  Advanced
<1>1. mode.name = "Normal"
  BY DEF NormalMove, NormalExtend, NormalJump, NormalInsert, NormalAppend, NormalShape, NormalKey
<1>2. PICK b \in Bufs, n \in Nat, count \in Nat :
        b = buf /\ n = Size /\ count = Count /\ n = Len(b.data)
  BY <1>1, EditorFields DEF Size
<1>3. ModeOK(Normal) /\ ModeOK(mode)
  BY ModesMade, EditorFields
<1>4. CASE NormalMove(k)
  <2>1. PICK dir \in Directions : dir = MoveDir[k]
    BY <1>4, KeyTables DEF NormalMove
  <2>2. PICK news : news = [i \in DOMAIN b.sel.regions |->
                              << SimpleMove(b.sel.regions[i], dir, BPL, n, count) >>]
    OBVIOUS
  <2>3. Repaint(Normal, WithSelection(b, MapSelections(b.sel, news)))
    BY <1>2, <1>4, <2>1, <2>2 DEF NormalMove, MapBuffer, MapEach
  <2>4. MapsWell(b, news) /\ MapsInside(b, news)
    BY <1>2, <2>2, MoveMapsWell
  <2> QED BY <1>2, <1>3, <2>3, <2>4, MappedKeepsEditor
<1>5. CASE NormalExtend(k)
  <2>1. PICK dir \in Directions : dir = ExtendDir[k]
    BY <1>5, KeyTables DEF NormalExtend
  <2>2. PICK news : news = [i \in DOMAIN b.sel.regions |->
                              << SimpleExtend(b.sel.regions[i], dir, BPL, n, count) >>]
    OBVIOUS
  <2>3. Repaint(Normal, WithSelection(b, MapSelections(b.sel, news)))
    BY <1>2, <1>5, <2>1, <2>2 DEF NormalExtend, MapBuffer, MapEach
  <2>4. MapsWell(b, news) /\ MapsInside(b, news)
    BY <1>2, <2>2, MoveMapsWell
  <2> QED BY <1>2, <1>3, <2>3, <2>4, MappedKeepsEditor
<1>6. CASE NormalJump(k)
  <2>1. CASE Quiet(JumpToMode(k = "G"), buf)
    <3>1. PICK x : x = (k = "G")
      OBVIOUS
    <3> QED BY <1>2, <2>1, <3>1, ModesMade, WorksWhen, PaintKeepsEditor
  <2>2. CASE mode.count.some
             /\ Repaint(Normal, MapBuffer(buf, LAMBDA r : IF k = "g" THEN JumpTo(r, Count)
                                                          ELSE ExtendTo(r, Count)))
    <3>1. PICK news : news = [i \in DOMAIN b.sel.regions |->
                                << IF k = "g" THEN JumpTo(b.sel.regions[i], count)
                                   ELSE ExtendTo(b.sel.regions[i], count) >>]
      OBVIOUS
    <3>2. Repaint(Normal, WithSelection(b, MapSelections(b.sel, news)))
      BY <1>2, <2>2, <3>1 DEF MapBuffer, MapEach
    <3>3. "Up" \in Directions
      BY DEF Directions
    <3>6. JumpsInside => count <= n
      BY <1>2, <1>6, <2>2 DEF JumpsInside, NormalJump
    <3>4. CASE k = "g"
      <4>1. news = [i \in DOMAIN b.sel.regions |-> << JumpTo(b.sel.regions[i], count) >>]
        BY <3>1, <3>4
      <4>2. MapsWell(b, news) /\ (count <= n => MapsInside(b, news))
        BY <1>2, <3>3, <4>1, JumpMapsWell
      <4> QED BY <1>2, <1>3, <3>2, <3>6, <4>2, MappedKeepsEditor
    <3>5. CASE k # "g"
      <4>1. news = [i \in DOMAIN b.sel.regions |-> << ExtendTo(b.sel.regions[i], count) >>]
        BY <3>1, <3>5
      <4>2. MapsWell(b, news) /\ (count <= n => MapsInside(b, news))
        BY <1>2, <3>3, <4>1, JumpMapsWell
      <4> QED BY <1>2, <1>3, <3>2, <3>6, <4>2, MappedKeepsEditor
    <3> QED BY <3>4, <3>5
  <2> QED BY <1>6, <2>1, <2>2 DEF NormalJump
<1>7. CASE NormalInsert(k)
  <2>1. PICK x : x = (k = "I")
    OBVIOUS
  <2>2. PICK news : news = [i \in DOMAIN b.sel.regions |-> << ToBackward(b.sel.regions[i]) >>]
    OBVIOUS
  <2>3. Repaint(InsertMode("Insert", x, NoHalf), WithSelection(b, MapSelections(b.sel, news)))
    BY <1>2, <1>7, <2>1, <2>2 DEF NormalInsert, MapBuffer, MapEach
  <2>4. MapsWell(b, news) /\ MapsInside(b, news)
    BY <1>2, <2>2, ShapeMapsWell
  <2> QED BY <1>2, <2>3, <2>4, ModesMade, MappedKeepsEditor
<1>8. CASE NormalAppend(k)
  <2>1. PICK x : x = (k = "A")
    OBVIOUS
  <2>2. PICK news : news = [i \in DOMAIN b.sel.regions |->
                              << SimpleExtend(ToForward(b.sel.regions[i]), "Right", BPL, n, 1) >>]
    OBVIOUS
  <2>3. Repaint(InsertMode("Append", x, NoHalf), WithSelection(b, MapSelections(b.sel, news)))
    BY <1>2, <1>8, <2>1, <2>2 DEF NormalAppend, MapBuffer, MapEach
  <2>4. MapsWell(b, news) /\ MapsInside(b, news)
    BY <1>2, <2>2, ShapeMapsWell
  <2> QED BY <1>2, <2>3, <2>4, ModesMade, MappedKeepsEditor
<1>9. CASE NormalShape(k)
  <2>1. CASE Repaint(mode, MapBuffer(buf, SwapCaret))
    <3>1. PICK news : news = [i \in DOMAIN b.sel.regions |-> << SwapCaret(b.sel.regions[i]) >>]
      OBVIOUS
    <3>2. Repaint(mode, WithSelection(b, MapSelections(b.sel, news)))
      BY <1>2, <2>1, <3>1 DEF MapBuffer, MapEach
    <3>3. MapsWell(b, news) /\ MapsInside(b, news)
      BY <1>2, <3>1, ShapeMapsWell
    <3> QED BY <1>2, <1>3, <3>2, <3>3, MappedKeepsEditor
  <2>2. CASE Repaint(mode, MapBuffer(buf, Collapse))
    <3>1. PICK news : news = [i \in DOMAIN b.sel.regions |-> << Collapse(b.sel.regions[i]) >>]
      OBVIOUS
    <3>2. Repaint(mode, WithSelection(b, MapSelections(b.sel, news)))
      BY <1>2, <2>2, <3>1 DEF MapBuffer, MapEach
    <3>3. MapsWell(b, news) /\ MapsInside(b, news)
      BY <1>2, <3>1, ShapeMapsWell
    <3> QED BY <1>2, <1>3, <3>2, <3>3, MappedKeepsEditor
  <2>3. CASE Repaint(mode, [buf EXCEPT !.sel = SelectAll(@, Size)])
    <3>1. PICK c \in Bufs : c = [b EXCEPT !.sel = SelectAll(@, Len(b.data))] /\ Picks(b, c)
      BY <1>2, PicksKeepBuf DEF Picks
    <3>2. Repaint(mode, c)
      BY <1>2, <2>3, <3>1
    <3> QED BY <1>2, <1>3, <3>1, <3>2, WorksWhen, PaintKeepsEditor
  <2> QED BY <1>9, <2>1, <2>2, <2>3 DEF NormalShape
<1> QED BY <1>4, <1>5, <1>6, <1>7, <1>8, <1>9

\* The keys of normal mode that edit, undo and redo.
LEMMA NormalEditsKeepEditor ==
  ASSUME EditorInv, NEW k,
         \/ NormalYank(k) \/ NormalDelete(k) \/ NormalChange(k) \/ NormalPaste(k)
         \/ NormalUndo(k) \/ NormalRedo(k)
  PROVE  Advanced
<1>1. mode.name = "Normal"
  BY DEF NormalYank, NormalDelete, NormalChange, NormalPaste, NormalUndo, NormalRedo, NormalKey
<1>2. PICK b \in Bufs, count \in Nat : b = buf /\ count = Count
  BY <1>1, EditorFields
<1>3. ModeOK(Normal) /\ ModeOK(mode)
  BY ModesMade, EditorFields
<1>4. CASE NormalYank(k)
  <2>1. PICK c \in Bufs : c = YankSelections(b) /\ c.data = b.data
                          /\ (~c.panic => Same(b, c) /\ c.sel = b.sel)
    BY YankKeepsBuf
  <2>2. Works(b, c)
    BY <2>1 DEF Works, Rechooses, Marks, Ends
  <2> QED BY <1>2, <1>3, <1>4, <2>1, <2>2, PaintKeepsEditor DEF NormalYank
<1>5. PICK c \in Bufs : c = DeleteSelected(b) /\ (Size = 0 => c.data = b.data) /\ Works(b, c)
  <2>1. PICK t \in Text : t = b.data
    BY BufFields
  <2>2. Size = 0 => t = << >>
    BY <1>2, <2>1, EmptySeq DEF Text, Size
  <2>3. CASE t = << >>
    <3>1. Picks(b, DeleteSelected(b))
      BY <2>1, <2>3, FinalEditsKeepBuf
    <3> QED BY <3>1, WorksWhen DEF Picks
  <2>4. CASE t # << >>
    <3>1. Finishes(b, DeleteSelected(b))
      BY <2>1, <2>4, FinalEditsKeepBuf
    <3>2. DeleteSelected(b) \in Bufs
      BY FinalEditsKeepBuf
    <3> QED BY <1>1, <2>2, <2>4, <3>1, <3>2, WorksWhen
  <2> QED BY <2>3, <2>4
<1>6. ASSUME NEW m, ModeOK(m), \/ RepaintAll(m, DeleteSelected(buf))
                               \/ Size = 0 /\ Quiet(m, DeleteSelected(buf))
      PROVE  Advanced
  BY <1>2, <1>5, <1>6, PaintKeepsEditor
<1>7. CASE NormalDelete(k)
  BY <1>3, <1>6, <1>7 DEF NormalDelete
<1>8. CASE NormalChange(k)
  <2>1. PICK x, m : x = (k = "C") /\ m = InsertMode("Insert", x, NoHalf)
    OBVIOUS
  <2>2. ModeOK(m)
    BY <2>1, ModesMade
  <2> QED BY <1>6, <1>8, <2>1, <2>2 DEF NormalChange
<1>9. CASE NormalPaste(k)
  <2>1. PICK after \in BOOLEAN : after = (k = "p")
    OBVIOUS
  <2>2. PICK d : d = PasteRegister(b, after, count)
    OBVIOUS
  <2>4. d \in Bufs /\ Finishes(b, d)
    BY <2>2, FinalEditsKeepBuf DEF Finishes
  <2>5. Works(b, d)
    BY <1>1, <2>4, WorksWhen
  <2>3. RepaintAll(mode, d)
    BY <1>2, <1>9, <2>1, <2>2 DEF NormalPaste
  <2> QED BY <1>2, <1>3, <2>4, <2>5, <2>3, PaintKeepsEditor
<1>12. ASSUME Quiet(Normal, buf) PROVE Advanced
  BY <1>2, <1>3, <1>12, WorksWhen, PaintKeepsEditor
<1>10. CASE NormalUndo(k)
  <2>1. CASE b.hist.undo # << >> /\ RepaintAll(Normal, PerformUndo(b))
    <3>1. PICK d \in Bufs : d = PerformUndo(b) /\ (~d.panic => Undoes(b, d))
      BY <2>1, UndoKeepsBuf
    <3>2. Works(b, d)
      BY <1>1, <3>1 DEF Works
    <3> QED BY <1>2, <1>3, <2>1, <3>1, <3>2, PaintKeepsEditor
  <2> QED BY <1>2, <1>10, <1>12, <2>1 DEF NormalUndo
<1>11. CASE NormalRedo(k)
  <2>1. CASE b.hist.redo # << >> /\ RepaintAll(Normal, PerformRedo(b))
    <3>1. PICK d \in Bufs : d = PerformRedo(b) /\ (~d.panic => Redoes(b, d))
      BY <2>1, UndoKeepsBuf
    <3>2. Works(b, d)
      BY <1>1, <3>1 DEF Works
    <3> QED BY <1>2, <1>3, <2>1, <3>1, <3>2, PaintKeepsEditor
  <2> QED BY <1>2, <1>11, <1>12, <2>1 DEF NormalRedo
<1> QED BY <1>4, <1>7, <1>8, <1>9, <1>10, <1>11

\* The keys of normal mode that pick regions, count and switch modes.
LEMMA NormalPicksKeepEditor ==
  ASSUME EditorInv, NEW k, NormalCount(k) \/ NormalSwitch(k) \/ NormalPick(k) \/ NormalCycle(k)
  PROVE  Advanced
<1>1. mode.name = "Normal"
  BY DEF NormalCount, NormalSwitch, NormalPick, NormalCycle, NormalKey
<1>2. PICK b \in Bufs, count \in Nat, n \in Nat :
        b = buf /\ count = Count /\ n = mode.count.count /\ mode.count \in CountStates
  BY <1>1, EditorFields
<1>3. ModeOK(Normal) /\ ModeOK(mode)
  BY ModesMade, EditorFields
<1>4. ASSUME NEW m, ModeOK(m), Quiet(m, buf) PROVE Advanced
  BY <1>2, <1>4, WorksWhen, PaintKeepsEditor
<1>5. CASE NormalCount(k)
  <2>1. CountUpdate(mode.count, k) \in CountStates
    BY <1>2, <1>5, CountKept DEF NormalCount
  <2>2. ModeOK(NormalMode(CountUpdate(mode.count, k)))
    BY <2>1, ModesMade
  <2> QED BY <1>4, <1>5, <2>2 DEF NormalCount
<1>6. CASE NormalSwitch(k)
  <2>1. /\ \A hex : ModeOK(InsertMode("Overwrite", hex, NoHalf)) /\ ModeOK(ReplaceMode(hex, NoHalf))
                    /\ ModeOK(SearchMode("Collapse", hex, NoHalf, << >>, 0))
        /\ ModeOK(SplitMode(NoCount))
    BY ModesMade
  <2>2. PICK x, y, z : x = (k = "O") /\ y = (k = "R") /\ z = (k = "S")
    OBVIOUS
  <2>3. \/ Quiet(InsertMode("Overwrite", x, NoHalf), buf) \/ Quiet(ReplaceMode(y, NoHalf), buf)
        \/ Quiet(SearchMode("Collapse", z, NoHalf, << >>, 0), buf) \/ Quiet(SplitMode(NoCount), buf)
        \/ Quiet(Normal, buf)
    BY <1>6, <2>2 DEF NormalSwitch
  <2> QED BY <1>3, <1>4, <2>1, <2>3
<1>7. CASE NormalPick(k)
  <2>1. ASSUME NEW m, ModeOK(m), NEW i \in Nat, Repaint(m, RetainSelection(b, i)) PROVE Advanced
    <3>1. Picks(b, RetainSelection(b, i))
      BY <1>2, PicksKeepBuf
    <3> QED BY <1>2, <2>1, <3>1, WorksWhen, PaintKeepsEditor DEF Picks
  <2>2. n > 0 => n - 1 \in Nat
    OBVIOUS
  <2>3. b.sel.main_selection \in Nat
    BY BufFields, SelectionFields
  <2>4. ASSUME NEW m, ModeOK(m), NEW i \in Nat, Repaint(m, RemoveSelection(b, i)),
               SparesMain => Spares(b.sel, i)
        PROVE  Advanced
    <3>1. PICK c : c = RemoveSelection(b, i)
      OBVIOUS
    <3>2. c \in Bufs /\ Same(b, c) /\ Confines(b, c)
      BY <1>2, <3>1, PicksKeepBuf
    <3>3. SparesMain => Chooses(b, c)
      BY <1>2, <2>4, <3>1, PicksKeepBuf
    <3>4. Works(b, c)
      BY <3>2, <3>3, WorksWhen
    <3> QED BY <1>2, <2>4, <3>1, <3>2, <3>4, PaintKeepsEditor
  <2>5. CASE k = " "
    <3>1. \/ n > 0 /\ Repaint(Normal, RetainSelection(b, n - 1))
          \/ Repaint(mode, RetainSelection(b, b.sel.main_selection))
      BY <1>2, <1>7, <2>5 DEF NormalPick
    <3> QED BY <1>3, <2>1, <2>2, <2>3, <3>1
  <2>6. CASE k = "alt "
    <3>1. \/ n > 0 /\ Repaint(Normal, RemoveSelection(b, n - 1))
          \/ n = 0 /\ Repaint(mode, RemoveSelection(b, b.sel.main_selection))
      BY <1>2, <1>7, <2>6 DEF NormalPick
    <3>2. Spares(b.sel, b.sel.main_selection)
      <4>1. PICK main \in Nat, len \in Nat : main = b.sel.main_selection
                                             /\ len = Len(b.sel.regions) /\ main < len
        BY BufFields, SelectionFields
      <4>2. main % len = main
        <5>1. \A x \in Nat, y \in Nat : x < y => x % y = x
          OBVIOUS
        <5> QED BY <4>1, <5>1
      <4> QED BY <4>1, <4>2 DEF Spares
    <3>3. n > 0 => (SparesMain => Spares(b.sel, n - 1))
      BY <1>2, <1>7, <2>6 DEF SparesMain
    <3> QED BY <1>3, <2>2, <2>3, <2>4, <3>1, <3>2, <3>3
  <2> QED BY <1>7, <2>5, <2>6 DEF NormalPick
<1>8. CASE NormalCycle(k)
  <2>1. PICK c \in Bufs, d \in Bufs : /\ c = [b EXCEPT !.sel = SelectNext(@, count)]
                                      /\ d = [b EXCEPT !.sel = SelectPrev(@, count)]
                                      /\ Picks(b, c) /\ Picks(b, d)
    <3>1. PICK c, d : /\ c = [b EXCEPT !.sel = SelectNext(@, count)]
                      /\ d = [b EXCEPT !.sel = SelectPrev(@, count)]
      OBVIOUS
    <3>2. Picks(b, c) /\ Picks(b, d)
      BY <1>2, <3>1, PicksKeepBuf
    <3> QED BY <3>1, <3>2 DEF Picks
  <2>2. Repaint(Normal, c) \/ Repaint(Normal, d)
    BY <1>2, <1>8, <2>1 DEF NormalCycle
  <2> QED BY <1>2, <1>3, <2>1, <2>2, WorksWhen, PaintKeepsEditor
<1> QED BY <1>5, <1>6, <1>7, <1>8

\* Jump mode: the closure of a key, or back to normal mode.
LEMMA JumpKeepsEditor ==
  ASSUME EditorInv, NEW k, JumpToStep(k)
  PROVE  Advanced
<1>1. PICK b \in Bufs, n \in Nat : b = buf /\ n = Size /\ n = Len(b.data)
  BY EditorFields DEF Size
<1>2. ModeOK(Normal)
  BY ModesMade
<1>3. CASE Quiet(Normal, buf)
  BY <1>1, <1>2, <1>3, WorksWhen, PaintKeepsEditor
<1>4. CASE k \in DOMAIN MoveDir /\ ~Quiet(Normal, buf)
  <2>1. PICK dir \in Directions : dir = MoveDir[k]
    BY <1>4, KeyTables
  <2>2. PICK news : news = [i \in DOMAIN b.sel.regions |->
                              << IF mode.extend THEN ExtendToBoundary(b.sel.regions[i], dir, BPL, n)
                                 ELSE JumpToBoundary(b.sel.regions[i], dir, BPL, n) >>]
    OBVIOUS
  <2>3. Repaint(Normal, WithSelection(b, MapSelections(b.sel, news)))
    BY <1>1, <1>4, <2>1, <2>2 DEF JumpToStep, MapBuffer, MapEach
  <2>4. MapsWell(b, news) /\ MapsInside(b, news)
    <3>1. 0 \in Nat
      OBVIOUS
    <3>2. CASE mode.extend
      <4>1. news = [i \in DOMAIN b.sel.regions |->
                      << ExtendToBoundary(b.sel.regions[i], dir, BPL, n) >>]
        BY <2>2, <3>2
      <4> QED BY <1>1, <3>1, <4>1, JumpMapsWell
    <3>3. CASE ~mode.extend
      <4>1. news = [i \in DOMAIN b.sel.regions |->
                      << JumpToBoundary(b.sel.regions[i], dir, BPL, n) >>]
        BY <2>2, <3>3
      <4> QED BY <1>1, <3>1, <4>1, JumpMapsWell
    <3> QED BY <3>2, <3>3
  <2> QED BY <1>1, <1>2, <2>3, <2>4, MappedKeepsEditor
<1> QED BY <1>3, <1>4 DEF JumpToStep

\* A finished pattern.
LEMMA AcceptKeepsEditor ==
  ASSUME EditorInv, NEW next, NEW S, NEW pattern \in Seq(S), Accept(next, pattern)
  PROVE  Advanced
<1>1. PICK b \in Bufs : b = buf
  BY EditorFields
<1>2. ModeOK(Normal)
  BY ModesMade
<1>3. CASE Quiet(Normal, buf) \/ Quiet(Normal, Crash(buf))
  <2>1. PICK c \in Bufs : c = Crash(b) /\ c.panic /\ c.data = b.data
    BY BufSets DEF Crash
  <2>2. Works(b, c) /\ Works(b, b)
    BY <2>1, WorksWhen
  <2> QED BY <1>1, <1>2, <1>3, <2>1, <2>2, PaintKeepsEditor
<1>4. CASE pattern # << >> /\ (Repaint(Normal, SplitSearch(buf, pattern))
                               \/ Repaint(Normal, CollapseSearch(buf, pattern)))
  <2>1. Len(pattern) \in Nat \ {0}
    BY <1>4, EmptySeq, LenProperties
  <2>2. Picks(b, SplitSearch(b, pattern)) /\ Picks(b, CollapseSearch(b, pattern))
    <3>1. 0 \in Nat
      OBVIOUS
    <3> QED BY <2>1, <3>1, PiecesKeepBuf
  <2>3. PICK c \in Bufs : Picks(b, c) /\ Repaint(Normal, c)
    BY <1>1, <1>4, <2>2 DEF Picks
  <2> QED BY <1>1, <1>2, <2>3, WorksWhen, PaintKeepsEditor
<1> QED BY <1>3, <1>4, Zenon DEF Accept

\* Split mode.
LEMMA SplitKeepsEditor ==
  ASSUME EditorInv, NEW k, SplitCount(k) \/ SplitStep(k)
  PROVE  Advanced
<1>1. mode.name = "Split"
  BY DEF SplitCount, SplitStep
<1>2. PICK b \in Bufs, count \in Nat : b = buf /\ count = Count /\ mode.count \in CountStates
  BY <1>1, EditorFields
<1>3. ModeOK(Normal)
  BY ModesMade
<1>4. ASSUME NEW m, ModeOK(m), Quiet(m, buf) PROVE Advanced
  BY <1>2, <1>4, WorksWhen, PaintKeepsEditor
<1>5. CASE SplitCount(k)
  <2>1. CountUpdate(mode.count, k) \in CountStates
    BY <1>2, <1>5, CountKept DEF SplitCount
  <2>2. ModeOK(SplitMode(CountUpdate(mode.count, k)))
    BY <2>1, ModesMade
  <2> QED BY <1>4, <1>5, <2>2 DEF SplitCount
<1>6. CASE k \in DOMAIN Width /\ Repaint(Normal, SplitWidth(buf, Width[k] * Count))
  <2>1. PICK w \in Nat : w = Width[k]
    BY <1>6, KeyTables
  <2>2. PICK x \in Nat : x = w * count
    OBVIOUS
  <2>3. << 0 >> \in Seq(Nat) /\ Len(<< 0 >>) \in Nat \ {0}
    OBVIOUS
  <2>4. Picks(b, SplitWidth(b, x))
    BY <2>3, PiecesKeepBuf
  <2>5. Repaint(Normal, SplitWidth(b, x))
    BY <1>2, <1>6, <2>1, <2>2
  <2>6. PICK c \in Bufs : Picks(b, c) /\ Repaint(Normal, c)
    BY <2>4, <2>5 DEF Picks
  <2> QED BY <1>2, <1>3, <2>6, WorksWhen, PaintKeepsEditor
<1>7. CASE Accept("Split", [i \in 1 .. Count |-> 0])
  <2>1. [i \in 1 .. count |-> 0] \in Seq(Nat)
    OBVIOUS
  <2> QED BY <1>2, <1>7, <2>1, AcceptKeepsEditor
<1>8. CASE Quiet(SearchMode("Split", k = "?", NoHalf, << >>, 0), buf)
  <2>1. PICK x : x = (k = "?")
    OBVIOUS
  <2>2. ModeOK(SearchMode("Split", x, NoHalf, << >>, 0))
    BY ModesMade
  <2> QED BY <1>4, <1>8, <2>1, <2>2
<1> QED BY <1>3, <1>4, <1>5, <1>6, <1>7, <1>8 DEF SplitStep

\* Replace mode.
LEMMA ReplaceKeepsEditor ==
  ASSUME EditorInv, NEW k, ReplaceStep(k)
  PROVE  Advanced
<1>1. mode.name = "Replace"
  BY DEF ReplaceStep
<1>2. PICK b \in Bufs, half \in Halves : b = buf /\ half = mode.half
  BY <1>1, EditorFields
<1>3. ASSUME NEW m, ModeOK(m), Quiet(m, buf) PROVE Advanced
  BY <1>2, <1>3, WorksWhen, PaintKeepsEditor
<1>4. ASSUME NEW ch \in Bytes, ReplaceSelected(ch) PROVE Advanced
  <2>1. PICK c : c = BufApplyDelta(b, Replace(b.data, b.sel, ch))
    OBVIOUS
  <2>2. c \in Bufs /\ Finishes(b, c)
    BY <2>1, FinalEditsKeepBuf DEF Finishes
  <2>3. Works(b, c)
    BY <1>1, <2>2, WorksWhen
  <2> QED BY <1>2, <1>4, <2>1, <2>2, <2>3, ModesMade, PaintKeepsEditor DEF ReplaceSelected
<1>5. CASE ReplaceSelected(0)
  <2>1. 0 \in Bytes
    BY DEF Bytes
  <2> QED BY <1>4, <1>5, <2>1
<1>6. CASE k \in CharKeys /\ ReplaceSelected(CodeByte[k])
  <2>1. CodeByte[k] \in Bytes
    BY <1>6, EditorAssumption
  <2> QED BY <1>4, <1>6, <2>1
<1>7. CASE k \in DOMAIN HexDigit /\ Quiet(ReplaceMode(TRUE, 16 * HexDigit[k]), buf)
  <2>1. 16 * HexDigit[k] \in Halves
    BY <1>7, DigitValue, ModesMade
  <2>2. ModeOK(ReplaceMode(TRUE, 16 * HexDigit[k]))
    BY <2>1, ModesMade
  <2> QED BY <1>3, <1>7, <2>2
<1>8. CASE k \in DOMAIN HexDigit /\ mode.half # NoHalf /\ ReplaceSelected(mode.half + HexDigit[k])
  <2>1. PICK d \in 0 .. 15 : d = HexDigit[k]
    BY <1>8, DigitValue
  <2>2. half + d \in Bytes
    BY <1>2, <1>8, TwoDigits
  <2> QED BY <1>2, <1>4, <1>8, <2>1, <2>2
<1>9. CASE Quiet(Normal, buf)
  BY <1>3, <1>9, ModesMade
<1> QED BY <1>5, <1>6, <1>7, <1>8, <1>9, Zenon DEF ReplaceStep

\* Insert mode.
LEMMA InsertKeepsEditor ==
  ASSUME EditorInv, NEW k, InsertStep(k)
  PROVE  Advanced
<1> USE DEF InsertKey
<1>1. mode.name = "Insert"
  BY DEF InsertStep, InsertExit, InsertNull, InsertSwitch, InsertRemove, InsertMove, InsertChar
<1>2. PICK b \in Bufs, half \in Halves : b = buf /\ half = mode.half
  BY <1>1, EditorFields
<1>3. ModeOK(Normal) /\ ModeOK(mode) /\ ModeOK(Resume)
  BY ModesMade, EditorFields
<1>10. ASSUME NEW m, ModeOK(m), NEW c, Continues(b, c), RepaintAll(m, c) PROVE Advanced
  <2>1. c \in Bufs /\ Works(b, c)
    BY <1>10, WorksWhen DEF Continues
  <2> QED BY <1>2, <1>10, <2>1, PaintKeepsEditor
<1>4. CASE InsertExit(k)
  <2>1. PICK c \in Bufs : c = CommitDelta(b) /\ Commits(b, c)
    BY DeltasKeepBuf
  <2>2. Works(b, c) /\ c.data = b.data
    BY <2>1 DEF Works, Commits
  <2> QED BY <1>2, <1>3, <1>4, <2>1, <2>2, PaintKeepsEditor DEF InsertExit
<1>5. CASE InsertNull(k)
  <2>1. << 0 >> \in Text
    <3>1. 0 \in Bytes
      BY DEF Bytes
    <3> QED BY <3>1, TextConcat
  <2>2. Continues(b, ApplyIncompleteDelta(b, Insert(b.data, b.sel, << 0 >>)))
    BY <2>1, InsertionsKeepBuf
  <2> QED BY <1>2, <1>3, <1>5, <1>10, <2>2 DEF InsertNull
<1>6. CASE InsertSwitch(k)
  <2>1. PICK x : x = ~mode.hex
    OBVIOUS
  <2>2. ModeOK(InsertMode(mode.kind, x, NoHalf))
    BY ModesMade
  <2>3. Quiet(InsertMode(mode.kind, x, NoHalf), b)
    BY <1>2, <1>6, <2>1 DEF InsertSwitch
  <2> QED BY <1>2, <2>2, <2>3, WorksWhen, PaintKeepsEditor
<1>7. CASE InsertRemove(k)
  <2>1. /\ Continues(b, ApplyIncompleteDelta(b, DeleteCursor(b.data, b.sel)))
        /\ Continues(b, ApplyIncompleteDelta(b, Backspace(b.data, b.sel)))
    BY InsertionsKeepBuf
  <2>2. \/ Quiet(mode, b)
        \/ RepaintAll(Resume, ApplyIncompleteDelta(b, DeleteCursor(b.data, b.sel)))
        \/ RepaintAll(Resume, ApplyIncompleteDelta(b, Backspace(b.data, b.sel)))
    BY <1>2, <1>7 DEF InsertRemove
  <2>3. CASE Quiet(mode, b)
    BY <1>2, <1>3, <2>3, WorksWhen, PaintKeepsEditor
  <2> QED BY <1>3, <1>10, <2>1, <2>2, <2>3
<1>8. CASE InsertMove(k)
  <2>1. PICK dir \in Directions : dir = ArrowDir[k]
    BY <1>8, KeyTables DEF InsertMove
  <2>2. PICK c \in Bufs, n \in Nat :
          c = (IF half = NoHalf THEN b ELSE HexInsertion(b, mode.kind, half, 0)) /\ n = Len(c.data)
          /\ (half = NoHalf => c = b) /\ (half # NoHalf => Continues(b, c))
    <3>1. 0 \in 0 .. 15
      OBVIOUS
    <3>2. Continues(b, HexInsertion(b, mode.kind, half, 0))
      BY <3>1, HexInsertionKeepsBuf
    <3>3. PICK c : c = IF half = NoHalf THEN b ELSE HexInsertion(b, mode.kind, half, 0)
      OBVIOUS
    <3>4. c \in Bufs /\ (half = NoHalf => c = b) /\ (half # NoHalf => Continues(b, c))
      BY <3>2, <3>3 DEF Continues
    <3>5. Len(c.data) \in Nat
      BY <3>4, BufFields
    <3> QED BY <3>3, <3>4, <3>5
  <2>3. PICK news : news = [i \in DOMAIN c.sel.regions |->
                              << IF half = NoHalf THEN SimpleMove(c.sel.regions[i], dir, BPL, n, 1)
                                 ELSE SimpleMove(SimpleMove(c.sel.regions[i], dir, BPL, n, 1),
                                                 "Left", BPL, n, 1) >>]
    OBVIOUS
  <2>4. Repaint(Resume, WithSelection(c, MapSelections(c.sel, news)))
    BY <1>2, <1>8, <2>1, <2>2, <2>3, Zenon DEF InsertMove, MapBuffer, MapEach
  <2>5. MapsWell(c, news) /\ MapsInside(c, news)
    <3>1. CASE half = NoHalf
      <4>1. news = [i \in DOMAIN c.sel.regions |-> << SimpleMove(c.sel.regions[i], dir, BPL, n, 1) >>]
        BY <2>3, <3>1
      <4>2. 1 \in Nat
        OBVIOUS
      <4> QED BY <2>2, <4>1, <4>2, MoveMapsWell
    <3>2. CASE half # NoHalf
      <4>1. news = [i \in DOMAIN c.sel.regions |->
                      << SimpleMove(SimpleMove(c.sel.regions[i], dir, BPL, n, 1), "Left", BPL, n, 1) >>]
        BY <2>3, <3>2
      <4> QED BY <2>2, <4>1, BackMapsWell
    <3> QED BY <3>1, <3>2
  <2>6. PICK e \in Bufs : e = WithSelection(c, MapSelections(c.sel, news))
                          /\ Chooses(c, e) /\ Confines(c, e)
    BY <2>5 DEF MapsWell, MapsInside
  <2>7. Works(b, e)
    <3>1. CASE half = NoHalf
      <4>1. Chooses(b, e) /\ Confines(b, e)
        BY <2>2, <2>6, <3>1
      <4> QED BY <4>1, WorksWhen
    <3>2. CASE half # NoHalf
      <4>1. ASSUME ~e.panic PROVE Partials(b, e)
        <5>1. Same(c, e) /\ Marks(c, e) /\ Ends(c, e)
          BY <2>6, <4>1 DEF Chooses, Confines
        <5>2. ~c.panic
          BY <4>1, <5>1 DEF Same
        <5>3. ~ChainPanics(b.hist, b.data)
          BY <2>2, <3>2, <5>2 DEF Continues, Partials
        <5>4. PICK d \in Deltas(Len(b.data)) :
                Edited(b, c, d) /\ c.hist = PerformPartial(b.hist, b.data, d, b.sel)
          BY <2>2, <3>2, <5>2 DEF Continues, Partials
        <5>5. Edited(b, e, d)
          BY <5>1, <5>4 DEF Edited, Same, Marks, Ends
        <5>6. e.hist = PerformPartial(b.hist, b.data, d, b.sel)
          BY <5>1, <5>4 DEF Same
        <5> QED BY <5>3, <5>5, <5>6 DEF Partials
      <4> QED BY <4>1 DEF Works
    <3> QED BY <3>1, <3>2
  <2> QED BY <1>2, <1>3, <2>4, <2>6, <2>7, PaintKeepsEditor
<1>9. CASE InsertChar(k)
  <2>1. k \in CharKeys
    BY <1>9 DEF InsertChar
  <2>2. CASE RepaintAll(mode, AsciiInsertion(buf, mode.kind, Utf8[k]))
    <3>1. Utf8[k] \in Text
      BY <2>1, EditorAssumption DEF Text
    <3>2. Continues(b, AsciiInsertion(b, mode.kind, Utf8[k]))
      BY <3>1, InsertionsKeepBuf
    <3> QED BY <1>2, <1>3, <1>10, <2>2, <3>2
  <2>3. ASSUME k \in DOMAIN HexDigit,
               RepaintAll(InsertMode(mode.kind, TRUE,
                            IF mode.half = NoHalf THEN 16 * HexDigit[k] ELSE NoHalf),
                          HexInsertion(buf, mode.kind, mode.half, HexDigit[k]))
        PROVE  Advanced
    <3>1. PICK d \in 0 .. 15 : d = HexDigit[k]
      BY <2>3, DigitValue
    <3>2. PICK x \in Halves : x = IF half = NoHalf THEN 16 * d ELSE NoHalf
      BY ModesMade
    <3>3. PICK m, c : m = InsertMode(mode.kind, TRUE, x) /\ c = HexInsertion(b, mode.kind, half, d)
      OBVIOUS
    <3>4. ModeOK(m) /\ Continues(b, c)
      BY <3>3, ModesMade, HexInsertionKeepsBuf
    <3>5. RepaintAll(m, c)
      BY <1>2, <2>3, <3>1, <3>2, <3>3, Zenon
    <3> QED BY <1>10, <3>4, <3>5
  <2> QED BY <1>9, <2>2, <2>3, Zenon DEF InsertChar
<1> QED BY <1>4, <1>5, <1>6, <1>7, <1>8, <1>9 DEF InsertStep

\* The search prompt touches the buffer only when its pattern is accepted.
LEMMA SearchKeepsEditor ==
  ASSUME EditorInv, PromptOK(mode), NEW k, SearchStep(k)
  PROVE  Advanced
<1>1. mode.name = "Search"
  BY DEF SearchStep, SearchInsert, SearchRemove, SearchCursor, SearchChar, SearchLeave
<1>2. PICK b \in Bufs, half \in Halves : b = buf /\ half = mode.half
  BY <1>1, EditorFields
<1>3. ASSUME NEW hex, NEW h \in Halves, NEW pattern, NEW cursor, Prompt(hex, h, pattern, cursor)
      PROVE  Advanced
  <2>1. ModeOK(SearchMode(mode.next, hex, h, pattern, cursor))
    BY ModesMade
  <2> QED BY <1>2, <1>3, <2>1, WorksWhen, PaintKeepsEditor DEF Prompt
<1>4. NoHalf \in Halves
  BY ModesMade
<1>5. CASE SearchInsert(k)
  BY <1>3, <1>4, <1>5 DEF SearchInsert
<1>6. CASE SearchRemove(k)
  BY <1>3, <1>4, <1>6 DEF SearchRemove
<1>7. CASE SearchCursor(k)
  <2>1. PICK x : x = ~mode.hex
    OBVIOUS
  <2>2. PICK hex, pattern, cursor : Prompt(hex, NoHalf, pattern, cursor)
    BY <1>7 DEF SearchCursor
  <2> QED BY <1>3, <1>4, <2>2
<1>8. CASE SearchChar(k)
  <2>1. k \in DOMAIN HexDigit => 16 * HexDigit[k] \in Halves
    BY DigitValue, ModesMade
  <2>2. PICK at : at = mode.cursor + 1
    OBVIOUS
  <2>3. \/ Prompt(FALSE, half, InsertAt(mode.pattern, at, CodeByte[k]), at)
        \/ /\ k \in DOMAIN HexDigit
           /\ Prompt(TRUE, 16 * HexDigit[k], InsertAt(mode.pattern, at, 16 * HexDigit[k]), mode.cursor)
        \/ Prompt(TRUE, NoHalf, [mode.pattern EXCEPT ![at] = mode.half + HexDigit[k]], at)
    BY <1>2, <1>8, <2>2, Zenon DEF SearchChar
  <2>4. PICK y : y = [mode.pattern EXCEPT ![at] = mode.half + HexDigit[k]]
    OBVIOUS
  <2> QED BY <1>3, <1>4, <2>1, <2>3, <2>4, Zenon
<1>9. CASE SearchLeave(k)
  <2>1. CASE Quiet(Normal, buf)
    BY <1>2, <2>1, ModesMade, WorksWhen, PaintKeepsEditor
  <2>2. CASE Accept(mode.next, mode.pattern)
    <3>1. PICK S : mode.pattern \in Seq(S)
      BY <1>1 DEF PromptOK, Prompted, SearchMode
    <3> QED BY <2>2, <3>1, AcceptKeepsEditor
  <2> QED BY <1>9, <2>1, <2>2 DEF SearchLeave
<1> QED BY <1>5, <1>6, <1>7, <1>8, <1>9 DEF SearchStep

\* Scrolling and resizing.
LEMMA DefaultKeepsEditor ==
  ASSUME EditorInv, NEW k, ScrollKey(k) \/ Resize(k)
  PROVE  Advanced
<1>1. ModeOK(mode) /\ Seen(buf) \in Screens
  BY ScreenSets DEF EditorInv, Seen
<1>4. Seen(buf).b = buf /\ Seen(buf).start = start
  BY ScreenSets DEF EditorInv, Seen
<1>2. CASE ScrollKey(k)
  <2>1. PICK w \in Screens : Scrolls(Seen(buf), w) /\ Stays(Seen(buf), w) /\ Become(mode, w)
    BY <1>1, <1>2, RepaintsDrawn DEF ScrollKey
  <2>2. ~w.b.panic => StepsTo(w.b)
    BY <1>4, <2>1, WorksWhen DEF Scrolls, StepsTo
  <2>3. ~w.b.panic => Windowed(w)
    BY <1>4, <2>1, WindowedWhen
  <2> QED BY <1>1, <2>1, <2>2, <2>3, BecomeKeepsEditor
<1>3. CASE Resize(k)
  <2>1. PICK h \in Heights : Become(mode, Draw(Screen(buf, start, h)))
    BY <1>3 DEF Resize
  <2>2. PICK v \in Screens : v = Screen(buf, start, h) /\ v.b = buf /\ v.start = start
    BY ScreenSets DEF EditorInv
  <2>3. PICK w \in Screens : w = Draw(v) /\ Shows(v, w) /\ Stays(v, w)
    BY <2>2, RepaintsDrawn
  <2>4. ~w.b.panic => StepsTo(w.b)
    <3>1. buf \in Bufs /\ ~buf.panic /\ Shown(buf, buf) /\ Works(buf, buf)
      BY ShowsOn, WorksWhen DEF EditorInv
    <3> QED BY <2>2, <2>3, <3>1 DEF StepsTo, Shows
  <2>5. ~w.b.panic => Windowed(w)
    BY <2>2, <2>3, WindowedWhen
  <2> QED BY <1>1, <2>1, <2>2, <2>3, <2>4, <2>5, BecomeKeepsEditor
<1> QED BY <1>2, <1>3

\* A new buffer, empty or with the first screenful of the file, can be drawn.
LEMMA InitEditor == Init => EditorInv /\ Shown(NewBuffer(<< >>), buf) /\ start <= Size
<1> SUFFICES ASSUME Init PROVE EditorInv /\ Shown(NewBuffer(<< >>), buf) /\ start <= Size
  OBVIOUS
<1>1. rows \in Heights /\ start = 0 /\ mode = Normal
  BY DEF Init
<1>2. PICK b : b = NewBuffer(<< >>)
  OBVIOUS
<1>3. b \in Bufs /\ b.sel = Cleared /\ b.panic = FALSE
  <2>1. EmptyHistory \in Hists
    <3>1. << >> \in Seq(Entries)
      OBVIOUS
    <3> QED BY <3>1 DEF EmptyHistory, Hists
  <2>2. << << >> >> \in Registers
    <3>1. << >> \in Text
      BY TextConcat
    <3> QED BY <3>1 DEF Registers
  <2>3. << >> \in Text
    BY TextConcat
  <2>4. b = [data |-> << >>, sel |-> Cleared, reg |-> << << >> >>, dirty |-> FALSE,
             hist |-> EmptyHistory, panic |-> FALSE]
    BY <1>2 DEF NewBuffer
  <2> QED BY <2>1, <2>2, <2>3, <2>4, ClearedKept DEF Bufs
<1>4. PICK v \in Screens : v = Screen(b, 0, rows) /\ v.b = b /\ v.start = 0
  <2>1. PICK c \in Bufs, s \in Lines, r \in Heights : c = b /\ s = 0 /\ r = rows
    BY <1>1, <1>3, LinesAdd
  <2>2. Screen(c, s, r) \in Screens /\ Screen(c, s, r).b = c /\ Screen(c, s, r).start = s
    BY ScreenSets
  <2> QED BY <2>1, <2>2
<1>5. PICK w \in Screens : w = Load(v, ChunkSize(v)) /\ w.start = 0 /\ w.b.sel = Cleared
                           /\ w.b.panic = FALSE
  <2>1. PICK n \in Nat : n = ChunkSize(v)
    BY ScreenFields
  <2>2. /\ Load(v, n) \in Screens /\ Load(v, n).start = v.start
        /\ Load(v, n).b.sel = v.b.sel /\ Load(v, n).b.panic = v.b.panic
    BY LoadKeepsScreen
  <2> QED BY <1>3, <1>4, <2>1, <2>2
<1>6. PICK z \in Screens : z = EnsureVisibleData(w) /\ z.start = 0 /\ z.b.sel = Cleared
                           /\ z.b.panic = FALSE
  <2>1. LoadSize \in Nat
    BY ViewAssumption
  <2> QED BY <1>5, <2>1, LoadKeepsScreen DEF EnsureVisibleData
<1>7. ~DrawPanics(z)
  <2>1. PICK l \in Nat, e \in Nat : l = Loaded(z) /\ e = VisibleEnd(z)
    BY ScreenFields
  <2>2. PICK R : R = z.b.sel.regions
    OBVIOUS
  <2>3. DOMAIN R = {1} /\ R[1].caret = 0 /\ R[1].tail = 0
    BY <1>6, <2>2 DEF Cleared, Region
  <2>4. Lesser(e, l) \in Nat /\ Greater(0, Lesser(e, l)) \in Nat
    BY DEF Lesser, Greater
  <2>5. \A i \in DOMAIN R : ~(R[i].caret < 0) /\ ~(R[i].caret > Greater(0, Lesser(e, l)))
    BY <2>3, <2>4
  <2>6. \A i \in RegionsInRange(R, z.start, e) : i \in DOMAIN R
    BY DEF RegionsInRange
  <2>7. \A i \in DOMAIN R : ~(e < RMin(R[i]))
    BY <2>1, <2>3 DEF RMin, Lesser
  <2> QED BY <1>6, <2>1, <2>2, <2>5, <2>6, <2>7 DEF DrawPanics
<1>8. Draw(w) = z
  BY <1>5, <1>6, <1>7 DEF Draw
<1>9. buf = z.b
  BY <1>2, <1>4, <1>5, <1>8 DEF Init
<1>10. buf \in Bufs /\ ~buf.panic
  BY <1>6, <1>9, ScreenFields
<1>11. Size \in Nat
  BY <1>10, BufFields DEF Size
<1>12. start \in Lines /\ start <= Size
  BY <1>1, <1>11, LinesAdd
<1>13. Shown(b, buf)
  <2>1. ChunkSize(v) \in Nat
    BY ScreenFields
  <2>2. Shows(v, w) /\ Shows(w, z)
    BY <1>5, <1>8, <2>1, LoadKeepsScreen, DrawKeepsScreen
  <2>3. Shows(v, z)
    BY <2>2, ShowsOn
  <2> QED BY <1>4, <1>9, <1>10, <2>3 DEF Shows
<1> QED BY <1>1, <1>2, <1>10, <1>12, <1>13, ModesMade DEF EditorInv

\* Each action is one of the lemmas above.
LEMMA NextAdvances ==
  ASSUME EditorInv, PromptOK(mode), [Next]_vars
  PROVE  Advanced
<1>1. ASSUME NEW k, NormalStep(k) PROVE Advanced
  BY <1>1, NormalMapsKeepEditor, NormalEditsKeepEditor, NormalPicksKeepEditor DEF NormalStep
<1>2. CASE Next
  BY <1>1, <1>2, JumpKeepsEditor, SplitKeepsEditor, ReplaceKeepsEditor, InsertKeepsEditor,
     SearchKeepsEditor, DefaultKeepsEditor DEF Next
<1>3. CASE UNCHANGED vars
  <2>1. EditorInv'
    BY <1>3 DEF vars, EditorInv, ModeOK
  <2>2. WindowKept
    BY <1>3 DEF vars, WindowKept, Size
  <2> QED BY <1>3, <2>1, <2>2 DEF Advanced, Stepped, vars
<1> QED BY <1>2, <1>3

\* The invariant holds, whatever the keys.
LEMMA EditorInvariant == Spec => []EditorInv
<1>1. EditorInv /\ PromptOK(mode) /\ [Next]_vars => EditorInv'
  BY NextAdvances DEF Advanced
<1>2. Spec => []PromptOK(mode)
  BY PromptInvariant
<1> QED BY <1>1, <1>2, InitEditor, PTL DEF Spec

\* Type correctness, whatever the keys: the buffer of src/current_buffer.rs with its
\* selection, register and flags, the window of src/hex_view/view.rs, and the data
\* each mode of src/modes owns.
THEOREM EditorTyped == Spec => []TypeOK
<1>1. EditorInv => TypeOK
  <2> SUFFICES ASSUME EditorInv PROVE TypeOK
    OBVIOUS
  <2>1. PICK b \in Bufs : b = buf /\ ~b.panic
    BY DEF EditorInv
  <2>2. PICK s \in Selections : s = b.sel
    BY BufFields
  <2>3. /\ s.regions \in Seq(Regions) /\ s.regions # << >>
        /\ s.main_selection \in 0 .. Len(s.regions) - 1
    <3>1. PICK m \in Nat, n \in Nat : m = s.main_selection /\ n = Len(s.regions) /\ m < n
      BY SelectionFields
    <3>2. s.regions # << >>
      BY <3>1
    <3>3. s.regions \in Seq(Regions)
      BY SelectionFields
    <3> QED BY <3>1, <3>2, <3>3
  <2>4. b.data \in Seq(Bytes) /\ b.reg \in Seq(Seq(Bytes)) /\ b.reg # << >> /\ b.dirty \in BOOLEAN
    BY BufFields DEF Text, Registers
  <2>5. start \in Nat /\ rows \in Heights
    BY LinesAdd DEF EditorInv
  <2>6. ModeOK(mode)
    BY DEF EditorInv
  <2> QED BY <2>1, <2>2, <2>3, <2>4, <2>5, <2>6 DEF TypeOK, Regs, ModeOK, ModeNames, Halves
<1> QED BY <1>1, EditorInvariant, PTL

\* The INVARIANT comments of struct Selection (src/selection.rs): whatever the keys, the
\* regions stay sorted and do not overlap.
THEOREM RegionsAlwaysSortedDisjoint == Spec => []RegionsSortedDisjoint
<1>1. EditorInv => RegionsSortedDisjoint
  BY BufFields, SelectionFields DEF EditorInv, RegionsSortedDisjoint, Regs
<1> QED BY <1>1, EditorInvariant, PTL

\* The main selection always carries the flag by which the view finds it
\* (src/selection.rs: map_selections, remove, retain, select_next and select_prev).
THEOREM MainAlwaysFlagged == Spec => []MainIsFlagged
<1>1. EditorInv => MainIsFlagged
  BY BufFields, SelectionFields DEF EditorInv, MainIsFlagged, MainRegion
<1> QED BY <1>1, EditorInvariant, PTL

\* The window follows the main caret (src/hex_view/view.rs: maybe_update_offset,
\* maybe_update_offset_and_draw, scroll_down, trim_buffer_top): it always begins at the
\* start of a line, and as long as the main caret lies in the buffer, or on the cell after
\* it, so does the beginning of the window, whatever is loaded, trimmed, deleted or undone.
THEOREM WindowFollowsCaret == Spec => [](start % BPL = 0) /\ ([]MainInside => []WindowInBuffer)
<1>1. EditorInv => start % BPL = 0
  <2> SUFFICES ASSUME EditorInv PROVE start % BPL = 0
    OBVIOUS
  <2>1. PICK x \in Nat : x = start /\ x \in Lines
    BY LinesAdd DEF EditorInv
  <2> QED BY <2>1, LineOf
<1>2. Init => start <= Size
  BY InitEditor
<1>3. EditorInv /\ PromptOK(mode) /\ [Next]_vars /\ start <= Size /\ MainInside' => (start <= Size)'
  BY NextAdvances DEF Advanced, WindowKept
<1>4. start % BPL = 0 /\ start <= Size => WindowInBuffer
  BY DEF WindowInBuffer
<1>5. Spec => []EditorInv /\ []PromptOK(mode)
  BY EditorInvariant, PromptInvariant, PTL
<1> QED BY <1>1, <1>2, <1>3, <1>4, <1>5, PTL DEF Spec

\* What a selection covers of the buffer.
LEMMA CoveredIs ==
  ASSUME NEW sel \in Selections, NEW data \in Text
  PROVE  Covered(sel, data) = {o \in Cover(sel.regions) : o < Len(data)}
<1>1. PICK n \in Nat, l \in Nat : n = Len(sel.regions) /\ l = Len(data) /\ DOMAIN sel.regions = 1 .. n
  BY SelectionFields, LenProperties DEF Text
<1>2. \A o : o \in 0 .. l - 1 <=> o \in Nat /\ o < l
  BY <1>1
<1> QED BY <1>1, <1>2 DEF Covered, Cover, CoverUpTo

\* Splitting the selection at a pattern and collapsing it to the pattern share the
\* selected bytes out, whatever is selected and typed (src/modes/split.rs and
\* src/modes/collapse.rs, apply_search; src/selection.rs, split_at_region and
\* map_selections).
THEOREM SearchAlwaysSharesOut == Spec => []SearchSharesOut
<1>1. EditorInv /\ PromptOK(mode) => SearchSharesOut
  <2> SUFFICES ASSUME EditorInv, PromptOK(mode), mode.name = "Search", mode.pattern # << >>,
                      ~SplitSearch(buf, mode.pattern).panic, ~CollapseSearch(buf, mode.pattern).panic,
                      NEW x, x = SplitSearch(buf, mode.pattern).sel,
                      NEW y, y = CollapseSearch(buf, mode.pattern).sel
               PROVE  /\ Covered(x, buf.data) \cup Covered(y, buf.data) = Covered(buf.sel, buf.data)
                      /\ Covered(x, buf.data) \cap Covered(y, buf.data) = {}
    BY DEF SearchSharesOut
  <2>1. PICK b \in Bufs : b = buf
    BY EditorFields
  <2>2. PICK sel \in Selections, data \in Text : sel = b.sel /\ data = b.data
    BY BufFields
  <2>3. PICK S : mode.pattern \in Seq(S)
    BY DEF PromptOK, Prompted, SearchMode
  <2>4. PICK pattern : pattern = mode.pattern /\ Len(pattern) \in Nat \ {0}
    BY <2>3, EmptySeq, LenProperties
  <2>5. PICK cut, found :
          /\ SplitSearch(b, pattern) = WithSelection(b, MapSelections(sel, cut))
          /\ CollapseSearch(b, pattern) = WithSelection(b, MapSelections(sel, found))
          /\ \A i \in 1 .. Len(sel.regions) : Shares(cut[i], found[i], sel.regions[i])
    BY <2>2, <2>4, SearchMaps
  <2>6. ASSUME NEW r, ~WithSelection(b, r).panic PROVE ~r.panic /\ WithSelection(b, r).sel = r.sel
    <3>1. ~r.panic
      <4>1. r.panic => WithSelection(b, r) = Crash(b)
        BY DEF WithSelection
      <4>2. Crash(b).panic
        BY BufSets
      <4> QED BY <2>6, <4>1, <4>2, Zenon
    <3>2. WithSelection(b, r) = [b EXCEPT !.sel = r.sel]
      BY <3>1 DEF WithSelection
    <3> QED BY <3>1, <3>2 DEF Bufs
  <2>7. ~MapSelections(sel, cut).panic /\ x = MapSelections(sel, cut).sel
    BY <2>1, <2>4, <2>5, <2>6
  <2>8. ~MapSelections(sel, found).panic /\ y = MapSelections(sel, found).sel
    BY <2>1, <2>4, <2>5, <2>6
  <2>9. /\ Cover(x.regions) \cup Cover(y.regions) = Cover(sel.regions)
        /\ Cover(x.regions) \cap Cover(y.regions) = {}
    BY <2>5, <2>7, <2>8, SharedOut
  <2>10. x \in Selections /\ y \in Selections
    <3>1. InOrder(cut, Len(sel.regions)) /\ InOrder(found, Len(sel.regions))
      BY <2>5, WithinInOrder DEF Shares
    <3> QED BY <2>7, <2>8, <3>1, MapKeepsSorted
  <2> QED BY <2>1, <2>2, <2>9, <2>10, CoveredIs
<1> QED BY <1>1, EditorInvariant, PromptInvariant, PTL
=============================================================================
