-------------------------------- MODULE View --------------------------------
(***************************************************************************)
(* The window of the view on the current buffer (src/hex_view/view.rs):    *)
(* which bytes are on the screen, how they are loaded from the file, and   *)
(* how the window follows the main cursor.  A screen is the buffer b, the  *)
(* offset start of the first byte shown, and the number of rows above the  *)
(* status line.  Each operator is a method of HexView, from screen to      *)
(* screen.  What a row looks like is left out.                             *)
(***************************************************************************)
EXTENDS CurrentBuffer

CONSTANTS
  File,      \* bytes of the file on disk
  HasPath,   \* the buffer was opened from that file; else it is *scratch*
  BPL,       \* bytes per line (0x10 in the code)
  LoadSize   \* bytes loaded when the screen lacks some (64 in the code)

ASSUME ViewAssumption ==
  /\ File \in Seq(Bytes) /\ HasPath \in BOOLEAN
  /\ BPL \in Nat \ {0} /\ LoadSize \in Nat \ {0}

Screen(b, start, rows) == [b |-> b, start |-> start, rows |-> rows]

\* The screenful that is loaded at the start and by <C-e>.
ChunkSize(v) == v.rows * BPL

Loaded(v) == Len(v.b.data)

CaretOf(v) == MainRegion(v.b.sel).caret

\* A slip: the seek is missing.
LoadFirstChunk(b, size) ==
  IF HasPath THEN [b EXCEPT !.data = @ \o SubSeq(File, 1, Lesser(size, Len(File)))] ELSE b

\* CurrentBuffer::load_next_chunk: the file is read on from offset data.len().
LoadNextChunk(b, size) ==
  IF HasPath
  THEN [b EXCEPT !.data = @ \o SubSeq(File, Len(@) + 1, Lesser(Len(@) + size, Len(File)))]
  ELSE b

Load(v, size) == [v EXCEPT !.b = LoadNextChunk(@, size)]

\* visible_bytes: the cell after the last byte may be shown as well.
VisibleEnd(v) == Lesser(Loaded(v) + 1, v.start + ChunkSize(v))

EnsureVisibleData(v) == IF VisibleEnd(v) > Loaded(v) THEN Load(v, LoadSize) ELSE v

\* Which regions reach the part of the buffer from start to end.
RegionsInRange(regions, start, end) ==
  {i \in DOMAIN regions : RMax(regions[i]) >= start /\ RMin(regions[i]) <= end}

\* What can panic in a repaint.  A window past the end shows no bytes, and its
\* end lies before its start: regions_in_range then slices backwards if a region
\* lies between the two.  The byte properties panel slices four of the bytes
\* shown, at the caret of the first region flagged main that reaches the screen,
\* which panics off the screen.
DrawPanics(v) ==
  LET regions == v.b.sel.regions
      end     == VisibleEnd(v)
      flagged == {i \in RegionsInRange(regions, v.start, end) : regions[i].main}
  IN \/ \E i \in DOMAIN regions : end < RMin(regions[i]) /\ RMax(regions[i]) < v.start
     \/ \E i \in flagged :
          /\ \A j \in flagged : i <= j
          /\ \/ regions[i].caret < v.start
             \/ regions[i].caret > Greater(v.start, Lesser(end, Loaded(v)))

CrashScreen(v) == [v EXCEPT !.b = Crash(@)]

\* draw, and draw_rows, which differ in the rows they paint.  Both pad the screen
\* until the panel is painted, and so never end on a terminal with fewer rows than
\* the panel has: such terminals are left out (rows is taken to be enough).
Draw(v) ==
  IF v.b.panic THEN v
  ELSE LET w == EnsureVisibleData(v)
       IN IF DrawPanics(w) THEN CrashScreen(v) ELSE w

-----------------------------------------------------------------------------
(* Scrolling.                                                              *)

ShouldTrim(v) == Loaded(v) > 3 * ChunkSize(v)

\* trim_buffer_top, which only remembers the bytes it took from the top of the
\* buffer in start, if at all.
Trim(v) ==
  IF ShouldTrim(v)
  THEN [v EXCEPT !.b.data = SubSeq(@, ChunkSize(v) + 1, Len(@)),
                 !.start = Greater(0, @ - ChunkSize(v))]
  ELSE v

\* The next position is computed before the buffer is trimmed.
ScrollDownBy(v, line_count) ==
  LET next_position == v.start + line_count * BPL
      lacking == next_position + (v.rows + 1) * BPL > Loaded(v)
      more    == IF lacking THEN Load(v, LoadSize) ELSE v
      w       == IF Loaded(more) > Loaded(v) THEN Trim(more) ELSE v
  IN IF next_position >= Loaded(w) THEN w ELSE Draw([w EXCEPT !.start = next_position])

ScrollUpBy(v, line_count) ==
  IF v.start < line_count * BPL THEN v ELSE Draw([v EXCEPT !.start = @ - line_count * BPL])

\* Lines that hold so many bytes.
LinesFor(bytes) == (bytes + BPL - 1) \div BPL

\* A slip: the number of lines to scroll down is rounded the wrong way.
UpdateOffsetEarly(v) ==
  IF Loaded(v) = 0 THEN [v EXCEPT !.start = 0]
  ELSE IF CaretOf(v) < v.start THEN ScrollUpBy(v, LinesFor(v.start - CaretOf(v)))
  ELSE IF CaretOf(v) >= VisibleEnd(v) THEN ScrollDownBy(v, (CaretOf(v) - VisibleEnd(v) + 1) \div BPL)
  ELSE v

MaybeUpdateOffset(v) ==
  IF Loaded(v) = 0 THEN [v EXCEPT !.start = 0]
  ELSE IF CaretOf(v) < v.start THEN ScrollUpBy(v, LinesFor(v.start - CaretOf(v)))
  ELSE IF CaretOf(v) >= VisibleEnd(v) THEN ScrollDownBy(v, LinesFor(CaretOf(v) - VisibleEnd(v) + 1))
  ELSE v

\* A slip: the screen begins with the caret, not with its line.
OffsetAtCaret(v) ==
  LET line == CaretOf(v) - (CaretOf(v) % BPL)
  IN IF CaretOf(v) < v.start THEN CaretOf(v)
     ELSE IF CaretOf(v) >= VisibleEnd(v) THEN Greater(0, line + BPL - ChunkSize(v))
     ELSE v.start

\* maybe_update_offset_and_draw, without the drawing.
OffsetOfCaret(v) ==
  LET line == CaretOf(v) - (CaretOf(v) % BPL)
  IN IF CaretOf(v) < v.start THEN line
     ELSE IF CaretOf(v) >= VisibleEnd(v) THEN Greater(0, line + BPL - ChunkSize(v))
     ELSE v.start

-----------------------------------------------------------------------------
(* What follows a transition (transition_dirty_bytes): the selection       *)
(* changed, or the bytes did.                                              *)

ChangeInPlace(v) == IF v.b.panic THEN v ELSE Draw(MaybeUpdateOffset(v))

ChangeLength(v) == IF v.b.panic THEN v ELSE Draw([v EXCEPT !.start = OffsetOfCaret(v)])

-----------------------------------------------------------------------------
(* Events no mode handles (handle_event_default).                          *)

MoveCarets(v, dir) ==
  [v EXCEPT !.b = MapBuffer(@, LAMBDA r : SimpleMove(r, dir, BPL, Loaded(v), 1))]

ScrollDown(v) ==
  LET w == MoveCarets(Load(v, ChunkSize(v)), "Down")
  IN IF w.b.panic THEN w ELSE Draw(ScrollDownBy(w, 1))

ScrollUp(v) ==
  LET w == MoveCarets(v, "Up")
  IN IF w.b.panic THEN w ELSE Draw(ScrollUpBy(w, 1))
=============================================================================
