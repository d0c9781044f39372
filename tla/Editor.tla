------------------------------- MODULE Editor -------------------------------
(***************************************************************************)
(* The interactive editor: the event loop of src/hex_view/view.rs handing  *)
(* one key at a time to the mode in force (src/modes/*.rs), which edits    *)
(* the current buffer and says what comes next; then the view redraws.     *)
(*                                                                         *)
(* Keys are named by their character, by the name of their KeyCode, or     *)
(* with "alt " or "ctrl " before the character.  Keys is the part of the   *)
(* keyboard a model uses: every key behaves as in the code, the others are *)
(* not pressed.  Prompted commands (':') belong to another specification.  *)
(*                                                                         *)
(* A panic ends the program: release builds abort.  Terminal I/O is left   *)
(* out.                                                                    *)
(***************************************************************************)
EXTENDS Pattern, CmdCount, View

CONSTANTS
  Keys,        \* the keys pressed; "Resize" stands for a terminal resize
  Utf8,        \* for each character typed as text its UTF-8 encoding,
  CodeByte,    \* the low byte of its code point,
  ShiftKeys,   \* and the character keys that arrive with the SHIFT modifier
  Heights,     \* rows the terminal may have for bytes, enough for the panel
  MaxLen,      \* longest buffer
  MaxCount,    \* greatest count typed
  MaxHistory,  \* most history entries
  MaxPattern   \* longest search pattern

CharKeys == DOMAIN Utf8

\* The keys that are no plain character.
OtherKeys == {"Esc", "Enter", "Backspace", "Delete", "Left", "Right", "Up", "Down",
              "ctrl e", "ctrl n", "ctrl o", "ctrl w", "ctrl y", "alt s", "alt ;", "alt ", "Resize"}

ASSUME EditorAssumption ==
  /\ Utf8 \in [CharKeys -> Seq(Bytes)]
  /\ CodeByte \in [CharKeys -> Bytes]
  /\ ShiftKeys \subseteq CharKeys
  /\ Heights \subseteq Nat \ {0}
  /\ {MaxLen, MaxCount, MaxHistory, MaxPattern} \subseteq Nat

VARIABLES buf,     \* the current buffer
          mode,    \* the mode in force, with the data it owns
          start,   \* offset of the first byte on the screen (start_offset)
          rows     \* rows of the screen, without the status line

vars == << buf, mode, start, rows >>

NoHalf == -1   \* hex_half is None

NormalMode(count)             == [name |-> "Normal", count |-> count]
JumpToMode(extend)            == [name |-> "JumpTo", extend |-> extend]
SplitMode(count)              == [name |-> "Split", count |-> count]
InsertMode(kind, hex, half)   == [name |-> "Insert", kind |-> kind, hex |-> hex, half |-> half]
ReplaceMode(hex, half)        == [name |-> "Replace", hex |-> hex, half |-> half]
SearchMode(next, hex, half, pattern, cursor) ==
  [name |-> "Search", next |-> next, hex |-> hex, half |-> half,
   pattern |-> pattern, cursor |-> cursor]
Crashed                       == [name |-> "Crashed"]

Normal == NormalMode(NoCount)

Size  == Len(buf.data)
Count == ToCount(mode.count)

\* The letters of a hex digit may be capitals.
HexDigit ==
  LET capital == [A |-> 10, B |-> 11, C |-> 12, D |-> 13, E |-> 14, F |-> 15]
  IN [k \in DOMAIN Digit \cup DOMAIN capital |-> IF k \in DOMAIN Digit THEN Digit[k] ELSE capital[k]]

\* The direction each key stands for.
ArrowDir  == [Left |-> "Left", Right |-> "Right", Up |-> "Up", Down |-> "Down"]
MoveDir   == [Left |-> "Left", Right |-> "Right", Up |-> "Up", Down |-> "Down",
              h |-> "Left", j |-> "Down", k |-> "Up", l |-> "Right"]
ExtendDir == [H |-> "Left", J |-> "Down", K |-> "Up", L |-> "Right"]

\* main reads one screenful of the file, and the event loop begins by drawing.
Init ==
  /\ rows \in Heights
  /\ start = 0
  /\ buf = LET v == Screen(NewBuffer(<< >>), 0, rows)
           IN Draw(Load(v, ChunkSize(v))).b
  /\ mode = Normal

-----------------------------------------------------------------------------
(* The view's part of a transition.                                        *)

WithinBounds(b) ==
  /\ Len(b.data) <= MaxLen
  /\ Len(b.hist.undo) + Len(b.hist.redo) + Len(b.hist.partial) <= MaxHistory

Become(m, v) ==
  \/ v.b.panic /\ mode' = Crashed /\ UNCHANGED << buf, start, rows >>
  \/ /\ ~v.b.panic /\ WithinBounds(v.b)
     /\ mode' = m /\ buf' = v.b /\ start' = v.start /\ rows' = v.rows

Seen(b) == Screen(b, start, rows)

\* ModeTransition::DirtyBytes and ModeAndDirtyBytes repaint the bytes, after the
\* selection or the bytes have changed; NewMode, ModeAndInfo and None do not.
Repaint(m, b)    == Become(m, ChangeInPlace(Seen(b)))
RepaintAll(m, b) == Become(m, ChangeLength(Seen(b)))
Quiet(m, b)      == Become(m, Seen(b))

-----------------------------------------------------------------------------
(* Normal mode (src/modes/normal.rs).  The count takes its keys first.     *)

NormalCount(k) ==
  /\ mode.name = "Normal"
  /\ CountHandles(mode.count, k)
  /\ CountUpdate(mode.count, k).count <= MaxCount
  /\ Quiet(NormalMode(CountUpdate(mode.count, k)), buf)

NormalKey(k) == mode.name = "Normal" /\ ~CountHandles(mode.count, k)

NormalMove(k) ==
  /\ NormalKey(k) /\ k \in DOMAIN MoveDir
  /\ Repaint(Normal, MapBuffer(buf, LAMBDA r : SimpleMove(r, MoveDir[k], BPL, Size, Count)))

NormalExtend(k) ==
  /\ NormalKey(k) /\ k \in DOMAIN ExtendDir
  /\ Repaint(Normal, MapBuffer(buf, LAMBDA r : SimpleExtend(r, ExtendDir[k], BPL, Size, Count)))

\* With a count g and G go to that offset at once, wherever it is.
NormalJump(k) ==
  /\ NormalKey(k) /\ k \in {"g", "G"}
  /\ \/ ~mode.count.some /\ Quiet(JumpToMode(k = "G"), buf)
     \/ /\ mode.count.some
        /\ Repaint(Normal, MapBuffer(buf, LAMBDA r :
             IF k = "g" THEN JumpTo(r, Count) ELSE ExtendTo(r, Count)))

NormalInsert(k) ==
  /\ NormalKey(k) /\ k \in {"i", "I"}
  /\ Repaint(InsertMode("Insert", k = "I", NoHalf), MapBuffer(buf, ToBackward))

NormalAppend(k) ==
  /\ NormalKey(k) /\ k \in {"a", "A"}
  /\ Repaint(InsertMode("Append", k = "A", NoHalf),
       MapBuffer(buf, LAMBDA r : SimpleExtend(ToForward(r), "Right", BPL, Size, 1)))

\* Modes entered without touching the buffer.
NormalSwitch(k) ==
  /\ NormalKey(k)
  /\ \/ k \in {"o", "O"} /\ Quiet(InsertMode("Overwrite", k = "O", NoHalf), buf)
     \/ k \in {"r", "R"} /\ Quiet(ReplaceMode(k = "R", NoHalf), buf)
     \/ k \in {"s", "S"} /\ Quiet(SearchMode("Collapse", k = "S", NoHalf, << >>, 0), buf)
     \/ k = "alt s" /\ Quiet(SplitMode(NoCount), buf)
     \/ k = "M" /\ Quiet(Normal, buf)

\* These repaint without a new mode, and so leave the count standing.
NormalShape(k) ==
  /\ NormalKey(k)
  /\ \/ k = "alt ;" /\ Repaint(mode, MapBuffer(buf, SwapCaret))
     \/ k = ";" /\ Repaint(mode, MapBuffer(buf, Collapse))
     \/ k = "%" /\ Repaint(mode, [buf EXCEPT !.sel = SelectAll(@, Size)])

NormalYank(k) == NormalKey(k) /\ k = "y" /\ Quiet(mode, YankSelections(buf))

DeleteSelected(b) ==
  LET yanked == YankSelections(b)
  IN IF yanked.panic \/ b.data = << >> THEN yanked
     ELSE BufApplyDelta(yanked, Deletion(b.data, b.sel))

NormalDelete(k) ==
  /\ NormalKey(k) /\ k = "d"
  /\ \/ Size # 0 /\ RepaintAll(mode, DeleteSelected(buf))
     \/ Size = 0 /\ Quiet(mode, DeleteSelected(buf))

NormalChange(k) ==
  /\ NormalKey(k) /\ k \in {"c", "C"}
  /\ LET inserting == InsertMode("Insert", k = "C", NoHalf)
     IN \/ Size # 0 /\ RepaintAll(inserting, DeleteSelected(buf))
        \/ Size = 0 /\ Quiet(inserting, DeleteSelected(buf))

PasteRegister(b, after, count) ==
  BufApplyDelta(b, Paste(b.data, b.sel, b.reg, after, count))

NormalPaste(k) ==
  /\ NormalKey(k) /\ k \in {"p", "P"}
  /\ RepaintAll(mode, PasteRegister(buf, k = "p", Count))

\* With a positive count: the selection of that number, counted from 1, and the
\* count is cleared.  Without: the main one, and the count stands.
NormalPick(k) ==
  /\ NormalKey(k) /\ k \in {" ", "alt "}
  /\ LET picked(i) == IF k = " " THEN RetainSelection(buf, i) ELSE RemoveSelection(buf, i)
     IN \/ mode.count.count > 0 /\ Repaint(Normal, picked(mode.count.count - 1))
        \/ mode.count.count = 0 /\ Repaint(mode, picked(buf.sel.main_selection))

NormalCycle(k) ==
  /\ NormalKey(k) /\ k \in {"(", ")"}
  /\ Repaint(Normal, [buf EXCEPT !.sel =
       IF k = ")" THEN SelectNext(@, Count) ELSE SelectPrev(@, Count)])

NormalUndo(k) ==
  /\ NormalKey(k) /\ k = "u"
  /\ \/ buf.hist.undo # << >> /\ RepaintAll(Normal, PerformUndo(buf))
     \/ buf.hist.undo = << >> /\ Quiet(Normal, buf)

NormalRedo(k) ==
  /\ NormalKey(k) /\ k = "U"
  /\ \/ buf.hist.redo # << >> /\ RepaintAll(Normal, PerformRedo(buf))
     \/ buf.hist.redo = << >> /\ Quiet(Normal, buf)

NormalStep(k) ==
  \/ NormalCount(k) \/ NormalMove(k) \/ NormalExtend(k) \/ NormalJump(k)
  \/ NormalInsert(k) \/ NormalAppend(k) \/ NormalSwitch(k) \/ NormalShape(k)
  \/ NormalYank(k) \/ NormalDelete(k) \/ NormalChange(k) \/ NormalPaste(k)
  \/ NormalPick(k) \/ NormalCycle(k) \/ NormalUndo(k) \/ NormalRedo(k)

-----------------------------------------------------------------------------
(* Jump, split and replace: one key, then back to normal.                  *)

\* src/modes/jumpto.rs.  Any other key just leaves the mode.
JumpToStep(k) ==
  /\ mode.name = "JumpTo" /\ k # "Resize"
  /\ \/ /\ k \in DOMAIN MoveDir
        /\ Repaint(Normal, MapBuffer(buf, LAMBDA r :
             IF mode.extend THEN ExtendToBoundary(r, MoveDir[k], BPL, Size)
             ELSE JumpToBoundary(r, MoveDir[k], BPL, Size)))
     \/ k \notin DOMAIN MoveDir /\ Quiet(Normal, buf)

Width == [b |-> 1, w |-> 2, d |-> 4, q |-> 8, o |-> 16]

SplitCount(k) ==
  /\ mode.name = "Split" /\ CountHandles(mode.count, k)
  /\ CountUpdate(mode.count, k).count <= MaxCount
  /\ Quiet(SplitMode(CountUpdate(mode.count, k)), buf)

\* What apply_search does with a finished pattern.  The slices of the regions
\* are taken before the matches are counted.
Accept(next, pattern) ==
  LET refuses == IF next = "Split" THEN SplitRefuses(buf, pattern)
                 ELSE CollapseRefuses(buf, pattern)
      applied == IF next = "Split" THEN SplitSearch(buf, pattern)
                 ELSE CollapseSearch(buf, pattern)
  IN \/ pattern # << >> /\ SlicePanics(buf) /\ Quiet(Normal, Crash(buf))
     \/ pattern = << >> /\ Quiet(Normal, buf)
     \/ /\ pattern # << >> /\ ~SlicePanics(buf)
        /\ \/ refuses /\ Quiet(Normal, buf)
           \/ ~refuses /\ Repaint(Normal, applied)

\* src/modes/split.rs
SplitStep(k) ==
  /\ mode.name = "Split" /\ ~CountHandles(mode.count, k) /\ k # "Resize"
  /\ \/ k \in DOMAIN Width /\ Repaint(Normal, SplitWidth(buf, Width[k] * Count))
     \/ k = "n" /\ Accept("Split", [i \in 1 .. Count |-> 0])
     \/ k \in {"/", "?"} /\ Quiet(SearchMode("Split", k = "?", NoHalf, << >>, 0), buf)
     \/ k \notin DOMAIN Width \cup {"n", "/", "?"} /\ Quiet(Normal, buf)

ReplaceSelected(ch) == RepaintAll(Normal, BufApplyDelta(buf, Replace(buf.data, buf.sel, ch)))

\* src/modes/replace.rs
ReplaceStep(k) ==
  /\ mode.name = "Replace" /\ k # "Resize"
  /\ \/ k = "ctrl n" /\ ReplaceSelected(0)
     \/ k \in CharKeys /\ ~mode.hex /\ ReplaceSelected(CodeByte[k])
     \/ /\ k \in DOMAIN HexDigit /\ mode.hex
        /\ \/ mode.half = NoHalf /\ Quiet(ReplaceMode(TRUE, 16 * HexDigit[k]), buf)
           \/ mode.half # NoHalf /\ ReplaceSelected(mode.half + HexDigit[k])
     \/ /\ k # "ctrl n" /\ k \notin (IF mode.hex THEN DOMAIN HexDigit ELSE CharKeys)
        /\ Quiet(Normal, buf)

-----------------------------------------------------------------------------
(* Insert, append and overwrite (src/modes/insert.rs).                     *)

\* transition_ascii_insertion
AsciiInsertion(b, kind, text) ==
  ApplyIncompleteDelta(b, IF kind = "Overwrite" THEN Change(b.data, b.sel, text)
                          ELSE Insert(b.data, b.sel, text))

\* A slip: the first digit does not take the caret back to its byte.
HexInsertionAhead(b, kind, half, digit) ==
  ApplyIncompleteDelta(b,
    IF half # NoHalf THEN Change(b.data, b.sel, << half + digit >>)
    ELSE IF kind = "Overwrite" THEN OverwriteHalf(b.data, b.sel, 16 * digit)
    ELSE Insert(b.data, b.sel, << 16 * digit >>))

\* transition_hex_insertion: the first digit leaves the caret on the byte it
\* made, the second completes that byte.
HexInsertion(b, kind, half, digit) ==
  IF half = NoHalf
  THEN ApplyIncompleteDeltaOffsetCarets(b,
         IF kind = "Overwrite" THEN OverwriteHalf(b.data, b.sel, 16 * digit)
         ELSE Insert(b.data, b.sel, << 16 * digit >>), -1, 0)
  ELSE ApplyIncompleteDelta(b, Change(b.data, b.sel, << half + digit >>))

InsertKey == mode.name = "Insert"
Resume    == InsertMode(mode.kind, mode.hex, NoHalf)

\* A slip: the insertion is not committed.
ExitUncommitted(k) == InsertKey /\ k = "Esc" /\ Quiet(Normal, buf)

InsertExit(k) == InsertKey /\ k = "Esc" /\ Quiet(Normal, CommitDelta(buf))

InsertNull(k) ==
  /\ InsertKey /\ k = "ctrl n"
  /\ RepaintAll(Resume, ApplyIncompleteDelta(buf, Insert(buf.data, buf.sel, << 0 >>)))

InsertSwitch(k) ==
  /\ InsertKey /\ k = "ctrl o"
  /\ Quiet(InsertMode(mode.kind, ~mode.hex, NoHalf), buf)

InsertRemove(k) ==
  /\ InsertKey /\ k \in {"Backspace", "Delete"}
  /\ LET edits == IF k = "Delete" \/ mode.half # NoHalf THEN DeleteCursor(buf.data, buf.sel)
                  ELSE Backspace(buf.data, buf.sel)
     IN \/ Size = 0 /\ Quiet(mode, buf)
        \/ Size # 0 /\ RepaintAll(Resume, ApplyIncompleteDelta(buf, edits))

\* Moving away from half a byte first completes it with a zero.
InsertMove(k) ==
  /\ InsertKey /\ k \in DOMAIN ArrowDir
  /\ LET done == IF mode.half = NoHalf THEN buf
                 ELSE HexInsertion(buf, mode.kind, mode.half, 0)
         n == Len(done.data)
         moved(r) == SimpleMove(r, ArrowDir[k], BPL, n, 1)
         back(r)  == IF mode.half = NoHalf THEN moved(r)
                     ELSE SimpleMove(moved(r), "Left", BPL, n, 1)
     IN Repaint(Resume, MapBuffer(done, back))

\* A slip: the first digit is kept unshifted.
InsertUnshifted(k) ==
  /\ InsertKey /\ k \in CharKeys \cap DOMAIN HexDigit /\ mode.hex
  /\ RepaintAll(InsertMode(mode.kind, TRUE, IF mode.half = NoHalf THEN HexDigit[k] ELSE NoHalf),
             HexInsertion(buf, mode.kind, mode.half, HexDigit[k]))

InsertChar(k) ==
  /\ InsertKey /\ k \in CharKeys
  /\ \/ ~mode.hex /\ RepaintAll(mode, AsciiInsertion(buf, mode.kind, Utf8[k]))
     \/ /\ mode.hex /\ k \in DOMAIN HexDigit
        /\ RepaintAll(InsertMode(mode.kind, TRUE, IF mode.half = NoHalf THEN 16 * HexDigit[k] ELSE NoHalf),
                   HexInsertion(buf, mode.kind, mode.half, HexDigit[k]))

InsertStep(k) ==
  \/ InsertExit(k) \/ InsertNull(k) \/ InsertSwitch(k)
  \/ InsertRemove(k) \/ InsertMove(k) \/ InsertChar(k)

-----------------------------------------------------------------------------
(* The search prompt (src/modes/search.rs).                                *)

Prompt(hex, half, pattern, cursor) ==
  /\ Len(pattern) <= MaxPattern
  /\ Quiet(SearchMode(mode.next, hex, half, pattern, cursor), buf)

\* Where an action acts: half a byte is left as it is and skipped.
PromptCursor == IF mode.half = NoHalf THEN mode.cursor ELSE mode.cursor + 1

SearchInsert(k) ==
  /\ mode.name = "Search" /\ k \in {"ctrl n", "ctrl w"}
  /\ Prompt(mode.hex, NoHalf,
       InsertAt(mode.pattern, PromptCursor + 1, IF k = "ctrl n" THEN 0 ELSE Wildcard),
       PromptCursor + 1)

\* A slip: erasing a piece does not move the cursor.
RemoveInPlace(k) ==
  /\ mode.name = "Search" /\ k = "Backspace" /\ PromptCursor # 0
  /\ Prompt(mode.hex, NoHalf, RemoveAt(mode.pattern, PromptCursor), PromptCursor)

SearchRemove(k) ==
  /\ mode.name = "Search"
  /\ \/ /\ k = "Backspace" /\ PromptCursor # 0
        /\ Prompt(mode.hex, NoHalf, RemoveAt(mode.pattern, PromptCursor), PromptCursor - 1)
     \/ /\ k = "Delete"
        /\ Prompt(mode.hex, NoHalf,
             IF PromptCursor < Len(mode.pattern) THEN RemoveAt(mode.pattern, PromptCursor + 1)
             ELSE mode.pattern, PromptCursor)

SearchCursor(k) ==
  /\ mode.name = "Search"
  /\ \/ k = "Left"  /\ Prompt(mode.hex, NoHalf, mode.pattern, Greater(0, PromptCursor - 1))
     \/ k = "Right" /\ Prompt(mode.hex, NoHalf, mode.pattern,
                              Lesser(Len(mode.pattern), PromptCursor + 1))
     \/ k = "ctrl o" /\ Prompt(~mode.hex, NoHalf, mode.pattern, PromptCursor)

SearchChar(k) ==
  /\ mode.name = "Search" /\ k \in CharKeys \ ShiftKeys
  /\ LET at == mode.cursor + 1
     IN \/ /\ ~mode.hex
           /\ Prompt(FALSE, mode.half, InsertAt(mode.pattern, at, CodeByte[k]), at)
        \/ /\ mode.hex /\ k \in DOMAIN HexDigit /\ mode.half = NoHalf
           /\ Prompt(TRUE, 16 * HexDigit[k],
                     InsertAt(mode.pattern, at, 16 * HexDigit[k]), mode.cursor)
        \/ /\ mode.hex /\ k \in DOMAIN HexDigit /\ mode.half # NoHalf
           /\ Prompt(TRUE, NoHalf, [mode.pattern EXCEPT ![at] = mode.half + HexDigit[k]], at)

SearchLeave(k) ==
  /\ mode.name = "Search"
  /\ \/ k = "Esc" /\ Quiet(Normal, buf)
     \/ k = "Enter" /\ Accept(mode.next, mode.pattern)

SearchStep(k) ==
  SearchInsert(k) \/ SearchRemove(k) \/ SearchCursor(k) \/ SearchChar(k) \/ SearchLeave(k)

-----------------------------------------------------------------------------
(* Events no mode handles (handle_event_default).  Jump, split and replace *)
(* modes take every key.                                                   *)

Unhandled == mode.name \in {"Normal", "Insert", "Search"}

ScrollKey(k) ==
  /\ Unhandled
  /\ \/ k = "ctrl e" /\ Become(mode, ScrollDown(Seen(buf)))
     \/ k = "ctrl y" /\ Become(mode, ScrollUp(Seen(buf)))

Resize(k) ==
  /\ k = "Resize" /\ mode # Crashed
  /\ \E h \in Heights : Become(mode, Draw(Screen(buf, start, h)))

\* Where a character is text, only those of CharKeys are typed.
Pressed(k) == mode.name \in {"Insert", "Replace", "Search"} => k \in CharKeys \cup OtherKeys

Next == \E k \in Keys :
  /\ Pressed(k)
  /\ \/ NormalStep(k) \/ JumpToStep(k) \/ SplitCount(k) \/ SplitStep(k) \/ ReplaceStep(k)
     \/ InsertStep(k) \/ SearchStep(k) \/ ScrollKey(k) \/ Resize(k)

Spec == Init /\ [][Next]_vars

-----------------------------------------------------------------------------
(* Properties.                                                             *)

Regs == buf.sel.regions

\* Type correctness of the buffer and of the mode's own data.
TypeOK ==
  /\ buf.data \in Seq(Bytes)
  /\ Regs \in Seq(Regions) /\ Regs # << >>
  /\ buf.sel.main_selection \in 0 .. Len(Regs) - 1
  /\ buf.reg \in Seq(Seq(Bytes)) /\ buf.reg # << >>
  /\ buf.dirty \in BOOLEAN /\ ~buf.panic
  /\ start \in Nat /\ rows \in Heights
  /\ mode.name \in {"Normal", "JumpTo", "Split", "Insert", "Replace", "Search", "Crashed"}
  /\ mode.name \in {"Normal", "Split"} => mode.count \in CountStates
  /\ mode.name \in {"Insert", "Replace", "Search"} =>
       mode.half \in {NoHalf} \cup {16 * d : d \in 0 .. 15}

\* The INVARIANT comments of struct Selection: whatever the keys, the regions
\* stay sorted and do not overlap (map_selections, apply_delta, remove).
RegionsSortedDisjoint == SortedDisjoint(Regs)

\* The main selection carries the main flag, by which the view finds it.
MainIsFlagged == MainRegion(buf.sel).main

\* No other region does, so the view finds no other (draw_rows takes the first).
OnlyMainIsFlagged ==
  \A i \in DOMAIN Regs : Regs[i].main => i = buf.sel.main_selection + 1

\* No caret and no tail ever lies beyond the cell after the last byte.
CaretsInBuffer == \A i \in DOMAIN Regs : RMax(Regs[i]) <= Size

\* Between the two digits of a hex insertion, every caret sits on a byte that
\* holds the first digit (transition_hex_insertion completes the byte there).
HalfByteUnderCaret ==
  mode.name = "Insert" /\ mode.half # NoHalf =>
    \A i \in DOMAIN Regs :
      /\ Regs[i].caret < Size
      /\ buf.data[Regs[i].caret + 1] \div 16 = mode.half \div 16

\* An insertion is open only in insert mode: no final delta, undo or redo can
\* come before commit_delta has closed it.
PartialOnlyInserting == buf.hist.partial # << >> => mode.name \in {"Insert", "Crashed"}

\* The keys of the model never bring the program down.
NeverPanics == mode # Crashed

\* A single selection within a buffer that is all on the screen is safe: only a
\* counted command can bring the program down from there (merge needs two
\* regions, a slice or a repaint a caret beyond the end, step_by a count of zero,
\* and chain an insertion during which bytes were loaded).
LoneSelectionIsSafe ==
  [][mode' = Crashed /\ Len(Regs) = 1 /\ CaretsInBuffer
       /\ start = 0 /\ Size < ChunkSize(Seen(buf)) /\ ~ChainPanics(buf.hist, buf.data) =>
       mode.name \in {"Normal", "Split"} /\ mode.count.some]_vars

\* Undo followed by redo gives back the bytes and the selection exactly.
UndoRedoRoundTrip ==
  mode.name = "Normal" /\ buf.hist.undo # << >> =>
    LET again == PerformRedo(PerformUndo(buf))
    IN again.data = buf.data /\ again.sel = buf.sel /\ again.hist = buf.hist

\* The offsets a selection covers, of those the buffer has.
Covered(sel, data) ==
  {o \in 0 .. Len(data) - 1 :
     \E i \in DOMAIN sel.regions : RMin(sel.regions[i]) <= o /\ o <= RMax(sel.regions[i])}

\* What is left of the bytes when those at the given offsets are taken out.
Without(data, offsets) ==
  LET kept == SelectSeq([k \in DOMAIN data |-> k], LAMBDA k : k - 1 \notin offsets)
  IN [k \in DOMAIN kept |-> data[kept[k]]]

\* d takes the selected bytes out of the buffer and leaves all the others, also
\* once the view has repainted (README: "to delete selected data").
DeleteTakesOutSelected ==
  [][NormalDelete("d") /\ mode' # Crashed =>
       buf'.data = Without(buf.data, Covered(buf.sel, buf.data))]_vars

\* Pasting before the cursor what was just deleted restores the bytes, unless
\* the deletion made two selections one or emptied the buffer.
DeletePasteRoundTrip ==
  mode.name = "Normal" /\ buf.data # << >> /\ CaretsInBuffer =>
    LET deleted == DeleteSelected(buf)
    IN Len(deleted.sel.regions) = Len(Regs) /\ deleted.data # << >> =>
         PasteRegister(deleted, FALSE, 1).data = buf.data

\* Splitting at a pattern and collapsing to it share the selection out: what
\* one keeps of the selected bytes is what the other drops.
SearchSharesOut ==
  mode.name = "Search" /\ mode.pattern # << >> /\ CaretsInBuffer =>
    LET split    == SplitSearch(buf, mode.pattern)
        collapse == CollapseSearch(buf, mode.pattern)
    IN ~split.panic /\ ~collapse.panic =>
         /\ Covered(split.sel, buf.data) \cup Covered(collapse.sel, buf.data)
              = Covered(buf.sel, buf.data)
         /\ Covered(split.sel, buf.data) \cap Covered(collapse.sel, buf.data) = {}

\* The cursor of the search prompt stays within the pattern, on the half byte
\* while one is being typed (Pattern::insert_half_literal indexes there).
PromptCursorInPattern ==
  mode.name = "Search" =>
    /\ mode.cursor <= Len(mode.pattern)
    /\ mode.half # NoHalf => mode.cursor < Len(mode.pattern)
                             /\ mode.pattern[mode.cursor + 1] = mode.half

-----------------------------------------------------------------------------
(* The window.                                                             *)

\* The screen begins at the start of a line and within the buffer, or on the
\* cell after it: draw shows nothing of a buffer that ends before.
WindowInBuffer == start % BPL = 0 /\ start <= Size

\* The main caret is on the screen after every key (maybe_update_offset), unless
\* it is on the cell after a last line that is full, which has no row.
MainCaretVisible ==
  LET caret == MainRegion(buf.sel).caret
  IN caret < Size \/ Size % BPL # 0 => start <= caret /\ caret < VisibleEnd(Seen(buf))

\* As long as nothing is edited, the bytes loaded are the first of the file:
\* every chunk is read on from where the last one ended (load_next_chunk).
UneditedIsFile == ~buf.dirty => buf.data = SubSeq(File, 1, Size)

\* trim_buffer_top, "essential for maintaining a sliding window view of large
\* files": what is loaded of an unedited file is a part of it, in one piece.
SlidingWindow ==
  ~buf.dirty => \E k \in 0 .. Len(File) - Size : buf.data = SubSeq(File, k + 1, k + Size)

-----------------------------------------------------------------------------
(* The editor's buffer implements the undo history of module UndoHistory.  *)

\* The contents each entry of a stack leads to, newest entry first applied.
Reached(stack, from) ==
  LET n == Len(stack)
      to[k \in 1 .. n] ==
        ApplyDelta(IF k = n THEN from ELSE to[k + 1], stack[k].delta)
  IN to

AsEntries(stack, from) ==
  LET n == Len(stack)
      to == Reached(stack, from)
  IN [k \in 1 .. n |-> [from |-> IF k = n THEN from ELSE to[k + 1],
                        to |-> to[k], sel |-> stack[k].sel]]

BaseVersion ==
  IF buf.hist.partial = << >> THEN buf.data
  ELSE ApplyDelta(buf.data, buf.hist.partial[1].delta)

SelectionFits(data, sel) == \A i \in DOMAIN sel.regions : RMax(sel.regions[i]) <= Len(data)

Undoing == INSTANCE UndoHistory WITH
  Content    <- Seq(Bytes),
  Selections <- [regions : Seq(Regions), main_selection : Nat],
  Fits       <- SelectionFits,
  data       <- buf.data,
  sel        <- buf.sel,
  dirty      <- buf.dirty,
  partial    <- AsEntries(buf.hist.partial, buf.data),
  undo       <- AsEntries(buf.hist.undo, BaseVersion),
  redo       <- AsEntries(buf.hist.redo, BaseVersion)

\* Deltas, inverted and chained and applied again, behave as the entries of
\* UndoHistory do: each leads exactly back to the version it was made from,
\* and the selection it restores lies within that version.
HistoryImplemented == Undoing!Spec
=============================================================================
