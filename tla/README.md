# tofu: a TLA+ model of the hex editor

`tofu` (`src/src`) is an interactive, Kakoune-like hex editor: a list of selected
regions instead of one cursor, modes that take one key at a time, a rope for the
bytes, an undo history made of rope deltas, and a view that loads the file chunk
by chunk as it repaints. The program has one thread and no messages. What makes
it hard is the length of the sequences of keys: every key of every mode acts on the same
bytes, selection and history, and most mistakes need several keys, several cursors,
or an edit and a repaint, before they show.

The project models the whole program but for what it draws: regions, selections,
deltas, the undo history, the current buffer, the modes and the view's event loop
with its window on the file; and, in a second state machine, the open buffers, the
command prompt and the files on disk. TLC checks both step by step on small
instances. TLAPS proves, for values of every size: that inverting and chaining deltas do what undo
needs; that the undo history is one line of versions; that `map_selections` keeps regions sorted and
disjoint; that every key of every mode keeps the editor's buffer, history, selection and window well
formed; and that the collection of buffers loses nothing.

## 1. The system

| component | source | state | operations |
|---|---|---|---|
| one region | `selection.rs` (`SelRegion`) | caret, tail, main flag | move, extend, jump, turn, merge, overlap |
| the selection | `selection.rs` (`Selection`) | sorted regions, index of the main one | `map_selections`, `apply_delta`, select all, next, previous, remove, retain |
| delta builders | `operations.rs` | none | deletion, backspace, delete cursor, insert, change, overwrite half, replace, paste |
| history | `history.rs` | undo and redo stacks, the open insertion (`partial`) | final and partial edits, commit, undo, redo; inverting and chaining deltas |
| current buffer | `current_buffer.rs` | path, bytes, selection, registers, dirty flag, history | apply a delta (final or partial), undo, redo, yank, load the next chunk |
| buffer collection | `current_buffer.rs` (`BuffrCollection`) | list of buffers, current index; the files on disk | open or switch, delete |
| counts | `cmd_count.rs` | none, or a number and its base | digits, `x`, backspace, escape |
| normal mode | `modes/normal.rs` | a count | everything that is one key |
| insert, append, overwrite | `modes/insert.rs` | kind, hex or ascii, the half byte typed | type, erase, move, switch, leave |
| replace, jump, split, collapse | `modes/{replace,jumpto,split,collapse}.rs` | half byte, extend flag, count | one command, then normal mode |
| search prompt | `modes/search.rs` | pattern, cursor, hex, half byte, next mode | edit the pattern, accept, leave |
| command prompt | `modes/command.rs` | command line, cursor in bytes | type, erase, move; quit, write, write all, write and quit, edit, delete buffer |
| view | `hex_view/view.rs` | mode, scroll offset, size | dispatch an event, apply a transition, load data, scroll, trim, draw |
| rope | `byte_rope.rs`, crate `xi-rope` | tree of leaves | slice, apply a delta |
| start-up | `bin/tofu.rs` | | open the arguments |

**Interaction.** `run_event_loop` gives one event to the mode in force. The mode
reads and edits the current buffer through `BuffrCollection`, and returns a
transition: a new mode, bytes to repaint, both, or nothing. A repaint first calls
`load_next_chunk`, which appends bytes of the file to the rope, and then slices the
bytes under the main caret. An event that the mode leaves alone may scroll the view,
which also loads data and moves every caret.

**What is hard.**

- `map_selections` merges only neighbours, and `merge` panics on regions that go
  in different directions: its callers have to keep the regions sorted and turned
  the same way.
- The main selection is recorded twice: as an index, and as a flag on a region.
- The cell after the last byte is a legal place for a caret, and every operation
  has its own edge there.
- The inverse deltas of an insertion are chained keystroke by keystroke; undo
  applies them much later and checks nothing.
- The bytes also change without the history knowing, when the view loads more.
- Half bytes, pattern cursors and counts are remembered from one key to the next.
- The window follows the caret in two different ways, loads and trims on the way, and the
  repaint slices the bytes where it believes the window to be.
- Writing is not atomic: `fs::write` empties the file before it fills it, the commands for all
  buffers stop at the first error, and the same file may be open under several names, be
  named in `:w`, or be removed by another program.
- The command line's cursor moves by characters when typing and by bytes when erasing.

**What makes a component correct.**

- *Selection*: regions sorted and disjoint, the main flag on exactly the main
  region, no caret beyond the cell after the last byte, no panic.
- *Deltas and history*: the inverse of an edit, alone or chained, leads back to the
  bytes it was made from; undo and redo move along one line of versions; the
  selection they restore lies within what they restore.
- *Modes*: an open insertion never survives its mode; a half byte stays under its
  caret; the prompt's cursor stays in its pattern; delete, paste, split and
  collapse do what the manual says.
- *View and file*: chunks are loaded in their places, loading does not undo an edit or break a
  stored selection, the window shows the main caret and stays within the bytes.
- *Prompted commands and disk*: nothing unsaved is dropped without `!`; a buffer is clean only
  when its bytes are on disk; a failure half-way leaves the rest dirty; one buffer per file; every
  write ends; the prompt does not panic.

## 2. The modules

```
SelRegion <- Selection <- Delta <- History <- CurrentBuffer <- View <-------+
                            ^                      ^--- Pattern <-------- Editor <- MCEditor
                       DeltaSession                     CmdCount <----------+  |
                            ^                                                  | implements
                      MCDeltaSession                                           v
                                       UndoHistoryProofs -> UndoHistory <- MCUndoHistory
                                                               | implements
                                                               v
                                                          UndoTimeline

                    CommandLine <- BufferCollection <- MCBufferCollection
                                          ^----------- BufferCollectionProofs

RecursionLemmas <- DeltaProofs <- SelectionProofs <- EditorProofs <- EditorHistoryProofs
                       ^--- DeltaSessionProofs
(about Delta; Pattern and Selection; Editor; Editor and its history; DeltaSession)
```

- **SelRegion** has one operator per method of `SelRegion`. A region is a record of
  caret, tail and main flag. `MergePanics` says when `merge` panics.
- **Selection** has `map_selections` (`MapSelections`, `MapEach`) as its two loops (`MapUpTo` over the
  old regions, `PushUpTo` over what one of them becomes), with the merging, the main index and both
  panics, and the operations on the main selection.
- **Delta** writes a rope delta in the form `Delta::factor` gives it: the set of
  deleted offsets, and the bytes inserted at each gap. Its first part stands for the
  crate `xi-rope` (marked external in the map); then come the eight builders of
  `operations.rs`, and `Action::invert` and `Action::chain`, computed as the code
  does, by synthesising a delta from the union string.
- **History** has the operations of `History` on real deltas. `ChainPanics` says when chaining does: the
  open insertion was made for a buffer of another length.
- **CurrentBuffer** has the methods of `CurrentBuffer`, from buffer to buffer.
- **Pattern** matches a pattern in the selected bytes (`ScanUpTo`, one offset after the other), and has
  what `split` (`CutUpTo`, one match after the other) and `collapse` make of the matches.
- **CmdCount** is the count.
- **View** is the window of `HexView`: one operator per method that loads, trims, scrolls or
  slices, from screen to screen (buffer, first byte shown, rows). `Draw` stands for `draw` and
  `draw_rows`, with `ensure_visible_data` and the slices that can panic.
- **Editor** is the state machine. Its variables are the buffer `buf`, the `mode` with the data
  that mode owns, `start` (`start_offset`) and `rows` (the height of the terminal). There is one
  action per handler of each mode, and one per event that the view handles itself. `Repaint`,
  `RepaintAll` and `Quiet` are the kinds of transition: bytes or selection changed in place, the
  length changed, or nothing to repaint. The first two include everything the view does then. A
  panic leads to the mode `Crashed`, from which there is no step.
- **CommandLine** is the line after `:`, as bytes of which some start no character, with the panics
  of `String::insert` and `String::remove`.
- **BufferCollection** is the second state machine: the open buffers (`list`, `cur`), the files
  (`disk`), and the `mode`, which is at the keyboard, in the prompt, in the middle of a write, or at
  the end. There is one action per command, per key of the prompt, and per step of a write, one
  (`Change`) for whatever the other modes do to the current buffer, one (`Look`) for scrolling and
  resizing, and one for another program that removes a file. A write is two steps, `CreateFile` and
  `FillFile`, either of which may fail (`WriteFails`). A repaint may load the next chunk, and fails when the
  file is gone; the error goes to `main`, which unwraps it (`Failed`). `stray` is an auxiliary
  variable: the files that a clean buffer may differ from because of a failed write, a removal, or a
  write from another buffer. It only ever excuses such a file.
- **DeltaSession** follows only the newest history entry, but over *every* selection
  of one or two regions and every order of operations, which reaches mixes of
  typing and erasing that a few keys do not.
- **UndoHistory** is the history with its deltas abstracted to what they lead from and
  to. An entry applied to other contents than it was made for yields *anything*,
  so that nothing is assumed about undo being applied to the right bytes.
- **UndoTimeline** is what the user is promised: one line of versions, and a
  position on it.
- **UndoHistoryProofs**, **BufferCollectionProofs**, **DeltaProofs**, **DeltaSessionProofs**,
  **SelectionProofs**, **EditorProofs** and **EditorHistoryProofs** hold the theorems;
  **RecursionLemmas** has the induction and recursion that the loops need.

A loop of the code is a function defined by recursion on the number of turns taken (`MapUpTo`,
`PushUpTo`, `ScanUpTo`, `CutUpTo`, and those of `Delta`). `RecursionLemmas` shows that such a function is what
its equation says, so that facts about the loop are proved turn by turn.

Three layers describe undo. `Editor` implements `UndoHistory` (`HistoryImplemented`: the mapping
replays the real deltas of both stacks; checked by TLC, and proved for buffers without a file), and
`UndoHistory` implements `UndoTimeline` (`TimelineSpec`, checked by TLC and proved).
In `UndoHistory` final edits, undo and redo wait until no insertion is open;
that `Editor` keeps to it is part of `HistoryImplemented`, and the invariant
`PartialOnlyInserting` states the reason.

Operators introduced by the comment "A slip" are not part of the model. Each is a
plausible mistake in the definition that follows it (a dropped guard, an off-by-one,
a missing reset), kept to show that a property notices it.

### What the model abstracts

- Keys are names. A run presses a subset of the keyboard (`Keys`); every key that it
  presses does all that it does in the code. Characters typed as text carry
  their UTF-8 bytes and the low byte of their code point, which is what `as u8` keeps.
- Ropes are byte sequences: buffers are far below the 1024 bytes of a leaf, so `iter_chunks`
  yields one chunk.
- In `Editor` reading the file does not fail, and nobody else changes it. The numbers of bytes per
  line (16) and per load (64) are constants, smaller in the runs.
- Drawing always ends. In the code it does not on a terminal of fewer than five rows: `draw` pads the screen until the five
  lines of the byte properties panel are painted, and `draw_row` paints nothing below the last row. The heights of the model
  (`Heights`) stand for terminals on which the panel fits.
- A window that begins past the end of the buffer is no panic by itself: the range of the bytes shown is reversed, its slice
  and the loops over it are empty. Two things can still go wrong in `draw`, and are in `DrawPanics`: `regions_in_range` slices
  backwards if a region lies between the end and the start of such a range, and the panel slices at a caret off the bytes shown.
- In `BufferCollection` the selection, the history and the place of the window are left out: `Change` leaves
  any bytes of a given set, and a repaint may or may not load. Buffers are not trimmed there (files of up to three
  screenfuls). Which text names which command is left open: an accepted line may be any command, but a
  forced one only if it holds a `!`. A file keeps its name: paths lead to the same file throughout,
  and other programs only remove files.
- Arithmetic is that of a release build: casts wrap, and `debug_assert!` is off. A
  negative caret becomes a huge `usize` and is cut to the buffer's length, as in the
  code. Counts stay far below the width of `usize`.
- Only the register `"` is modelled; the code uses no other.
- Styles, messages, logging and repaint ranges are left out.

## 3. The runs

| run | keyboard and buffer | checks |
|---|---|---|
| `delta_session` | no keys: up to 3 deltas, buffers of up to 3 bytes, all selections of 1 or 2 regions | `EntryLeadsBack`, `EntryInverts` |
| `undo_history` | contents of up to 2, stacks of up to 2 entries | `TypeOK`, `EntriesLinked`, `SelectionsFit`, `TimelineSpec` |
| `editor_insert` | typing with one cursor, ascii append and hex overwrite, undo, redo; a scratch buffer of up to 2 bytes, 2 history entries | `TypeOK`, `PartialOnlyInserting`, `HistoryImplemented` |
| `editor_cursors` | typing, erasing and replacing with up to 5 cursors; a scratch buffer of up to 4 bytes | `RegionsSortedDisjoint`, `OnlyMainIsFlagged`, `CaretsInBuffer`, `HalfByteUnderCaret`, `NeverPanics` |
| `editor_register` | delete, change (typing a character of two bytes), paste, undo with several selections; a scratch buffer of up to 3 bytes | `UndoRedoRoundTrip`, `DeletePasteRoundTrip`, `NeverPanics`, `DeleteTakesOutSelected`, `HistoryImplemented` |
| `editor_select` | every uncounted selection command and the search prompt (patterns of up to 2 pieces); a file of two lines of 2 bytes | `RegionsSortedDisjoint`, `MainIsFlagged`, `OnlyMainIsFlagged`, `PromptCursorInPattern`, `SearchSharesOut`, `LoneSelectionIsSafe` |
| `editor_count` | counted commands, decimal and hexadecimal, counts up to 7; a file of 4 bytes | `RegionsSortedDisjoint`, `MainIsFlagged`, `LoneSelectionIsSafe` |
| `editor_window` | moving, extending, deleting, yanking and undoing in a file of three lines (5 bytes) on a screen of one line, loaded 2 bytes at a time | `NeverPanics`, `WindowInBuffer`, `MainCaretVisible`, `UneditedIsFile` |
| `buffer_collection` | two buffers, two files (one with two names), all commands, prompt lines with a `!` or a two-byte character | `TypeOK`, `QuitLosesNothing`, `WrittenSoFar`, `FollowsFile`, `OneBufferPerFile`, `NoBangNoLoss`, `PlainPromptIsSafe`, `WritingEnds` |
| `collapse_without_match` | see section 5 | `NeverPanics` is violated |
| `delete_reloads` | see section 5 | `DeleteTakesOutSelected` is violated |
| `window_slides` | `j` in a file of 9 bytes on a screen of one line | `SlidingWindow` is violated |

**Why the bounds are enough.** Deltas act on offsets relative to regions and to the end
of the buffer. Two regions with a byte between them, next to each other, at both ends, and on the
cell after the last byte all occur with 3 or 4 bytes. Merging of three and more regions occurs with
4 bytes (`editor_cursors` starts from up to five cursors). Chaining has a first delta, a
delta chained to it, and one chained to the result, hence three. The undo history needs an undo
below another and an edit in between, hence two entries. Counts up to 7 on
4 bytes lead before, to, and past the end, and past the number of selections. Patterns of two pieces
have matches that overlap, touch and leave gaps in `00 0a 00 07`. Three lines on a screen of one
need scrolling in both directions, a load in the middle of a scroll, and a last line that is not full.
In `buffer_collection` two buffers are one the loop of `:wa` has passed and one it has not; a file of two
chunks is loaded in two steps; `f2` is there or not, is the one that other programs remove, and may
come to be in both buffers through `:w n2`.

**Deadlock** is checked in the runs on which the editor cannot stop. In the others it is off:
`editor_select` and `editor_count` reach panics that section 5 describes, and `delta_session`
has used up its deltas, and `buffer_collection` ends when the program does.

**Fairness and liveness.** The editor waits for keys, and its user may stop typing at any time:
nothing is assumed of them. The one thing the program does on its own is to write: it does
not read the keyboard again until `fs::write` has returned for each buffer in turn. So `BufferCollection`
assumes weak fairness of the three steps of a write together (one of them is always possible, and the
operating system may choose to fail), and `WritingEnds` says that the loop then ends, whatever
fails and whatever is removed meanwhile.

**Reading some of the properties.**

- `HalfByteUnderCaret`: between the two digits of a hex byte, every caret, also after
  cursors have merged, sits on a byte whose high half is the digit typed. The second digit
  overwrites whatever is there.
- `LoneSelectionIsSafe`: with a single selection within a buffer that is all on the screen, only a
  counted command can panic. This is how far the absence of panics holds once counts and searches are allowed.
- `SearchSharesOut`: what splitting at a pattern keeps of the selected bytes is exactly what
  collapsing to it drops.
- `DeletePasteRoundTrip`: pasting before the cursor what was just deleted restores the bytes, unless
  the deletion merged selections or emptied the buffer.
- `DeleteTakesOutSelected`: after `d` *and its repaint*, the buffer is what it was without
  the selected bytes. It holds for scratch buffers and fails for files.
- `editor_window`: the history is *not* implemented for file-backed buffers, because the bytes change
  behind its back. What still holds there, with moves, deletions and undo, is that nothing slices
  outside the bytes, that the window keeps to whole lines of the buffer, and that the main caret is on the screen (but for
  the cell after a full last line, which has no row).
- `WindowInBuffer` does not hold of every keyboard. `i`, a byte, Esc, `9999g`, `u`, `U` in an empty buffer ends with the window
  beyond the one byte there is: the jump takes any offset, the undo saves it, redo restores it, and the window follows. What
  holds always is in `WindowFollowsCaret` (section 4).
- `FollowsFile`: a clean buffer is what its file *begins* with, since only a part of the file may be loaded. It
  says that chunks go to their places, that `dirty` is cleared only by a complete write, and that a failed
  write leaves the buffer dirty if it was.
- `WrittenSoFar`: at each moment of `:wa`, what the loop has passed is clean and on disk to the last byte.
- `NoBangNoLoss`: what a command without `!` leaves of the unsaved buffers is all of them. Buffers without
  a path are dropped silently by the code, and the property does not claim otherwise.
- `PlainPromptIsSafe`: with one-byte characters only, `<delete>` at the end of the line is the one key that panics.

## 4. The proofs

**The undo history.** The theorems are about `UndoHistory`, for every set `Content`, every set `Selections` and every
`Fits`, and for stacks of every length. The only assumption on constants is that `Fits` is Boolean.

- `TypeCorrect`: `Spec => []TypeOK`; inductive as it stands.
- `EntriesStayLinked`: `Spec => []EntriesLinked`. The newest entry of each stack
  starts at the *base* version (the contents, or what the open insertion started
  from), each older one where the next newer one leads, and the open insertion
  at the contents. Together with `TypeOK` this is inductive. It is why `Follow` always
  takes its first branch: undo and redo apply each entry to exactly the contents it was made for.
- `SelectionsStayInside`: `Spec => []SelectionsFit`. This is *not* inductive alone: undo shows a saved
  selection with the contents that the entry restores, and only `EntriesLinked` says which those are.
  The proof uses the conjunction of the three.
- `ImplementsTimeline`: `Spec => TimelineSpec`, with the refinement mapping `Line` (the targets of the
  undo entries, the base version, the targets of the redo entries backwards), `at = Len(undo) + 1`,
  `doc = data`, `open` when `partial` is not empty. The proof shows
  how pushing, popping and committing change `Line`, then that each action is a
  step of the timeline or a stutter. `EntriesLinked` is needed for undo and redo.

**The collection of buffers.** The theorems of `BufferCollectionProofs` hold for every set of names, files and bytes,
every chunk size, any number of open buffers and lines of any length, from `CollectionAssumption` alone (paths
lead to files, contents are byte sequences).

- `TypeCorrect`, `NothingLostByQuitting`, `LoopLeavesWritten`, `CleanFollowsFile` and `OpenOnce` are the five invariants
  of the run. None but the first is inductive alone, and they need one another: that creating a file does not
  spoil a buffer the loop has passed needs `OneBufferPerFile`, and that the loop writes each buffer to *its own* file
  (`OwnFile`, which only the proof uses); that a finished `:wq` may quit needs `WrittenSoFar`; that filling a file keeps
  `FollowsFile` needs all of these. The inductive invariant `Inv` is their conjunction. `LoadFacts` is the heart of
  `FollowsFile`: the next chunk extends a beginning of the file to a longer one. `RepaintKeeps`,
  `BecomeKeeps` and `BehindTheBuffers` treat the three ways the state changes: a repaint of given buffers, a change of mode, and
  a file that changes while the buffers stay.
- `NothingLostWithoutBang` is the action property `NoBangNoLoss`, from `Inv`.
- `PlainPromptSafe` is `PlainPromptIsSafe`, from the additional invariant that the cursor stays in the line (`CursorInLine`).

**Loops.** The library's induction theorems quantify over operators, which the provers cannot instantiate.
`RecursionLemmas` goes round that: `LeastNatural` comes from the well-founded order of the naturals (`WFMin`
is about sets), and gives induction over a *set* that holds 0 and, with each number, the next one
(`Induction`). `Loop` gives, from that, the existence of the function that a recursive definition names, and `LoopType` and
`LoopWithin` its type. Every loop of the model then has one lemma, such as `MapDef`, `CutDef`, `ChainDef`
or `SynthesizeDef`, that states its first value and its step.

**Deltas** (`DeltaProofs`: every buffer and every delta; no assumption). A union string lists all bytes that are in the
buffer before or after a delta. Each byte knows in which, so that the string can be *read* in two ways (`InBase`, `InOutcome`).

- `SynthesizeApplies`: the delta synthesised from a union string leads from the one reading to the other.
- `InvertUndoes` (`Action::invert`): the inverse of a delta fits what the delta yields, and leads back from it.
- `InvertTwice`: inverting twice gives the delta itself, not only one of the same effect, if `Delta::synthesize` made it from a union
  string of the bytes at hand (`MadeFrom`), as it makes every result of `invert` and `chain`. A delta does not say in which order its
  string had the insertions and deletions of a run; `Alike` relates the strings that differ in that order only, and
  `UnfoldedAlike` shows that the union string of a synthesised delta is one of them.
- `ChainApplies` (`Action::chain`): the chained delta fits the buffer of the first, and does what the two do one after the
  other. The bytes that the first delta deletes are not looked at, and the model writes zeros for them;
  `ChainLike` shows that they do not matter.
- `BuildType` and `OperationsType`: each builder of `operations.rs` makes, unless the library panics, a delta of the buffer
  it is given.

**Sessions** (`DeltaSessionProofs`: every length of buffer and session, every typed byte). `EntryAlwaysLeadsBack` and
`EntryAlwaysInverts` are the two invariants of `delta_session`. The first is not inductive: that a chained entry leads back
needs that the entry *fits* the bytes at hand. `SessionInv` adds this.

**The selection loop** (`SelectionProofs`: every selection).

- `MapKeepsSorted`: if the regions that `map_selections` is given begin in order (`InOrder`) and it does not panic, its
  result is sorted and disjoint, and has a main region, which is flagged. The code compares each new region with the last
  one only. This suffices because merging never moves the beginning of the last region down, and never past the next one
  (`PushRegionSorted`, `PushKeepsGrown`).
- That the callers keep to the order is proved closure by closure. Moving, extending, jumping, going to line
  and buffer boundaries, turning, reducing, appending and stepping back preserve the order in which regions apart begin (`Steady`);
  splitting, searching and collapsing make pieces of each region (`Within`); a delta moves gaps monotonically
  (`TransformInOrder`).
- Selecting the next or previous main region, removing one, and keeping only one preserve the same facts (`CycleKept`,
  `RemoveKept`, `OneLeft`).

**The editor** (`EditorProofs`: every set of keys, file, screen height, line length, chunk size and bound, from
`ViewAssumption` and `EditorAssumption` alone).

- `InsertionEndsWithMode` is `PartialOnlyInserting`: no insertion stays open once its mode is left. The view never touches
  the history, and only the incomplete deltas, which only insert mode asks for, open an insertion.
- `PromptAlwaysInPattern` is `PromptCursorInPattern`. The invariant `PromptOK` adds that a half byte typed is the one
  *at* the cursor, without which erasing it could leave the cursor behind the pattern.
- `EditorTyped`, `RegionsAlwaysSortedDisjoint` and `MainAlwaysFlagged` rest on one
  invariant, `EditorInv`. None of the three is inductive alone:
  - undo and redo bring back selections and deltas from the history, so *every entry of the history* has to be well formed
    (`Bufs`, `Hists`), and every edit has to leave it so (`PerformKeepsHist`, which needs `InvertUndoes` and `ChainApplies`);
  - the window starts on a whole line (`Lines`), which scrolling and trimming keep, for they move it by multiples of the
    line (`OffsetKeepsScreen`, `TrimKeepsScreen`);
  - accepting a prompt needs `PromptOK`, for the pattern is a sequence; hex insertion moves each caret back
    by one, which stays an offset only because a byte was just inserted before it (`HexInsertionKeepsBuf`).

  These theorems say what is well formed while the editor runs; a panic ends a behaviour in `Crashed`. They do *not* say that
  it never panics, which is false (section 5).
- `WindowFollowsCaret` is what can be said of `WindowInBuffer` for every keyboard: the window starts on a whole line, and it
  starts within the buffer in every behaviour in which the main caret lies in the buffer, or on the cell after it
  (`MainInside`), in every state. The hypothesis is about the caret, not the window, and a buffer may shrink by
  deletion, undo or trimming under a window that has not moved. There are two arguments (`RepaintsDrawn`, `WindowKept`). After a repaint the window
  starts on bytes, or no later than the main caret (`Pursues`): `maybe_update_offset` scrolls up far enough, since the window and
  the lines it scrolls by are multiples of the line (`LinesCover`), and down only to a line that has bytes;
  `maybe_update_offset_and_draw` goes to the caret's line or above it. `<C-e>`, `<C-y>`, a resize and the keys that do not repaint do
  not follow the caret, but move the window only to where there are bytes, and trimming takes as much off the window
  as off the buffer (`Stays`).
- `SearchAlwaysSharesOut` is `SearchSharesOut`, for every pattern and selection. Both loops are followed over one region
  (`CutUpTo` cuts at the matches, in order and without overlap; collapsing keeps them); what remains is that regions apart
  do not share bytes, which is `RegionsSortedDisjoint`.

**Across edits, undo and redo** (`EditorHistoryProofs`). `EditorProofs` ends with a classification: every step of `Next`
is a showing of the buffer by the view (`Shown`: it may load bytes), then one kind of work (`Works`: the selection is
rechosen, a final or an incomplete edit is made, an insertion is committed, an entry is undone or redone, or
the program panics), and another showing (`StepsTo`). The theorems below follow these kinds instead of some thirty handlers.
Each property is false of the whole program (section 5), and each theorem names the exact circumstance in which it fails
as a hypothesis, about a constant or about every step.

- `OnlyMainStaysFlagged`: `OnlyMainIsFlagged`, if no key removes *by its number* a region before the main one (`SparesMain`;
  `<count><a-space>` leaves the flag behind). The inductive invariant `BufFlagged` says the same of every selection the history
  will restore.
- `UneditedStaysFile`: `UneditedIsFile`, if the file has at most three screenfuls (`NeverTrims`). The invariant
  `Unedited` is that a buffer which is not dirty holds the first bytes of the file; that this survives undo needs that undo and redo
  mark the buffer dirty.
- `CaretsStayInBuffer`: `CaretsInBuffer`, for a buffer without a file, if no counted `g` or `G` leads beyond the end (`JumpsInside`;
  `jump_to_offset` does not look at the length). It is not inductive: undo restores a selection together with bytes, and only
  the invariant of `ImplementsUndoHistory` says that they fit.
- `WindowStaysInBuffer`: `WindowInBuffer`, under the same hypotheses, from `CaretsStayInBuffer` and `WindowFollowsCaret`.
- `ImplementsUndoHistory`: `HistoryImplemented`, under the same hypotheses. The inductive invariant `Tracked` says that there
  are moves `P`, `U` and `R`, as `UndoHistory` writes its entries, that the deltas of the open insertion and of
  the two stacks do when applied one after the other (`Replays`), each ending at contents that its selection lies within. `WorksSteps`
  shows that each kind of work preserves it and is a step of `UndoHistory` on those moves, or a stutter: a final edit by `InvertUndoes`,
  an incomplete one by `ChainApplies`, undo and redo by `InvertUndoes` at the popped entry. `NextTracks` carries
  this through the showings, which leave the bytes alone when there is no file; with one, bytes load behind the
  history, and the property is false. With `ImplementsTimeline` this gives the user's promise of `UndoTimeline` for the real deltas.

- `UndoRedoRestores`: `UndoRedoRoundTrip`, for a buffer without a file and wherever the selections lie. Undo and redo give back
  not only the bytes and the selection but the history: the delta that redo puts back on the undo stack is the inverse of an
  inverse. `Replays` therefore also says that every delta was made from a union string of the contents it starts from, and
  `InvertTwice` applies. The invariant is `Tracked` without the selections' bounds (its parameter `J`), so that no hypothesis on
  jumps is needed. With a file it is false: `d` in a file of two bytes makes the view load a byte behind the entry, and undo drops it.

Each proof has one step or lemma per action and, below it, one step per conjunct the action disturbs.

**Only model-checked.**

- `WritingEnds`: liveness is out of the prover's reach.
- `HalfByteUnderCaret`, `NeverPanics`, `LoneSelectionIsSafe`: false in general. Counts, scrolling, resizing or trimming break each
  of them (section 5), and they hold for the keyboards of their runs.
- `MainCaretVisible`: holds for the keys of its run only; `<C-e>` and a resize move the window away from the caret.
- `DeletePasteRoundTrip`, `DeleteTakesOutSelected`: about a single operation; the first is refuted by merging selections, which its
  premises exclude by computing the operation. TLC evaluates both in every state of `editor_register`.

## 5. Where the code disagrees with its documentation

Three runs end in a counterexample.

- `collapse_without_match`: `collapse.rs` refuses a pattern when nothing was matched, so as not to yield
  an empty selection. With two selections of which only the one after the main selection
  has a match, nothing is refused, `map_selections` has no region to make main, and panics.
- `delete_reloads`: each repaint appends the file's bytes from offset `data.len()` on.
  After `d` on a file-backed buffer the end of the file is appended again, so the
  buffer keeps its length and ends with bytes twice.
- `window_slides`: `trim_buffer_top` takes a screenful off the top of the buffer, but nobody remembers it
  (`data_start_offset` is never written). The next chunk is read from `data.len()`, which is too early by what was
  trimmed, and the buffer is no longer a piece of the file: moving down `1 .. 9` on one line ends with
  `5 6 7 8 7 8`. Selections and history entries keep their old offsets as well.

The same model shows further ways to panic or to confuse the main selection. They need
several selections or a count, which is why the properties of the passing runs name those conditions:

- `G l` with cursors on the last bytes and on the cell after them makes regions that go in
  different directions and meet, and `merge` panics.
- `<count>g` with a count of one more than the buffer's length puts the caret where the panel of byte properties slices off the
  buffer. A greater count puts it off the screen. If the selection is extended there over more than a screenful and
  split, and the last edit undone and redone, regions lie between the end of the buffer and the window, and
  `regions_in_range` slices backwards (with one byte typed, on a screen of one line of two bytes: `11g H H`, `<a-s>b`, `u U`).
- `<count><a-space>` removing a region before the main one leaves the main index on the next region: two regions
  are then flagged main.
- In split mode a count of zero reaches `step_by(0)`.
- With a screen smaller than the file and a last line that is full, `j J J` and twice `<a-;>` panic: the window cannot
  follow the caret to the cell after the last byte, and the panel of byte properties slices there. `<C-e>` three times,
  `<C-y>`, then `J` panics in the same place, as does a resize with the main caret below the new edge. Hence the
  5 bytes and the keys of `editor_window`.
- A deletion, a scroll that loads, undo and redo panic: undo drops the bytes loaded since, and redo restores a selection
  that was made with them. Hence no redo in `editor_window`.
- Once the top of the buffer is trimmed, carets lie beyond its end, and extending one panics. Hence no trimming in
  `editor_window`; `window_slides` has it.
- An insertion during which a chunk is loaded or trimmed (`<C-e>` in insert mode) keeps a delta for the old length. The next
  key chains to it, and the rope library panics (`ChainPanics`).
- `<C-e>` at the end of the file moves the window without the caret.
- Scrolling between the two digits of a hex byte moves the carets off it.

And about files, in the model of the collection as in the code:

- `:w` writes what is loaded over the whole file. A file longer than a screenful, opened and written
  unchanged, loses its end. (README: "`:w` to flush current_buffer to disk".)
- `:w other` marks the buffer clean though its own file does not have its bytes; `:q` then quits.
- `<C-e>` and `:e` load without trimming, beyond the three screenfuls that the README promises.
- A file that another program removes ends the editor at the next repaint that needs it, with all unsaved buffers.

## 6. What is not modelled, and the plan

Left out for good: the drawing of rows and styles, the status line and the byte properties panel (terminal output, apart from the
slices that can panic), the rope's tree (third-party), logging, the macro that writes key maps, and the methods of the
view that nothing calls (`manage_buffer` and its helpers).

Left for later:

1. **Counts** at the width of `usize`, where twenty digits wrap around.
2. **Proofs**: `MainCaretVisible` for the keys that follow the caret, and
   `DeleteTakesOutSelected` for buffers without a file.
3. Other programs that *change* a file that is open.
