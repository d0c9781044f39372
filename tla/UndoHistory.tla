----------------------------- MODULE UndoHistory -----------------------------
(***************************************************************************)
(* The undo history of a buffer (src/history.rs, struct History, driven by *)
(* the delta and undo methods of src/current_buffer.rs), with deltas       *)
(* abstracted to what they do: an entry leads from the contents it was     *)
(* computed against to the contents it restores, and carries the selection *)
(* restored with them.  An entry applied to other contents than from       *)
(* yields anything.                                                        *)
(*                                                                         *)
(* A final edit, an undo or a redo never comes while an insertion is open: *)
(* the editor's modes see to that.                                         *)
(***************************************************************************)
EXTENDS Integers, Sequences

CONSTANTS Content,        \* what a buffer may hold
          Selections,     \* its selections
          Fits(_, _)      \* Fits(c, s): every end of s lies within c

ASSUME FitsAssumption ==
  \A c \in Content, s \in Selections : Fits(c, s) \in BOOLEAN

VARIABLES data, sel,      \* the buffer's contents and selection
          partial,        \* at most one entry: the insertion under way
          undo, redo,     \* stacks of entries, newest last
          dirty

vars == << data, sel, partial, undo, redo, dirty >>

Entries == [from : Content, to : Content, sel : Selections]

Entry(f, t, s) == [from |-> f, to |-> t, sel |-> s]

Top(s) == s[Len(s)]
Pop(s) == [k \in 1 .. Len(s) - 1 |-> s[k]]

Init ==
  /\ data \in Content
  /\ sel \in Selections
  /\ Fits(data, sel)
  /\ partial = << >>
  /\ undo = << >>
  /\ redo = << >>
  /\ dirty = FALSE

\* The selection follows the delta to some place within the new contents.
Change ==
  /\ data' \in Content
  /\ sel' \in Selections
  /\ Fits(data', sel')
  /\ dirty' = TRUE

\* A slip: the redo stack outlives the edit.
FinalKeepingRedo ==
  /\ partial = << >>
  /\ Change
  /\ undo' = Append(undo, Entry(data', data, sel))
  /\ UNCHANGED << partial, redo >>

\* CurrentBuffer::apply_delta with History::perform_final
FinalEdit ==
  /\ partial = << >>
  /\ Change
  /\ undo' = Append(undo, Entry(data', data, sel))
  /\ redo' = << >>
  /\ UNCHANGED partial

\* Slips: the entries of an insertion are kept apart, or the entry takes the
\* selection from before the last delta.
PartialApart ==
  /\ Change
  /\ partial' = Append(partial, Entry(data', data, sel))
  /\ UNCHANGED << undo, redo >>
PartialLateSelection ==
  /\ Change
  /\ partial' = << Entry(data', IF partial = << >> THEN data ELSE partial[1].to, sel) >>
  /\ UNCHANGED << undo, redo >>

\* CurrentBuffer::apply_incomplete_delta with History::perform_partial: the
\* entry keeps the contents and the selection from before the first delta.
PartialEdit ==
  /\ Change
  /\ partial' = IF partial = << >> THEN << Entry(data', data, sel) >>
                ELSE << Entry(data', partial[1].to, partial[1].sel) >>
  /\ UNCHANGED << undo, redo >>

\* CurrentBuffer::commit_delta with History::commit_partial
Commit ==
  /\ partial # << >>
  /\ undo' = Append(undo, partial[1])
  /\ redo' = << >>
  /\ partial' = << >>
  /\ UNCHANGED << data, sel, dirty >>

\* Applying the delta of an entry.
Follow(entry) ==
  /\ data' \in (IF data = entry.from THEN {entry.to} ELSE Content)
  /\ sel' = entry.sel
  /\ dirty' = TRUE
  /\ UNCHANGED partial

\* A slip: what was undone cannot be redone.
UndoForgetting ==
  /\ partial = << >>
  /\ undo # << >>
  /\ Follow(Top(undo))
  /\ undo' = Pop(undo)
  /\ redo' = << >>

\* CurrentBuffer::perform_undo with History::undo
Undo ==
  /\ partial = << >>
  /\ undo # << >>
  /\ Follow(Top(undo))
  /\ undo' = Pop(undo)
  /\ redo' = Append(redo, Entry(data', data, sel))

\* CurrentBuffer::perform_redo with History::redo
Redo ==
  /\ partial = << >>
  /\ redo # << >>
  /\ Follow(Top(redo))
  /\ redo' = Pop(redo)
  /\ undo' = Append(undo, Entry(data', data, sel))

\* Everything that only moves the selection.
Select ==
  /\ sel' \in Selections
  /\ Fits(data, sel')
  /\ UNCHANGED << data, partial, undo, redo, dirty >>

Next == FinalEdit \/ PartialEdit \/ Commit \/ Undo \/ Redo \/ Select

Spec == Init /\ [][Next]_vars

-----------------------------------------------------------------------------
\* Type correctness of the history's state.
TypeOK ==
  /\ data \in Content
  /\ sel \in Selections
  /\ undo \in Seq(Entries)
  /\ redo \in Seq(Entries)
  /\ partial \in {<< >>} \cup {<< e >> : e \in Entries}
  /\ dirty \in BOOLEAN

\* The version the stacks hang on: the contents, or what an open insertion
\* started from.
Base == IF partial = << >> THEN data ELSE partial[1].to

\* The newest entry leads away from that version, each older one from where the
\* next newer one leads.
Linked(stack, version) ==
  /\ stack # << >> => Top(stack).from = version
  /\ \A k \in 1 .. Len(stack) - 1 : stack[k].from = stack[k + 1].to

\* Every entry on either stack will, when its turn comes, be applied to exactly
\* the contents it was computed against, whatever mix of edits, undos and
\* redos came before (History::undo and redo invert and apply without a check).
EntriesLinked ==
  /\ Linked(undo, Base)
  /\ Linked(redo, Base)
  /\ partial # << >> => partial[1].from = data

SavedFits(entries) == \A k \in DOMAIN entries : Fits(entries[k].to, entries[k].sel)

\* The current selection and every saved one lie within the contents they are
\* shown with (perform_undo installs the saved selection as it is).
SelectionsFit ==
  /\ Fits(data, sel)
  /\ SavedFits(undo)
  /\ SavedFits(redo)
  /\ SavedFits(partial)

-----------------------------------------------------------------------------
(* The timeline the history implements.                                    *)

Line == [k \in 1 .. Len(undo) + 1 + Len(redo) |->
           IF k <= Len(undo) THEN undo[k].to
           ELSE IF k = Len(undo) + 1 THEN Base
           ELSE redo[Len(undo) + Len(redo) + 2 - k].to]

Timeline == INSTANCE UndoTimeline
              WITH line <- Line, at <- Len(undo) + 1, doc <- data,
                   open <- partial # << >>

\* Undo and redo move the buffer along one line of versions.
TimelineSpec == Timeline!Spec
=============================================================================
