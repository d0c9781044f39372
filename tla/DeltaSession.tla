---------------------------- MODULE DeltaSession ----------------------------
(***************************************************************************)
(* The newest history entry of a buffer, followed delta by delta: what     *)
(* History::perform_final, perform_partial and commit_partial              *)
(* (src/history.rs) compute from the deltas of src/operations.rs.          *)
(*                                                                         *)
(* The selections are arbitrary small sorted lists of regions inside the   *)
(* buffer, and every operation the modes call can follow any other, which  *)
(* is more than one editing session does.  The number of deltas is bounded.*)
(***************************************************************************)
EXTENDS Delta

CONSTANTS MaxLen,    \* longest buffer
          MaxDeltas, \* most deltas in a session
          Typed,     \* the bytes inserted
          Originals  \* contents the session may start from

ASSUME SessionAssumption ==
  /\ MaxLen \in Nat
  /\ MaxDeltas \in Nat
  /\ Typed \subseteq Bytes
  /\ Originals \subseteq Seq(Bytes)

VARIABLES data,     \* the buffer
          origin,   \* the buffer the newest history entry leads back to
          inverse,  \* the delta of that entry
          open,     \* it is History::partial, not yet on the undo stack
          deltas    \* how many deltas were made

vars == << data, origin, inverse, open, deltas >>

\* Selections of one or two regions within a buffer of n bytes, both
\* directions, the cell after the last byte included.
Selections(n) ==
  LET ends    == {Region(c, t) : c \in 0 .. n, t \in 0 .. n}
      lists   == {<< a >> : a \in ends} \cup {<< a, b >> : a \in ends, b \in ends}
  IN {[regions |-> l, main_selection |-> 0] : l \in {l \in lists : SortedDisjoint(l)}}

Identity(n) == Build(n, << >>)

Init ==
  /\ data \in Originals
  /\ origin = data
  /\ inverse = Identity(Len(data))
  /\ open = FALSE
  /\ deltas = 0

-----------------------------------------------------------------------------
\* A slip: only the last delta of an insertion is kept.
LastInverse(d) == Invert(d, data)

\* History::perform_partial: the inverse of this delta, then the entry so far.
ChainedInverse(d) ==
  IF open THEN Chain(Invert(d, data), data, inverse) ELSE Invert(d, data)

\* CurrentBuffer::apply_delta_to_current_buffer
Perform(edits, final) ==
  LET d == Build(Len(data), edits)
  IN /\ NewDocumentLen(d) <= MaxLen
     /\ deltas < MaxDeltas
     /\ deltas' = deltas + 1
     /\ data' = ApplyDelta(data, d)
     /\ origin' = IF final \/ ~open THEN data ELSE origin
     /\ inverse' = IF final THEN Invert(d, data) ELSE ChainedInverse(d)
     /\ open' = ~final

TypeByte == \E sel \in Selections(Len(data)), b \in Typed :
  \/ Perform(Insert(data, sel, << b >>), FALSE)
  \/ Perform(Change(data, sel, << b >>), FALSE)
  \/ Perform(OverwriteHalf(data, sel, 16 * (b \div 16)), FALSE)

EraseByte == \E sel \in Selections(Len(data)) :
  \/ Perform(Backspace(data, sel), FALSE)
  \/ Perform(DeleteCursor(data, sel), FALSE)

\* Deletions, replacements and pastes are final; the modes never start one
\* while an insertion is open.
FinalEdit == ~open /\ \E sel \in Selections(Len(data)), b \in Typed :
  \/ Perform(Deletion(data, sel), TRUE)
  \/ Perform(Replace(data, sel, b), TRUE)
  \/ \E after \in BOOLEAN : Perform(Paste(data, sel, << << >>, << b >> >>, after, 1), TRUE)

\* History::commit_partial
Commit ==
  /\ open
  /\ open' = FALSE
  /\ UNCHANGED << data, origin, inverse, deltas >>

Next == TypeByte \/ EraseByte \/ FinalEdit \/ Commit

Spec == Init /\ [][Next]_vars

-----------------------------------------------------------------------------
\* However many deltas were chained into it, the newest history entry leads
\* from the buffer back to the contents it started from (invert, chain).
EntryLeadsBack == inverse.base = Len(data) /\ ApplyDelta(data, inverse) = origin

\* Inverting an entry against the buffer, as undo does to fill the redo stack,
\* yields a delta that leads from the origin forward to the buffer again.
EntryInverts == ApplyDelta(origin, Invert(inverse, data)) = data
=============================================================================
