-------------------------------- MODULE Delta --------------------------------
(***************************************************************************)
(* Rope deltas.  The rope and its deltas come from the xi-rope crate, so   *)
(* the first half of this module is modelled from how src/operations.rs,   *)
(* src/history.rs and src/selection.rs use them; the second half is the    *)
(* delta builders of src/operations.rs and the delta algebra of            *)
(* src/history.rs (Action::invert and Action::chain).                      *)
(*                                                                         *)
(* A delta is written in the form Delta::factor() gives it: the set del of *)
(* the 0-based offsets it deletes from a base of base bytes, and for every *)
(* gap g (0 is before the first byte) the bytes ins[g] it inserts there.   *)
(* An insertion that follows a deleted run sits at the start of that run,  *)
(* which makes the form canonical.  Ropes of one leaf (at most 1024        *)
(* bytes) are plain byte sequences.                                        *)
(***************************************************************************)
EXTENDS Integers, Sequences, SequencesExt, FiniteSetsExt, Selection

Bytes == 0 .. 255

\* Where each gap of the base is found in the outcome: after the bytes kept before
\* it and after every insertion at or before it.
GapAfter(d) ==
  LET to[g \in 0 .. d.base] ==
        IF g = 0 THEN Len(d.ins[0])
        ELSE to[g - 1] + (IF g - 1 \in d.del THEN 0 ELSE 1) + Len(d.ins[g])
  IN to

\* Delta::new_document_len
NewDocumentLen(d) == GapAfter(d)[d.base]

\* Transformer::transform(ix, true)
Transform(d, ix) == GapAfter(d)[Lesser(ix, d.base)]

\* The bytes of the outcome up to each gap of the base, the insertion there
\* included.
Outcome(data, d) ==
  LET out[g \in 0 .. d.base] ==
        IF g = 0 THEN d.ins[0]
        ELSE out[g - 1] \o (IF g - 1 \in d.del THEN << >> ELSE << data[g] >>) \o d.ins[g]
  IN out

\* Delta::apply.  Only the first d.base bytes are looked at: the crate checks
\* that the base has that length in debug builds alone.
ApplyDelta(data, d) == Outcome(data, d)[d.base]

\* A base shorter than the delta expects makes a copied range run past it.
ApplyPanics(data, d) == Len(data) < d.base

\* A byte of a union string: from says that it is absent from the base, to that
\* it is absent from the outcome.
Tag(byte, from, to) == [byte |-> byte, from |-> from, to |-> to]

Inserted(text) == [k \in DOMAIN text |-> Tag(text[k], TRUE, FALSE)]

\* The union string of a delta, up to each gap of the base: the base with the
\* insertions in place and nothing removed.
UnionUpTo(d, data) ==
  LET u[g \in 0 .. d.base] ==
        IF g = 0 THEN Inserted(d.ins[0])
        ELSE u[g - 1] \o << Tag(data[g], FALSE, g - 1 \in d.del) >> \o Inserted(d.ins[g])
  IN u

Union(d, data) == UnionUpTo(d, data)[d.base]

\* Delta::synthesize, byte by byte of a union string.  gap is the start of the
\* deleted run that the base now ends with.
SynthesizeStart(n) == [base |-> 0, gap |-> 0, del |-> {}, ins |-> [g \in 0 .. n |-> << >>]]

SynthesizeByte(a, c) ==
  IF c.from /\ c.to THEN a
  ELSE IF c.from THEN [a EXCEPT !.ins[a.gap] = Append(@, c.byte)]
  ELSE IF c.to THEN [a EXCEPT !.base = @ + 1, !.del = @ \cup {a.base}]
  ELSE [a EXCEPT !.base = @ + 1, !.gap = a.base + 1]

SynthesizeUpTo(u) ==
  LET a[k \in 0 .. Len(u)] ==
        IF k = 0 THEN SynthesizeStart(Len(u)) ELSE SynthesizeByte(a[k - 1], u[k])
  IN a

Synthesize(u) ==
  LET d == SynthesizeUpTo(u)[Len(u)]
  IN [base |-> d.base, del |-> d.del, ins |-> [g \in 0 .. d.base |-> d.ins[g]]]

-----------------------------------------------------------------------------
(* DeltaBuilder.  An edit replaces the offsets from .. to - 1 by text.     *)

Edit(from, to, text) == [from |-> from, to |-> to, text |-> text]

\* DeltaBuilder::delete asserts that the intervals come in order; a copied
\* range that ends past the base panics when the delta is applied.
BuildPanics(base, edits) ==
  \E k \in DOMAIN edits :
    LET last == IF k = 1 THEN 0 ELSE edits[k - 1].to
    IN edits[k].from < last \/ (edits[k].from > base /\ edits[k].from > last)

Build(base, edits) ==
  LET del == {i \in 0 .. base - 1 :
                \E k \in DOMAIN edits : edits[k].from <= i /\ i < edits[k].to}
      Gap(p) == Max({0} \cup {i + 1 : i \in {j \in 0 .. base - 1 : j < p /\ j \notin del}})
      text(g) == FlattenSeq([k \in DOMAIN edits |->
                               IF Gap(edits[k].from) = g THEN edits[k].text ELSE << >>])
  IN [base |-> base, del |-> del, ins |-> [g \in 0 .. base |-> text(g)]]

-----------------------------------------------------------------------------
(* src/operations.rs: the edits each operation makes, region by region.    *)

EachRegion(sel, f(_)) == [i \in DOMAIN sel.regions |-> f(sel.regions[i])]

\* A slip: the last selected byte is spared.
DeletionButLast(data, sel) ==
  EachRegion(sel, LAMBDA r : Edit(RMin(r), RMax(r), << >>))

Deletion(data, sel) ==
  EachRegion(sel, LAMBDA r : Edit(RMin(r), RMax(r) + 1, << >>))

\* A slip: a caret at the start of the buffer is not left out.
BackspaceAnywhere(data, sel) ==
  EachRegion(sel, LAMBDA r : Edit(r.caret - 1, r.caret, << >>))

Backspace(data, sel) ==
  FlattenSeq(EachRegion(sel, LAMBDA r :
    IF r.caret = 0 THEN << >> ELSE << Edit(r.caret - 1, r.caret, << >>) >>))

DeleteCursor(data, sel) ==
  FlattenSeq(EachRegion(sel, LAMBDA r :
    IF r.caret < Len(data) THEN << Edit(r.caret, r.caret + 1, << >>) >> ELSE << >>))

Insert(data, sel, text) == EachRegion(sel, LAMBDA r : Edit(r.caret, r.caret, text))

Change(data, sel, text) == EachRegion(sel, LAMBDA r : Edit(r.caret, r.caret + 1, text))

\* The low half of the byte under the caret survives; past the end it is 0.
OverwriteHalf(data, sel, top) ==
  LET low(r) == IF r.caret < Len(data) THEN data[r.caret + 1] % 16 ELSE 0
  IN EachRegion(sel, LAMBDA r : Edit(r.caret, r.caret + 1, << top + low(r) >>))

Replace(data, sel, ch) ==
  EachRegion(sel, LAMBDA r :
    Edit(RMin(r), RMax(r) + 1, [k \in 1 .. RLen(r) |-> ch]))

\* Slips: every region takes the first register value, or the cell after the
\* last byte has bytes after it.
PasteFirst(data, sel, register, after, count) ==
  LET copies == FlattenSeq([k \in 1 .. count |-> register[1]])
      pos(r) == IF after THEN Lesser(Len(data), RMax(r) + 1) ELSE RMin(r)
  IN EachRegion(sel, LAMBDA r : Edit(pos(r), pos(r), copies))
PasteBeyond(data, sel, register, after, count) ==
  LET pos(r) == IF after THEN RMax(r) + 1 ELSE RMin(r)
  IN EachRegion(sel, LAMBDA r : Edit(pos(r), pos(r), register[1]))

\* The i-th region takes the i-th register value; the last value serves all
\* the regions after it.
Paste(data, sel, register, after, count) ==
  LET value(i) == register[Lesser(i, Len(register))]
      copies(i) == FlattenSeq([k \in 1 .. count |-> value(i)])
      pos(r) == IF after THEN Lesser(Len(data), RMax(r) + 1) ELSE RMin(r)
  IN [i \in DOMAIN sel.regions |->
        Edit(pos(sel.regions[i]), pos(sel.regions[i]), copies(i))]

-----------------------------------------------------------------------------
(* src/history.rs: inverting a delta, and chaining one after another.      *)

\* The union string read from the outcome to the base.
Swapped(u) == [k \in DOMAIN u |-> Tag(u[k].byte, u[k].to, u[k].from)]

\* A slip: zeros are put back for what was deleted.
InvertBlank(d, data) ==
  LET u == Union(d, data)
  IN Synthesize([k \in DOMAIN u |->
       Tag(IF u[k].to THEN 0 ELSE u[k].byte, u[k].to, u[k].from)])

\* Action::invert: what was deleted is put back, what was inserted goes.
Invert(d, data) == Synthesize(Swapped(Union(d, data)))

\* One byte of first's union string: those that first deletes stay deleted; next's
\* insertions go before the byte that follows them in mid, and so after the bytes
\* first deleted at the same gap.
ChainByte(a, c, mid, next) ==
  IF c.to THEN [a EXCEPT !.out = Append(@, Tag(c.byte, c.from, TRUE))]
  ELSE [out |-> Append(a.out \o Inserted(next.ins[a.j]),
                       Tag(mid[a.j + 1], c.from, a.j \in next.del)),
        j   |-> a.j + 1]

ChainUpTo(u, mid, next) ==
  LET a[k \in 0 .. Len(u)] ==
        IF k = 0 THEN [out |-> << >>, j |-> 0] ELSE ChainByte(a[k - 1], u[k], mid, next)
  IN a

\* Action::chain: the delta that does first and then next.  mid is what first
\* produces; what first deletes is not looked at, and is written as zeros.
Chain(first, mid, next) ==
  LET u   == Union(first, [i \in 1 .. first.base |-> 0])
      all == ChainUpTo(u, mid, next)[Len(u)]
  IN Synthesize(all.out \o Inserted(next.ins[all.j]))
=============================================================================
