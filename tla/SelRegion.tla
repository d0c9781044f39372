------------------------------ MODULE SelRegion ------------------------------
(***************************************************************************)
(* One selected region (src/selection.rs, struct SelRegion): the byte      *)
(* offset of the caret, the byte offset of the tail, both inclusive and    *)
(* 0-based, and the flag "main".  A region whose caret or tail equals the  *)
(* length of the buffer sits on the empty cell after the last byte (the    *)
(* "overflow" selection).                                                  *)
(*                                                                         *)
(* Offsets and counts are naturals: the specifications that use this       *)
(* module bound both far below 2^63, so the usize/isize conversions of the *)
(* code are exact.                                                         *)
(***************************************************************************)
EXTENDS Integers

Directions == {"Up", "Down", "Left", "Right"}

Lesser(a, b)  == IF a <= b THEN a ELSE b
Greater(a, b) == IF a >= b THEN a ELSE b

\* SelRegion::new: every freshly built region is not the main one.
Region(c, t) == [caret |-> c, tail |-> t, main |-> FALSE]

Regions == [caret : Nat, tail : Nat, main : BOOLEAN]

RMax(r) == Greater(r.caret, r.tail)
RMin(r) == Lesser(r.caret, r.tail)
RLen(r) == RMax(r) - RMin(r) + 1

\* A one-byte region goes both ways.
Forward(r)  == r.caret >= r.tail
Backward(r) == r.caret <= r.tail

ToForward(r)  == Region(RMax(r), RMin(r))
ToBackward(r) == Region(RMin(r), RMax(r))

WithDirection(r, backward)  == IF backward THEN ToBackward(r) ELSE ToForward(r)
InheritDirection(r, parent) == WithDirection(r, ~Forward(parent))

SwapCaret(r) == Region(r.tail, r.caret)
Collapse(r)  == Region(r.caret, r.caret)

-----------------------------------------------------------------------------
(* Movement.  max is the length of the buffer; bpl the bytes per line.     *)

\* A slip: nothing stops a caret that moves down or right.
UnboundedCaret(r, dir, bpl, max, count) ==
  CASE dir = "Up"    -> Greater(0, r.caret - bpl * count)
    [] dir = "Down"  -> r.caret + bpl * count
    [] dir = "Left"  -> Greater(0, r.caret - count)
    [] dir = "Right" -> r.caret + count

\* The match on the direction that simple_move and simple_extend share.
SteppedCaret(r, dir, bpl, max, count) ==
  CASE dir = "Up"    -> Greater(0, r.caret - bpl * count)
    [] dir = "Down"  -> Lesser(max, r.caret + bpl * count)
    [] dir = "Left"  -> Greater(0, r.caret - count)
    [] dir = "Right" -> Lesser(max, r.caret + count)

SimpleMove(r, dir, bpl, max, count) ==
  IF max = 0 THEN r
  ELSE LET c == SteppedCaret(r, dir, bpl, max, count) IN Region(c, c)

SimpleExtend(r, dir, bpl, max, count) ==
  IF max = 0 THEN r
  ELSE Region(SteppedCaret(r, dir, bpl, max, count), r.tail)

JumpTo(r, offset)   == Region(offset, offset)
ExtendTo(r, offset) == Region(offset, r.tail)

\* "Don't do overflow selection in jumps": Down and Right stop at the last byte.
BoundaryCaret(r, dir, bpl, max) ==
  CASE dir = "Up"    -> 0
    [] dir = "Down"  -> max - 1
    [] dir = "Left"  -> r.caret - (r.caret % bpl)
    [] dir = "Right" -> Lesser(r.caret + bpl - (r.caret % bpl) - 1, max - 1)

JumpToBoundary(r, dir, bpl, max) ==
  IF max = 0 THEN r
  ELSE LET c == BoundaryCaret(r, dir, bpl, max) IN Region(c, c)

ExtendToBoundary(r, dir, bpl, max) ==
  IF max = 0 THEN r ELSE Region(BoundaryCaret(r, dir, bpl, max), r.tail)

-----------------------------------------------------------------------------
(* Merging and splitting.                                                  *)

\* A slip: regions that share just one byte do not count as overlapping.
OverlapsByTwo(self, other) == RMax(self) > RMin(other)

\* Only asks whether self reaches other; the callers present regions in order.
Overlaps(self, other) == RMax(self) >= RMin(other)

BothForward(a, b)  == Forward(a) /\ Forward(b)
BothBackward(a, b) == Backward(a) /\ Backward(b)

\* The regions merge() accepts: it panics on regions going in different
\* directions and on two distinct cursors.
CanMerge(a, b) ==
  /\ BothForward(a, b) \/ BothBackward(a, b)
  /\ BothForward(a, b) /\ BothBackward(a, b) => a.caret = b.caret

Merge(a, b) ==
  LET lo == Lesser(RMin(a), RMin(b))
      hi == Greater(RMax(a), RMax(b))
  IN [caret |-> IF BothForward(a, b) THEN hi ELSE lo,
      tail  |-> IF BothForward(a, b) THEN lo ELSE hi,
      main  |-> a.main \/ b.main]

\* What is left of r before and after the matched range start..end (inclusive),
\* each a sequence of at most one region.  When both sides survive the code
\* builds them from min to max and does not hand the direction down.
SplitAtRegion(r, start, end) ==
  LET left  == Region(RMin(r), start - 1)
      right == Region(end + 1, RMax(r))
      inside == start > RMin(r) /\ end < RMax(r)
      keep(piece) == IF inside THEN piece ELSE InheritDirection(piece, r)
  IN [left  |-> IF start <= RMin(r) THEN << >> ELSE << keep(left) >>,
      right |-> IF end >= RMax(r) THEN << >> ELSE << keep(right) >>]
=============================================================================
