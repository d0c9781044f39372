------------------------------- MODULE Pattern -------------------------------
(***************************************************************************)
(* Byte patterns (src/modes/search.rs, struct Pattern) and what the split  *)
(* and collapse commands make of their matches (src/modes/split.rs,        *)
(* src/modes/collapse.rs).  A pattern is a sequence of pieces, each a byte *)
(* or Wildcard.                                                            *)
(***************************************************************************)
EXTENDS CurrentBuffer

Wildcard == -1

\* A wildcard becomes the regular expression ".", which no newline matches.
MatchesPiece(piece, byte) == IF piece = Wildcard THEN byte # 10 ELSE piece = byte

MatchesAt(data, pattern, p) ==
  \A k \in DOMAIN pattern : MatchesPiece(pattern[k], data[p + k])

\* Offset p of the bytes before end is looked at: a match starts there unless it
\* would begin within the last one.  next is where that one ends.
ScanOffset(a, data, pattern, p, end) ==
  IF p >= a.next /\ p + Len(pattern) <= end /\ MatchesAt(data, pattern, p)
  THEN [starts |-> Append(a.starts, p), next |-> p + Len(pattern)]
  ELSE a

ScanUpTo(data, r, pattern) ==
  LET a[k \in 0 .. RLen(r)] ==
        IF k = 0 THEN [starts |-> << >>, next |-> RMin(r)]
        ELSE ScanOffset(a[k - 1], data, pattern, RMin(r) + k - 1, Lesser(RMax(r) + 1, Len(data)))
  IN a

\* The offsets where the leftmost matches that do not overlap start.
MatchStarts(data, r, pattern) == ScanUpTo(data, r, pattern)[RLen(r)].starts

MapSelectionsToMatches(b, pattern) ==
  [i \in DOMAIN b.sel.regions |-> MatchStarts(b.data, b.sel.regions[i], pattern)]

MatchedLen(matches, pattern) ==
  FoldLeft(LAMBDA n, starts : n + Len(starts) * Len(pattern), 0, matches)

-----------------------------------------------------------------------------
\* A slip: one byte too many is cut out with each match.
CutOneMore(a, s, n) ==
  IF a.rest = << >> THEN a
  ELSE LET sides == SplitAtRegion(a.rest[1], s, s + n)
       IN [out |-> a.out \o sides.left, rest |-> sides.right]

\* A match of n bytes at offset s is cut out of the rest of a region.
CutMatch(a, s, n) ==
  IF a.rest = << >> THEN a
  ELSE LET sides == SplitAtRegion(a.rest[1], s, s + n - 1)
       IN [out |-> a.out \o sides.left, rest |-> sides.right]

CutUpTo(r, starts, n) ==
  LET a[k \in 0 .. Len(starts)] ==
        IF k = 0 THEN [out |-> << >>, rest |-> << r >>] ELSE CutMatch(a[k - 1], starts[k], n)
  IN a

\* What is left of r once the matches are cut out of it.
CutOut(r, starts, n) ==
  LET all == CutUpTo(r, starts, n)[Len(starts)]
  IN all.out \o all.rest

\* SearchAcceptor::apply_search of Split.
SplitSearch(b, pattern) ==
  LET matches == MapSelectionsToMatches(b, pattern)
  IN WithSelection(b, MapSelections(b.sel,
       [i \in DOMAIN matches |-> CutOut(b.sel.regions[i], matches[i], Len(pattern))]))

\* Split refuses an empty pattern, and a match of everything selected.
SplitRefuses(b, pattern) ==
  \/ pattern = << >>
  \/ MatchedLen(MapSelectionsToMatches(b, pattern), pattern) = LenBytes(b.sel)

\* SearchAcceptor::apply_search of Collapse.
CollapseSearch(b, pattern) ==
  LET matches == MapSelectionsToMatches(b, pattern)
      found(i) == [k \in DOMAIN matches[i] |->
                     InheritDirection(Region(matches[i][k], matches[i][k] + Len(pattern) - 1),
                                      b.sel.regions[i])]
  IN WithSelection(b, MapSelections(b.sel, [i \in DOMAIN matches |-> found(i)]))

\* A slip: a pattern that matches nothing is accepted.
RefusesEmpty(b, pattern) == pattern = << >>

\* Collapse refuses an empty pattern, and one that matches nothing.
CollapseRefuses(b, pattern) ==
  \/ pattern = << >>
  \/ MatchedLen(MapSelectionsToMatches(b, pattern), pattern) = 0

\* A slip: every piece of the main selection is flagged.
SplitFlagged(b, width) ==
  LET start(r, k) == RMin(r) + (k - 1) * width
      pieces(r) == [k \in 1 .. (RMax(r) - RMin(r)) \div width + 1 |->
                      [caret |-> Lesser(RMax(r), start(r, k) + width - 1),
                       tail |-> start(r, k), main |-> r.main]]
  IN WithSelection(b, MapSelections(b.sel,
       [i \in DOMAIN b.sel.regions |-> pieces(b.sel.regions[i])]))

\* Split's Width action: pieces of width bytes, in the direction of the region.
SplitWidth(b, width) ==
  LET start(r, k) == RMin(r) + (k - 1) * width
      pieces(r) == [k \in 1 .. (RMax(r) - RMin(r)) \div width + 1 |->
                      WithDirection(Region(start(r, k),
                                           Lesser(RMax(r), start(r, k) + width - 1)),
                                    Backward(r))]
  IN IF width = 0 THEN Crash(b)
     ELSE WithSelection(b, MapSelections(b.sel,
            [i \in DOMAIN b.sel.regions |-> pieces(b.sel.regions[i])]))
=============================================================================
