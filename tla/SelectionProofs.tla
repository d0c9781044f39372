--------------------------- MODULE SelectionProofs ---------------------------
(***************************************************************************)
(* Proofs about the selection (modules SelRegion and Selection), and about *)
(* what the buffer and the search patterns do to it.                       *)
(*                                                                         *)
(* The INVARIANT comments of struct Selection (src/selection.rs) say that  *)
(* the regions are sorted and do not overlap.  map_selections keeps that   *)
(* promise if the regions its closure makes begin in the order of the old  *)
(* ones: it merges what overlaps and panics where it cannot.  Every        *)
(* closure of the editor makes such regions: one region for one, by an     *)
(* order-preserving map (Steady), or pieces of a region that lie within it *)
(* (Within).  A delta moves the ends of the regions in order as well.      *)
(***************************************************************************)
EXTENDS Pattern, DeltaProofs, SequenceTheorems

\* A region of natural offsets, its ends in order.
LEMMA RegionBounds ==
  ASSUME NEW r \in Regions
  PROVE  /\ RMin(r) \in Nat /\ RMax(r) \in Nat /\ RMin(r) <= RMax(r)
         /\ RMin(r) <= r.caret /\ r.caret <= RMax(r) /\ RMin(r) <= r.tail /\ r.tail <= RMax(r)
         /\ r.caret \in Nat /\ r.tail \in Nat /\ r.main \in BOOLEAN
BY DEF Regions, RMin, RMax, Lesser, Greater

\* SelRegion::merge begins where the first region begins and stays main if it was.
LEMMA MergeProperties ==
  ASSUME NEW a \in Regions, NEW b \in Regions, RMin(a) <= RMin(b)
  PROVE  /\ Merge(a, b) \in Regions
         /\ RMin(Merge(a, b)) = RMin(a)
         /\ a.main => Merge(a, b).main
<1> DEFINE lo == Lesser(RMin(a), RMin(b))
           hi == Greater(RMax(a), RMax(b))
<1>1. lo = RMin(a) /\ lo \in Nat /\ hi \in Nat /\ lo <= hi
  BY RegionBounds DEF Lesser, Greater
<1>2. PICK m : m = Merge(a, b)
  OBVIOUS
<1>3. /\ m = [caret |-> IF BothForward(a, b) THEN hi ELSE lo,
              tail  |-> IF BothForward(a, b) THEN lo ELSE hi,
              main  |-> a.main \/ b.main]
      /\ (a.main \/ b.main) \in BOOLEAN
  BY <1>2 DEF Merge
<1> HIDE DEF lo, hi
<1>4. m \in Regions
  BY <1>1, <1>3 DEF Regions
<1>5. RMin(m) = lo
  BY <1>1, <1>3 DEF RMin, Lesser
<1>6. a.main => m.main
  BY <1>3
<1> QED BY <1>1, <1>2, <1>4, <1>5, <1>6

\* The last of the regions made so far does not begin after r.
Below(out, r) == out # << >> => RMin(out[Len(out)]) <= RMin(r)

\* p holds the regions of out, and their main flags, and then perhaps more.
Holding(out, p) == Len(p) >= Len(out) /\ \A i \in 1 .. Len(out) : out[i].main => p[i].main

\* Pushing a region that begins no earlier than the last keeps the list sorted.
LEMMA PushRegionSorted ==
  ASSUME NEW out \in Seq(Regions), NEW r \in Regions, SortedDisjoint(out), Below(out, r),
         NEW p, p = PushRegion(out, r)
  PROVE  /\ p \in Seq(Regions) /\ p # << >> /\ SortedDisjoint(p)
         /\ RMin(p[Len(p)]) <= RMin(r) /\ Holding(out, p)
<1>1. PICK n \in Nat : n = Len(out)
  BY LenProperties
<1>2. \A i \in 1 .. n : out[i] \in Regions
  BY <1>1, ElementOfSeq
<1>3. \A i \in 1 .. n - 1 : RMax(out[i]) < RMin(out[i + 1])
  BY <1>1 DEF SortedDisjoint
<1>4. RMin(r) \in Nat
  BY RegionBounds
<1>5. CASE out = << >> \/ ~Overlaps(Last(out), r)
  <2>1. p = Append(out, r)
    BY <1>5 DEF PushRegion
  <2>2. /\ p \in Seq(Regions) /\ Len(p) = n + 1 /\ p[n + 1] = r
        /\ \A i \in 1 .. n : p[i] = out[i]
    BY <1>1, <2>1, AppendProperties
  <2>3. n # 0 => RMax(out[n]) < RMin(r)
    <3> SUFFICES ASSUME n # 0 PROVE RMax(out[n]) < RMin(r)
      OBVIOUS
    <3>1. out # << >> /\ out[n] \in Regions /\ Last(out) = out[n]
      BY <1>1, <1>2, EmptySeq DEF Last
    <3>2. ~(RMax(out[n]) >= RMin(r))
      BY <1>5, <3>1 DEF Overlaps
    <3> QED BY <1>4, <3>1, <3>2, RegionBounds
  <2>4. SortedDisjoint(p)
    <3> SUFFICES ASSUME NEW i \in 1 .. Len(p) - 1 PROVE RMax(p[i]) < RMin(p[i + 1])
      BY DEF SortedDisjoint
    <3>1. CASE i = n
      BY <1>1, <2>2, <2>3, <3>1
    <3>2. CASE i # n
      <4>1. i \in 1 .. n - 1 /\ i \in 1 .. n /\ i + 1 \in 1 .. n
        BY <1>1, <2>2, <3>2
      <4> QED BY <1>3, <2>2, <4>1
    <3> QED BY <3>1, <3>2
  <2>5. p # << >>
    BY <1>1, <2>2, EmptySeq
  <2> QED BY <1>1, <1>4, <2>2, <2>4, <2>5 DEF Holding
<1>6. CASE out # << >> /\ Overlaps(Last(out), r)
  <2>1. n # 0 /\ n \in 1 .. n /\ out[n] \in Regions /\ Last(out) = out[n]
    BY <1>1, <1>2, <1>6, EmptySeq DEF Last
  <2>2. RMin(out[n]) <= RMin(r)
    BY <1>1, <1>6 DEF Below
  <2>3. PICK m \in Regions : m = Merge(out[n], r) /\ RMin(m) = RMin(out[n]) /\ (out[n].main => m.main)
    BY <2>1, <2>2, MergeProperties
  <2>4. p = [out EXCEPT ![n] = m]
    BY <1>1, <1>6, <2>1, <2>3 DEF PushRegion
  <2>5. /\ p \in Seq(Regions) /\ Len(p) = n
        /\ \A i \in 1 .. n : p[i] = IF i = n THEN m ELSE out[i]
    BY <1>1, <2>1, <2>4, ExceptSeq
  <2>6. SortedDisjoint(p)
    <3> SUFFICES ASSUME NEW i \in 1 .. n - 1 PROVE RMax(p[i]) < RMin(p[i + 1])
      BY <2>5 DEF SortedDisjoint
    <3>1. i \in 1 .. n /\ i + 1 \in 1 .. n /\ i # n
      OBVIOUS
    <3>2. RMax(out[i]) < RMin(out[i + 1])
      BY <1>3
    <3> QED BY <2>3, <2>5, <3>1, <3>2
  <2>7. p # << >>
    BY <2>1, <2>5, EmptySeq
  <2> QED BY <1>1, <2>1, <2>2, <2>3, <2>5, <2>6, <2>7 DEF Holding
<1> QED BY <1>5, <1>6

-----------------------------------------------------------------------------
(* map_selections.                                                         *)

Accs == [out : Seq(Regions), main : Nat, panic : BOOLEAN]

\* The fields of what map_selections has made so far.
LEMMA MappedFields ==
  ASSUME NEW out \in Seq(Regions), NEW main \in Nat, NEW panic \in BOOLEAN
  PROVE  /\ Mapped(out, main, panic) \in Accs
         /\ Mapped(out, main, panic).out = out
         /\ Mapped(out, main, panic).main = main
         /\ Mapped(out, main, panic).panic = panic
BY DEF Mapped, Accs

\* The types of those fields.
LEMMA AccFields ==
  ASSUME NEW acc \in Accs
  PROVE  acc.out \in Seq(Regions) /\ acc.main \in Nat /\ acc.panic \in BOOLEAN
BY DEF Accs

\* Merging any two regions makes a region.
LEMMA MergeType ==
  ASSUME NEW a \in Regions, NEW b \in Regions
  PROVE  Merge(a, b) \in Regions
<1> DEFINE lo == Lesser(RMin(a), RMin(b))
           hi == Greater(RMax(a), RMax(b))
<1>1. lo \in Nat /\ hi \in Nat /\ (a.main \/ b.main) \in BOOLEAN
  BY RegionBounds DEF Lesser, Greater
<1> HIDE DEF lo, hi
<1> QED BY <1>1 DEF Merge, Regions, lo, hi

\* One turn of the inner loop.
LEMMA PushType ==
  ASSUME NEW acc \in Accs, NEW r \in Regions
  PROVE  /\ Push(acc, r) \in Accs
         /\ Push(acc, r).out = PushRegion(acc.out, r)
         /\ Push(acc, r).main = acc.main
         /\ Push(acc, r).panic = (acc.panic \/ PushPanics(acc.out, r))
<1>1. PICK out \in Seq(Regions) : out = acc.out
  BY AccFields
<1>2. PushRegion(out, r) \in Seq(Regions)
  <2>1. CASE out = << >> \/ ~Overlaps(Last(out), r)
    BY <2>1, AppendProperties DEF PushRegion
  <2>2. CASE out # << >> /\ Overlaps(Last(out), r)
    <3>1. Len(out) \in 1 .. Len(out) /\ Last(out) = out[Len(out)]
      BY <2>2, EmptySeq, LenProperties DEF Last
    <3>2. Last(out) \in Regions
      BY <3>1, ElementOfSeq
    <3>3. PICK m \in Regions : m = Merge(Last(out), r)
      BY <3>2, MergeType
    <3>4. [out EXCEPT ![Len(out)] = m] \in Seq(Regions)
      BY <3>1, ExceptSeq
    <3> QED BY <2>2, <3>3, <3>4 DEF PushRegion
  <2> QED BY <2>1, <2>2
<1> DEFINE x == acc.panic \/ PushPanics(acc.out, r)
<1>3. x \in BOOLEAN
  OBVIOUS
<1>4. Push(acc, r) = Mapped(PushRegion(acc.out, r), acc.main, x)
  BY DEF Push
<1> HIDE DEF x
<1>5. /\ Push(acc, r) \in Accs /\ Push(acc, r).out = PushRegion(acc.out, r)
      /\ Push(acc, r).main = acc.main /\ Push(acc, r).panic = x
  <2>1. PICK p \in Seq(Regions), m \in Nat, y \in BOOLEAN :
          p = PushRegion(acc.out, r) /\ m = acc.main /\ y = x
    BY <1>1, <1>2, <1>3, AccFields
  <2>2. Push(acc, r) = Mapped(p, m, y)
    BY <1>4, <2>1
  <2> QED BY <2>1, <2>2, MappedFields
<1> QED BY <1>5 DEF x

\* The inner loop runs as it is written.
LEMMA PushDef ==
  ASSUME NEW acc \in Accs, NEW rs \in Seq(Regions)
  PROVE  /\ PushUpTo(acc, rs)[0] = acc
         /\ \A k \in 1 .. Len(rs) : PushUpTo(acc, rs)[k] = Push(PushUpTo(acc, rs)[k - 1], rs[k])
         /\ \A k \in 0 .. Len(rs) : PushUpTo(acc, rs)[k] \in Accs
<1> DEFINE n == Len(rs)
           A == Accs
           a == acc
           Step(s, k) == Push(s, rs[k])
           O == PushUpTo(acc, rs)
<1>1. n \in Nat /\ a \in A
  BY LenProperties
<1>2. ASSUME NEW s \in A, NEW k \in 1 .. n PROVE Step(s, k) \in A
  BY ElementOfSeq, PushType
<1>3. O = CHOOSE h : h = [k \in 0 .. n |-> IF k = 0 THEN a ELSE Step(h[k - 1], k)]
  BY DEF PushUpTo
<1>4. /\ O[0] = a
      /\ \A k \in 1 .. n : O[k] = Step(O[k - 1], k)
      /\ \A k \in 0 .. n : O[k] \in A
  <2> DEFINE step == [p \in A \X (1 .. n) |-> Step(p[1], p[2])]
  <2> HIDE DEF Step, A, a, n, O
  <2>1. step \in [A \X (1 .. n) -> A]
    BY <1>2
  <2>2. PICK f \in [0 .. n -> A] : Runs(f, n, a, step)
    <3> HIDE DEF step
    <3> QED BY <1>1, <2>1, Loop
  <2>3. ASSUME NEW k \in 1 .. n PROVE f[k] = Step(f[k - 1], k)
    <3>1. f[k - 1] \in A
      BY <1>1
    <3> QED BY <2>2, <3>1 DEF Runs
  <2>4. f = [k \in 0 .. n |-> IF k = 0 THEN a ELSE Step(f[k - 1], k)]
    <3>1. \A k \in 0 .. n : f[k] = IF k = 0 THEN a ELSE Step(f[k - 1], k)
      BY <1>1, <2>2, <2>3 DEF Runs
    <3> QED BY <3>1
  <2>5. O = [k \in 0 .. n |-> IF k = 0 THEN a ELSE Step(O[k - 1], k)]
    BY <1>3, <2>4
  <2>6. O[0] = a /\ \A k \in 1 .. n : O[k] = Step(O[k - 1], k)
    BY <1>1, <2>5
  <2>7. \A k \in 0 .. n : O[k] \in A
    <3>1. O[0] \in A /\ \A k \in 1 .. n : O[k - 1] \in A => O[k] \in A
      BY <1>1, <1>2, <2>6
    <3> QED BY <1>1, <3>1, LoopType
  <2> QED BY <2>6, <2>7
<1> QED BY <1>4

\* Flagging the last region as the main one moves none.
LEMMA MarkMainType ==
  ASSUME NEW acc \in Accs
  PROVE  /\ MarkMain(acc) \in Accs
         /\ \A i \in 1 .. Len(acc.out) - 1 : MarkMain(acc).out[i] = acc.out[i]
         /\ ~MarkMain(acc).panic => /\ ~acc.panic /\ Len(acc.out) # 0
                                    /\ MarkMain(acc).main = Len(acc.out) - 1
                                    /\ Len(MarkMain(acc).out) = Len(acc.out)
                                    /\ MarkMain(acc).out[Len(acc.out)].main
         /\ \A i \in 1 .. Len(acc.out) : /\ RMin(MarkMain(acc).out[i]) = RMin(acc.out[i])
                                         /\ RMax(MarkMain(acc).out[i]) = RMax(acc.out[i])
<1>1. PICK out \in Seq(Regions), n \in Nat : out = acc.out /\ n = Len(out)
  BY AccFields, LenProperties
<1>2. CASE n = 0
  <2>1. MarkMain(acc) = Mapped(out, acc.main, TRUE)
    BY <1>1, <1>2 DEF MarkMain
  <2>2. MarkMain(acc) \in Accs /\ MarkMain(acc).panic = TRUE
    <3>1. acc.main \in Nat
      BY AccFields
    <3> QED BY <2>1, <3>1 DEF Mapped, Accs
  <2>3. 1 .. Len(acc.out) = {} /\ 1 .. Len(acc.out) - 1 = {}
    BY <1>1, <1>2
  <2> QED BY <2>2, <2>3
<1>3. CASE n # 0
  <2>1. n \in 1 .. n /\ out[n] \in Regions
    BY <1>1, <1>3, ElementOfSeq
  <2>2. PICK m : m = [out[n] EXCEPT !.main = TRUE]
    OBVIOUS
  <2>3. m \in Regions /\ m.main /\ RMin(m) = RMin(out[n]) /\ RMax(m) = RMax(out[n])
    BY <2>1, <2>2 DEF Regions, RMin, RMax, Lesser, Greater
  <2>4. PICK p : p = [out EXCEPT ![n] = m]
    OBVIOUS
  <2>5. /\ p \in Seq(Regions) /\ Len(p) = n
        /\ \A i \in 1 .. n : p[i] = IF i = n THEN m ELSE out[i]
    BY <1>1, <2>1, <2>3, <2>4, ExceptSeq
  <2>6. MarkMain(acc) = Mapped(p, n - 1, acc.panic)
    BY <1>1, <1>3, <2>2, <2>4 DEF MarkMain
  <2>7. n - 1 \in Nat
    BY <1>3
  <2>8. /\ MarkMain(acc) \in Accs /\ MarkMain(acc).out = p
        /\ MarkMain(acc).main = n - 1 /\ MarkMain(acc).panic = acc.panic
    <3>1. acc.panic \in BOOLEAN
      BY AccFields
    <3> QED BY <2>5, <2>6, <2>7, <3>1, MappedFields
  <2> QED BY <1>1, <1>3, <2>1, <2>3, <2>5, <2>8
<1> QED BY <1>2, <1>3

\* Holding is transitive.
LEMMA HoldingOn ==
  ASSUME NEW o \in Seq(Regions), NEW p \in Seq(Regions), NEW q \in Seq(Regions),
         Holding(o, p), Holding(p, q)
  PROVE  Holding(o, q)
BY LenProperties DEF Holding

\* The regions rs begin one after the other.
Ascending(rs) == \A k \in 1 .. Len(rs), l \in 1 .. Len(rs) : k <= l => RMin(rs[k]) <= RMin(rs[l])

\* What the inner loop has made of acc after k turns.
Grown(acc, a, rs, k) ==
  ~a.panic => /\ ~acc.panic /\ SortedDisjoint(a.out) /\ a.main = acc.main
              /\ Holding(acc.out, a.out)
              /\ k = 0 => a.out = acc.out
              /\ k > 0 => a.out # << >> /\ RMin(a.out[Len(a.out)]) <= RMin(rs[k])

\* The next region begins no earlier than the last one made.
LEMMA GrownBelow ==
  ASSUME NEW acc \in Accs, NEW rs \in Seq(Regions), Ascending(rs),
         \A l \in 1 .. Len(rs) : Below(acc.out, rs[l]),
         NEW a \in Accs, NEW k \in 1 .. Len(rs), Grown(acc, a, rs, k - 1), ~a.panic
  PROVE  Below(a.out, rs[k])
<1>1. PICK r \in Regions : r = rs[k]
  BY ElementOfSeq
<1>2. /\ k - 1 = 0 => a.out = acc.out
      /\ k - 1 > 0 => a.out # << >> /\ RMin(a.out[Len(a.out)]) <= RMin(rs[k - 1])
  BY DEF Grown
<1>3. CASE k = 1
  <2>1. a.out = acc.out
    BY <1>2, <1>3
  <2> QED BY <1>1, <2>1
<1>4. CASE k # 1
  <2>1. k - 1 \in 1 .. Len(rs) /\ k - 1 > 0 /\ k - 1 <= k /\ Len(rs) \in Nat
    BY <1>4, LenProperties
  <2>2. RMin(rs[k - 1]) <= RMin(r) /\ rs[k - 1] \in Regions
    BY <1>1, <2>1, ElementOfSeq DEF Ascending
  <2>3. a.out # << >> /\ RMin(a.out[Len(a.out)]) <= RMin(rs[k - 1])
    BY <1>2, <2>1
  <2>4. a.out[Len(a.out)] \in Regions
    <3>1. a.out \in Seq(Regions)
      BY AccFields
    <3>2. Len(a.out) \in 1 .. Len(a.out)
      BY <2>3, <3>1, EmptySeq, LenProperties
    <3> QED BY <3>1, <3>2, ElementOfSeq
  <2>5. PICK x \in Nat, y \in Nat, z \in Nat :
          x = RMin(a.out[Len(a.out)]) /\ y = RMin(rs[k - 1]) /\ z = RMin(r)
    BY <2>2, <2>4, RegionBounds
  <2>6. x <= z
    BY <2>2, <2>3, <2>5
  <2> QED BY <1>1, <2>5, <2>6 DEF Below
<1> QED BY <1>3, <1>4

\* One turn of the inner loop keeps its invariant.
LEMMA PushKeepsGrown ==
  ASSUME NEW acc \in Accs, NEW rs \in Seq(Regions), Ascending(rs),
         \A l \in 1 .. Len(rs) : Below(acc.out, rs[l]),
         NEW a \in Accs, NEW b, NEW k \in 1 .. Len(rs), Grown(acc, a, rs, k - 1),
         b = Push(a, rs[k])
  PROVE  Grown(acc, b, rs, k)
<1> SUFFICES ASSUME ~b.panic
             PROVE  /\ ~acc.panic /\ SortedDisjoint(b.out) /\ b.main = acc.main
                    /\ Holding(acc.out, b.out)
                    /\ b.out # << >> /\ RMin(b.out[Len(b.out)]) <= RMin(rs[k])
  BY LenProperties DEF Grown
<1>1. PICK r \in Regions : r = rs[k]
  BY ElementOfSeq
<1>2. /\ b \in Accs /\ b.out = PushRegion(a.out, r) /\ b.main = a.main
      /\ b.panic = (a.panic \/ PushPanics(a.out, r))
  BY <1>1, PushType
<1>3. ~a.panic
  BY <1>2
<1>4. /\ ~acc.panic /\ SortedDisjoint(a.out) /\ a.main = acc.main
      /\ Holding(acc.out, a.out)
      /\ k - 1 = 0 => a.out = acc.out
      /\ k - 1 > 0 => a.out # << >> /\ RMin(a.out[Len(a.out)]) <= RMin(rs[k - 1])
  BY <1>3 DEF Grown
<1>5. Below(a.out, r)
  BY <1>1, <1>3, GrownBelow
<1>6. a.out \in Seq(Regions) /\ acc.out \in Seq(Regions) /\ b.out \in Seq(Regions)
  BY <1>2, AccFields
<1>7. /\ b.out # << >> /\ SortedDisjoint(b.out)
      /\ RMin(b.out[Len(b.out)]) <= RMin(r) /\ Holding(a.out, b.out)
  BY <1>2, <1>4, <1>5, <1>6, PushRegionSorted
<1> QED BY <1>1, <1>2, <1>4, <1>6, <1>7, HoldingOn

\* The inner loop, all of it.
LEMMA PushAllSorted ==
  ASSUME NEW acc \in Accs, SortedDisjoint(acc.out), NEW rs \in Seq(Regions), Ascending(rs),
         \A l \in 1 .. Len(rs) : Below(acc.out, rs[l])
  PROVE  /\ PushUpTo(acc, rs)[Len(rs)] \in Accs
         /\ Grown(acc, PushUpTo(acc, rs)[Len(rs)], rs, Len(rs))
<1> DEFINE P == PushUpTo(acc, rs)
           S == {k \in 0 .. Len(rs) : Grown(acc, P[k], rs, k)}
<1>1. /\ P[0] = acc /\ \A k \in 1 .. Len(rs) : P[k] = Push(P[k - 1], rs[k])
      /\ \A k \in 0 .. Len(rs) : P[k] \in Accs
  BY PushDef
<1>2. Len(rs) \in Nat
  BY LenProperties
<1> HIDE DEF P
<1>3. 0 \in S
  BY <1>1, <1>2 DEF Grown, Holding
<1>4. \A k \in 0 .. Len(rs) - 1 : k \in S => k + 1 \in S
  <2> SUFFICES ASSUME NEW k \in 0 .. Len(rs) - 1, Grown(acc, P[k], rs, k)
               PROVE  k + 1 \in 0 .. Len(rs) /\ Grown(acc, P[k + 1], rs, k + 1)
    OBVIOUS
  <2>1. PICK j \in 1 .. Len(rs) : j = k + 1 /\ k = j - 1 /\ k \in 0 .. Len(rs) /\ j \in 0 .. Len(rs)
    BY <1>2
  <2>2. P[j] = Push(P[j - 1], rs[j]) /\ P[j - 1] \in Accs
    BY <1>1, <2>1
  <2>3. Grown(acc, P[j - 1], rs, j - 1)
    BY <2>1
  <2>4. Grown(acc, P[j], rs, j)
    BY <2>2, <2>3, PushKeepsGrown
  <2> QED BY <2>1, <2>4
<1>5. \A k \in 0 .. Len(rs) : k \in S
  <2> HIDE DEF S
  <2> QED BY <1>2, <1>3, <1>4, Induction
<1>6. Len(rs) \in 0 .. Len(rs)
  BY <1>2
<1> QED BY <1>1, <1>5, <1>6 DEF P

\* news holds the regions that each of n regions is replaced by, all of them in
\* order of where they begin.
InOrder(news, n) ==
  /\ \A i \in 1 .. n : news[i] \in Seq(Regions) /\ Ascending(news[i])
  /\ \A i \in 1 .. n, j \in 1 .. n : i < j =>
       \A k \in 1 .. Len(news[i]), l \in 1 .. Len(news[j]) : RMin(news[i][k]) <= RMin(news[j][l])

\* What the outer loop has made after i turns, for the main region m + 1.
Made(acc, news, n, m, i) ==
  ~acc.panic => /\ SortedDisjoint(acc.out)
                /\ \A j \in i + 1 .. n : \A l \in 1 .. Len(news[j]) : Below(acc.out, news[j][l])
                /\ m < i => acc.main < Len(acc.out) /\ acc.out[acc.main + 1].main

\* The last region of a list that has one.
LEMMA LastRegion ==
  ASSUME NEW out \in Seq(Regions), out # << >>
  PROVE  /\ Len(out) \in Nat /\ Len(out) # 0 /\ Len(out) \in 1 .. Len(out)
         /\ out[Len(out)] \in Regions /\ RMin(out[Len(out)]) \in Nat
BY EmptySeq, LenProperties, ElementOfSeq, RegionBounds

\* One turn of the outer loop keeps its invariant.
LEMMA MapRegionMade ==
  ASSUME NEW sel, NEW news, NEW n \in Nat, NEW m \in Nat, m < n, sel.main_selection = m,
         InOrder(news, n), NEW acc \in Accs, NEW i \in 1 .. n, Made(acc, news, n, m, i - 1)
  PROVE  /\ MapRegion(sel, news, acc, i) \in Accs
         /\ Made(MapRegion(sel, news, acc, i), news, n, m, i)
<1>1. CASE acc.panic
  <2>1. MapRegion(sel, news, acc, i) = acc
    BY <1>1 DEF MapRegion
  <2> QED BY <1>1, <2>1 DEF Made
<1>2. CASE ~acc.panic
  <2>1. PICK rs \in Seq(Regions) : rs = news[i] /\ Ascending(rs)
    BY DEF InOrder
  <2>2. PICK b : b = PushUpTo(acc, rs)[Len(rs)]
    OBVIOUS
  <2>3. /\ SortedDisjoint(acc.out)
        /\ \A j \in i .. n : \A l \in 1 .. Len(news[j]) : Below(acc.out, news[j][l])
        /\ m < i - 1 => acc.main < Len(acc.out) /\ acc.out[acc.main + 1].main
    <3>1. (i - 1) + 1 = i
      OBVIOUS
    <3> QED BY <1>2, <3>1 DEF Made
  <2>4. \A l \in 1 .. Len(rs) : Below(acc.out, rs[l])
    <3>1. i \in i .. n
      OBVIOUS
    <3> QED BY <2>1, <2>3, <3>1
  <2>5. b \in Accs /\ Grown(acc, b, rs, Len(rs))
    BY <2>1, <2>2, <2>3, <2>4, PushAllSorted
  <2>6. acc.out \in Seq(Regions) /\ b.out \in Seq(Regions) /\ Len(rs) \in Nat
    BY <2>5, AccFields, LenProperties
  <2>7. ASSUME ~b.panic
        PROVE  /\ SortedDisjoint(b.out) /\ b.main = acc.main /\ Holding(acc.out, b.out)
               /\ \A j \in i + 1 .. n : \A l \in 1 .. Len(news[j]) : Below(b.out, news[j][l])
    <3>1. /\ SortedDisjoint(b.out) /\ b.main = acc.main /\ Holding(acc.out, b.out)
          /\ Len(rs) = 0 => b.out = acc.out
          /\ Len(rs) > 0 => b.out # << >> /\ RMin(b.out[Len(b.out)]) <= RMin(rs[Len(rs)])
      BY <2>5, <2>7 DEF Grown
    <3>2. ASSUME NEW j \in i + 1 .. n, NEW l \in 1 .. Len(news[j]) PROVE Below(b.out, news[j][l])
      <4>1. CASE Len(rs) = 0
        <5>1. j \in i .. n
          OBVIOUS
        <5> QED BY <2>3, <3>1, <4>1, <5>1
      <4>2. CASE Len(rs) # 0
        <5>1. Len(rs) > 0 /\ Len(rs) \in 1 .. Len(rs) /\ j \in 1 .. n /\ i < j
          BY <2>6, <4>2
        <5>2. RMin(rs[Len(rs)]) <= RMin(news[j][l])
          BY <2>1, <5>1 DEF InOrder
        <5>3. rs[Len(rs)] \in Regions /\ news[j] \in Seq(Regions)
          BY <5>1, ElementOfSeq DEF InOrder
        <5>4. news[j][l] \in Regions
          BY <5>3, ElementOfSeq
        <5>5. PICK x \in Nat, y \in Nat, z \in Nat :
                x = RMin(b.out[Len(b.out)]) /\ y = RMin(rs[Len(rs)]) /\ z = RMin(news[j][l])
          BY <2>6, <3>1, <5>1, <5>3, <5>4, LastRegion, RegionBounds
        <5>6. x <= z
          BY <3>1, <5>1, <5>2, <5>5
        <5> QED BY <5>5, <5>6 DEF Below
      <4> QED BY <4>1, <4>2
    <3> QED BY <3>1, <3>2
  <2>8. CASE i = m + 1
    <3>1. PICK c : c = MarkMain(b)
      OBVIOUS
    <3>2. MapRegion(sel, news, acc, i) = c
      BY <1>2, <2>1, <2>2, <2>8, <3>1 DEF MapRegion
    <3>3. /\ c \in Accs
          /\ ~c.panic => /\ ~b.panic /\ Len(b.out) # 0 /\ c.main = Len(b.out) - 1
                         /\ Len(c.out) = Len(b.out) /\ c.out[Len(b.out)].main
          /\ \A k \in 1 .. Len(b.out) : RMin(c.out[k]) = RMin(b.out[k]) /\ RMax(c.out[k]) = RMax(b.out[k])
      BY <2>5, <3>1, MarkMainType
    <3>4. ASSUME ~c.panic PROVE Made(c, news, n, m, i)
      <4>1. PICK q \in Nat : q = Len(b.out) /\ q # 0 /\ q = Len(c.out)
        BY <2>6, <3>3, <3>4, LenProperties
      <4>2. SortedDisjoint(c.out)
        <5> SUFFICES ASSUME NEW k \in 1 .. q - 1 PROVE RMax(c.out[k]) < RMin(c.out[k + 1])
          BY <4>1 DEF SortedDisjoint
        <5>1. k \in 1 .. q /\ k + 1 \in 1 .. q
          OBVIOUS
        <5>2. RMax(b.out[k]) < RMin(b.out[k + 1])
          BY <2>7, <3>3, <3>4, <4>1 DEF SortedDisjoint
        <5> QED BY <3>3, <4>1, <5>1, <5>2
      <4>3. ASSUME NEW j \in i + 1 .. n, NEW l \in 1 .. Len(news[j]) PROVE Below(c.out, news[j][l])
        <5>1. Below(b.out, news[j][l])
          BY <2>7, <3>3, <3>4
        <5>2. q \in 1 .. q
          BY <4>1
        <5>3. RMin(c.out[q]) = RMin(b.out[q])
          BY <3>3, <4>1, <5>2
        <5>4. b.out # << >>
          BY <2>6, <4>1, EmptySeq
        <5> QED BY <4>1, <5>1, <5>3, <5>4 DEF Below
      <4>4. c.main < Len(c.out) /\ c.out[c.main + 1].main
        <5>1. c.main = q - 1 /\ (q - 1) + 1 = q /\ c.out[q].main
          BY <3>3, <3>4, <4>1
        <5> QED BY <4>1, <5>1
      <4> QED BY <4>2, <4>3, <4>4 DEF Made
    <3> QED BY <3>2, <3>3, <3>4 DEF Made
  <2>9. CASE i # m + 1
    <3>1. MapRegion(sel, news, acc, i) = b
      BY <1>2, <2>1, <2>2, <2>9 DEF MapRegion
    <3>2. ASSUME ~b.panic, m < i PROVE b.main < Len(b.out) /\ b.out[b.main + 1].main
      <4>1. m < i - 1
        BY <2>9, <3>2
      <4>2. PICK k \in Nat : k = acc.main /\ k < Len(acc.out) /\ acc.out[k + 1].main
        BY <2>3, <4>1, AccFields
      <4>3. k + 1 \in 1 .. Len(acc.out) /\ k < Len(b.out)
        BY <2>6, <2>7, <3>2, <4>2, LenProperties, SMTT(30) DEF Holding
      <4>4. b.out[k + 1].main
        BY <2>7, <3>2, <4>2, <4>3 DEF Holding
      <4>5. b.main = k
        BY <2>7, <3>2, <4>2
      <4> QED BY <4>3, <4>4, <4>5
    <3> QED BY <2>5, <2>7, <3>1, <3>2 DEF Made
  <2> QED BY <2>8, <2>9
<1> QED BY <1>1, <1>2

\* The selections that keep the promises of struct Selection: regions sorted and
\* apart, at least one, one of them main and flagged so.
Selections ==
  {s \in [regions : Seq(Regions), main_selection : Nat] :
     /\ s.main_selection < Len(s.regions) /\ SortedDisjoint(s.regions)
     /\ MainRegion(s).main}

\* What is known of a selection.
LEMMA SelectionFields ==
  ASSUME NEW s \in Selections
  PROVE  /\ s.regions \in Seq(Regions) /\ s.main_selection \in Nat /\ Len(s.regions) \in Nat
         /\ s.main_selection < Len(s.regions) /\ SortedDisjoint(s.regions)
         /\ s.regions[s.main_selection + 1].main
         /\ DOMAIN s.regions = 1 .. Len(s.regions)
         /\ \A i \in 1 .. Len(s.regions) : s.regions[i] \in Regions
BY LenProperties, ElementOfSeq DEF Selections, MainRegion

\* A selection put together.
LEMMA SelectionOf ==
  ASSUME NEW R \in Seq(Regions), NEW m \in Nat, m < Len(R), SortedDisjoint(R), R[m + 1].main
  PROVE  [regions |-> R, main_selection |-> m] \in Selections
BY DEF Selections, MainRegion

\* The outer loop begins with nothing made.
LEMMA EmptyMade ==
  ASSUME NEW news, NEW n \in Nat, NEW m \in Nat
  PROVE  /\ Mapped(<< >>, 0, FALSE) \in Accs
         /\ Made(Mapped(<< >>, 0, FALSE), news, n, m, 0)
<1>1. PICK a : a = Mapped(<< >>, 0, FALSE)
  OBVIOUS
<1>2. << >> \in Seq(Regions) /\ Len(<< >>) = 0 /\ FALSE \in BOOLEAN /\ 0 \in Nat
  BY EmptySeq
<1>3. a \in Accs /\ a.out = << >>
  BY <1>1, <1>2, MappedFields
<1>4. SortedDisjoint(a.out)
  <2>1. 1 .. Len(a.out) - 1 = {}
    BY <1>2, <1>3
  <2> QED BY <2>1 DEF SortedDisjoint
<1>5. \A r : Below(a.out, r)
  BY <1>3 DEF Below
<1>6. ~(m < 0)
  OBVIOUS
<1> QED BY <1>1, <1>3, <1>4, <1>5, <1>6 DEF Made

\* The outer loop is the loop it is written as, and keeps what it made in order.
LEMMA MapDef ==
  ASSUME NEW sel, NEW news, NEW n \in Nat, n = Len(sel.regions), NEW m \in Nat, m < n,
         sel.main_selection = m, InOrder(news, n)
  PROVE  /\ MapUpTo(sel, news)[0] = Mapped(<< >>, 0, FALSE)
         /\ \A k \in 1 .. n : MapUpTo(sel, news)[k] = MapRegion(sel, news, MapUpTo(sel, news)[k - 1], k)
         /\ \A k \in 0 .. n : MapUpTo(sel, news)[k] \in Accs /\ Made(MapUpTo(sel, news)[k], news, n, m, k)
<1> DEFINE a == Mapped(<< >>, 0, FALSE)
           Good(s, k) == s \in Accs /\ Made(s, news, n, m, k)
           Step(s, k) == MapRegion(sel, news, s, k)
           A == [k \in 0 .. n |-> {s \in Accs : Good(s, k)}]
           C == MapUpTo(sel, news)
<1>1. Good(a, 0)
  BY EmptyMade
<1>2. ASSUME NEW k \in 1 .. n, NEW s, Good(s, k - 1) PROVE Good(Step(s, k), k)
  BY <1>2, MapRegionMade
<1>3. C = CHOOSE h : h = [k \in 0 .. n |-> IF k = 0 THEN a ELSE Step(h[k - 1], k)]
  BY DEF MapUpTo
<1>4. \A s, k : Good(s, k) => s \in Accs
  OBVIOUS
<1> HIDE DEF Good, Step, a, C
<1>5. /\ C[0] = a /\ \A k \in 1 .. n : C[k] = Step(C[k - 1], k)
      /\ \A k \in 0 .. n : Good(C[k], k)
  <2> DEFINE step == [p \in Accs \X (1 .. n) |-> Step(p[1], p[2])]
  <2>1. \A k \in 0 .. n : \A s : s \in A[k] <=> Good(s, k)
    BY <1>4
  <2>2. \A k \in 1 .. n : \A s \in A[k - 1] : step[<< s, k >>] = Step(s, k) /\ step[<< s, k >>] \in A[k]
    <3> SUFFICES ASSUME NEW k \in 1 .. n, NEW s \in A[k - 1]
                 PROVE  step[<< s, k >>] = Step(s, k) /\ step[<< s, k >>] \in A[k]
      OBVIOUS
    <3>1. k \in 0 .. n /\ k - 1 \in 0 .. n
      OBVIOUS
    <3>2. s \in Accs /\ Good(s, k - 1)
      BY <1>4, <2>1, <3>1
    <3>3. step[<< s, k >>] = Step(s, k)
      BY <3>2
    <3>4. Step(s, k) \in A[k]
      BY <1>2, <2>1, <3>1, <3>2
    <3> QED BY <3>3, <3>4
  <2>3. a \in A[0]
    <3>1. 0 \in 0 .. n
      OBVIOUS
    <3> QED BY <1>1, <2>1, <3>1, Zenon
  <2> HIDE DEF step, A
  <2>4. PICK f : /\ DOMAIN f = 0 .. n /\ f = [k \in 0 .. n |-> f[k]]
                 /\ Runs(f, n, a, step)
                 /\ \A k \in 0 .. n : f[k] \in A[k]
    BY <2>2, <2>3, LoopWithin
  <2>5. ASSUME NEW k \in 1 .. n PROVE f[k] = Step(f[k - 1], k)
    <3>1. k - 1 \in 0 .. n
      OBVIOUS
    <3>2. f[k - 1] \in A[k - 1]
      BY <2>4, <3>1
    <3>3. f[k] = step[<< f[k - 1], k >>]
      BY <2>4 DEF Runs
    <3>4. step[<< f[k - 1], k >>] = Step(f[k - 1], k)
      BY <2>2, <3>2
    <3> QED BY <3>3, <3>4
  <2>6. f = [k \in 0 .. n |-> IF k = 0 THEN a ELSE Step(f[k - 1], k)]
    <3>1. ASSUME NEW k \in 0 .. n PROVE f[k] = IF k = 0 THEN a ELSE Step(f[k - 1], k)
      <4>1. f[0] = a
        BY <2>4 DEF Runs
      <4>2. k = 0 \/ k \in 1 .. n
        OBVIOUS
      <4> QED BY <2>5, <4>1, <4>2
    <3>2. [k \in 0 .. n |-> f[k]] = [k \in 0 .. n |-> IF k = 0 THEN a ELSE Step(f[k - 1], k)]
      BY <3>1
    <3> QED BY <2>4, <3>2
  <2>7. C = [k \in 0 .. n |-> IF k = 0 THEN a ELSE Step(C[k - 1], k)]
    BY <1>3, <2>6
  <2>8. C[0] = a /\ \A k \in 1 .. n : C[k] = Step(C[k - 1], k)
    BY <2>7, SMTT(30)
  <2> DEFINE S == {k \in 0 .. n : Good(C[k], k)}
  <2>9. 0 \in S
    BY <1>1, <2>8
  <2>10. \A k \in 0 .. n - 1 : k \in S => k + 1 \in S
    <3> SUFFICES ASSUME NEW k \in 0 .. n - 1, Good(C[k], k) PROVE k + 1 \in S
      OBVIOUS
    <3>1. PICK j \in 1 .. n : j = k + 1 /\ k = j - 1 /\ j \in 0 .. n
      OBVIOUS
    <3>2. Good(C[j], j)
      BY <1>2, <2>8, <3>1
    <3> QED BY <3>1, <3>2
  <2>11. \A k \in 0 .. n : k \in S
    <3> HIDE DEF S
    <3> QED BY <2>9, <2>10, Induction
  <2> QED BY <2>8, <2>11
<1> QED BY <1>5 DEF Good, Step, a, C

\* map_selections keeps the promises of struct Selection when the regions that
\* the old ones are replaced by begin in order.
THEOREM MapKeepsSorted ==
  ASSUME NEW sel \in Selections, NEW news, InOrder(news, Len(sel.regions)),
         ~MapSelections(sel, news).panic
  PROVE  MapSelections(sel, news).sel \in Selections
<1>1. PICK n \in Nat, m \in Nat : n = Len(sel.regions) /\ m = sel.main_selection /\ m < n
  BY SelectionFields
<1>2. PICK a \in Accs : a = MapUpTo(sel, news)[n] /\ Made(a, news, n, m, n)
  <2>1. n \in 0 .. n
    OBVIOUS
  <2> QED BY <1>1, <2>1, MapDef
<1>3. /\ MapSelections(sel, news).panic = a.panic
      /\ MapSelections(sel, news).sel = [regions |-> a.out, main_selection |-> a.main]
  BY <1>1, <1>2 DEF MapSelections
<1>4. SortedDisjoint(a.out) /\ a.main < Len(a.out) /\ a.out[a.main + 1].main
  BY <1>1, <1>2, <1>3 DEF Made
<1>5. a.out \in Seq(Regions) /\ a.main \in Nat
  BY AccFields
<1> QED BY <1>3, <1>4, <1>5, SelectionOf

-----------------------------------------------------------------------------
(* The closures that map_selections is called with.                        *)

\* A region of a selection ends before any later one begins.
LEMMA SortedApart ==
  ASSUME NEW R \in Seq(Regions), SortedDisjoint(R)
  PROVE  \A i \in 1 .. Len(R), j \in 1 .. Len(R) : i < j => RMax(R[i]) < RMin(R[j])
<1>1. PICK n \in Nat : n = Len(R)
  BY LenProperties
<1>2. \A k \in 1 .. n : R[k] \in Regions /\ RMin(R[k]) \in Nat /\ RMax(R[k]) \in Nat /\ RMin(R[k]) <= RMax(R[k])
  BY <1>1, ElementOfSeq, RegionBounds
<1>3. \A k \in 1 .. n - 1 : RMax(R[k]) < RMin(R[k + 1])
  BY <1>1 DEF SortedDisjoint
<1> SUFFICES ASSUME NEW i \in 1 .. n PROVE \A j \in 1 .. n : i < j => RMax(R[i]) < RMin(R[j])
  BY <1>1
<1> DEFINE S == {j \in i + 1 .. n : RMax(R[i]) < RMin(R[j])}
<1>4. CASE i = n
  BY <1>4
<1>5. CASE i # n
  <2>1. i + 1 \in S
    <3>1. i \in 1 .. n - 1 /\ i + 1 \in i + 1 .. n
      BY <1>5
    <3> QED BY <1>3, <3>1
  <2>2. \A k \in i + 1 .. n - 1 : k \in S => k + 1 \in S
    <3> SUFFICES ASSUME NEW k \in i + 1 .. n - 1, RMax(R[i]) < RMin(R[k]) PROVE k + 1 \in S
      OBVIOUS
    <3>1. k \in 1 .. n - 1 /\ k \in 1 .. n /\ k + 1 \in i + 1 .. n /\ k + 1 \in 1 .. n
      OBVIOUS
    <3>2. RMax(R[k]) < RMin(R[k + 1])
      BY <1>3, <3>1
    <3>3. PICK a \in Nat, b \in Nat, c \in Nat, d \in Nat :
            a = RMax(R[i]) /\ b = RMin(R[k]) /\ c = RMax(R[k]) /\ d = RMin(R[k + 1]) /\ b <= c
      BY <1>2, <3>1
    <3>4. a < d
      BY <3>2, <3>3
    <3> QED BY <3>1, <3>3, <3>4
  <2>3. \A k \in i + 1 .. n : k \in S
    <3>1. i + 1 \in Int /\ n \in Int
      OBVIOUS
    <3> HIDE DEF S
    <3> QED BY <2>1, <2>2, <3>1, InductionFrom
  <2> QED BY <2>3
<1> QED BY <1>4, <1>5

\* One new region for each, c[i] for the i-th.
LEMMA EachInOrder ==
  ASSUME NEW n \in Nat, NEW c, NEW news, \A i \in 1 .. n : c[i] \in Regions /\ news[i] = << c[i] >>,
         \A i \in 1 .. n, j \in 1 .. n : i < j => RMin(c[i]) <= RMin(c[j])
  PROVE  InOrder(news, n)
<1>1. ASSUME NEW i \in 1 .. n
      PROVE  news[i] \in Seq(Regions) /\ Len(news[i]) = 1 /\ news[i][1] = c[i]
  <2>1. PICK r \in Regions : r = c[i] /\ news[i] = << r >>
    OBVIOUS
  <2> QED BY <2>1
<1>2. ASSUME NEW i \in 1 .. n PROVE Ascending(news[i])
  <2>1. c[i] \in Regions /\ RMin(c[i]) <= RMin(c[i])
    BY RegionBounds
  <2>2. Len(news[i]) = 1
    BY <1>1
  <2>3. \A k \in 1 .. Len(news[i]) : k = 1
    BY <2>2
  <2> QED BY <1>1, <2>1, <2>3 DEF Ascending
<1>3. ASSUME NEW i \in 1 .. n, NEW j \in 1 .. n, i < j,
             NEW k \in 1 .. Len(news[i]), NEW l \in 1 .. Len(news[j])
      PROVE  RMin(news[i][k]) <= RMin(news[j][l])
  <2>1. Len(news[i]) = 1 /\ Len(news[j]) = 1
    BY <1>1
  <2>2. k = 1 /\ l = 1
    BY <2>1
  <2> QED BY <1>1, <1>3, <2>2
<1> QED BY <1>1, <1>2, <1>3 DEF InOrder

\* g maps regions one by one, keeps the order in which regions apart begin, and flags
\* none as the main one.
Steady(g) ==
  /\ g \in [Regions -> Regions]
  /\ \A r \in Regions, s \in Regions : RMax(r) < RMin(s) => RMin(g[r]) <= RMin(g[s])
  /\ \A r \in Regions : g[r].main => r.main

\* An order-preserving closure hands map_selections its regions in order.
LEMMA SteadyInOrder ==
  ASSUME NEW sel \in Selections, NEW g, Steady(g), NEW news,
         \A i \in 1 .. Len(sel.regions) : news[i] = << g[sel.regions[i]] >>
  PROVE  InOrder(news, Len(sel.regions))
<1>1. PICK R \in Seq(Regions), n \in Nat : R = sel.regions /\ n = Len(R) /\ SortedDisjoint(R)
  BY SelectionFields
<1>2. \A i \in 1 .. n : R[i] \in Regions
  BY <1>1, ElementOfSeq
<1>3. \A i \in 1 .. n, j \in 1 .. n : i < j => RMax(R[i]) < RMin(R[j])
  BY <1>1, SortedApart
<1> DEFINE c == [i \in 1 .. n |-> g[R[i]]]
<1>4. \A i \in 1 .. n : c[i] = g[R[i]] /\ c[i] \in Regions /\ news[i] = << c[i] >>
  BY <1>1, <1>2 DEF Steady
<1>5. \A i \in 1 .. n, j \in 1 .. n : i < j => RMin(c[i]) <= RMin(c[j])
  <2> SUFFICES ASSUME NEW i \in 1 .. n, NEW j \in 1 .. n, i < j PROVE RMin(g[R[i]]) <= RMin(g[R[j]])
    OBVIOUS
  <2> QED BY <1>2, <1>3 DEF Steady
<1> HIDE DEF c
<1>6. InOrder(news, n)
  BY <1>4, <1>5, EachInOrder
<1> QED BY <1>1, <1>6

\* The ends of a new region.
LEMMA RegionOf ==
  ASSUME NEW c \in Nat, NEW t \in Nat
  PROVE  /\ Region(c, t) \in Regions /\ Region(c, t).caret = c /\ Region(c, t).tail = t
         /\ RMin(Region(c, t)) = Lesser(c, t) /\ RMax(Region(c, t)) = Greater(c, t)
         /\ ~Region(c, t).main
BY DEF Region, Regions, RMin, RMax

\* Regions whose ends are in order begin in order.
LEMMA RegionsBegin ==
  ASSUME NEW c \in Nat, NEW t \in Nat, NEW e \in Nat, NEW u \in Nat, c <= e, t <= u
  PROVE  RMin(Region(c, t)) <= RMin(Region(e, u))
BY RegionOf DEF Lesser

\* Of two regions apart, the ends are in the same order.
LEMMA ApartEnds ==
  ASSUME NEW r \in Regions, NEW s \in Regions, RMax(r) < RMin(s)
  PROVE  /\ r.caret <= s.caret /\ r.tail <= s.tail /\ RMin(r) <= RMin(s) /\ RMax(r) <= RMax(s)
         /\ r.caret \in Nat /\ s.caret \in Nat /\ r.tail \in Nat /\ s.tail \in Nat
         /\ RMin(r) \in Nat /\ RMin(s) \in Nat /\ RMax(r) \in Nat /\ RMax(s) \in Nat
<1>1. RMin(r) <= RMax(r) /\ r.caret <= RMax(r) /\ r.tail <= RMax(r)
      /\ RMin(s) <= RMax(s) /\ RMin(s) <= s.caret /\ RMin(s) <= s.tail
      /\ r.caret \in Nat /\ s.caret \in Nat /\ r.tail \in Nat /\ s.tail \in Nat
      /\ RMin(r) \in Nat /\ RMin(s) \in Nat /\ RMax(r) \in Nat /\ RMax(s) \in Nat
  BY RegionBounds
<1> QED BY <1>1

\* Carets that move together stay in order.
LEMMA SteppedInOrder ==
  ASSUME NEW r \in Regions, NEW s \in Regions, r.caret <= s.caret,
         NEW dir \in Directions, NEW bpl \in Nat, NEW max \in Nat, NEW count \in Nat
  PROVE  /\ SteppedCaret(r, dir, bpl, max, count) \in Nat
         /\ SteppedCaret(r, dir, bpl, max, count) <= SteppedCaret(s, dir, bpl, max, count)
<1>1. PICK p \in Nat : p = bpl * count
  OBVIOUS
<1>2. r.caret \in Nat /\ s.caret \in Nat
  BY RegionBounds
<1>3. CASE dir = "Up"
  <2>1. /\ SteppedCaret(r, dir, bpl, max, count) = Greater(0, r.caret - p)
        /\ SteppedCaret(s, dir, bpl, max, count) = Greater(0, s.caret - p)
    BY <1>1, <1>3 DEF SteppedCaret
  <2> QED BY <1>2, <2>1 DEF Greater
<1>4. CASE dir = "Down"
  <2>1. /\ SteppedCaret(r, dir, bpl, max, count) = Lesser(max, r.caret + p)
        /\ SteppedCaret(s, dir, bpl, max, count) = Lesser(max, s.caret + p)
    BY <1>1, <1>4 DEF SteppedCaret
  <2> QED BY <1>2, <2>1 DEF Lesser
<1>5. CASE dir = "Left"
  <2>1. /\ SteppedCaret(r, dir, bpl, max, count) = Greater(0, r.caret - count)
        /\ SteppedCaret(s, dir, bpl, max, count) = Greater(0, s.caret - count)
    BY <1>5 DEF SteppedCaret
  <2> QED BY <1>2, <2>1 DEF Greater
<1>6. CASE dir = "Right"
  <2>1. /\ SteppedCaret(r, dir, bpl, max, count) = Lesser(max, r.caret + count)
        /\ SteppedCaret(s, dir, bpl, max, count) = Lesser(max, s.caret + count)
    BY <1>6 DEF SteppedCaret
  <2> QED BY <1>2, <2>1 DEF Lesser
<1> QED BY <1>3, <1>4, <1>5, <1>6 DEF Directions

\* SelRegion::simple_move keeps the order of carets.
LEMMA MoveInOrder ==
  ASSUME NEW r \in Regions, NEW s \in Regions, r.caret <= s.caret, RMin(r) <= RMin(s),
         NEW dir \in Directions, NEW bpl \in Nat, NEW max \in Nat, NEW count \in Nat
  PROVE  /\ SimpleMove(r, dir, bpl, max, count) \in Regions
         /\ SimpleMove(s, dir, bpl, max, count) \in Regions
         /\ SimpleMove(r, dir, bpl, max, count).caret <= SimpleMove(s, dir, bpl, max, count).caret
         /\ RMin(SimpleMove(r, dir, bpl, max, count)) <= RMin(SimpleMove(s, dir, bpl, max, count))
         /\ SimpleMove(r, dir, bpl, max, count).main => r.main
<1>1. CASE max = 0
  BY <1>1 DEF SimpleMove
<1>2. CASE max # 0
  <2>1. s.caret <= s.caret
    BY RegionBounds
  <2>2. PICK c \in Nat, e \in Nat :
          /\ c = SteppedCaret(r, dir, bpl, max, count) /\ e = SteppedCaret(s, dir, bpl, max, count)
          /\ c <= e
    <3>1. SteppedCaret(s, dir, bpl, max, count) \in Nat
      BY <2>1, SteppedInOrder
    <3>2. /\ SteppedCaret(r, dir, bpl, max, count) \in Nat
          /\ SteppedCaret(r, dir, bpl, max, count) <= SteppedCaret(s, dir, bpl, max, count)
      BY SteppedInOrder
    <3> QED BY <3>1, <3>2
  <2>3. /\ SimpleMove(r, dir, bpl, max, count) = Region(c, c)
        /\ SimpleMove(s, dir, bpl, max, count) = Region(e, e)
    BY <1>2, <2>2 DEF SimpleMove
  <2> QED BY <2>2, <2>3, RegionOf, RegionsBegin
<1> QED BY <1>1, <1>2

\* The closure of the move commands.
LEMMA MoveSteady ==
  ASSUME NEW dir \in Directions, NEW bpl \in Nat, NEW max \in Nat, NEW count \in Nat
  PROVE  Steady([r \in Regions |-> SimpleMove(r, dir, bpl, max, count)])
<1> DEFINE g == [r \in Regions |-> SimpleMove(r, dir, bpl, max, count)]
<1>1. ASSUME NEW r \in Regions PROVE g[r] \in Regions
  <2>1. r.caret <= r.caret /\ RMin(r) <= RMin(r)
    BY RegionBounds
  <2> QED BY <2>1, MoveInOrder
<1>2. ASSUME NEW r \in Regions, NEW s \in Regions, RMax(r) < RMin(s) PROVE RMin(g[r]) <= RMin(g[s])
  BY <1>2, ApartEnds, MoveInOrder
<1>3. g \in [Regions -> Regions]
  BY <1>1
<1>4. ASSUME NEW r \in Regions, g[r].main PROVE r.main
  <2>1. r.caret <= r.caret /\ RMin(r) <= RMin(r)
    BY RegionBounds
  <2>2. SimpleMove(r, dir, bpl, max, count).main => r.main
    BY <2>1, MoveInOrder
  <2> QED BY <1>4, <2>2
<1> HIDE DEF g
<1>5. Steady(g)
  BY <1>2, <1>3, <1>4 DEF Steady
<1> QED BY <1>5 DEF g

\* The same of any closure that builds a region of two offsets, each moved in order.
LEMMA SteadyEnds ==
  ASSUME NEW g, NEW c, NEW t,
         \A r \in Regions : c[r] \in Nat /\ t[r] \in Nat /\ g[r] = Region(c[r], t[r]),
         g = [r \in Regions |-> g[r]],
         \A r \in Regions, s \in Regions : RMax(r) < RMin(s) => c[r] <= c[s] /\ t[r] <= t[s]
  PROVE  Steady(g)
<1>1. \A r \in Regions : g[r] \in Regions
  BY RegionOf
<1>2. g \in [Regions -> Regions]
  BY <1>1
<1>3. ASSUME NEW r \in Regions, NEW s \in Regions, RMax(r) < RMin(s) PROVE RMin(g[r]) <= RMin(g[s])
  BY <1>3, RegionsBegin
<1>4. \A r \in Regions : ~g[r].main
  BY RegionOf
<1> QED BY <1>2, <1>3, <1>4 DEF Steady

\* The closure that changes nothing: any command on an empty buffer.
LEMMA SameSteady == Steady([r \in Regions |-> r])
<1>1. \A r, s \in Regions : RMax(r) < RMin(s) => RMin(r) <= RMin(s)
  BY ApartEnds
<1> QED BY <1>1 DEF Steady

\* The closure of the extend commands.
LEMMA ExtendSteady ==
  ASSUME NEW dir \in Directions, NEW bpl \in Nat, NEW max \in Nat, NEW count \in Nat
  PROVE  Steady([r \in Regions |-> SimpleExtend(r, dir, bpl, max, count)])
<1> DEFINE g == [r \in Regions |-> SimpleExtend(r, dir, bpl, max, count)]
<1>1. CASE max = 0
  <2>1. g = [r \in Regions |-> r]
    BY <1>1 DEF SimpleExtend
  <2> QED BY <2>1, SameSteady
<1>2. CASE max # 0
  <2> DEFINE c == [r \in Regions |-> SteppedCaret(r, dir, bpl, max, count)]
             t == [r \in Regions |-> r.tail]
  <2>1. ASSUME NEW r \in Regions PROVE c[r] \in Nat /\ t[r] \in Nat /\ g[r] = Region(c[r], t[r])
    <3>1. r.caret <= r.caret /\ r.tail \in Nat
      BY RegionBounds
    <3>2. SteppedCaret(r, dir, bpl, max, count) \in Nat
      BY <3>1, SteppedInOrder
    <3>3. SimpleExtend(r, dir, bpl, max, count) = Region(SteppedCaret(r, dir, bpl, max, count), r.tail)
      BY <1>2 DEF SimpleExtend
    <3> QED BY <3>1, <3>2, <3>3
  <2>2. ASSUME NEW r \in Regions, NEW s \in Regions, RMax(r) < RMin(s)
        PROVE  c[r] <= c[s] /\ t[r] <= t[s]
    BY <2>2, ApartEnds, SteppedInOrder
  <2>3. g = [r \in Regions |-> g[r]]
    OBVIOUS
  <2> HIDE DEF c, t, g
  <2>4. Steady(g)
    BY <2>1, <2>2, <2>3, SteadyEnds
  <2> QED BY <2>4 DEF g
<1> QED BY <1>1, <1>2

\* The closures of swap_caret, collapse and to_backward.
LEMMA ShapeSteady ==
  /\ Steady([r \in Regions |-> SwapCaret(r)])
  /\ Steady([r \in Regions |-> Collapse(r)])
  /\ Steady([r \in Regions |-> ToBackward(r)])
<1>0. /\ \A r \in Regions : r.caret \in Nat /\ r.tail \in Nat /\ RMin(r) \in Nat /\ RMax(r) \in Nat
      /\ \A r, s \in Regions : RMax(r) < RMin(s) =>
           r.caret <= s.caret /\ r.tail <= s.tail /\ RMin(r) <= RMin(s) /\ RMax(r) <= RMax(s)
  BY RegionBounds, ApartEnds
<1> DEFINE c == [r \in Regions |-> r.caret]
           t == [r \in Regions |-> r.tail]
           a == [r \in Regions |-> RMin(r)]
           b == [r \in Regions |-> RMax(r)]
<1>1. Steady([r \in Regions |-> SwapCaret(r)])
  <2> DEFINE g == [r \in Regions |-> SwapCaret(r)]
  <2>1. /\ \A r \in Regions : t[r] \in Nat /\ c[r] \in Nat /\ g[r] = Region(t[r], c[r])
        /\ g = [r \in Regions |-> g[r]]
        /\ \A r \in Regions, s \in Regions : RMax(r) < RMin(s) => t[r] <= t[s] /\ c[r] <= c[s]
    BY <1>0 DEF SwapCaret
  <2> HIDE DEF g, c, t
  <2>2. Steady(g)
    BY <2>1, SteadyEnds
  <2> QED BY <2>2 DEF g
<1>2. Steady([r \in Regions |-> Collapse(r)])
  <2> DEFINE g == [r \in Regions |-> Collapse(r)]
  <2>1. /\ \A r \in Regions : c[r] \in Nat /\ g[r] = Region(c[r], c[r])
        /\ g = [r \in Regions |-> g[r]]
        /\ \A r \in Regions, s \in Regions : RMax(r) < RMin(s) => c[r] <= c[s]
    BY <1>0 DEF Collapse
  <2> HIDE DEF g, c
  <2>2. Steady(g)
    BY <2>1, SteadyEnds
  <2> QED BY <2>2 DEF g
<1>3. Steady([r \in Regions |-> ToBackward(r)])
  <2> DEFINE g == [r \in Regions |-> ToBackward(r)]
  <2>1. /\ \A r \in Regions : a[r] \in Nat /\ b[r] \in Nat /\ g[r] = Region(a[r], b[r])
        /\ g = [r \in Regions |-> g[r]]
        /\ \A r \in Regions, s \in Regions : RMax(r) < RMin(s) => a[r] <= a[s] /\ b[r] <= b[s]
    BY <1>0 DEF ToBackward
  <2> HIDE DEF g, a, b
  <2>2. Steady(g)
    BY <2>1, SteadyEnds
  <2> QED BY <2>2 DEF g
<1> QED BY <1>1, <1>2, <1>3

\* The closures of g and G with a count: every region goes to one offset.
LEMMA JumpSteady ==
  ASSUME NEW offset \in Nat
  PROVE  /\ Steady([r \in Regions |-> JumpTo(r, offset)])
         /\ Steady([r \in Regions |-> ExtendTo(r, offset)])
<1> DEFINE c == [r \in Regions |-> offset]
           t == [r \in Regions |-> r.tail]
<1>0. /\ \A r \in Regions : r.tail \in Nat
      /\ \A r, s \in Regions : RMax(r) < RMin(s) => r.tail <= s.tail
  BY RegionBounds, ApartEnds
<1>1. Steady([r \in Regions |-> JumpTo(r, offset)])
  <2> DEFINE g == [r \in Regions |-> JumpTo(r, offset)]
  <2>1. /\ \A r \in Regions : c[r] \in Nat /\ g[r] = Region(c[r], c[r])
        /\ g = [r \in Regions |-> g[r]]
        /\ \A r \in Regions, s \in Regions : RMax(r) < RMin(s) => c[r] <= c[s]
    BY DEF JumpTo
  <2> HIDE DEF g, c
  <2>2. Steady(g)
    BY <2>1, SteadyEnds
  <2> QED BY <2>2 DEF g
<1>2. Steady([r \in Regions |-> ExtendTo(r, offset)])
  <2> DEFINE g == [r \in Regions |-> ExtendTo(r, offset)]
  <2>1. /\ \A r \in Regions : c[r] \in Nat /\ t[r] \in Nat /\ g[r] = Region(c[r], t[r])
        /\ g = [r \in Regions |-> g[r]]
        /\ \A r \in Regions, s \in Regions : RMax(r) < RMin(s) => c[r] <= c[s] /\ t[r] <= t[s]
    BY <1>0 DEF ExtendTo
  <2> HIDE DEF g, c, t
  <2>2. Steady(g)
    BY <2>1, SteadyEnds
  <2> QED BY <2>2 DEF g
<1> QED BY <1>1, <1>2

\* The start of a line, for an offset on it.
LEMMA LineInOrder ==
  ASSUME NEW c \in Nat, NEW e \in Nat, c <= e, NEW b \in Nat \ {0}
  PROVE  /\ c - (c % b) \in Nat /\ c - (c % b) <= e - (e % b)
         /\ c % b \in 0 .. b - 1 /\ e % b \in 0 .. b - 1
<1>1. PICK q \in Nat, r \in Nat : q = c \div b /\ r = c % b /\ c = (b * q) + r /\ r <= b - 1
  OBVIOUS
<1>2. PICK p \in Nat, s \in Nat : p = e \div b /\ s = e % b /\ e = (b * p) + s /\ s <= b - 1
  OBVIOUS
<1>3. PICK x \in Nat, y \in Nat : x = b * q /\ y = b * p
  OBVIOUS
<1>4. x <= y
  <2> SUFFICES ASSUME ~(q <= p) PROVE FALSE
    BY <1>3
  <2>1. b * (p + 1) <= b * q /\ b * (p + 1) = (b * p) + b
    OBVIOUS
  <2>2. y + b <= x
    BY <1>3, <2>1
  <2> QED BY <1>1, <1>2, <1>3, <2>2
<1> QED BY <1>1, <1>2, <1>3, <1>4

\* The caret that jump_to_boundary goes to keeps the order of carets.
LEMMA BoundaryInOrder ==
  ASSUME NEW r \in Regions, NEW s \in Regions, r.caret <= s.caret,
         NEW dir \in Directions, NEW bpl \in Nat \ {0}, NEW max \in Nat, max # 0
  PROVE  /\ BoundaryCaret(r, dir, bpl, max) \in Nat
         /\ BoundaryCaret(r, dir, bpl, max) <= BoundaryCaret(s, dir, bpl, max)
<1>1. PICK c \in Nat, e \in Nat : c = r.caret /\ e = s.caret /\ c <= e
  BY RegionBounds
<1>2. PICK x \in Nat, y \in Nat : x = c - (c % bpl) /\ y = e - (e % bpl) /\ x <= y
  <2>1. e <= e
    OBVIOUS
  <2>2. c - (c % bpl) \in Nat /\ e - (e % bpl) \in Nat /\ c - (c % bpl) <= e - (e % bpl)
    BY <1>1, <2>1, LineInOrder
  <2> QED BY <2>2
<1>3. CASE dir = "Up"
  BY <1>3 DEF BoundaryCaret
<1>4. CASE dir = "Down"
  BY <1>4 DEF BoundaryCaret
<1>5. CASE dir = "Left"
  <2>1. BoundaryCaret(r, dir, bpl, max) = x /\ BoundaryCaret(s, dir, bpl, max) = y
    BY <1>1, <1>2, <1>5 DEF BoundaryCaret
  <2> QED BY <1>2, <2>1
<1>6. CASE dir = "Right"
  <2>1. PICK u \in Nat, v \in Nat : u = c % bpl /\ v = e % bpl
    OBVIOUS
  <2>2. /\ BoundaryCaret(r, dir, bpl, max) = Lesser(c + bpl - u - 1, max - 1)
        /\ BoundaryCaret(s, dir, bpl, max) = Lesser(e + bpl - v - 1, max - 1)
    BY <1>1, <1>6, <2>1 DEF BoundaryCaret
  <2>3. c + bpl - u - 1 = x + bpl - 1 /\ e + bpl - v - 1 = y + bpl - 1
    BY <1>2, <2>1
  <2> QED BY <1>2, <2>2, <2>3 DEF Lesser
<1> QED BY <1>3, <1>4, <1>5, <1>6 DEF Directions

\* The closures of jump mode.
LEMMA BoundarySteady ==
  ASSUME NEW dir \in Directions, NEW bpl \in Nat \ {0}, NEW max \in Nat
  PROVE  /\ Steady([r \in Regions |-> JumpToBoundary(r, dir, bpl, max)])
         /\ Steady([r \in Regions |-> ExtendToBoundary(r, dir, bpl, max)])
<1> DEFINE g == [r \in Regions |-> JumpToBoundary(r, dir, bpl, max)]
           h == [r \in Regions |-> ExtendToBoundary(r, dir, bpl, max)]
<1>1. CASE max = 0
  <2>1. g = [r \in Regions |-> r] /\ h = [r \in Regions |-> r]
    BY <1>1 DEF JumpToBoundary, ExtendToBoundary
  <2> QED BY <2>1, SameSteady
<1>2. CASE max # 0
  <2> DEFINE c == [r \in Regions |-> BoundaryCaret(r, dir, bpl, max)]
             t == [r \in Regions |-> r.tail]
  <2>1. ASSUME NEW r \in Regions
        PROVE  c[r] \in Nat /\ t[r] \in Nat /\ g[r] = Region(c[r], c[r]) /\ h[r] = Region(c[r], t[r])
    <3>1. r.caret <= r.caret /\ r.tail \in Nat
      BY RegionBounds
    <3>2. BoundaryCaret(r, dir, bpl, max) \in Nat
      BY <1>2, <3>1, BoundaryInOrder
    <3>3. /\ JumpToBoundary(r, dir, bpl, max)
               = Region(BoundaryCaret(r, dir, bpl, max), BoundaryCaret(r, dir, bpl, max))
          /\ ExtendToBoundary(r, dir, bpl, max) = Region(BoundaryCaret(r, dir, bpl, max), r.tail)
      BY <1>2 DEF JumpToBoundary, ExtendToBoundary
    <3> QED BY <3>1, <3>2, <3>3
  <2>2. ASSUME NEW r \in Regions, NEW s \in Regions, RMax(r) < RMin(s)
        PROVE  c[r] <= c[s] /\ t[r] <= t[s]
    BY <1>2, <2>2, ApartEnds, BoundaryInOrder
  <2>3. g = [r \in Regions |-> g[r]] /\ h = [r \in Regions |-> h[r]]
    OBVIOUS
  <2> HIDE DEF c, t, g, h
  <2>4. Steady(g) /\ Steady(h)
    BY <2>1, <2>2, <2>3, SteadyEnds
  <2> QED BY <2>4 DEF g, h
<1> QED BY <1>1, <1>2

\* What NormalAppend and InsertMove do with each region.
LEMMA AppendSteady ==
  ASSUME NEW bpl \in Nat, NEW max \in Nat
  PROVE  Steady([r \in Regions |-> SimpleExtend(ToForward(r), "Right", bpl, max, 1)])
<1> DEFINE g == [r \in Regions |-> SimpleExtend(ToForward(r), "Right", bpl, max, 1)]
           c == [r \in Regions |-> IF max = 0 THEN RMax(r) ELSE Lesser(max, RMax(r) + 1)]
           t == [r \in Regions |-> RMin(r)]
<1>1. ASSUME NEW r \in Regions PROVE c[r] \in Nat /\ t[r] \in Nat /\ g[r] = Region(c[r], t[r])
  <2>1. PICK x \in Nat, y \in Nat : x = RMax(r) /\ y = RMin(r)
    BY RegionBounds
  <2>2. ToForward(r) = Region(x, y) /\ Region(x, y).caret = x /\ Region(x, y).tail = y
    BY <2>1, RegionOf DEF ToForward
  <2>3. SimpleExtend(Region(x, y), "Right", bpl, max, 1)
          = Region(IF max = 0 THEN x ELSE Lesser(max, x + 1), y)
    BY <2>2 DEF SimpleExtend, SteppedCaret
  <2>4. (IF max = 0 THEN x ELSE Lesser(max, x + 1)) \in Nat
    BY DEF Lesser
  <2> QED BY <2>1, <2>2, <2>3, <2>4
<1>2. ASSUME NEW r \in Regions, NEW s \in Regions, RMax(r) < RMin(s)
      PROVE  c[r] <= c[s] /\ t[r] <= t[s]
  BY <1>2, ApartEnds DEF Lesser
<1>3. g = [r \in Regions |-> g[r]]
  OBVIOUS
<1> HIDE DEF c, t, g
<1>4. Steady(g)
  BY <1>1, <1>2, <1>3, SteadyEnds
<1> QED BY <1>4 DEF g

\* The closure that moves away from half a typed byte and back by one.
LEMMA BackSteady ==
  ASSUME NEW dir \in Directions, NEW bpl \in Nat, NEW max \in Nat
  PROVE  Steady([r \in Regions |->
                   SimpleMove(SimpleMove(r, dir, bpl, max, 1), "Left", bpl, max, 1)])
<1> DEFINE g == [r \in Regions |-> SimpleMove(SimpleMove(r, dir, bpl, max, 1), "Left", bpl, max, 1)]
<1>0. "Left" \in Directions /\ 1 \in Nat
  BY DEF Directions
<1>1. ASSUME NEW r \in Regions, NEW s \in Regions, r.caret <= s.caret, RMin(r) <= RMin(s)
      PROVE  g[r] \in Regions /\ RMin(g[r]) <= RMin(g[s])
  <2>1. PICK x \in Regions, y \in Regions :
          /\ x = SimpleMove(r, dir, bpl, max, 1) /\ y = SimpleMove(s, dir, bpl, max, 1)
          /\ x.caret <= y.caret /\ RMin(x) <= RMin(y)
    BY <1>0, <1>1, MoveInOrder
  <2>2. /\ SimpleMove(x, "Left", bpl, max, 1) \in Regions
        /\ RMin(SimpleMove(x, "Left", bpl, max, 1)) <= RMin(SimpleMove(y, "Left", bpl, max, 1))
    BY <1>0, <2>1, MoveInOrder
  <2> QED BY <2>1, <2>2
<1>2. ASSUME NEW r \in Regions PROVE g[r] \in Regions
  <2>1. r.caret <= r.caret /\ RMin(r) <= RMin(r)
    BY RegionBounds
  <2> HIDE DEF g
  <2> QED BY <1>1, <2>1
<1>3. ASSUME NEW r \in Regions, NEW s \in Regions, RMax(r) < RMin(s) PROVE RMin(g[r]) <= RMin(g[s])
  <2> HIDE DEF g
  <2> QED BY <1>1, <1>3, ApartEnds
<1>4. g \in [Regions -> Regions]
  BY <1>2
<1>5. ASSUME NEW r \in Regions, g[r].main PROVE r.main
  <2>1. r.caret <= r.caret /\ RMin(r) <= RMin(r)
    BY RegionBounds
  <2>2. PICK x \in Regions : x = SimpleMove(r, dir, bpl, max, 1) /\ (x.main => r.main)
    BY <1>0, <2>1, MoveInOrder
  <2>3. x.caret <= x.caret /\ RMin(x) <= RMin(x)
    BY RegionBounds
  <2>4. SimpleMove(x, "Left", bpl, max, 1).main => x.main
    BY <1>0, <2>3, MoveInOrder
  <2> QED BY <1>5, <2>2, <2>4
<1> HIDE DEF g
<1>6. Steady(g)
  BY <1>3, <1>4, <1>5 DEF Steady
<1> QED BY <1>6 DEF g

-----------------------------------------------------------------------------
(* The selection that goes along with a delta.                             *)

\* A selection of one region.
LEMMA OneRegion ==
  ASSUME NEW r \in Regions, r.main
  PROVE  [regions |-> << r >>, main_selection |-> 0] \in Selections
<1>1. PICK R : R = << r >>
  OBVIOUS
<1>2. R \in Seq(Regions) /\ Len(R) = 1 /\ R[1] = r
  BY <1>1
<1>3. SortedDisjoint(R)
  <2>1. 1 .. Len(R) - 1 = {}
    BY <1>2
  <2> QED BY <2>1 DEF SortedDisjoint
<1>4. 0 \in Nat /\ 0 < Len(R) /\ R[0 + 1].main
  BY <1>2
<1>5. [regions |-> R, main_selection |-> 0] \in Selections
  BY <1>2, <1>3, <1>4, SelectionOf
<1> QED BY <1>1, <1>5

\* Setting the flag of a region leaves its ends alone.
LEMMA FlaggedRegion ==
  ASSUME NEW r \in Regions, NEW x \in BOOLEAN
  PROVE  /\ [r EXCEPT !.main = x] \in Regions /\ [r EXCEPT !.main = x].main = x
         /\ [r EXCEPT !.main = x].caret = r.caret /\ [r EXCEPT !.main = x].tail = r.tail
         /\ RMin([r EXCEPT !.main = x]) = RMin(r) /\ RMax([r EXCEPT !.main = x]) = RMax(r)
BY DEF Regions, RMin, RMax

\* The selection a buffer begins with.
LEMMA ClearedKept == Cleared \in Selections
<1>1. PICK r : r = [Region(0, 0) EXCEPT !.main = TRUE]
  OBVIOUS
<1>2. r \in Regions /\ r.main
  BY <1>1, RegionOf, FlaggedRegion
<1>3. Cleared = [regions |-> << r >>, main_selection |-> 0]
  BY <1>1 DEF Cleared
<1> QED BY <1>2, <1>3, OneRegion

\* What each gap adds to those before it.
GapStep(d, s, g) == s + (IF g - 1 \in d.del THEN 0 ELSE 1) + Len(d.ins[g])

\* GapAfter runs as it is written.
LEMMA GapDef ==
  ASSUME NEW n \in Nat, NEW d \in Deltas(n)
  PROVE  /\ d.base = n /\ \A g \in 0 .. n : d.ins[g] \in Text
         /\ GapAfter(d)[0] = Len(d.ins[0])
         /\ \A g \in 1 .. n : GapAfter(d)[g] = GapStep(d, GapAfter(d)[g - 1], g)
         /\ \A g \in 0 .. n : GapAfter(d)[g] \in Nat
<1> DEFINE N == d.base
           A == Nat
           a == Len(d.ins[0])
           Step(s, k) == GapStep(d, s, k)
           O == GapAfter(d)
<1>0. d.base = n /\ \A g \in 0 .. n : d.ins[g] \in Text /\ Len(d.ins[g]) \in Nat
  BY TextElements DEF Deltas
<1>1. N \in Nat /\ a \in A
  BY <1>0
<1>2. ASSUME NEW s \in A, NEW k \in 1 .. N PROVE Step(s, k) \in A
  <2>1. PICK x \in Nat, y \in Nat : x = Len(d.ins[k]) /\ y = IF k - 1 \in d.del THEN 0 ELSE 1
    BY <1>0
  <2> QED BY <2>1 DEF GapStep
<1>3. O = CHOOSE h : h = [k \in 0 .. N |-> IF k = 0 THEN a ELSE Step(h[k - 1], k)]
  BY DEF GapAfter, GapStep
<1>4. /\ O[0] = a
      /\ \A k \in 1 .. N : O[k] = Step(O[k - 1], k)
      /\ \A k \in 0 .. N : O[k] \in A
  <2> DEFINE step == [p \in A \X (1 .. N) |-> Step(p[1], p[2])]
  <2> HIDE DEF Step, A, a, O, N
  <2>1. step \in [A \X (1 .. N) -> A]
    BY <1>2
  <2>2. PICK f \in [0 .. N -> A] : Runs(f, N, a, step)
    <3> HIDE DEF step
    <3> QED BY <1>1, <2>1, Loop
  <2>3. ASSUME NEW k \in 1 .. N PROVE f[k] = Step(f[k - 1], k)
    <3>1. f[k - 1] \in A
      BY <1>1
    <3> QED BY <2>2, <3>1 DEF Runs
  <2>4. f = [k \in 0 .. N |-> IF k = 0 THEN a ELSE Step(f[k - 1], k)]
    <3>1. \A k \in 0 .. N : f[k] = IF k = 0 THEN a ELSE Step(f[k - 1], k)
      BY <1>1, <2>2, <2>3 DEF Runs
    <3> QED BY <3>1
  <2>5. O = [k \in 0 .. N |-> IF k = 0 THEN a ELSE Step(O[k - 1], k)]
    BY <1>3, <2>4
  <2>6. O[0] = a /\ \A k \in 1 .. N : O[k] = Step(O[k - 1], k)
    BY <1>1, <2>5
  <2>7. \A k \in 0 .. N : O[k] \in A
    <3>1. O[0] \in A /\ \A k \in 1 .. N : O[k - 1] \in A => O[k] \in A
      BY <1>1, <1>2, <2>6
    <3> QED BY <1>1, <3>1, LoopType
  <2> QED BY <2>6, <2>7
<1> QED BY <1>0, <1>4

\* Later gaps of the base come later in the outcome.
LEMMA GapInOrder ==
  ASSUME NEW n \in Nat, NEW d \in Deltas(n)
  PROVE  \A g \in 0 .. n, h \in 0 .. n : g <= h => GapAfter(d)[g] <= GapAfter(d)[h]
<1> DEFINE O == GapAfter(d)
<1>1. /\ \A g \in 0 .. n : d.ins[g] \in Text /\ Len(d.ins[g]) \in Nat
      /\ \A g \in 1 .. n : O[g] = GapStep(d, O[g - 1], g)
      /\ \A g \in 0 .. n : O[g] \in Nat
  BY GapDef, TextElements
<1> HIDE DEF O
<1>2. ASSUME NEW k \in 0 .. n - 1 PROVE O[k] <= O[k + 1]
  <2>1. PICK j \in 1 .. n : j = k + 1 /\ j - 1 = k /\ j \in 0 .. n /\ k \in 0 .. n
    OBVIOUS
  <2>2. PICK x \in Nat, y \in Nat : x = O[k] /\ y = Len(d.ins[j])
    BY <1>1, <2>1
  <2>3. O[j] = x + (IF j - 1 \in d.del THEN 0 ELSE 1) + y
    BY <1>1, <2>1, <2>2 DEF GapStep
  <2> QED BY <2>1, <2>2, <2>3
<1>3. ASSUME NEW g \in 0 .. n PROVE \A h \in g .. n : O[g] <= O[h]
  <2> DEFINE S == {h \in g .. n : O[g] <= O[h]}
  <2>1. g \in S
    BY <1>1
  <2>2. \A k \in g .. n - 1 : k \in S => k + 1 \in S
    <3> SUFFICES ASSUME NEW k \in g .. n - 1, O[g] <= O[k] PROVE k + 1 \in S
      OBVIOUS
    <3>1. k \in 0 .. n - 1 /\ k \in 0 .. n /\ k + 1 \in 0 .. n /\ k + 1 \in g .. n
      OBVIOUS
    <3>2. PICK x \in Nat, y \in Nat, z \in Nat : x = O[g] /\ y = O[k] /\ z = O[k + 1] /\ x <= y /\ y <= z
      BY <1>1, <1>2, <3>1
    <3> QED BY <3>1, <3>2
  <2>3. g \in Int /\ n \in Int
    OBVIOUS
  <2>4. \A k \in g .. n : k \in S
    <3> HIDE DEF S
    <3> QED BY <2>1, <2>2, <2>3, InductionFrom
  <2> QED BY <2>4
<1> QED BY <1>3 DEF O

\* Where a delta takes an offset, and the length it leaves.
LEMMA TransformInOrder ==
  ASSUME NEW n \in Nat, NEW d \in Deltas(n)
  PROVE  /\ NewDocumentLen(d) \in Nat
         /\ \A x \in Nat : Transform(d, x) \in Nat /\ Transform(d, x) <= NewDocumentLen(d)
         /\ \A x \in Nat, y \in Nat : x <= y => Transform(d, x) <= Transform(d, y)
         /\ \A x \in Nat : x >= n => Transform(d, x) = NewDocumentLen(d)
<1>1. d.base = n /\ \A g \in 0 .. n : GapAfter(d)[g] \in Nat
  BY GapDef
<1>2. \A g \in 0 .. n, h \in 0 .. n : g <= h => GapAfter(d)[g] <= GapAfter(d)[h]
  BY GapInOrder
<1>3. \A x \in Nat : Lesser(x, n) \in 0 .. n /\ Lesser(x, n) <= n /\ (x >= n => Lesser(x, n) = n)
  BY DEF Lesser
<1>4. \A x \in Nat, y \in Nat : x <= y => Lesser(x, n) <= Lesser(y, n)
  BY DEF Lesser
<1>5. NewDocumentLen(d) = GapAfter(d)[n] /\ \A x : Transform(d, x) = GapAfter(d)[Lesser(x, n)]
  BY <1>1 DEF NewDocumentLen, Transform
<1>6. n \in 0 .. n
  OBVIOUS
<1>7. \A x \in Nat : Transform(d, x) \in Nat /\ Transform(d, x) <= NewDocumentLen(d)
  BY <1>1, <1>2, <1>3, <1>5, <1>6
<1>8. \A x \in Nat, y \in Nat : x <= y => Transform(d, x) <= Transform(d, y)
  BY <1>2, <1>3, <1>4, <1>5
<1> QED BY <1>1, <1>3, <1>5, <1>6, <1>7, <1>8

\* Where an end of a region goes.
LEMMA EndAfter ==
  ASSUME NEW n \in Nat, NEW d \in Deltas(n), NEW o \in Int, o <= 0, NEW x \in Nat,
         Transform(d, x) + o >= 0
  PROVE  (IF x = n THEN NewDocumentLen(d) + o
          ELSE IF Transform(d, x) + o < 0 THEN NewDocumentLen(d)
          ELSE Lesser(NewDocumentLen(d), Transform(d, x) + o)) = Transform(d, x) + o
<1>1. PICK a \in Nat, b \in Nat : a = Transform(d, x) /\ b = NewDocumentLen(d) /\ a <= b /\ (x = n => a = b)
  BY TransformInOrder
<1>2. (IF x = n THEN b + o ELSE IF a + o < 0 THEN b ELSE Lesser(b, a + o)) = a + o
  BY <1>1 DEF Lesser
<1> QED BY <1>1, <1>2

\* One region for each of n, none of them flagged or past the offset x.
PlainWithin(news, n, x) ==
  \A i \in 1 .. n : \E r \in Regions : news[i] = << r >> /\ ~r.main /\ RMax(r) <= x

\* apply_delta and apply_delta_offset_carets call map_selections with one region for
\* each, in order, whose ends the delta has moved, if no caret is moved back from the
\* very start.
LEMMA SelectionAfterMaps ==
  ASSUME NEW sel \in Selections, NEW n \in Nat, NEW d \in Deltas(n), NEW o \in Int, o <= 0,
         \A i \in 1 .. Len(sel.regions) : Transform(d, sel.regions[i].caret) + o >= 0,
         NEW result, result = SelectionAfter(sel, d, n, o, 0), NewDocumentLen(d) # 0
  PROVE  \E news : /\ result = MapSelections(sel, news) /\ InOrder(news, Len(sel.regions))
                   /\ PlainWithin(news, Len(sel.regions), NewDocumentLen(d))
<1>1. PICK R \in Seq(Regions), m \in Nat :
        R = sel.regions /\ m = Len(R) /\ SortedDisjoint(R) /\ DOMAIN R = 1 .. m
  BY SelectionFields
<1>2. \A i \in 1 .. m : R[i] \in Regions /\ R[i].caret \in Nat /\ R[i].tail \in Nat
  BY <1>1, ElementOfSeq, RegionBounds
<1> DEFINE moved(x, y) == IF x = n THEN NewDocumentLen(d) + y
                          ELSE IF Transform(d, x) + y < 0 THEN NewDocumentLen(d)
                          ELSE Lesser(NewDocumentLen(d), Transform(d, x) + y)
           news == [i \in DOMAIN sel.regions |->
                      << Region(moved(sel.regions[i].caret, o), moved(sel.regions[i].tail, 0)) >>]
<1>3. result = MapSelections(sel, news)
  BY DEF SelectionAfter, MapEach
<1> DEFINE c == [i \in 1 .. m |-> Region(Transform(d, R[i].caret) + o, Transform(d, R[i].tail))]
<1>4. ASSUME NEW i \in 1 .. m
      PROVE  /\ news[i] = << c[i] >>
             /\ Transform(d, R[i].caret) + o \in Nat /\ Transform(d, R[i].tail) \in Nat
  <2>1. PICK x \in Nat, y \in Nat : x = R[i].caret /\ y = R[i].tail
    BY <1>2
  <2>2. Transform(d, x) \in Nat /\ Transform(d, y) \in Nat /\ Transform(d, x) + o >= 0
    BY <1>1, <2>1, TransformInOrder
  <2>3. moved(x, o) = Transform(d, x) + o
    BY <2>2, EndAfter
  <2>4. moved(y, 0) = Transform(d, y)
    <3>1. Transform(d, y) + 0 >= 0 /\ Transform(d, y) + 0 = Transform(d, y) /\ 0 \in Int /\ 0 <= 0
      BY <2>2
    <3>2. moved(y, 0) = Transform(d, y) + 0
      BY <3>1, EndAfter
    <3> QED BY <3>1, <3>2
  <2> HIDE DEF moved
  <2> QED BY <1>1, <2>1, <2>2, <2>3, <2>4
<1>5. \A i \in 1 .. m : c[i] \in Regions
  BY <1>4, RegionOf
<1>6. ASSUME NEW i \in 1 .. m, NEW j \in 1 .. m, i < j PROVE RMin(c[i]) <= RMin(c[j])
  <2>1. RMax(R[i]) < RMin(R[j])
    BY <1>1, <1>6, SortedApart
  <2>2. R[i].caret <= R[j].caret /\ R[i].tail <= R[j].tail
    BY <1>2, <2>1, ApartEnds
  <2>3. PICK x \in Nat, y \in Nat, v \in Nat, w \in Nat :
          x = R[i].caret /\ y = R[j].caret /\ v = R[i].tail /\ w = R[j].tail /\ x <= y /\ v <= w
    BY <1>2, <2>2
  <2>4. Transform(d, x) <= Transform(d, y) /\ Transform(d, v) <= Transform(d, w)
        /\ Transform(d, x) \in Nat /\ Transform(d, y) \in Nat
    BY <2>3, TransformInOrder
  <2>5. PICK a \in Nat, b \in Nat, e \in Nat, f \in Nat :
          /\ a = Transform(d, x) + o /\ b = Transform(d, y) + o
          /\ e = Transform(d, v) /\ f = Transform(d, w) /\ a <= b /\ e <= f
    <3>1. PICK a \in Nat, b \in Nat : a = Transform(d, x) + o /\ b = Transform(d, y) + o
      BY <1>4, <2>3
    <3>2. PICK e \in Nat, f \in Nat : e = Transform(d, v) /\ f = Transform(d, w)
      BY <1>4, <2>3
    <3>3. a <= b /\ e <= f
      BY <2>4, <3>1, <3>2
    <3> QED BY <3>1, <3>2, <3>3
  <2>6. c[i] = Region(a, e) /\ c[j] = Region(b, f)
    BY <2>3, <2>5
  <2> QED BY <2>5, <2>6, RegionsBegin
<1> HIDE DEF news
<1>7. ASSUME NEW i \in 1 .. m
      PROVE  \E r \in Regions : news[i] = << r >> /\ ~r.main /\ RMax(r) <= NewDocumentLen(d)
  <2>1. PICK x \in Nat, y \in Nat : x = R[i].caret /\ y = R[i].tail
    BY <1>2
  <2>2. PICK a \in Nat, b \in Nat : a = Transform(d, x) + o /\ b = Transform(d, y)
    BY <1>4, <2>1
  <2>3. a <= NewDocumentLen(d) /\ b <= NewDocumentLen(d) /\ NewDocumentLen(d) \in Nat
    <3>1. /\ Transform(d, x) \in Nat /\ Transform(d, x) <= NewDocumentLen(d)
          /\ Transform(d, y) <= NewDocumentLen(d) /\ NewDocumentLen(d) \in Nat
      BY TransformInOrder
    <3> QED BY <2>2, <3>1
  <2>4. c[i] = Region(a, b)
    BY <2>1, <2>2
  <2>5. ~c[i].main /\ RMax(c[i]) = Greater(a, b)
    BY <2>4, RegionOf
  <2>6. RMax(c[i]) <= NewDocumentLen(d)
    BY <2>3, <2>5 DEF Greater
  <2> HIDE DEF c
  <2> QED BY <1>4, <1>5, <2>5, <2>6
<1> HIDE DEF c
<1>8. InOrder(news, Len(sel.regions))
  BY <1>1, <1>4, <1>5, <1>6, EachInOrder
<1>9. PlainWithin(news, Len(sel.regions), NewDocumentLen(d))
  BY <1>1, <1>7 DEF PlainWithin
<1> QED BY <1>3, <1>8, <1>9

\* The selection that apply_delta and apply_delta_offset_carets make keeps its
\* promises, if no caret is moved back from the very start.
LEMMA SelectionAfterKept ==
  ASSUME NEW sel \in Selections, NEW n \in Nat, NEW d \in Deltas(n), NEW o \in Int, o <= 0,
         \A i \in 1 .. Len(sel.regions) : Transform(d, sel.regions[i].caret) + o >= 0,
         NEW result, result = SelectionAfter(sel, d, n, o, 0), ~result.panic
  PROVE  result.sel \in Selections
<1>1. CASE NewDocumentLen(d) = 0
  <2>1. result.sel = Cleared
    BY <1>1 DEF SelectionAfter
  <2> QED BY <2>1, ClearedKept
<1>2. CASE NewDocumentLen(d) # 0
  BY <1>2, SelectionAfterMaps, MapKeepsSorted
<1> QED BY <1>1, <1>2

-----------------------------------------------------------------------------
(* The deltas that the operations build.                                   *)

\* Bounded sets of naturals have a greatest element.
LEMMA GreatestOf ==
  ASSUME NEW n \in Nat, NEW T, T \subseteq 0 .. n, T # {}
  PROVE  Max(T) \in T
<1> DEFINE U == {n - y : y \in T}
<1>1. U \subseteq Nat /\ U # {}
  OBVIOUS
<1>2. PICK m \in U : \A k \in U : m <= k
  <2> HIDE DEF U
  <2> QED BY <1>1, LeastNatural
<1>3. PICK x \in T : m = n - x
  OBVIOUS
<1>4. \A y \in T : x >= y
  <2> SUFFICES ASSUME NEW y \in T PROVE x >= y
    OBVIOUS
  <2>1. n - y \in U
    OBVIOUS
  <2>2. m <= n - y
    BY <1>2, <2>1
  <2>3. x \in Int /\ y \in Int
    OBVIOUS
  <2> QED BY <1>3, <2>2, <2>3
<1>5. \E z \in T : \A y \in T : z >= y
  BY <1>4
<1> QED BY <1>5 DEF Max

\* What an edit inserts comes before the offsets after it.
LEMMA BuildMakes ==
  ASSUME NEW n \in Nat, NEW edits \in Seq(Edits)
  PROVE  \A k \in 1 .. Len(edits), x \in Nat :
           edits[k].text # << >> /\ edits[k].from \in 0 .. x => Transform(Build(n, edits), x) >= 1
<1> DEFINE del == {i \in 0 .. n - 1 : \E k \in DOMAIN edits : edits[k].from <= i /\ i < edits[k].to}
           Gap(p) == Max({0} \cup {i + 1 : i \in {j \in 0 .. n - 1 : j < p /\ j \notin del}})
           pieces(g) == [k \in DOMAIN edits |->
                           IF Gap(edits[k].from) = g THEN edits[k].text ELSE << >>]
           ins == [g \in 0 .. n |-> FlattenSeq(pieces(g))]
<1>1. Build(n, edits) = [base |-> n, del |-> del, ins |-> ins]
  BY DEF Build
<1>2. PICK m \in Nat : m = Len(edits) /\ DOMAIN edits = 1 .. m
  BY LenProperties
<1>3. \A k \in 1 .. m : edits[k].text \in Text
  <2>1. \A k \in 1 .. m : edits[k] \in Edits
    BY <1>2, ElementOfSeq
  <2> QED BY <2>1 DEF Edits
<1>4. ASSUME NEW p \in Nat PROVE Gap(p) \in 0 .. n /\ Gap(p) <= p
  <2> DEFINE T == {0} \cup {i + 1 : i \in {j \in 0 .. n - 1 : j < p /\ j \notin del}}
  <2>1. \A x \in T : x \in 0 .. n /\ x <= p
    <3> HIDE DEF del
    <3> QED OBVIOUS
  <2>2. T # {} /\ T \subseteq 0 .. n
    BY <2>1
  <2> HIDE DEF T
  <2>3. Max(T) \in T
    BY <2>2, GreatestOf
  <2>4. Gap(p) = Max(T)
    BY DEF T
  <2> QED BY <2>1, <2>3, <2>4
<1> HIDE DEF Gap, del
<1>6. ASSUME NEW g PROVE pieces(g) \in Seq(Seq(Bytes)) /\ Len(pieces(g)) = m
  <2>1. \A k \in 1 .. m : (IF Gap(edits[k].from) = g THEN edits[k].text ELSE << >>) \in Seq(Bytes)
    BY <1>3, EmptySeq DEF Text
  <2>2. pieces(g) \in [1 .. m -> Seq(Bytes)]
    BY <1>2, <2>1
  <2> QED BY <2>2, SequenceOf
<1>7. ASSUME NEW g PROVE FlattenSeq(pieces(g)) \in Text
  <2> HIDE DEF pieces
  <2> QED BY <1>6, FlattenType DEF Text
<1>8. ins \in [0 .. n -> Text]
  <2> HIDE DEF pieces
  <2> QED BY <1>7
<1>9. PICK d : d = Build(n, edits)
  OBVIOUS
<1>10. d \in Deltas(n) /\ d.base = n /\ d.ins = ins
  <2> HIDE DEF ins
  <2> QED BY <1>1, <1>9, BuildType
<1>11. ASSUME NEW k \in 1 .. m, NEW x \in Nat, edits[k].text # << >>, edits[k].from \in 0 .. x
       PROVE  Transform(d, x) >= 1
  <2>1. PICK g \in 0 .. n : g = Gap(edits[k].from) /\ g <= edits[k].from /\ g <= x
    <3>1. edits[k].from \in Nat /\ edits[k].from <= x
      BY <1>11
    <3>2. Gap(edits[k].from) \in 0 .. n /\ Gap(edits[k].from) <= edits[k].from
      BY <1>4, <3>1
    <3> QED BY <3>1, <3>2
  <2>2. pieces(g)[k] = edits[k].text
    BY <1>2, <2>1
  <2>3. Len(edits[k].text) \in Nat \ {0}
    BY <1>3, <1>11, EmptySeq DEF Text
  <2>4. Len(FlattenSeq(pieces(g))) >= Len(pieces(g)[k])
    <3> HIDE DEF pieces
    <3> QED BY <1>6, FlattenType
  <2>5. d.ins[g] = FlattenSeq(pieces(g)) /\ d.ins[g] \in Text /\ Len(d.ins[g]) \in Nat
    <3> HIDE DEF pieces
    <3> QED BY <1>7, <1>10, TextElements
  <2>6. PICK l \in Nat : l = Len(d.ins[g]) /\ l >= 1
    <3> HIDE DEF pieces
    <3> QED BY <2>2, <2>3, <2>4, <2>5
  <2>7. GapAfter(d)[g] >= l /\ GapAfter(d)[g] \in Nat
    <3>1. CASE g = 0
      <4>1. GapAfter(d)[0] = Len(d.ins[0])
        BY <1>10, GapDef
      <4> QED BY <2>6, <3>1, <4>1
    <3>2. CASE g # 0
      <4>1. g \in 1 .. n /\ g - 1 \in 0 .. n
        BY <3>2
      <4>2. PICK y \in Nat : y = GapAfter(d)[g - 1]
        BY <1>10, <4>1, GapDef
      <4>3. GapAfter(d)[g] = y + (IF g - 1 \in d.del THEN 0 ELSE 1) + l
        <5>1. GapAfter(d)[g] = GapStep(d, GapAfter(d)[g - 1], g)
          BY <1>10, <4>1, GapDef
        <5> QED BY <2>6, <4>2, <5>1 DEF GapStep
      <4>4. PICK z \in Nat : z = IF g - 1 \in d.del THEN 0 ELSE 1
        OBVIOUS
      <4>5. GapAfter(d)[g] = y + z + l
        BY <4>3, <4>4
      <4> QED BY <4>5
    <3> QED BY <3>1, <3>2
  <2>8. Lesser(x, n) \in 0 .. n /\ g <= Lesser(x, n)
    BY <2>1 DEF Lesser
  <2>9. GapAfter(d)[g] <= GapAfter(d)[Lesser(x, n)] /\ GapAfter(d)[Lesser(x, n)] \in Nat
    BY <1>10, <2>8, GapInOrder, GapDef
  <2>10. Transform(d, x) = GapAfter(d)[Lesser(x, n)]
    BY <1>10 DEF Transform
  <2> QED BY <2>6, <2>7, <2>9, <2>10
<1> QED BY <1>2, <1>9, <1>11

-----------------------------------------------------------------------------
(* The pieces that Split and Collapse make of a region.                    *)

\* Turning a region around leaves its ends where they are.
LEMMA DirectionKept ==
  ASSUME NEW r \in Regions, NEW b
  PROVE  /\ WithDirection(r, b) \in Regions
         /\ RMin(WithDirection(r, b)) = RMin(r) /\ RMax(WithDirection(r, b)) = RMax(r)
         /\ ~WithDirection(r, b).main
<1>1. PICK x \in Nat, y \in Nat : x = RMin(r) /\ y = RMax(r) /\ x <= y
  BY RegionBounds
<1>2. WithDirection(r, b) = Region(x, y) \/ WithDirection(r, b) = Region(y, x)
  BY <1>1 DEF WithDirection, ToForward, ToBackward
<1> QED BY <1>1, <1>2, RegionOf DEF Lesser, Greater

\* The pieces rs begin one after the other, within r.
Within(rs, r) ==
  /\ rs \in Seq(Regions) /\ Ascending(rs)
  /\ \A k \in 1 .. Len(rs) : RMin(r) <= RMin(rs[k]) /\ RMin(rs[k]) <= RMax(r)

\* Pieces of regions in order are in order.
LEMMA WithinInOrder ==
  ASSUME NEW sel \in Selections, NEW news,
         \A i \in 1 .. Len(sel.regions) : Within(news[i], sel.regions[i])
  PROVE  InOrder(news, Len(sel.regions))
<1>1. PICK R \in Seq(Regions), n \in Nat : R = sel.regions /\ n = Len(R) /\ SortedDisjoint(R)
  BY SelectionFields
<1>2. \A i \in 1 .. n, j \in 1 .. n : i < j => RMax(R[i]) < RMin(R[j])
  BY <1>1, SortedApart
<1>3. ASSUME NEW i \in 1 .. n, NEW j \in 1 .. n, i < j,
             NEW k \in 1 .. Len(news[i]), NEW l \in 1 .. Len(news[j])
      PROVE  RMin(news[i][k]) <= RMin(news[j][l])
  <2>1. /\ Within(news[i], R[i]) /\ Within(news[j], R[j]) /\ R[i] \in Regions /\ R[j] \in Regions
        /\ RMax(R[i]) < RMin(R[j])
    BY <1>1, <1>2, <1>3, ElementOfSeq
  <2>2. /\ RMin(news[i][k]) <= RMax(R[i]) /\ RMin(R[j]) <= RMin(news[j][l])
        /\ news[i] \in Seq(Regions) /\ news[j] \in Seq(Regions)
    BY <2>1 DEF Within
  <2>3. news[i][k] \in Regions /\ news[j][l] \in Regions
    BY <2>2, ElementOfSeq
  <2>4. PICK a \in Nat, b \in Nat, c \in Nat, e \in Nat :
          a = RMin(news[i][k]) /\ b = RMax(R[i]) /\ c = RMin(R[j]) /\ e = RMin(news[j][l])
    BY <2>1, <2>3, RegionBounds
  <2>5. a <= e
    BY <2>1, <2>2, <2>4
  <2> QED BY <2>4, <2>5
<1>4. \A i \in 1 .. n : news[i] \in Seq(Regions) /\ Ascending(news[i])
  BY <1>1 DEF Within
<1>5. InOrder(news, n)
  BY <1>3, <1>4 DEF InOrder
<1> QED BY <1>1, <1>5

\* n regions that begin at the ascending offsets s[1], s[2], ... of r.
LEMMA PiecesWithin ==
  ASSUME NEW r \in Regions, NEW n \in Nat, NEW rs, NEW s,
         rs = [k \in 1 .. n |-> rs[k]],
         \A k \in 1 .. n : /\ rs[k] \in Regions /\ RMin(rs[k]) = s[k] /\ s[k] \in Nat
                           /\ RMin(r) <= s[k] /\ s[k] <= RMax(r),
         \A k \in 1 .. n, l \in 1 .. n : k <= l => s[k] <= s[l]
  PROVE  Within(rs, r)
<1>1. rs \in Seq(Regions) /\ Len(rs) = n
  OBVIOUS
<1> QED BY <1>1 DEF Within, Ascending

\* The pieces of width bytes that Split's Width action cuts r into.
WidthStart(r, k, width) == RMin(r) + (k - 1) * width
WidthPieces(r, width) ==
  [k \in 1 .. (RMax(r) - RMin(r)) \div width + 1 |->
     WithDirection(Region(WidthStart(r, k, width),
                          Lesser(RMax(r), WidthStart(r, k, width) + width - 1)),
                   Backward(r))]

\* Products keep the order of naturals.
LEMMA TimesInOrder ==
  ASSUME NEW i \in Nat, NEW j \in Nat, NEW w \in Nat, i <= j
  PROVE  i * w \in Nat /\ j * w \in Nat /\ i * w <= j * w
OBVIOUS

\* The pieces of the Width action lie within their region, in order and unflagged.
LEMMA WidthWithin ==
  ASSUME NEW r \in Regions, NEW width \in Nat \ {0}
  PROVE  /\ Within(WidthPieces(r, width), r)
         /\ \A k \in 1 .. Len(WidthPieces(r, width)) : ~WidthPieces(r, width)[k].main
         /\ \A k \in 1 .. Len(WidthPieces(r, width)) : RMax(WidthPieces(r, width)[k]) <= RMax(r)
<1>1. PICK x \in Nat, y \in Nat : x = RMin(r) /\ y = RMax(r) /\ x <= y
  BY RegionBounds
<1>2. PICK q \in Nat : q = (y - x) \div width /\ q * width <= y - x
  <2>1. PICK e \in Nat : e = y - x
    BY <1>1
  <2>2. PICK q \in Nat, m \in Nat : q = e \div width /\ m = e % width /\ e = (width * q) + m
    OBVIOUS
  <2>3. PICK p \in Nat : p = width * q /\ p = q * width
    OBVIOUS
  <2>4. p <= e
    BY <2>2, <2>3
  <2> QED BY <2>1, <2>2, <2>3, <2>4
<1> DEFINE n == q + 1
           s == [k \in 1 .. n |-> WidthStart(r, k, width)]
           rs == WidthPieces(r, width)
<1>3. n \in Nat /\ (RMax(r) - RMin(r)) \div width + 1 = n
  BY <1>1, <1>2
<1>4. ASSUME NEW k \in 1 .. n PROVE s[k] \in Nat /\ x <= s[k] /\ s[k] <= y /\ s[k] = x + (k - 1) * width
  <2>1. s[k] = x + (k - 1) * width
    BY <1>1 DEF WidthStart
  <2>2. PICK j \in Nat : j = k - 1 /\ j <= q
    OBVIOUS
  <2>3. PICK p \in Nat, t \in Nat : p = j * width /\ t = q * width /\ p <= t
    BY <2>2, TimesInOrder
  <2>4. s[k] = x + p /\ t <= y - x
    BY <1>2, <2>1, <2>2, <2>3
  <2>5. x + p \in Nat /\ x <= x + p /\ x + p <= y
    BY <1>1, <2>3, <2>4
  <2> HIDE DEF s, n
  <2> QED BY <2>1, <2>4, <2>5
<1>5. ASSUME NEW k \in 1 .. n, NEW l \in 1 .. n, k <= l PROVE s[k] <= s[l]
  <2>1. s[k] = x + (k - 1) * width /\ s[l] = x + (l - 1) * width
    BY <1>4
  <2>2. PICK i \in Nat, j \in Nat : i = k - 1 /\ j = l - 1 /\ i <= j
    BY <1>5
  <2>3. PICK p \in Nat, t \in Nat : p = i * width /\ t = j * width /\ p <= t
    BY <2>2, TimesInOrder
  <2>4. s[k] = x + p /\ s[l] = x + t
    BY <2>1, <2>2, <2>3
  <2> HIDE DEF s, n
  <2> QED BY <2>3, <2>4
<1>6. ASSUME NEW k \in 1 .. n
      PROVE  rs[k] \in Regions /\ RMin(rs[k]) = s[k] /\ RMax(rs[k]) <= y /\ ~rs[k].main
  <2>1. PICK c \in Nat : c = WidthStart(r, k, width) /\ c = s[k] /\ c <= y
    BY <1>4
  <2>2. PICK e \in Nat : e = Lesser(y, c + width - 1) /\ c <= e /\ e <= y
    BY <2>1 DEF Lesser
  <2>3. rs[k] = WithDirection(Region(c, e), Backward(r))
    BY <1>1, <1>3, <2>1, <2>2 DEF WidthPieces
  <2>4. PICK p \in Regions : p = Region(c, e) /\ RMin(p) = c /\ RMax(p) = e
    BY <2>2, RegionOf DEF Lesser, Greater
  <2> HIDE DEF rs, s
  <2> QED BY <2>1, <2>2, <2>3, <2>4, DirectionKept
<1>7. rs = [k \in 1 .. n |-> rs[k]]
  BY <1>3 DEF WidthPieces
<1>8. \A k \in 1 .. n : /\ rs[k] \in Regions /\ RMin(rs[k]) = s[k] /\ s[k] \in Nat
                        /\ RMin(r) <= s[k] /\ s[k] <= RMax(r)
  <2> HIDE DEF rs, s, n
  <2> QED BY <1>1, <1>4, <1>6
<1>9. \A k \in 1 .. n, l \in 1 .. n : k <= l => s[k] <= s[l]
  <2> HIDE DEF rs, s, n
  <2> QED BY <1>5
<1> HIDE DEF rs, s, n
<1>10. Within(rs, r)
  BY <1>3, <1>7, <1>8, <1>9, PiecesWithin
<1>11. 1 .. Len(rs) = 1 .. n
  <2>1. rs \in Seq(Regions)
    BY <1>10 DEF Within
  <2>2. DOMAIN rs = 1 .. Len(rs)
    BY <2>1, LenProperties
  <2>3. DOMAIN rs = 1 .. n
    BY <1>7
  <2> QED BY <2>2, <2>3
<1>12. \A k \in 1 .. Len(rs) : ~rs[k].main
  BY <1>6, <1>11
<1>13. \A k \in 1 .. Len(rs) : RMax(rs[k]) <= RMax(r)
  BY <1>1, <1>6, <1>11
<1> QED BY <1>10, <1>12, <1>13 DEF rs

\* Matches of n bytes that start at the offsets starts do not overlap, and lie
\* between lo and hi.
Spaced(starts, n, lo, hi) ==
  /\ starts \in Seq(Nat)
  /\ \A k \in 1 .. Len(starts) : lo <= starts[k] /\ starts[k] + n <= hi + 1
  /\ \A k \in 1 .. Len(starts), l \in 1 .. Len(starts) : k < l => starts[k] + n <= starts[l]

\* What the scan has found so far.
Scans(n, lo, hi) ==
  {a \in [starts : Seq(Nat), next : Nat] :
     Spaced(a.starts, n, lo, hi) /\ \A k \in 1 .. Len(a.starts) : a.starts[k] + n <= a.next}

\* One turn of the scan for matches.
LEMMA ScanOffsetKeeps ==
  ASSUME NEW n \in Nat \ {0}, NEW lo \in Nat, NEW hi \in Nat, NEW a \in Scans(n, lo, hi),
         NEW data, NEW pattern, Len(pattern) = n, NEW p \in Nat, lo <= p,
         NEW end \in Nat, end <= hi + 1
  PROVE  ScanOffset(a, data, pattern, p, end) \in Scans(n, lo, hi)
<1>1. CASE ~(p >= a.next /\ p + n <= end /\ MatchesAt(data, pattern, p))
  <2>1. ScanOffset(a, data, pattern, p, end) = a
    BY <1>1 DEF ScanOffset
  <2> QED BY <2>1
<1>2. CASE p >= a.next /\ p + n <= end /\ MatchesAt(data, pattern, p)
  <2>1. PICK s \in Seq(Nat), m \in Nat, x \in Nat :
          s = a.starts /\ m = Len(s) /\ x = a.next /\ Spaced(s, n, lo, hi)
          /\ \A k \in 1 .. m : s[k] + n <= x
    BY LenProperties DEF Scans
  <2>2. PICK t : t = Append(s, p)
    OBVIOUS
  <2>3. t \in Seq(Nat) /\ Len(t) = m + 1 /\ t[m + 1] = p /\ \A k \in 1 .. m : t[k] = s[k] /\ s[k] \in Nat
    <3>1. m = Len(s) /\ \A k \in 1 .. m : s[k] \in Nat
      BY <2>1, ElementOfSeq
    <3> QED BY <2>2, <3>1, AppendProperties
  <2>4. /\ \A k \in 1 .. m : lo <= s[k] /\ s[k] + n <= hi + 1
        /\ \A k \in 1 .. m, l \in 1 .. m : k < l => s[k] + n <= s[l]
    BY <2>1 DEF Spaced
  <2>5. p >= x /\ p + n <= hi + 1
    <3>1. p >= a.next /\ p + n <= end
      BY <1>2
    <3> QED BY <2>1, <3>1
  <2>6. ASSUME NEW k \in 1 .. m + 1 PROVE lo <= t[k] /\ t[k] + n <= hi + 1 /\ t[k] + n <= p + n
    <3>1. CASE k = m + 1
      BY <2>3, <2>5, <3>1
    <3>2. CASE k # m + 1
      <4>1. k \in 1 .. m
        BY <3>2
      <4>2. s[k] + n <= x /\ s[k] \in Nat
        BY <2>1, <2>3, <4>1
      <4>3. s[k] + n <= p + n
        BY <2>5, <4>2
      <4> QED BY <2>3, <2>4, <4>1, <4>3
    <3> QED BY <3>1, <3>2
  <2>7. ASSUME NEW k \in 1 .. m + 1, NEW l \in 1 .. m + 1, k < l PROVE t[k] + n <= t[l]
    <3>0. k \in 1 .. m
      BY <2>7
    <3>1. k \in 1 .. m /\ s[k] \in Nat /\ s[k] + n <= x /\ t[k] = s[k]
      BY <2>1, <2>3, <3>0
    <3>2. CASE l = m + 1
      <4>1. PICK u \in Nat : u = s[k]
        BY <3>1
      <4>2. u + n <= p
        BY <2>5, <3>1, <4>1
      <4> QED BY <2>3, <3>1, <3>2, <4>1, <4>2
    <3>3. CASE l # m + 1
      <4>1. l \in 1 .. m
        BY <3>3
      <4> QED BY <2>3, <2>4, <2>7, <3>1, <4>1
    <3> QED BY <3>2, <3>3
  <2>8. Spaced(t, n, lo, hi)
    BY <2>3, <2>6, <2>7 DEF Spaced
  <2>9. PICK y \in Nat : y = p + n
    OBVIOUS
  <2>10. ScanOffset(a, data, pattern, p, end) = [starts |-> t, next |-> y]
    BY <1>2, <2>1, <2>2, <2>9 DEF ScanOffset
  <2>11. PICK b : b = [starts |-> t, next |-> y]
    OBVIOUS
  <2>12. b \in [starts : Seq(Nat), next : Nat] /\ b.starts = t /\ b.next = y
    BY <2>3, <2>11
  <2>13. \A k \in 1 .. Len(b.starts) : b.starts[k] + n <= b.next
    BY <2>3, <2>6, <2>9, <2>12
  <2> QED BY <2>8, <2>10, <2>11, <2>12, <2>13 DEF Scans
<1> QED BY <1>1, <1>2

\* map_selections_to_matches finds matches within the region.
LEMMA MatchesSpaced ==
  ASSUME NEW data \in Text, NEW r \in Regions, NEW pattern, Len(pattern) \in Nat \ {0}
  PROVE  Spaced(MatchStarts(data, r, pattern), Len(pattern), RMin(r), RMax(r))
<1> DEFINE n == RLen(r)
           A == Scans(Len(pattern), RMin(r), RMax(r))
           a == [starts |-> << >>, next |-> RMin(r)]
           Step(s, k) == ScanOffset(s, data, pattern, RMin(r) + k - 1, Lesser(RMax(r) + 1, Len(data)))
           O == ScanUpTo(data, r, pattern)
<1>0. /\ RMin(r) \in Nat /\ RMax(r) \in Nat /\ RMin(r) <= RMax(r)
      /\ Lesser(RMax(r) + 1, Len(data)) \in Nat /\ Lesser(RMax(r) + 1, Len(data)) <= RMax(r) + 1
  BY RegionBounds, TextElements DEF Lesser
<1>1. n \in Nat /\ a \in A
  <2>1. n \in Nat
    BY <1>0 DEF RLen
  <2>2. /\ << >> \in Seq(Nat) /\ Len(<< >>) = 0
        /\ a.starts = << >> /\ a \in [starts : Seq(Nat), next : Nat]
    BY <1>0, EmptySeq
  <2>3. 1 .. Len(a.starts) = {}
    BY <2>2
  <2> QED BY <2>1, <2>2, <2>3 DEF Scans, Spaced
<1>2. ASSUME NEW s \in A, NEW k \in 1 .. n PROVE Step(s, k) \in A
  <2>1. PICK p \in Nat : p = RMin(r) + k - 1 /\ RMin(r) <= p
    BY <1>0, <1>1
  <2> QED BY <1>0, <2>1, ScanOffsetKeeps
<1>3. O = CHOOSE h : h = [k \in 0 .. n |-> IF k = 0 THEN a ELSE Step(h[k - 1], k)]
  BY DEF ScanUpTo
<1>4. /\ O[0] = a
      /\ \A k \in 1 .. n : O[k] = Step(O[k - 1], k)
      /\ \A k \in 0 .. n : O[k] \in A
  <2> DEFINE step == [p \in A \X (1 .. n) |-> Step(p[1], p[2])]
  <2> HIDE DEF Step, A, a, n, O
  <2>1. step \in [A \X (1 .. n) -> A]
    BY <1>2
  <2>2. PICK f \in [0 .. n -> A] : Runs(f, n, a, step)
    <3> HIDE DEF step
    <3> QED BY <1>1, <2>1, Loop
  <2>3. ASSUME NEW k \in 1 .. n PROVE f[k] = Step(f[k - 1], k)
    <3>1. f[k - 1] \in A
      BY <1>1
    <3> QED BY <2>2, <3>1 DEF Runs
  <2>4. f = [k \in 0 .. n |-> IF k = 0 THEN a ELSE Step(f[k - 1], k)]
    <3>1. \A k \in 0 .. n : f[k] = IF k = 0 THEN a ELSE Step(f[k - 1], k)
      BY <1>1, <2>2, <2>3 DEF Runs
    <3> QED BY <3>1
  <2>5. O = [k \in 0 .. n |-> IF k = 0 THEN a ELSE Step(O[k - 1], k)]
    BY <1>3, <2>4
  <2>6. O[0] = a /\ \A k \in 1 .. n : O[k] = Step(O[k - 1], k)
    BY <1>1, <2>5
  <2>7. \A k \in 0 .. n : O[k] \in A
    <3>1. O[0] \in A /\ \A k \in 1 .. n : O[k - 1] \in A => O[k] \in A
      BY <1>1, <1>2, <2>6
    <3> QED BY <1>1, <3>1, LoopType
  <2> QED BY <2>6, <2>7
<1>5. O[n] \in A
  BY <1>1, <1>4
<1> QED BY <1>5 DEF MatchStarts, Scans

\* The matches that Collapse makes regions of.
FoundMatches(r, starts, n) ==
  [k \in DOMAIN starts |-> InheritDirection(Region(starts[k], starts[k] + n - 1), r)]

\* The matches of Collapse lie within their region, in order.
LEMMA FoundWithin ==
  ASSUME NEW r \in Regions, NEW n \in Nat \ {0}, NEW starts, Spaced(starts, n, RMin(r), RMax(r))
  PROVE  Within(FoundMatches(r, starts, n), r)
<1>1. PICK x \in Nat, y \in Nat : x = RMin(r) /\ y = RMax(r) /\ x <= y
  BY RegionBounds
<1>2. PICK m \in Nat : /\ m = Len(starts) /\ DOMAIN starts = 1 .. m
                       /\ \A k \in 1 .. m : starts[k] \in Nat
  BY ElementOfSeq, LenProperties DEF Spaced
<1>3. /\ \A k \in 1 .. m : x <= starts[k] /\ starts[k] + n <= y + 1
      /\ \A k \in 1 .. m, l \in 1 .. m : k < l => starts[k] + n <= starts[l]
  BY <1>1, <1>2 DEF Spaced
<1> DEFINE rs == FoundMatches(r, starts, n)
<1>4. ASSUME NEW k \in 1 .. m
      PROVE  /\ rs[k] \in Regions /\ RMin(rs[k]) = starts[k] /\ starts[k] \in Nat
             /\ RMin(r) <= starts[k] /\ starts[k] <= RMax(r)
  <2>1. PICK c \in Nat : c = starts[k] /\ x <= c /\ c + n <= y + 1
    BY <1>2, <1>3
  <2>2. PICK e \in Nat : e = c + n - 1 /\ c <= e
    OBVIOUS
  <2>3. rs[k] = WithDirection(Region(c, e), ~Forward(r))
    BY <1>2, <2>1, <2>2 DEF FoundMatches, InheritDirection
  <2>4. Region(c, e) \in Regions /\ RMin(Region(c, e)) = c
    BY <2>2, RegionOf DEF Lesser
  <2>5. rs[k] \in Regions /\ RMin(rs[k]) = c
    BY <2>3, <2>4, DirectionKept
  <2>6. c <= y
    BY <2>1
  <2> QED BY <1>1, <2>1, <2>5, <2>6
<1>5. ASSUME NEW k \in 1 .. m, NEW l \in 1 .. m, k <= l PROVE starts[k] <= starts[l]
  <2>1. PICK c \in Nat, e \in Nat : c = starts[k] /\ e = starts[l] /\ (k < l => c + n <= e)
    BY <1>2, <1>3
  <2>2. k < l \/ k = l
    BY <1>5
  <2>3. k < l => c <= e
    BY <2>1
  <2> QED BY <2>1, <2>2, <2>3
<1>6. rs = [k \in 1 .. m |-> rs[k]]
  BY <1>2 DEF FoundMatches
<1> HIDE DEF rs
<1>7. \A k \in 1 .. m, l \in 1 .. m : k <= l => starts[k] <= starts[l]
  BY <1>5
<1>8. Within(rs, r)
  BY <1>4, <1>6, <1>7, PiecesWithin
<1> QED BY <1>8 DEF rs

\* What is left of r after the first k matches are cut out of it.
Cuts == [out : Seq(Regions), rest : Seq(Regions)]

CutSoFar(a, r, starts, k) ==
  /\ a \in Cuts /\ Within(a.out, r) /\ Len(a.rest) <= 1
  /\ a.rest # << >> =>
       /\ RMin(r) <= RMin(a.rest[1]) /\ RMax(a.rest[1]) = RMax(r)
       /\ \A j \in 1 .. Len(a.out) : RMin(a.out[j]) <= RMin(a.rest[1])
       /\ \A l \in k + 1 .. Len(starts) : RMin(a.rest[1]) <= starts[l]

\* One more region begins within r, after the ones before it.
LEMMA AddedWithin ==
  ASSUME NEW r \in Regions, NEW rs, Within(rs, r), NEW q \in Regions,
         RMin(r) <= RMin(q), RMin(q) <= RMax(r), \A j \in 1 .. Len(rs) : RMin(rs[j]) <= RMin(q)
  PROVE  Within(rs \o << q >>, r)
<1>1. PICK m \in Nat : m = Len(rs) /\ rs \in Seq(Regions) /\ \A k \in 1 .. m : rs[k] \in Regions
  BY LenProperties, ElementOfSeq DEF Within
<1>2. /\ \A k \in 1 .. m, l \in 1 .. m : k <= l => RMin(rs[k]) <= RMin(rs[l])
      /\ \A k \in 1 .. m : RMin(r) <= RMin(rs[k]) /\ RMin(rs[k]) <= RMax(r)
  BY <1>1 DEF Within, Ascending
<1>3. PICK p : p = rs \o << q >>
  OBVIOUS
<1>4. p \in Seq(Regions) /\ Len(p) = m + 1 /\ p[m + 1] = q /\ \A k \in 1 .. m : p[k] = rs[k]
  <2>1. << q >> \in Seq(Regions) /\ Len(<< q >>) = 1 /\ << q >>[1] = q
    OBVIOUS
  <2>2. /\ p \in Seq(Regions) /\ Len(p) = m + 1
        /\ \A i \in 1 .. m + 1 : p[i] = IF i <= m THEN rs[i] ELSE << q >>[i - m]
    BY <1>1, <1>3, <2>1, ConcatProperties
  <2>3. p[m + 1] = << q >>[1]
    <3>1. m + 1 \in 1 .. m + 1 /\ ~(m + 1 <= m) /\ (m + 1) - m = 1
      OBVIOUS
    <3> QED BY <2>2, <3>1
  <2>4. ASSUME NEW k \in 1 .. m PROVE p[k] = rs[k]
    <3>1. k \in 1 .. m + 1 /\ k <= m
      OBVIOUS
    <3> QED BY <2>2, <3>1
  <2> QED BY <2>1, <2>2, <2>3, <2>4
<1>5. ASSUME NEW k \in 1 .. m + 1 PROVE RMin(r) <= RMin(p[k]) /\ RMin(p[k]) <= RMax(r)
  <2>1. CASE k = m + 1
    BY <1>4, <2>1
  <2>2. CASE k # m + 1
    <3>1. k \in 1 .. m
      BY <2>2
    <3> QED BY <1>2, <1>4, <3>1
  <2> QED BY <2>1, <2>2
<1>6. ASSUME NEW k \in 1 .. m + 1, NEW l \in 1 .. m + 1, k <= l PROVE RMin(p[k]) <= RMin(p[l])
  <2>1. CASE k = m + 1
    <3>1. l = m + 1 /\ RMin(q) \in Nat
      BY <1>6, <2>1, RegionBounds
    <3> QED BY <1>4, <2>1, <3>1
  <2>2. CASE k # m + 1
    <3>1. k \in 1 .. m
      BY <2>2
    <3>2. CASE l = m + 1
      BY <1>1, <1>4, <3>1, <3>2
    <3>3. CASE l # m + 1
      <4>1. l \in 1 .. m
        BY <3>3
      <4> QED BY <1>2, <1>4, <1>6, <3>1, <4>1
    <3> QED BY <3>2, <3>3
  <2> QED BY <2>1, <2>2
<1>7. Within(p, r)
  <2>1. Ascending(p)
    BY <1>4, <1>6 DEF Ascending
  <2> QED BY <1>4, <1>5, <2>1 DEF Within
<1> QED BY <1>3, <1>7

\* split_at_region: the part before the match begins where the region does, the
\* part after it ends where the region does.
LEMMA SidesOf ==
  ASSUME NEW q \in Regions, NEW s \in Nat, NEW e \in Nat, RMin(q) <= s, s <= e
  PROVE  /\ \/ SplitAtRegion(q, s, e).left = << >>
            \/ \E u \in Regions : SplitAtRegion(q, s, e).left = << u >> /\ RMin(u) = RMin(q)
         /\ \/ SplitAtRegion(q, s, e).right = << >>
            \/ \E v \in Regions : /\ SplitAtRegion(q, s, e).right = << v >>
                                  /\ RMin(v) = e + 1 /\ RMax(v) = RMax(q)
<1>1. PICK x \in Nat, y \in Nat : x = RMin(q) /\ y = RMax(q) /\ x <= y
  BY RegionBounds
<1> DEFINE inside == s > RMin(q) /\ e < RMax(q)
           keep(piece) == IF inside THEN piece ELSE InheritDirection(piece, q)
<1>2. /\ SplitAtRegion(q, s, e).left =
           IF s <= RMin(q) THEN << >> ELSE << keep(Region(RMin(q), s - 1)) >>
      /\ SplitAtRegion(q, s, e).right =
           IF e >= RMax(q) THEN << >> ELSE << keep(Region(e + 1, RMax(q))) >>
  BY DEF SplitAtRegion
<1>3. ASSUME NEW piece \in Regions
      PROVE  /\ keep(piece) \in Regions /\ RMin(keep(piece)) = RMin(piece)
             /\ RMax(keep(piece)) = RMax(piece)
  BY DirectionKept DEF InheritDirection
<1> HIDE DEF keep, inside
<1>4. ASSUME SplitAtRegion(q, s, e).left # << >>
      PROVE  \E u \in Regions : SplitAtRegion(q, s, e).left = << u >> /\ RMin(u) = RMin(q)
  <2>1. ~(s <= RMin(q)) /\ SplitAtRegion(q, s, e).left = << keep(Region(RMin(q), s - 1)) >>
    BY <1>2, <1>4
  <2>2. PICK z \in Nat : z = s - 1 /\ x <= z
    BY <1>1, <2>1
  <2>3. Region(x, z) \in Regions /\ RMin(Region(x, z)) = x
    BY <2>2, RegionOf DEF Lesser
  <2> QED BY <1>1, <1>3, <2>1, <2>2, <2>3
<1>5. ASSUME SplitAtRegion(q, s, e).right # << >>
      PROVE  \E v \in Regions : /\ SplitAtRegion(q, s, e).right = << v >>
                                /\ RMin(v) = e + 1 /\ RMax(v) = RMax(q)
  <2>1. ~(e >= RMax(q)) /\ SplitAtRegion(q, s, e).right = << keep(Region(e + 1, RMax(q))) >>
    BY <1>2, <1>5
  <2>2. PICK z \in Nat : z = e + 1 /\ z <= y
    BY <1>1, <2>1
  <2>3. Region(z, y) \in Regions /\ RMin(Region(z, y)) = z /\ RMax(Region(z, y)) = y
    BY <2>2, RegionOf DEF Lesser, Greater
  <2> QED BY <1>1, <1>3, <2>1, <2>2, <2>3
<1> QED BY <1>4, <1>5

\* One turn of Split: a match is cut out of what is left of the region.
LEMMA CutMatchKeeps ==
  ASSUME NEW r \in Regions, NEW n \in Nat \ {0}, NEW starts, Spaced(starts, n, RMin(r), RMax(r)),
         NEW k \in 1 .. Len(starts), NEW a, CutSoFar(a, r, starts, k - 1)
  PROVE  CutSoFar(CutMatch(a, starts[k], n), r, starts, k)
<1>1. PICK m \in Nat : m = Len(starts) /\ \A l \in 1 .. m : starts[l] \in Nat
  BY ElementOfSeq, LenProperties DEF Spaced
<1>2. \A l \in 1 .. m : k < l => starts[k] + n <= starts[l]
  BY <1>1 DEF Spaced
<1>3. /\ a \in Cuts /\ a.out \in Seq(Regions) /\ a.rest \in Seq(Regions)
      /\ Within(a.out, r) /\ Len(a.rest) <= 1
  BY DEF CutSoFar, Cuts
<1>4. CASE a.rest = << >>
  <2>1. CutMatch(a, starts[k], n) = a
    BY <1>4 DEF CutMatch
  <2> QED BY <1>3, <1>4, <2>1 DEF CutSoFar
<1>5. CASE a.rest # << >>
  <2>1. PICK q \in Regions : q = a.rest[1]
    BY <1>3, <1>5, EmptySeq, LenProperties, ElementOfSeq
  <2>2. /\ RMin(r) <= RMin(q) /\ RMax(q) = RMax(r)
        /\ \A j \in 1 .. Len(a.out) : RMin(a.out[j]) <= RMin(q)
        /\ RMin(q) <= starts[k]
    <3>1. k \in (k - 1) + 1 .. Len(starts)
      BY <1>1
    <3> QED BY <1>5, <2>1, <3>1 DEF CutSoFar
  <2>3. PICK s \in Nat, e \in Nat : s = starts[k] /\ e = s + n - 1 /\ s <= e /\ RMin(q) <= s
    BY <1>1, <2>2
  <2>4. PICK sides : sides = SplitAtRegion(q, s, e)
    OBVIOUS
  <2>5. /\ sides.left = << >> \/ \E u \in Regions : sides.left = << u >> /\ RMin(u) = RMin(q)
        /\ \/ sides.right = << >>
           \/ \E v \in Regions : sides.right = << v >> /\ RMin(v) = e + 1 /\ RMax(v) = RMax(q)
    BY <2>3, <2>4, SidesOf
  <2>6. PICK b : b = [out |-> a.out \o sides.left, rest |-> sides.right]
    OBVIOUS
  <2>7. CutMatch(a, starts[k], n) = b /\ b.out = a.out \o sides.left /\ b.rest = sides.right
    BY <1>5, <2>1, <2>3, <2>4, <2>6 DEF CutMatch
  <2>8. PICK x \in Nat, y \in Nat, lo \in Nat : x = RMin(q) /\ y = RMax(q) /\ x <= y /\ lo = RMin(r) /\ lo <= x
    BY <2>2, RegionBounds
  <2>9. /\ Within(b.out, r) /\ b.out \in Seq(Regions)
        /\ \A j \in 1 .. Len(b.out) : RMin(b.out[j]) <= x
    <3>1. CASE sides.left = << >>
      <4>1. b.out = a.out
        BY <1>3, <2>7, <3>1, ConcatEmptySeq
      <4> QED BY <1>3, <2>2, <2>8, <4>1
    <3>2. CASE sides.left # << >>
      <4>1. PICK u \in Regions : sides.left = << u >> /\ RMin(u) = x
        BY <2>5, <2>8, <3>2
      <4>2. /\ RMin(r) <= RMin(u) /\ RMin(u) <= RMax(r)
            /\ \A j \in 1 .. Len(a.out) : RMin(a.out[j]) <= RMin(u)
        BY <2>2, <2>8, <4>1
      <4>3. b.out = a.out \o << u >>
        BY <2>7, <4>1
      <4>4. Within(b.out, r)
        BY <1>3, <4>2, <4>3, AddedWithin
      <4>5. b.out \in Seq(Regions) /\ Ascending(b.out)
        BY <4>4 DEF Within
      <4>6. PICK c \in Nat : c = Len(a.out) /\ Len(b.out) = c + 1 /\ b.out[c + 1] = u
        <5>1. << u >> \in Seq(Regions) /\ Len(<< u >>) = 1 /\ << u >>[1] = u
          OBVIOUS
        <5>2. PICK c \in Nat : c = Len(a.out)
          BY <1>3, LenProperties
        <5>3. /\ Len(b.out) = c + 1
              /\ \A i \in 1 .. c + 1 : b.out[i] = IF i <= c THEN a.out[i] ELSE << u >>[i - c]
          BY <1>3, <4>3, <5>1, <5>2, ConcatProperties
        <5>4. c + 1 \in 1 .. c + 1 /\ ~(c + 1 <= c) /\ (c + 1) - c = 1
          OBVIOUS
        <5>5. b.out[c + 1] = u
          BY <5>1, <5>3, <5>4
        <5> QED BY <5>2, <5>3, <5>5
      <4>7. ASSUME NEW j \in 1 .. Len(b.out) PROVE RMin(b.out[j]) <= x
        <5>1. j <= c + 1 /\ c + 1 \in 1 .. Len(b.out)
          BY <4>6
        <5>2. RMin(b.out[j]) <= RMin(b.out[c + 1])
          BY <4>5, <5>1 DEF Ascending
        <5> QED BY <4>1, <4>6, <5>2
      <4> QED BY <4>4, <4>5, <4>7
    <3> QED BY <3>1, <3>2
  <2>10. CASE sides.right = << >>
    <3>1. b.rest = << >> /\ Len(b.rest) <= 1 /\ b.rest \in Seq(Regions)
      BY <2>7, <2>10, EmptySeq
    <3>2. b \in Cuts
      BY <2>6, <2>7, <2>9, <3>1 DEF Cuts
    <3> QED BY <2>7, <2>9, <3>1, <3>2 DEF CutSoFar
  <2>11. CASE sides.right # << >>
    <3>1. PICK v \in Regions : sides.right = << v >> /\ RMin(v) = e + 1 /\ RMax(v) = y
      BY <2>5, <2>8, <2>11
    <3>2. b.rest = << v >> /\ Len(b.rest) <= 1 /\ b.rest \in Seq(Regions) /\ b.rest[1] = v
      BY <2>7, <3>1
    <3>3. b \in Cuts
      BY <2>6, <2>7, <2>9, <3>2 DEF Cuts
    <3>4. PICK w \in Nat : w = e + 1 /\ w = s + n /\ x <= w /\ lo <= w
      <4>1. e = s + n - 1 /\ x <= s
        BY <2>3, <2>8
      <4>2. lo <= x
        BY <2>8
      <4>3. e + 1 \in Nat /\ e + 1 = s + n /\ x <= e + 1 /\ lo <= e + 1
        BY <4>1, <4>2
      <4> QED BY <4>3
    <3>5. RMin(r) <= RMin(v) /\ RMax(v) = RMax(r)
      BY <2>2, <2>8, <3>1, <3>4
    <3>6. ASSUME NEW j \in 1 .. Len(b.out) PROVE RMin(b.out[j]) <= RMin(v)
      <4>1. RMin(b.out[j]) \in Nat /\ RMin(b.out[j]) <= x
        BY <2>9, ElementOfSeq, RegionBounds
      <4> QED BY <3>1, <3>4, <4>1
    <3>7. ASSUME NEW l \in k + 1 .. Len(starts) PROVE RMin(v) <= starts[l]
      <4>1. l \in 1 .. m /\ k < l
        BY <1>1
      <4>2. s + n <= starts[l]
        BY <1>2, <2>3, <4>1
      <4> QED BY <3>1, <3>4, <4>2
    <3> QED BY <2>7, <2>9, <3>2, <3>3, <3>5, <3>6, <3>7 DEF CutSoFar
  <2> QED BY <2>10, <2>11
<1> QED BY <1>4, <1>5

\* The loop over the matches is the loop it is written as.
LEMMA CutDef ==
  ASSUME NEW r \in Regions, NEW w \in Nat \ {0}, NEW starts, Spaced(starts, w, RMin(r), RMax(r)),
         NEW n \in Nat, n = Len(starts)
  PROVE  /\ CutUpTo(r, starts, w)[0] = [out |-> << >>, rest |-> << r >>]
         /\ \A k \in 1 .. n : CutUpTo(r, starts, w)[k] = CutMatch(CutUpTo(r, starts, w)[k - 1], starts[k], w)
         /\ \A k \in 0 .. n : CutSoFar(CutUpTo(r, starts, w)[k], r, starts, k)
<1> DEFINE a == [out |-> << >>, rest |-> << r >>]
           Good(s, k) == CutSoFar(s, r, starts, k)
           Step(s, k) == CutMatch(s, starts[k], w)
           A == [k \in 0 .. n |-> {s \in Cuts : Good(s, k)}]
           C == CutUpTo(r, starts, w)
<1>1. Good(a, 0)
  <2>1. << >> \in Seq(Regions) /\ Len(<< >>) = 0 /\ << r >> \in Seq(Regions) /\ Len(<< r >>) = 1 /\ << r >>[1] = r
    BY EmptySeq
  <2>2. a \in Cuts /\ a.out = << >> /\ a.rest = << r >>
    BY <2>1 DEF Cuts
  <2> HIDE DEF a
  <2>3. 1 .. Len(a.out) = {}
    BY <2>1, <2>2
  <2>4. Within(a.out, r)
    BY <2>1, <2>2, <2>3 DEF Within, Ascending
  <2>5. RMin(r) <= RMin(r)
    BY RegionBounds
  <2>6. ASSUME NEW l \in 0 + 1 .. Len(starts) PROVE RMin(r) <= starts[l]
    BY DEF Spaced
  <2> QED BY <2>1, <2>2, <2>3, <2>4, <2>5, <2>6 DEF CutSoFar
<1>2. ASSUME NEW k \in 1 .. n, NEW s, Good(s, k - 1) PROVE Good(Step(s, k), k)
  BY <1>2, CutMatchKeeps
<1>3. C = CHOOSE h : h = [k \in 0 .. n |-> IF k = 0 THEN a ELSE Step(h[k - 1], k)]
  BY DEF CutUpTo
<1>4. \A s, k : Good(s, k) => s \in Cuts
  BY DEF CutSoFar
<1> HIDE DEF Good, Step, a, C
<1>5. /\ C[0] = a /\ \A k \in 1 .. n : C[k] = Step(C[k - 1], k)
      /\ \A k \in 0 .. n : Good(C[k], k)
  <2> DEFINE step == [p \in Cuts \X (1 .. n) |-> Step(p[1], p[2])]
  <2>1. \A k \in 0 .. n : \A s : s \in A[k] <=> Good(s, k)
    BY <1>4
  <2>2. \A k \in 1 .. n : \A s \in A[k - 1] : step[<< s, k >>] = Step(s, k) /\ step[<< s, k >>] \in A[k]
    <3> SUFFICES ASSUME NEW k \in 1 .. n, NEW s \in A[k - 1]
                 PROVE  step[<< s, k >>] = Step(s, k) /\ step[<< s, k >>] \in A[k]
      OBVIOUS
    <3>1. k \in 0 .. n /\ k - 1 \in 0 .. n
      OBVIOUS
    <3>2. s \in Cuts /\ Good(s, k - 1)
      BY <1>4, <2>1, <3>1
    <3>3. step[<< s, k >>] = Step(s, k)
      BY <3>2
    <3>4. Step(s, k) \in A[k]
      BY <1>2, <2>1, <3>1, <3>2
    <3> QED BY <3>3, <3>4
  <2>3. a \in A[0]
    BY <1>1, <2>1
  <2> HIDE DEF step, A
  <2>4. PICK f : /\ DOMAIN f = 0 .. n /\ f = [k \in 0 .. n |-> f[k]]
                 /\ Runs(f, n, a, step)
                 /\ \A k \in 0 .. n : f[k] \in A[k]
    BY <2>2, <2>3, LoopWithin
  <2>5. ASSUME NEW k \in 1 .. n PROVE f[k] = Step(f[k - 1], k)
    <3>1. k - 1 \in 0 .. n
      OBVIOUS
    <3>2. f[k - 1] \in A[k - 1]
      BY <2>4, <3>1
    <3> QED BY <2>2, <2>4, <3>2 DEF Runs
  <2>6. f = [k \in 0 .. n |-> IF k = 0 THEN a ELSE Step(f[k - 1], k)]
    <3>0. f[0] = a
      BY <2>4 DEF Runs
    <3>1. \A k \in 0 .. n : f[k] = IF k = 0 THEN a ELSE Step(f[k - 1], k)
      BY <2>5, <3>0
    <3>2. [k \in 0 .. n |-> f[k]] = [k \in 0 .. n |-> IF k = 0 THEN a ELSE Step(f[k - 1], k)]
      BY <3>1
    <3> QED BY <2>4, <3>2
  <2>7. C = [k \in 0 .. n |-> IF k = 0 THEN a ELSE Step(C[k - 1], k)]
    BY <1>3, <2>6
  <2>8. C[0] = a /\ \A k \in 1 .. n : C[k] = Step(C[k - 1], k)
    BY <2>7
  <2> DEFINE S == {k \in 0 .. n : Good(C[k], k)}
  <2>9. 0 \in S
    BY <1>1, <2>8
  <2>10. \A k \in 0 .. n - 1 : k \in S => k + 1 \in S
    <3> SUFFICES ASSUME NEW k \in 0 .. n - 1, Good(C[k], k) PROVE k + 1 \in S
      OBVIOUS
    <3>1. PICK j \in 1 .. n : j = k + 1 /\ k = j - 1 /\ j \in 0 .. n
      OBVIOUS
    <3>2. Good(C[j], j)
      BY <1>2, <2>8, <3>1
    <3> QED BY <3>1, <3>2
  <2>11. \A k \in 0 .. n : k \in S
    <3> HIDE DEF S
    <3> QED BY <2>9, <2>10, Induction
  <2> QED BY <2>8, <2>11
<1> QED BY <1>5 DEF Good, Step, a, C

\* What Split keeps of a region begins in order, within it.
LEMMA CutWithin ==
  ASSUME NEW r \in Regions, NEW w \in Nat \ {0}, NEW starts, Spaced(starts, w, RMin(r), RMax(r))
  PROVE  Within(CutOut(r, starts, w), r)
<1>0. Len(starts) \in Nat /\ Len(starts) \in 0 .. Len(starts)
  BY LenProperties DEF Spaced
<1>1. PICK a : a = CutUpTo(r, starts, w)[Len(starts)] /\ CutSoFar(a, r, starts, Len(starts))
  BY <1>0, CutDef
<1>2. CutOut(r, starts, w) = a.out \o a.rest
  BY <1>1 DEF CutOut
<1>3. a.out \in Seq(Regions) /\ a.rest \in Seq(Regions) /\ Within(a.out, r) /\ Len(a.rest) <= 1
  BY <1>1 DEF CutSoFar, Cuts
<1>4. CASE a.rest = << >>
  <2>1. a.out \o a.rest = a.out
    BY <1>3, <1>4, ConcatEmptySeq
  <2> QED BY <1>2, <1>3, <2>1
<1>5. CASE a.rest # << >>
  <2>1. PICK c \in Nat : c = Len(a.rest) /\ c # 0
    BY <1>3, <1>5, EmptySeq, LenProperties
  <2>2. Len(a.rest) = 1
    <3>1. c <= 1
      BY <1>3, <2>1
    <3>2. c # 0
      BY <2>1
    <3>3. c = 1
      BY <3>1, <3>2
    <3> QED BY <2>1, <3>3
  <2>3. PICK q \in Regions : a.rest = << q >> /\ q = a.rest[1]
    <3>1. a.rest[1] \in Regions
      BY <1>3, <2>2, ElementOfSeq
    <3>2. a.rest = << a.rest[1] >>
      BY <1>3, <2>2, <3>1
    <3> QED BY <3>1, <3>2
  <2>4. /\ RMin(r) <= RMin(q) /\ RMax(q) = RMax(r)
        /\ \A j \in 1 .. Len(a.out) : RMin(a.out[j]) <= RMin(q)
    BY <1>1, <1>5, <2>3 DEF CutSoFar
  <2>5. RMin(q) <= RMax(r)
    BY <2>4, RegionBounds
  <2> QED BY <1>2, <1>3, <2>3, <2>4, <2>5, AddedWithin
<1> QED BY <1>4, <1>5

-----------------------------------------------------------------------------
(* The methods of Selection that do not map the regions.                   *)

\* Vec::remove: the elements after the one taken out move up.
LEMMA RemoveAtProperties ==
  ASSUME NEW S, NEW s \in Seq(S), NEW i \in 1 .. Len(s)
  PROVE  /\ RemoveAt(s, i) \in Seq(S) /\ Len(RemoveAt(s, i)) = Len(s) - 1
         /\ \A j \in 1 .. Len(s) - 1 : RemoveAt(s, i)[j] = IF j < i THEN s[j] ELSE s[j + 1]
<1> DEFINE a == SubSeq(s, 1, i - 1)
           c == SubSeq(s, i + 1, Len(s))
<1>1. PICK n \in Nat : n = Len(s) /\ i \in 1 .. n
  BY LenProperties
<1>2. \A j \in 1 .. n : s[j] \in S
  BY <1>1, ElementOfSeq
<1>3. a \in Seq(S) /\ Len(a) = i - 1 /\ \A j \in 1 .. i - 1 : a[j] = s[j]
  <2>1. PICK l \in Int : l = i - 1 /\ \A j \in 1 .. l : s[j] \in S
    BY <1>1, <1>2
  <2>2. /\ SubSeq(s, 1, l) \in Seq(S) /\ Len(SubSeq(s, 1, l)) = (IF 1 <= l THEN l - 1 + 1 ELSE 0)
        /\ \A j \in 1 .. l - 1 + 1 : SubSeq(s, 1, l)[j] = s[1 + j - 1]
    BY <2>1, SubSeqProperties
  <2>3. \A j \in 1 .. l : j \in 1 .. l - 1 + 1 /\ 1 + j - 1 = j
    OBVIOUS
  <2>4. \A j \in 1 .. l : SubSeq(s, 1, l)[j] = s[j]
    BY <2>2, <2>3
  <2>5. Len(SubSeq(s, 1, l)) = l
    BY <1>1, <2>1, <2>2
  <2> QED BY <2>1, <2>2, <2>4, <2>5
<1>4. c \in Seq(S) /\ Len(c) = n - i /\ \A j \in 1 .. n - i : c[j] = s[j + i]
  <2>1. PICK l \in Int : l = i + 1 /\ \A j \in l .. n : s[j] \in S
    BY <1>1, <1>2
  <2>2. /\ SubSeq(s, l, n) \in Seq(S) /\ Len(SubSeq(s, l, n)) = (IF l <= n THEN n - l + 1 ELSE 0)
        /\ \A j \in 1 .. n - l + 1 : SubSeq(s, l, n)[j] = s[l + j - 1]
    BY <2>1, SubSeqProperties
  <2>3. \A j \in 1 .. n - i : j \in 1 .. n - l + 1 /\ l + j - 1 = j + i
    BY <2>1
  <2>4. \A j \in 1 .. n - i : SubSeq(s, l, n)[j] = s[j + i]
    BY <2>2, <2>3
  <2>5. Len(SubSeq(s, l, n)) = n - i
    BY <1>1, <2>1, <2>2
  <2> QED BY <1>1, <2>1, <2>2, <2>4, <2>5
<1>5. RemoveAt(s, i) = a \o c
  BY DEF RemoveAt
<1> HIDE DEF a, c
<1>6. /\ a \o c \in Seq(S) /\ Len(a \o c) = Len(a) + Len(c)
      /\ \A j \in 1 .. Len(a) + Len(c) : (a \o c)[j] = IF j <= Len(a) THEN a[j] ELSE c[j - Len(a)]
  BY <1>3, <1>4, ConcatProperties
<1>7. Len(a) + Len(c) = n - 1 /\ Len(a) = i - 1
  BY <1>1, <1>3, <1>4
<1>8. ASSUME NEW j \in 1 .. n - 1 PROVE (a \o c)[j] = IF j < i THEN s[j] ELSE s[j + 1]
  <2>1. (a \o c)[j] = IF j <= i - 1 THEN a[j] ELSE c[j - (i - 1)]
    BY <1>6, <1>7
  <2>2. CASE j < i
    BY <1>3, <2>1, <2>2
  <2>3. CASE ~(j < i)
    <3>1. j - (i - 1) \in 1 .. n - i /\ j - (i - 1) + i = j + 1 /\ ~(j <= i - 1)
      BY <2>3
    <3> QED BY <1>4, <2>1, <2>3, <3>1
  <2> QED BY <2>2, <2>3
<1> QED BY <1>1, <1>5, <1>6, <1>7, <1>8

\* No region but the main one is flagged.
OneMain(s) == \A i \in 1 .. Len(s.regions) : s.regions[i].main => i = s.main_selection + 1

\* No region reaches past the offset n.
Inside(s, n) == \A i \in 1 .. Len(s.regions) : RMax(s.regions[i]) <= n

\* A selection of one region flags no other.
LEMMA OneIsMain ==
  ASSUME NEW r
  PROVE  /\ OneMain([regions |-> << r >>, main_selection |-> 0])
         /\ \A n : RMax(r) <= n => Inside([regions |-> << r >>, main_selection |-> 0], n)
BY DEF OneMain, Inside

\* The selection a buffer begins with.
LEMMA ClearedReach == OneMain(Cleared) /\ \A n \in Nat : Inside(Cleared, n)
<1>1. PICK r : r = [Region(0, 0) EXCEPT !.main = TRUE]
  OBVIOUS
<1>2. RMax(r) = 0
  BY <1>1 DEF Region, RMax, Greater
<1>3. Cleared = [regions |-> << r >>, main_selection |-> 0]
  BY <1>1 DEF Cleared
<1>4. Cleared.regions = << r >>
  BY <1>3
<1>5. \A n \in Nat : Inside(Cleared, n)
  BY <1>2, <1>4 DEF Inside
<1> QED BY <1>3, <1>5, OneIsMain

\* Q is R with region k flagged or not, as x says.
Flagging(Q, R, k, x) ==
  /\ Q[k].main = x
  /\ \A j \in 1 .. Len(R) : RMax(Q[j]) = RMax(R[j])
  /\ \A j \in 1 .. Len(R) : j # k => Q[j].main = R[j].main

\* Setting a main flag moves no region.
LEMMA FlagKept ==
  ASSUME NEW sel, NEW R \in Seq(Regions), NEW m \in Nat, SortedDisjoint(R),
         sel = [regions |-> R, main_selection |-> m], NEW i \in Nat, i < Len(R), NEW x \in BOOLEAN
  PROVE  \E Q \in Seq(Regions) : /\ Flag(sel, i, x) = [regions |-> Q, main_selection |-> m]
                                 /\ Len(Q) = Len(R) /\ SortedDisjoint(Q) /\ Flagging(Q, R, i + 1, x)
<1>0. PICK n \in Nat : n = Len(R)
  BY LenProperties
<1>1. PICK k \in 1 .. n : k = i + 1
  BY <1>0
<1>2. PICK q \in Regions : q = R[k]
  BY <1>0, ElementOfSeq
<1>a. PICK r : r = [q EXCEPT !.main = x]
  OBVIOUS
<1>3. r \in Regions /\ r.main = x /\ RMin(r) = RMin(q) /\ RMax(r) = RMax(q)
  BY <1>a, FlaggedRegion, Zenon
<1>4. PICK Q : Q = [R EXCEPT ![k] = r]
  OBVIOUS
<1>5. Q \in Seq(Regions) /\ Len(Q) = n /\ \A j \in 1 .. n : Q[j] = IF j = k THEN r ELSE R[j]
  BY <1>0, <1>3, <1>4, ExceptSeq
<1>6. SortedDisjoint(Q)
  <2>1. \A j \in 1 .. n : RMin(Q[j]) = RMin(R[j]) /\ RMax(Q[j]) = RMax(R[j])
    BY <1>2, <1>3, <1>5
  <2>2. \A j \in 1 .. n - 1 : j \in 1 .. n /\ j + 1 \in 1 .. n /\ RMax(R[j]) < RMin(R[j + 1])
    BY <1>0 DEF SortedDisjoint
  <2>3. \A j \in 1 .. n - 1 : RMax(Q[j]) < RMin(Q[j + 1])
    BY <2>1, <2>2
  <2> QED BY <1>5, <2>3 DEF SortedDisjoint
<1>7. Flag(sel, i, x) = [regions |-> Q, main_selection |-> m]
  <2>1. PICK w : w = [sel.regions EXCEPT ![i + 1] = [sel.regions[i + 1] EXCEPT !.main = x]]
    OBVIOUS
  <2>2. Flag(sel, i, x) = [sel EXCEPT !.regions = w]
    BY <2>1, Zenon DEF Flag
  <2>3. sel.regions = R
    OBVIOUS
  <2>4. w = Q
    BY <1>1, <1>2, <1>a, <1>4, <2>1, <2>3
  <2> QED BY <2>2, <2>4
<1>8. Flagging(Q, R, i + 1, x)
  <2>1. Q[i + 1] = r
    BY <1>1, <1>5
  <2>2. Q[i + 1].main = x
    BY <1>3, <2>1
  <2>3. \A j \in 1 .. n : j # i + 1 => Q[j].main = R[j].main
    BY <1>1, <1>5
  <2>4. \A j \in 1 .. n : RMax(Q[j]) = RMax(R[j])
    BY <1>2, <1>3, <1>5
  <2> QED BY <1>0, <2>2, <2>3, <2>4 DEF Flagging
<1> QED BY <1>0, <1>5, <1>6, <1>7, <1>8


\* select_next, select_prev: another region becomes the main one.
LEMMA SwitchKept ==
  ASSUME NEW sel \in Selections, NEW m \in Nat, m < Len(sel.regions)
  PROVE  /\ SwitchMain(sel, m) \in Selections
         /\ OneMain(sel) => OneMain(SwitchMain(sel, m))
         /\ \A n \in Nat : Inside(sel, n) => Inside(SwitchMain(sel, m), n)
<1>1. PICK R \in Seq(Regions), o \in Nat :
        sel = [regions |-> R, main_selection |-> o] /\ o < Len(R) /\ SortedDisjoint(R)
  BY DEF Selections
<1>2. m < Len(R) /\ sel.main_selection = o
  BY <1>1
<1>3. PICK Q \in Seq(Regions) :
        /\ Flag(sel, o, FALSE) = [regions |-> Q, main_selection |-> o]
        /\ Len(Q) = Len(R) /\ SortedDisjoint(Q) /\ Flagging(Q, R, o + 1, FALSE)
  <2>1. PICK x \in BOOLEAN : x = FALSE
    OBVIOUS
  <2>2. \E Q \in Seq(Regions) :
          /\ Flag(sel, o, x) = [regions |-> Q, main_selection |-> o]
          /\ Len(Q) = Len(R) /\ SortedDisjoint(Q) /\ Flagging(Q, R, o + 1, x)
    BY <1>1, FlagKept
  <2> QED BY <2>1, <2>2, Zenon
<1>4. PICK s : s = [regions |-> Q, main_selection |-> m]
  OBVIOUS
<1>5. PICK P \in Seq(Regions) :
        /\ Flag(s, m, TRUE) = [regions |-> P, main_selection |-> m]
        /\ Len(P) = Len(Q) /\ SortedDisjoint(P) /\ Flagging(P, Q, m + 1, TRUE)
  <2>1. m < Len(Q)
    BY <1>2, <1>3
  <2>2. PICK x \in BOOLEAN : x = TRUE
    OBVIOUS
  <2>3. \E P \in Seq(Regions) :
          /\ Flag(s, m, x) = [regions |-> P, main_selection |-> m]
          /\ Len(P) = Len(Q) /\ SortedDisjoint(P) /\ Flagging(P, Q, m + 1, x)
    BY <1>3, <1>4, <2>1, FlagKept
  <2> QED BY <2>2, <2>3, Zenon
<1>6. [Flag(sel, o, FALSE) EXCEPT !.main_selection = m] = s
  <2>1. PICK f : f = Flag(sel, o, FALSE)
    OBVIOUS
  <2>2. f = [regions |-> Q, main_selection |-> o]
    BY <1>3, <2>1, Zenon
  <2>3. [f EXCEPT !.main_selection = m] = s
    BY <1>4, <2>2
  <2> QED BY <2>1, <2>3, Zenon
<1>7. SwitchMain(sel, m) = Flag(s, m, TRUE)
  BY <1>2, <1>6, Zenon DEF SwitchMain
<1>8. PICK n \in Nat : n = Len(R) /\ Len(P) = n
  BY <1>3, <1>5, LenProperties
<1>9. PICK t : t = SwitchMain(sel, m)
  OBVIOUS
<1>10. t.regions = P /\ t.main_selection = m /\ sel.regions = R
  <2>1. t = [regions |-> P, main_selection |-> m]
    BY <1>5, <1>7, <1>9, Zenon
  <2> QED BY <1>1, <2>1
<1>11. P[m + 1].main
  BY <1>5 DEF Flagging
<1>12. t \in Selections
  BY <1>2, <1>3, <1>5, <1>7, <1>9, <1>11, SelectionOf
<1>13. OneMain(sel) => OneMain(t)
  <2> SUFFICES ASSUME OneMain(sel), NEW j \in 1 .. n, P[j].main PROVE j = m + 1
    BY <1>8, <1>10 DEF OneMain
  <2> SUFFICES ASSUME j # m + 1 PROVE FALSE
    OBVIOUS
  <2>1. Q[j].main
    BY <1>3, <1>8, <1>5 DEF Flagging
  <2>2. j # o + 1
    BY <1>3, <2>1 DEF Flagging
  <2>3. R[j].main
    BY <1>3, <1>8, <2>1, <2>2 DEF Flagging
  <2> QED BY <1>2, <1>8, <1>10, <2>2, <2>3 DEF OneMain
<1>14. \A l \in Nat : Inside(sel, l) => Inside(t, l)
  <2>1. \A j \in 1 .. n : RMax(P[j]) = RMax(R[j])
    BY <1>3, <1>5, <1>8 DEF Flagging
  <2> QED BY <1>8, <1>10, <2>1 DEF Inside
<1> QED BY <1>9, <1>12, <1>13, <1>14

\* The index of the new main region wraps around within the list.
LEMMA CycleKept ==
  ASSUME NEW sel \in Selections, NEW count \in Nat
  PROVE  /\ SelectNext(sel, count) \in Selections /\ SelectPrev(sel, count) \in Selections
         /\ OneMain(sel) => OneMain(SelectNext(sel, count)) /\ OneMain(SelectPrev(sel, count))
         /\ \A n \in Nat : Inside(sel, n) =>
              Inside(SelectNext(sel, count), n) /\ Inside(SelectPrev(sel, count), n)
<1>1. PICK n \in Nat, m \in Nat : n = Len(sel.regions) /\ m = sel.main_selection /\ m < n
  BY SelectionFields
<1>2. ASSUME NEW x \in Nat PROVE x % n \in Nat /\ x % n < n
  <2>1. n \in Nat \ {0} /\ x <= x
    BY <1>1
  <2>2. x % n \in 0 .. n - 1
    BY <2>1, LineInOrder
  <2> QED BY <2>2
<1>3. PICK c \in Nat : c = count % n
  BY <1>2
<1>4. c < n
  BY <1>2, <1>3
<1>5. PICK x \in Nat, y \in Nat : x = m + count /\ y = (m + n) - c
  BY <1>4
<1>6. SelectNext(sel, count) = SwitchMain(sel, x % n)
  BY <1>1, <1>5 DEF SelectNext
<1>7. SelectPrev(sel, count) = SwitchMain(sel, y % n)
  BY <1>1, <1>3, <1>5 DEF SelectPrev
<1>8. ASSUME NEW k \in Nat, k < n
      PROVE  /\ SwitchMain(sel, k) \in Selections /\ (OneMain(sel) => OneMain(SwitchMain(sel, k)))
             /\ \A l \in Nat : Inside(sel, l) => Inside(SwitchMain(sel, k), l)
  BY <1>1, <1>8, SwitchKept
<1>9. PICK u \in Nat, v \in Nat : u = x % n /\ v = y % n /\ u < n /\ v < n
  BY <1>2
<1> QED BY <1>6, <1>7, <1>8, <1>9

\* Selection::retain and Selection::select_all leave one region.
LEMMA OneLeft ==
  ASSUME NEW sel \in Selections, NEW i \in Nat, i < Len(sel.regions), NEW size \in Nat
  PROVE  /\ Retain(sel, i) \in Selections /\ OneMain(Retain(sel, i))
         /\ \A n \in Nat : Inside(sel, n) => Inside(Retain(sel, i), n)
         /\ SelectAll(sel, size) \in Selections /\ OneMain(SelectAll(sel, size))
         /\ Inside(SelectAll(sel, size), size)
<1>1. PICK r \in Regions : r = sel.regions[i + 1]
  BY SelectionFields
<1>2. PICK q : q = [r EXCEPT !.main = TRUE]
  OBVIOUS
<1>3. q \in Regions /\ q.main
  BY <1>1, <1>2, FlaggedRegion
<1>4. /\ Retain(sel, i) \in Selections /\ OneMain(Retain(sel, i))
      /\ \A n \in Nat : Inside(sel, n) => Inside(Retain(sel, i), n)
  <2>1. PICK t : t = [regions |-> << q >>, main_selection |-> 0]
    OBVIOUS
  <2>2. Retain(sel, i) = t
    BY <1>1, <1>2, <2>1 DEF Retain
  <2>3. t \in Selections /\ OneMain(t) /\ \A n : RMax(q) <= n => Inside(t, n)
    BY <1>3, <2>1, OneRegion, OneIsMain
  <2>4. RMax(q) = RMax(r)
    BY <1>2, FlaggedRegion
  <2>5. i + 1 \in 1 .. Len(sel.regions)
    BY SelectionFields
  <2>6. \A n \in Nat : Inside(sel, n) => RMax(r) <= n
    BY <1>1, <2>5 DEF Inside
  <2> QED BY <2>2, <2>3, <2>4, <2>6
<1>5. ASSUME size # 0
      PROVE  /\ SelectAll(sel, size) \in Selections /\ OneMain(SelectAll(sel, size))
             /\ Inside(SelectAll(sel, size), size)
  <2>1. size - 1 \in Nat
    BY <1>5
  <2>2. PICK y : y = [Region(0, 0) EXCEPT !.main = TRUE]
    OBVIOUS
  <2>3. y \in Regions /\ y.main
    BY <2>2, RegionOf, FlaggedRegion
  <2>4. PICK z : z = [y EXCEPT !.caret = size - 1]
    OBVIOUS
  <2>5. z \in Regions /\ z.main
    BY <2>1, <2>3, <2>4 DEF Regions
  <2>6. PICK C : C = [regions |-> << y >>, main_selection |-> 0]
    OBVIOUS
  <2>7. SelectAll(sel, size) = [C EXCEPT !.regions[1].caret = size - 1]
    BY <1>5, <2>2, <2>6, Zenon DEF SelectAll, Cleared
  <2>8. SelectAll(sel, size) = [regions |-> << z >>, main_selection |-> 0]
    BY <2>4, <2>6, <2>7
  <2>9. RMax(z) <= size
    <3>1. z.tail = 0 /\ z.caret = size - 1
      BY <2>2, <2>3, <2>4 DEF Region, Regions
    <3> QED BY <2>1, <3>1 DEF RMax, Greater
  <2>10. PICK t : t = [regions |-> << z >>, main_selection |-> 0]
    OBVIOUS
  <2>11. t \in Selections /\ OneMain(t) /\ Inside(t, size)
    BY <2>5, <2>9, <2>10, OneRegion, OneIsMain
  <2> QED BY <2>8, <2>10, <2>11
<1>6. ASSUME size = 0
      PROVE  /\ SelectAll(sel, size) \in Selections /\ OneMain(SelectAll(sel, size))
             /\ Inside(SelectAll(sel, size), size)
  BY <1>6, ClearedKept, ClearedReach DEF SelectAll
<1> QED BY <1>4, <1>5, <1>6

\* Selection::remove: the others stay in order, and one of them is main.
LEMMA RemoveKept ==
  ASSUME NEW sel \in Selections, NEW i \in Nat, i < Len(sel.regions)
  PROVE  /\ RemoveRegion(sel, i) \in Selections
         /\ OneMain(sel) /\ (i >= sel.main_selection \/ sel.main_selection = Len(sel.regions) - 1)
              => OneMain(RemoveRegion(sel, i))
         /\ \A n \in Nat : Inside(sel, n) => Inside(RemoveRegion(sel, i), n)
<1>1. PICK R \in Seq(Regions), o \in Nat, n \in Nat :
        /\ sel = [regions |-> R, main_selection |-> o]
        /\ R = sel.regions /\ n = Len(R) /\ o < n /\ SortedDisjoint(R)
  BY SelectionFields DEF Selections
<1>2. CASE n = 1
  BY <1>1, <1>2 DEF RemoveRegion
<1>3. CASE n # 1
  <2>1. PICK p \in 1 .. n : p = i + 1
    BY <1>1
  <2>2. PICK Q : Q = RemoveAt(R, p)
    OBVIOUS
  <2>3. /\ Q \in Seq(Regions) /\ Len(Q) = n - 1
        /\ \A j \in 1 .. n - 1 : Q[j] = IF j < p THEN R[j] ELSE R[j + 1]
    <3>1. p \in 1 .. Len(R)
      BY <1>1
    <3>2. /\ RemoveAt(R, p) \in Seq(Regions) /\ Len(RemoveAt(R, p)) = Len(R) - 1
          /\ \A j \in 1 .. Len(R) - 1 : RemoveAt(R, p)[j] = IF j < p THEN R[j] ELSE R[j + 1]
      BY <3>1, RemoveAtProperties
    <3>3. Len(R) = n
      BY <1>1
    <3> QED BY <2>2, <3>2, <3>3, Zenon
  <2>4. SortedDisjoint(Q)
    <3>1. \A j \in 1 .. n, l \in 1 .. n : j < l => RMax(R[j]) < RMin(R[l])
      BY <1>1, SortedApart
    <3>2. ASSUME NEW j \in 1 .. (n - 1) - 1 PROVE RMax(Q[j]) < RMin(Q[j + 1])
      <4>1. PICK a \in 1 .. n : a = IF j < p THEN j ELSE j + 1
        OBVIOUS
      <4>2. PICK c \in 1 .. n : c = IF j + 1 < p THEN j + 1 ELSE j + 2
        OBVIOUS
      <4>3. Q[j] = R[a]
        BY <2>3, <4>1
      <4>4. j + 1 \in 1 .. n - 1 /\ (j + 1) + 1 = j + 2
        OBVIOUS
      <4>5. Q[j + 1] = R[c]
        BY <2>3, <4>2, <4>4
      <4>6. a < c
        BY <2>1, <4>1, <4>2
      <4> QED BY <3>1, <4>3, <4>5, <4>6
    <3> QED BY <2>3, <3>2 DEF SortedDisjoint
  <2>5. PICK m \in Nat : m = Lesser(n - 1 - 1, o) /\ m < n - 1
    BY <1>1, <1>3 DEF Lesser
  <2>6. PICK s : s = [regions |-> Q, main_selection |-> m]
    OBVIOUS
  <2>7. m < Len(Q)
    BY <2>3, <2>5
  <2>8. PICK P \in Seq(Regions) :
          /\ Flag(s, m, TRUE) = [regions |-> P, main_selection |-> m]
          /\ Len(P) = Len(Q) /\ SortedDisjoint(P) /\ Flagging(P, Q, m + 1, TRUE)
    <3>1. PICK x \in BOOLEAN : x = TRUE
      OBVIOUS
    <3>2. \E P \in Seq(Regions) :
            /\ Flag(s, m, x) = [regions |-> P, main_selection |-> m]
            /\ Len(P) = Len(Q) /\ SortedDisjoint(P) /\ Flagging(P, Q, m + 1, x)
      <4>1. Q \in Seq(Regions)
        BY <2>3
      <4> QED BY <2>4, <2>6, <2>7, <4>1, FlagKept
    <3> QED BY <3>1, <3>2, Zenon
  <2>9. sel.main_selection = o
    BY <1>1
  <2>10. RemoveRegion(sel, i) = Flag(s, m, TRUE)
    BY <1>1, <1>3, <2>1, <2>2, <2>3, <2>5, <2>6, <2>9 DEF RemoveRegion
  <2>11. PICK t : t = RemoveRegion(sel, i)
    OBVIOUS
  <2>12. t.regions = P /\ t.main_selection = m
    <3>1. t = [regions |-> P, main_selection |-> m]
      BY <2>8, <2>10, <2>11, Zenon
    <3> QED BY <3>1
  <2>13. P[m + 1].main /\ Len(P) = n - 1
    BY <2>3, <2>8 DEF Flagging
  <2>14. t \in Selections
    BY <2>7, <2>8, <2>10, <2>11, <2>13, SelectionOf
  <2>15. \A l \in Nat : Inside(sel, l) => Inside(t, l)
    <3> SUFFICES ASSUME NEW l \in Nat, Inside(sel, l), NEW j \in 1 .. n - 1 PROVE RMax(P[j]) <= l
      BY <2>12, <2>13 DEF Inside
    <3>1. RMax(P[j]) = RMax(Q[j])
      BY <2>3, <2>8 DEF Flagging
    <3>2. PICK a \in 1 .. n : Q[j] = R[a]
      <4>1. j \in 1 .. n /\ j + 1 \in 1 .. n
        OBVIOUS
      <4> QED BY <2>3, <4>1
    <3>3. RMax(R[a]) <= l
      BY <1>1 DEF Inside
    <3> QED BY <3>1, <3>2, <3>3
  <2>16. ASSUME OneMain(sel), i >= o \/ o = n - 1 PROVE OneMain(t)
    <3> SUFFICES ASSUME NEW j \in 1 .. n - 1, P[j].main, j # m + 1 PROVE FALSE
      BY <2>12, <2>13 DEF OneMain
    <3>1. Q[j].main
      BY <2>3, <2>8 DEF Flagging
    <3>2. PICK a \in 1 .. n : a = IF j < p THEN j ELSE j + 1
      OBVIOUS
    <3>3. Q[j] = R[a]
      BY <2>3, <3>2
    <3>4. R[a].main
      BY <3>1, <3>3
    <3>5. a = o + 1
      BY <1>1, <2>16, <3>4 DEF OneMain
    <3> QED BY <1>1, <1>3, <2>1, <2>5, <2>16, <3>2, <3>5 DEF Lesser
  <2> QED BY <1>1, <2>11, <2>14, <2>15, <2>16
<1> QED BY <1>2, <1>3

-----------------------------------------------------------------------------
(* What map_selections covers, and which regions it flags.                 *)

\* The offsets that the first k of the regions rs cover, and that all of them do.
CoverUpTo(rs, k) == {o \in Nat : \E i \in 1 .. k : RMin(rs[i]) <= o /\ o <= RMax(rs[i])}
Cover(rs)        == CoverUpTo(rs, Len(rs))

\* The offsets of one region.
Span(r) == {o \in Nat : RMin(r) <= o /\ o <= RMax(r)}

\* Merging overlapping regions covers what the two covered.
LEMMA MergeCovers ==
  ASSUME NEW a \in Regions, NEW b \in Regions, RMin(a) <= RMin(b), Overlaps(a, b)
  PROVE  /\ Span(Merge(a, b)) = Span(a) \cup Span(b)
         /\ Merge(a, b).main = (a.main \/ b.main)
<1> DEFINE lo == Lesser(RMin(a), RMin(b))
           hi == Greater(RMax(a), RMax(b))
<1>1. lo = RMin(a) /\ lo \in Nat /\ hi \in Nat /\ lo <= hi
  BY RegionBounds DEF Lesser, Greater
<1>2. PICK m : m = Merge(a, b)
  OBVIOUS
<1>3. /\ m = [caret |-> IF BothForward(a, b) THEN hi ELSE lo,
              tail  |-> IF BothForward(a, b) THEN lo ELSE hi,
              main  |-> a.main \/ b.main]
  BY <1>2 DEF Merge
<1>4. m.main = (a.main \/ b.main)
  BY <1>3
<1>5. RMin(m) = lo /\ RMax(m) = hi
  <2> HIDE DEF lo, hi
  <2> QED BY <1>1, <1>3 DEF RMin, RMax, Lesser, Greater
<1>6. \A o \in Nat : (lo <= o /\ o <= hi) <=> (RMin(a) <= o /\ o <= RMax(a)) \/ (RMin(b) <= o /\ o <= RMax(b))
  <2>1. RMin(a) \in Nat /\ RMax(a) \in Nat /\ RMin(b) \in Nat /\ RMax(b) \in Nat /\ RMin(b) <= RMax(b)
        /\ RMin(a) <= RMax(a)
    BY RegionBounds
  <2>2. RMax(a) >= RMin(b)
    BY DEF Overlaps
  <2> QED BY <2>1, <2>2 DEF Lesser, Greater
<1> HIDE DEF lo, hi
<1>7. Span(m) = Span(a) \cup Span(b)
  BY <1>5, <1>6 DEF Span
<1> QED BY <1>2, <1>4, <1>7

\* The last region covers its own span.
LEMMA CoverLast ==
  ASSUME NEW rs, NEW n \in Nat \ {0}
  PROVE  CoverUpTo(rs, n) = CoverUpTo(rs, n - 1) \cup Span(rs[n])
<1>1. \A i \in 1 .. n : i \in 1 .. n - 1 \/ i = n
  OBVIOUS
<1>2. \A i \in 1 .. n - 1 : i \in 1 .. n
  OBVIOUS
<1>3. n \in 1 .. n
  OBVIOUS
<1>4. ASSUME NEW o \in Nat
      PROVE  o \in CoverUpTo(rs, n) <=> o \in CoverUpTo(rs, n - 1) \/ o \in Span(rs[n])
  BY <1>1, <1>2, <1>3 DEF CoverUpTo, Span
<1>5. CoverUpTo(rs, n) \subseteq Nat /\ CoverUpTo(rs, n - 1) \subseteq Nat /\ Span(rs[n]) \subseteq Nat
  BY DEF CoverUpTo, Span
<1> QED BY <1>4, <1>5

\* Lists that are alike cover the same.
LEMMA CoverSame ==
  ASSUME NEW rs, NEW qs, NEW n \in Nat, \A i \in 1 .. n : rs[i] = qs[i]
  PROVE  CoverUpTo(rs, n) = CoverUpTo(qs, n)
BY DEF CoverUpTo

\* Pushing a region covers it as well, and flags no region but the last, and that
\* one only if it was flagged or the new one is.
LEMMA PushRegionCovers ==
  ASSUME NEW out \in Seq(Regions), NEW r \in Regions, Below(out, r), NEW p, p = PushRegion(out, r)
  PROVE  /\ Cover(p) = Cover(out) \cup Span(r)
         /\ \A j \in 1 .. Len(p) : p[j].main => \/ j \in 1 .. Len(out) /\ out[j].main
                                                \/ j = Len(p) /\ r.main
<1>1. PICK n \in Nat : n = Len(out)
  BY LenProperties
<1>2. \A i \in 1 .. n : out[i] \in Regions
  BY <1>1, ElementOfSeq
<1>3. CASE out = << >> \/ ~Overlaps(Last(out), r)
  <2>1. p = Append(out, r)
    BY <1>3 DEF PushRegion
  <2>2. /\ p \in Seq(Regions) /\ Len(p) = n + 1 /\ p[n + 1] = r
        /\ \A i \in 1 .. n : p[i] = out[i]
    BY <1>1, <2>1, AppendProperties
  <2>3. CoverUpTo(p, n + 1) = CoverUpTo(p, n) \cup Span(p[n + 1])
    <3>1. n + 1 \in Nat \ {0} /\ (n + 1) - 1 = n
      OBVIOUS
    <3> QED BY <3>1, CoverLast
  <2>4. CoverUpTo(p, n) = CoverUpTo(out, n)
    BY <2>2, CoverSame
  <2>5. ASSUME NEW j \in 1 .. Len(p), p[j].main
        PROVE  (j \in 1 .. Len(out) /\ out[j].main) \/ (j = Len(p) /\ r.main)
    <3>1. CASE j \in 1 .. n
      <4>1. out[j].main
        BY <2>2, <2>5, <3>1
      <4> QED BY <1>1, <3>1, <4>1
    <3>2. CASE j = n + 1
      BY <2>2, <2>5, <3>2
    <3>3. j \in 1 .. n \/ j = n + 1
      BY <2>2
    <3> QED BY <3>1, <3>2, <3>3
  <2> QED BY <1>1, <2>2, <2>3, <2>4, <2>5 DEF Cover
<1>4. CASE out # << >> /\ Overlaps(Last(out), r)
  <2>1. n # 0 /\ n \in 1 .. n /\ out[n] \in Regions /\ Last(out) = out[n]
    BY <1>1, <1>2, <1>4, EmptySeq DEF Last
  <2>2. RMin(out[n]) <= RMin(r)
    BY <1>1, <1>4 DEF Below
  <2>3. PICK m \in Regions : /\ m = Merge(out[n], r) /\ Span(m) = Span(out[n]) \cup Span(r)
                             /\ m.main = (out[n].main \/ r.main)
    BY <1>4, <2>1, <2>2, MergeCovers, MergeProperties
  <2>4. p = [out EXCEPT ![n] = m]
    BY <1>1, <1>4, <2>1, <2>3 DEF PushRegion
  <2>5. /\ p \in Seq(Regions) /\ Len(p) = n
        /\ \A i \in 1 .. n : p[i] = IF i = n THEN m ELSE out[i]
    BY <1>1, <2>1, <2>4, ExceptSeq
  <2>6. CoverUpTo(p, n) = CoverUpTo(p, n - 1) \cup Span(m)
    BY <2>1, <2>5, CoverLast
  <2>7. CoverUpTo(out, n) = CoverUpTo(out, n - 1) \cup Span(out[n])
    BY <2>1, CoverLast
  <2>8. CoverUpTo(p, n - 1) = CoverUpTo(out, n - 1)
    <3>1. n - 1 \in Nat /\ \A i \in 1 .. n - 1 : i \in 1 .. n /\ i # n
      BY <2>1
    <3>2. \A i \in 1 .. n - 1 : p[i] = out[i]
      BY <2>5, <3>1
    <3> QED BY <3>1, <3>2, CoverSame
  <2>9. Cover(p) = Cover(out) \cup Span(r)
    <3> HIDE DEF CoverUpTo, Span
    <3> QED BY <1>1, <2>3, <2>5, <2>6, <2>7, <2>8 DEF Cover
  <2>10. ASSUME NEW j \in 1 .. Len(p), p[j].main
        PROVE  (j \in 1 .. Len(out) /\ out[j].main) \/ (j = Len(p) /\ r.main)
    <3>1. CASE j = n
      <4>1. m.main
        BY <2>5, <2>10, <3>1
      <4>2. out[n].main \/ r.main
        BY <2>3, <4>1
      <4>3. j \in 1 .. Len(out) /\ j = Len(p)
        BY <1>1, <2>1, <2>5, <3>1
      <4> QED BY <3>1, <4>2, <4>3
    <3>2. CASE j # n
      <4>1. j \in 1 .. n /\ j \in 1 .. Len(out)
        BY <1>1, <2>5
      <4>2. p[j] = out[j]
        BY <2>5, <3>2, <4>1
      <4>3. out[j].main
        BY <2>10, <4>2
      <4> QED BY <4>1, <4>3
    <3> QED BY <3>1, <3>2
  <2> QED BY <2>9, <2>10
<1> QED BY <1>3, <1>4

\* What the inner loop has made of acc after k turns: it covers the first k regions
\* as well, and a flag is one of acc's, or of one of them.
Covering(acc, a, rs, k) ==
  ~a.panic => /\ Cover(a.out) = Cover(acc.out) \cup CoverUpTo(rs, k)
              /\ \A j \in 1 .. Len(a.out) : a.out[j].main =>
                   \/ j \in 1 .. Len(acc.out) /\ acc.out[j].main
                   \/ (k = 1 => j = Len(a.out)) /\ \E l \in 1 .. k : rs[l].main

\* One turn of the inner loop.
LEMMA PushKeepsCovering ==
  ASSUME NEW acc \in Accs, NEW rs \in Seq(Regions), Ascending(rs),
         \A l \in 1 .. Len(rs) : Below(acc.out, rs[l]),
         NEW a \in Accs, NEW b, NEW k \in 1 .. Len(rs), Grown(acc, a, rs, k - 1),
         Covering(acc, a, rs, k - 1), b = Push(a, rs[k])
  PROVE  Covering(acc, b, rs, k)
<1> SUFFICES ASSUME ~b.panic
             PROVE  /\ Cover(b.out) = Cover(acc.out) \cup CoverUpTo(rs, k)
                    /\ \A j \in 1 .. Len(b.out) : b.out[j].main =>
                         \/ j \in 1 .. Len(acc.out) /\ acc.out[j].main
                         \/ (k = 1 => j = Len(b.out)) /\ \E l \in 1 .. k : rs[l].main
  BY DEF Covering
<1>0. Len(rs) \in Nat /\ k \in Nat \ {0} /\ k \in 1 .. k
  BY LenProperties
<1>1. PICK r \in Regions : r = rs[k]
  BY ElementOfSeq
<1>2. /\ b.out = PushRegion(a.out, r) /\ b.panic = (a.panic \/ PushPanics(a.out, r))
  BY <1>1, PushType
<1>3. ~a.panic
  BY <1>2
<1>4. /\ Cover(a.out) = Cover(acc.out) \cup CoverUpTo(rs, k - 1)
      /\ \A j \in 1 .. Len(a.out) : a.out[j].main =>
           \/ j \in 1 .. Len(acc.out) /\ acc.out[j].main
           \/ (k - 1 = 1 => j = Len(a.out)) /\ \E l \in 1 .. k - 1 : rs[l].main
  BY <1>3 DEF Covering
<1>5. Below(a.out, r)
  BY <1>1, <1>3, GrownBelow
<1>6. a.out \in Seq(Regions)
  BY AccFields
<1>7. /\ Cover(b.out) = Cover(a.out) \cup Span(r)
      /\ \A j \in 1 .. Len(b.out) : b.out[j].main => \/ j \in 1 .. Len(a.out) /\ a.out[j].main
                                                     \/ j = Len(b.out) /\ r.main
  BY <1>2, <1>5, <1>6, PushRegionCovers
<1>8. Cover(b.out) = Cover(acc.out) \cup CoverUpTo(rs, k)
  <2>1. CoverUpTo(rs, k) = CoverUpTo(rs, k - 1) \cup Span(r)
    BY <1>0, <1>1, CoverLast
  <2> QED BY <1>4, <1>7, <2>1
<1>9. ASSUME NEW j \in 1 .. Len(b.out), b.out[j].main
      PROVE  \/ j \in 1 .. Len(acc.out) /\ acc.out[j].main
             \/ (k = 1 => j = Len(b.out)) /\ \E l \in 1 .. k : rs[l].main
  <2>1. CASE j \in 1 .. Len(a.out) /\ a.out[j].main
    <3>1. CASE j \in 1 .. Len(acc.out) /\ acc.out[j].main
      BY <3>1
    <3>2. CASE \E l \in 1 .. k - 1 : rs[l].main
      <4>1. PICK l \in 1 .. k - 1 : rs[l].main
        BY <3>2
      <4>2. l \in 1 .. k /\ k # 1
        BY <1>0
      <4> QED BY <4>1, <4>2
    <3> QED BY <1>4, <2>1, <3>1, <3>2
  <2>2. CASE j = Len(b.out) /\ r.main
    BY <1>0, <1>1, <2>2
  <2> QED BY <1>7, <1>9, <2>1, <2>2
<1> QED BY <1>8, <1>9

\* The inner loop covers the regions it is given.
LEMMA PushAllCovers ==
  ASSUME NEW acc \in Accs, SortedDisjoint(acc.out), NEW rs \in Seq(Regions), Ascending(rs),
         \A l \in 1 .. Len(rs) : Below(acc.out, rs[l])
  PROVE  Covering(acc, PushUpTo(acc, rs)[Len(rs)], rs, Len(rs))
<1> DEFINE P == PushUpTo(acc, rs)
           S == {k \in 0 .. Len(rs) : Grown(acc, P[k], rs, k) /\ Covering(acc, P[k], rs, k)}
<1>1. /\ P[0] = acc /\ \A k \in 1 .. Len(rs) : P[k] = Push(P[k - 1], rs[k])
      /\ \A k \in 0 .. Len(rs) : P[k] \in Accs
  BY PushDef
<1>2. Len(rs) \in Nat
  BY LenProperties
<1> HIDE DEF P
<1>3. 0 \in S
  <2>1. Grown(acc, P[0], rs, 0)
    BY <1>1, <1>2 DEF Grown, Holding
  <2>2. CoverUpTo(rs, 0) = {}
    BY DEF CoverUpTo
  <2>3. Covering(acc, P[0], rs, 0)
    BY <1>1, <2>2 DEF Covering
  <2> QED BY <1>2, <2>1, <2>3
<1>4. \A k \in 0 .. Len(rs) - 1 : k \in S => k + 1 \in S
  <2> SUFFICES ASSUME NEW k \in 0 .. Len(rs) - 1, Grown(acc, P[k], rs, k), Covering(acc, P[k], rs, k)
               PROVE  k + 1 \in S
    OBVIOUS
  <2>1. PICK j \in 1 .. Len(rs) : j = k + 1 /\ k = j - 1 /\ k \in 0 .. Len(rs) /\ j \in 0 .. Len(rs)
    BY <1>2
  <2>2. P[j] = Push(P[j - 1], rs[j]) /\ P[j - 1] \in Accs
    BY <1>1, <2>1
  <2>3. Grown(acc, P[j - 1], rs, j - 1) /\ Covering(acc, P[j - 1], rs, j - 1)
    BY <2>1
  <2>4. Grown(acc, P[j], rs, j)
    BY <2>2, <2>3, PushKeepsGrown
  <2>5. Covering(acc, P[j], rs, j)
    BY <2>2, <2>3, PushKeepsCovering
  <2> QED BY <2>1, <2>4, <2>5
<1>5. \A k \in 0 .. Len(rs) : k \in S
  <2> HIDE DEF S
  <2> QED BY <1>2, <1>3, <1>4, Induction
<1>6. Len(rs) \in 0 .. Len(rs)
  BY <1>2
<1> QED BY <1>5, <1>6 DEF P

\* Flagging a region as the main one covers nothing else.
LEMMA MarkMainCovers ==
  ASSUME NEW acc \in Accs, ~MarkMain(acc).panic
  PROVE  Cover(MarkMain(acc).out) = Cover(acc.out)
BY MarkMainType DEF Cover, CoverUpTo

\* The offsets that the first i lists of regions cover.
CoverLists(news, i) == {o \in Nat : \E j \in 1 .. i : o \in Cover(news[j])}

\* The new regions of one old region: none is flagged, or there is one and the old
\* one was flagged.
Plain(rs, r) == \A k \in 1 .. Len(rs) : rs[k].main => r.main /\ Len(rs) = 1

\* What the outer loop has made after i turns.
Covers(acc, news, i) == ~acc.panic => Cover(acc.out) = CoverLists(news, i)

Flags(acc, m, i) ==
  ~acc.panic => \A j \in 1 .. Len(acc.out) : acc.out[j].main => m < i /\ j = acc.main + 1

\* One list more.
LEMMA CoverListsNext ==
  ASSUME NEW news, NEW i \in Nat \ {0}
  PROVE  CoverLists(news, i) = CoverLists(news, i - 1) \cup Cover(news[i])
<1>1. \A j \in 1 .. i : j \in 1 .. i - 1 \/ j = i
  OBVIOUS
<1>2. i \in 1 .. i /\ \A j \in 1 .. i - 1 : j \in 1 .. i
  OBVIOUS
<1>3. Cover(news[i]) \subseteq Nat
  BY DEF Cover, CoverUpTo
<1> HIDE DEF Cover
<1> QED BY <1>1, <1>2, <1>3 DEF CoverLists

\* One turn of the outer loop covers the regions that replace one old region, and
\* flags the last of them if that was the main one.
LEMMA MapRegionCovers ==
  ASSUME NEW sel, NEW news, NEW n \in Nat, NEW m \in Nat, m < n, sel.main_selection = m,
         InOrder(news, n), NEW acc \in Accs, NEW i \in 1 .. n, Made(acc, news, n, m, i - 1),
         NEW c, c = MapRegion(sel, news, acc, i)
  PROVE  /\ Covers(acc, news, i - 1) => Covers(c, news, i)
         /\ Flags(acc, m, i - 1) /\ OneMain(sel) /\ n = Len(sel.regions) /\ Plain(news[i], sel.regions[i])
              => Flags(c, m, i)
<1>1. CASE acc.panic
  <2>1. c = acc
    BY <1>1 DEF MapRegion
  <2> QED BY <1>1, <2>1 DEF Covers, Flags
<1>2. CASE ~acc.panic
  <2>1. PICK rs \in Seq(Regions) : rs = news[i] /\ Ascending(rs)
    BY DEF InOrder
  <2>2. PICK b : b = PushUpTo(acc, rs)[Len(rs)]
    OBVIOUS
  <2>3. /\ SortedDisjoint(acc.out)
        /\ \A l \in 1 .. Len(rs) : Below(acc.out, rs[l])
    <3>1. (i - 1) + 1 = i /\ i \in i .. n
      OBVIOUS
    <3>2. \A j \in i .. n : \A l \in 1 .. Len(news[j]) : Below(acc.out, news[j][l])
      BY <1>2, <3>1 DEF Made
    <3> QED BY <1>2, <2>1, <3>1, <3>2 DEF Made
  <2>4. b \in Accs /\ Grown(acc, b, rs, Len(rs)) /\ Covering(acc, b, rs, Len(rs))
    BY <2>1, <2>2, <2>3, PushAllSorted, PushAllCovers
  <2>5. b.out \in Seq(Regions) /\ acc.out \in Seq(Regions) /\ Len(rs) \in Nat /\ acc.main \in Nat
    BY <2>4, AccFields, LenProperties
  <2>6. CoverLists(news, i) = CoverLists(news, i - 1) \cup CoverUpTo(rs, Len(rs))
    BY <2>1, CoverListsNext DEF Cover
  <2>7. ASSUME ~b.panic, Covers(acc, news, i - 1) PROVE Cover(b.out) = CoverLists(news, i)
    BY <1>2, <2>4, <2>6, <2>7 DEF Covering, Covers
  <2>8. ASSUME ~b.panic
        PROVE  /\ b.main = acc.main
               /\ \A j \in 1 .. Len(b.out) : b.out[j].main =>
                   \/ j \in 1 .. Len(acc.out) /\ acc.out[j].main
                   \/ (Len(rs) = 1 => j = Len(b.out)) /\ \E l \in 1 .. Len(rs) : rs[l].main
    BY <2>4, <2>8 DEF Covering, Grown
  <2>9. ASSUME Flags(acc, m, i - 1), OneMain(sel), n = Len(sel.regions), Plain(rs, sel.regions[i]),
               NEW l \in 1 .. Len(rs), rs[l].main
        PROVE  i = m + 1 /\ Len(rs) = 1
    BY <2>9 DEF OneMain, Plain
  <2>10. CASE i = m + 1
    <3>1. c = MarkMain(b)
      BY <1>2, <2>1, <2>2, <2>10 DEF MapRegion
    <3>2. /\ \A j \in 1 .. Len(b.out) - 1 : c.out[j] = b.out[j]
          /\ ~c.panic => /\ ~b.panic /\ Len(b.out) # 0 /\ c.main = Len(b.out) - 1
                         /\ Len(c.out) = Len(b.out)
      BY <2>4, <3>1, MarkMainType
    <3>3. ASSUME Covers(acc, news, i - 1), ~c.panic PROVE Cover(c.out) = CoverLists(news, i)
      BY <2>4, <2>7, <3>1, <3>2, <3>3, MarkMainCovers
    <3>4. ASSUME Flags(acc, m, i - 1), OneMain(sel), n = Len(sel.regions), Plain(rs, sel.regions[i]),
                 ~c.panic, NEW j \in 1 .. Len(c.out), c.out[j].main
          PROVE  m < i /\ j = c.main + 1
      <4>1. PICK q \in Nat : q = Len(b.out) /\ q # 0 /\ q = Len(c.out) /\ c.main = q - 1
        BY <2>5, <3>2, <3>4, LenProperties
      <4>2. SUFFICES ASSUME j # q PROVE FALSE
        BY <2>10, <4>1
      <4>3. j \in 1 .. Len(b.out) - 1 /\ j \in 1 .. Len(b.out)
        BY <4>1, <4>2
      <4>4. b.out[j].main
        BY <3>2, <3>4, <4>3
      <4>5. CASE j \in 1 .. Len(acc.out) /\ acc.out[j].main
        <5>1. m < i - 1
          BY <1>2, <3>4, <4>5 DEF Flags
        <5> QED BY <2>10, <5>1
      <4>6. CASE (Len(rs) = 1 => j = Len(b.out)) /\ \E l \in 1 .. Len(rs) : rs[l].main
        BY <2>9, <3>4, <4>1, <4>2, <4>6
      <4> QED BY <2>8, <3>2, <3>4, <4>3, <4>4, <4>5, <4>6
    <3> QED BY <2>1, <3>3, <3>4 DEF Covers, Flags
  <2>11. CASE i # m + 1
    <3>1. c = b
      BY <1>2, <2>1, <2>2, <2>11 DEF MapRegion
    <3>2. ASSUME Flags(acc, m, i - 1), OneMain(sel), n = Len(sel.regions), Plain(rs, sel.regions[i]),
                 ~b.panic, NEW j \in 1 .. Len(b.out), b.out[j].main
          PROVE  m < i /\ j = b.main + 1
      <4>1. j \in 1 .. Len(acc.out) /\ acc.out[j].main
        BY <2>8, <2>9, <2>11, <3>2
      <4>2. m < i - 1 /\ j = acc.main + 1
        BY <1>2, <3>2, <4>1 DEF Flags
      <4> QED BY <2>8, <3>2, <4>2
    <3> QED BY <2>1, <2>7, <3>1, <3>2 DEF Covers, Flags
  <2> QED BY <2>10, <2>11
<1> QED BY <1>1, <1>2

\* map_selections covers what the regions of its closure cover, and flags only the
\* main region if the closure flags none, or leaves a region as it is.
LEMMA MapCovers ==
  ASSUME NEW sel \in Selections, NEW news, InOrder(news, Len(sel.regions)),
         ~MapSelections(sel, news).panic,
         NEW s, s = MapSelections(sel, news).sel
  PROVE  /\ Cover(s.regions) = CoverLists(news, Len(sel.regions))
         /\ OneMain(sel) /\ (\A i \in 1 .. Len(sel.regions) : Plain(news[i], sel.regions[i]))
              => OneMain(s)
<1>1. PICK n \in Nat, m \in Nat : n = Len(sel.regions) /\ m = sel.main_selection /\ m < n
  BY SelectionFields
<1> DEFINE C == MapUpTo(sel, news)
           P == OneMain(sel) /\ \A i \in 1 .. n : Plain(news[i], sel.regions[i])
           S == {k \in 0 .. n : Covers(C[k], news, k) /\ (P => Flags(C[k], m, k))}
<1>2. /\ C[0] = Mapped(<< >>, 0, FALSE)
      /\ \A k \in 1 .. n : C[k] = MapRegion(sel, news, C[k - 1], k)
      /\ \A k \in 0 .. n : C[k] \in Accs /\ Made(C[k], news, n, m, k)
  BY <1>1, MapDef
<1> HIDE DEF C
<1>3. 0 \in S
  <2>1. << >> \in Seq(Regions) /\ Len(<< >>) = 0 /\ 0 \in Nat /\ FALSE \in BOOLEAN
    BY EmptySeq
  <2>2. C[0].out = << >>
    <3>1. PICK a : a = Mapped(<< >>, 0, FALSE)
      OBVIOUS
    <3>2. a.out = << >>
      BY <2>1, <3>1, MappedFields
    <3> QED BY <1>2, <3>1, <3>2
  <2>3. Cover(C[0].out) = {} /\ CoverLists(news, 0) = {}
    BY <2>1, <2>2 DEF Cover, CoverUpTo, CoverLists
  <2>4. Covers(C[0], news, 0)
    BY <2>3 DEF Covers
  <2>5. Flags(C[0], m, 0)
    BY <2>1, <2>2 DEF Flags
  <2> QED BY <2>4, <2>5
<1>4. \A k \in 0 .. n - 1 : k \in S => k + 1 \in S
  <2> SUFFICES ASSUME NEW k \in 0 .. n - 1, k \in S PROVE k + 1 \in S
    OBVIOUS
  <2>1. PICK j \in 1 .. n : j = k + 1 /\ k = j - 1 /\ k \in 0 .. n /\ j \in 0 .. n
    OBVIOUS
  <2>2. C[j] = MapRegion(sel, news, C[j - 1], j) /\ C[j - 1] \in Accs /\ Made(C[j - 1], news, n, m, j - 1)
    BY <1>2, <2>1
  <2>3. Covers(C[j - 1], news, j - 1) /\ (P => Flags(C[j - 1], m, j - 1))
    BY <2>1
  <2>4. Covers(C[j], news, j) /\ (P => Flags(C[j], m, j))
    <3>1. InOrder(news, n)
      BY <1>1
    <3>2. Covers(C[j], news, j)
      <4>1. /\ Covers(C[j - 1], news, j - 1) => Covers(C[j], news, j)
            /\ Flags(C[j - 1], m, j - 1) /\ OneMain(sel) /\ n = Len(sel.regions)
                 /\ Plain(news[j], sel.regions[j]) => Flags(C[j], m, j)
        BY <1>1, <2>2, <3>1, MapRegionCovers
      <4> QED BY <2>3, <4>1
    <3>3. ASSUME P PROVE Flags(C[j], m, j)
      <4>1. OneMain(sel) /\ Plain(news[j], sel.regions[j]) /\ Flags(C[j - 1], m, j - 1)
        BY <2>3, <3>3
      <4>2. Flags(C[j - 1], m, j - 1) /\ OneMain(sel) /\ n = Len(sel.regions)
              /\ Plain(news[j], sel.regions[j]) => Flags(C[j], m, j)
        BY <1>1, <2>2, <3>1, MapRegionCovers
      <4> QED BY <1>1, <4>1, <4>2
    <3> QED BY <3>2, <3>3
  <2> QED BY <2>1, <2>4
<1>5. \A k \in 0 .. n : k \in S
  <2> HIDE DEF S
  <2> QED BY <1>3, <1>4, Induction
<1>6. n \in S
  BY <1>5
<1>7. PICK a \in Accs : a = C[n]
  <2>1. n \in 0 .. n
    OBVIOUS
  <2> QED BY <1>2, <2>1
<1>8. ~a.panic /\ s = [regions |-> a.out, main_selection |-> a.main]
  BY <1>1, <1>7 DEF MapSelections, C
<1>9. Cover(a.out) = CoverLists(news, n)
  BY <1>6, <1>7, <1>8 DEF Covers
<1>10. P => \A j \in 1 .. Len(a.out) : a.out[j].main => j = a.main + 1
  BY <1>6, <1>7, <1>8 DEF Flags
<1>11. s.regions = a.out /\ s.main_selection = a.main
  BY <1>8
<1>12. P => OneMain(s)
  BY <1>10, <1>11 DEF OneMain
<1> QED BY <1>1, <1>9, <1>11, <1>12

\* map_selections stays as far inside as its closure does.
LEMMA MapInside ==
  ASSUME NEW sel \in Selections, NEW news, InOrder(news, Len(sel.regions)),
         ~MapSelections(sel, news).panic, NEW n \in Nat,
         \A i \in 1 .. Len(sel.regions) : \A k \in 1 .. Len(news[i]) : RMax(news[i][k]) <= n
  PROVE  Inside(MapSelections(sel, news).sel, n)
<1>1. PICK s \in Selections : s = MapSelections(sel, news).sel
  BY MapKeepsSorted
<1>2. Cover(s.regions) = CoverLists(news, Len(sel.regions))
  BY <1>1, MapCovers
<1> SUFFICES ASSUME NEW j \in 1 .. Len(s.regions) PROVE RMax(s.regions[j]) <= n
  BY <1>1 DEF Inside
<1>3. PICK x \in Nat : x = RMax(s.regions[j]) /\ RMin(s.regions[j]) <= x
  BY SelectionFields, RegionBounds
<1>4. x \in Cover(s.regions)
  BY <1>3 DEF Cover, CoverUpTo
<1>5. PICK i \in 1 .. Len(sel.regions) : x \in Cover(news[i])
  BY <1>2, <1>4 DEF CoverLists
<1>6. PICK k \in 1 .. Len(news[i]) : x <= RMax(news[i][k])
  BY <1>5 DEF Cover, CoverUpTo
<1>7. RMax(news[i][k]) \in Nat
  <2>1. news[i] \in Seq(Regions)
    BY DEF InOrder
  <2>2. news[i][k] \in Regions
    BY <2>1, ElementOfSeq
  <2> QED BY <2>2, RegionBounds
<1> QED BY <1>3, <1>6, <1>7

-----------------------------------------------------------------------------
(* How far the closures reach.                                             *)

\* g keeps regions that do not reach past n from reaching past it.
Bounded(g, n) == \A r \in Regions : RMax(r) <= n => RMax(g[r]) <= n

\* A closure that makes one region of one flags no other main region, and reaches no
\* further than it must.
LEMMA SteadyMaps ==
  ASSUME NEW sel \in Selections, NEW g, Steady(g), NEW news,
         \A i \in 1 .. Len(sel.regions) : news[i] = << g[sel.regions[i]] >>,
         ~MapSelections(sel, news).panic,
         NEW s, s = MapSelections(sel, news).sel
  PROVE  /\ OneMain(sel) => OneMain(s)
         /\ \A n \in Nat : Bounded(g, n) /\ Inside(sel, n) => Inside(s, n)
<1>1. InOrder(news, Len(sel.regions))
  BY SteadyInOrder
<1>2. PICK R \in Seq(Regions) : R = sel.regions /\ \A i \in 1 .. Len(R) : R[i] \in Regions
  BY SelectionFields
<1>3. ASSUME NEW i \in 1 .. Len(R) PROVE Len(news[i]) = 1 /\ news[i][1] = g[R[i]]
  <2>1. PICK x : x = g[R[i]]
    OBVIOUS
  <2>2. news[i] = << x >>
    BY <1>2, <2>1
  <2> QED BY <2>1, <2>2
<1>4. ASSUME NEW i \in 1 .. Len(R) PROVE Plain(news[i], R[i])
  <2> SUFFICES ASSUME NEW k \in 1 .. Len(news[i]), news[i][k].main PROVE R[i].main /\ Len(news[i]) = 1
    BY DEF Plain
  <2>1. Len(news[i]) = 1 /\ k = 1 /\ news[i][k] = g[R[i]]
    BY <1>3
  <2>2. R[i].main
    BY <1>2, <2>1 DEF Steady
  <2> QED BY <2>1, <2>2
<1>5. OneMain(sel) => OneMain(s)
  <2>1. OneMain(sel) /\ (\A i \in 1 .. Len(sel.regions) : Plain(news[i], sel.regions[i])) => OneMain(s)
    BY <1>1, MapCovers
  <2> QED BY <1>2, <1>4, <2>1
<1>6. ASSUME NEW n \in Nat, Bounded(g, n), Inside(sel, n) PROVE Inside(s, n)
  <2>1. ASSUME NEW i \in 1 .. Len(R), NEW k \in 1 .. Len(news[i]) PROVE RMax(news[i][k]) <= n
    <3>1. RMax(R[i]) <= n
      BY <1>2, <1>6 DEF Inside
    <3>2. Len(news[i]) = 1 /\ news[i][1] = g[R[i]]
      BY <1>3
    <3>3. k = 1
      BY <3>2
    <3> QED BY <1>2, <1>6, <3>1, <3>2, <3>3 DEF Bounded
  <2> QED BY <1>1, <1>2, <2>1, MapInside
<1> QED BY <1>5, <1>6

\* A region reaches past n with one of its ends.
LEMMA EndsBounded ==
  ASSUME NEW c \in Nat, NEW t \in Nat, NEW n \in Nat, c <= n, t <= n
  PROVE  RMax(Region(c, t)) <= n
BY RegionOf DEF Greater

\* A caret that moves stays within the buffer.
LEMMA SteppedBounded ==
  ASSUME NEW r \in Regions, NEW dir \in Directions, NEW bpl \in Nat, NEW max \in Nat,
         NEW count \in Nat, RMax(r) <= max
  PROVE  /\ SteppedCaret(r, dir, bpl, max, count) \in Nat
         /\ SteppedCaret(r, dir, bpl, max, count) <= max
<1>1. r.caret \in Nat /\ r.caret <= max
  BY RegionBounds
<1>2. PICK p \in Nat : p = bpl * count
  OBVIOUS
<1>3. CASE dir = "Up"
  BY <1>1, <1>2, <1>3 DEF SteppedCaret, Greater
<1>4. CASE dir = "Down"
  BY <1>1, <1>2, <1>4 DEF SteppedCaret, Lesser
<1>5. CASE dir = "Left"
  BY <1>1, <1>5 DEF SteppedCaret, Greater
<1>6. CASE dir = "Right"
  BY <1>1, <1>6 DEF SteppedCaret, Lesser
<1> QED BY <1>3, <1>4, <1>5, <1>6 DEF Directions

\* simple_move and simple_extend.
LEMMA MoveBounded ==
  ASSUME NEW r \in Regions, NEW dir \in Directions, NEW bpl \in Nat, NEW max \in Nat,
         NEW count \in Nat, RMax(r) <= max
  PROVE  /\ RMax(SimpleMove(r, dir, bpl, max, count)) <= max
         /\ RMax(SimpleExtend(r, dir, bpl, max, count)) <= max
<1>1. CASE max = 0
  BY <1>1 DEF SimpleMove, SimpleExtend
<1>2. CASE max # 0
  <2>1. PICK c \in Nat : c = SteppedCaret(r, dir, bpl, max, count) /\ c <= max
    BY SteppedBounded
  <2>2. r.tail \in Nat /\ r.tail <= max
    BY RegionBounds
  <2>3. /\ SimpleMove(r, dir, bpl, max, count) = Region(c, c)
        /\ SimpleExtend(r, dir, bpl, max, count) = Region(c, r.tail)
    BY <1>2, <2>1 DEF SimpleMove, SimpleExtend
  <2> QED BY <2>1, <2>2, <2>3, EndsBounded
<1> QED BY <1>1, <1>2

\* swap_caret, collapse, to_backward and to_forward.
LEMMA ShapeBounded ==
  ASSUME NEW r \in Regions, NEW n \in Nat, RMax(r) <= n
  PROVE  /\ RMax(SwapCaret(r)) <= n /\ RMax(Collapse(r)) <= n /\ RMax(ToBackward(r)) <= n
         /\ RMax(ToForward(r)) <= n /\ ToForward(r) \in Regions
<1>1. /\ r.caret \in Nat /\ r.tail \in Nat /\ r.caret <= n /\ r.tail <= n
      /\ RMin(r) \in Nat /\ RMax(r) \in Nat /\ RMin(r) <= n
  BY RegionBounds
<1> QED BY <1>1, EndsBounded, RegionOf DEF SwapCaret, Collapse, ToBackward, ToForward

\* jump_to_boundary and extend_to_boundary.
LEMMA BoundaryBounded ==
  ASSUME NEW r \in Regions, NEW dir \in Directions, NEW bpl \in Nat \ {0}, NEW max \in Nat,
         RMax(r) <= max
  PROVE  /\ RMax(JumpToBoundary(r, dir, bpl, max)) <= max
         /\ RMax(ExtendToBoundary(r, dir, bpl, max)) <= max
<1>1. CASE max = 0
  BY <1>1 DEF JumpToBoundary, ExtendToBoundary
<1>2. CASE max # 0
  <2>1. r.caret \in Nat /\ r.tail \in Nat /\ r.caret <= max /\ r.tail <= max /\ r.caret <= r.caret
    BY RegionBounds
  <2>2. r.caret - (r.caret % bpl) <= max
    <3>1. r.caret % bpl \in 0 .. bpl - 1
      BY <2>1, LineInOrder
    <3> QED BY <2>1, <3>1
  <2>3. PICK c \in Nat : c = BoundaryCaret(r, dir, bpl, max) /\ c <= max
    <3>1. BoundaryCaret(r, dir, bpl, max) \in Nat
      BY <1>2, <2>1, BoundaryInOrder
    <3>2. BoundaryCaret(r, dir, bpl, max) <= max
      <4>1. CASE dir = "Up"
        BY <4>1 DEF BoundaryCaret
      <4>2. CASE dir = "Down"
        BY <4>2 DEF BoundaryCaret
      <4>3. CASE dir = "Left"
        BY <2>2, <4>3 DEF BoundaryCaret
      <4>4. CASE dir = "Right"
        <5>1. PICK x \in Int : x = r.caret + bpl - (r.caret % bpl) - 1
          <6>1. r.caret % bpl \in 0 .. bpl - 1
            BY <2>1, LineInOrder
          <6> QED BY <2>1, <6>1
        <5>2. BoundaryCaret(r, dir, bpl, max) = Lesser(x, max - 1)
          BY <4>4, <5>1 DEF BoundaryCaret
        <5> QED BY <5>2 DEF Lesser
      <4> QED BY <4>1, <4>2, <4>3, <4>4 DEF Directions
    <3> QED BY <3>1, <3>2
  <2>4. /\ JumpToBoundary(r, dir, bpl, max) = Region(c, c)
        /\ ExtendToBoundary(r, dir, bpl, max) = Region(c, r.tail)
    BY <1>2, <2>3 DEF JumpToBoundary, ExtendToBoundary
  <2> QED BY <2>1, <2>3, <2>4, EndsBounded
<1> QED BY <1>1, <1>2

\* The regions of a jump to an offset reach that offset, or where they did.
LEMMA JumpBounded ==
  ASSUME NEW r \in Regions, NEW offset \in Nat, NEW n \in Nat, RMax(r) <= n, offset <= n
  PROVE  RMax(JumpTo(r, offset)) <= n /\ RMax(ExtendTo(r, offset)) <= n
<1>1. r.tail \in Nat /\ r.tail <= n
  BY RegionBounds
<1> QED BY <1>1, EndsBounded DEF JumpTo, ExtendTo

\* Moving away from half a byte and back by one.
LEMMA BackBounded ==
  ASSUME NEW r \in Regions, NEW dir \in Directions, NEW bpl \in Nat, NEW max \in Nat, RMax(r) <= max
  PROVE  RMax(SimpleMove(SimpleMove(r, dir, bpl, max, 1), "Left", bpl, max, 1)) <= max
<1>1. "Left" \in Directions /\ 1 \in Nat /\ r.caret <= r.caret /\ RMin(r) <= RMin(r)
  BY RegionBounds DEF Directions
<1>2. PICK x \in Regions : x = SimpleMove(r, dir, bpl, max, 1) /\ RMax(x) <= max
  BY <1>1, MoveInOrder, MoveBounded
<1> QED BY <1>1, <1>2, MoveBounded

-----------------------------------------------------------------------------
(* What a delta, and the pieces of Split and Collapse, make of a selection. *)

\* A selection that goes along with a delta ends within the new bytes, and flags no
\* other main region.
LEMMA SelectionAfterReach ==
  ASSUME NEW sel \in Selections, NEW n \in Nat, NEW d \in Deltas(n), NEW o \in Int, o <= 0,
         \A i \in 1 .. Len(sel.regions) : Transform(d, sel.regions[i].caret) + o >= 0,
         NEW result, result = SelectionAfter(sel, d, n, o, 0), ~result.panic
  PROVE  /\ OneMain(sel) => OneMain(result.sel)
         /\ Inside(result.sel, NewDocumentLen(d))
<1>0. PICK x \in Nat : x = NewDocumentLen(d)
  BY TransformInOrder
<1>1. CASE x = 0
  <2>1. result.sel = Cleared
    BY <1>0, <1>1 DEF SelectionAfter
  <2> QED BY <1>0, <2>1, ClearedReach
<1>2. CASE x # 0
  <2>1. PICK news : /\ result = MapSelections(sel, news) /\ InOrder(news, Len(sel.regions))
                    /\ PlainWithin(news, Len(sel.regions), x)
    BY <1>0, <1>2, SelectionAfterMaps
  <2>2. ASSUME NEW i \in 1 .. Len(sel.regions), NEW k \in 1 .. Len(news[i])
        PROVE  ~news[i][k].main /\ RMax(news[i][k]) <= x
    <3>1. PICK r \in Regions : news[i] = << r >> /\ ~r.main /\ RMax(r) <= x
      BY <2>1 DEF PlainWithin
    <3>2. k = 1 /\ news[i][k] = r
      BY <3>1
    <3> QED BY <3>1, <3>2
  <2>3. \A i \in 1 .. Len(sel.regions) : Plain(news[i], sel.regions[i])
    BY <2>2 DEF Plain
  <2>4. Inside(result.sel, x)
    BY <2>1, <2>2, MapInside
  <2>5. OneMain(sel) => OneMain(result.sel)
    <3>1. OneMain(sel) /\ (\A i \in 1 .. Len(sel.regions) : Plain(news[i], sel.regions[i]))
            => OneMain(result.sel)
      BY <2>1, MapCovers
    <3> QED BY <2>3, <3>1
  <2> QED BY <1>0, <2>4, <2>5
<1> QED BY <1>1, <1>2

\* Pieces that cover nothing outside a region end within it.
LEMMA CoveredEnds ==
  ASSUME NEW rs \in Seq(Regions), NEW r \in Regions, Cover(rs) \subseteq Span(r)
  PROVE  \A k \in 1 .. Len(rs) : RMax(rs[k]) <= RMax(r)
<1> SUFFICES ASSUME NEW k \in 1 .. Len(rs) PROVE RMax(rs[k]) <= RMax(r)
  OBVIOUS
<1>1. PICK x \in Nat : x = RMax(rs[k]) /\ RMin(rs[k]) <= x
  BY ElementOfSeq, RegionBounds
<1>2. x \in Cover(rs)
  BY <1>1 DEF Cover, CoverUpTo
<1> QED BY <1>1, <1>2 DEF Span

\* What no region, one region, and two lists of regions cover.
LEMMA CoverOf ==
  /\ Cover(<< >>) = {}
  /\ \A r \in Regions : Cover(<< r >>) = Span(r)
  /\ \A a, b \in Seq(Regions) : Cover(a \o b) = Cover(a) \cup Cover(b)
<1>1. Cover(<< >>) = {}
  BY EmptySeq DEF Cover, CoverUpTo
<1>2. ASSUME NEW r \in Regions PROVE Cover(<< r >>) = Span(r)
  BY DEF Cover, CoverUpTo, Span
<1>3. ASSUME NEW a \in Seq(Regions), NEW b \in Seq(Regions) PROVE Cover(a \o b) = Cover(a) \cup Cover(b)
  <2>0. PICK n \in Nat, m \in Nat : n = Len(a) /\ m = Len(b)
    BY LenProperties
  <2>1. PICK c : n = Len(a) /\ m = Len(b) /\ c = a \o b
    BY <2>0
  <2>2. Len(c) = n + m /\ \A i \in 1 .. n + m : c[i] = IF i <= n THEN a[i] ELSE b[i - n]
    BY <2>1, ConcatProperties
  <2>3. ASSUME NEW o \in Cover(c) PROVE o \in Cover(a) \cup Cover(b)
    <3>1. PICK i \in 1 .. n + m : o \in Nat /\ RMin(c[i]) <= o /\ o <= RMax(c[i])
      BY <2>2 DEF Cover, CoverUpTo
    <3>2. CASE i <= n
      <4>1. i \in 1 .. n /\ c[i] = a[i]
        BY <2>2, <3>2
      <4> QED BY <2>1, <3>1, <4>1 DEF Cover, CoverUpTo
    <3>3. CASE ~(i <= n)
      <4>1. i - n \in 1 .. m /\ c[i] = b[i - n]
        BY <2>2, <3>3
      <4> QED BY <2>1, <3>1, <4>1 DEF Cover, CoverUpTo
    <3> QED BY <3>2, <3>3
  <2>4. ASSUME NEW o \in Cover(a) PROVE o \in Cover(c)
    <3>1. PICK i \in 1 .. n : o \in Nat /\ RMin(a[i]) <= o /\ o <= RMax(a[i])
      BY <2>1 DEF Cover, CoverUpTo
    <3>2. i \in 1 .. n + m /\ c[i] = a[i]
      BY <2>2
    <3> QED BY <2>2, <3>1, <3>2 DEF Cover, CoverUpTo
  <2>5. ASSUME NEW o \in Cover(b) PROVE o \in Cover(c)
    <3>1. PICK i \in 1 .. m : o \in Nat /\ RMin(b[i]) <= o /\ o <= RMax(b[i])
      BY <2>1 DEF Cover, CoverUpTo
    <3>2. i + n \in 1 .. n + m /\ ~(i + n <= n) /\ (i + n) - n = i
      OBVIOUS
    <3>3. c[i + n] = b[i]
      BY <2>2, <3>2
    <3> QED BY <2>2, <3>1, <3>2, <3>3 DEF Cover, CoverUpTo
  <2> QED BY <2>1, <2>3, <2>4, <2>5
<1> QED BY <1>1, <1>2, <1>3

\* The lists left and right are what is left of q before s and after e.
LeavesSides(left, right, q, s, e) ==
  /\ left \in Seq(Regions) /\ right \in Seq(Regions)
  /\ Cover(left) = {o \in Span(q) : o < s} /\ Cover(right) = {o \in Span(q) : o > e}
  /\ \A j \in 1 .. Len(left) : ~left[j].main
  /\ \A j \in 1 .. Len(right) : ~right[j].main
  /\ right = << >> => e = RMax(q)

\* The two sides that split_at_region leaves of a region.
LEMMA SidesCover ==
  ASSUME NEW q \in Regions, NEW s \in Nat, NEW e \in Nat, RMin(q) <= s, s <= e, e <= RMax(q),
         NEW sides, sides = SplitAtRegion(q, s, e)
  PROVE  LeavesSides(sides.left, sides.right, q, s, e)
<1>1. PICK x \in Nat, y \in Nat : x = RMin(q) /\ y = RMax(q) /\ x <= y
  BY RegionBounds
<1> DEFINE inside == s > RMin(q) /\ e < RMax(q)
           keep(piece) == IF inside THEN piece ELSE InheritDirection(piece, q)
<1>2. /\ sides.left = IF s <= RMin(q) THEN << >> ELSE << keep(Region(RMin(q), s - 1)) >>
      /\ sides.right = IF e >= RMax(q) THEN << >> ELSE << keep(Region(e + 1, RMax(q))) >>
  BY DEF SplitAtRegion
<1>3. ASSUME NEW piece \in Regions, ~piece.main
      PROVE  /\ keep(piece) \in Regions /\ RMin(keep(piece)) = RMin(piece)
             /\ RMax(keep(piece)) = RMax(piece) /\ ~keep(piece).main
  BY <1>3, DirectionKept DEF InheritDirection
<1> HIDE DEF keep, inside
<1>4. /\ sides.left \in Seq(Regions) /\ Cover(sides.left) = {o \in Span(q) : o < s}
      /\ \A j \in 1 .. Len(sides.left) : ~sides.left[j].main
  <2>1. CASE s <= x
    <3>1. sides.left = << >>
      BY <1>1, <1>2, <2>1
    <3>2. {o \in Span(q) : o < s} = {}
      BY <1>1, <2>1 DEF Span
    <3> QED BY <3>1, <3>2, CoverOf, EmptySeq
  <2>2. CASE ~(s <= x)
    <3>1. PICK z \in Nat : z = s - 1 /\ x <= z /\ z <= y
      BY <1>1, <2>2
    <3>2. PICK p \in Regions : p = Region(x, z) /\ RMin(p) = x /\ RMax(p) = z /\ ~p.main
      BY <3>1, RegionOf DEF Lesser, Greater
    <3>3. PICK u \in Regions : u = keep(p) /\ RMin(u) = x /\ RMax(u) = z /\ ~u.main
      BY <1>3, <3>2
    <3>4. sides.left = << u >>
      BY <1>1, <1>2, <2>2, <3>1, <3>2, <3>3
    <3>5. Span(u) = {o \in Span(q) : o < s}
      BY <1>1, <3>1, <3>3 DEF Span
    <3>6. << u >> \in Seq(Regions) /\ Len(<< u >>) = 1 /\ << u >>[1] = u
      OBVIOUS
    <3>7. \A j \in 1 .. Len(sides.left) : ~sides.left[j].main
      BY <3>3, <3>4, <3>6
    <3> QED BY <3>4, <3>5, <3>6, <3>7, CoverOf
  <2> QED BY <2>1, <2>2
<1>5. /\ sides.right \in Seq(Regions) /\ Cover(sides.right) = {o \in Span(q) : o > e}
      /\ \A j \in 1 .. Len(sides.right) : ~sides.right[j].main
      /\ sides.right = << >> => e = RMax(q)
  <2>1. CASE e >= y
    <3>1. sides.right = << >> /\ e = RMax(q)
      BY <1>1, <1>2, <2>1
    <3>2. {o \in Span(q) : o > e} = {}
      BY <1>1, <2>1 DEF Span
    <3> QED BY <3>1, <3>2, CoverOf, EmptySeq
  <2>2. CASE ~(e >= y)
    <3>1. PICK z \in Nat : z = e + 1 /\ x <= z /\ z <= y
      BY <1>1, <2>2
    <3>2. PICK p \in Regions : p = Region(z, y) /\ RMin(p) = z /\ RMax(p) = y /\ ~p.main
      BY <3>1, RegionOf DEF Lesser, Greater
    <3>3. PICK u \in Regions : u = keep(p) /\ RMin(u) = z /\ RMax(u) = y /\ ~u.main
      BY <1>3, <3>2
    <3>4. sides.right = << u >>
      BY <1>1, <1>2, <2>2, <3>1, <3>2, <3>3
    <3>5. Span(u) = {o \in Span(q) : o > e}
      BY <1>1, <3>1, <3>3 DEF Span
    <3>6. << u >> \in Seq(Regions) /\ Len(<< u >>) = 1 /\ << u >>[1] = u /\ << u >> # << >>
      BY EmptySeq
    <3>7. \A j \in 1 .. Len(sides.right) : ~sides.right[j].main
      BY <3>3, <3>4, <3>6
    <3> QED BY <3>4, <3>5, <3>6, <3>7, CoverOf
  <2> QED BY <2>1, <2>2
<1> QED BY <1>4, <1>5 DEF LeavesSides

\* The offsets that the first k matches of w bytes take.
MatchUpTo(starts, w, k) == {o \in Nat : \E l \in 1 .. k : starts[l] <= o /\ o < starts[l] + w}

\* What is left of r after the first k matches covers the rest of it, and is not
\* flagged once there is a match.
CutCovers(a, r, starts, w, k) ==
  /\ Cover(a.out) \cup Cover(a.rest) = Span(r) \ MatchUpTo(starts, w, k)
  /\ \A j \in 1 .. Len(a.out) : ~a.out[j].main
  /\ k > 0 => \A j \in 1 .. Len(a.rest) : ~a.rest[j].main
  /\ a.rest # << >> => \A o \in Cover(a.out) : o < RMin(a.rest[1])
  /\ a.rest = << >> => k > 0 /\ starts[k] + w > RMax(r)

\* One match more.
LEMMA MatchNext ==
  ASSUME NEW starts, NEW w \in Nat, NEW k \in Nat \ {0}, starts[k] \in Nat
  PROVE  MatchUpTo(starts, w, k)
           = MatchUpTo(starts, w, k - 1) \cup {o \in Nat : starts[k] <= o /\ o < starts[k] + w}
<1>1. \A l \in 1 .. k : l \in 1 .. k - 1 \/ l = k
  OBVIOUS
<1>2. \A l \in 1 .. k - 1 : l \in 1 .. k
  OBVIOUS
<1>3. k \in 1 .. k
  OBVIOUS
<1>4. ASSUME NEW o \in Nat
      PROVE  o \in MatchUpTo(starts, w, k)
               <=> o \in MatchUpTo(starts, w, k - 1) \/ (starts[k] <= o /\ o < starts[k] + w)
  BY <1>1, <1>2, <1>3 DEF MatchUpTo
<1>5. MatchUpTo(starts, w, k) \subseteq Nat /\ MatchUpTo(starts, w, k - 1) \subseteq Nat
  BY DEF MatchUpTo
<1> QED BY <1>4, <1>5

\* One turn of Split.
LEMMA CutMatchCovers ==
  ASSUME NEW r \in Regions, NEW w \in Nat \ {0}, NEW starts, Spaced(starts, w, RMin(r), RMax(r)),
         NEW k \in 1 .. Len(starts), NEW a, CutSoFar(a, r, starts, k - 1),
         CutCovers(a, r, starts, w, k - 1), NEW b, b = CutMatch(a, starts[k], w)
  PROVE  CutCovers(b, r, starts, w, k)
<1>1. PICK m \in Nat : m = Len(starts) /\ \A l \in 1 .. m : starts[l] \in Nat
  BY ElementOfSeq, LenProperties DEF Spaced
<1>2. PICK s \in Nat : s = starts[k] /\ s + w <= RMax(r) + 1 /\ RMin(r) <= s
  BY <1>1 DEF Spaced
<1>3. PICK hi \in Nat : hi = RMax(r)
  BY RegionBounds
<1>4. a.out \in Seq(Regions) /\ a.rest \in Seq(Regions) /\ Len(a.rest) <= 1
  BY DEF CutSoFar, Cuts
<1>5. a.rest # << >>
  <2> SUFFICES ASSUME a.rest = << >> PROVE FALSE
    OBVIOUS
  <2>1. k - 1 > 0 /\ starts[k - 1] + w > hi
    BY <1>3 DEF CutCovers
  <2>2. k - 1 \in 1 .. Len(starts) /\ k - 1 < k
    BY <1>1, <2>1
  <2>3. starts[k - 1] + w <= starts[k]
    BY <2>2 DEF Spaced
  <2>4. starts[k - 1] \in Nat
    BY <1>1, <2>2
  <2> QED BY <1>2, <1>3, <2>1, <2>3, <2>4
<1>6. PICK q \in Regions : q = a.rest[1] /\ a.rest = << q >>
  <2>1. Len(a.rest) = 1
    <3>1. PICK c \in Nat : c = Len(a.rest) /\ c # 0
      BY <1>4, <1>5, EmptySeq, LenProperties
    <3>2. c <= 1
      BY <1>4, <3>1
    <3>3. c # 0
      BY <3>1
    <3>4. c = 1
      BY <3>2, <3>3
    <3> QED BY <3>1, <3>4
  <2>2. a.rest[1] \in Regions
    BY <1>4, <2>1, ElementOfSeq
  <2>3. a.rest = << a.rest[1] >>
    BY <1>4, <2>1, <2>2
  <2> QED BY <2>2, <2>3
<1>7. PICK lo \in Nat : lo = RMin(q) /\ RMax(q) = hi /\ lo <= s
  <2>1. k \in (k - 1) + 1 .. Len(starts)
    BY <1>1
  <2>2. RMax(q) = RMax(r) /\ RMin(q) <= starts[k]
    BY <1>5, <1>6, <2>1 DEF CutSoFar
  <2> QED BY <1>2, <1>3, <2>2, RegionBounds
<1>8. PICK e \in Nat : e = s + w - 1 /\ s <= e /\ e <= hi
  <2>1. s + w <= hi + 1
    BY <1>2, <1>3
  <2>2. s + w - 1 \in Nat /\ s <= s + w - 1 /\ s + w - 1 <= hi
    BY <2>1
  <2> QED BY <2>2
<1>9. PICK left, right : left = SplitAtRegion(q, s, e).left /\ right = SplitAtRegion(q, s, e).right
  OBVIOUS
<1>10. LeavesSides(left, right, q, s, e)
  BY <1>7, <1>8, <1>9, SidesCover
<1>11. b.out = a.out \o left /\ b.rest = right
  <2>1. CutMatch(a, s, w) = [out  |-> a.out \o SplitAtRegion(a.rest[1], s, s + w - 1).left,
                             rest |-> SplitAtRegion(a.rest[1], s, s + w - 1).right]
    BY <1>5 DEF CutMatch
  <2>2. PICK x : x = a.out \o left
    OBVIOUS
  <2>3. CutMatch(a, s, w) = [out |-> x, rest |-> right]
    BY <1>6, <1>8, <1>9, <2>1, <2>2
  <2>4. b = [out |-> x, rest |-> right]
    BY <1>2, <2>3
  <2> QED BY <2>2, <2>4
<1>12. Cover(b.out) = Cover(a.out) \cup {o \in Span(q) : o < s}
  BY <1>4, <1>10, <1>11, CoverOf DEF LeavesSides
<1>13. Cover(a.rest) = Span(q)
  BY <1>6, CoverOf
<1>14. Span(q) = {o \in Nat : lo <= o /\ o <= hi}
  BY <1>7 DEF Span
<1>15. \A o \in Cover(a.out) : o \in Nat /\ o < lo
  BY <1>5, <1>6, <1>7 DEF CutCovers, Cover, CoverUpTo
<1>16. MatchUpTo(starts, w, k) = MatchUpTo(starts, w, k - 1) \cup {o \in Nat : s <= o /\ o <= e}
  <2>1. k \in Nat \ {0}
    BY <1>1
  <2>2. MatchUpTo(starts, w, k)
          = MatchUpTo(starts, w, k - 1) \cup {o \in Nat : starts[k] <= o /\ o < starts[k] + w}
    BY <1>2, <2>1, MatchNext
  <2>3. {o \in Nat : starts[k] <= o /\ o < starts[k] + w} = {o \in Nat : s <= o /\ o <= e}
    BY <1>2, <1>8
  <2> QED BY <2>2, <2>3
<1>17. Cover(a.out) \cup Span(q) = Span(r) \ MatchUpTo(starts, w, k - 1)
  BY <1>13 DEF CutCovers
<1>18. Cover(b.out) \cup Cover(b.rest) = Span(r) \ MatchUpTo(starts, w, k)
  <2>1. Cover(b.out) \cup Cover(b.rest)
          = (Cover(a.out) \cup Span(q)) \ {o \in Nat : s <= o /\ o <= e}
    <3>1. \A o \in Span(q) : o \in Nat /\ (o < s \/ o > e <=> ~(s <= o /\ o <= e))
      BY <1>14
    <3>2. \A o \in Cover(a.out) : ~(s <= o /\ o <= e)
      BY <1>7, <1>15
    <3> QED BY <1>10, <1>11, <1>12, <3>1, <3>2 DEF LeavesSides
  <2> QED BY <1>16, <1>17, <2>1
<1>19. ASSUME NEW j \in 1 .. Len(b.out) PROVE ~b.out[j].main
  <2>1. PICK n \in Nat, l \in Nat : n = Len(a.out) /\ l = Len(left)
    BY <1>4, <1>10, LenProperties DEF LeavesSides
  <2>2. Len(b.out) = n + l /\ \A i \in 1 .. n + l : b.out[i] = IF i <= n THEN a.out[i] ELSE left[i - n]
    <3>1. PICK x \in Seq(Regions), y \in Seq(Regions) : x = a.out /\ y = left
      BY <1>4, <1>10 DEF LeavesSides
    <3>2. Len(x) = n /\ Len(y) = l
      BY <2>1, <3>1
    <3>3. b.out = x \o y
      BY <1>11, <3>1
    <3>4. PICK z : z = x \o y
      OBVIOUS
    <3>5. Len(z) = Len(x) + Len(y) /\ \A i \in 1 .. Len(x) + Len(y) : z[i] = IF i <= Len(x) THEN x[i] ELSE y[i - Len(x)]
      BY <3>4, ConcatProperties
    <3> QED BY <3>1, <3>2, <3>3, <3>4, <3>5
  <2>3. CASE j <= n
    <3>1. j \in 1 .. n /\ b.out[j] = a.out[j]
      BY <2>2, <2>3
    <3>2. ~a.out[j].main
      BY <2>1, <3>1 DEF CutCovers
    <3> QED BY <3>1, <3>2
  <2>4. CASE ~(j <= n)
    <3>1. j - n \in 1 .. l /\ b.out[j] = left[j - n]
      BY <2>2, <2>4
    <3>2. ~left[j - n].main
      BY <1>10, <2>1, <3>1 DEF LeavesSides
    <3> QED BY <3>1, <3>2
  <2> QED BY <2>3, <2>4
<1>20. ASSUME b.rest # << >> PROVE \A o \in Cover(b.out) : o < RMin(b.rest[1])
  <2>1. PICK v \in Regions : v = b.rest[1]
    BY <1>10, <1>11, <1>20, EmptySeq, LenProperties, ElementOfSeq DEF LeavesSides
  <2>2. PICK x \in Nat : x = RMin(v) /\ x <= RMax(v)
    BY RegionBounds
  <2>3. x \in Cover(b.rest)
    <3>1. PICK c \in Nat : c = Len(b.rest) /\ c # 0
      BY <1>10, <1>11, <1>20, EmptySeq, LenProperties DEF LeavesSides
    <3>2. 1 \in 1 .. c
      BY <3>1
    <3> QED BY <2>1, <2>2, <3>1, <3>2 DEF Cover, CoverUpTo
  <2>4. x > e
    BY <1>10, <1>11, <2>3 DEF LeavesSides
  <2>5. \A o \in Cover(b.out) : o \in Nat /\ o < s
    BY <1>7, <1>12, <1>14, <1>15
  <2> QED BY <1>8, <2>1, <2>2, <2>4, <2>5
<1>21. b.rest = << >> => starts[k] + w > RMax(r)
  BY <1>2, <1>3, <1>7, <1>8, <1>10, <1>11 DEF LeavesSides
<1>22. \A j \in 1 .. Len(b.rest) : ~b.rest[j].main
  BY <1>10, <1>11 DEF LeavesSides
<1>23. k > 0
  BY <1>1
<1> QED BY <1>18, <1>19, <1>20, <1>21, <1>22, <1>23 DEF CutCovers

\* What Split keeps of a region is all of it but the matches, none of it flagged
\* unless the region stays whole.
LEMMA CutOutCovers ==
  ASSUME NEW r \in Regions, NEW w \in Nat \ {0}, NEW starts, Spaced(starts, w, RMin(r), RMax(r))
  PROVE  /\ Cover(CutOut(r, starts, w)) = Span(r) \ MatchUpTo(starts, w, Len(starts))
         /\ Plain(CutOut(r, starts, w), r)
<1>1. PICK n \in Nat : n = Len(starts)
  BY LenProperties DEF Spaced
<1> DEFINE C == CutUpTo(r, starts, w)
           S == {k \in 0 .. n : CutCovers(C[k], r, starts, w, k)}
<1>2. /\ C[0] = [out |-> << >>, rest |-> << r >>]
      /\ \A k \in 1 .. n : C[k] = CutMatch(C[k - 1], starts[k], w)
      /\ \A k \in 0 .. n : CutSoFar(C[k], r, starts, k)
  BY <1>1, CutDef
<1> HIDE DEF C
<1>3. C[0].out = << >> /\ C[0].rest = << r >>
  BY <1>2
<1>4. << >> \in Seq(Regions) /\ Len(<< >>) = 0 /\ << r >> \in Seq(Regions) /\ << r >> # << >>
  BY EmptySeq
<1>5. 0 \in S
  <2>1. Cover(C[0].out) = {} /\ Cover(C[0].rest) = Span(r) /\ MatchUpTo(starts, w, 0) = {}
    BY <1>3, CoverOf DEF MatchUpTo
  <2>2. 1 .. Len(C[0].out) = {}
    BY <1>3, <1>4
  <2>3. CutCovers(C[0], r, starts, w, 0)
    BY <1>3, <1>4, <2>1, <2>2 DEF CutCovers
  <2> QED BY <2>3
<1>6. \A k \in 0 .. n - 1 : k \in S => k + 1 \in S
  <2> SUFFICES ASSUME NEW k \in 0 .. n - 1, CutCovers(C[k], r, starts, w, k) PROVE k + 1 \in S
    OBVIOUS
  <2>1. PICK j \in 1 .. n : j = k + 1 /\ k = j - 1 /\ j \in 0 .. n /\ k \in 0 .. n
    OBVIOUS
  <2>2. C[j] = CutMatch(C[j - 1], starts[j], w) /\ CutSoFar(C[j - 1], r, starts, j - 1)
    BY <1>2, <2>1
  <2>3. CutCovers(C[j], r, starts, w, j)
    BY <1>1, <2>1, <2>2, CutMatchCovers
  <2> QED BY <2>1, <2>3
<1>7. n \in S
  <2>1. \A k \in 0 .. n : k \in S
    <3> HIDE DEF S
    <3> QED BY <1>5, <1>6, Induction
  <2> QED BY <2>1
<1>8. PICK a : a = C[n] /\ CutCovers(a, r, starts, w, n) /\ CutSoFar(a, r, starts, n)
  <2>1. n \in 0 .. n
    OBVIOUS
  <2> QED BY <1>2, <1>7, <2>1
<1>9. a.out \in Seq(Regions) /\ a.rest \in Seq(Regions)
  BY <1>8 DEF CutSoFar, Cuts
<1>10. CutOut(r, starts, w) = a.out \o a.rest
  BY <1>1, <1>8 DEF CutOut, C
<1>11. Cover(CutOut(r, starts, w)) = Span(r) \ MatchUpTo(starts, w, n)
  BY <1>8, <1>9, <1>10, CoverOf DEF CutCovers
<1>12. CASE n = 0
  <2>1. a.out \o a.rest = << r >>
    BY <1>3, <1>4, <1>8, <1>12, ConcatEmptySeq
  <2>2. Len(<< r >>) = 1 /\ << r >>[1] = r
    OBVIOUS
  <2>3. Plain(<< r >>, r)
    BY <2>2 DEF Plain
  <2> QED BY <1>1, <1>10, <1>11, <2>1, <2>3
<1>13. CASE n # 0
  <2>0. PICK p : p = a.out \o a.rest
    OBVIOUS
  <2>1. PICK x \in Nat, y \in Nat : p = a.out \o a.rest /\ x = Len(a.out) /\ y = Len(a.rest)
    BY <1>9, <2>0, LenProperties
  <2>2. Len(p) = x + y /\ \A i \in 1 .. x + y : p[i] = IF i <= x THEN a.out[i] ELSE a.rest[i - x]
    BY <1>9, <2>1, ConcatProperties
  <2>3. ASSUME NEW j \in 1 .. Len(p) PROVE ~p[j].main
    <3>1. CASE j <= x
      <4>1. j \in 1 .. x /\ p[j] = a.out[j]
        BY <2>2, <3>1
      <4>2. ~a.out[j].main
        BY <1>8, <2>1, <4>1 DEF CutCovers
      <4> QED BY <4>1, <4>2
    <3>2. CASE ~(j <= x)
      <4>1. j - x \in 1 .. y /\ p[j] = a.rest[j - x]
        BY <2>2, <3>2
      <4>2. ~a.rest[j - x].main
        BY <1>8, <1>13, <2>1, <4>1 DEF CutCovers
      <4> QED BY <4>1, <4>2
    <3> QED BY <3>1, <3>2
  <2>4. Plain(p, r)
    BY <2>3 DEF Plain
  <2> QED BY <1>1, <1>10, <1>11, <2>1, <2>4
<1> QED BY <1>12, <1>13

\* The matches that Collapse makes regions of cover the matches, unflagged.
LEMMA FoundCovers ==
  ASSUME NEW r \in Regions, NEW w \in Nat \ {0}, NEW starts, Spaced(starts, w, RMin(r), RMax(r))
  PROVE  /\ Cover(FoundMatches(r, starts, w)) = MatchUpTo(starts, w, Len(starts))
         /\ MatchUpTo(starts, w, Len(starts)) \subseteq Span(r)
         /\ Plain(FoundMatches(r, starts, w), r)
<1>1. PICK n \in Nat : n = Len(starts) /\ DOMAIN starts = 1 .. n /\ \A l \in 1 .. n : starts[l] \in Nat
  BY ElementOfSeq, LenProperties DEF Spaced
<1>2. PICK f : f = FoundMatches(r, starts, w)
  OBVIOUS
<1>3. f = [k \in 1 .. n |-> InheritDirection(Region(starts[k], starts[k] + w - 1), r)]
  BY <1>1, <1>2 DEF FoundMatches
<1>4. ASSUME NEW k \in 1 .. n
      PROVE  f[k] \in Regions /\ ~f[k].main /\ RMin(f[k]) = starts[k] /\ RMax(f[k]) = starts[k] + w - 1
  <2>1. PICK s \in Nat, e \in Nat : s = starts[k] /\ e = starts[k] + w - 1 /\ s <= e
    BY <1>1
  <2>2. PICK p \in Regions : p = Region(s, e) /\ RMin(p) = s /\ RMax(p) = e
    BY <2>1, RegionOf DEF Lesser, Greater
  <2>3. PICK x : f[k] = WithDirection(p, x)
    BY <1>3, <2>1, <2>2 DEF InheritDirection
  <2> QED BY <2>1, <2>2, <2>3, DirectionKept
<1>5. f \in Seq(Regions) /\ Len(f) = n
  <2>1. f \in [1 .. n -> Regions]
    BY <1>3, <1>4
  <2> QED BY <2>1, SequenceOf
<1>6. Cover(f) = MatchUpTo(starts, w, n)
  <2>1. \A k \in 1 .. n, o \in Nat : RMin(f[k]) <= o /\ o <= RMax(f[k])
                                      <=> starts[k] <= o /\ o < starts[k] + w
    BY <1>1, <1>4
  <2> QED BY <1>5, <2>1 DEF Cover, CoverUpTo, MatchUpTo
<1>7. MatchUpTo(starts, w, n) \subseteq Span(r)
  <2> SUFFICES ASSUME NEW o \in Nat, NEW l \in 1 .. n, starts[l] <= o, o < starts[l] + w
               PROVE  RMin(r) <= o /\ o <= RMax(r)
    BY DEF MatchUpTo, Span
  <2>1. RMin(r) <= starts[l] /\ starts[l] + w <= RMax(r) + 1 /\ starts[l] \in Nat
    BY <1>1 DEF Spaced
  <2>2. RMin(r) \in Nat /\ RMax(r) \in Nat
    BY RegionBounds
  <2> QED BY <2>1, <2>2
<1>8. Plain(f, r)
  BY <1>4, <1>5 DEF Plain
<1> QED BY <1>1, <1>2, <1>6, <1>7, <1>8
\* Pieces of the regions that flag nothing new flag no other main region, and reach no
\* further than the regions did.
LEMMA PiecesReach ==
  ASSUME NEW sel \in Selections, NEW news,
         \A i \in 1 .. Len(sel.regions) :
           Within(news[i], sel.regions[i]) /\ Plain(news[i], sel.regions[i])
           /\ \A k \in 1 .. Len(news[i]) : RMax(news[i][k]) <= RMax(sel.regions[i]),
         ~MapSelections(sel, news).panic, NEW s, s = MapSelections(sel, news).sel
  PROVE  /\ OneMain(sel) => OneMain(s)
         /\ \A n \in Nat : Inside(sel, n) => Inside(s, n)
<1>1. InOrder(news, Len(sel.regions))
  BY WithinInOrder
<1>2. OneMain(sel) => OneMain(s)
  BY <1>1, MapCovers
<1>3. ASSUME NEW n \in Nat, Inside(sel, n) PROVE Inside(s, n)
  <2>1. ASSUME NEW i \in 1 .. Len(sel.regions), NEW k \in 1 .. Len(news[i])
        PROVE  RMax(news[i][k]) <= n
    <3>1. news[i] \in Seq(Regions) /\ sel.regions[i] \in Regions
      BY SelectionFields DEF Within
    <3>2. PICK y \in Nat : y = RMax(news[i][k])
      BY <3>1, ElementOfSeq, RegionBounds
    <3>3. y <= RMax(sel.regions[i])
      BY <3>2
    <3>4. RMax(sel.regions[i]) <= n /\ RMax(sel.regions[i]) \in Nat
      BY <1>3, <3>1, RegionBounds DEF Inside
    <3> QED BY <3>2, <3>3, <3>4
  <2> QED BY <1>1, <2>1, MapInside
<1> QED BY <1>2, <1>3

\* The lists cut and found are pieces of r that share it out and flag nothing new.
Shares(cut, found, r) ==
  /\ Within(cut, r) /\ Plain(cut, r) /\ Within(found, r) /\ Plain(found, r)
  /\ Cover(cut) = Span(r) \ Cover(found) /\ Cover(found) \subseteq Span(r)
  /\ \A k \in 1 .. Len(cut) : RMax(cut[k]) <= RMax(r)
  /\ \A k \in 1 .. Len(found) : RMax(found[k]) <= RMax(r)

\* Split and Collapse share each region out, flag no other main region and reach no
\* further than the region did.
LEMMA SearchReach ==
  ASSUME NEW r \in Regions, NEW w \in Nat \ {0}, NEW starts, Spaced(starts, w, RMin(r), RMax(r)),
         NEW cut, cut = CutOut(r, starts, w), NEW found, found = FoundMatches(r, starts, w)
  PROVE  Shares(cut, found, r)
<1>1. Within(cut, r) /\ Plain(cut, r) /\ Cover(cut) = Span(r) \ MatchUpTo(starts, w, Len(starts))
  BY CutWithin, CutOutCovers
<1>2. /\ Within(found, r) /\ Plain(found, r) /\ Cover(found) = MatchUpTo(starts, w, Len(starts))
      /\ MatchUpTo(starts, w, Len(starts)) \subseteq Span(r)
  BY FoundWithin, FoundCovers
<1>3. /\ cut \in Seq(Regions) /\ Cover(cut) \subseteq Span(r)
      /\ found \in Seq(Regions) /\ Cover(found) \subseteq Span(r)
  BY <1>1, <1>2 DEF Within
<1>4. /\ \A k \in 1 .. Len(cut) : RMax(cut[k]) <= RMax(r)
      /\ \A k \in 1 .. Len(found) : RMax(found[k]) <= RMax(r)
  BY <1>3, CoveredEnds
<1> QED BY <1>1, <1>2, <1>3, <1>4 DEF Shares

\* What one of two closures keeps of each region and the other drops, the two selections
\* share out.
LEMMA SharedOut ==
  ASSUME NEW sel \in Selections, NEW cut, NEW found,
         \A i \in 1 .. Len(sel.regions) : Shares(cut[i], found[i], sel.regions[i]),
         ~MapSelections(sel, cut).panic, ~MapSelections(sel, found).panic,
         NEW s, s = MapSelections(sel, cut).sel, NEW t, t = MapSelections(sel, found).sel
  PROVE  /\ Cover(s.regions) \cup Cover(t.regions) = Cover(sel.regions)
         /\ Cover(s.regions) \cap Cover(t.regions) = {}
<1>1. PICK R \in Seq(Regions), n \in Nat : R = sel.regions /\ n = Len(R) /\ SortedDisjoint(R)
  BY SelectionFields
<1>2. \A i \in 1 .. n, j \in 1 .. n : i < j => RMax(R[i]) < RMin(R[j])
  BY <1>1, SortedApart
<1>3. InOrder(cut, n) /\ InOrder(found, n)
  BY <1>1, WithinInOrder DEF Shares
<1>4. Cover(s.regions) = CoverLists(cut, n) /\ Cover(t.regions) = CoverLists(found, n)
  BY <1>1, <1>3, MapCovers
<1>5. \A i \in 1 .. n : /\ Cover(cut[i]) = Span(R[i]) \ Cover(found[i])
                        /\ Cover(found[i]) \subseteq Span(R[i])
  BY <1>1 DEF Shares
<1>6. ASSUME NEW i \in 1 .. n, NEW j \in 1 .. n, NEW o \in Span(R[i]), o \in Span(R[j]) PROVE i = j
  <2>1. PICK a \in Nat, b \in Nat, c \in Nat, e \in Nat :
          a = RMin(R[i]) /\ b = RMax(R[i]) /\ c = RMin(R[j]) /\ e = RMax(R[j])
    BY <1>1, ElementOfSeq, RegionBounds
  <2>2. o \in Nat /\ a <= o /\ o <= b /\ c <= o /\ o <= e
    BY <1>6, <2>1 DEF Span
  <2>3. CASE i < j
    BY <1>2, <2>1, <2>2, <2>3
  <2>4. CASE j < i
    BY <1>2, <2>1, <2>2, <2>4
  <2> QED BY <2>3, <2>4
<1>7. Cover(R) = {o \in Nat : \E i \in 1 .. n : o \in Span(R[i])}
  BY <1>1 DEF Cover, CoverUpTo, Span
<1>8. Cover(s.regions) \cup Cover(t.regions) = Cover(R)
  <2>1. \A o : o \in CoverLists(cut, n) \/ o \in CoverLists(found, n) => o \in Cover(R)
    BY <1>5, <1>7 DEF CoverLists
  <2>2. ASSUME NEW o \in Cover(R) PROVE o \in CoverLists(cut, n) \/ o \in CoverLists(found, n)
    <3>1. PICK i \in 1 .. n : o \in Span(R[i]) /\ o \in Nat
      BY <1>7, <2>2
    <3>2. o \in Cover(cut[i]) \/ o \in Cover(found[i])
      BY <1>5, <3>1
    <3> QED BY <3>1, <3>2 DEF CoverLists
  <2> QED BY <1>4, <2>1, <2>2
<1>9. ASSUME NEW o, o \in CoverLists(cut, n), o \in CoverLists(found, n) PROVE FALSE
  <2>1. PICK i \in 1 .. n : o \in Cover(cut[i])
    BY <1>9 DEF CoverLists
  <2>2. PICK j \in 1 .. n : o \in Cover(found[j])
    BY <1>9 DEF CoverLists
  <2>3. o \in Span(R[i]) /\ o \in Span(R[j]) /\ o \notin Cover(found[i])
    BY <1>5, <2>1, <2>2
  <2>4. i = j
    BY <1>6, <2>3
  <2> QED BY <2>2, <2>3, <2>4
<1> QED BY <1>1, <1>4, <1>8, <1>9

=============================================================================
