------------------------- MODULE EditorHistoryProofs -------------------------
(***************************************************************************)
(* What the editor keeps across edits, undo and redo, for every keyboard,  *)
(* screen and bound.  Every step of the editor is one of a few kinds of    *)
(* work on the buffer between two showings of it (Advanced of module       *)
(* EditorProofs); here each kind is followed through the history.          *)
(*                                                                         *)
(* Only the main selection is flagged, also in the selections the history  *)
(* will restore, as long as no selection before the main one is removed by *)
(* its number.                                                             *)
(*                                                                         *)
(* The bytes of an unedited buffer are the first ones of the file, as long *)
(* as the window never slides.                                             *)
(*                                                                         *)
(* A buffer that is not read from a file implements module UndoHistory.    *)
(* The invariant says that the deltas of each stack, applied one after the *)
(* other, newest first, lead from the buffer's bytes through a line of     *)
(* versions, and that every selection, the current one and those to be     *)
(* restored, lies within the version it belongs to.  In such a buffer undo *)
(* and redo also restore the history itself.  With a file the versions     *)
(* grow when more of it is loaded, and all of this can fail.               *)
(***************************************************************************)
EXTENDS EditorProofs

-----------------------------------------------------------------------------
(* Stacks of entries.                                                      *)

\* The fields of a history.
LEMMA HistOfFields ==
  ASSUME NEW p, NEW u, NEW r
  PROVE  HistOf(p, u, r).partial = p /\ HistOf(p, u, r).undo = u /\ HistOf(p, u, r).redo = r
BY DEF HistOf

\* What the operations of History (src/history.rs) make of the three stacks: a final
\* delta,
LEMMA FinalStacks ==
  ASSUME NEW h \in Hists, NEW data, NEW d, NEW sel
  PROVE  PerformFinal(h, data, d, sel)
           = HistOf(h.partial, Append(h.undo, Entry(Invert(d, data), sel)), << >>)
<1>1. PerformFinal(h, data, d, sel)
        = NewStacks(h, Append(h.undo, Entry(Invert(d, data), sel)), << >>)
  BY Zenon DEF PerformFinal, NewStacks
<1> QED BY <1>1, HistFields

\* an incomplete one,
LEMMA PartialStacks ==
  ASSUME NEW h \in Hists, NEW data, NEW d, NEW sel
  PROVE  /\ h.partial = << >> =>
              PerformPartial(h, data, d, sel)
                = HistOf(<< Entry(Invert(d, data), sel) >>, h.undo, h.redo)
         /\ h.partial # << >> =>
              PerformPartial(h, data, d, sel)
                = HistOf(<< Entry(Chain(Invert(d, data), data, h.partial[1].delta),
                                  h.partial[1].sel) >>, h.undo, h.redo)
<1>1. ASSUME h.partial = << >>
      PROVE  PerformPartial(h, data, d, sel) = NewPartial(h, << Entry(Invert(d, data), sel) >>)
  BY <1>1, Zenon DEF PerformPartial, NewPartial
<1>2. ASSUME h.partial # << >>
      PROVE  PerformPartial(h, data, d, sel)
               = NewPartial(h, << Entry(Chain(Invert(d, data), data, h.partial[1].delta),
                                        h.partial[1].sel) >>)
  BY <1>2, Zenon DEF PerformPartial, NewPartial
<1> QED BY <1>1, <1>2, HistFields

\* and the commit of an insertion, undo and redo.
LEMMA StackUpdates ==
  ASSUME NEW h \in Hists, NEW data, NEW sel
  PROVE  /\ h.partial = << >> => CommitPartial(h) = h
         /\ h.partial # << >> => CommitPartial(h) = HistOf(<< >>, h.undo \o h.partial, << >>)
         /\ UndoPop(h, data, sel)
              = HistOf(h.partial, Front(h.undo),
                       Append(h.redo, Entry(Invert(Last(h.undo).delta, data), sel)))
         /\ RedoPop(h, data, sel)
              = HistOf(h.partial, Append(h.undo, Entry(Invert(Last(h.redo).delta, data), sel)),
                       Front(h.redo))
<1>1. h.partial = << >> => CommitPartial(h) = h
  BY DEF CommitPartial
<1>2. h.partial # << >> => CommitPartial(h) = HistOf(<< >>, h.undo \o h.partial, << >>)
  BY Zenon DEF CommitPartial, HistOf
<1>3. UndoPop(h, data, sel)
        = NewStacks(h, Front(h.undo), Append(h.redo, Entry(Invert(Last(h.undo).delta, data), sel)))
  BY Zenon DEF UndoPop, NewStacks
<1>4. RedoPop(h, data, sel)
        = NewStacks2(h, Front(h.redo), Append(h.undo, Entry(Invert(Last(h.redo).delta, data), sel)))
  BY Zenon DEF RedoPop, NewStacks2
<1> QED BY <1>1, <1>2, <1>3, <1>4, HistFields

\* A stack with an entry put on it, and one with an entry taken off.
LEMMA StackEnds ==
  ASSUME NEW s \in Seq(Entries), NEW n \in Nat, n = Len(s)
  PROVE  /\ \A e \in Entries : /\ Append(s, e) \in Seq(Entries) /\ Len(Append(s, e)) = n + 1
                               /\ \A k \in 1 .. n : Append(s, e)[k] = s[k]
                               /\ Append(s, e)[n + 1] = e
         /\ s # << >> => /\ Front(s) \in Seq(Entries) /\ n - 1 \in Nat /\ Len(Front(s)) = n - 1
                         /\ \A k \in 1 .. n - 1 : Front(s)[k] = s[k]
                         /\ Last(s) = s[n] /\ n \in 1 .. n /\ Last(s) \in Entries
<1>1. ASSUME NEW e \in Entries
      PROVE  /\ Append(s, e) \in Seq(Entries) /\ Len(Append(s, e)) = n + 1
             /\ \A k \in 1 .. n : Append(s, e)[k] = s[k]
             /\ Append(s, e)[n + 1] = e
  BY AppendProperties
<1>2. ASSUME s # << >>
      PROVE  /\ Front(s) \in Seq(Entries) /\ n - 1 \in Nat /\ Len(Front(s)) = n - 1
             /\ \A k \in 1 .. n - 1 : Front(s)[k] = s[k]
             /\ Last(s) = s[n] /\ n \in 1 .. n /\ Last(s) \in Entries
  <2>1. n # 0
    BY <1>2, EmptySeq
  <2>2. PICK one \in Int, m \in Int : one = 1 /\ m = n - 1 /\ \A j \in one .. m : s[j] \in Entries
    BY <2>1, ElementOfSeq
  <2>3. /\ Len(SubSeq(s, one, m)) = IF one <= m THEN m - one + 1 ELSE 0
        /\ \A i \in 1 .. m - one + 1 : SubSeq(s, one, m)[i] = s[one + i - 1]
    BY <2>2, SubSeqProperties
  <2>4. Front(s) = SubSeq(s, one, m)
    BY <2>2 DEF Front
  <2>5. Len(Front(s)) = n - 1
    BY <2>1, <2>2, <2>3, <2>4
  <2>6. ASSUME NEW k \in 1 .. n - 1 PROVE Front(s)[k] = s[k]
    <3>1. k \in 1 .. m - one + 1 /\ one + k - 1 = k
      BY <2>2
    <3> QED BY <2>3, <2>4, <3>1
  <2>7. Front(s) \in Seq(Entries) /\ Last(s) \in Entries
    BY <1>2, PoppedEntries
  <2> QED BY <2>1, <2>5, <2>6, <2>7 DEF Last
<1> QED BY <1>1, <1>2

-----------------------------------------------------------------------------
(* One flag.                                                               *)

\* Every selection a stack will restore has one region flagged at most.
Flagged(stack) == \A k \in 1 .. Len(stack) : OneMain(stack[k].sel)

HistFlagged(h) == Flagged(h.partial) /\ Flagged(h.undo) /\ Flagged(h.redo)

\* Flags of a stack, as entries come and go.
LEMMA FlaggedStacks ==
  ASSUME NEW s \in Seq(Entries), Flagged(s)
  PROVE  /\ Flagged(<< >>)
         /\ \A e \in Entries : OneMain(e.sel) => Flagged(<< e >>) /\ Flagged(Append(s, e))
         /\ s # << >> => Flagged(Front(s)) /\ OneMain(Last(s).sel)
         /\ \A t \in Seq(Entries) : Flagged(t) => Flagged(s \o t)
<1>1. PICK n \in Nat : n = Len(s)
  BY LenProperties
<1>2. Flagged(<< >>)
  BY DEF Flagged
<1>3. ASSUME NEW e \in Entries, OneMain(e.sel) PROVE Flagged(<< e >>) /\ Flagged(Append(s, e))
  <2>1. PICK t : t = Append(s, e)
    OBVIOUS
  <2>2. Len(t) = n + 1 /\ t[n + 1] = e /\ \A k \in 1 .. n : t[k] = s[k]
    BY <1>1, <2>1, StackEnds
  <2>3. \A k \in 1 .. n + 1 : k \in 1 .. n \/ k = n + 1
    OBVIOUS
  <2>4. Flagged(t)
    BY <1>1, <1>3, <2>2, <2>3 DEF Flagged
  <2>5. Flagged(<< e >>)
    BY <1>3 DEF Flagged
  <2> QED BY <2>1, <2>4, <2>5
<1>4. ASSUME s # << >> PROVE Flagged(Front(s)) /\ OneMain(Last(s).sel)
  <2>1. PICK t : t = Front(s)
    OBVIOUS
  <2>2. /\ Len(t) = n - 1 /\ n - 1 \in Nat /\ Last(s) = s[n] /\ n \in 1 .. n
        /\ \A k \in 1 .. n - 1 : t[k] = s[k]
    BY <1>1, <1>4, <2>1, StackEnds
  <2>3. \A k \in 1 .. n - 1 : k \in 1 .. n
    OBVIOUS
  <2> QED BY <1>1, <2>1, <2>2, <2>3 DEF Flagged
<1>5. ASSUME NEW t \in Seq(Entries), Flagged(t) PROVE Flagged(s \o t)
  <2>0. PICK m \in Nat : m = Len(t)
    BY LenProperties
  <2>1. PICK z : m = Len(t) /\ z = s \o t
    BY <2>0
  <2>2. Len(z) = n + m /\ \A k \in 1 .. n + m : z[k] = IF k <= n THEN s[k] ELSE t[k - n]
    BY <1>1, <2>1, ConcatProperties
  <2>3. \A k \in 1 .. n + m : IF k <= n THEN k \in 1 .. n ELSE k - n \in 1 .. m
    OBVIOUS
  <2>4. \A k \in 1 .. n + m : OneMain(z[k].sel)
    BY <1>1, <1>5, <2>1, <2>2, <2>3 DEF Flagged
  <2> QED BY <2>1, <2>2, <2>4 DEF Flagged
<1> QED BY <1>2, <1>3, <1>4, <1>5

\* The buffer's selection, and every one its history will restore, has one flag.
BufFlagged(b) == OneMain(b.sel) /\ HistFlagged(b.hist)

\* The operations of the history save selections that have one flag.
LEMMA FlaggedHistory ==
  ASSUME NEW h \in Hists, HistFlagged(h), NEW data \in Text, NEW sel \in Selections, OneMain(sel)
  PROVE  /\ \A d \in Deltas(Len(data)) : HistFlagged(PerformFinal(h, data, d, sel))
         /\ ~ChainPanics(h, data) =>
              \A d \in Deltas(Len(data)) : HistFlagged(PerformPartial(h, data, d, sel))
         /\ HistFlagged(CommitPartial(h))
         /\ h.undo # << >> /\ ~ApplyPanics(data, Last(h.undo).delta) =>
              HistFlagged(UndoPop(h, data, sel)) /\ OneMain(Last(h.undo).sel)
         /\ h.redo # << >> /\ ~ApplyPanics(data, Last(h.redo).delta) =>
              HistFlagged(RedoPop(h, data, sel)) /\ OneMain(Last(h.redo).sel)
<1>1. PICK p \in Seq(Entries), u \in Seq(Entries), r \in Seq(Entries) :
        h.partial = p /\ h.undo = u /\ h.redo = r
  BY HistFields
<1>2. Flagged(p) /\ Flagged(u) /\ Flagged(r) /\ Flagged(<< >>)
  BY <1>1, FlaggedStacks DEF HistFlagged
<1>3. ASSUME NEW a, NEW b, NEW c, Flagged(a), Flagged(b), Flagged(c)
      PROVE  HistFlagged(HistOf(a, b, c))
  BY <1>3, HistOfFields DEF HistFlagged
<1>4. ASSUME NEW d \in AnyDelta PROVE Entry(d, sel) \in Entries /\ OneMain(Entry(d, sel).sel)
  BY EntryFields DEF Entry
<1>6. ASSUME NEW d \in Deltas(Len(data)) PROVE Invert(d, data) \in AnyDelta
  <2>1. PICK to \in Text, m \in Nat : to = ApplyDelta(data, d) /\ m = Len(to)
    BY ApplyType, TextElements
  <2>2. Invert(d, data) \in Deltas(m)
    BY <2>1, InvertUndoes
  <2> QED BY <2>2, AnyDeltaOf
<1>7. ASSUME NEW d \in Deltas(Len(data)) PROVE HistFlagged(PerformFinal(h, data, d, sel))
  <2>1. PICK e \in Entries : e = Entry(Invert(d, data), sel) /\ OneMain(e.sel)
    <3>1. PICK x \in AnyDelta : x = Invert(d, data)
      BY <1>6
    <3> QED BY <1>4, <3>1
  <2>2. PICK v, w : v = Append(u, e) /\ w = << >>
    OBVIOUS
  <2>3. PerformFinal(h, data, d, sel) = HistOf(p, v, w)
    <3>1. PerformFinal(h, data, d, sel)
            = HistOf(h.partial, Append(h.undo, Entry(Invert(d, data), sel)), << >>)
      BY FinalStacks
    <3> QED BY <1>1, <2>1, <2>2, <3>1, Zenon
  <2>4. Flagged(v) /\ Flagged(w)
    BY <1>2, <2>1, <2>2, FlaggedStacks
  <2> QED BY <1>2, <1>3, <2>3, <2>4
<1>8. ASSUME ~ChainPanics(h, data), NEW d \in Deltas(Len(data))
      PROVE  HistFlagged(PerformPartial(h, data, d, sel))
  <2>1. CASE p = << >>
    <3>1. PICK e \in Entries : e = Entry(Invert(d, data), sel) /\ OneMain(e.sel)
      <4>1. PICK x \in AnyDelta : x = Invert(d, data)
        BY <1>6
      <4> QED BY <1>4, <4>1
    <3>2. PerformPartial(h, data, d, sel) = HistOf(<< e >>, u, r)
      <4>1. PerformPartial(h, data, d, sel)
              = HistOf(<< Entry(Invert(d, data), sel) >>, h.undo, h.redo)
        <5>1. h.partial = << >>
          BY <1>1, <2>1
        <5> QED BY <5>1, PartialStacks, Zenon
      <4> QED BY <1>1, <3>1, <4>1, Zenon
    <3>3. Flagged(<< e >>)
      BY <1>2, <3>1, FlaggedStacks
    <3> QED BY <1>2, <1>3, <3>2, <3>3
  <2>2. CASE p # << >>
    <3>1. PICK e : e = Entry(Chain(Invert(d, data), data, p[1].delta), p[1].sel)
      OBVIOUS
    <3>2. PerformPartial(h, data, d, sel) = HistOf(<< e >>, u, r)
      BY <1>1, <2>2, <3>1, PartialStacks
    <3>3. OneMain(e.sel)
      <4>1. 1 \in 1 .. Len(p)
        BY <2>2, LenProperties, EmptySeq
      <4>2. OneMain(p[1].sel)
        BY <1>2, <4>1 DEF Flagged
      <4> QED BY <3>1, <4>2 DEF Entry
    <3>4. Flagged(<< e >>)
      BY <3>3 DEF Flagged
    <3> QED BY <1>2, <1>3, <3>2, <3>4
  <2> QED BY <2>1, <2>2
<1>9. HistFlagged(CommitPartial(h))
  <2>1. CASE p = << >>
    BY <1>1, <2>1, StackUpdates
  <2>2. CASE p # << >>
    <3>1. CommitPartial(h) = HistOf(<< >>, u \o p, << >>)
      BY <1>1, <2>2, StackUpdates
    <3> QED BY <1>2, <1>3, <3>1, FlaggedStacks
  <2> QED BY <2>1, <2>2
<1>10. ASSUME NEW s \in Seq(Entries), s # << >>, ~ApplyPanics(data, Last(s).delta)
       PROVE  Entry(Invert(Last(s).delta, data), sel) \in Entries
              /\ OneMain(Entry(Invert(Last(s).delta, data), sel).sel)
  <2>1. Last(s).delta \in AnyDelta
    BY <1>10, PoppedEntries, EntryFields
  <2> QED BY <1>4, <1>10, <2>1, LongerFits
<1>11. ASSUME u # << >>, ~ApplyPanics(data, Last(u).delta)
       PROVE  HistFlagged(UndoPop(h, data, sel)) /\ OneMain(Last(u).sel)
  <2>1. PICK e \in Entries : e = Entry(Invert(Last(u).delta, data), sel) /\ OneMain(e.sel)
    BY <1>10, <1>11
  <2>2. UndoPop(h, data, sel) = HistOf(p, Front(u), Append(r, e))
    BY <1>1, <2>1, StackUpdates
  <2> QED BY <1>2, <1>3, <1>11, <2>1, <2>2, FlaggedStacks
<1>12. ASSUME r # << >>, ~ApplyPanics(data, Last(r).delta)
       PROVE  HistFlagged(RedoPop(h, data, sel)) /\ OneMain(Last(r).sel)
  <2>1. PICK e \in Entries : e = Entry(Invert(Last(r).delta, data), sel) /\ OneMain(e.sel)
    BY <1>10, <1>12
  <2>2. RedoPop(h, data, sel) = HistOf(p, Append(u, e), Front(r))
    BY <1>1, <2>1, StackUpdates
  <2> QED BY <1>2, <1>3, <1>12, <2>1, <2>2, FlaggedStacks
<1> QED BY <1>1, <1>7, <1>8, <1>9, <1>11, <1>12

\* Every kind of work keeps one flag.
LEMMA WorksFlagged ==
  ASSUME NEW b \in Bufs, NEW c \in Bufs, BufFlagged(b), Works(b, c), ~c.panic, SparesMain
  PROVE  BufFlagged(c)
<1>1. PICK h \in Hists, data \in Text, sel \in Selections :
        h = b.hist /\ data = b.data /\ sel = b.sel /\ HistFlagged(h) /\ OneMain(sel)
  BY BufFields DEF BufFlagged
<1>2. CASE Rechooses(b, c)
  BY <1>2 DEF Rechooses, Same, Marks, BufFlagged
<1>3. CASE Finals(b, c)
  <2>1. PICK d \in Deltas(Len(data)) : Edited(b, c, d) /\ c.hist = PerformFinal(h, data, d, sel)
    BY <1>1, <1>3 DEF Finals
  <2> QED BY <1>1, <2>1, FlaggedHistory DEF BufFlagged, Edited, Marks
<1>4. CASE Partials(b, c)
  <2>1. PICK d \in Deltas(Len(data)) : Edited(b, c, d) /\ c.hist = PerformPartial(h, data, d, sel)
    BY <1>1, <1>4 DEF Partials
  <2>2. ~ChainPanics(h, data)
    BY <1>1, <1>4 DEF Partials
  <2> QED BY <1>1, <2>1, <2>2, FlaggedHistory DEF BufFlagged, Edited, Marks
<1>5. CASE Commits(b, c)
  BY <1>1, <1>5, FlaggedHistory DEF Commits, BufFlagged
<1>6. CASE Undoes(b, c)
  BY <1>1, <1>6, FlaggedHistory DEF Undoes, Restores, BufFlagged
<1>7. CASE Redoes(b, c)
  BY <1>1, <1>7, FlaggedHistory DEF Redoes, Restores, BufFlagged
<1> QED BY <1>2, <1>3, <1>4, <1>5, <1>6, <1>7 DEF Works

\* Only the main selection carries the main flag, by which the view finds it, as long
\* as no selection is removed by its number that comes before the main one: in
\* src/selection.rs remove flags the region that takes the main one's place in the list
\* and leaves the flag of the old one standing.
THEOREM OnlyMainStaysFlagged ==
  Spec /\ [][SparesMain]_vars => []OnlyMainIsFlagged
<1>1. Init => BufFlagged(buf)
  <2> SUFFICES ASSUME Init PROVE BufFlagged(buf)
    OBVIOUS
  <2>1. Shown(NewBuffer(<< >>), buf)
    BY InitEditor
  <2>2. buf.sel = Cleared /\ buf.hist = HistOf(<< >>, << >>, << >>)
    BY <2>1 DEF Shown, NewBuffer, EmptyHistory, HistOf
  <2>3. OneMain(Cleared)
    BY DEF OneMain, Cleared
  <2>4. HistFlagged(buf.hist)
    BY <2>2, HistOfFields DEF HistFlagged, Flagged
  <2> QED BY <2>2, <2>3, <2>4 DEF BufFlagged
<1>2. EditorInv /\ PromptOK(mode) /\ BufFlagged(buf) /\ [Next]_vars /\ [SparesMain]_vars
        => BufFlagged(buf)'
  <2> SUFFICES ASSUME EditorInv, PromptOK(mode), BufFlagged(buf), [Next]_vars, [SparesMain]_vars
               PROVE  BufFlagged(buf')
    BY DEF BufFlagged, OneMain, HistFlagged, Flagged
  <2>1. EditorInv' /\ Stepped
    BY NextAdvances DEF Advanced
  <2>2. CASE buf' = buf
    BY <2>2
  <2>3. CASE StepsTo(buf') /\ buf' # buf
    <3>1. SparesMain
      BY <2>3 DEF vars
    <3>2. PICK a \in Bufs, c \in Bufs :
                 Shown(buf, a) /\ Works(a, c) /\ ~c.panic /\ Shown(c, buf')
      BY <2>3 DEF StepsTo
    <3>3. BufFlagged(a)
      BY <3>2 DEF BufFlagged, Shown
    <3>4. BufFlagged(c)
      BY <3>1, <3>2, <3>3, WorksFlagged
    <3> QED BY <3>2, <3>4 DEF BufFlagged, Shown
  <2>4. buf' = buf \/ StepsTo(buf')
    BY <2>1 DEF Stepped
  <2> QED BY <2>2, <2>3, <2>4
<1>3. EditorInv /\ BufFlagged(buf) => OnlyMainIsFlagged
  <2> SUFFICES ASSUME EditorInv, BufFlagged(buf) PROVE OnlyMainIsFlagged
    OBVIOUS
  <2>1. PICK s \in Selections : s = buf.sel
    BY BufFields DEF EditorInv
  <2>2. DOMAIN s.regions = 1 .. Len(s.regions)
    BY SelectionFields, LenProperties
  <2> QED BY <2>1, <2>2 DEF OnlyMainIsFlagged, BufFlagged, OneMain, Regs
<1> QED BY <1>1, <1>2, <1>3, EditorInvariant, PromptInvariant, PTL DEF Spec

-----------------------------------------------------------------------------
(* The bytes of an unedited buffer.                                        *)

\* Unedited, the buffer holds the first bytes of the file.
Unedited(b) == ~b.dirty => Starts(b.data)

\* The view and the modes keep that: an edit, an undo and a redo mark the buffer.
LEMMA UneditedSteps ==
  /\ \A b, c : NeverTrims /\ Unedited(b) /\ Shown(b, c) => Unedited(c)
  /\ \A b, c : Unedited(b) /\ Works(b, c) /\ ~c.panic => Unedited(c)
<1>1. \A b, c : NeverTrims /\ Unedited(b) /\ Shown(b, c) => Unedited(c)
  BY DEF Unedited, Shown, Loads
<1>2. ASSUME NEW b, NEW c, Unedited(b), Works(b, c), ~c.panic PROVE Unedited(c)
  <2>1. CASE Rechooses(b, c)
    BY <1>2, <2>1 DEF Rechooses, Same, Unedited
  <2>2. CASE Commits(b, c)
    BY <1>2, <2>2 DEF Commits, Unedited
  <2>3. CASE Finals(b, c) \/ Partials(b, c) \/ Undoes(b, c) \/ Redoes(b, c)
    <3>1. c.dirty = TRUE
      BY <2>3 DEF Finals, Partials, Undoes, Redoes, Edited, Restores
    <3> QED BY <3>1 DEF Unedited
  <2> QED BY <1>2, <2>1, <2>2, <2>3 DEF Works
<1> QED BY <1>1, <1>2

\* As long as nothing is edited, the bytes loaded are the first of the file, whatever
\* was scrolled, resized and selected: load_next_chunk of src/current_buffer.rs reads on
\* from where the last chunk ended.  The file must fit into three screenfuls, so that
\* trim_buffer_top of src/hex_view/view.rs leaves the buffer alone.
THEOREM UneditedStaysFile ==
  ASSUME NeverTrims
  PROVE  Spec => []UneditedIsFile
<1>1. Init => Unedited(buf)
  <2> SUFFICES ASSUME Init PROVE Unedited(buf)
    OBVIOUS
  <2>1. PICK b : b = NewBuffer(<< >>) /\ Shown(b, buf)
    BY InitEditor
  <2>2. b.data = << >>
    BY <2>1 DEF NewBuffer
  <2>3. Starts(<< >>)
    <3>1. PICK one \in Int, zero \in Int : one = 1 /\ zero = 0 /\ zero < one
      OBVIOUS
    <3>2. SubSeq(File, one, zero) = << >>
      BY <3>1, SubSeqEmpty
    <3>3. Len(File) \in Nat /\ Len(<< >>) = 0
      BY ViewAssumption, LenProperties
    <3>4. Len(<< >>) <= Len(File)
      BY <3>3
    <3> QED BY <3>1, <3>2, <3>3, <3>4 DEF Starts
  <2> QED BY <2>1, <2>2, <2>3, UneditedSteps DEF Unedited
<1>2. EditorInv /\ PromptOK(mode) /\ Unedited(buf) /\ [Next]_vars => Unedited(buf)'
  <2> SUFFICES ASSUME EditorInv, PromptOK(mode), Unedited(buf), [Next]_vars PROVE Unedited(buf')
    BY DEF Unedited, Starts
  <2>1. Stepped
    BY NextAdvances DEF Advanced
  <2>2. CASE StepsTo(buf')
    <3>1. PICK a \in Bufs, c \in Bufs :
                 Shown(buf, a) /\ Works(a, c) /\ ~c.panic /\ Shown(c, buf')
      BY <2>2 DEF StepsTo
    <3>2. Unedited(a)
      BY <3>1, UneditedSteps
    <3>3. Unedited(c)
      BY <3>1, <3>2, UneditedSteps
    <3> QED BY <3>1, <3>3, UneditedSteps
  <2> QED BY <2>1, <2>2 DEF Stepped
<1>3. Unedited(buf) => UneditedIsFile
  BY DEF Unedited, UneditedIsFile, Starts, Size
<1> QED BY <1>1, <1>2, <1>3, EditorInvariant, PromptInvariant, PTL DEF Spec

-----------------------------------------------------------------------------
(* The versions a stack of entries leads through.                          *)

\* What an entry does when its turn comes, as module UndoHistory writes it.
Move(from, to, sel) == [from |-> from, to |-> to, sel |-> sel]
Moves == [from : Text, to : Text, sel : Selections]

\* The selection lies within n bytes, if J says that every selection is to.
Lies(J, sel, n) == J => Inside(sel, n)

\* From the version from on, newest entry first, the deltas of the stack do the moves E,
\* each of them to a version that the selection restored with it lies within.  Each delta
\* is synthesised from a union string of the version it starts from, so that inverting it
\* twice gives it back (InvertTwice).
Replays(J, stack, from, E) ==
  /\ E \in Seq(Moves)
  /\ Len(E) = Len(stack)
  /\ \A k \in 1 .. Len(stack) :
       /\ E[k].sel = stack[k].sel
       /\ E[k].from = IF k = Len(stack) THEN from ELSE E[k + 1].to
       /\ stack[k].delta \in Deltas(Len(E[k].from)) /\ MadeFrom(stack[k].delta, E[k].from)
       /\ E[k].to = ApplyDelta(E[k].from, stack[k].delta)
       /\ Lies(J, E[k].sel, Len(E[k].to))

\* Moves put together and taken apart.
LEMMA MoveFields ==
  /\ \A f \in Text, t \in Text, s \in Selections : Move(f, t, s) \in Moves
  /\ \A f, t, s : Move(f, t, s).from = f /\ Move(f, t, s).to = t /\ Move(f, t, s).sel = s
  /\ \A e \in Moves : /\ e.from \in Text /\ e.to \in Text /\ e.sel \in Selections
                      /\ e = Move(e.from, e.to, e.sel)
BY DEF Move, Moves

\* The moves a stack does are the entries the refinement takes it for.
LEMMA ReplaysEntries ==
  ASSUME NEW J, NEW s \in Seq(Entries), NEW from, NEW E, Replays(J, s, from, E)
  PROVE  AsEntries(s, from) = E
<1>1. PICK n \in Nat : n = Len(s) /\ E \in Seq(Moves) /\ Len(E) = n
  BY LenProperties DEF Replays
<1> DEFINE F == CHOOSE h : h = [k \in 1 .. n |->
                                  ApplyDelta(IF k = n THEN from ELSE h[k + 1], s[k].delta)]
           g == [k \in 1 .. n |-> E[k].to]
<1>2. Reached(s, from) = F
  <2>1. Reached(s, from)
          = CHOOSE h : h = [k \in 1 .. Len(s) |->
                              ApplyDelta(IF k = Len(s) THEN from ELSE h[k + 1], s[k].delta)]
    BY DEF Reached
  <2> QED BY <1>1, <2>1
<1>3. ASSUME NEW k \in 1 .. n
      PROVE  /\ E[k] \in Moves /\ E[k].sel = s[k].sel
             /\ E[k].from = (IF k = n THEN from ELSE E[k + 1].to)
             /\ E[k].to = ApplyDelta(IF k = n THEN from ELSE E[k + 1].to, s[k].delta)
  <2>1. E[k] \in Moves
    BY <1>1, ElementOfSeq
  <2>2. /\ E[k].sel = s[k].sel /\ E[k].from = (IF k = n THEN from ELSE E[k + 1].to)
        /\ E[k].to = ApplyDelta(E[k].from, s[k].delta)
    BY <1>1 DEF Replays
  <2> QED BY <2>1, <2>2
<1>4. ASSUME NEW k \in 1 .. n, k # n PROVE k + 1 \in 1 .. n
  BY <1>4
<1>5. g = [k \in 1 .. n |-> ApplyDelta(IF k = n THEN from ELSE g[k + 1], s[k].delta)]
  <2> SUFFICES ASSUME NEW k \in 1 .. n
               PROVE  g[k] = ApplyDelta(IF k = n THEN from ELSE g[k + 1], s[k].delta)
    OBVIOUS
  <2>1. g[k] = E[k].to /\ (k # n => g[k + 1] = E[k + 1].to)
    BY <1>4
  <2> HIDE DEF g
  <2> QED BY <1>3, <2>1
<1>6. F = [k \in 1 .. n |-> ApplyDelta(IF k = n THEN from ELSE F[k + 1], s[k].delta)]
  <2> HIDE DEF g
  <2> QED BY <1>5
<1>7. \A k \in 1 .. n : F[k] = E[k].to
  <2> HIDE DEF F, g
  <2> DEFINE S == {i \in 0 .. n : i < n => F[n - i] = E[n - i].to}
  <2>1. ASSUME NEW k \in 1 .. n, k # n => F[k + 1] = E[k + 1].to PROVE F[k] = E[k].to
    <3>1. F[k] = ApplyDelta(IF k = n THEN from ELSE F[k + 1], s[k].delta)
      BY <1>6
    <3> QED BY <1>3, <2>1, <3>1
  <2>2. 0 \in S
    <3>1. n # 0 => n \in 1 .. n /\ n - 0 = n
      OBVIOUS
    <3> QED BY <2>1, <3>1
  <2>3. ASSUME NEW i \in 0 .. n - 1, i \in S PROVE i + 1 \in S
    <3>1. CASE i + 1 = n
      BY <3>1
    <3>2. CASE i + 1 < n
      <4>1. PICK k \in 1 .. n : k = n - (i + 1) /\ k + 1 = n - i
        BY <3>2
      <4>2. F[k + 1] = E[k + 1].to
        BY <2>3, <3>2, <4>1
      <4>3. F[k] = E[k].to
        BY <2>1, <4>2
      <4> QED BY <3>2, <4>1, <4>3
    <3> QED BY <3>1, <3>2
  <2>4. \A i \in 0 .. n : i \in S
    <3> HIDE DEF S
    <3> QED BY <2>2, <2>3, Induction
  <2>5. ASSUME NEW k \in 1 .. n PROVE F[k] = E[k].to
    <3>1. n - k \in 0 .. n /\ n - k < n /\ n - (n - k) = k
      OBVIOUS
    <3> QED BY <2>4, <3>1
  <2> QED BY <2>5
<1> HIDE DEF F, g
<1>8. AsEntries(s, from)
        = [k \in 1 .. n |-> [from |-> IF k = n THEN from ELSE F[k + 1],
                             to |-> F[k], sel |-> s[k].sel]]
  BY <1>1, <1>2, Zenon DEF AsEntries
<1>9. ASSUME NEW k \in 1 .. n
      PROVE  [from |-> IF k = n THEN from ELSE F[k + 1], to |-> F[k], sel |-> s[k].sel] = E[k]
  <2>1. (IF k = n THEN from ELSE F[k + 1]) = E[k].from
    BY <1>3, <1>4, <1>7
  <2>2. F[k] = E[k].to /\ s[k].sel = E[k].sel /\ E[k] \in Moves
    BY <1>3, <1>7
  <2> QED BY <2>1, <2>2 DEF Moves
<1>10. E = [k \in 1 .. n |-> E[k]]
  BY <1>1
<1> QED BY <1>8, <1>9, <1>10

\* An entry put on a stack, and one taken off.
LEMMA ReplaysOn ==
  ASSUME NEW J, NEW s \in Seq(Entries), NEW from \in Text, NEW E, Replays(J, s, from, E)
  PROVE  \A x \in Text : \A e \in Entries :
           /\ e.delta \in Deltas(Len(x)) /\ MadeFrom(e.delta, x)
           /\ ApplyDelta(x, e.delta) = from /\ Lies(J, e.sel, Len(from))
          => Replays(J, Append(s, e), x, Append(E, Move(x, from, e.sel)))
<1> SUFFICES ASSUME NEW x \in Text, NEW e \in Entries, e.delta \in Deltas(Len(x)),
                    MadeFrom(e.delta, x), ApplyDelta(x, e.delta) = from, Lies(J, e.sel, Len(from))
             PROVE  Replays(J, Append(s, e), x, Append(E, Move(x, from, e.sel)))
  OBVIOUS
<1>1. PICK n \in Nat : n = Len(s) /\ E \in Seq(Moves) /\ Len(E) = n
  BY LenProperties DEF Replays
<1>2. PICK m \in Moves : m = Move(x, from, e.sel) /\ m.from = x /\ m.to = from /\ m.sel = e.sel
  BY MoveFields, EntryFields
<1>3. PICK t, D : t = Append(s, e) /\ D = Append(E, m)
  OBVIOUS
<1>4. Len(t) = n + 1 /\ t[n + 1] = e /\ \A k \in 1 .. n : t[k] = s[k]
  BY <1>1, <1>3, StackEnds
<1>5. D \in Seq(Moves) /\ Len(D) = n + 1 /\ D[n + 1] = m /\ \A k \in 1 .. n : D[k] = E[k]
  BY <1>1, <1>3, AppendProperties
<1>6. ASSUME NEW k \in 1 .. n + 1
      PROVE  /\ D[k].sel = t[k].sel
             /\ D[k].from = IF k = n + 1 THEN x ELSE D[k + 1].to
             /\ t[k].delta \in Deltas(Len(D[k].from)) /\ MadeFrom(t[k].delta, D[k].from)
             /\ D[k].to = ApplyDelta(D[k].from, t[k].delta)
             /\ Lies(J, D[k].sel, Len(D[k].to))
  <2>1. CASE k = n + 1
    BY <1>2, <1>4, <1>5, <2>1
  <2>2. CASE k # n + 1
    <3>1. k \in 1 .. n /\ D[k] = E[k] /\ t[k] = s[k]
      BY <1>4, <1>5, <2>2
    <3>2. /\ E[k].sel = s[k].sel
          /\ E[k].from = (IF k = n THEN from ELSE E[k + 1].to)
          /\ s[k].delta \in Deltas(Len(E[k].from)) /\ MadeFrom(s[k].delta, E[k].from)
          /\ E[k].to = ApplyDelta(E[k].from, s[k].delta)
          /\ Lies(J, E[k].sel, Len(E[k].to))
      BY <1>1, <3>1 DEF Replays
    <3>3. E[k].from = D[k + 1].to
      <4>1. CASE k = n
        BY <1>2, <1>5, <3>2, <4>1
      <4>2. CASE k # n
        <5>1. k + 1 \in 1 .. n
          BY <3>1, <4>2
        <5> QED BY <1>5, <3>2, <4>2, <5>1
      <4> QED BY <4>1, <4>2
    <3> QED BY <2>2, <3>1, <3>2, <3>3
  <2> QED BY <2>1, <2>2
<1>7. Replays(J, t, x, D)
  BY <1>4, <1>5, <1>6 DEF Replays
<1> QED BY <1>2, <1>3, <1>7

\* The moves without the newest one, as module UndoHistory writes it.
Older(E) == [k \in 1 .. Len(E) - 1 |-> E[k]]

LEMMA ReplaysBack ==
  ASSUME NEW J, NEW s \in Seq(Entries), s # << >>, NEW from \in Text, NEW E,
         Replays(J, s, from, E)
  PROVE  /\ Last(s).delta \in Deltas(Len(from)) /\ MadeFrom(Last(s).delta, from)
         /\ E # << >> /\ Len(E) \in Nat
         /\ E[Len(E)] = Move(from, ApplyDelta(from, Last(s).delta), Last(s).sel)
         /\ Lies(J, Last(s).sel, Len(ApplyDelta(from, Last(s).delta)))
         /\ Replays(J, Front(s), ApplyDelta(from, Last(s).delta), Older(E))
<1>1. PICK n \in Nat : n = Len(s) /\ E \in Seq(Moves) /\ Len(E) = n
  BY LenProperties DEF Replays
<1>2. PICK t, D : t = Front(s) /\ D = Older(E)
  OBVIOUS
<1>3. /\ n - 1 \in Nat /\ Len(t) = n - 1 /\ \A k \in 1 .. n - 1 : t[k] = s[k]
      /\ Last(s) = s[n] /\ n \in 1 .. n
  BY <1>1, <1>2, StackEnds
<1>4. \A k \in 1 .. n : E[k] \in Moves
  BY <1>1, ElementOfSeq
<1>5. D \in Seq(Moves) /\ Len(D) = n - 1 /\ \A k \in 1 .. n - 1 : D[k] = E[k]
  <2>1. D = [k \in 1 .. n - 1 |-> E[k]]
    BY <1>1, <1>2 DEF Older
  <2>2. \A k \in 1 .. n - 1 : E[k] \in Moves
    BY <1>4
  <2>3. D \in [1 .. n - 1 -> Moves]
    BY <2>1, <2>2
  <2>4. D \in Seq(Moves)
    BY <1>3, <2>3
  <2>5. Len(D) = n - 1
    BY <1>3, <2>3, <2>4, LenProperties
  <2> QED BY <2>1, <2>4, <2>5
<1>6. ASSUME NEW k \in 1 .. n
      PROVE  /\ E[k].sel = s[k].sel
             /\ E[k].from = (IF k = n THEN from ELSE E[k + 1].to)
             /\ s[k].delta \in Deltas(Len(E[k].from)) /\ MadeFrom(s[k].delta, E[k].from)
             /\ E[k].to = ApplyDelta(E[k].from, s[k].delta)
             /\ Lies(J, E[k].sel, Len(E[k].to))
  BY <1>1 DEF Replays
<1>7. PICK to : to = ApplyDelta(from, Last(s).delta)
  OBVIOUS
<1>8. /\ E[n].from = from /\ E[n].to = to /\ E[n].sel = Last(s).sel
      /\ Last(s).delta \in Deltas(Len(from)) /\ Lies(J, Last(s).sel, Len(to))
      /\ MadeFrom(Last(s).delta, from)
  BY <1>3, <1>6, <1>7
<1>9. E[n] = Move(from, to, Last(s).sel)
  BY <1>3, <1>4, <1>8, MoveFields
<1>10. ASSUME NEW k \in 1 .. n - 1
       PROVE  /\ D[k].sel = t[k].sel
              /\ D[k].from = IF k = n - 1 THEN to ELSE D[k + 1].to
              /\ t[k].delta \in Deltas(Len(D[k].from)) /\ MadeFrom(t[k].delta, D[k].from)
              /\ D[k].to = ApplyDelta(D[k].from, t[k].delta)
              /\ Lies(J, D[k].sel, Len(D[k].to))
  <2>1. k \in 1 .. n /\ k # n /\ D[k] = E[k] /\ t[k] = s[k]
    BY <1>3, <1>5
  <2>2. E[k].from = IF k = n - 1 THEN to ELSE D[k + 1].to
    <3>1. CASE k = n - 1
      <4>1. k + 1 = n
        BY <3>1
      <4> QED BY <1>6, <1>8, <2>1, <3>1, <4>1
    <3>2. CASE k # n - 1
      <4>1. k + 1 \in 1 .. n - 1
        BY <3>2
      <4> QED BY <1>5, <1>6, <2>1, <3>2, <4>1
    <3> QED BY <3>1, <3>2
  <2> QED BY <1>6, <2>1, <2>2
<1>11. Replays(J, t, to, D)
  BY <1>3, <1>5, <1>10 DEF Replays
<1>12. E # << >>
  BY <1>1, <1>3, EmptySeq
<1> QED BY <1>1, <1>2, <1>7, <1>8, <1>9, <1>11, <1>12

\* A stack without entries leads nowhere, and one with a single entry to one version.
LEMMA ReplaysFew ==
  /\ \A J, from : Replays(J, << >>, from, << >>)
  /\ \A J : \A from \in Text : \A e \in Entries :
       /\ e.delta \in Deltas(Len(from)) /\ MadeFrom(e.delta, from)
       /\ Lies(J, e.sel, Len(ApplyDelta(from, e.delta)))
      => Replays(J, << e >>, from, << Move(from, ApplyDelta(from, e.delta), e.sel) >>)
<1>1. \A J, from : Replays(J, << >>, from, << >>)
  BY DEF Replays
<1>2. ASSUME NEW J, NEW from \in Text, NEW e \in Entries, e.delta \in Deltas(Len(from)),
             MadeFrom(e.delta, from), Lies(J, e.sel, Len(ApplyDelta(from, e.delta)))
      PROVE  Replays(J, << e >>, from, << Move(from, ApplyDelta(from, e.delta), e.sel) >>)
  <2>1. PICK to \in Text : to = ApplyDelta(from, e.delta)
    BY <1>2, ApplyType
  <2>2. PICK m \in Moves : m = Move(from, to, e.sel) /\ m.from = from /\ m.to = to /\ m.sel = e.sel
    BY MoveFields, EntryFields
  <2>3. Replays(J, << e >>, from, << m >>)
    BY <1>2, <2>1, <2>2 DEF Replays
  <2> QED BY <2>1, <2>2, <2>3
<1> QED BY <1>1, <1>2

-----------------------------------------------------------------------------
(* The versions of a buffer, as the operations of History change them.     *)

\* The version the stacks hang on: the bytes, or what an open insertion started from.
Rest(p, data) == IF p = << >> THEN data ELSE ApplyDelta(data, p[1].delta)

\* The open insertion, the undo and the redo stack do the moves P, U and R.
Traces(J, h, data, P, U, R) ==
  /\ Len(h.partial) <= 1
  /\ Replays(J, h.partial, data, P)
  /\ Replays(J, h.undo, Rest(h.partial, data), U)
  /\ Replays(J, h.redo, Rest(h.partial, data), R)

\* A history put together of stacks that do given moves.
LEMMA TracesOf ==
  ASSUME NEW J, NEW data,
         NEW p, NEW P, Len(p) <= 1, Replays(J, p, data, P),
         NEW u, NEW U, Replays(J, u, Rest(p, data), U),
         NEW r, NEW R, Replays(J, r, Rest(p, data), R)
  PROVE  Traces(J, HistOf(p, u, r), data, P, U, R)
BY HistOfFields DEF Traces

\* The parts of a history and their moves.
LEMMA TracesFields ==
  ASSUME NEW J, NEW h \in Hists, NEW data \in Text, NEW P, NEW U, NEW R,
         Traces(J, h, data, P, U, R)
  PROVE  /\ h.partial = << >> => /\ P = << >> /\ Rest(h.partial, data) = data
                                 /\ Replays(J, h.undo, data, U) /\ Replays(J, h.redo, data, R)
         /\ h.partial # << >> =>
              /\ h.partial = << h.partial[1] >> /\ h.partial[1] \in Entries
              /\ h.partial[1].delta \in Deltas(Len(data))
              /\ MadeFrom(h.partial[1].delta, data)
              /\ P = << Move(data, Rest(h.partial, data), h.partial[1].sel) >>
              /\ Lies(J, h.partial[1].sel, Len(Rest(h.partial, data)))
         /\ Rest(h.partial, data) \in Text
<1>1. PICK q \in Seq(Entries), n \in Nat : q = h.partial /\ n = Len(q)
  BY HistFields, LenProperties
<1>2. Replays(J, q, data, P) /\ P \in Seq(Moves) /\ Len(P) = n
  BY <1>1 DEF Traces, Replays
<1>5. n <= 1
  BY <1>1 DEF Traces
<1>3. ASSUME q = << >>
      PROVE  /\ P = << >> /\ Rest(q, data) = data
             /\ Replays(J, h.undo, data, U) /\ Replays(J, h.redo, data, R)
  <2>1. P = << >>
    BY <1>1, <1>2, <1>3, EmptySeq
  <2>2. Rest(q, data) = data
    BY <1>3 DEF Rest
  <2> QED BY <1>1, <2>1, <2>2 DEF Traces
<1>4. ASSUME q # << >>
      PROVE  /\ q = << q[1] >> /\ q[1] \in Entries /\ q[1].delta \in Deltas(Len(data))
             /\ P = << Move(data, Rest(q, data), q[1].sel) >> /\ MadeFrom(q[1].delta, data)
             /\ Lies(J, q[1].sel, Len(Rest(q, data))) /\ Rest(q, data) \in Text
  <2>1. n = 1
    <3>1. Len(q) # 0
      BY <1>4, EmptySeq
    <3>2. n # 0
      BY <1>1, <3>1, Zenon
    <3> QED BY <1>5, <3>2
  <2>2. PICK e \in Entries : e = q[1] /\ q = << e >>
    <3>1. q[1] \in Entries
      <4>1. \A j \in 1 .. Len(q) : q[j] \in Entries
        BY ElementOfSeq
      <4> QED BY <1>1, <2>1, <4>1
    <3>2. Len(q) = 1
      BY <1>1, <2>1, Zenon
    <3>3. q = << q[1] >>
      BY <3>1, <3>2
    <3> QED BY <3>1, <3>3
  <2>3. PICK m \in Moves : m = P[1] /\ P = << m >>
    <3>1. P \in Seq(Moves) /\ Len(P) = 1
      BY <1>2, <2>1
    <3>2. \A j \in 1 .. Len(P) : P[j] \in Moves
      BY <3>1, ElementOfSeq
    <3>3. P[1] \in Moves
      BY <3>1, <3>2
    <3>4. P = << P[1] >>
      BY <3>1, <3>3
    <3> QED BY <3>3, <3>4
  <2>4. /\ m.sel = e.sel /\ m.from = data /\ e.delta \in Deltas(Len(data))
        /\ m.to = ApplyDelta(data, e.delta) /\ Lies(J, e.sel, Len(m.to))
        /\ MadeFrom(e.delta, data)
    <3>1. 1 \in 1 .. Len(q) /\ Len(q) = 1
      BY <1>1, <2>1
    <3>2. /\ P[1].sel = q[1].sel /\ P[1].from = data /\ q[1].delta \in Deltas(Len(P[1].from))
          /\ P[1].to = ApplyDelta(P[1].from, q[1].delta) /\ Lies(J, P[1].sel, Len(P[1].to))
          /\ MadeFrom(q[1].delta, P[1].from)
      BY <1>2, <3>1 DEF Replays
    <3> QED BY <2>2, <2>3, <3>2
  <2>5. Rest(q, data) = m.to
    BY <1>4, <2>2, <2>4 DEF Rest
  <2>6. m.to \in Text /\ m = Move(m.from, m.to, m.sel)
    BY MoveFields
  <2> QED BY <2>2, <2>3, <2>4, <2>5, <2>6
<1> QED BY <1>1, <1>3, <1>4

\* History::perform_final: the entry leads back from the outcome.
LEMMA FinalTraces ==
  ASSUME NEW J, NEW h \in Hists, NEW data \in Text,
         NEW sel \in Selections, Lies(J, sel, Len(data)),
         NEW P, NEW U, NEW R, Traces(J, h, data, P, U, R), h.partial = << >>,
         NEW d \in Deltas(Len(data))
  PROVE  Traces(J, PerformFinal(h, data, d, sel), ApplyDelta(data, d), << >>,
                Append(U, Move(ApplyDelta(data, d), data, sel)), << >>)
<1>1. PICK to \in Text : to = ApplyDelta(data, d)
  BY ApplyType
<1>2. PICK x : /\ x = Invert(d, data) /\ x \in Deltas(Len(to)) /\ ApplyDelta(to, x) = data
               /\ MadeFrom(x, to)
  BY <1>1, InvertUndoes
<1>3. PICK e \in Entries : e = Entry(x, sel) /\ e.delta = x /\ e.sel = sel
  <2>1. x \in AnyDelta
    BY <1>2, AnyDeltaOf, TextElements
  <2> QED BY <2>1, EntryFields DEF Entry
<1>4. PICK u \in Seq(Entries) : u = h.undo /\ Replays(J, u, data, U)
  BY TracesFields, HistFields
<1>5. Replays(J, Append(u, e), to, Append(U, Move(to, data, sel)))
  BY <1>2, <1>3, <1>4, ReplaysOn
<1>6. PerformFinal(h, data, d, sel) = HistOf(<< >>, Append(u, e), << >>)
  <2>1. PerformFinal(h, data, d, sel)
          = HistOf(h.partial, Append(h.undo, Entry(Invert(d, data), sel)), << >>)
    BY FinalStacks
  <2> QED BY <1>2, <1>3, <1>4, <2>1, Zenon
<1>7. Rest(<< >>, to) = to /\ Len(<< >>) <= 1 /\ Replays(J, << >>, to, << >>)
  BY ReplaysFew DEF Rest
<1>8. Traces(J, HistOf(<< >>, Append(u, e), << >>), to, << >>,
             Append(U, Move(to, data, sel)), << >>)
  BY <1>5, <1>7, TracesOf
<1> QED BY <1>1, <1>6, <1>8

\* History::perform_partial: the entry of the open insertion leads back from the outcome
\* to what the insertion started from, with the selection from there.
LEMMA PartialTraces ==
  ASSUME NEW J, NEW h \in Hists, NEW data \in Text,
         NEW sel \in Selections, Lies(J, sel, Len(data)),
         NEW P, NEW U, NEW R, Traces(J, h, data, P, U, R),
         NEW d \in Deltas(Len(data)), NEW to, to = ApplyDelta(data, d)
  PROVE  /\ h.partial = << >> =>
              Traces(J, PerformPartial(h, data, d, sel), to, << Move(to, data, sel) >>, U, R)
         /\ h.partial # << >> =>
              Traces(J, PerformPartial(h, data, d, sel), to, << Move(to, P[1].to, P[1].sel) >>, U, R)
<1>1. to \in Text
  BY ApplyType
<1>2. PICK x : /\ x = Invert(d, data) /\ x \in Deltas(Len(to)) /\ ApplyDelta(to, x) = data
               /\ MadeFrom(x, to)
  BY InvertUndoes
<1>3. PICK u, r, z : u = h.undo /\ r = h.redo /\ z = Rest(h.partial, data)
                     /\ Replays(J, u, z, U) /\ Replays(J, r, z, R) /\ z \in Text
  BY TracesFields DEF Traces
<1>4. ASSUME NEW y \in Deltas(Len(to)), NEW s \in Selections, ApplyDelta(to, y) = z,
             MadeFrom(y, to), Lies(J, s, Len(z)),
             PerformPartial(h, data, d, sel) = HistOf(<< Entry(y, s) >>, u, r)
      PROVE  Traces(J, PerformPartial(h, data, d, sel), to, << Move(to, z, s) >>, U, R)
  <2>1. PICK e \in Entries : e = Entry(y, s) /\ e.delta = y /\ e.sel = s
    <3>1. y \in AnyDelta
      BY <1>1, AnyDeltaOf, TextElements
    <3> QED BY <3>1, EntryFields DEF Entry
  <2>2. PICK p : p = << e >> /\ Len(p) <= 1 /\ p[1] = e /\ p # << >>
    <3>1. Len(<< e >>) <= 1 /\ << e >>[1] = e /\ << e >> # << >>
      OBVIOUS
    <3> QED BY <3>1
  <2>3. Rest(p, to) = z
    BY <1>4, <2>1, <2>2 DEF Rest
  <2>4. Replays(J, p, to, << Move(to, z, s) >>)
    BY <1>1, <1>4, <2>1, <2>2, ReplaysFew
  <2>5. Traces(J, HistOf(p, u, r), to, << Move(to, z, s) >>, U, R)
    BY <1>3, <2>2, <2>3, <2>4, TracesOf
  <2> QED BY <1>4, <2>1, <2>2, <2>5
<1>5. ASSUME h.partial = << >>
      PROVE  Traces(J, PerformPartial(h, data, d, sel), to, << Move(to, data, sel) >>, U, R)
  <2>1. z = data
    BY <1>3, <1>5 DEF Rest
  <2>2. PerformPartial(h, data, d, sel) = HistOf(<< Entry(Invert(d, data), sel) >>, h.undo, h.redo)
    BY <1>5, PartialStacks
  <2>3. PerformPartial(h, data, d, sel) = HistOf(<< Entry(x, sel) >>, u, r)
    BY <1>2, <1>3, <2>2, Zenon
  <2> QED BY <1>2, <1>4, <2>1, <2>3
<1>6. ASSUME h.partial # << >>
      PROVE  Traces(J, PerformPartial(h, data, d, sel), to, << Move(to, P[1].to, P[1].sel) >>, U, R)
  <2>1. PICK e \in Entries : /\ e = h.partial[1] /\ e.delta \in Deltas(Len(data))
                             /\ P = << Move(data, z, e.sel) >> /\ Lies(J, e.sel, Len(z))
    BY <1>3, <1>6, TracesFields
  <2>2. z = ApplyDelta(data, e.delta)
    BY <1>3, <1>6, <2>1 DEF Rest
  <2>3. P[1].to = z /\ P[1].sel = e.sel /\ e.sel \in Selections
    BY <2>1, MoveFields, EntryFields
  <2>4. PICK y : /\ y = Chain(x, data, e.delta) /\ y \in Deltas(Len(to))
                 /\ ApplyDelta(to, y) = z /\ MadeFrom(y, to)
    <3>1. /\ Chain(x, data, e.delta) \in Deltas(Len(to))
          /\ ApplyDelta(to, Chain(x, data, e.delta)) = ApplyDelta(data, e.delta)
          /\ MadeFrom(Chain(x, data, e.delta), to)
      <4>1. /\ to \in Text /\ x \in Deltas(Len(to)) /\ data = ApplyDelta(to, x)
            /\ e.delta \in Deltas(Len(data))
        BY <1>1, <1>2, <2>1
      <4> HIDE DEF Deltas
      <4> QED BY ONLY <4>1, ChainApplies
    <3> QED BY <2>2, <3>1
  <2>5. PerformPartial(h, data, d, sel)
          = HistOf(<< Entry(Chain(Invert(d, data), data, h.partial[1].delta),
                            h.partial[1].sel) >>, h.undo, h.redo)
    BY <1>6, PartialStacks
  <2>6. PerformPartial(h, data, d, sel) = HistOf(<< Entry(y, e.sel) >>, u, r)
    BY <1>2, <1>3, <2>1, <2>4, <2>5, Zenon
  <2>7. Traces(J, PerformPartial(h, data, d, sel), to, << Move(to, z, e.sel) >>, U, R)
    BY <1>4, <2>1, <2>3, <2>4, <2>6
  <2> QED BY <2>3, <2>7
<1> QED BY <1>5, <1>6

\* History::commit_partial: the open insertion becomes the newest entry.
LEMMA CommitTraces ==
  ASSUME NEW J, NEW h \in Hists, NEW data \in Text, NEW P, NEW U, NEW R,
         Traces(J, h, data, P, U, R),
         h.partial # << >>
  PROVE  Traces(J, CommitPartial(h), data, << >>, Append(U, P[1]), << >>)
<1>1. PICK e \in Entries, z \in Text :
        /\ h.partial = << e >> /\ e.delta \in Deltas(Len(data)) /\ z = Rest(h.partial, data)
        /\ P = << Move(data, z, e.sel) >> /\ Lies(J, e.sel, Len(z))
        /\ MadeFrom(e.delta, data)
  BY TracesFields
<1>2. P[1] = Move(data, z, e.sel) /\ z = ApplyDelta(data, e.delta)
  <2>1. << e >>[1] = e /\ << e >> # << >>
    OBVIOUS
  <2> QED BY <1>1, <2>1 DEF Rest
<1>3. PICK u \in Seq(Entries) : u = h.undo /\ Replays(J, u, z, U)
  BY <1>1, HistFields DEF Traces
<1>4. Replays(J, Append(u, e), data, Append(U, P[1]))
  BY <1>1, <1>2, <1>3, ReplaysOn
<1>5. CommitPartial(h) = HistOf(<< >>, Append(u, e), << >>)
  <2>1. CommitPartial(h) = HistOf(<< >>, h.undo \o h.partial, << >>)
    BY StackUpdates
  <2>2. u \o << e >> = Append(u, e)
    BY AppendIsConcat
  <2> QED BY <1>1, <1>3, <2>1, <2>2
<1>6. Rest(<< >>, data) = data /\ Len(<< >>) <= 1 /\ Replays(J, << >>, data, << >>)
  BY ReplaysFew DEF Rest
<1> QED BY <1>4, <1>5, <1>6, TracesOf

\* The entry that leads back from where an entry was applied.
LEMMA InverseLeadsBack ==
  ASSUME NEW J, NEW s \in Seq(Entries), s # << >>, NEW data \in Text,
         NEW E, Replays(J, s, data, E),
         NEW t \in Seq(Entries), NEW D, Replays(J, t, data, D),
         NEW sel \in Selections, Lies(J, sel, Len(data)),
         NEW to, to = ApplyDelta(data, Last(s).delta)
  PROVE  /\ to \in Text
         /\ Replays(J, Front(s), to, Older(E))
         /\ Replays(J, Append(t, Entry(Invert(Last(s).delta, data), sel)), to,
                    Append(D, Move(to, data, sel)))
<1>1. PICK d : d = Last(s).delta /\ d \in Deltas(Len(data)) /\ Replays(J, Front(s), to, Older(E))
  BY ReplaysBack
<1>2. to \in Text
  BY <1>1, ApplyType
<1>3. PICK x : /\ x = Invert(d, data) /\ x \in Deltas(Len(to)) /\ ApplyDelta(to, x) = data
               /\ MadeFrom(x, to)
  BY <1>1, InvertUndoes
<1>4. PICK e \in Entries : e = Entry(x, sel) /\ e.delta = x /\ e.sel = sel
  <2>1. x \in AnyDelta
    BY <1>2, <1>3, AnyDeltaOf, TextElements
  <2> QED BY <2>1, EntryFields DEF Entry
<1>5. Replays(J, Append(t, e), to, Append(D, Move(to, data, sel)))
  BY <1>2, <1>3, <1>4, ReplaysOn
<1> QED BY <1>1, <1>2, <1>3, <1>4, <1>5

\* History::undo and redo: the newest entry of one stack is followed, and the one that
\* leads back goes on the other.
LEMMA UndoTraces ==
  ASSUME NEW J, NEW h \in Hists, NEW data \in Text,
         NEW sel \in Selections, Lies(J, sel, Len(data)),
         NEW P, NEW U, NEW R, Traces(J, h, data, P, U, R), h.partial = << >>, h.undo # << >>,
         NEW e, e = Last(h.undo), NEW to, to = ApplyDelta(data, e.delta)
  PROVE  /\ U # << >> /\ U[Len(U)] = Move(data, to, e.sel) /\ Lies(J, e.sel, Len(to))
         /\ Traces(J, UndoPop(h, data, sel), to, << >>, Older(U), Append(R, Move(to, data, sel)))
<1>1. PICK u \in Seq(Entries), r \in Seq(Entries) :
        u = h.undo /\ r = h.redo /\ Replays(J, u, data, U) /\ Replays(J, r, data, R)
  BY TracesFields, HistFields
<1>2. U # << >> /\ U[Len(U)] = Move(data, to, e.sel) /\ Lies(J, e.sel, Len(to))
  BY <1>1, ReplaysBack
<1>3. PICK v, w : v = Front(u) /\ w = Append(r, Entry(Invert(Last(u).delta, data), sel))
  OBVIOUS
<1>4. Replays(J, v, to, Older(U)) /\ Replays(J, w, to, Append(R, Move(to, data, sel)))
  BY <1>1, <1>3, InverseLeadsBack
<1>5. UndoPop(h, data, sel) = HistOf(<< >>, v, w)
  BY <1>1, <1>3, StackUpdates
<1>6. Rest(<< >>, to) = to /\ Len(<< >>) <= 1 /\ Replays(J, << >>, to, << >>)
  BY ReplaysFew DEF Rest
<1> QED BY <1>2, <1>4, <1>5, <1>6, TracesOf

\* The same for redo.
LEMMA RedoTraces ==
  ASSUME NEW J, NEW h \in Hists, NEW data \in Text,
         NEW sel \in Selections, Lies(J, sel, Len(data)),
         NEW P, NEW U, NEW R, Traces(J, h, data, P, U, R), h.partial = << >>, h.redo # << >>,
         NEW e, e = Last(h.redo), NEW to, to = ApplyDelta(data, e.delta)
  PROVE  /\ R # << >> /\ R[Len(R)] = Move(data, to, e.sel) /\ Lies(J, e.sel, Len(to))
         /\ Traces(J, RedoPop(h, data, sel), to, << >>, Append(U, Move(to, data, sel)), Older(R))
<1>1. PICK u \in Seq(Entries), r \in Seq(Entries) :
        u = h.undo /\ r = h.redo /\ Replays(J, u, data, U) /\ Replays(J, r, data, R)
  BY TracesFields, HistFields
<1>2. R # << >> /\ R[Len(R)] = Move(data, to, e.sel) /\ Lies(J, e.sel, Len(to))
  BY <1>1, ReplaysBack
<1>3. PICK v, w : v = Append(u, Entry(Invert(Last(r).delta, data), sel)) /\ w = Front(r)
  OBVIOUS
<1>4. Replays(J, v, to, Append(U, Move(to, data, sel))) /\ Replays(J, w, to, Older(R))
  BY <1>1, <1>3, InverseLeadsBack
<1>5. RedoPop(h, data, sel) = HistOf(<< >>, v, w)
  BY <1>1, <1>3, StackUpdates
<1>6. Rest(<< >>, to) = to /\ Len(<< >>) <= 1 /\ Replays(J, << >>, to, << >>)
  BY ReplaysFew DEF Rest
<1> QED BY <1>2, <1>4, <1>5, <1>6, TracesOf

-----------------------------------------------------------------------------
(* A buffer that is not read from a file.                                  *)

\* What one step of module UndoHistory does to the buffer b, whose stacks do the moves
\* P, U and R: c has stacks that do Q, V and W.
HistoryStep(b, c, P, U, R, Q, V, W) ==
  \/ /\ P = << >> /\ c.dirty = TRUE /\ Q = << >>
     /\ V = Append(U, Move(c.data, b.data, b.sel)) /\ W = << >>
  \/ /\ c.dirty = TRUE /\ V = U /\ W = R
     /\ Q = IF P = << >> THEN << Move(c.data, b.data, b.sel) >>
            ELSE << Move(c.data, P[1].to, P[1].sel) >>
  \/ /\ P # << >> /\ Q = << >> /\ V = Append(U, P[1]) /\ W = << >>
     /\ c.data = b.data /\ c.sel = b.sel /\ c.dirty = b.dirty
  \/ /\ P = << >> /\ U # << >> /\ c.dirty = TRUE /\ U[Len(U)] = Move(b.data, c.data, c.sel)
     /\ Q = << >> /\ V = Older(U) /\ W = Append(R, Move(c.data, b.data, b.sel))
  \/ /\ P = << >> /\ R # << >> /\ c.dirty = TRUE /\ R[Len(R)] = Move(b.data, c.data, c.sel)
     /\ Q = << >> /\ V = Append(U, Move(c.data, b.data, b.sel)) /\ W = Older(R)
  \/ c.data = b.data /\ c.dirty = b.dirty /\ Q = P /\ V = U /\ W = R

\* The buffer's selection lies within its bytes if it is to, and its stacks do the moves P, U and R.
Tracks(J, b, P, U, R) ==
  Lies(J, b.sel, Len(b.data)) /\ Traces(J, b.hist, b.data, P, U, R)

\* Every kind of work is a step of the history.
LEMMA WorksSteps ==
  ASSUME NEW J, NEW b \in Bufs, NEW c \in Bufs, NEW P, NEW U, NEW R, Tracks(J, b, P, U, R),
         Works(b, c), ~c.panic, J => JumpsInside,
         mode.name \in {"Normal", "Replace"} => b.hist.partial = << >>
  PROVE  \E Q, V, W : Tracks(J, c, Q, V, W) /\ HistoryStep(b, c, P, U, R, Q, V, W)
<1>1. PICK h \in Hists, data \in Text, sel \in Selections :
        h = b.hist /\ data = b.data /\ sel = b.sel
  BY BufFields
<1>2. Lies(J, sel, Len(data)) /\ Traces(J, h, data, P, U, R)
  BY <1>1 DEF Tracks
<1>3. h.partial = << >> <=> P = << >>
  <2>1. h.partial = << >> => P = << >>
    BY <1>2, TracesFields
  <2>2. h.partial # << >> => P # << >>
    <3>1. h.partial # << >> => P = << Move(data, Rest(h.partial, data), h.partial[1].sel) >>
      BY <1>2, TracesFields
    <3>2. \A m : << m >> # << >>
      OBVIOUS
    <3> QED BY <3>1, <3>2
  <2> QED BY <2>1, <2>2
<1>4. CASE Rechooses(b, c)
  <2>1. Tracks(J, c, P, U, R) /\ c.data = b.data /\ c.dirty = b.dirty
    BY <1>4 DEF Rechooses, Same, Ends, Tracks, Lies
  <2>2. HistoryStep(b, c, P, U, R, P, U, R)
    BY <2>1 DEF HistoryStep
  <2> QED BY <2>1, <2>2
<1>5. CASE Finals(b, c) /\ mode.name \in {"Normal", "Replace"}
  <2>1. PICK d \in Deltas(Len(data)) :
          /\ c.data = ApplyDelta(data, d) /\ c.dirty = TRUE /\ Lies(J, c.sel, Len(c.data))
          /\ c.hist = PerformFinal(h, data, d, sel)
    BY <1>1, <1>5 DEF Finals, Edited, Lies
  <2>2. h.partial = << >>
    BY <1>1, <1>5
  <2>3. PICK V : V = Append(U, Move(c.data, data, sel))
    OBVIOUS
  <2>4. Traces(J, c.hist, c.data, << >>, V, << >>)
    BY <1>2, <2>1, <2>2, <2>3, FinalTraces
  <2>5. Tracks(J, c, << >>, V, << >>)
    BY <2>1, <2>4 DEF Tracks
  <2>6. HistoryStep(b, c, P, U, R, << >>, V, << >>)
    BY <1>1, <1>3, <2>1, <2>2, <2>3 DEF HistoryStep
  <2> QED BY <2>5, <2>6
<1>6. CASE Partials(b, c)
  <2>1. PICK d \in Deltas(Len(data)) :
          /\ c.data = ApplyDelta(data, d) /\ c.dirty = TRUE /\ Lies(J, c.sel, Len(c.data))
          /\ c.hist = PerformPartial(h, data, d, sel)
    BY <1>1, <1>6 DEF Partials, Edited, Lies
  <2>2. PICK Q : Q = IF P = << >> THEN << Move(c.data, data, sel) >>
                     ELSE << Move(c.data, P[1].to, P[1].sel) >>
    OBVIOUS
  <2>3. Traces(J, c.hist, c.data, Q, U, R)
    <3>1. CASE P = << >>
      BY <1>2, <1>3, <2>1, <2>2, <3>1, PartialTraces
    <3>2. CASE P # << >>
      BY <1>2, <1>3, <2>1, <2>2, <3>2, PartialTraces
    <3> QED BY <3>1, <3>2
  <2>4. Tracks(J, c, Q, U, R)
    BY <2>1, <2>3 DEF Tracks
  <2>5. HistoryStep(b, c, P, U, R, Q, U, R)
    BY <1>1, <2>1, <2>2 DEF HistoryStep
  <2> QED BY <2>4, <2>5
<1>7. CASE Commits(b, c)
  <2>1. c.data = data /\ c.sel = sel /\ c.dirty = b.dirty /\ c.hist = CommitPartial(h)
    BY <1>1, <1>7 DEF Commits
  <2>2. CASE h.partial = << >>
    <3>1. c.hist = h
      BY <2>1, <2>2, StackUpdates
    <3>2. Tracks(J, c, P, U, R)
      BY <1>2, <2>1, <3>1 DEF Tracks
    <3>3. HistoryStep(b, c, P, U, R, P, U, R)
      BY <1>1, <2>1 DEF HistoryStep
    <3> QED BY <3>2, <3>3
  <2>3. CASE h.partial # << >>
    <3>1. PICK V : V = Append(U, P[1])
      OBVIOUS
    <3>2. Traces(J, c.hist, c.data, << >>, V, << >>)
      BY <1>2, <2>1, <2>3, <3>1, CommitTraces
    <3>3. Tracks(J, c, << >>, V, << >>)
      BY <1>2, <2>1, <3>2 DEF Tracks
    <3>4. HistoryStep(b, c, P, U, R, << >>, V, << >>)
      BY <1>1, <1>3, <2>1, <2>3, <3>1 DEF HistoryStep
    <3> QED BY <3>3, <3>4
  <2> QED BY <2>2, <2>3
<1>8. CASE Undoes(b, c) /\ mode.name = "Normal"
  <2>1. PICK e : /\ e = Last(h.undo) /\ h.undo # << >>
                 /\ c.data = ApplyDelta(data, e.delta) /\ c.sel = e.sel /\ c.dirty = TRUE
                 /\ c.hist = UndoPop(h, data, sel)
    BY <1>1, <1>8 DEF Undoes, Restores
  <2>2. h.partial = << >>
    BY <1>1, <1>8
  <2>3. PICK V, W : V = Older(U) /\ W = Append(R, Move(c.data, data, sel))
    OBVIOUS
  <2>4. /\ U # << >> /\ U[Len(U)] = Move(data, c.data, c.sel) /\ Lies(J, c.sel, Len(c.data))
        /\ Traces(J, c.hist, c.data, << >>, V, W)
    BY <1>2, <2>1, <2>2, <2>3, UndoTraces
  <2>5. Tracks(J, c, << >>, V, W)
    BY <2>4 DEF Tracks
  <2>6. HistoryStep(b, c, P, U, R, << >>, V, W)
    BY <1>1, <1>3, <2>1, <2>2, <2>3, <2>4 DEF HistoryStep
  <2> QED BY <2>5, <2>6
<1>9. CASE Redoes(b, c) /\ mode.name = "Normal"
  <2>1. PICK e : /\ e = Last(h.redo) /\ h.redo # << >>
                 /\ c.data = ApplyDelta(data, e.delta) /\ c.sel = e.sel /\ c.dirty = TRUE
                 /\ c.hist = RedoPop(h, data, sel)
    BY <1>1, <1>9 DEF Redoes, Restores
  <2>2. h.partial = << >>
    BY <1>1, <1>9
  <2>3. PICK V, W : V = Append(U, Move(c.data, data, sel)) /\ W = Older(R)
    OBVIOUS
  <2>4. /\ R # << >> /\ R[Len(R)] = Move(data, c.data, c.sel) /\ Lies(J, c.sel, Len(c.data))
        /\ Traces(J, c.hist, c.data, << >>, V, W)
    BY <1>2, <2>1, <2>2, <2>3, RedoTraces
  <2>5. Tracks(J, c, << >>, V, W)
    BY <2>4 DEF Tracks
  <2>6. HistoryStep(b, c, P, U, R, << >>, V, W)
    BY <1>1, <1>3, <2>1, <2>2, <2>3, <2>4 DEF HistoryStep
  <2> QED BY <2>5, <2>6
<1> QED BY <1>4, <1>5, <1>6, <1>7, <1>8, <1>9 DEF Works

\* The history of the buffer leads through versions, and every selection lies within
\* the version it belongs to, if J says that it is to.
Tracked(J, b) == \E P, U, R : Tracks(J, b, P, U, R)

\* Without a file, showing a buffer leaves its bytes alone.
LEMMA ShownAlike ==
  ASSUME ~HasPath, NEW b, NEW c, Shown(b, c)
  PROVE  c.data = b.data /\ c.sel = b.sel /\ c.hist = b.hist /\ c.dirty = b.dirty
BY DEF Shown, Loads

\* A new buffer has no history.
LEMMA InitTracked ==
  ASSUME NEW J, ~HasPath, Init
  PROVE  /\ Tracks(J, buf, << >>, << >>, << >>) /\ buf.hist.partial = << >>
         /\ buf.hist.undo = << >> /\ buf.hist.redo = << >>
         /\ buf.data = << >> /\ buf.sel = Cleared /\ buf.dirty = FALSE
<1>1. PICK b : b = NewBuffer(<< >>) /\ Shown(b, buf)
  BY InitEditor
<1>2. b.data = << >> /\ b.sel = Cleared /\ b.hist = HistOf(<< >>, << >>, << >>) /\ b.dirty = FALSE
  BY <1>1 DEF NewBuffer, EmptyHistory, HistOf
<1>3. /\ buf.data = << >> /\ buf.sel = Cleared /\ buf.hist = HistOf(<< >>, << >>, << >>)
      /\ buf.dirty = FALSE
  BY <1>1, <1>2, ShownAlike
<1>4. /\ Len(<< >>) \in Nat /\ Len(<< >>) <= 1
      /\ Replays(J, << >>, << >>, << >>) /\ Rest(<< >>, << >>) = << >>
  BY ReplaysFew DEF Rest
<1>5. Traces(J, HistOf(<< >>, << >>, << >>), << >>, << >>, << >>, << >>)
  BY <1>4, TracesOf
<1>6. Lies(J, Cleared, Len(<< >>))
  BY <1>4, ClearedReach DEF Lies
<1>7. Tracks(J, buf, << >>, << >>, << >>)
  BY <1>3, <1>5, <1>6 DEF Tracks
<1> QED BY <1>3, <1>7, HistOfFields

\* Every step of the editor is one of the history.
LEMMA NextTracks ==
  ASSUME NEW J, ~HasPath, EditorInv, PromptOK(mode), PartialOnlyInserting, [Next]_vars,
         J => [JumpsInside]_vars,
         NEW P, NEW U, NEW R, Tracks(J, buf, P, U, R)
  PROVE  \E Q, V, W : Tracks(J, buf', Q, V, W) /\ HistoryStep(buf, buf', P, U, R, Q, V, W)
<1>1. EditorInv' /\ Stepped
  BY NextAdvances DEF Advanced
<1>2. CASE buf' = buf
  <2>1. HistoryStep(buf, buf', P, U, R, P, U, R)
    BY <1>2 DEF HistoryStep
  <2> QED BY <1>2, <2>1
<1>3. CASE StepsTo(buf') /\ buf' # buf
  <2>1. J => JumpsInside
    BY <1>3 DEF vars
  <2>2. PICK a \in Bufs, c \in Bufs :
               Shown(buf, a) /\ Works(a, c) /\ ~c.panic /\ Shown(c, buf')
    BY <1>3 DEF StepsTo
  <2>3. /\ a.data = buf.data /\ a.sel = buf.sel /\ a.hist = buf.hist /\ a.dirty = buf.dirty
        /\ buf'.data = c.data /\ buf'.sel = c.sel /\ buf'.hist = c.hist /\ buf'.dirty = c.dirty
    BY <2>2, ShownAlike
  <2>4. Tracks(J, a, P, U, R)
    BY <2>3 DEF Tracks
  <2>5. mode.name \in {"Normal", "Replace"} => a.hist.partial = << >>
    BY <2>3 DEF PartialOnlyInserting
  <2>6. PICK Q, V, W : Tracks(J, c, Q, V, W) /\ HistoryStep(a, c, P, U, R, Q, V, W)
    BY <2>1, <2>2, <2>4, <2>5, WorksSteps
  <2>7. Tracks(J, buf', Q, V, W)
    BY <2>3, <2>6 DEF Tracks
  <2>8. HistoryStep(buf, buf', P, U, R, Q, V, W)
    BY <2>3, <2>6, Zenon DEF HistoryStep
  <2> QED BY <2>7, <2>8
<1> QED BY <1>1, <1>2, <1>3 DEF Stepped

\* In a buffer that is not read from a file no caret and no tail ever lies beyond the
\* cell after the last byte, whatever is edited, undone and redone, as long as no jump
\* with a count goes there: jump_to_offset of src/modes/normal.rs does not look at the
\* length.
THEOREM CaretsStayInBuffer ==
  ASSUME ~HasPath
  PROVE  Spec /\ [][JumpsInside]_vars => []CaretsInBuffer
<1>1. Init => Tracked(TRUE, buf)
  BY InitTracked DEF Tracked
<1>2. EditorInv /\ PromptOK(mode) /\ PartialOnlyInserting /\ Tracked(TRUE, buf)
        /\ [Next]_vars /\ [JumpsInside]_vars => Tracked(TRUE, buf)'
  <2> SUFFICES ASSUME EditorInv, PromptOK(mode), PartialOnlyInserting, Tracked(TRUE, buf),
                      [Next]_vars, [JumpsInside]_vars
               PROVE  Tracked(TRUE, buf')
    OBVIOUS
  <2>1. PICK P, U, R : Tracks(TRUE, buf, P, U, R)
    BY DEF Tracked
  <2> QED BY <2>1, NextTracks DEF Tracked
<1>3. EditorInv /\ Tracked(TRUE, buf) => CaretsInBuffer
  <2> SUFFICES ASSUME EditorInv, Tracked(TRUE, buf) PROVE CaretsInBuffer
    OBVIOUS
  <2>1. PICK s \in Selections : s = buf.sel
    BY BufFields DEF EditorInv
  <2>2. DOMAIN s.regions = 1 .. Len(s.regions)
    BY SelectionFields
  <2>3. Inside(s, Len(buf.data))
    BY <2>1 DEF Tracked, Tracks, Lies
  <2> QED BY <2>1, <2>2, <2>3 DEF CaretsInBuffer, Inside, Regs, Size
<1> QED BY <1>1, <1>2, <1>3, EditorInvariant, PromptInvariant, InsertionEndsWithMode, PTL DEF Spec

\* In a buffer that is not read from a file the window stays in the buffer then: undo and
\* redo bring back no caret beyond the end for maybe_update_offset_and_draw
\* (src/hex_view/view.rs) to follow.
THEOREM WindowStaysInBuffer ==
  ASSUME ~HasPath
  PROVE  Spec /\ [][JumpsInside]_vars => []WindowInBuffer
<1>1. EditorInv /\ CaretsInBuffer => MainInside
  <2> SUFFICES ASSUME EditorInv, CaretsInBuffer PROVE MainInside
    OBVIOUS
  <2>1. PICK s \in Selections : s = buf.sel
    BY BufFields DEF EditorInv
  <2>2. PICK i \in 1 .. Len(s.regions) : i = s.main_selection + 1
    BY SelectionFields
  <2>3. DOMAIN s.regions = 1 .. Len(s.regions) /\ s.regions[i] \in Regions
    BY SelectionFields
  <2>4. PICK r \in Regions : r = MainRegion(buf.sel) /\ RMax(r) <= Size
    BY <2>1, <2>2, <2>3 DEF CaretsInBuffer, Regs, MainRegion
  <2>5. r.caret \in Nat /\ RMax(r) \in Nat /\ r.caret <= RMax(r)
    BY RegionBounds
  <2>6. Size \in Nat
    BY EditorFields
  <2> QED BY <2>4, <2>5, <2>6 DEF MainInside
<1> QED BY <1>1, EditorInvariant, CaretsStayInBuffer, WindowFollowsCaret, PTL

\* PerformUndo and PerformRedo when the entry fits the bytes.
LEMMA RestoreFits ==
  ASSUME NEW b \in Bufs, NEW e, e.delta \in Deltas(Len(b.data)), NEW h
  PROVE  /\ Restore(b, e, h).data = ApplyDelta(b.data, e.delta)
         /\ Restore(b, e, h).sel = e.sel /\ Restore(b, e, h).hist = h
         /\ e \in Entries /\ h \in Hists => Restore(b, e, h) \in Bufs
<1>1. ~ApplyPanics(b.data, e.delta)
  <2>1. e.delta.base = Len(b.data) /\ Len(b.data) \in Nat
    BY BufFields, TextElements DEF Deltas
  <2> QED BY <2>1 DEF ApplyPanics
<1>2. Restore(b, e, h) = [b EXCEPT !.hist = h, !.sel = e.sel, !.dirty = TRUE,
                                   !.data = ApplyDelta(b.data, e.delta)]
  BY <1>1, Zenon DEF Restore
<1>3. ApplyDelta(b.data, e.delta) \in Text
  BY BufFields, ApplyType
<1>4. e \in Entries => e.sel \in Selections
  BY EntryFields
<1> QED BY <1>2, <1>3, <1>4 DEF Bufs

\* What undo takes off a stack and redo puts back on it.
LEMMA StackRestored ==
  ASSUME NEW s \in Seq(Entries), s # << >>
  PROVE  Append(Front(s), Last(s)) = s
<1>1. PICK n \in Nat : n = Len(s)
  BY LenProperties
<1>2. /\ Front(s) \in Seq(Entries) /\ n - 1 \in Nat /\ Len(Front(s)) = n - 1
      /\ \A k \in 1 .. n - 1 : Front(s)[k] = s[k]
      /\ Last(s) = s[n] /\ Last(s) \in Entries
  BY <1>1, StackEnds
<1>3. PICK t \in Seq(Entries) : t = Append(Front(s), Last(s))
  BY <1>2, StackEnds
<1>4. Len(t) = n /\ t[n] = s[n] /\ \A k \in 1 .. n - 1 : t[k] = s[k]
  <2>1. PICK m \in Nat : m = n - 1 /\ m + 1 = n
    BY <1>2
  <2> QED BY <1>2, <1>3, <2>1, StackEnds
<1>5. \A k \in 1 .. n : t[k] = s[k]
  BY <1>4
<1> QED BY <1>1, <1>3, <1>4, <1>5, SeqEqual

\* What undo puts on a stack and redo takes off it.
LEMMA StackPopped ==
  ASSUME NEW s \in Seq(Entries), NEW e \in Entries
  PROVE  /\ Append(s, e) \in Seq(Entries) /\ Last(Append(s, e)) = e /\ Front(Append(s, e)) = s
<1>1. PICK n \in Nat : n = Len(s)
  BY LenProperties
<1>4. PICK m \in Nat : m = n + 1 /\ m - 1 = n /\ m # 0
  OBVIOUS
<1>2. PICK t \in Seq(Entries) : /\ t = Append(s, e) /\ Len(t) = m /\ t[m] = e
                                /\ \A k \in 1 .. n : t[k] = s[k]
  <2>1. /\ Append(s, e) \in Seq(Entries) /\ Len(Append(s, e)) = n + 1
        /\ \A k \in 1 .. n : Append(s, e)[k] = s[k]
        /\ Append(s, e)[n + 1] = e
    BY <1>1, StackEnds
  <2> QED BY <1>4, <2>1
<1>3. t # << >>
  BY <1>2, <1>4, EmptySeq
<1>5. /\ Front(t) \in Seq(Entries) /\ Len(Front(t)) = n /\ Last(t) = e
      /\ \A k \in 1 .. n : Front(t)[k] = t[k]
  <2>1. /\ Front(t) \in Seq(Entries) /\ Len(Front(t)) = m - 1
        /\ \A k \in 1 .. m - 1 : Front(t)[k] = t[k]
        /\ Last(t) = t[m]
    BY <1>2, <1>3, StackEnds
  <2> QED BY <1>2, <1>4, <2>1
<1>6. Front(t) = s
  BY <1>1, <1>2, <1>5, SeqEqual
<1> QED BY <1>2, <1>5, <1>6

\* In a buffer that is not read from a file undo and then redo give back the bytes, the
\* selection and the history exactly, wherever the selections lie: History::redo restores
\* the selection History::undo saw, and inverting the delta twice puts the very entry back
\* on the undo stack that was taken off it.
THEOREM UndoRedoRestores ==
  ASSUME ~HasPath
  PROVE  Spec => []UndoRedoRoundTrip
<1>1. Init => Tracked(FALSE, buf)
  BY InitTracked DEF Tracked
<1>2. EditorInv /\ PromptOK(mode) /\ PartialOnlyInserting /\ Tracked(FALSE, buf)
        /\ [Next]_vars => Tracked(FALSE, buf)'
  <2> SUFFICES ASSUME EditorInv, PromptOK(mode), PartialOnlyInserting, Tracked(FALSE, buf),
                      [Next]_vars
               PROVE  Tracked(FALSE, buf')
    OBVIOUS
  <2>1. PICK P, U, R : Tracks(FALSE, buf, P, U, R)
    BY DEF Tracked
  <2> QED BY <2>1, NextTracks DEF Tracked
<1>3. EditorInv /\ PartialOnlyInserting /\ Tracked(FALSE, buf) => UndoRedoRoundTrip
  <2> SUFFICES ASSUME EditorInv, PartialOnlyInserting, Tracked(FALSE, buf), mode.name = "Normal",
                      buf.hist.undo # << >>,
                      NEW undone, undone = PerformUndo(buf), NEW again, again = PerformRedo(undone)
               PROVE  again.data = buf.data /\ again.sel = buf.sel /\ again.hist = buf.hist
    BY DEF UndoRedoRoundTrip
  <2>1. PICK h \in Hists, data \in Text, sel \in Selections :
          h = buf.hist /\ data = buf.data /\ sel = buf.sel
    BY BufFields DEF EditorInv
  <2>2. h.partial = << >> /\ buf \in Bufs
    BY <2>1 DEF EditorInv, PartialOnlyInserting
  <2>3. PICK P, U, R : Traces(FALSE, h, data, P, U, R)
    BY <2>1 DEF Tracked, Tracks
  <2>4. PICK u \in Seq(Entries), r \in Seq(Entries) :
          u = h.undo /\ r = h.redo /\ Replays(FALSE, u, data, U) /\ u # << >>
    BY <2>1, <2>2, <2>3, TracesFields, HistFields
  <2>5. PICK e \in Entries : /\ e = Last(u) /\ e.delta \in Deltas(Len(data))
                             /\ MadeFrom(e.delta, data)
    BY <2>4, ReplaysBack, PoppedEntries
  <2>6. PICK to \in Text : to = ApplyDelta(data, e.delta)
    BY <2>5, ApplyType
  <2>7. PICK x : /\ x = Invert(e.delta, data) /\ x \in Deltas(Len(to)) /\ ApplyDelta(to, x) = data
                 /\ Invert(x, to) = e.delta
    BY <2>5, <2>6, InvertUndoes, InvertTwice
  <2>8. PICK f \in Entries : f = Entry(x, sel) /\ f.delta = x /\ f.sel = sel
    <3>1. x \in AnyDelta
      BY <2>6, <2>7, AnyDeltaOf, TextElements
    <3> QED BY <3>1, EntryFields DEF Entry
  <2>9. PICK g \in Hists : g = HistOf(<< >>, Front(u), Append(r, f)) /\ g = UndoPop(h, data, sel)
    <3>1. UndoPop(h, data, sel) = HistOf(<< >>, Front(u), Append(r, f))
      BY <2>2, <2>4, <2>5, <2>7, <2>8, StackUpdates
    <3>2. << >> \in Seq(Entries) /\ Front(u) \in Seq(Entries)
      BY <2>4, PoppedEntries
    <3>3. Append(r, f) \in Seq(Entries)
      BY StackPopped
    <3> QED BY <3>1, <3>2, <3>3, HistOfType
  <2>10. undone.data = to /\ undone.sel = e.sel /\ undone.hist = g /\ undone \in Bufs
    <3>1. undone = Restore(buf, e, g)
      BY <2>1, <2>4, <2>5, <2>9 DEF PerformUndo
    <3> QED BY <2>1, <2>2, <2>5, <2>6, <3>1, RestoreFits
  <2>11. g.redo = Append(r, f) /\ Last(g.redo) = f /\ Front(g.redo) = r /\ g.undo = Front(u)
         /\ g.partial = << >>
    <3>1. PICK p, v, w : p = << >> /\ v = Front(u) /\ w = Append(r, f)
      OBVIOUS
    <3>2. g = HistOf(p, v, w)
      BY <2>9, <3>1
    <3>3. g.partial = p /\ g.undo = v /\ g.redo = w
      BY <3>2, HistOfFields
    <3>4. Last(w) = f /\ Front(w) = r
      BY <3>1, StackPopped
    <3> QED BY <3>1, <3>3, <3>4
  <2>12. RedoPop(g, to, e.sel) = h
    <3>1. RedoPop(g, to, e.sel) = HistOf(<< >>, Append(Front(u), Entry(Invert(x, to), e.sel)), r)
      <4>1. RedoPop(g, to, e.sel)
              = HistOf(g.partial, Append(g.undo, Entry(Invert(Last(g.redo).delta, to), e.sel)),
                       Front(g.redo))
        BY StackUpdates
      <4> QED BY <2>8, <2>11, <4>1, Zenon
    <3>2. Entry(Invert(x, to), e.sel) = e
      BY <2>7 DEF Entry, Entries
    <3>3. Append(Front(u), e) = u
      BY <2>4, <2>5, StackRestored
    <3> QED BY <2>2, <2>4, <3>1, <3>2, <3>3, HistFields
  <2>13. again = Restore(undone, f, h)
    BY <2>10, <2>11, <2>12 DEF PerformRedo
  <2> QED BY <2>1, <2>7, <2>8, <2>10, <2>13, RestoreFits
<1> QED BY <1>1, <1>2, <1>3, EditorInvariant, PromptInvariant, InsertionEndsWithMode, PTL DEF Spec

\* The moves the stacks of the buffer do, all selections lying within their versions.
TracksWithin(b, P, U, R) == Tracks(TRUE, b, P, U, R)

\* The entries the refinement takes the stacks for.
LEMMA TracksEntries ==
  ASSUME NEW b \in Bufs, NEW P, NEW U, NEW R, TracksWithin(b, P, U, R),
         NEW base, base = IF b.hist.partial = << >> THEN b.data
                          ELSE ApplyDelta(b.data, b.hist.partial[1].delta)
  PROVE  /\ AsEntries(b.hist.partial, b.data) = P
         /\ AsEntries(b.hist.undo, base) = U
         /\ AsEntries(b.hist.redo, base) = R
<1>1. PICK h \in Hists, data \in Text :
        h = b.hist /\ data = b.data /\ \E J : Traces(J, h, data, P, U, R)
  <2>1. \E J : Traces(J, b.hist, b.data, P, U, R)
    BY DEF TracksWithin, Tracks
  <2> QED BY <2>1, BufFields
<1>5. PICK J : Traces(J, h, data, P, U, R)
  BY <1>1
<1>2. base = Rest(h.partial, data)
  BY <1>1 DEF Rest
<1>3. h.partial \in Seq(Entries) /\ h.undo \in Seq(Entries) /\ h.redo \in Seq(Entries)
  BY HistFields
<1>4. Replays(J, h.partial, data, P) /\ Replays(J, h.undo, base, U) /\ Replays(J, h.redo, base, R)
  BY <1>2, <1>5 DEF Traces
<1> QED BY <1>1, <1>3, <1>4, ReplaysEntries

\* The selections of the promises are those of module UndoHistory, and lying within the
\* bytes means the same.
LEMMA SelectionsFitInside ==
  ASSUME NEW b \in Bufs, Inside(b.sel, Len(b.data))
  PROVE  /\ b.data \in Seq(Bytes) /\ b.sel \in [regions : Seq(Regions), main_selection : Nat]
         /\ SelectionFits(b.data, b.sel)
<1>1. PICK s \in Selections : s = b.sel /\ b.data \in Text
  BY BufFields
<1>2. s \in [regions : Seq(Regions), main_selection : Nat]
  BY DEF Selections
<1>3. SelectionFits(b.data, s)
  BY <1>1, SelectionFields DEF SelectionFits, Inside
<1> QED BY <1>1, <1>2, <1>3 DEF Text

\* A buffer that is not read from a file implements the undo history of module
\* UndoHistory, as long as no jump with a count goes beyond the end: every delta of
\* src/history.rs, inverted, chained and applied again, leads exactly back to the version
\* it was made from, and the selection restored with it lies within that version.
THEOREM ImplementsUndoHistory ==
  ASSUME ~HasPath
  PROVE  Spec /\ [][JumpsInside]_vars => HistoryImplemented
<1>1. Init => Tracked(TRUE, buf)
  BY InitTracked DEF Tracked
<1>2. Init /\ EditorInv => Undoing!Init
  <2> SUFFICES ASSUME Init, EditorInv PROVE Undoing!Init
    OBVIOUS
  <2>1. buf \in Bufs
    BY DEF EditorInv
  <2>2. TracksWithin(buf, << >>, << >>, << >>) /\ buf.dirty = FALSE
    BY InitTracked DEF TracksWithin
  <2>3. /\ AsEntries(buf.hist.partial, buf.data) = << >>
        /\ AsEntries(buf.hist.undo, BaseVersion) = << >>
        /\ AsEntries(buf.hist.redo, BaseVersion) = << >>
    BY <2>1, <2>2, TracksEntries DEF BaseVersion
  <2>4. /\ buf.data \in Seq(Bytes) /\ buf.sel \in [regions : Seq(Regions), main_selection : Nat]
        /\ SelectionFits(buf.data, buf.sel)
    BY <2>1, <2>2, SelectionsFitInside DEF TracksWithin, Tracks, Lies
  <2> QED BY <2>2, <2>3, <2>4 DEF Undoing!Init
<1>3. EditorInv /\ EditorInv' /\ PromptOK(mode) /\ PartialOnlyInserting /\ Tracked(TRUE, buf)
        /\ [Next]_vars /\ [JumpsInside]_vars
        => Tracked(TRUE, buf)' /\ [Undoing!Next]_(Undoing!vars)
  <2> SUFFICES ASSUME EditorInv, EditorInv', PromptOK(mode), PartialOnlyInserting,
                      Tracked(TRUE, buf), [Next]_vars, [JumpsInside]_vars
               PROVE  Tracked(TRUE, buf') /\ [Undoing!Next]_(Undoing!vars)
    OBVIOUS
  <2>1. buf \in Bufs /\ buf' \in Bufs
    BY DEF EditorInv
  <2>2. PICK P, U, R : TracksWithin(buf, P, U, R)
    BY DEF Tracked, TracksWithin
  <2>3. PICK Q, V, W : TracksWithin(buf', Q, V, W) /\ HistoryStep(buf, buf', P, U, R, Q, V, W)
    BY <2>2, NextTracks DEF TracksWithin
  <2>4. /\ AsEntries(buf.hist.partial, buf.data) = P
        /\ AsEntries(buf.hist.undo, BaseVersion) = U
        /\ AsEntries(buf.hist.redo, BaseVersion) = R
    BY <2>1, <2>2, TracksEntries DEF BaseVersion
  <2>5. PICK base : base = IF buf'.hist.partial = << >> THEN buf'.data
                           ELSE ApplyDelta(buf'.data, buf'.hist.partial[1].delta)
    OBVIOUS
  <2>6. BaseVersion' = base
    BY <2>5 DEF BaseVersion
  <2>7. /\ AsEntries(buf'.hist.partial, buf'.data) = Q
        /\ AsEntries(buf'.hist.undo, base) = V
        /\ AsEntries(buf'.hist.redo, base) = W
    BY <2>1, <2>3, <2>5, TracksEntries
  <2>8. /\ AsEntries(buf.hist.partial, buf.data)' = Q
        /\ AsEntries(buf.hist.undo, BaseVersion)' = V
        /\ AsEntries(buf.hist.redo, BaseVersion)' = W
    BY <2>6, <2>7
  <2>9. /\ buf'.data \in Seq(Bytes) /\ buf'.sel \in [regions : Seq(Regions), main_selection : Nat]
        /\ SelectionFits(buf'.data, buf'.sel)
    BY <2>1, <2>3, SelectionsFitInside DEF TracksWithin, Tracks, Lies
  <2>10. Undoing!Next
    <3> USE DEF Undoing!Entry, Move
    <3>1. CASE /\ P = << >> /\ buf'.dirty = TRUE /\ Q = << >>
               /\ V = Append(U, Move(buf'.data, buf.data, buf.sel)) /\ W = << >>
      <4>1. Undoing!FinalEdit
        BY <2>4, <2>8, <2>9, <3>1 DEF Undoing!FinalEdit, Undoing!Change
      <4> QED BY <4>1 DEF Undoing!Next
    <3>2. CASE /\ buf'.dirty = TRUE /\ V = U /\ W = R
               /\ Q = IF P = << >> THEN << Move(buf'.data, buf.data, buf.sel) >>
                      ELSE << Move(buf'.data, P[1].to, P[1].sel) >>
      <4>1. Undoing!PartialEdit
        BY <2>4, <2>8, <2>9, <3>2 DEF Undoing!PartialEdit, Undoing!Change
      <4> QED BY <4>1 DEF Undoing!Next
    <3>3. CASE /\ P # << >> /\ Q = << >> /\ V = Append(U, P[1]) /\ W = << >>
               /\ buf'.data = buf.data /\ buf'.sel = buf.sel /\ buf'.dirty = buf.dirty
      <4>1. Undoing!Commit
        BY <2>4, <2>8, <3>3 DEF Undoing!Commit
      <4> QED BY <4>1 DEF Undoing!Next
    <3>4. CASE /\ P = << >> /\ U # << >> /\ buf'.dirty = TRUE
               /\ U[Len(U)] = Move(buf.data, buf'.data, buf'.sel)
               /\ Q = << >> /\ V = Older(U) /\ W = Append(R, Move(buf'.data, buf.data, buf.sel))
      <4>1. Undoing!Undo
        BY <2>4, <2>8, <3>4 DEF Undoing!Undo, Undoing!Follow, Undoing!Top, Undoing!Pop, Older
      <4> QED BY <4>1 DEF Undoing!Next
    <3>5. CASE /\ P = << >> /\ R # << >> /\ buf'.dirty = TRUE
               /\ R[Len(R)] = Move(buf.data, buf'.data, buf'.sel)
               /\ Q = << >> /\ V = Append(U, Move(buf'.data, buf.data, buf.sel)) /\ W = Older(R)
      <4>1. Undoing!Redo
        BY <2>4, <2>8, <3>5 DEF Undoing!Redo, Undoing!Follow, Undoing!Top, Undoing!Pop, Older
      <4> QED BY <4>1 DEF Undoing!Next
    <3>6. CASE buf'.data = buf.data /\ buf'.dirty = buf.dirty /\ Q = P /\ V = U /\ W = R
      <4>1. SelectionFits(buf.data, buf'.sel)
        BY <2>9, <3>6
      <4>2. Undoing!Select
        BY <2>4, <2>8, <2>9, <3>6, <4>1 DEF Undoing!Select
      <4> QED BY <4>2 DEF Undoing!Next
    <3> QED BY <2>3, <3>1, <3>2, <3>3, <3>4, <3>5, <3>6 DEF HistoryStep
  <2> QED BY <2>3, <2>10 DEF Tracked, TracksWithin
<1> QED BY <1>1, <1>2, <1>3, EditorInvariant, PromptInvariant, InsertionEndsWithMode, PTL
        DEF Spec, HistoryImplemented, Undoing!Spec
=============================================================================
