-------------------------- MODULE UndoHistoryProofs --------------------------
(***************************************************************************)
(* Proofs about the undo history, for every set of contents and selections *)
(* and histories of every length.                                          *)
(***************************************************************************)
EXTENDS UndoHistory, TLAPS

\* What Pop leaves of a stack of entries.
LEMMA PopEntries ==
  ASSUME NEW S, NEW s \in Seq(S), s # << >>
  PROVE  /\ Pop(s) \in Seq(S)
         /\ Len(Pop(s)) = Len(s) - 1
         /\ \A k \in 1 .. Len(s) - 1 : Pop(s)[k] = s[k]
         /\ Top(s) \in S
  BY DEF Pop, Top

\* What Append makes of a stack of entries.
LEMMA PushEntries ==
  ASSUME NEW S, NEW s \in Seq(S), NEW e \in S
  PROVE  /\ Append(s, e) \in Seq(S)
         /\ Len(Append(s, e)) = Len(s) + 1
         /\ \A k \in 1 .. Len(s) : Append(s, e)[k] = s[k]
         /\ Append(s, e)[Len(s) + 1] = e
         /\ Append(s, e) # << >>
  OBVIOUS

\* An entry made of contents and a selection is an entry.
LEMMA EntryType ==
  ASSUME NEW f \in Content, NEW t \in Content, NEW s \in Selections
  PROVE  /\ Entry(f, t, s) \in Entries
         /\ Entry(f, t, s).from = f
         /\ Entry(f, t, s).to = t
         /\ Entry(f, t, s).sel = s
  BY DEF Entry, Entries

-----------------------------------------------------------------------------
\* Every step keeps the types.
LEMMA TypeStep == TypeOK /\ [Next]_vars => TypeOK'
<1> SUFFICES ASSUME TypeOK, [Next]_vars PROVE TypeOK'
  OBVIOUS
<1> USE DEF TypeOK
<1>1. CASE FinalEdit
  <2>1. Entry(data', data, sel) \in Entries
    BY <1>1, EntryType DEF FinalEdit, Change
  <2> QED
    BY <1>1, <2>1 DEF FinalEdit, Change
<1>2. CASE PartialEdit
  <2>1. CASE partial = << >>
    <3>1. Entry(data', data, sel) \in Entries
      BY <1>2, EntryType DEF PartialEdit, Change
    <3> QED
      BY <1>2, <2>1, <3>1 DEF PartialEdit, Change
  <2>2. CASE partial # << >>
    <3>1. PICK e \in Entries : partial = << e >>
      BY <2>2
    <3>2. partial[1].to \in Content /\ partial[1].sel \in Selections
      BY <3>1 DEF Entries
    <3>3. Entry(data', partial[1].to, partial[1].sel) \in Entries
      BY <1>2, <3>2, EntryType DEF PartialEdit, Change
    <3> QED
      BY <1>2, <2>2, <3>3 DEF PartialEdit, Change
  <2> QED
    BY <2>1, <2>2
<1>3. CASE Commit
  <2>1. PICK e \in Entries : partial = << e >>
    BY <1>3 DEF Commit
  <2> QED
    BY <1>3, <2>1 DEF Commit
<1>4. CASE Undo
  <2>1. Top(undo) \in Entries /\ Pop(undo) \in Seq(Entries)
    BY <1>4, PopEntries DEF Undo
  <2>2. data' \in Content /\ sel' \in Selections
    BY <1>4, <2>1 DEF Undo, Follow, Entries
  <2>3. Entry(data', data, sel) \in Entries
    BY <2>2, EntryType
  <2> QED
    BY <1>4, <2>1, <2>2, <2>3 DEF Undo, Follow
<1>5. CASE Redo
  <2>1. Top(redo) \in Entries /\ Pop(redo) \in Seq(Entries)
    BY <1>5, PopEntries DEF Redo
  <2>2. data' \in Content /\ sel' \in Selections
    BY <1>5, <2>1 DEF Redo, Follow, Entries
  <2>3. Entry(data', data, sel) \in Entries
    BY <2>2, EntryType
  <2> QED
    BY <1>5, <2>1, <2>2, <2>3 DEF Redo, Follow
<1>6. CASE Select
  BY <1>6 DEF Select
<1>7. CASE UNCHANGED vars
  BY <1>7 DEF vars
<1> QED
  BY <1>1, <1>2, <1>3, <1>4, <1>5, <1>6, <1>7 DEF Next

\* The history's state keeps its types.
THEOREM TypeCorrect == Spec => []TypeOK
<1>1. Init => TypeOK
  <2> SUFFICES ASSUME Init PROVE TypeOK
    OBVIOUS
  <2>1. data \in Content /\ sel \in Selections
    BY DEF Init
  <2>2. undo \in Seq(Entries) /\ redo \in Seq(Entries)
    BY DEF Init
  <2>3. partial \in {<< >>} /\ dirty \in BOOLEAN
    BY DEF Init
  <2> QED
    BY <2>1, <2>2, <2>3 DEF TypeOK
<1> QED
  BY <1>1, TypeStep, PTL DEF Spec
-----------------------------------------------------------------------------
\* A stack stays linked when an entry that leads to its version goes on top.
LEMMA PushLinked ==
  ASSUME NEW s \in Seq(Entries), NEW e \in Entries, NEW v,
         Linked(s, v), e.to = v
  PROVE  Linked(Append(s, e), e.from)
<1> DEFINE t == Append(s, e)
<1>1. Len(t) = Len(s) + 1 /\ t[Len(s) + 1] = e /\ \A k \in 1 .. Len(s) : t[k] = s[k]
  BY PushEntries
<1>2. Top(t).from = e.from
  BY <1>1 DEF Top
<1>3. ASSUME NEW k \in 1 .. Len(t) - 1 PROVE t[k].from = t[k + 1].to
  <2>1. CASE k = Len(s)
    <3>1. s # << >> /\ t[k] = s[k] /\ Top(s) = s[k]
      BY <1>1, <2>1, <1>3 DEF Top
    <3>2. s[k].from = v
      BY <3>1 DEF Linked
    <3>3. t[k + 1] = e
      BY <1>1, <2>1
    <3> QED
      BY <3>1, <3>2, <3>3
  <2>2. CASE k # Len(s)
    <3>1. k \in 1 .. Len(s) - 1 /\ k \in 1 .. Len(s) /\ k + 1 \in 1 .. Len(s)
      BY <1>1, <1>3, <2>2
    <3>2. t[k] = s[k] /\ t[k + 1] = s[k + 1]
      BY <1>1, <3>1
    <3> QED
      BY <3>1, <3>2 DEF Linked
  <2> QED
    BY <2>1, <2>2
<1> HIDE DEF t
<1>4. Linked(t, e.from)
  BY <1>2, <1>3 DEF Linked
<1> QED
  BY <1>4 DEF t

\* Taking the top entry off leaves a stack linked to where that entry leads.
LEMMA PopLinked ==
  ASSUME NEW s \in Seq(Entries), s # << >>, NEW v, Linked(s, v)
  PROVE  Linked(Pop(s), Top(s).to)
<1> DEFINE t == Pop(s)
<1>1. t \in Seq(Entries) /\ Len(t) = Len(s) - 1 /\ \A k \in 1 .. Len(s) - 1 : t[k] = s[k]
  BY PopEntries
<1> HIDE DEF t
<1>2. ASSUME t # << >> PROVE Top(t).from = Top(s).to
  <2>1. Len(t) \in 1 .. Len(s) - 1 /\ Len(t) + 1 = Len(s)
    BY <1>1, <1>2
  <2>2. Top(t) = s[Len(t)] /\ Top(s) = s[Len(t) + 1]
    BY <1>1, <2>1 DEF Top
  <2> QED
    BY <2>1, <2>2 DEF Linked
<1>3. ASSUME NEW k \in 1 .. Len(t) - 1 PROVE t[k].from = t[k + 1].to
  <2>1. k \in 1 .. Len(s) - 1 /\ k + 1 \in 1 .. Len(s) - 1
    BY <1>1, <1>3
  <2>2. t[k] = s[k] /\ t[k + 1] = s[k + 1]
    BY <1>1, <2>1
  <2> QED
    BY <2>1, <2>2 DEF Linked
<1>4. Linked(t, Top(s).to)
  BY <1>2, <1>3 DEF Linked
<1> QED
  BY <1>4 DEF t

\* The empty stack is linked to every version.
LEMMA EmptyLinked == ASSUME NEW v PROVE Linked(<< >>, v)
  BY DEF Linked

\* While an insertion is open its entry is in partial; otherwise partial is empty.
LEMMA PartialEntry ==
  ASSUME TypeOK, partial # << >>
  PROVE  /\ partial[1] \in Entries
         /\ partial = << partial[1] >>
         /\ partial[1].to \in Content /\ partial[1].sel \in Selections
<1>1. PICK e \in Entries : partial = << e >>
  BY DEF TypeOK
<1> QED
  BY <1>1 DEF Entries

\* What an undo (or a redo) does to the contents, when the stacks are linked.
LEMMA FollowTop ==
  ASSUME NEW s \in Seq(Entries), s # << >>, Linked(s, data), Follow(Top(s))
  PROVE  data' = Top(s).to /\ sel' = Top(s).sel
  BY DEF Linked, Follow

\* Every step keeps the entries linked.
LEMMA LinkStep == TypeOK /\ TypeOK' /\ EntriesLinked /\ [Next]_vars => EntriesLinked'
<1> SUFFICES ASSUME TypeOK, TypeOK', EntriesLinked, [Next]_vars PROVE EntriesLinked'
  OBVIOUS
<1> USE DEF TypeOK
<1>1. CASE FinalEdit
  <2>1. partial = << >> /\ partial' = << >> /\ Base = data /\ Base' = data'
    BY <1>1 DEF FinalEdit, Base
  <2>2. /\ Entry(data', data, sel) \in Entries
        /\ Entry(data', data, sel).to = data
        /\ Entry(data', data, sel).from = data'
    BY <1>1, EntryType
  <2>3. Linked(undo, data)
    BY <2>1 DEF EntriesLinked
  <2>4. Linked(Append(undo, Entry(data', data, sel)), data')
    BY <2>2, <2>3, PushLinked
  <2>5. undo' = Append(undo, Entry(data', data, sel)) /\ redo' = << >>
    BY <1>1 DEF FinalEdit
  <2> QED
    BY <2>1, <2>4, <2>5, EmptyLinked DEF EntriesLinked
<1>2. CASE PartialEdit
  <2>1. CASE partial = << >>
    <3>1. partial' = << Entry(data', data, sel) >>
      BY <1>2, <2>1 DEF PartialEdit
    <3>2. partial'[1].to = data /\ partial'[1].from = data' /\ partial' # << >>
      BY <3>1, EntryType
    <3>3. Base = data /\ Base' = data
      BY <2>1, <3>2 DEF Base
    <3> QED
      BY <1>2, <3>2, <3>3 DEF EntriesLinked, PartialEdit
  <2>2. CASE partial # << >>
    <3>1. partial' = << Entry(data', partial[1].to, partial[1].sel) >>
      BY <1>2, <2>2 DEF PartialEdit
    <3>2. partial[1].to \in Content /\ partial[1].sel \in Selections
      BY <2>2, PartialEntry
    <3>3. partial'[1].to = partial[1].to /\ partial'[1].from = data' /\ partial' # << >>
      BY <3>1, <3>2, EntryType
    <3>4. Base' = Base
      BY <2>2, <3>3 DEF Base
    <3> QED
      BY <1>2, <3>3, <3>4 DEF EntriesLinked, PartialEdit
  <2> QED
    BY <2>1, <2>2
<1>3. CASE Commit
  <2>1. partial # << >> /\ partial' = << >> /\ data' = data
    BY <1>3 DEF Commit
  <2>2. Base = partial[1].to /\ Base' = data
    BY <2>1 DEF Base
  <2>3. partial[1] \in Entries /\ partial[1].from = data
    BY <2>1, PartialEntry DEF EntriesLinked
  <2>4. Linked(Append(undo, partial[1]), data)
    BY <2>2, <2>3, PushLinked DEF EntriesLinked
  <2> QED
    BY <1>3, <2>1, <2>2, <2>4, EmptyLinked DEF Commit, EntriesLinked
<1>4. CASE Undo
  <2>1. partial = << >> /\ partial' = << >> /\ Base = data /\ Base' = data'
    BY <1>4 DEF Undo, Follow, Base
  <2>2. undo # << >> /\ Linked(undo, data) /\ Linked(redo, data)
    BY <1>4, <2>1 DEF Undo, EntriesLinked
  <2>3. data' = Top(undo).to
    BY <1>4, <2>2, FollowTop DEF Undo
  <2>4. Linked(Pop(undo), data')
    BY <2>2, <2>3, PopLinked
  <2>5. /\ Entry(data', data, sel) \in Entries
        /\ Entry(data', data, sel).to = data
        /\ Entry(data', data, sel).from = data'
    BY EntryType
  <2>6. Linked(Append(redo, Entry(data', data, sel)), data')
    BY <2>2, <2>5, PushLinked
  <2> QED
    BY <1>4, <2>1, <2>4, <2>6 DEF Undo, EntriesLinked
<1>5. CASE Redo
  <2>1. partial = << >> /\ partial' = << >> /\ Base = data /\ Base' = data'
    BY <1>5 DEF Redo, Follow, Base
  <2>2. redo # << >> /\ Linked(undo, data) /\ Linked(redo, data)
    BY <1>5, <2>1 DEF Redo, EntriesLinked
  <2>3. data' = Top(redo).to
    BY <1>5, <2>2, FollowTop DEF Redo
  <2>4. Linked(Pop(redo), data')
    BY <2>2, <2>3, PopLinked
  <2>5. /\ Entry(data', data, sel) \in Entries
        /\ Entry(data', data, sel).to = data
        /\ Entry(data', data, sel).from = data'
    BY EntryType
  <2>6. Linked(Append(undo, Entry(data', data, sel)), data')
    BY <2>2, <2>5, PushLinked
  <2> QED
    BY <1>5, <2>1, <2>4, <2>6 DEF Redo, EntriesLinked
<1>6. CASE Select
  BY <1>6 DEF Select, EntriesLinked, Base
<1>7. CASE UNCHANGED vars
  BY <1>7 DEF vars, EntriesLinked, Base
<1> QED
  BY <1>1, <1>2, <1>3, <1>4, <1>5, <1>6, <1>7 DEF Next

\* Whatever mix of edits, insertions, undos and redos came before, every entry
\* of the two stacks will be applied to the contents it was computed against.
THEOREM EntriesStayLinked == Spec => []EntriesLinked
<1>1. Init => EntriesLinked
  BY EmptyLinked DEF Init, EntriesLinked
<1> QED
  BY <1>1, TypeCorrect, LinkStep, PTL DEF Spec
-----------------------------------------------------------------------------
\* What is saved with a stack's entries still fits after a push or a pop.
LEMMA PushFits ==
  ASSUME NEW s \in Seq(Entries), NEW e \in Entries, SavedFits(s), Fits(e.to, e.sel)
  PROVE  SavedFits(Append(s, e))
<1>1. DOMAIN Append(s, e) = 1 .. Len(s) + 1 /\ DOMAIN s = 1 .. Len(s)
  BY PushEntries
<1>2. ASSUME NEW k \in 1 .. Len(s) + 1
      PROVE  Fits(Append(s, e)[k].to, Append(s, e)[k].sel)
  <2>1. CASE k = Len(s) + 1
    BY <2>1, PushEntries
  <2>2. CASE k # Len(s) + 1
    <3>1. k \in 1 .. Len(s) /\ Append(s, e)[k] = s[k]
      BY <2>2, PushEntries
    <3> QED
      BY <1>1, <3>1 DEF SavedFits
  <2> QED
    BY <2>1, <2>2
<1> QED
  BY <1>1, <1>2 DEF SavedFits

LEMMA PopFits ==
  ASSUME NEW s \in Seq(Entries), s # << >>, SavedFits(s)
  PROVE  SavedFits(Pop(s)) /\ Fits(Top(s).to, Top(s).sel)
<1>1. Pop(s) \in Seq(Entries) /\ Len(Pop(s)) = Len(s) - 1
  BY PopEntries
<1>2. DOMAIN Pop(s) = 1 .. Len(s) - 1 /\ DOMAIN s = 1 .. Len(s) /\ Len(s) \in 1 .. Len(s)
  BY <1>1
<1>3. \A k \in DOMAIN Pop(s) : k \in DOMAIN s /\ Pop(s)[k] = s[k]
  BY <1>2, PopEntries
<1> QED
  BY <1>2, <1>3 DEF SavedFits, Top

LEMMA SavedFitsNone == SavedFits(<< >>)
  BY DEF SavedFits

LEMMA SavedFitsOne ==
  ASSUME NEW e, Fits(e.to, e.sel)
  PROVE  SavedFits(<< e >>)
  BY DEF SavedFits

\* Every step keeps the current and the saved selections within the contents
\* they are shown with.
LEMMA FitStep ==
  TypeOK /\ TypeOK' /\ EntriesLinked /\ SelectionsFit /\ [Next]_vars => SelectionsFit'
<1> SUFFICES ASSUME TypeOK, TypeOK', EntriesLinked, SelectionsFit, [Next]_vars
             PROVE  SelectionsFit'
  OBVIOUS
<1> USE DEF TypeOK
<1>e. /\ Entry(data', data, sel) \in Entries
      /\ Entry(data', data, sel).to = data
      /\ Entry(data', data, sel).sel = sel
  BY EntryType
<1>f. Fits(data, sel) /\ SavedFits(undo) /\ SavedFits(redo) /\ SavedFits(partial)
  BY DEF SelectionsFit
<1>g. SavedFits(Append(undo, Entry(data', data, sel)))
  BY <1>e, <1>f, PushFits
<1>h. SavedFits(Append(redo, Entry(data', data, sel)))
  BY <1>e, <1>f, PushFits
<1>1. CASE FinalEdit
  BY <1>1, <1>f, <1>g, SavedFitsNone DEF FinalEdit, Change, SelectionsFit
<1>2. CASE PartialEdit
  <2>1. CASE partial = << >>
    <3>1. SavedFits(<< Entry(data', data, sel) >>)
      BY <1>e, <1>f, SavedFitsOne
    <3> QED
      BY <1>2, <2>1, <1>f, <3>1 DEF PartialEdit, Change, SelectionsFit
  <2>2. CASE partial # << >>
    <3> DEFINE e == Entry(data', partial[1].to, partial[1].sel)
    <3>1. partial[1] \in Entries /\ partial = << partial[1] >>
          /\ partial[1].to \in Content /\ partial[1].sel \in Selections
      BY <2>2, PartialEntry
    <3>2. Fits(partial[1].to, partial[1].sel)
      BY <1>f, <3>1 DEF SavedFits
    <3>3. e.to = partial[1].to /\ e.sel = partial[1].sel
      BY <3>1, EntryType
    <3>4. SavedFits(<< e >>)
      BY <3>2, <3>3, SavedFitsOne
    <3> QED
      BY <1>2, <2>2, <1>f, <3>4 DEF PartialEdit, Change, SelectionsFit
  <2> QED
    BY <2>1, <2>2
<1>3. CASE Commit
  <2>1. partial[1] \in Entries /\ partial = << partial[1] >>
    BY <1>3, PartialEntry DEF Commit
  <2>2. Fits(partial[1].to, partial[1].sel)
    BY <1>f, <2>1 DEF SavedFits
  <2>3. SavedFits(Append(undo, partial[1]))
    BY <1>f, <2>1, <2>2, PushFits
  <2> QED
    BY <1>3, <1>f, <2>3, SavedFitsNone DEF Commit, SelectionsFit
<1>4. CASE Undo
  <2>1. undo # << >> /\ Linked(undo, data)
    BY <1>4 DEF Undo, EntriesLinked, Base
  <2>2. data' = Top(undo).to /\ sel' = Top(undo).sel
    BY <1>4, <2>1, FollowTop DEF Undo
  <2>3. SavedFits(Pop(undo)) /\ Fits(data', sel')
    BY <2>1, <2>2, <1>f, PopFits
  <2> QED
    BY <1>4, <2>3, <1>f, <1>h DEF Undo, Follow, SelectionsFit
<1>5. CASE Redo
  <2>1. redo # << >> /\ Linked(redo, data)
    BY <1>5 DEF Redo, EntriesLinked, Base
  <2>2. data' = Top(redo).to /\ sel' = Top(redo).sel
    BY <1>5, <2>1, FollowTop DEF Redo
  <2>3. SavedFits(Pop(redo)) /\ Fits(data', sel')
    BY <2>1, <2>2, <1>f, PopFits
  <2> QED
    BY <1>5, <2>3, <1>f, <1>g DEF Redo, Follow, SelectionsFit
<1>6. CASE Select
  BY <1>6, <1>f DEF Select, SelectionsFit
<1>7. CASE UNCHANGED vars
  BY <1>7, <1>f DEF vars, SelectionsFit
<1> QED
  BY <1>1, <1>2, <1>3, <1>4, <1>5, <1>6, <1>7 DEF Next

\* Undo and redo never install a selection that reaches past the contents they
\* restore, although perform_undo installs the saved one unchecked.
THEOREM SelectionsStayInside == Spec => []SelectionsFit
<1>1. Init => SelectionsFit
  BY SavedFitsNone DEF Init, SelectionsFit
<1> QED
  BY <1>1, TypeCorrect, EntriesStayLinked, FitStep, PTL DEF Spec

-----------------------------------------------------------------------------
(* The history implements the timeline of versions, for every set of       *)
(* contents and histories of every length.  The mapping lays the undo      *)
(* stack, the current version and the redo stack (turned round) end to     *)
(* end.                                                                    *)

\* The versions on the line, by their distance along it.
LEMMA LineVersions ==
  ASSUME TypeOK
  PROVE  /\ Len(undo) \in Nat /\ Len(redo) \in Nat
         /\ Len(Line) = Len(undo) + 1 + Len(redo)
         /\ DOMAIN Line = 1 .. Len(undo) + 1 + Len(redo)
         /\ \A k \in 1 .. Len(undo) : Line[k] = undo[k].to
         /\ Line[Len(undo) + 1] = Base
         /\ \A k \in 1 .. Len(redo) : Line[Len(undo) + Len(redo) + 2 - k] = redo[k].to
<1>1. Len(undo) \in Nat /\ Len(redo) \in Nat
  BY DEF TypeOK
<1>2. Len(Line) = Len(undo) + 1 + Len(redo)
  BY <1>1 DEF Line
<1>3. DOMAIN Line = 1 .. Len(undo) + 1 + Len(redo)
  BY DEF Line
<1>4. \A k \in 1 .. Len(undo) : Line[k] = undo[k].to
  BY <1>1 DEF Line
<1>5. Line[Len(undo) + 1] = Base
  BY <1>1 DEF Line
<1>6. ASSUME NEW k \in 1 .. Len(redo)
      PROVE  Line[Len(undo) + Len(redo) + 2 - k] = redo[k].to
  <2>1. /\ Len(undo) + Len(redo) + 2 - k \in 1 .. Len(undo) + 1 + Len(redo)
        /\ ~(Len(undo) + Len(redo) + 2 - k <= Len(undo))
        /\ Len(undo) + Len(redo) + 2 - k # Len(undo) + 1
        /\ Len(undo) + Len(redo) + 2 - (Len(undo) + Len(redo) + 2 - k) = k
    BY <1>1
  <2> QED
    BY <2>1 DEF Line
<1> QED
  BY <1>1, <1>2, <1>3, <1>4, <1>5, <1>6

\* An edit that becomes the newest version: the line keeps its first part, up
\* to the version the edit started from, and ends with the new contents.
LEMMA LineExtended ==
  ASSUME TypeOK, TypeOK', NEW e \in Entries,
         undo' = Append(undo, e), redo' = << >>, e.to = Base, Base' = data'
  PROVE  Line' = Timeline!Extended(data') /\ Len(undo') + 1 = (Len(undo) + 1) + 1
<1> DEFINE n == Len(undo)
<1>1. n \in Nat /\ Len(undo') = n + 1 /\ Len(redo') = 0
  BY PushEntries DEF TypeOK
<1>2. \A k \in 1 .. n : undo'[k] = undo[k]
  BY PushEntries DEF TypeOK
<1>3. undo'[n + 1] = e
  BY PushEntries DEF TypeOK
<1>4. \A k \in 1 .. n + 2 : Line'[k] = IF k <= n + 1 THEN Line[k] ELSE data'
  <2> SUFFICES ASSUME NEW k \in 1 .. n + 2
               PROVE  Line'[k] = IF k <= n + 1 THEN Line[k] ELSE data'
    OBVIOUS
  <2>1. CASE k <= n
    <3>1. Line'[k] = undo'[k].to
      BY <1>1, <2>1 DEF Line
    <3>2. Line[k] = undo[k].to
      BY <1>1, <2>1, LineVersions
    <3> QED
      BY <1>1, <1>2, <2>1, <3>1, <3>2
  <2>2. CASE k = n + 1
    <3>1. Line'[k] = undo'[k].to
      BY <1>1, <2>2 DEF Line
    <3> QED
      BY <1>1, <1>3, <2>2, <3>1, LineVersions
  <2>3. CASE k = n + 2
    <3>1. Line'[k] = Base'
      BY <1>1, <2>3 DEF Line
    <3> QED
      BY <1>1, <2>3, <3>1
  <2> QED
    BY <1>1, <2>1, <2>2, <2>3
<1>5. Line' = [k \in 1 .. n + 2 |-> Line'[k]]
  BY <1>1 DEF Line
<1>6. Timeline!Extended(data') = [k \in 1 .. n + 2 |-> IF k <= n + 1 THEN Line[k] ELSE data']
  BY <1>1 DEF Timeline!Extended
<1> HIDE DEF n
<1>7. Line' = Timeline!Extended(data')
  BY <1>4, <1>5, <1>6
<1> QED
  BY <1>1, <1>7 DEF n

\* An undo step moves one version from the undo to the redo side and leaves the
\* line as it is; a redo step the other way round.
LEMMA LineUndone ==
  ASSUME TypeOK, TypeOK', Len(undo) > 0, Base = data, Base' = data',
         undo' = Pop(undo), redo' = Append(redo, Entry(data', data, sel)),
         data' = Top(undo).to
  PROVE  Line' = Line
<1> DEFINE n == Len(undo)
           m == Len(redo)
<1>1. n \in Nat /\ m \in Nat /\ undo # << >>
  BY DEF TypeOK
<1>2. Len(undo') = n - 1 /\ \A k \in 1 .. n - 1 : undo'[k] = undo[k]
  BY <1>1, PopEntries DEF TypeOK
<1>3. Entry(data', data, sel) \in Entries /\ Entry(data', data, sel).to = data
  BY EntryType DEF TypeOK
<1>4. Len(redo') = m + 1 /\ \A k \in 1 .. m : redo'[k] = redo[k]
  BY <1>3, PushEntries DEF TypeOK
<1>5. redo'[m + 1].to = data
  BY <1>3, PushEntries DEF TypeOK
<1>6. \A k \in 1 .. n + 1 + m : Line'[k] = Line[k]
  <2> SUFFICES ASSUME NEW k \in 1 .. n + 1 + m PROVE Line'[k] = Line[k]
    OBVIOUS
  <2>0. k \in 1 .. Len(undo') + 1 + Len(redo')
    BY <1>1, <1>2, <1>4
  <2>1. CASE k <= n - 1
    BY <1>1, <1>2, <1>4, <2>0, <2>1 DEF Line
  <2>2. CASE k = n
    <3>1. Line'[k] = data'
      BY <1>1, <1>2, <1>4, <2>0, <2>2 DEF Line
    <3>2. Line[k] = undo[n].to
      BY <1>1, <2>2 DEF Line
    <3> QED
      BY <3>1, <3>2 DEF Top
  <2>3. CASE k = n + 1
    <3>1. Line'[k] = redo'[m + 1].to
      BY <1>1, <1>2, <1>4, <2>0, <2>3 DEF Line
    <3>2. Line[k] = data
      BY <1>1, <2>3 DEF Line
    <3> QED
      BY <1>5, <3>1, <3>2
  <2>4. CASE k > n + 1
    <3>1. n + m + 2 - k \in 1 .. m
      BY <1>1, <2>4
    <3>2. Line'[k] = redo'[n + m + 2 - k].to
      BY <1>1, <1>2, <1>4, <2>0, <2>4 DEF Line
    <3>3. Line[k] = redo[n + m + 2 - k].to
      BY <1>1, <2>4 DEF Line
    <3> QED
      BY <1>4, <3>1, <3>2, <3>3
  <2> QED
    BY <1>1, <2>1, <2>2, <2>3, <2>4
<1>7. Line = [k \in 1 .. n + 1 + m |-> Line[k]]
  BY DEF Line
<1>8. Line' = [k \in 1 .. n + 1 + m |-> Line'[k]]
  <2>1. Line' = [k \in 1 .. Len(undo') + 1 + Len(redo') |-> Line'[k]]
    BY DEF Line
  <2>2. Len(undo') + 1 + Len(redo') = n + 1 + m
    BY <1>1, <1>2, <1>4
  <2> HIDE DEF n, m
  <2> QED
    BY <2>1, <2>2
<1> HIDE DEF n, m
<1> QED
  BY <1>6, <1>7, <1>8

LEMMA LineRedone ==
  ASSUME TypeOK, TypeOK', Len(redo) > 0, Base = data, Base' = data',
         redo' = Pop(redo), undo' = Append(undo, Entry(data', data, sel)),
         data' = Top(redo).to
  PROVE  Line' = Line
<1> DEFINE n == Len(undo)
           m == Len(redo)
<1>1. n \in Nat /\ m \in Nat /\ redo # << >>
  BY DEF TypeOK
<1>2. Len(redo') = m - 1 /\ \A k \in 1 .. m - 1 : redo'[k] = redo[k]
  BY <1>1, PopEntries DEF TypeOK
<1>3. Entry(data', data, sel) \in Entries /\ Entry(data', data, sel).to = data
  BY EntryType DEF TypeOK
<1>4. Len(undo') = n + 1 /\ \A k \in 1 .. n : undo'[k] = undo[k]
  BY <1>3, PushEntries DEF TypeOK
<1>5. undo'[n + 1].to = data
  BY <1>3, PushEntries DEF TypeOK
<1>6. \A k \in 1 .. n + 1 + m : Line'[k] = Line[k]
  <2> SUFFICES ASSUME NEW k \in 1 .. n + 1 + m PROVE Line'[k] = Line[k]
    OBVIOUS
  <2>0. k \in 1 .. Len(undo') + 1 + Len(redo')
    BY <1>1, <1>2, <1>4
  <2>1. CASE k <= n
    BY <1>1, <1>2, <1>4, <2>0, <2>1 DEF Line
  <2>2. CASE k = n + 1
    <3>1. Line'[k] = undo'[n + 1].to
      BY <1>1, <1>2, <1>4, <2>0, <2>2 DEF Line
    <3>2. Line[k] = data
      BY <1>1, <2>2 DEF Line
    <3> QED
      BY <1>5, <3>1, <3>2
  <2>3. CASE k = n + 2
    <3>1. Line'[k] = data'
      BY <1>1, <1>2, <1>4, <2>0, <2>3 DEF Line
    <3>2. Line[k] = redo[m].to
      BY <1>1, <2>3 DEF Line
    <3> QED
      BY <3>1, <3>2 DEF Top
  <2>4. CASE k > n + 2
    <3>1. n + m + 2 - k \in 1 .. m - 1
      BY <1>1, <2>4
    <3>2. Line'[k] = redo'[n + m + 2 - k].to
      BY <1>1, <1>2, <1>4, <2>0, <2>4 DEF Line
    <3>3. Line[k] = redo[n + m + 2 - k].to
      BY <1>1, <2>4 DEF Line
    <3> QED
      BY <1>2, <3>1, <3>2, <3>3
  <2> QED
    BY <1>1, <2>1, <2>2, <2>3, <2>4
<1>7. Line = [k \in 1 .. n + 1 + m |-> Line[k]]
  BY DEF Line
<1>8. Line' = [k \in 1 .. n + 1 + m |-> Line'[k]]
  <2>1. Line' = [k \in 1 .. Len(undo') + 1 + Len(redo') |-> Line'[k]]
    BY DEF Line
  <2>2. Len(undo') + 1 + Len(redo') = n + 1 + m
    BY <1>1, <1>2, <1>4
  <2> HIDE DEF n, m
  <2> QED
    BY <2>1, <2>2
<1> HIDE DEF n, m
<1> QED
  BY <1>6, <1>7, <1>8

-----------------------------------------------------------------------------
\* Every step of the history is a step of the timeline, or changes nothing there.
LEMMA TimelineStep ==
  TypeOK /\ TypeOK' /\ EntriesLinked /\ [Next]_vars => [Timeline!Next]_(Timeline!vars)
<1> SUFFICES ASSUME TypeOK, TypeOK', EntriesLinked, [Next]_vars
             PROVE  [Timeline!Next]_(Timeline!vars)
  OBVIOUS
<1>0. Len(undo) \in Nat /\ Len(redo) \in Nat /\ data' \in Content
  BY DEF TypeOK
<1>e. Entry(data', data, sel) \in Entries /\ Entry(data', data, sel).to = data
  BY EntryType DEF TypeOK
<1>1. CASE FinalEdit
  <2>1. partial = << >> /\ partial' = << >> /\ Base = data /\ Base' = data'
    BY <1>1 DEF FinalEdit, Base
  <2>2. undo' = Append(undo, Entry(data', data, sel)) /\ redo' = << >>
    BY <1>1 DEF FinalEdit
  <2>3. Line' = Timeline!Extended(data') /\ Len(undo') + 1 = (Len(undo) + 1) + 1
    BY <1>e, <2>1, <2>2, LineExtended
  <2>4. Timeline!Edit
    BY <1>0, <2>1, <2>3 DEF Timeline!Edit
  <2> QED
    BY <2>4 DEF Timeline!Next
<1>2. CASE PartialEdit
  <2>1. partial' # << >>
    BY <1>2 DEF PartialEdit
  <2>2. Base' = Base
    <3>1. CASE partial = << >>
      BY <1>2, <1>e, <3>1 DEF PartialEdit, Base
    <3>2. CASE partial # << >>
      <4>1. partial[1].to \in Content /\ partial[1].sel \in Selections
        BY <3>2, PartialEntry
      <4>2. Entry(data', partial[1].to, partial[1].sel).to = partial[1].to
        BY <1>0, <4>1, EntryType
      <4> QED
        BY <1>2, <3>2, <4>2 DEF PartialEdit, Base
    <3> QED
      BY <3>1, <3>2
  <2>3. undo' = undo /\ redo' = redo
    BY <1>2 DEF PartialEdit
  <2>4. Line' = Line
    BY <2>2, <2>3 DEF Line
  <2>5. Timeline!Draft
    BY <1>0, <2>1, <2>3, <2>4 DEF Timeline!Draft
  <2> QED
    BY <2>5 DEF Timeline!Next
<1>3. CASE Commit
  <2>1. partial # << >> /\ partial' = << >> /\ data' = data
    BY <1>3 DEF Commit
  <2>2. undo' = Append(undo, partial[1]) /\ redo' = << >>
    BY <1>3 DEF Commit
  <2>3. partial[1] \in Entries /\ partial[1].to = Base /\ Base' = data'
    BY <2>1, PartialEntry DEF Base
  <2>4. Line' = Timeline!Extended(data') /\ Len(undo') + 1 = (Len(undo) + 1) + 1
    BY <2>2, <2>3, LineExtended
  <2>5. Timeline!Commit
    BY <2>1, <2>4 DEF Timeline!Commit
  <2> QED
    BY <2>5 DEF Timeline!Next
<1>4. CASE Undo
  <2>1. partial = << >> /\ partial' = << >> /\ Base = data /\ Base' = data'
    BY <1>4 DEF Undo, Follow, Base
  <2>2. undo # << >> /\ Linked(undo, data)
    BY <1>4, <2>1 DEF Undo, EntriesLinked
  <2>3. data' = Top(undo).to
    BY <1>4, <2>2, FollowTop DEF Undo, TypeOK
  <2>4. /\ Len(undo) > 0
        /\ undo' = Pop(undo)
        /\ redo' = Append(redo, Entry(data', data, sel))
    BY <1>4, <2>2 DEF Undo, TypeOK
  <2>5. Line' = Line
    BY <2>1, <2>3, <2>4, LineUndone
  <2>6. Len(undo') + 1 = (Len(undo) + 1) - 1
    <3>1. undo \in Seq(Entries)
      BY DEF TypeOK
    <3>2. Len(undo') = Len(undo) - 1
      BY <2>2, <2>4, <3>1, PopEntries
    <3> QED
      BY <1>0, <3>2
  <2>7. Line[Len(undo)] = data'
    BY <1>0, <2>3, <2>4, LineVersions DEF Top
  <2>8. Len(undo) \in 1 .. Len(Line)
    BY <1>0, <2>4, LineVersions
  <2>9. (Len(undo) + 1) - 1 = Len(undo)
    BY <1>0
  <2>10. Timeline!Undo
    BY <2>1, <2>5, <2>6, <2>7, <2>8, <2>9 DEF Timeline!Undo, Timeline!GoTo
  <2> QED
    BY <2>10 DEF Timeline!Next
<1>5. CASE Redo
  <2>1. partial = << >> /\ partial' = << >> /\ Base = data /\ Base' = data'
    BY <1>5 DEF Redo, Follow, Base
  <2>2. redo # << >> /\ Linked(redo, data)
    BY <1>5, <2>1 DEF Redo, EntriesLinked
  <2>3. data' = Top(redo).to
    BY <1>5, <2>2, FollowTop DEF Redo, TypeOK
  <2>4. /\ Len(redo) > 0
        /\ redo' = Pop(redo)
        /\ undo' = Append(undo, Entry(data', data, sel))
    BY <1>5, <2>2 DEF Redo, TypeOK
  <2>5. Line' = Line
    BY <2>1, <2>3, <2>4, LineRedone
  <2>6. Len(undo') + 1 = (Len(undo) + 1) + 1
    BY <1>0, <1>e, <2>4, PushEntries DEF TypeOK
  <2>7. Line[(Len(undo) + 1) + 1] = data'
    <3>1. Line[Len(undo) + Len(redo) + 2 - Len(redo)] = redo[Len(redo)].to
      BY <1>0, <2>4, LineVersions
    <3>2. Len(undo) + Len(redo) + 2 - Len(redo) = (Len(undo) + 1) + 1
      BY <1>0
    <3> QED
      BY <2>3, <3>1, <3>2 DEF Top
  <2>8. (Len(undo) + 1) + 1 \in 1 .. Len(Line)
    BY <1>0, <2>4, LineVersions
  <2>9. Timeline!Redo
    BY <2>1, <2>5, <2>6, <2>7, <2>8 DEF Timeline!Redo, Timeline!GoTo
  <2> QED
    BY <2>9 DEF Timeline!Next
<1>6. CASE Select
  <2>1. UNCHANGED Timeline!vars
    BY <1>6 DEF Select, Timeline!vars, Line, Base
  <2> QED
    BY <2>1
<1>7. CASE UNCHANGED vars
  <2>1. UNCHANGED Timeline!vars
    BY <1>7 DEF vars, Timeline!vars, Line, Base
  <2> QED
    BY <2>1
<1> QED
  BY <1>1, <1>2, <1>3, <1>4, <1>5, <1>6, <1>7 DEF Next

\* History::undo and redo, perform_final, perform_partial and commit_partial
\* move the buffer along one line of versions: undo and redo lose no version,
\* and an insertion of many keystrokes is one step of the line.
THEOREM ImplementsTimeline == Spec => TimelineSpec
<1>1. Init => Timeline!Init
  <2> SUFFICES ASSUME Init PROVE Timeline!Init
    OBVIOUS
  <2>1. undo = << >> /\ redo = << >> /\ partial = << >> /\ data \in Content
    BY DEF Init
  <2>2. Len(undo) = 0 /\ Len(redo) = 0 /\ Base = data
    BY <2>1 DEF Base
  <2>3. Line = [k \in 1 .. 1 |-> data]
    BY <2>2 DEF Line
  <2>4. Line = << data >>
    BY <2>3
  <2> QED
    BY <2>1, <2>2, <2>4 DEF Timeline!Init
<1> QED
  BY <1>1, TypeCorrect, EntriesStayLinked, TimelineStep, PTL
     DEF Spec, TimelineSpec, Timeline!Spec
=============================================================================
