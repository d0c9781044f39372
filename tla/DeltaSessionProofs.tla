------------------------- MODULE DeltaSessionProofs -------------------------
(***************************************************************************)
(* The newest history entry leads back, whatever the session: for every    *)
(* length of the buffer and of the session, every typed byte and every     *)
(* original.  The delta algebra it rests on is proved in DeltaProofs.      *)
(***************************************************************************)
EXTENDS DeltaSession, DeltaProofs

\* The buffer and the entry, and what the entry is for.
SessionInv ==
  /\ data \in Text /\ origin \in Text
  /\ inverse \in Deltas(Len(data))
  /\ open \in BOOLEAN
  /\ ApplyDelta(data, inverse) = origin

\* The regions of a selection of the session.
LEMMA SelectionsType ==
  ASSUME NEW n \in Nat, NEW sel \in Selections(n)
  PROVE  sel.regions \in Seq(Regions)
<1> DEFINE ends == {Region(c, t) : c \in 0 .. n, t \in 0 .. n}
<1>1. \A r \in ends : r \in Regions
  <2>1. \A c, t \in 0 .. n : Region(c, t) \in Regions
    BY DEF Region, Regions
  <2> QED BY <2>1
<1>2. sel.regions \in {<< a >> : a \in ends} \cup {<< a, b >> : a \in ends, b \in ends}
  BY DEF Selections
<1> HIDE DEF ends
<1>3. (\E a \in ends : sel.regions = << a >>) \/ (\E a, b \in ends : sel.regions = << a, b >>)
  BY <1>2
<1>4. \A a \in Regions : << a >> \in Seq(Regions)
  OBVIOUS
<1>5. \A a, b \in Regions : << a, b >> \in Seq(Regions)
  OBVIOUS
<1> QED BY <1>1, <1>3, <1>4, <1>5

\* Action::perform_final, perform_partial: whatever edits are made, the entry leads
\* back to where it started.
LEMMA PerformStep ==
  ASSUME NEW edits \in Seq(Edits), NEW final \in BOOLEAN, SessionInv, Perform(edits, final)
  PROVE  SessionInv'
<1>1. /\ data \in Text /\ origin \in Text /\ inverse \in Deltas(Len(data))
      /\ ApplyDelta(data, inverse) = origin /\ Len(data) \in Nat
  BY TextElements DEF SessionInv
<1>2. PICK d \in Deltas(Len(data)) : d = Build(Len(data), edits)
  BY <1>1, BuildType
<1>3. /\ data' = ApplyDelta(data, d)
      /\ origin' = IF final \/ ~open THEN data ELSE origin
      /\ inverse' = IF final THEN Invert(d, data) ELSE ChainedInverse(d)
      /\ open' = ~final
  BY <1>2 DEF Perform
<1>4. PICK e : /\ e = Invert(d, data) /\ e \in Deltas(Len(data'))
               /\ ApplyDelta(data', e) = data
  BY <1>1, <1>3, InvertUndoes
<1>5. data' \in Text
  BY <1>1, <1>3, ApplyType
<1>6. CASE final \/ ~open
  <2>1. inverse' = e /\ origin' = data
    BY <1>3, <1>4, <1>6 DEF ChainedInverse
  <2> QED BY <1>1, <1>3, <1>4, <1>5, <2>1 DEF SessionInv
<1>7. CASE ~final /\ open
  <2>1. inverse' = Chain(e, data, inverse) /\ origin' = origin
    BY <1>3, <1>4, <1>7 DEF ChainedInverse
  <2>2. /\ Chain(e, data, inverse) \in Deltas(Len(data'))
        /\ ApplyDelta(data', Chain(e, data, inverse)) = ApplyDelta(data, inverse)
    BY <1>1, <1>4, <1>5, ChainApplies
  <2> QED BY <1>1, <1>3, <1>5, <2>1, <2>2 DEF SessionInv
<1> QED BY <1>6, <1>7

\* The entry of a buffer just opened changes nothing.
LEMMA SessionInit == Init => SessionInv
<1> SUFFICES ASSUME Init PROVE SessionInv
  OBVIOUS
<1>1. data \in Text /\ origin = data /\ inverse = Build(Len(data), << >>) /\ open = FALSE
  BY SessionAssumption DEF Init, Identity, Text
<1>2. inverse \in Deltas(Len(data)) /\ ApplyDelta(data, inverse) = data
  BY <1>1, BuildNothing
<1> QED BY <1>1, <1>2 DEF SessionInv

\* Every step of a session keeps the invariant.
LEMMA SessionStep == SessionInv /\ [Next]_vars => SessionInv'
<1> SUFFICES ASSUME SessionInv, [Next]_vars PROVE SessionInv'
  OBVIOUS
<1>1. data \in Text /\ Len(data) \in Nat
  BY TextElements DEF SessionInv
<1>2. TRUE \in BOOLEAN /\ FALSE \in BOOLEAN
  OBVIOUS
<1>3. CASE TypeByte
  <2>1. PICK sel \in Selections(Len(data)), b \in Typed :
          \/ Perform(Insert(data, sel, << b >>), FALSE)
          \/ Perform(Change(data, sel, << b >>), FALSE)
          \/ Perform(OverwriteHalf(data, sel, 16 * (b \div 16)), FALSE)
    BY <1>3 DEF TypeByte
  <2>2. sel.regions \in Seq(Regions)
    BY <1>1, SelectionsType
  <2>3. b \in Bytes /\ << b >> \in Text
    BY SessionAssumption, TextConcat
  <2>4. b \div 16 \in 0 .. 15
    BY <2>3 DEF Bytes
  <2>5. Insert(data, sel, << b >>) \in Seq(Edits) /\ Change(data, sel, << b >>) \in Seq(Edits)
    BY <1>1, <2>2, <2>3, OperationsType
  <2>6. OverwriteHalf(data, sel, 16 * (b \div 16)) \in Seq(Edits)
    BY <1>1, <2>2, <2>4, OperationsType
  <2> QED BY <1>2, <2>1, <2>5, <2>6, PerformStep
<1>4. CASE EraseByte
  <2>1. PICK sel \in Selections(Len(data)) :
          \/ Perform(Backspace(data, sel), FALSE)
          \/ Perform(DeleteCursor(data, sel), FALSE)
    BY <1>4 DEF EraseByte
  <2>2. sel.regions \in Seq(Regions)
    BY <1>1, SelectionsType
  <2>3. Backspace(data, sel) \in Seq(Edits) /\ DeleteCursor(data, sel) \in Seq(Edits)
    BY <1>1, <2>2, OperationsType
  <2> QED BY <1>2, <2>1, <2>3, PerformStep
<1>5. CASE FinalEdit
  <2>1. PICK sel \in Selections(Len(data)), b \in Typed :
          \/ Perform(Deletion(data, sel), TRUE)
          \/ Perform(Replace(data, sel, b), TRUE)
          \/ \E after \in BOOLEAN : Perform(Paste(data, sel, << << >>, << b >> >>, after, 1), TRUE)
    BY <1>5 DEF FinalEdit
  <2>2. sel.regions \in Seq(Regions)
    BY <1>1, SelectionsType
  <2>3. b \in Bytes /\ << b >> \in Text /\ << >> \in Text
    BY SessionAssumption, TextConcat
  <2>4. PICK register \in Seq(Text) : register = << << >>, << b >> >> /\ register # << >>
    <3>1. \A s, t \in Text : << s, t >> \in Seq(Text) /\ << s, t >> # << >>
      OBVIOUS
    <3> QED BY <2>3, <3>1
  <2>5. Deletion(data, sel) \in Seq(Edits) /\ Replace(data, sel, b) \in Seq(Edits)
    BY <1>1, <2>2, <2>3, OperationsType
  <2>6. \A after \in BOOLEAN : Paste(data, sel, register, after, 1) \in Seq(Edits)
    BY <1>1, <2>2, <2>4, OperationsType
  <2>7. CASE Perform(Deletion(data, sel), TRUE) \/ Perform(Replace(data, sel, b), TRUE)
    BY <1>2, <2>5, <2>7, PerformStep
  <2>8. CASE \E after \in BOOLEAN : Perform(Paste(data, sel, register, after, 1), TRUE)
    BY <1>2, <2>6, <2>8, PerformStep
  <2> QED BY <2>1, <2>4, <2>7, <2>8
<1>6. CASE Commit
  BY <1>6 DEF Commit, SessionInv
<1>7. CASE UNCHANGED vars
  BY <1>7 DEF vars, SessionInv
<1> QED BY <1>3, <1>4, <1>5, <1>6, <1>7 DEF Next

\* However many deltas are chained into it, the newest history entry leads from the
\* buffer back to the contents it started from: perform_partial, Action::invert and
\* Action::chain, for every session.
THEOREM EntryAlwaysLeadsBack == Spec => []EntryLeadsBack
<1>1. SessionInv => EntryLeadsBack
  BY DeltaFits DEF SessionInv, EntryLeadsBack
<1> QED BY <1>1, SessionInit, SessionStep, PTL DEF Spec

\* The entry, inverted against the buffer as undo does, leads forward again.
THEOREM EntryAlwaysInverts == Spec => []EntryInverts
<1>1. SessionInv => EntryInverts
  <2> SUFFICES ASSUME SessionInv PROVE EntryInverts
    OBVIOUS
  <2>1. data \in Text /\ inverse \in Deltas(Len(data)) /\ ApplyDelta(data, inverse) = origin
    BY DEF SessionInv
  <2>2. ApplyDelta(ApplyDelta(data, inverse), Invert(inverse, data)) = data
    BY <2>1, InvertUndoes
  <2> QED BY <2>1, <2>2 DEF EntryInverts
<1> QED BY <1>1, SessionInit, SessionStep, PTL DEF Spec
=============================================================================
