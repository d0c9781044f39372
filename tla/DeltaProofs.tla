----------------------------- MODULE DeltaProofs -----------------------------
(***************************************************************************)
(* The delta algebra, for every text and every delta: what                 *)
(* Delta::synthesize makes of a union string, that Action::invert leads    *)
(* back and, done twice, gives the delta it was given, and that            *)
(* Action::chain does one delta and then another.                          *)
(*                                                                         *)
(* A union string u is read twice: Read(u, InBase) is what it is in the    *)
(* base of the delta, Read(u, InOutcome) what it is in the outcome.  The   *)
(* results say how the two readings of one string follow from those        *)
(* of another.  Every loop of Delta is first shown to be the loop it is    *)
(* written as (the lemmas ...Def), by the induction of RecursionLemmas.    *)
(* Types and conclusions that contain \o or Append are kept behind names   *)
(* (Text, Joins, Longer, ...), so that a lemma is applied by its name and  *)
(* opened only where its content is needed.                                *)
(***************************************************************************)
EXTENDS Delta, RecursionLemmas, SequenceTheorems, TLAPS

Text    == Seq(Bytes)
Tags    == [byte : Bytes, from : BOOLEAN, to : BOOLEAN]
Strings == Seq(Tags)

-----------------------------------------------------------------------------
(* Strings of bytes and union strings.                                     *)

\* Putting texts together, and adding a byte to one.
LEMMA TextConcat ==
  /\ << >> \in Text
  /\ \A s, t \in Text : s \o t \in Text
  /\ \A s \in Text : s \o << >> = s /\ << >> \o s = s
  /\ \A b \in Bytes : << b >> \in Text
  /\ \A s \in Text, b \in Bytes : Append(s, b) \in Text /\ Append(s, b) = s \o << b >>
  /\ \A r, s, t \in Text : (r \o s) \o t = r \o (s \o t)
  /\ \A s, t \in Text, b \in Bytes : Append(s \o t, b) = s \o Append(t, b)
<1>1. << >> \in Text /\ \A s, t \in Text : s \o t \in Text
  BY ConcatProperties DEF Text
<1>2. \A s \in Text : s \o << >> = s /\ << >> \o s = s
  BY ConcatEmptySeq DEF Text
<1>3. \A b \in Bytes : << b >> \in Text
  BY DEF Text
<1>4. \A s \in Text, b \in Bytes : Append(s, b) \in Text /\ Append(s, b) = s \o << b >>
  BY AppendIsConcat, AppendProperties DEF Text
<1>5. \A r, s, t \in Text : (r \o s) \o t = r \o (s \o t)
  BY ConcatAssociative DEF Text
<1>6. \A s, t \in Text, b \in Bytes : Append(s \o t, b) = s \o Append(t, b)
  <2> SUFFICES ASSUME NEW s \in Text, NEW t \in Text, NEW b \in Bytes
               PROVE  Append(s \o t, b) = s \o Append(t, b)
    OBVIOUS
  <2>1. Append(s \o t, b) = (s \o t) \o << b >>
    BY <1>1, <1>4
  <2>2. Append(t, b) = t \o << b >>
    BY <1>4
  <2>3. (s \o t) \o << b >> = s \o (t \o << b >>)
    BY <1>3, <1>5
  <2> QED BY <2>1, <2>2, <2>3
<1> QED BY <1>1, <1>2, <1>3, <1>4, <1>5, <1>6

\* The same of union strings.
LEMMA StringConcat ==
  /\ << >> \in Strings
  /\ \A s, t \in Strings : s \o t \in Strings
  /\ \A s \in Strings : s \o << >> = s /\ << >> \o s = s
  /\ \A c \in Tags : << c >> \in Strings
  /\ \A s \in Strings, c \in Tags : Append(s, c) \in Strings /\ Append(s, c) = s \o << c >>
<1>1. << >> \in Strings /\ \A s, t \in Strings : s \o t \in Strings
  BY ConcatProperties DEF Strings
<1>2. \A s \in Strings : s \o << >> = s /\ << >> \o s = s
  BY ConcatEmptySeq DEF Strings
<1>3. \A c \in Tags : << c >> \in Strings
  BY DEF Strings
<1>4. \A s \in Strings, c \in Tags : Append(s, c) \in Strings /\ Append(s, c) = s \o << c >>
  BY AppendIsConcat, AppendProperties DEF Strings
<1> QED BY <1>1, <1>2, <1>3, <1>4

\* Elements of the two strings that make up a third.
LEMMA StringElements ==
  /\ \A s \in Strings : Len(s) \in Nat /\ DOMAIN s = 1 .. Len(s)
  /\ \A s \in Strings : \A k \in 1 .. Len(s) : s[k] \in Tags
  /\ \A s, t \in Strings :
       /\ Len(s \o t) = Len(s) + Len(t)
       /\ \A k \in 1 .. Len(s) : (s \o t)[k] = s[k]
       /\ \A k \in 1 .. Len(t) : (s \o t)[Len(s) + k] = t[k]
<1>1. \A s \in Strings : Len(s) \in Nat /\ DOMAIN s = 1 .. Len(s)
  BY LenProperties DEF Strings
<1>2. \A s \in Strings : \A k \in 1 .. Len(s) : s[k] \in Tags
  BY ElementOfSeq DEF Strings
<1>3. \A s, t \in Strings :
       /\ Len(s \o t) = Len(s) + Len(t)
       /\ \A k \in 1 .. Len(s) : (s \o t)[k] = s[k]
       /\ \A k \in 1 .. Len(t) : (s \o t)[Len(s) + k] = t[k]
  <2> SUFFICES ASSUME NEW s \in Seq(Tags), NEW t \in Seq(Tags)
               PROVE  /\ Len(s \o t) = Len(s) + Len(t)
                      /\ \A k \in 1 .. Len(s) : (s \o t)[k] = s[k]
                      /\ \A k \in 1 .. Len(t) : (s \o t)[Len(s) + k] = t[k]
    BY DEF Strings
  <2> QED OBVIOUS
<1> QED BY <1>1, <1>2, <1>3

\* Fields of a tag.
LEMMA TagFields ==
  /\ \A c \in Tags : c.byte \in Bytes /\ c.from \in BOOLEAN /\ c.to \in BOOLEAN
  /\ \A b \in Bytes, x, y \in BOOLEAN :
       /\ Tag(b, x, y) \in Tags
       /\ Tag(b, x, y).byte = b /\ Tag(b, x, y).from = x /\ Tag(b, x, y).to = y
BY DEF Tags, Tag

\* The tag c is made of b, x and y.
TagIs(c, b, x, y) == c \in Tags /\ c.byte = b /\ (c.from <=> x) /\ (c.to <=> y)

\* Tags are made so.
LEMMA TagOf ==
  ASSUME NEW b \in Bytes, NEW x \in BOOLEAN, NEW y \in BOOLEAN
  PROVE  /\ TagIs(Tag(b, x, y), b, x, y)
         /\ TagIs(Tag(b, FALSE, y), b, FALSE, y)
         /\ TagIs(Tag(b, x, TRUE), b, x, TRUE)
<1>1. TagIs(Tag(b, x, y), b, x, y)
  BY DEF Tag, Tags, TagIs
<1>2. TagIs(Tag(b, FALSE, y), b, FALSE, y)
  BY DEF Tag, Tags, TagIs
<1>3. TagIs(Tag(b, x, TRUE), b, x, TRUE)
  BY DEF Tag, Tags, TagIs
<1> QED BY <1>1, <1>2, <1>3

\* Elements of a text, and two texts that are the same.
LEMMA TextElements ==
  /\ \A s \in Text : Len(s) \in Nat /\ DOMAIN s = 1 .. Len(s)
  /\ \A s \in Text : \A k \in 1 .. Len(s) : s[k] \in Bytes
  /\ \A s, t \in Text : Len(s) = Len(t) /\ (\A k \in 1 .. Len(s) : s[k] = t[k]) => s = t
<1>1. \A s \in Text : Len(s) \in Nat /\ DOMAIN s = 1 .. Len(s)
  BY LenProperties DEF Text
<1>2. \A s \in Text : \A k \in 1 .. Len(s) : s[k] \in Bytes
  BY ElementOfSeq DEF Text
<1>3. \A s, t \in Text : Len(s) = Len(t) /\ (\A k \in 1 .. Len(s) : s[k] = t[k]) => s = t
  BY SeqEqual DEF Text
<1> QED BY <1>1, <1>2, <1>3

\* The text r is s and then t.
Joins(r, s, t) == r = s \o t

\* The text r is s, then t and then v.
JoinsThree(r, s, t, v) == r = s \o t \o v

\* The text t is s with one more byte b.
Longer(t, s, b) ==
  /\ t \in Text
  /\ Len(t) = Len(s) + 1
  /\ \A k \in 1 .. Len(s) : t[k] = s[k]
  /\ t[Len(s) + 1] = b

\* Adding a byte makes it so.
LEMMA TextAppend ==
  ASSUME NEW s \in Text, NEW b \in Bytes
  PROVE  Longer(Append(s, b), s, b)
<1>1. s \in Seq(Bytes)
  BY DEF Text
<1> QED BY <1>1 DEF Longer, Text

-----------------------------------------------------------------------------
(* The outcome of a delta, gap by gap.                                     *)

\* A delta whose insertions are texts, and bytes for it to be applied to.
Fits(data, d) ==
  /\ d.base \in Nat
  /\ \A g \in 0 .. d.base : d.ins[g] \in Text
  /\ \A g \in 1 .. d.base : data[g] \in Bytes

\* What comes out of the g-th byte of the base.
Piece(data, d, g) == IF g - 1 \in d.del THEN << >> ELSE << data[g] >>

\* Outcome is the loop it is written as, and its states are texts.
LEMMA OutcomeDef ==
  ASSUME NEW d, NEW data, Fits(data, d)
  PROVE  /\ Outcome(data, d)[0] = d.ins[0]
         /\ \A g \in 1 .. d.base :
              Outcome(data, d)[g] = Outcome(data, d)[g - 1] \o Piece(data, d, g) \o d.ins[g]
         /\ \A g \in 0 .. d.base : Outcome(data, d)[g] \in Text
<1> DEFINE n == d.base
           a == d.ins[0]
           Step(s, g) == s \o Piece(data, d, g) \o d.ins[g]
           O == Outcome(data, d)
<1>1. n \in Nat /\ a \in Text
  BY DEF Fits
<1>2. ASSUME NEW s \in Text, NEW g \in 1 .. n PROVE Step(s, g) \in Text
  <2>1. Piece(data, d, g) \in Text /\ d.ins[g] \in Text
    BY TextConcat DEF Piece, Fits
  <2> QED BY <2>1, TextConcat
<1>3. O = CHOOSE h : h = [g \in 0 .. n |-> IF g = 0 THEN a ELSE Step(h[g - 1], g)]
  BY DEF Outcome, Piece
<1>4. /\ O[0] = a
      /\ \A g \in 1 .. n : O[g] = Step(O[g - 1], g)
      /\ \A g \in 0 .. n : O[g] \in Text
  <2> DEFINE step == [p \in Text \X (1 .. n) |-> Step(p[1], p[2])]
  <2> HIDE DEF Step, a, n, O
  <2>1. step \in [Text \X (1 .. n) -> Text]
    BY <1>2
  <2>2. PICK f \in [0 .. n -> Text] : Runs(f, n, a, step)
    <3> HIDE DEF step
    <3> QED BY <1>1, <2>1, Loop
  <2>3. ASSUME NEW g \in 1 .. n PROVE f[g] = Step(f[g - 1], g)
    <3>1. f[g - 1] \in Text
      BY <1>1
    <3> QED BY <2>2, <3>1 DEF Runs
  <2>4. f = [g \in 0 .. n |-> IF g = 0 THEN a ELSE Step(f[g - 1], g)]
    <3>1. \A g \in 0 .. n : f[g] = IF g = 0 THEN a ELSE Step(f[g - 1], g)
      BY <1>1, <2>2, <2>3 DEF Runs
    <3> QED BY <3>1
  <2>5. O = [g \in 0 .. n |-> IF g = 0 THEN a ELSE Step(O[g - 1], g)]
    BY <1>3, <2>4
  <2>6. O[0] = a /\ \A g \in 1 .. n : O[g] = Step(O[g - 1], g)
    BY <1>1, <2>5
  <2>7. \A g \in 0 .. n : O[g] \in Text
    <3>1. O[0] \in Text /\ \A g \in 1 .. n : O[g - 1] \in Text => O[g] \in Text
      BY <1>1, <1>2, <2>6
    <3> QED BY <1>1, <3>1, LoopType
  <2> QED BY <2>6, <2>7
<1> QED BY <1>4

\* Two deltas do the same to their bytes up to gap n.
Agree(data, d, other, e, n) ==
  /\ n \in Nat /\ n <= d.base /\ n <= e.base
  /\ \A g \in 0 .. n : d.ins[g] = e.ins[g]
  /\ \A g \in 1 .. n : Piece(data, d, g) = Piece(other, e, g)

\* Deltas that agree up to a gap have the same outcome up to there.
LEMMA OutcomeSame ==
  ASSUME NEW d, NEW data, NEW e, NEW other, NEW n,
         Fits(data, d), Fits(other, e), Agree(data, d, other, e, n)
  PROVE  \A g \in 0 .. n : Outcome(data, d)[g] = Outcome(other, e)[g]
<1> DEFINE O == Outcome(data, d)
           P == Outcome(other, e)
           S == {g \in 0 .. n : O[g] = P[g]}
<1>1. n \in Nat /\ d.base \in Nat /\ e.base \in Nat /\ n <= d.base /\ n <= e.base
  BY DEF Agree, Fits
<1>2. /\ O[0] = d.ins[0]
      /\ \A g \in 1 .. d.base : O[g] = O[g - 1] \o Piece(data, d, g) \o d.ins[g]
  BY OutcomeDef
<1>3. /\ P[0] = e.ins[0]
      /\ \A g \in 1 .. e.base : P[g] = P[g - 1] \o Piece(other, e, g) \o e.ins[g]
  BY OutcomeDef
<1> HIDE DEF O, P
<1>4. 0 \in S
  BY <1>1, <1>2, <1>3 DEF Agree
<1>5. \A g \in 0 .. n - 1 : g \in S => g + 1 \in S
  <2> SUFFICES ASSUME NEW g \in 0 .. n - 1, g \in S PROVE g + 1 \in S
    OBVIOUS
  <2>1. /\ g + 1 \in 1 .. n /\ g + 1 \in 0 .. n /\ (g + 1) - 1 = g /\ O[g] = P[g]
        /\ g + 1 \in 1 .. d.base /\ g + 1 \in 1 .. e.base
    BY <1>1
  <2>2. d.ins[g + 1] = e.ins[g + 1] /\ Piece(data, d, g + 1) = Piece(other, e, g + 1)
    BY <2>1 DEF Agree
  <2>3. O[g + 1] = P[g + 1]
    <3> HIDE DEF S
    <3> QED BY <1>2, <1>3, <2>1, <2>2
  <2> QED BY <2>1, <2>3
<1>6. \A g \in 0 .. n : g \in S
  <2> HIDE DEF S
  <2> QED BY <1>1, <1>4, <1>5, Induction
<1>7. \A g \in 0 .. n : O[g] = P[g]
  BY <1>6
<1> QED BY <1>7 DEF O, P

\* From gap on the delta deletes everything and inserts nothing more.
Flat(d, gap) ==
  /\ gap \in 0 .. d.base
  /\ \A i \in gap .. d.base - 1 : i \in d.del
  /\ \A g \in gap + 1 .. d.base : d.ins[g] = << >>

\* Nothing comes out of that part.
LEMMA OutcomeFlat ==
  ASSUME NEW d, NEW data, NEW gap, Fits(data, d), Flat(d, gap)
  PROVE  \A g \in gap .. d.base : Outcome(data, d)[g] = Outcome(data, d)[gap]
<1> DEFINE O == Outcome(data, d)
           n == d.base
           S == {g \in gap .. n : O[g] = O[gap]}
<1>1. n \in Int /\ gap \in Int /\ 0 <= gap /\ gap <= n
  BY DEF Flat, Fits
<1>2. \A g \in 1 .. n : O[g] = O[g - 1] \o Piece(data, d, g) \o d.ins[g]
  BY OutcomeDef
<1>3. \A g \in 0 .. n : O[g] \in Text
  BY OutcomeDef
<1> HIDE DEF O
<1>4. gap \in S
  BY <1>1
<1>5. \A g \in gap .. n - 1 : g \in S => g + 1 \in S
  <2> SUFFICES ASSUME NEW g \in gap .. n - 1, g \in S PROVE g + 1 \in S
    OBVIOUS
  <2>1. /\ g + 1 \in 1 .. n /\ (g + 1) - 1 = g /\ g \in 0 .. n /\ g + 1 \in gap .. n
        /\ g + 1 \in gap + 1 .. n /\ O[g] = O[gap]
    BY <1>1
  <2>2. g \in d.del /\ d.ins[g + 1] = << >>
    BY <1>1, <2>1 DEF Flat
  <2>3. Piece(data, d, g + 1) = << >>
    BY <2>1, <2>2 DEF Piece
  <2>4. O[g + 1] = O[g] \o << >> \o << >>
    <3> HIDE DEF S
    <3> QED BY <1>2, <2>1, <2>2, <2>3
  <2>5. O[g + 1] = O[g]
    BY <1>3, <2>1, <2>4, TextConcat
  <2> QED BY <2>1, <2>5
<1>6. \A g \in gap .. n : g \in S
  <2> HIDE DEF S, n
  <2> QED BY <1>1, <1>4, <1>5, InductionFrom
<1>7. \A g \in gap .. n : O[g] = O[gap]
  BY <1>6
<1> QED BY <1>7 DEF O

-----------------------------------------------------------------------------
(* Reading a union string: the bytes of those of its elements that are in  *)
(* a given set.                                                            *)

InBase    == {c \in Tags : ~c.from}
InOutcome == {c \in Tags : ~c.to}

ReadUpTo(u, T) ==
  LET r[k \in 0 .. Len(u)] ==
        IF k = 0 THEN << >>
        ELSE IF u[k] \in T THEN Append(r[k - 1], u[k].byte) ELSE r[k - 1]
  IN r

Read(u, T) == ReadUpTo(u, T)[Len(u)]

\* ReadUpTo is the loop it is written as, and its states are texts.
LEMMA ReadDef ==
  ASSUME NEW u \in Strings, NEW T
  PROVE  /\ ReadUpTo(u, T)[0] = << >>
         /\ \A k \in 1 .. Len(u) :
              ReadUpTo(u, T)[k] = IF u[k] \in T THEN Append(ReadUpTo(u, T)[k - 1], u[k].byte)
                                  ELSE ReadUpTo(u, T)[k - 1]
         /\ \A k \in 0 .. Len(u) : ReadUpTo(u, T)[k] \in Text
<1> DEFINE n == Len(u)
           a == << >>
           Step(s, k) == IF u[k] \in T THEN Append(s, u[k].byte) ELSE s
           O == ReadUpTo(u, T)
<1>1. n \in Nat /\ a \in Text
  BY StringElements, TextConcat
<1>2. ASSUME NEW s \in Text, NEW k \in 1 .. n PROVE Step(s, k) \in Text
  <2>1. u[k].byte \in Bytes
    BY StringElements, TagFields
  <2> QED BY <2>1, TextConcat
<1>3. O = CHOOSE h : h = [k \in 0 .. n |-> IF k = 0 THEN a ELSE Step(h[k - 1], k)]
  BY DEF ReadUpTo
<1>4. /\ O[0] = a
      /\ \A k \in 1 .. n : O[k] = Step(O[k - 1], k)
      /\ \A k \in 0 .. n : O[k] \in Text
  <2> DEFINE step == [p \in Text \X (1 .. n) |-> Step(p[1], p[2])]
  <2> HIDE DEF Step, a, n, O
  <2>1. step \in [Text \X (1 .. n) -> Text]
    BY <1>2
  <2>2. PICK f \in [0 .. n -> Text] : Runs(f, n, a, step)
    <3> HIDE DEF step
    <3> QED BY <1>1, <2>1, Loop
  <2>3. ASSUME NEW k \in 1 .. n PROVE f[k] = Step(f[k - 1], k)
    <3>1. f[k - 1] \in Text
      BY <1>1
    <3> QED BY <2>2, <3>1 DEF Runs
  <2>4. f = [k \in 0 .. n |-> IF k = 0 THEN a ELSE Step(f[k - 1], k)]
    <3>1. \A k \in 0 .. n : f[k] = IF k = 0 THEN a ELSE Step(f[k - 1], k)
      BY <1>1, <2>2, <2>3 DEF Runs
    <3> QED BY <3>1
  <2>5. O = [k \in 0 .. n |-> IF k = 0 THEN a ELSE Step(O[k - 1], k)]
    BY <1>3, <2>4
  <2>6. O[0] = a /\ \A k \in 1 .. n : O[k] = Step(O[k - 1], k)
    BY <1>1, <2>5
  <2>7. \A k \in 0 .. n : O[k] \in Text
    <3>1. O[0] \in Text /\ \A k \in 1 .. n : O[k - 1] \in Text => O[k] \in Text
      BY <1>1, <1>2, <2>6
    <3> QED BY <1>1, <3>1, LoopType
  <2> QED BY <2>6, <2>7
<1> QED BY <1>4

\* The first n elements of a string are the elements of another from m on.
Holds(w, m, u, n) ==
  /\ m \in Nat /\ n \in Nat /\ n <= Len(u) /\ m + n <= Len(w)
  /\ \A k \in 1 .. n : w[m + k] = u[k]

\* After what was read before it, a string is read as it is on its own.
LEMMA ReadOn ==
  ASSUME NEW u \in Strings, NEW w \in Strings, NEW T, NEW m \in Nat, NEW n \in Nat, Holds(w, m, u, n)
  PROVE  Joins(ReadUpTo(w, T)[m + n], ReadUpTo(w, T)[m], ReadUpTo(u, T)[n])
<1> DEFINE P == ReadUpTo(w, T)
           Q == ReadUpTo(u, T)
           S == {k \in 0 .. n : P[m + k] = P[m] \o Q[k]}
<1>1. /\ m \in Nat /\ n \in Nat /\ Len(u) \in Nat /\ Len(w) \in Nat
      /\ n <= Len(u) /\ m + n <= Len(w)
  BY StringElements DEF Holds
<1>2. /\ Q[0] = << >>
      /\ \A k \in 1 .. Len(u) : Q[k] = IF u[k] \in T THEN Append(Q[k - 1], u[k].byte) ELSE Q[k - 1]
      /\ \A k \in 0 .. Len(u) : Q[k] \in Text
  BY ReadDef
<1>3. /\ \A k \in 1 .. Len(w) : P[k] = IF w[k] \in T THEN Append(P[k - 1], w[k].byte) ELSE P[k - 1]
      /\ \A k \in 0 .. Len(w) : P[k] \in Text
  BY ReadDef
<1> HIDE DEF P, Q
<1>4. P[m] \in Text
  BY <1>1, <1>3
<1>5. 0 \in S
  <2>1. P[m] \o << >> = P[m]
    BY <1>4, TextConcat
  <2>2. m + 0 = m /\ 0 \in 0 .. n
    BY <1>1
  <2> QED BY <1>2, <2>1, <2>2
<1>6. \A k \in 0 .. n - 1 : k \in S => k + 1 \in S
  <2> SUFFICES ASSUME NEW k \in 0 .. n - 1, k \in S PROVE k + 1 \in S
    OBVIOUS
  <2>1. /\ m + (k + 1) \in 1 .. Len(w) /\ (m + (k + 1)) - 1 = m + k
        /\ k + 1 \in 1 .. Len(u) /\ (k + 1) - 1 = k /\ k \in 0 .. Len(u)
        /\ k + 1 \in 1 .. n /\ k + 1 \in 0 .. n
    BY <1>1
  <2>2. P[m + k] = P[m] \o Q[k]
    OBVIOUS
  <2> HIDE DEF S
  <2>3. w[m + (k + 1)] = u[k + 1]
    BY <2>1 DEF Holds
  <2>4. P[m + (k + 1)] = IF u[k + 1] \in T THEN Append(P[m + k], u[k + 1].byte) ELSE P[m + k]
    BY <1>3, <2>1, <2>3
  <2>5. Q[k + 1] = IF u[k + 1] \in T THEN Append(Q[k], u[k + 1].byte) ELSE Q[k]
    BY <1>2, <2>1
  <2>6. Q[k] \in Text /\ u[k + 1].byte \in Bytes
    BY <1>2, <2>1, StringElements, TagFields
  <2>7. Append(P[m] \o Q[k], u[k + 1].byte) = P[m] \o Append(Q[k], u[k + 1].byte)
    BY <1>4, <2>6, TextConcat
  <2>8. P[m + (k + 1)] = P[m] \o Q[k + 1]
    BY <2>2, <2>4, <2>5, <2>7
  <2> QED BY <2>1, <2>8 DEF S
<1>7. \A k \in 0 .. n : k \in S
  <2> HIDE DEF S
  <2> QED BY <1>1, <1>5, <1>6, Induction
<1>8. P[m + n] = P[m] \o Q[n]
  <2>1. n \in S
    <3> HIDE DEF S
    <3> QED BY <1>1, <1>7
  <2> QED BY <2>1
<1> QED BY <1>8 DEF P, Q, Joins

\* A string is read piece by piece.
LEMMA ReadConcat ==
  ASSUME NEW u \in Strings, NEW v \in Strings, NEW w, Joins(w, u, v), NEW T
  PROVE  Joins(Read(w, T), Read(u, T), Read(v, T))
<1>1. w \in Strings /\ w = u \o v
  BY StringConcat DEF Joins
<1>2. PICK m \in Nat : m = Len(u)
  BY StringElements
<1>3. PICK n \in Nat : n = Len(v)
  BY StringElements
<1>4. PICK z \in Nat : z = 0
  OBVIOUS
<1>5. Len(w) = m + n
  BY <1>1, <1>2, <1>3, StringElements
<1>6. (\A k \in 1 .. m : w[k] = u[k]) /\ (\A k \in 1 .. n : w[m + k] = v[k])
  BY <1>1, <1>2, <1>3, StringElements
<1>7. Holds(w, z, u, m)
  BY <1>2, <1>4, <1>5, <1>6 DEF Holds
<1>8. Holds(w, m, v, n)
  BY <1>3, <1>5, <1>6 DEF Holds
<1>9. m \in 0 .. m /\ n \in 0 .. n /\ z + m = m
  BY <1>4
<1>10. Joins(ReadUpTo(w, T)[z + m], ReadUpTo(w, T)[z], ReadUpTo(u, T)[m])
  BY <1>1, <1>7, ReadOn
<1>11. Joins(ReadUpTo(w, T)[m + n], ReadUpTo(w, T)[m], ReadUpTo(v, T)[n])
  BY <1>1, <1>8, ReadOn
<1>12. ReadUpTo(w, T)[z] = << >> /\ ReadUpTo(u, T)[m] \in Text
  BY <1>1, <1>2, <1>4, <1>9, ReadDef
<1>13. ReadUpTo(w, T)[m] = << >> \o ReadUpTo(u, T)[m]
  BY <1>9, <1>10, <1>12 DEF Joins
<1>14. ReadUpTo(w, T)[m] = ReadUpTo(u, T)[m]
  BY <1>12, <1>13, TextConcat
<1>15. ReadUpTo(w, T)[m + n] = ReadUpTo(u, T)[m] \o ReadUpTo(v, T)[n]
  BY <1>9, <1>11, <1>14 DEF Joins
<1> QED BY <1>2, <1>3, <1>5, <1>15 DEF Read, Joins

\* What is read of a string are bytes.
LEMMA ReadType ==
  ASSUME NEW u \in Strings, NEW T
  PROVE  Read(u, T) \in Text
<1>1. Len(u) \in 0 .. Len(u)
  BY StringElements
<1> QED BY <1>1, ReadDef DEF Read

\* The empty string reads as nothing.
LEMMA ReadEmpty ==
  ASSUME NEW T
  PROVE  Read(<< >>, T) = << >>
<1>1. << >> \in Strings /\ Len(<< >>) = 0
  BY StringConcat
<1> QED BY <1>1, ReadDef DEF Read

\* One element is read as its byte or not at all.
LEMMA ReadOne ==
  ASSUME NEW c \in Tags, NEW T
  PROVE  Read(<< c >>, T) = IF c \in T THEN << c.byte >> ELSE << >>
<1>1. << c >> \in Strings /\ Len(<< c >>) = 1 /\ << c >>[1] = c
  BY StringConcat
<1> DEFINE u == << c >>
           R == ReadUpTo(u, T)
<1> HIDE DEF u
<1>2. 1 \in 1 .. Len(u) /\ 1 - 1 = 0 /\ u \in Strings /\ u[1] = c /\ Len(u) = 1
  BY <1>1 DEF u
<1>3. R[0] = << >>
  BY <1>2, ReadDef
<1>4. R[1] = IF u[1] \in T THEN Append(R[1 - 1], u[1].byte) ELSE R[1 - 1]
  <2>1. \A k \in 1 .. Len(u) :
          R[k] = IF u[k] \in T THEN Append(R[k - 1], u[k].byte) ELSE R[k - 1]
    BY <1>2, ReadDef
  <2> HIDE DEF R
  <2> QED BY <1>2, <2>1
<1> HIDE DEF R
<1>5. c.byte \in Bytes
  BY TagFields
<1>6. Append(<< >>, c.byte) = << c.byte >>
  OBVIOUS
<1>7. R[1] = IF c \in T THEN << c.byte >> ELSE << >>
  BY <1>2, <1>3, <1>4, <1>6
<1>8. Read(u, T) = R[1]
  BY <1>2 DEF Read, R
<1> QED BY <1>7, <1>8 DEF u

\* A string with one more element reads as the string and then that element.
LEMMA ReadAppend ==
  ASSUME NEW u \in Strings, NEW c \in Tags, NEW T
  PROVE  /\ Read(Append(u, c), T) = IF c \in T THEN Append(Read(u, T), c.byte) ELSE Read(u, T)
         /\ Read(u \o << c >>, T) = IF c \in T THEN Append(Read(u, T), c.byte) ELSE Read(u, T)
<1>1. << c >> \in Strings /\ Append(u, c) = u \o << c >>
  BY StringConcat
<1>2. Read(u \o << c >>, T) = Read(u, T) \o Read(<< c >>, T)
  <2>1. Joins(u \o << c >>, u, << c >>)
    BY DEF Joins
  <2>2. Joins(Read(u \o << c >>, T), Read(u, T), Read(<< c >>, T))
    BY <1>1, <2>1, ReadConcat
  <2> QED BY <2>2 DEF Joins
<1>3. Read(u, T) \in Text /\ c.byte \in Bytes
  BY ReadType, TagFields
<1>4. Read(u, T) \o << c.byte >> = Append(Read(u, T), c.byte) /\ Read(u, T) \o << >> = Read(u, T)
  BY <1>3, TextConcat
<1>5. Read(<< c >>, T) = IF c \in T THEN << c.byte >> ELSE << >>
  BY ReadOne
<1> QED BY <1>1, <1>2, <1>4, <1>5

\* A string none of whose elements count reads as nothing.
LEMMA ReadNone ==
  ASSUME NEW u \in Strings, NEW T, \A k \in 1 .. Len(u) : u[k] \notin T
  PROVE  Read(u, T) = << >>
<1> DEFINE R == ReadUpTo(u, T)
           n == Len(u)
           E == {<< >>}
<1>1. n \in Nat
  BY StringElements
<1>2. R[0] = << >> /\ \A k \in 1 .. n : R[k] = R[k - 1]
  BY ReadDef
<1>3. R[0] \in E /\ \A k \in 1 .. n : R[k - 1] \in E => R[k] \in E
  <2> HIDE DEF R, n
  <2> QED BY <1>2
<1>4. \A k \in 0 .. n : R[k] \in E
  <2> HIDE DEF R, n, E
  <2> QED BY <1>1, <1>3, LoopType
<1>5. n \in 0 .. n
  BY <1>1
<1> QED BY <1>4, <1>5 DEF Read

\* A string all of whose elements count reads as all of its bytes.
LEMMA ReadAll ==
  ASSUME NEW u \in Strings, NEW T, \A k \in 1 .. Len(u) : u[k] \in T,
         NEW s \in Text, Len(s) = Len(u), \A k \in 1 .. Len(u) : u[k].byte = s[k]
  PROVE  Read(u, T) = s
<1> DEFINE R == ReadUpTo(u, T)
           n == Len(u)
           S == {k \in 0 .. n : Len(R[k]) = k /\ \A i \in 1 .. k : R[k][i] = s[i]}
<1>1. n \in Nat /\ \A k \in 1 .. n : s[k] \in Bytes
  BY StringElements, TextElements
<1>2. /\ R[0] = << >>
      /\ \A k \in 1 .. n : R[k] = Append(R[k - 1], s[k])
      /\ \A k \in 0 .. n : R[k] \in Text
  <2>1. R[0] = << >> /\ \A k \in 0 .. n : R[k] \in Text
    BY ReadDef
  <2>2. \A k \in 1 .. n :
          R[k] = IF u[k] \in T THEN Append(R[k - 1], u[k].byte) ELSE R[k - 1]
    BY ReadDef
  <2> HIDE DEF R
  <2> QED BY <2>1, <2>2
<1> HIDE DEF R
<1>3. 0 \in S
  BY <1>1, <1>2
<1>4. \A k \in 0 .. n - 1 : k \in S => k + 1 \in S
  <2> SUFFICES ASSUME NEW k \in 0 .. n - 1, k \in S PROVE k + 1 \in S
    OBVIOUS
  <2>1. /\ k \in 0 .. n /\ k + 1 \in 1 .. n /\ k + 1 \in 0 .. n /\ (k + 1) - 1 = k
        /\ Len(R[k]) = k /\ \A i \in 1 .. k : R[k][i] = s[i]
    BY <1>1
  <2> HIDE DEF S, n
  <2>2. R[k] \in Text /\ R[k + 1] = Append(R[k], s[k + 1]) /\ s[k + 1] \in Bytes
    BY <1>1, <1>2, <2>1
  <2>3. /\ Len(R[k + 1]) = k + 1
        /\ \A i \in 1 .. k : R[k + 1][i] = R[k][i]
        /\ R[k + 1][k + 1] = s[k + 1]
    BY <2>1, <2>2, TextAppend DEF Longer
  <2>4. ASSUME NEW i \in 1 .. k + 1 PROVE R[k + 1][i] = s[i]
    <3>1. i \in 1 .. k \/ i = k + 1
      BY <2>1
    <3> QED BY <2>1, <2>3, <3>1
  <2> QED BY <2>1, <2>3, <2>4 DEF S
<1>5. \A k \in 0 .. n : k \in S
  <2> HIDE DEF S, n
  <2> QED BY <1>1, <1>3, <1>4, Induction
<1>6. n \in 0 .. n
  BY <1>1
<1>7. R[n] \in Text /\ Len(R[n]) = Len(s) /\ \A i \in 1 .. Len(s) : R[n][i] = s[i]
  BY <1>2, <1>5, <1>6
<1>8. R[n] = s
  <2> HIDE DEF S, n
  <2> QED BY <1>7, TextElements
<1> QED BY <1>8 DEF Read, R

-----------------------------------------------------------------------------
(* Delta::synthesize.                                                      *)

\* The states of the loop over a union string of n elements.
Drafts(n) == [base : Nat, gap : Nat, del : SUBSET Nat, ins : [0 .. n -> Text]]

\* What an element does to a state: its byte is inserted, deleted or kept.
AddsByte(a, b, byte) ==
  /\ b.base = a.base /\ b.gap = a.gap /\ b.del = a.del
  /\ b.ins = [a.ins EXCEPT ![a.gap] = Append(@, byte)]

DropsByte(a, b) ==
  b.base = a.base + 1 /\ b.gap = a.gap /\ b.del = a.del \cup {a.base} /\ b.ins = a.ins

KeepsByte(a, b) ==
  b.base = a.base + 1 /\ b.gap = a.base + 1 /\ b.del = a.del /\ b.ins = a.ins

\* The fields of the state after one element, and that it is a state.
LEMMA SynthesizeByteFields ==
  ASSUME NEW n \in Nat, NEW a \in Drafts(n), NEW c \in Tags, NEW b, b = SynthesizeByte(a, c)
  PROVE  /\ b \in Drafts(n)
         /\ c.from /\ c.to => b = a
         /\ c.from /\ ~c.to => AddsByte(a, b, c.byte)
         /\ ~c.from /\ c.to => DropsByte(a, b)
         /\ ~c.from /\ ~c.to => KeepsByte(a, b)
<1>1. /\ a.base \in Nat /\ a.gap \in Nat /\ a.del \in SUBSET Nat /\ a.ins \in [0 .. n -> Text]
      /\ c.byte \in Bytes /\ c.from \in BOOLEAN /\ c.to \in BOOLEAN
  BY TagFields DEF Drafts
<1>2. CASE c.from /\ c.to
  BY <1>2 DEF SynthesizeByte
<1>3. CASE c.from /\ ~c.to
  <2>1. b = [a EXCEPT !.ins = [a.ins EXCEPT ![a.gap] = Append(@, c.byte)]]
    BY <1>3 DEF SynthesizeByte
  <2>2. [a.ins EXCEPT ![a.gap] = Append(@, c.byte)] \in [0 .. n -> Text]
    BY <1>1, TextConcat
  <2>3. PICK i \in [0 .. n -> Text] : i = [a.ins EXCEPT ![a.gap] = Append(@, c.byte)]
    BY <2>2
  <2>4. b = [a EXCEPT !.ins = i]
    BY <2>1, <2>3
  <2>5. b \in Drafts(n) /\ b.base = a.base /\ b.gap = a.gap /\ b.del = a.del /\ b.ins = i
    BY <1>1, <2>4 DEF Drafts
  <2> QED BY <1>3, <2>3, <2>5 DEF AddsByte
<1>4. CASE ~c.from /\ c.to
  <2>1. b = [a EXCEPT !.base = a.base + 1, !.del = a.del \cup {a.base}]
    BY <1>4 DEF SynthesizeByte
  <2>5. PICK p \in Nat : p = a.base + 1
    BY <1>1
  <2>2. PICK D \in SUBSET Nat : D = a.del \cup {a.base}
    BY <1>1
  <2>3. b = [base |-> p, gap |-> a.gap, del |-> D, ins |-> a.ins]
    BY <2>1, <2>2, <2>5 DEF Drafts
  <2>4. b \in Drafts(n) /\ b.base = p /\ b.gap = a.gap /\ b.del = D /\ b.ins = a.ins
    BY <1>1, <2>3 DEF Drafts
  <2> QED BY <1>4, <2>2, <2>5, <2>4 DEF DropsByte
<1>5. CASE ~c.from /\ ~c.to
  <2>1. b = [a EXCEPT !.base = a.base + 1, !.gap = a.base + 1]
    BY <1>5 DEF SynthesizeByte
  <2>2. PICK p \in Nat : p = a.base + 1
    BY <1>1
  <2>3. b = [base |-> p, gap |-> p, del |-> a.del, ins |-> a.ins]
    BY <2>1, <2>2 DEF Drafts
  <2>4. b \in Drafts(n) /\ b.base = p /\ b.gap = p /\ b.del = a.del /\ b.ins = a.ins
    BY <1>1, <2>3 DEF Drafts
  <2> QED BY <1>5, <2>2, <2>4 DEF KeepsByte
<1> QED BY <1>1, <1>2, <1>3, <1>4, <1>5

\* SynthesizeUpTo is the loop it is written as.
LEMMA SynthesizeDef ==
  ASSUME NEW u \in Strings
  PROVE  /\ SynthesizeUpTo(u)[0] = SynthesizeStart(Len(u))
         /\ \A k \in 1 .. Len(u) :
              SynthesizeUpTo(u)[k] = SynthesizeByte(SynthesizeUpTo(u)[k - 1], u[k])
         /\ \A k \in 0 .. Len(u) : SynthesizeUpTo(u)[k] \in Drafts(Len(u))
<1> DEFINE n == Len(u)
           A == Drafts(n)
           a == SynthesizeStart(n)
           Step(s, k) == SynthesizeByte(s, u[k])
           O == SynthesizeUpTo(u)
<1>1. n \in Nat /\ a \in A
  <2>1. n \in Nat
    BY StringElements
  <2>2. [g \in 0 .. n |-> << >>] \in [0 .. n -> Text]
    BY TextConcat
  <2> QED BY <2>1, <2>2 DEF SynthesizeStart, Drafts
<1>2. ASSUME NEW s \in A, NEW k \in 1 .. n PROVE Step(s, k) \in A
  <2>1. u[k] \in Tags
    BY StringElements
  <2> QED BY <1>1, <2>1, SynthesizeByteFields
<1>3. O = CHOOSE h : h = [k \in 0 .. n |-> IF k = 0 THEN a ELSE Step(h[k - 1], k)]
  BY DEF SynthesizeUpTo
<1>4. /\ O[0] = a
      /\ \A k \in 1 .. n : O[k] = Step(O[k - 1], k)
      /\ \A k \in 0 .. n : O[k] \in A
  <2> DEFINE step == [p \in A \X (1 .. n) |-> Step(p[1], p[2])]
  <2> HIDE DEF Step, A, a, n, O
  <2>1. step \in [A \X (1 .. n) -> A]
    BY <1>2
  <2>2. PICK f \in [0 .. n -> A] : Runs(f, n, a, step)
    <3> HIDE DEF step
    <3> QED BY <1>1, <2>1, Loop
  <2>3. ASSUME NEW k \in 1 .. n PROVE f[k] = Step(f[k - 1], k)
    <3>1. f[k - 1] \in A
      BY <1>1
    <3> QED BY <2>2, <3>1 DEF Runs
  <2>4. f = [k \in 0 .. n |-> IF k = 0 THEN a ELSE Step(f[k - 1], k)]
    <3>1. \A k \in 0 .. n : f[k] = IF k = 0 THEN a ELSE Step(f[k - 1], k)
      BY <1>1, <2>2, <2>3 DEF Runs
    <3> QED BY <3>1
  <2>5. O = [k \in 0 .. n |-> IF k = 0 THEN a ELSE Step(O[k - 1], k)]
    BY <1>3, <2>4
  <2>6. O[0] = a /\ \A k \in 1 .. n : O[k] = Step(O[k - 1], k)
    BY <1>1, <2>5
  <2>7. \A k \in 0 .. n : O[k] \in A
    <3>1. O[0] \in A /\ \A k \in 1 .. n : O[k - 1] \in A => O[k] \in A
      BY <1>1, <1>2, <2>6
    <3> QED BY <1>1, <3>1, LoopType
  <2> QED BY <2>6, <2>7
<1> QED BY <1>4

\* The draft a has been made from elements that read B in the base and O in the
\* outcome.
Follows(a, n, B, O) ==
  /\ B \in Text /\ O \in Text
  /\ a.base = Len(B) /\ a.base <= n
  /\ a.gap \in 0 .. a.base
  /\ a.del \subseteq 0 .. a.base - 1
  /\ \A i \in a.gap .. a.base - 1 : i \in a.del
  /\ \A g \in a.gap + 1 .. n : a.ins[g] = << >>
  /\ Outcome(B, a)[a.gap] = O

\* A draft can be applied to what it has been made from.
LEMMA FollowsFits ==
  ASSUME NEW n \in Nat, NEW a \in Drafts(n), NEW B, NEW O, Follows(a, n, B, O)
  PROVE  Fits(B, a) /\ Flat(a, a.gap)
<1>1. a.base \in Nat /\ a.gap \in Nat /\ a.ins \in [0 .. n -> Text] /\ B \in Text /\ a.base = Len(B)
      /\ a.base <= n
  BY DEF Drafts, Follows
<1>2. \A g \in 0 .. a.base : a.ins[g] \in Text
  BY <1>1
<1>3. \A g \in 1 .. a.base : B[g] \in Bytes
  BY <1>1, TextElements
<1>4. \A g \in a.gap + 1 .. a.base : a.ins[g] = << >>
  BY <1>1 DEF Follows
<1>5. Fits(B, a)
  BY <1>1, <1>2, <1>3 DEF Fits
<1>6. Flat(a, a.gap)
  BY <1>4 DEF Flat, Follows
<1> QED BY <1>5, <1>6

\* Nothing has been read yet.
LEMMA FollowsStart ==
  ASSUME NEW n \in Nat
  PROVE  Follows(SynthesizeStart(n), n, << >>, << >>)
<1> DEFINE a == SynthesizeStart(n)
<1>1. /\ a.base = 0 /\ a.gap = 0 /\ a.del = {} /\ \A g \in 0 .. n : a.ins[g] = << >>
  BY DEF SynthesizeStart
<1> HIDE DEF a
<1>2. << >> \in Text /\ Len(<< >>) = 0
  BY TextConcat
<1>3. Fits(<< >>, a)
  BY <1>1, <1>2 DEF Fits
<1>4. Outcome(<< >>, a)[0] = << >>
  <2>1. Outcome(<< >>, a)[0] = a.ins[0]
    BY <1>3, OutcomeDef
  <2> QED BY <1>1, <2>1
<1>5. Follows(a, n, << >>, << >>)
  BY <1>1, <1>2, <1>4 DEF Follows
<1> QED BY <1>5 DEF a

\* The delta e does what d does and inserts one more byte at the gap.
InsertsMore(d, e, gap, b) ==
  /\ e.base = d.base /\ e.del = d.del /\ gap <= d.base
  /\ \A g \in 0 .. gap - 1 : e.ins[g] = d.ins[g]
  /\ e.ins[gap] = Append(d.ins[gap], b)

\* A byte inserted at a gap comes out at the end of what came out up to that gap.
LEMMA OutcomeInsert ==
  ASSUME NEW data, NEW d, NEW e, NEW gap \in Nat, NEW b \in Bytes,
         Fits(data, d), Fits(data, e), InsertsMore(d, e, gap, b)
  PROVE  Joins(Outcome(data, e)[gap], Outcome(data, d)[gap], << b >>)
<1> USE DEF InsertsMore
<1>1. d.base \in Nat /\ gap \in 0 .. d.base /\ d.ins[gap] \in Text
  BY DEF Fits
<1> SUFFICES Outcome(data, e)[gap] = Append(Outcome(data, d)[gap], b)
  <2>1. Outcome(data, d)[gap] \in Text
    BY <1>1, OutcomeDef
  <2>2. Append(Outcome(data, d)[gap], b) = Outcome(data, d)[gap] \o << b >>
    BY <2>1, TextConcat
  <2> QED BY <2>2 DEF Joins
<1>2. CASE gap = 0
  BY <1>2, OutcomeDef
<1>3. CASE gap # 0
  <2> DEFINE x == Outcome(data, d)[gap - 1]
             y == Piece(data, d, gap)
  <2>1. gap - 1 \in Nat /\ gap - 1 <= d.base /\ gap - 1 \in 0 .. gap - 1 /\ gap \in 1 .. d.base
        /\ gap - 1 \in 0 .. d.base
    BY <1>1, <1>3
  <2>2. \A g \in Nat : Piece(data, e, g) = Piece(data, d, g)
    BY DEF Piece
  <2>3. Agree(data, d, data, e, gap - 1)
    BY <2>1, <2>2 DEF Agree
  <2>4. Outcome(data, e)[gap - 1] = x
    BY <2>1, <2>3, OutcomeSame
  <2>5. x \in Text /\ y \in Text
    <3>1. x \in Text
      BY <2>1, OutcomeDef
    <3>2. y \in Text
      BY <2>1, TextConcat DEF Piece, Fits
    <3> QED BY <3>1, <3>2
  <2>6. Outcome(data, e)[gap] = Outcome(data, e)[gap - 1] \o Piece(data, e, gap) \o e.ins[gap]
    <3>1. \A g \in 1 .. e.base :
            Outcome(data, e)[g] = Outcome(data, e)[g - 1] \o Piece(data, e, g) \o e.ins[g]
      BY OutcomeDef
    <3> QED BY <2>1, <3>1
  <2>7. Outcome(data, d)[gap] = x \o y \o d.ins[gap]
    BY <2>1, OutcomeDef
  <2> HIDE DEF x, y
  <2>8. Outcome(data, e)[gap] = (x \o y) \o Append(d.ins[gap], b)
    BY <2>2, <2>4, <2>6 DEF y
  <2>9. (x \o y) \o Append(d.ins[gap], b) = Append((x \o y) \o d.ins[gap], b)
    <3>1. PICK z \in Text : z = x \o y
      BY <2>5, TextConcat
    <3>2. Append(z \o d.ins[gap], b) = z \o Append(d.ins[gap], b)
      BY <1>1, TextConcat
    <3> QED BY <3>1, <3>2
  <2> QED BY <2>7, <2>8, <2>9
<1> QED BY <1>2, <1>3

\* An element of the outcome alone is inserted at the gap.
LEMMA FollowsInsert ==
  ASSUME NEW n \in Nat, NEW a \in Drafts(n), NEW B, NEW O, Follows(a, n, B, O),
         NEW b \in Bytes, NEW e \in Drafts(n),
         e.base = a.base, e.gap = a.gap, e.del = a.del,
         e.ins[a.gap] = Append(a.ins[a.gap], b),
         \A g \in 0 .. n : g # a.gap => e.ins[g] = a.ins[g]
  PROVE  Follows(e, n, B, Append(O, b))
<1>1. /\ a.base \in Nat /\ a.gap \in Nat /\ a.gap \in 0 .. a.base /\ a.base <= n
      /\ a.ins \in [0 .. n -> Text] /\ B \in Text /\ O \in Text
      /\ a.base = Len(B)
  BY DEF Drafts, Follows
<1>2. Fits(B, a)
  BY FollowsFits
<1>3. Fits(B, e)
  <2>1. \A g \in 0 .. a.base : e.ins[g] \in Text
    BY <1>1 DEF Drafts
  <2> QED BY <1>2, <2>1 DEF Fits
<1>4. InsertsMore(a, e, a.gap, b)
  BY <1>1 DEF InsertsMore
<1>5. PICK gap \in Nat : gap = a.gap
  BY <1>1
<1>6. Outcome(B, e)[a.gap] = Append(Outcome(B, a)[a.gap], b)
  <2>1. InsertsMore(a, e, gap, b)
    BY <1>4, <1>5
  <2>2. Joins(Outcome(B, e)[gap], Outcome(B, a)[gap], << b >>)
    BY <1>2, <1>3, <2>1, OutcomeInsert
  <2>3. Outcome(B, e)[a.gap] = O \o << b >> /\ Outcome(B, a)[a.gap] = O
    BY <1>5, <2>2 DEF Joins, Follows
  <2> QED BY <1>1, <2>3, TextConcat
<1>7. \A g \in a.gap + 1 .. n : e.ins[g] = << >>
  <2> SUFFICES ASSUME NEW g \in a.gap + 1 .. n PROVE e.ins[g] = << >>
    OBVIOUS
  <2>1. g \in 0 .. n /\ g # a.gap
    BY <1>1
  <2>2. a.ins[g] = << >>
    BY DEF Follows
  <2> QED BY <2>1, <2>2
<1>8. Outcome(B, e)[e.gap] = Append(O, b) /\ Append(O, b) \in Text
  BY <1>1, <1>6, TextConcat DEF Follows
<1> QED BY <1>1, <1>7, <1>8 DEF Follows

\* An element of the base alone is deleted, and the gap stays before it.
LEMMA FollowsDelete ==
  ASSUME NEW n \in Nat, NEW a \in Drafts(n), NEW B, NEW O, Follows(a, n, B, O), a.base < n,
         NEW b \in Bytes, NEW C, Longer(C, B, b), NEW e \in Drafts(n),
         e.base = a.base + 1, e.gap = a.gap, e.del = a.del \cup {a.base}, e.ins = a.ins
  PROVE  Follows(e, n, C, O)
<1>1. /\ a.base \in Nat /\ a.gap \in Nat /\ a.gap \in 0 .. a.base /\ a.base < n
      /\ a.ins \in [0 .. n -> Text] /\ B \in Text /\ O \in Text
      /\ a.base = Len(B) /\ a.del \subseteq 0 .. a.base - 1
  BY DEF Drafts, Follows
<1>2. /\ C \in Text /\ Len(C) = a.base + 1 /\ C[a.base + 1] = b
      /\ \A g \in 1 .. a.base : C[g] = B[g]
  BY <1>1 DEF Longer
<1>3. Fits(B, a)
  BY FollowsFits
<1>4. Fits(C, e)
  <2>1. \A g \in 1 .. a.base + 1 : C[g] \in Bytes
    BY <1>2, TextElements
  <2>2. \A g \in 0 .. a.base + 1 : a.ins[g] \in Text
    BY <1>1
  <2> QED BY <1>1, <2>1, <2>2 DEF Fits
<1>5. Agree(B, a, C, e, a.gap)
  <2>1. \A g \in 1 .. a.gap : Piece(B, a, g) = Piece(C, e, g)
    BY <1>1, <1>2 DEF Piece
  <2> QED BY <1>1, <2>1 DEF Agree
<1>6. Outcome(C, e)[a.gap] = Outcome(B, a)[a.gap]
  <2>1. a.gap \in 0 .. a.gap
    BY <1>1
  <2> QED BY <1>3, <1>4, <1>5, <2>1, OutcomeSame
<1>7. \A i \in e.gap .. e.base - 1 : i \in e.del
  BY <1>1 DEF Follows
<1>8. e.del \subseteq 0 .. e.base - 1
  BY <1>1
<1>9. Outcome(C, e)[e.gap] = O /\ \A g \in e.gap + 1 .. n : e.ins[g] = << >>
  BY <1>6 DEF Follows
<1>10. e.gap \in 0 .. e.base /\ e.base = Len(C) /\ e.base <= n
  BY <1>1, <1>2
<1> QED BY <1>1, <1>2, <1>7, <1>8, <1>9, <1>10 DEF Follows

\* An element of both is kept, and the gap moves after it.
LEMMA FollowsKeep ==
  ASSUME NEW n \in Nat, NEW a \in Drafts(n), NEW B, NEW O, Follows(a, n, B, O), a.base < n,
         NEW b \in Bytes, NEW C, Longer(C, B, b), NEW e \in Drafts(n),
         e.base = a.base + 1, e.gap = a.base + 1, e.del = a.del, e.ins = a.ins
  PROVE  Follows(e, n, C, Append(O, b))
<1> DEFINE m == a.base
<1>1. /\ m \in Nat /\ a.gap \in Nat /\ a.gap \in 0 .. m /\ m < n
      /\ a.ins \in [0 .. n -> Text] /\ B \in Text /\ O \in Text
      /\ m = Len(B) /\ a.del \subseteq 0 .. m - 1
  BY DEF Drafts, Follows
<1>2. /\ C \in Text /\ Len(C) = m + 1 /\ C[m + 1] = b
      /\ \A g \in 1 .. m : C[g] = B[g]
  BY <1>1 DEF Longer
<1>3. Fits(B, a) /\ Flat(a, a.gap)
  BY FollowsFits
<1>4. Fits(C, e)
  <2>1. \A g \in 1 .. m + 1 : C[g] \in Bytes
    BY <1>2, TextElements
  <2>2. \A g \in 0 .. m + 1 : a.ins[g] \in Text
    BY <1>1
  <2> QED BY <1>1, <2>1, <2>2 DEF Fits
<1>5. Agree(B, a, C, e, m)
  <2>1. \A g \in 1 .. m : Piece(B, a, g) = Piece(C, e, g)
    BY <1>1, <1>2 DEF Piece
  <2> QED BY <1>1, <2>1 DEF Agree
<1>6. Outcome(C, e)[m] = Outcome(B, a)[m]
  <2>1. m \in 0 .. m
    BY <1>1
  <2> QED BY <1>3, <1>4, <1>5, <2>1, OutcomeSame
<1>7. Outcome(B, a)[m] = Outcome(B, a)[a.gap]
  <2>1. m \in a.gap .. a.base
    BY <1>1
  <2> QED BY <1>3, <2>1, OutcomeFlat
<1>8. Outcome(C, e)[m] = O
  BY <1>6, <1>7 DEF Follows
<1>9. Outcome(C, e)[m + 1] = Outcome(C, e)[m] \o Piece(C, e, m + 1) \o e.ins[m + 1]
  <2>1. m + 1 \in 1 .. e.base /\ (m + 1) - 1 = m
    BY <1>1
  <2>2. \A g \in 1 .. e.base :
          Outcome(C, e)[g] = Outcome(C, e)[g - 1] \o Piece(C, e, g) \o e.ins[g]
    BY <1>4, OutcomeDef
  <2> QED BY <2>1, <2>2
<1>10. Piece(C, e, m + 1) = << b >>
  BY <1>1, <1>2 DEF Piece
<1>11. e.ins[m + 1] = << >>
  BY <1>1 DEF Follows
<1>12. Outcome(C, e)[m + 1] = Append(O, b) /\ Append(O, b) \in Text
  <2>1. Outcome(C, e)[m + 1] = O \o << b >> \o << >>
    BY <1>8, <1>9, <1>10, <1>11
  <2>2. O \o << b >> = Append(O, b) /\ Append(O, b) \in Text
    BY <1>1, TextConcat
  <2> QED BY <2>1, <2>2, TextConcat
<1>13. e.gap \in 0 .. e.base /\ e.base = Len(C) /\ e.base <= n
  BY <1>1, <1>2
<1>14. e.del \subseteq 0 .. e.base - 1 /\ \A i \in e.gap .. e.base - 1 : i \in e.del
  BY <1>1
<1>15. \A g \in e.gap + 1 .. n : e.ins[g] = << >>
  BY <1>1 DEF Follows
<1> QED BY <1>2, <1>12, <1>13, <1>14, <1>15 DEF Follows

\* One element more.
LEMMA FollowsByte ==
  ASSUME NEW n \in Nat, NEW a \in Drafts(n), NEW B, NEW O, Follows(a, n, B, O), a.base < n,
         NEW c \in Tags, NEW e, e = SynthesizeByte(a, c)
  PROVE  /\ e \in Drafts(n)
         /\ e.base <= a.base + 1
         /\ Follows(e, n, IF c \in InBase THEN Append(B, c.byte) ELSE B,
                          IF c \in InOutcome THEN Append(O, c.byte) ELSE O)
<1>1. /\ a.base \in Nat /\ a.gap \in 0 .. n /\ a.ins \in [0 .. n -> Text]
      /\ B \in Text /\ O \in Text
  BY DEF Drafts, Follows
<1>2. c.byte \in Bytes /\ c.from \in BOOLEAN /\ c.to \in BOOLEAN
  BY TagFields
<1>3. Longer(Append(B, c.byte), B, c.byte)
  BY <1>1, <1>2, TextAppend
<1>4. (c \in InBase <=> ~c.from) /\ (c \in InOutcome <=> ~c.to)
  BY DEF InBase, InOutcome
<1>5. e \in Drafts(n)
  BY SynthesizeByteFields
<1>6. CASE c.from /\ c.to
  <2>1. e = a
    BY <1>6, SynthesizeByteFields
  <2> QED BY <1>1, <1>4, <1>5, <1>6, <2>1
<1>7. CASE c.from /\ ~c.to
  <2>1. /\ e.base = a.base /\ e.gap = a.gap /\ e.del = a.del
        /\ e.ins = [a.ins EXCEPT ![a.gap] = Append(@, c.byte)]
    <3>1. AddsByte(a, e, c.byte)
      BY <1>7, SynthesizeByteFields
    <3> QED BY <3>1 DEF AddsByte
  <2>2. e.ins[a.gap] = Append(a.ins[a.gap], c.byte)
    BY <1>1, <2>1
  <2>3. \A g \in 0 .. n : g # a.gap => e.ins[g] = a.ins[g]
    BY <1>1, <2>1
  <2>4. Follows(e, n, B, Append(O, c.byte))
    BY <1>2, <1>5, <2>1, <2>2, <2>3, FollowsInsert
  <2> QED BY <1>1, <1>4, <1>5, <1>7, <2>1, <2>4
<1>8. CASE ~c.from /\ c.to
  <2>1. /\ e.base = a.base + 1 /\ e.gap = a.gap /\ e.del = a.del \cup {a.base}
        /\ e.ins = a.ins
    <3>1. DropsByte(a, e)
      BY <1>8, SynthesizeByteFields
    <3> QED BY <3>1 DEF DropsByte
  <2>2. Follows(e, n, Append(B, c.byte), O)
    BY <1>2, <1>3, <1>5, <2>1, FollowsDelete
  <2> QED BY <1>1, <1>4, <1>5, <1>8, <2>1, <2>2
<1>9. CASE ~c.from /\ ~c.to
  <2>1. /\ e.base = a.base + 1 /\ e.gap = a.base + 1 /\ e.del = a.del
        /\ e.ins = a.ins
    <3>1. KeepsByte(a, e)
      BY <1>9, SynthesizeByteFields
    <3> QED BY <3>1 DEF KeepsByte
  <2>2. Follows(e, n, Append(B, c.byte), Append(O, c.byte))
    BY <1>2, <1>3, <1>5, <2>1, FollowsKeep
  <2> QED BY <1>1, <1>4, <1>5, <1>9, <2>1, <2>2
<1> QED BY <1>2, <1>6, <1>7, <1>8, <1>9

\* The deltas of a base of n bytes.
Deltas(n) == [base : {n}, del : SUBSET (0 .. n - 1), ins : [0 .. n -> Text]]

\* Delta::synthesize makes a delta that leads from what a union string is in the
\* base to what it is in the outcome.
THEOREM SynthesizeApplies ==
  ASSUME NEW u \in Strings
  PROVE  /\ Synthesize(u) \in Deltas(Len(Read(u, InBase)))
         /\ ApplyDelta(Read(u, InBase), Synthesize(u)) = Read(u, InOutcome)
<1> DEFINE n == Len(u)
           A == SynthesizeUpTo(u)
           P == ReadUpTo(u, InBase)
           Q == ReadUpTo(u, InOutcome)
           S == {k \in 0 .. n : A[k].base <= k /\ Follows(A[k], n, P[k], Q[k])}
<1>1. n \in Nat
  BY StringElements
<1>2. /\ A[0] = SynthesizeStart(n)
      /\ \A k \in 1 .. n : A[k] = SynthesizeByte(A[k - 1], u[k])
      /\ \A k \in 0 .. n : A[k] \in Drafts(n)
  BY SynthesizeDef
<1>3. P[0] = << >> /\ Q[0] = << >>
  BY ReadDef
<1>4. \A k \in 1 .. n : P[k] = IF u[k] \in InBase THEN Append(P[k - 1], u[k].byte) ELSE P[k - 1]
  BY ReadDef
<1>5. \A k \in 1 .. n : Q[k] = IF u[k] \in InOutcome THEN Append(Q[k - 1], u[k].byte) ELSE Q[k - 1]
  BY ReadDef
<1> HIDE DEF n, A, P, Q
<1>6. 0 \in S
  <2>1. Follows(A[0], n, P[0], Q[0])
    BY <1>1, <1>2, <1>3, FollowsStart
  <2>2. A[0].base = 0
    BY <1>2 DEF SynthesizeStart
  <2> QED BY <1>1, <2>1, <2>2
<1>7. \A k \in 0 .. n - 1 : k \in S => k + 1 \in S
  <2> SUFFICES ASSUME NEW k \in 0 .. n - 1, k \in S PROVE k + 1 \in S
    OBVIOUS
  <2>1. /\ k + 1 \in 1 .. n /\ (k + 1) - 1 = k /\ k \in 0 .. n /\ k + 1 \in 0 .. n
        /\ A[k].base <= k /\ Follows(A[k], n, P[k], Q[k])
    BY <1>1
  <2> HIDE DEF S
  <2>2. u[k + 1] \in Tags
    BY <2>1, StringElements DEF n
  <2>3. A[k + 1] = SynthesizeByte(A[k], u[k + 1])
    BY <1>2, <2>1
  <2>4. A[k] \in Drafts(n) /\ A[k].base < n /\ A[k].base \in Nat
    <3>1. A[k] \in Drafts(n)
      BY <1>2, <2>1
    <3>2. A[k].base \in Nat
      BY <3>1 DEF Drafts
    <3> QED BY <1>1, <2>1, <3>1, <3>2
  <2>5. P[k + 1] = IF u[k + 1] \in InBase THEN Append(P[k], u[k + 1].byte) ELSE P[k]
    BY <1>4, <2>1
  <2>6. Q[k + 1] = IF u[k + 1] \in InOutcome THEN Append(Q[k], u[k + 1].byte) ELSE Q[k]
    BY <1>5, <2>1
  <2>7. /\ A[k + 1] \in Drafts(n) /\ A[k + 1].base <= A[k].base + 1
        /\ Follows(A[k + 1], n, P[k + 1], Q[k + 1])
    BY <1>1, <2>1, <2>2, <2>3, <2>4, <2>5, <2>6, FollowsByte
  <2>8. A[k + 1].base \in Nat
    BY <2>7 DEF Drafts
  <2>9. A[k + 1].base <= k + 1
    BY <2>1, <2>4, <2>7, <2>8
  <2> QED BY <2>1, <2>7, <2>9 DEF S
<1>8. \A k \in 0 .. n : k \in S
  <2> HIDE DEF S
  <2> QED BY <1>1, <1>6, <1>7, Induction
<1> DEFINE a == A[n]
           B == P[n]
           O == Q[n]
           d == [base |-> a.base, del |-> a.del, ins |-> [g \in 0 .. a.base |-> a.ins[g]]]
<1>9. a \in Drafts(n) /\ Follows(a, n, B, O)
  <2>1. n \in 0 .. n
    BY <1>1
  <2> QED BY <1>2, <1>8, <2>1
<1>10. Synthesize(u) = d /\ Read(u, InBase) = B /\ Read(u, InOutcome) = O
  BY DEF Synthesize, Read, n, A, P, Q
<1> HIDE DEF a, B, O, S
<1>11. /\ a.base \in Nat /\ a.gap \in 0 .. a.base /\ a.base = Len(B) /\ a.base <= n
       /\ a.ins \in [0 .. n -> Text] /\ a.del \subseteq 0 .. a.base - 1 /\ B \in Text
  BY <1>9 DEF Drafts, Follows
<1>12. d \in Deltas(Len(B))
  BY <1>1, <1>11 DEF Deltas
<1>13. d.base = a.base /\ d.del = a.del /\ \A g \in 0 .. a.base : d.ins[g] = a.ins[g]
  OBVIOUS
<1> HIDE DEF d
<1>14. Fits(B, a) /\ Flat(a, a.gap)
  BY <1>1, <1>9, FollowsFits
<1>15. Fits(B, d)
  BY <1>13, <1>14 DEF Fits
<1>16. Agree(B, d, B, a, a.base)
  BY <1>11, <1>13 DEF Agree, Piece
<1>17. a.base \in 0 .. a.base /\ a.base \in a.gap .. a.base
  BY <1>11
<1>18. Outcome(B, d)[a.base] = Outcome(B, a)[a.base]
  BY <1>14, <1>15, <1>16, <1>17, OutcomeSame
<1>19. Outcome(B, a)[a.base] = Outcome(B, a)[a.gap]
  BY <1>14, <1>17, OutcomeFlat
<1>20. ApplyDelta(B, d) = O
  BY <1>9, <1>13, <1>18, <1>19 DEF ApplyDelta, Follows
<1> QED BY <1>10, <1>12, <1>20

-----------------------------------------------------------------------------
(* Action::invert.                                                         *)

\* An inserted text, as part of a union string, is not in the base and is in the
\* outcome.
LEMMA InsertedReads ==
  ASSUME NEW t \in Text
  PROVE  /\ Inserted(t) \in Strings
         /\ Read(Inserted(t), InBase) = << >>
         /\ Read(Inserted(t), InOutcome) = t
<1> DEFINE u == Inserted(t)
<1>1. Len(t) \in Nat /\ DOMAIN t = 1 .. Len(t) /\ \A k \in 1 .. Len(t) : t[k] \in Bytes
  BY TextElements
<1>2. u = [k \in 1 .. Len(t) |-> Tag(t[k], TRUE, FALSE)]
  BY <1>1 DEF Inserted
<1>3. \A k \in 1 .. Len(t) : u[k] \in Tags /\ u[k].byte = t[k] /\ u[k].from /\ ~u[k].to
  <2> SUFFICES ASSUME NEW k \in 1 .. Len(t)
               PROVE  u[k] \in Tags /\ u[k].byte = t[k] /\ u[k].from /\ ~u[k].to
    OBVIOUS
  <2>1. u[k] = [byte |-> t[k], from |-> TRUE, to |-> FALSE] /\ t[k] \in Bytes
    BY <1>1, <1>2 DEF Tag
  <2> HIDE DEF u
  <2> QED BY <2>1 DEF Tags
<1>4. u \in Strings /\ Len(u) = Len(t)
  <2>1. u \in [1 .. Len(t) -> Tags]
    BY <1>2, <1>3
  <2> HIDE DEF u
  <2> QED BY <1>1, <2>1 DEF Strings
<1> HIDE DEF u
<1>5. Read(u, InBase) = << >>
  <2>1. \A k \in 1 .. Len(u) : u[k] \notin InBase
    BY <1>3, <1>4 DEF InBase
  <2> QED BY <1>4, <2>1, ReadNone
<1>6. Read(u, InOutcome) = t
  <2>1. \A k \in 1 .. Len(u) : u[k] \in InOutcome /\ u[k].byte = t[k]
    BY <1>3, <1>4 DEF InOutcome
  <2> QED BY <1>4, <2>1, ReadAll
<1> QED BY <1>4, <1>5, <1>6 DEF u

\* UnionUpTo is the loop it is written as.
LEMMA UnionDef ==
  ASSUME NEW d, NEW data, Fits(data, d)
  PROVE  /\ UnionUpTo(d, data)[0] = Inserted(d.ins[0])
         /\ \A g \in 1 .. d.base :
              UnionUpTo(d, data)[g] = UnionUpTo(d, data)[g - 1]
                \o << Tag(data[g], FALSE, g - 1 \in d.del) >> \o Inserted(d.ins[g])
         /\ \A g \in 0 .. d.base : UnionUpTo(d, data)[g] \in Strings
<1> DEFINE n == d.base
           a == Inserted(d.ins[0])
           Step(s, g) == s \o << Tag(data[g], FALSE, g - 1 \in d.del) >> \o Inserted(d.ins[g])
           O == UnionUpTo(d, data)
<1>1. n \in Nat /\ a \in Strings
  <2>1. n \in Nat /\ d.ins[0] \in Text
    BY DEF Fits
  <2> QED BY <2>1, InsertedReads
<1>2. ASSUME NEW s \in Strings, NEW g \in 1 .. n PROVE Step(s, g) \in Strings
  <2>1. data[g] \in Bytes /\ d.ins[g] \in Text /\ (g - 1 \in d.del) \in BOOLEAN
    BY DEF Fits
  <2>2. Tag(data[g], FALSE, g - 1 \in d.del) \in Tags
    BY <2>1, TagFields
  <2>3. PICK x \in Strings : x = << Tag(data[g], FALSE, g - 1 \in d.del) >>
    BY <2>2, StringConcat
  <2>4. PICK y \in Strings : y = Inserted(d.ins[g])
    BY <2>1, InsertedReads
  <2>5. s \o x \o y \in Strings
    BY StringConcat
  <2> QED BY <2>3, <2>4, <2>5
<1>3. O = CHOOSE h : h = [g \in 0 .. n |-> IF g = 0 THEN a ELSE Step(h[g - 1], g)]
  BY DEF UnionUpTo
<1>4. /\ O[0] = a
      /\ \A g \in 1 .. n : O[g] = Step(O[g - 1], g)
      /\ \A g \in 0 .. n : O[g] \in Strings
  <2> DEFINE step == [p \in Strings \X (1 .. n) |-> Step(p[1], p[2])]
  <2> HIDE DEF Step, a, n, O
  <2>1. step \in [Strings \X (1 .. n) -> Strings]
    BY <1>2
  <2>2. PICK f \in [0 .. n -> Strings] : Runs(f, n, a, step)
    <3> HIDE DEF step
    <3> QED BY <1>1, <2>1, Loop
  <2>3. ASSUME NEW g \in 1 .. n PROVE f[g] = Step(f[g - 1], g)
    <3>1. f[g - 1] \in Strings
      BY <1>1
    <3> QED BY <2>2, <3>1 DEF Runs
  <2>4. f = [g \in 0 .. n |-> IF g = 0 THEN a ELSE Step(f[g - 1], g)]
    <3>1. \A g \in 0 .. n : f[g] = IF g = 0 THEN a ELSE Step(f[g - 1], g)
      BY <1>1, <2>2, <2>3 DEF Runs
    <3> QED BY <3>1
  <2>5. O = [g \in 0 .. n |-> IF g = 0 THEN a ELSE Step(O[g - 1], g)]
    BY <1>3, <2>4
  <2>6. O[0] = a /\ \A g \in 1 .. n : O[g] = Step(O[g - 1], g)
    BY <1>1, <2>5
  <2>7. \A g \in 0 .. n : O[g] \in Strings
    <3>1. O[0] \in Strings /\ \A g \in 1 .. n : O[g - 1] \in Strings => O[g] \in Strings
      BY <1>1, <1>2, <2>6
    <3> QED BY <1>1, <3>1, LoopType
  <2> QED BY <2>6, <2>7
<1> QED BY <1>4

\* One more byte of the base and the insertion after it, read.
LEMMA UnionPiece ==
  ASSUME NEW v \in Strings, NEW c \in InBase, NEW t \in Text,
         NEW w, JoinsThree(w, v, << c >>, Inserted(t))
  PROVE  /\ Longer(Read(w, InBase), Read(v, InBase), c.byte)
         /\ JoinsThree(Read(w, InOutcome), Read(v, InOutcome),
                       IF c \in InOutcome THEN << c.byte >> ELSE << >>, t)
<1>1. c \in Tags /\ c.byte \in Bytes
  BY TagFields DEF InBase
<1>2. PICK e \in Strings : e = << c >>
  BY <1>1, StringConcat
<1>3. PICK x \in Strings : Joins(x, v, e)
  BY <1>2, StringConcat DEF Joins
<1>4. PICK y \in Strings : /\ y = Inserted(t)
                           /\ Read(y, InBase) = << >> /\ Read(y, InOutcome) = t
  BY InsertedReads
<1>5. Joins(w, x, y)
  BY <1>2, <1>3, <1>4 DEF Joins, JoinsThree
<1>6. Read(w, InBase) = Append(Read(v, InBase), c.byte) /\ Read(v, InBase) \in Text
  <2>1. Joins(Read(w, InBase), Read(x, InBase), Read(y, InBase))
    BY <1>5, ReadConcat
  <2>2. Read(x, InBase) \in Text /\ Read(v, InBase) \in Text
    BY ReadType
  <2>3. Read(w, InBase) = Read(x, InBase) \o << >>
    BY <1>4, <2>1 DEF Joins
  <2>4. Read(w, InBase) = Read(x, InBase)
    BY <2>2, <2>3, TextConcat
  <2>5. Joins(Read(x, InBase), Read(v, InBase), Read(e, InBase))
    BY <1>3, ReadConcat
  <2>6. Read(e, InBase) = << c.byte >>
    BY <1>1, <1>2, ReadOne
  <2>7. Read(x, InBase) = Read(v, InBase) \o << c.byte >>
    BY <2>5, <2>6 DEF Joins
  <2> QED BY <1>1, <2>2, <2>4, <2>7, TextConcat
<1>7. Longer(Read(w, InBase), Read(v, InBase), c.byte)
  BY <1>1, <1>6, TextAppend
<1>8. Joins(Read(w, InOutcome), Read(x, InOutcome), Read(y, InOutcome))
  BY <1>5, ReadConcat
<1>9. Joins(Read(x, InOutcome), Read(v, InOutcome), Read(e, InOutcome))
  BY <1>3, ReadConcat
<1>10. Read(e, InOutcome) = IF c \in InOutcome THEN << c.byte >> ELSE << >>
  BY <1>1, <1>2, ReadOne
<1>11. JoinsThree(Read(w, InOutcome), Read(v, InOutcome), Read(e, InOutcome), t)
  BY <1>4, <1>8, <1>9 DEF Joins, JoinsThree
<1> QED BY <1>7, <1>10, <1>11

\* The text t is the first n bytes of data.
Begins(t, data, n) ==
  /\ t \in Text
  /\ Len(t) = n
  /\ \A k \in 1 .. n : t[k] = data[k]

\* The union string of a delta is the base in the base and the outcome in the
\* outcome, up to every gap.
LEMMA UnionUpToReads ==
  ASSUME NEW d, NEW data, Fits(data, d)
  PROVE  \A g \in 0 .. d.base :
           /\ Begins(Read(UnionUpTo(d, data)[g], InBase), data, g)
           /\ Read(UnionUpTo(d, data)[g], InOutcome) = Outcome(data, d)[g]
<1> DEFINE U == UnionUpTo(d, data)
           O == Outcome(data, d)
           n == d.base
           S == {g \in 0 .. n : /\ Begins(Read(U[g], InBase), data, g)
                                /\ Read(U[g], InOutcome) = O[g]}
<1>1. n \in Nat /\ d.ins[0] \in Text
  BY DEF Fits
<1>2. /\ U[0] = Inserted(d.ins[0])
      /\ \A g \in 1 .. n : U[g] = U[g - 1] \o << Tag(data[g], FALSE, g - 1 \in d.del) >>
                                           \o Inserted(d.ins[g])
      /\ \A g \in 0 .. n : U[g] \in Strings
  BY UnionDef
<1>3. /\ O[0] = d.ins[0]
      /\ \A g \in 1 .. n : O[g] = O[g - 1] \o Piece(data, d, g) \o d.ins[g]
  BY OutcomeDef
<1> HIDE DEF U, O
<1>4. 0 \in S
  <2>1. Read(U[0], InBase) = << >> /\ Read(U[0], InOutcome) = d.ins[0]
    BY <1>1, <1>2, InsertedReads
  <2>2. Begins(<< >>, data, 0)
    BY TextConcat DEF Begins
  <2> QED BY <1>1, <1>3, <2>1, <2>2
<1>5. \A g \in 0 .. n - 1 : g \in S => g + 1 \in S
  <2> SUFFICES ASSUME NEW g \in 0 .. n - 1, g \in S PROVE g + 1 \in S
    OBVIOUS
  <2>1. /\ g + 1 \in 1 .. n /\ g + 1 \in 0 .. n /\ g \in 0 .. n /\ (g + 1) - 1 = g
        /\ Begins(Read(U[g], InBase), data, g) /\ Read(U[g], InOutcome) = O[g]
    BY <1>1
  <2> HIDE DEF S, n
  <2>2. data[g + 1] \in Bytes /\ d.ins[g + 1] \in Text
    BY <2>1 DEF Fits, n
  <2> DEFINE c == Tag(data[g + 1], FALSE, g \in d.del)
  <2>3. c \in Tags /\ c.byte = data[g + 1] /\ ~c.from /\ (c.to <=> g \in d.del)
    <3> DEFINE y == g \in d.del
    <3>1. y \in BOOLEAN
      OBVIOUS
    <3>2. c = [byte |-> data[g + 1], from |-> FALSE, to |-> y]
      BY DEF Tag
    <3> HIDE DEF c, y
    <3>3. c \in Tags /\ c.byte = data[g + 1] /\ ~c.from /\ (c.to <=> y)
      BY <2>2, <3>1, <3>2 DEF Tags
    <3> QED BY <3>3 DEF y
  <2>4. U[g + 1] = U[g] \o << c >> \o Inserted(d.ins[g + 1]) /\ U[g] \in Strings
    BY <1>2, <2>1
  <2> HIDE DEF c
  <2>5. c \in InBase /\ (c \in InOutcome <=> g \notin d.del)
    BY <2>3 DEF InBase, InOutcome
  <2>10. JoinsThree(U[g + 1], U[g], << c >>, Inserted(d.ins[g + 1]))
    BY <2>4 DEF JoinsThree
  <2>6. Longer(Read(U[g + 1], InBase), Read(U[g], InBase), data[g + 1])
    BY <2>2, <2>3, <2>4, <2>5, <2>10, UnionPiece
  <2>7. Read(U[g + 1], InOutcome) = O[g] \o Piece(data, d, g + 1) \o d.ins[g + 1]
    <3>1. JoinsThree(Read(U[g + 1], InOutcome), Read(U[g], InOutcome),
                     IF c \in InOutcome THEN << c.byte >> ELSE << >>, d.ins[g + 1])
      BY <2>2, <2>4, <2>5, <2>10, UnionPiece
    <3>2. Piece(data, d, g + 1) = IF c \in InOutcome THEN << c.byte >> ELSE << >>
      BY <2>1, <2>3, <2>5 DEF Piece
    <3> QED BY <2>1, <3>1, <3>2 DEF JoinsThree
  <2>8. Read(U[g + 1], InOutcome) = O[g + 1]
    BY <1>3, <2>1, <2>7
  <2>9. Begins(Read(U[g + 1], InBase), data, g + 1)
    <3>1. PICK t \in Text : t = Read(U[g], InBase)
      BY <2>1 DEF Begins
    <3>2. PICK r : r = Read(U[g + 1], InBase)
      OBVIOUS
    <3>3. Longer(r, t, data[g + 1])
      BY <2>6, <3>1, <3>2
    <3>4. Len(t) = g /\ \A k \in 1 .. g : t[k] = data[k]
      BY <2>1, <3>1 DEF Begins
    <3>5. \A k \in 1 .. g + 1 : r[k] = data[k]
      <4>1. \A k \in 1 .. g : r[k] = data[k]
        BY <3>3, <3>4 DEF Longer
      <4>2. r[g + 1] = data[g + 1]
        BY <3>3, <3>4 DEF Longer
      <4> QED BY <2>1, <4>1, <4>2
    <3>6. r \in Text /\ Len(r) = g + 1
      BY <3>3, <3>4 DEF Longer
    <3> QED BY <3>2, <3>5, <3>6 DEF Begins
  <2> QED BY <2>1, <2>8, <2>9 DEF S
<1>6. \A g \in 0 .. n : g \in S
  <2> HIDE DEF S, n
  <2> QED BY <1>1, <1>4, <1>5, Induction
<1>7. \A g \in 0 .. n : Begins(Read(U[g], InBase), data, g) /\ Read(U[g], InOutcome) = O[g]
  BY <1>6
<1> QED BY <1>7 DEF U, O

\* Deltas of texts fit them.
LEMMA DeltaFits ==
  ASSUME NEW data \in Text, NEW d \in Deltas(Len(data))
  PROVE  /\ Fits(data, d) /\ d.base = Len(data) /\ d.del \subseteq 0 .. d.base - 1
         /\ d.ins \in [0 .. d.base -> Text]
<1>1. /\ d.base = Len(data) /\ d.base \in Nat /\ d.del \subseteq 0 .. d.base - 1
      /\ d.ins \in [0 .. d.base -> Text]
  BY TextElements DEF Deltas
<1>2. \A g \in 0 .. d.base : d.ins[g] \in Text
  BY <1>1
<1>3. \A g \in 1 .. d.base : data[g] \in Bytes
  BY <1>1, TextElements
<1> QED BY <1>1, <1>2, <1>3 DEF Fits

\* The union string of a delta and its base reads as that base and as the outcome.
LEMMA UnionReads ==
  ASSUME NEW data \in Text, NEW d \in Deltas(Len(data))
  PROVE  /\ Union(d, data) \in Strings
         /\ Read(Union(d, data), InBase) = data
         /\ Read(Union(d, data), InOutcome) = ApplyDelta(data, d)
<1>1. Fits(data, d) /\ d.base = Len(data) /\ d.base \in 0 .. d.base
  BY DeltaFits DEF Fits
<1>2. Union(d, data) \in Strings
  BY <1>1, UnionDef DEF Union
<1>3. /\ Begins(Read(Union(d, data), InBase), data, d.base)
      /\ Read(Union(d, data), InOutcome) = ApplyDelta(data, d)
  BY <1>1, UnionUpToReads DEF Union, ApplyDelta
<1>4. Read(Union(d, data), InBase) = data
  BY <1>1, <1>3, TextElements DEF Begins
<1> QED BY <1>2, <1>3, <1>4

\* Applying a delta to a text gives a text.
LEMMA ApplyType ==
  ASSUME NEW data \in Text, NEW d \in Deltas(Len(data))
  PROVE  ApplyDelta(data, d) \in Text
<1>1. Fits(data, d) /\ d.base \in 0 .. d.base
  BY DeltaFits DEF Fits
<1> QED BY <1>1, OutcomeDef DEF ApplyDelta

\* A swapped union string is in the base what it was in the outcome.
LEMMA SwappedReads ==
  ASSUME NEW u \in Strings
  PROVE  /\ Swapped(u) \in Strings
         /\ Read(Swapped(u), InBase) = Read(u, InOutcome)
         /\ Read(Swapped(u), InOutcome) = Read(u, InBase)
<1> DEFINE v == Swapped(u)
           n == Len(u)
<1>1. n \in Nat /\ DOMAIN u = 1 .. n /\ \A k \in 1 .. n : u[k] \in Tags
  BY StringElements
<1>2. v = [k \in 1 .. n |-> Tag(u[k].byte, u[k].to, u[k].from)]
  BY <1>1 DEF Swapped
<1>3. \A k \in 1 .. n : /\ v[k] \in Tags /\ v[k].byte = u[k].byte
                        /\ (v[k].from <=> u[k].to) /\ (v[k].to <=> u[k].from)
  <2> SUFFICES ASSUME NEW k \in 1 .. n
               PROVE  /\ v[k] \in Tags /\ v[k].byte = u[k].byte
                      /\ (v[k].from <=> u[k].to) /\ (v[k].to <=> u[k].from)
    OBVIOUS
  <2>1. v[k] = [byte |-> u[k].byte, from |-> u[k].to, to |-> u[k].from] /\ u[k] \in Tags
    BY <1>1, <1>2 DEF Tag
  <2> HIDE DEF v
  <2> QED BY <2>1 DEF Tags
<1>4. v \in Strings /\ Len(v) = n
  <2>1. v \in [1 .. n -> Tags]
    BY <1>2, <1>3
  <2> HIDE DEF v, n
  <2> QED BY <1>1, <2>1 DEF Strings
<1>5. \A k \in 1 .. n : /\ v[k] \in InBase <=> u[k] \in InOutcome
                        /\ v[k] \in InOutcome <=> u[k] \in InBase
  BY <1>1, <1>3 DEF InBase, InOutcome
<1> HIDE DEF v, n
<1>6. ASSUME NEW T, NEW R, \A k \in 1 .. n : v[k] \in T <=> u[k] \in R
      PROVE  Read(v, T) = Read(u, R)
  <2> DEFINE P == ReadUpTo(v, T)
             Q == ReadUpTo(u, R)
             S == {k \in 0 .. n : P[k] = Q[k]}
  <2>1. P[0] = << >> /\ Q[0] = << >>
    BY <1>4, ReadDef
  <2>2. \A k \in 1 .. n : P[k] = IF v[k] \in T THEN Append(P[k - 1], v[k].byte) ELSE P[k - 1]
    BY <1>4, ReadDef
  <2>3. \A k \in 1 .. n : Q[k] = IF u[k] \in R THEN Append(Q[k - 1], u[k].byte) ELSE Q[k - 1]
    BY ReadDef DEF n
  <2> HIDE DEF P, Q
  <2>4. 0 \in S
    BY <1>1, <2>1
  <2>5. \A k \in 0 .. n - 1 : k \in S => k + 1 \in S
    <3> SUFFICES ASSUME NEW k \in 0 .. n - 1, k \in S PROVE k + 1 \in S
      OBVIOUS
    <3>1. k + 1 \in 1 .. n /\ k + 1 \in 0 .. n /\ (k + 1) - 1 = k /\ P[k] = Q[k]
      BY <1>1
    <3> HIDE DEF S
    <3>2. v[k + 1].byte = u[k + 1].byte /\ (v[k + 1] \in T <=> u[k + 1] \in R)
      BY <1>3, <1>6, <3>1
    <3>3. P[k + 1] = Q[k + 1]
      BY <2>2, <2>3, <3>1, <3>2
    <3> QED BY <3>1, <3>3 DEF S
  <2>6. \A k \in 0 .. n : k \in S
    <3> HIDE DEF S
    <3> QED BY <1>1, <2>4, <2>5, Induction
  <2>7. P[n] = Q[n]
    BY <1>1, <2>6
  <2> QED BY <1>4, <2>7 DEF Read, P, Q, n
<1>7. Read(v, InBase) = Read(u, InOutcome)
  BY <1>5, <1>6
<1>8. Read(v, InOutcome) = Read(u, InBase)
  BY <1>5, <1>6
<1> QED BY <1>4, <1>7, <1>8 DEF v

\* The delta d is synthesised from a union string that is the text data in the base.
MadeFrom(d, data) == \E u \in Strings : d = Synthesize(u) /\ data = Read(u, InBase)

\* Action::invert: the inverse of a delta is a delta of the outcome and leads back
\* from it to the base, whatever the delta and the bytes are.
THEOREM InvertUndoes ==
  ASSUME NEW data \in Text, NEW d \in Deltas(Len(data))
  PROVE  /\ Invert(d, data) \in Deltas(Len(ApplyDelta(data, d)))
         /\ ApplyDelta(ApplyDelta(data, d), Invert(d, data)) = data
         /\ MadeFrom(Invert(d, data), ApplyDelta(data, d))
<1>1. PICK u \in Strings : u = Union(d, data)
  BY UnionReads
<1>2. Read(u, InBase) = data /\ Read(u, InOutcome) = ApplyDelta(data, d)
  BY <1>1, UnionReads
<1>3. PICK v \in Strings : v = Swapped(u)
  BY SwappedReads
<1>4. Read(v, InBase) = ApplyDelta(data, d) /\ Read(v, InOutcome) = data
  BY <1>2, <1>3, SwappedReads
<1>5. /\ Synthesize(v) \in Deltas(Len(Read(v, InBase)))
      /\ ApplyDelta(Read(v, InBase), Synthesize(v)) = Read(v, InOutcome)
  BY SynthesizeApplies
<1>6. Invert(d, data) = Synthesize(v)
  BY <1>1, <1>3 DEF Invert
<1>7. MadeFrom(Synthesize(v), Read(v, InBase))
  BY DEF MadeFrom
<1> QED BY <1>4, <1>5, <1>6, <1>7

-----------------------------------------------------------------------------
(* Action::invert, twice.  The union string of a synthesised delta has the   *)
(* insertions of a run before its deletions, in whichever order the string   *)
(* had them that it was synthesised from; neither the delta nor its inverse  *)
(* can tell the two strings apart (Alike).                                   *)

\* The states of the loop of Delta::synthesize for strings of any length, and the first
\* of them.
Wide  == [base : Nat, gap : Nat, del : SUBSET Nat, ins : [Nat -> Text]]
Blank == [base |-> 0, gap |-> 0, del |-> {}, ins |-> [g \in Nat |-> << >>]]

\* Such states with the same fields are the same.
LEMMA WideEqual ==
  ASSUME NEW a \in Wide, NEW b \in Wide,
         a.base = b.base, a.gap = b.gap, a.del = b.del, a.ins = b.ins
  PROVE  a = b
BY DEF Wide

\* One element more.
LEMMA WideByte ==
  ASSUME NEW a \in Wide, NEW c \in Tags, NEW b, b = SynthesizeByte(a, c)
  PROVE  /\ b \in Wide
         /\ c.from /\ c.to => b = a
         /\ c.from /\ ~c.to => AddsByte(a, b, c.byte)
         /\ ~c.from /\ c.to => DropsByte(a, b)
         /\ ~c.from /\ ~c.to => KeepsByte(a, b)
<1>1. /\ a.base \in Nat /\ a.gap \in Nat /\ a.del \in SUBSET Nat /\ a.ins \in [Nat -> Text]
      /\ c.byte \in Bytes /\ c.from \in BOOLEAN /\ c.to \in BOOLEAN
  BY TagFields DEF Wide
<1>2. CASE c.from /\ c.to
  BY <1>2 DEF SynthesizeByte
<1>3. CASE c.from /\ ~c.to
  <2>1. b = [a EXCEPT !.ins = [a.ins EXCEPT ![a.gap] = Append(@, c.byte)]]
    BY <1>3 DEF SynthesizeByte
  <2>2. [a.ins EXCEPT ![a.gap] = Append(@, c.byte)] \in [Nat -> Text]
    BY <1>1, TextConcat
  <2>3. PICK i \in [Nat -> Text] : i = [a.ins EXCEPT ![a.gap] = Append(@, c.byte)]
    BY <2>2
  <2>4. b = [a EXCEPT !.ins = i]
    BY <2>1, <2>3
  <2>5. b \in Wide /\ b.base = a.base /\ b.gap = a.gap /\ b.del = a.del /\ b.ins = i
    BY <1>1, <2>4 DEF Wide
  <2> QED BY <1>3, <2>3, <2>5 DEF AddsByte
<1>4. CASE ~c.from /\ c.to
  <2>1. b = [a EXCEPT !.base = a.base + 1, !.del = a.del \cup {a.base}]
    BY <1>4 DEF SynthesizeByte
  <2>5. PICK p \in Nat : p = a.base + 1
    BY <1>1
  <2>2. PICK D \in SUBSET Nat : D = a.del \cup {a.base}
    BY <1>1
  <2>3. b = [base |-> p, gap |-> a.gap, del |-> D, ins |-> a.ins]
    BY <2>1, <2>2, <2>5 DEF Wide
  <2>4. b \in Wide /\ b.base = p /\ b.gap = a.gap /\ b.del = D /\ b.ins = a.ins
    BY <1>1, <2>3 DEF Wide
  <2> QED BY <1>4, <2>2, <2>4, <2>5 DEF DropsByte
<1>5. CASE ~c.from /\ ~c.to
  <2>1. b = [a EXCEPT !.base = a.base + 1, !.gap = a.base + 1]
    BY <1>5 DEF SynthesizeByte
  <2>2. PICK p \in Nat : p = a.base + 1
    BY <1>1
  <2>3. b = [base |-> p, gap |-> p, del |-> a.del, ins |-> a.ins]
    BY <2>1, <2>2 DEF Wide
  <2>4. b \in Wide /\ b.base = p /\ b.gap = p /\ b.del = a.del /\ b.ins = a.ins
    BY <1>1, <2>3 DEF Wide
  <2> QED BY <1>5, <2>2, <2>4 DEF KeepsByte
<1> QED BY <1>1, <1>2, <1>3, <1>4, <1>5

\* The loop from a state on, over the elements of a string.
DraftUpTo(a, u) ==
  LET f[k \in 0 .. Len(u)] == IF k = 0 THEN a ELSE SynthesizeByte(f[k - 1], u[k])
  IN f

Draft(a, u) == DraftUpTo(a, u)[Len(u)]

\* DraftUpTo is the loop it is written as.
LEMMA DraftDef ==
  ASSUME NEW a \in Wide, NEW u \in Strings
  PROVE  /\ DraftUpTo(a, u)[0] = a
         /\ \A k \in 1 .. Len(u) : DraftUpTo(a, u)[k] = SynthesizeByte(DraftUpTo(a, u)[k - 1], u[k])
         /\ \A k \in 0 .. Len(u) : DraftUpTo(a, u)[k] \in Wide
<1> DEFINE n == Len(u)
           Step(s, k) == SynthesizeByte(s, u[k])
           O == DraftUpTo(a, u)
<1>1. n \in Nat
  BY StringElements
<1>2. ASSUME NEW s \in Wide, NEW k \in 1 .. n PROVE Step(s, k) \in Wide
  <2>1. u[k] \in Tags
    BY StringElements
  <2> QED BY <2>1, WideByte
<1>3. O = CHOOSE h : h = [k \in 0 .. n |-> IF k = 0 THEN a ELSE Step(h[k - 1], k)]
  BY DEF DraftUpTo
<1>4. /\ O[0] = a
      /\ \A k \in 1 .. n : O[k] = Step(O[k - 1], k)
      /\ \A k \in 0 .. n : O[k] \in Wide
  <2> DEFINE step == [p \in Wide \X (1 .. n) |-> Step(p[1], p[2])]
  <2> HIDE DEF Step, n, O
  <2>1. step \in [Wide \X (1 .. n) -> Wide]
    BY <1>2
  <2>2. PICK f \in [0 .. n -> Wide] : Runs(f, n, a, step)
    <3> HIDE DEF step
    <3> QED BY <1>1, <2>1, Loop
  <2>3. ASSUME NEW k \in 1 .. n PROVE f[k] = Step(f[k - 1], k)
    <3>1. f[k - 1] \in Wide
      BY <1>1
    <3> QED BY <2>2, <3>1 DEF Runs
  <2>4. f = [k \in 0 .. n |-> IF k = 0 THEN a ELSE Step(f[k - 1], k)]
    <3>1. \A k \in 0 .. n : f[k] = IF k = 0 THEN a ELSE Step(f[k - 1], k)
      BY <1>1, <2>2, <2>3 DEF Runs
    <3> QED BY <3>1
  <2>5. O = [k \in 0 .. n |-> IF k = 0 THEN a ELSE Step(O[k - 1], k)]
    BY <1>3, <2>4
  <2>6. O[0] = a /\ \A k \in 1 .. n : O[k] = Step(O[k - 1], k)
    BY <1>1, <2>5
  <2>7. \A k \in 0 .. n : O[k] \in Wide
    <3>1. O[0] \in Wide /\ \A k \in 1 .. n : O[k - 1] \in Wide => O[k] \in Wide
      BY <1>1, <1>2, <2>6
    <3> QED BY <1>1, <3>1, LoopType
  <2> QED BY <2>6, <2>7
<1> QED BY <1>4

\* Strings that begin alike are drafted alike.
LEMMA DraftSame ==
  ASSUME NEW a \in Wide, NEW u \in Strings, NEW w \in Strings, NEW n \in Nat,
         n <= Len(u), n <= Len(w), \A k \in 1 .. n : w[k] = u[k]
  PROVE  \A k \in 0 .. n : DraftUpTo(a, w)[k] = DraftUpTo(a, u)[k]
<1> DEFINE P == DraftUpTo(a, u)
           Q == DraftUpTo(a, w)
           S == {k \in 0 .. n : Q[k] = P[k]}
<1>1. Len(u) \in Nat /\ Len(w) \in Nat
  BY StringElements
<1>2. P[0] = a /\ \A k \in 1 .. Len(u) : P[k] = SynthesizeByte(P[k - 1], u[k])
  BY DraftDef
<1>3. Q[0] = a /\ \A k \in 1 .. Len(w) : Q[k] = SynthesizeByte(Q[k - 1], w[k])
  BY DraftDef
<1> HIDE DEF P, Q
<1>4. 0 \in S
  BY <1>2, <1>3
<1>5. ASSUME NEW k \in 0 .. n - 1, k \in S PROVE k + 1 \in S
  <2>1. /\ k + 1 \in 0 .. n /\ k + 1 \in 1 .. n /\ (k + 1) - 1 = k /\ Q[k] = P[k]
        /\ k + 1 \in 1 .. Len(u) /\ k + 1 \in 1 .. Len(w)
    BY <1>1, <1>5
  <2>2. Q[k + 1] = P[k + 1]
    BY <1>2, <1>3, <2>1
  <2> QED BY <2>1, <2>2
<1>6. \A k \in 0 .. n : k \in S
  <2> HIDE DEF S
  <2> QED BY <1>4, <1>5, Induction
<1> QED BY <1>6 DEF P, Q

\* The draft of a string with one element more.
LEMMA DraftMore ==
  ASSUME NEW a \in Wide
  PROVE  /\ Draft(a, << >>) = a
         /\ \A u \in Strings : Draft(a, u) \in Wide
         /\ \A u \in Strings, c \in Tags : Draft(a, Append(u, c)) = SynthesizeByte(Draft(a, u), c)
<1>1. Draft(a, << >>) = a
  <2>1. << >> \in Strings /\ Len(<< >>) = 0
    BY StringConcat
  <2> QED BY <2>1, DraftDef DEF Draft
<1>2. ASSUME NEW u \in Strings PROVE Draft(a, u) \in Wide
  <2>1. Len(u) \in 0 .. Len(u)
    BY StringElements
  <2> QED BY <2>1, DraftDef DEF Draft
<1>3. ASSUME NEW u \in Strings, NEW c \in Tags
      PROVE  Draft(a, Append(u, c)) = SynthesizeByte(Draft(a, u), c)
  <2>1. PICK n \in Nat : n = Len(u)
    BY StringElements
  <2>2. PICK w \in Strings : w = Append(u, c)
    BY StringConcat
  <2>3. Len(w) = n + 1 /\ w[n + 1] = c /\ \A k \in 1 .. n : w[k] = u[k]
    BY <2>1, <2>2, AppendProperties DEF Strings
  <2>4. n \in 0 .. n /\ n + 1 \in 1 .. n + 1 /\ (n + 1) - 1 = n
    OBVIOUS
  <2>5. DraftUpTo(a, w)[n] = DraftUpTo(a, u)[n]
    BY <2>1, <2>3, <2>4, DraftSame
  <2>6. DraftUpTo(a, w)[n + 1] = SynthesizeByte(DraftUpTo(a, w)[n], c)
    BY <2>3, <2>4, DraftDef
  <2> QED BY <2>1, <2>2, <2>3, <2>5, <2>6 DEF Draft
<1> QED BY <1>1, <1>2, <1>3

\* The delta of a state.
Cut(a) == [base |-> a.base, del |-> a.del, ins |-> [g \in 0 .. a.base |-> a.ins[g]]]

\* The first state is one.
LEMMA BlankWide ==
  /\ Blank \in Wide /\ Blank.base = 0 /\ Blank.gap = 0 /\ Blank.del = {}
  /\ \A g \in Nat : Blank.ins[g] = << >>
<1>1. PICK i \in [Nat -> Text] : i = [g \in Nat |-> << >>]
  BY TextConcat
<1>2. Blank = [base |-> 0, gap |-> 0, del |-> {}, ins |-> i]
  BY <1>1 DEF Blank
<1>3. Blank \in Wide /\ Blank.base = 0 /\ Blank.gap = 0 /\ Blank.del = {} /\ Blank.ins = i
  BY <1>2 DEF Wide
<1> QED BY <1>1, <1>3

\* Strings grow one element at a time: what holds of the empty string, and of a string
\* with one element more, holds of them all.
LEMMA StringInduction ==
  ASSUME NEW S, << >> \in S, \A u \in Strings, c \in Tags : u \in S => Append(u, c) \in S
  PROVE  \A u \in Strings : u \in S
<1> SUFFICES ASSUME NEW u \in Strings PROVE u \in S
  OBVIOUS
<1> DEFINE T == {k \in 0 .. Len(u) : SubSeq(u, 1, k) \in S}
<1>1. Len(u) \in Nat /\ u \in Seq(Tags)
  BY StringElements DEF Strings
<1>2. 0 \in T
  <2>1. SubSeq(u, 1, 0) = << >>
    BY <1>1, SubSeqEmpty
  <2>2. 0 \in 0 .. Len(u)
    BY <1>1
  <2> QED BY <2>1, <2>2, Zenon
<1>3. \A k \in 0 .. Len(u) - 1 : k \in T => k + 1 \in T
  <2> SUFFICES ASSUME NEW k \in 0 .. Len(u) - 1, k \in T PROVE k + 1 \in T
    OBVIOUS
  <2>4. SubSeq(u, 1, k) \in S
    OBVIOUS
  <2>1. k + 1 \in 1 .. Len(u) /\ u[k + 1] \in Tags
    BY <1>1
  <2>2. SubSeq(u, 1, k) \in Strings
    BY <1>1 DEF Strings
  <2>3. SubSeq(u, 1, k + 1) = Append(SubSeq(u, 1, k), u[k + 1])
    <3>1. 1 \in 1 .. Len(u) /\ k + 1 \in 1 .. Len(u) /\ (k + 1) - 1 = k
      BY <1>1, <2>1
    <3>2. SubSeq(u, 1, k + 1) = SubSeq(u, 1, (k + 1) - 1) \o << u[k + 1] >>
      BY <1>1, <3>1, SubSeqRecursiveSecond
    <3> QED BY <2>1, <2>2, <3>1, <3>2, StringConcat
  <2>5. k + 1 \in 0 .. Len(u) /\ SubSeq(u, 1, k + 1) \in S
    <3>1. Append(SubSeq(u, 1, k), u[k + 1]) \in S
      <4> HIDE DEF T
      <4>1. PICK v \in Strings : v = SubSeq(u, 1, k)
        BY <2>2
      <4>2. PICK c \in Tags : c = u[k + 1]
        BY <2>1
      <4>3. v \in S
        BY <2>4, <4>1, Zenon
      <4>4. Append(v, c) \in S
        BY <4>3
      <4> QED BY <4>1, <4>2, <4>4, Zenon
    <3>2. k + 1 \in 0 .. Len(u)
      BY <1>1
    <3> QED BY <2>3, <3>1, <3>2, Zenon
  <2> QED BY <2>5, Zenon
<1>4. \A k \in 0 .. Len(u) : k \in T
  <2> HIDE DEF T
  <2> QED BY <1>1, <1>2, <1>3, Induction
<1>5. SubSeq(u, 1, Len(u)) = u
  BY <1>1, SubSeqFull
<1>6. Len(u) \in T
  <2> HIDE DEF T
  <2> QED BY <1>1, <1>4
<1> QED BY <1>5, <1>6, Zenon

\* The state b is a, for strings of any length.
Widens(a, b, n) ==
  /\ b.base = a.base /\ b.gap = a.gap /\ b.del = a.del
  /\ \A g \in 0 .. n : b.ins[g] = a.ins[g]

\* One element more.
LEMMA WidensByte ==
  ASSUME NEW n \in Nat, NEW a \in Drafts(n), NEW b \in Wide, Widens(a, b, n), a.gap <= a.base, a.base < n,
         NEW c \in Tags, NEW x, x = SynthesizeByte(a, c), NEW y, y = SynthesizeByte(b, c)
  PROVE  Widens(x, y, n) /\ x.gap <= x.base /\ x.base <= a.base + 1
<1>1. /\ a.base \in Nat /\ a.gap \in Nat /\ a.gap \in 0 .. n /\ a.ins \in [0 .. n -> Text]
      /\ b.ins \in [Nat -> Text]
  BY DEF Drafts, Wide
<1>2. c.from \in BOOLEAN /\ c.to \in BOOLEAN /\ c.byte \in Bytes
  BY TagFields
<1>3. CASE c.from /\ c.to
  <2>1. x = a /\ y = b
    BY <1>3, SynthesizeByteFields, WideByte
  <2> QED BY <1>1, <2>1
<1>4. CASE c.from /\ ~c.to
  <2>1. AddsByte(a, x, c.byte) /\ AddsByte(b, y, c.byte)
    BY <1>4, SynthesizeByteFields, WideByte
  <2>2. x.base = a.base /\ x.gap = a.gap /\ x.del = a.del
    BY <2>1 DEF AddsByte
  <2>3. y.base = a.base /\ y.gap = a.gap /\ y.del = a.del
    BY <2>1 DEF AddsByte, Widens
  <2>4. ASSUME NEW g \in 0 .. n PROVE y.ins[g] = x.ins[g]
    <3>1. b.ins[g] = a.ins[g] /\ b.gap = a.gap
      BY DEF Widens
    <3>2. CASE g = a.gap
      BY <1>1, <2>1, <3>1, <3>2 DEF AddsByte
    <3>3. CASE g # a.gap
      BY <1>1, <2>1, <3>1, <3>3 DEF AddsByte
    <3> QED BY <3>2, <3>3
  <2> QED BY <1>1, <2>2, <2>3, <2>4 DEF Widens
<1>5. CASE ~c.from /\ c.to
  <2>1. DropsByte(a, x) /\ DropsByte(b, y)
    BY <1>5, SynthesizeByteFields, WideByte
  <2> QED BY <1>1, <2>1 DEF DropsByte, Widens
<1>6. CASE ~c.from /\ ~c.to
  <2>1. KeepsByte(a, x) /\ KeepsByte(b, y)
    BY <1>6, SynthesizeByteFields, WideByte
  <2> QED BY <1>1, <2>1 DEF KeepsByte, Widens
<1> QED BY <1>2, <1>3, <1>4, <1>5, <1>6

\* Delta::synthesize, without a bound on the length of the string.
LEMMA SynthesizeDraft ==
  ASSUME NEW u \in Strings
  PROVE  Synthesize(u) = Cut(Draft(Blank, u))
<1> DEFINE n == Len(u)
           A == SynthesizeUpTo(u)
           W == DraftUpTo(Blank, u)
           S == {k \in 0 .. n : Widens(A[k], W[k], n) /\ A[k].gap <= A[k].base /\ A[k].base <= k}
<1>1. n \in Nat
  BY StringElements
<1>2. /\ A[0] = SynthesizeStart(n)
      /\ \A k \in 1 .. n : A[k] = SynthesizeByte(A[k - 1], u[k])
      /\ \A k \in 0 .. n : A[k] \in Drafts(n)
  BY SynthesizeDef
<1>3. /\ W[0] = Blank
      /\ \A k \in 1 .. n : W[k] = SynthesizeByte(W[k - 1], u[k])
      /\ \A k \in 0 .. n : W[k] \in Wide
  BY BlankWide, DraftDef
<1>4. \A k \in 1 .. n : u[k] \in Tags
  BY StringElements
<1>5. Synthesize(u) = Cut(A[n]) /\ Draft(Blank, u) = W[n]
  BY DEF Synthesize, Cut, Draft
<1> HIDE DEF n, A, W
<1>6. 0 \in S
  <2>1. A[0].base = 0 /\ A[0].gap = 0 /\ A[0].del = {} /\ \A g \in 0 .. n : A[0].ins[g] = << >>
    BY <1>2 DEF SynthesizeStart
  <2>2. Widens(A[0], W[0], n)
    BY <1>1, <1>3, <2>1, BlankWide DEF Widens
  <2> QED BY <1>1, <2>1, <2>2
<1>7. \A k \in 0 .. n - 1 : k \in S => k + 1 \in S
  <2> SUFFICES ASSUME NEW k \in 0 .. n - 1, k \in S PROVE k + 1 \in S
    OBVIOUS
  <2>1. /\ k + 1 \in 1 .. n /\ (k + 1) - 1 = k /\ k \in 0 .. n /\ k + 1 \in 0 .. n
        /\ Widens(A[k], W[k], n) /\ A[k].gap <= A[k].base /\ A[k].base <= k
    BY <1>1
  <2> HIDE DEF S
  <2>2. A[k] \in Drafts(n) /\ W[k] \in Wide /\ u[k + 1] \in Tags /\ A[k + 1] \in Drafts(n)
    BY <1>2, <1>3, <1>4, <2>1
  <2>3. A[k + 1] = SynthesizeByte(A[k], u[k + 1]) /\ W[k + 1] = SynthesizeByte(W[k], u[k + 1])
    BY <1>2, <1>3, <2>1
  <2>4. A[k].base \in Nat /\ A[k + 1].base \in Nat
    BY <2>2 DEF Drafts
  <2>5. A[k].base < n
    BY <1>1, <2>1, <2>4
  <2>6. Widens(A[k + 1], W[k + 1], n) /\ A[k + 1].gap <= A[k + 1].base /\ A[k + 1].base <= A[k].base + 1
    BY <1>1, <2>1, <2>2, <2>3, <2>5, WidensByte
  <2>7. A[k + 1].base <= k + 1
    BY <2>1, <2>4, <2>6
  <2> QED BY <2>1, <2>6, <2>7 DEF S
<1>8. n \in S
  <2>1. \A k \in 0 .. n : k \in S
    <3> HIDE DEF S
    <3> QED BY <1>1, <1>6, <1>7, Induction
  <2> QED BY <1>1, <2>1
<1>9. PICK a \in Drafts(n) : a = A[n]
  BY <1>1, <1>2
<1>10. PICK b \in Wide : b = W[n]
  BY <1>1, <1>3
<1>11. Widens(a, b, n) /\ a.base \in Nat /\ a.base <= n
  BY <1>8, <1>9, <1>10 DEF Drafts
<1>12. [g \in 0 .. a.base |-> a.ins[g]] = [g \in 0 .. b.base |-> b.ins[g]]
  <2>1. b.base = a.base /\ \A g \in 0 .. a.base : a.ins[g] = b.ins[g]
    BY <1>1, <1>11 DEF Widens
  <2> QED BY <2>1
<1>13. Cut(a) = Cut(b)
  BY <1>11, <1>12 DEF Cut, Widens
<1> QED BY <1>5, <1>9, <1>10, <1>13

\* What a swapped tag is.
Swap(c) == Tag(c.byte, c.to, c.from)

\* Its fields.
LEMMA SwapFields ==
  ASSUME NEW c \in Tags
  PROVE  /\ Swap(c) \in Tags /\ Swap(c).byte = c.byte
         /\ (Swap(c).from <=> c.to) /\ (Swap(c).to <=> c.from)
<1>1. c.byte \in Bytes /\ c.from \in BOOLEAN /\ c.to \in BOOLEAN
  BY TagFields
<1>2. TagIs(Swap(c), c.byte, c.to, c.from)
  BY <1>1, TagOf DEF Swap
<1> QED BY <1>2 DEF TagIs

\* Strings with the same elements are the same.
LEMMA StringEqual ==
  ASSUME NEW s \in Strings, NEW t \in Strings, Len(s) = Len(t), \A k \in 1 .. Len(s) : s[k] = t[k]
  PROVE  s = t
<1>1. s \in Seq(Tags) /\ t \in Seq(Tags)
  BY DEF Strings
<1> QED BY <1>1, SeqEqual

\* The elements of a swapped string, and of one swapped twice.
LEMMA SwappedElements ==
  ASSUME NEW u \in Strings
  PROVE  /\ Swapped(u) \in Strings /\ Len(Swapped(u)) = Len(u)
         /\ \A k \in 1 .. Len(u) : Swapped(u)[k] = Swap(u[k])
<1>1. Len(u) \in Nat /\ DOMAIN u = 1 .. Len(u) /\ \A k \in 1 .. Len(u) : u[k] \in Tags
  BY StringElements
<1>2. Swapped(u) = [k \in 1 .. Len(u) |-> Swap(u[k])]
  BY <1>1 DEF Swapped, Swap
<1>3. Swapped(u) \in [1 .. Len(u) -> Tags]
  BY <1>1, <1>2, SwapFields
<1>4. Swapped(u) \in Strings /\ Len(Swapped(u)) = Len(u)
  BY <1>1, <1>3 DEF Strings
<1> QED BY <1>2, <1>4

\* Swapping twice.
LEMMA SwappedTwice ==
  ASSUME NEW u \in Strings
  PROVE  Swapped(Swapped(u)) = u
<1>1. PICK v \in Strings : /\ v = Swapped(u) /\ Len(v) = Len(u)
                           /\ \A k \in 1 .. Len(u) : v[k] = Swap(u[k])
  BY SwappedElements
<1>2. PICK w \in Strings : /\ w = Swapped(v) /\ Len(w) = Len(v)
                           /\ \A k \in 1 .. Len(v) : w[k] = Swap(v[k])
  BY SwappedElements
<1>3. ASSUME NEW k \in 1 .. Len(u) PROVE w[k] = u[k]
  <2>1. PICK c \in Tags : c = u[k]
    BY StringElements
  <2>2. PICK e \in Tags : /\ e = Swap(c) /\ e.byte = c.byte
                          /\ (e.from <=> c.to) /\ (e.to <=> c.from)
    BY SwapFields
  <2>3. PICK f \in Tags : /\ f = Swap(e) /\ f.byte = e.byte
                          /\ (f.from <=> e.to) /\ (f.to <=> e.from)
    BY SwapFields
  <2>4. f.from \in BOOLEAN /\ f.to \in BOOLEAN /\ c.from \in BOOLEAN /\ c.to \in BOOLEAN
    BY TagFields
  <2>5. f.from = c.from /\ f.to = c.to
    BY <2>2, <2>3, <2>4, Zenon
  <2>6. f = c
    BY <2>2, <2>3, <2>5 DEF Tags
  <2> QED BY <1>1, <1>2, <2>1, <2>2, <2>3, <2>6
<1>4. w = u
  BY <1>1, <1>2, <1>3, StringEqual
<1> QED BY <1>1, <1>2, <1>4

\* A string with one element more, swapped.
LEMMA SwappedAppend ==
  ASSUME NEW u \in Strings, NEW c \in Tags
  PROVE  Swapped(Append(u, c)) = Append(Swapped(u), Swap(c))
<1>1. PICK v \in Strings : /\ v = Swapped(u) /\ Len(v) = Len(u)
                           /\ \A k \in 1 .. Len(u) : v[k] = Swap(u[k])
  BY SwappedElements
<1>2. PICK n \in Nat : n = Len(u)
  BY StringElements
<1>3. PICK e \in Tags : e = Swap(c)
  BY SwapFields
<1>4. PICK w \in Strings : w = Append(u, c)
  BY StringConcat
<1>5. PICK x \in Strings : x = Append(v, e)
  BY StringConcat
<1>6. Len(w) = n + 1 /\ w[n + 1] = c /\ \A k \in 1 .. n : w[k] = u[k]
  BY <1>2, <1>4, AppendProperties DEF Strings
<1>7. Len(x) = n + 1 /\ x[n + 1] = e /\ \A k \in 1 .. n : x[k] = v[k]
  BY <1>1, <1>2, <1>5, AppendProperties DEF Strings
<1>8. PICK y \in Strings : /\ y = Swapped(w) /\ Len(y) = n + 1
                           /\ \A k \in 1 .. n + 1 : y[k] = Swap(w[k])
  BY <1>6, SwappedElements
<1>9. ASSUME NEW k \in 1 .. n + 1 PROVE y[k] = x[k]
  <2>1. CASE k = n + 1
    BY <1>3, <1>6, <1>7, <1>8, <2>1
  <2>2. CASE k # n + 1
    <3>1. k \in 1 .. n
      BY <2>2
    <3> QED BY <1>1, <1>2, <1>6, <1>7, <1>8, <3>1
  <2> QED BY <2>1, <2>2
<1>10. y = x
  BY <1>7, <1>8, <1>9, StringEqual
<1> QED BY <1>1, <1>3, <1>4, <1>5, <1>8, <1>10

\* Strings that lead to the same delta, as they are and swapped.
Alike(u, w) ==
  /\ u \in Strings /\ w \in Strings
  /\ Draft(Blank, u) = Draft(Blank, w)
  /\ Draft(Blank, Swapped(u)) = Draft(Blank, Swapped(w))

\* Such strings have the same delta and the same inverse.
LEMMA AlikeDeltas ==
  ASSUME NEW u, NEW w, Alike(u, w)
  PROVE  Synthesize(u) = Synthesize(w) /\ Synthesize(Swapped(u)) = Synthesize(Swapped(w))
<1>1. u \in Strings /\ w \in Strings /\ Swapped(u) \in Strings /\ Swapped(w) \in Strings
  BY SwappedElements DEF Alike
<1> QED BY <1>1, SynthesizeDraft DEF Alike

\* They may be exchanged one after the other, and stay so with one element more.
LEMMA AlikeOn ==
  /\ \A u \in Strings : Alike(u, u)
  /\ \A u, v, w : Alike(u, v) /\ Alike(v, w) => Alike(u, w)
  /\ \A u, w : Alike(u, w) => \A c \in Tags : Alike(Append(u, c), Append(w, c))
<1>1. ASSUME NEW u, NEW w, Alike(u, w), NEW c \in Tags PROVE Alike(Append(u, c), Append(w, c))
  <2>1. u \in Strings /\ w \in Strings /\ Append(u, c) \in Strings /\ Append(w, c) \in Strings
    BY <1>1, StringConcat DEF Alike
  <2>2. Draft(Blank, Append(u, c)) = Draft(Blank, Append(w, c))
    BY <1>1, <2>1, DraftMore, BlankWide DEF Alike
  <2>3. PICK x \in Strings : x = Swapped(u)
    BY <2>1, SwappedElements
  <2>4. PICK y \in Strings : y = Swapped(w)
    BY <2>1, SwappedElements
  <2>5. PICK e \in Tags : e = Swap(c)
    BY SwapFields
  <2>6. Draft(Blank, Append(x, e)) = Draft(Blank, Append(y, e))
    BY <1>1, <2>3, <2>4, DraftMore, BlankWide DEF Alike
  <2>7. Swapped(Append(u, c)) = Append(x, e) /\ Swapped(Append(w, c)) = Append(y, e)
    BY <2>1, <2>3, <2>4, <2>5, SwappedAppend
  <2> QED BY <2>1, <2>2, <2>6, <2>7 DEF Alike
<1>2. \A u \in Strings : Alike(u, u)
  BY DEF Alike
<1>3. \A u, v, w : Alike(u, v) /\ Alike(v, w) => Alike(u, w)
  BY DEF Alike
<1> QED BY <1>1, <1>2, <1>3

\* An insertion and a deletion, in either order, lead to the same state.
LEMMA DraftCommutes ==
  ASSUME NEW a \in Wide, NEW c \in Tags, c.from, ~c.to, NEW t \in Tags, ~t.from, t.to
  PROVE  SynthesizeByte(SynthesizeByte(a, c), t) = SynthesizeByte(SynthesizeByte(a, t), c)
<1>1. PICK x : x = SynthesizeByte(a, c)
  OBVIOUS
<1>2. PICK y : y = SynthesizeByte(a, t)
  OBVIOUS
<1>3. x \in Wide /\ AddsByte(a, x, c.byte)
  BY <1>1, WideByte
<1>4. y \in Wide /\ DropsByte(a, y)
  BY <1>2, WideByte
<1>5. PICK p : p = SynthesizeByte(x, t)
  OBVIOUS
<1>6. PICK q : q = SynthesizeByte(y, c)
  OBVIOUS
<1>7. p \in Wide /\ DropsByte(x, p)
  BY <1>3, <1>5, WideByte
<1>8. q \in Wide /\ AddsByte(y, q, c.byte)
  BY <1>4, <1>6, WideByte
<1>9. p.base = q.base /\ p.gap = q.gap /\ p.del = q.del
  BY <1>3, <1>4, <1>7, <1>8 DEF AddsByte, DropsByte
<1>10. p.ins = q.ins
  <2>1. p.ins = [a.ins EXCEPT ![a.gap] = Append(@, c.byte)]
    BY <1>3, <1>7 DEF AddsByte, DropsByte
  <2>2. q.ins = [a.ins EXCEPT ![a.gap] = Append(@, c.byte)]
    BY <1>4, <1>8 DEF AddsByte, DropsByte
  <2> QED BY <2>1, <2>2
<1>11. p = q
  BY <1>7, <1>8, <1>9, <1>10, WideEqual
<1> QED BY <1>1, <1>2, <1>5, <1>6, <1>11

\* So do the strings that end with them,
LEMMA AlikeSwap ==
  ASSUME NEW u \in Strings, NEW c \in Tags, c.from, ~c.to, NEW t \in Tags, ~t.from, t.to
  PROVE  Alike(Append(Append(u, c), t), Append(Append(u, t), c))
<1>1. ASSUME NEW v \in Strings, NEW x \in Tags, NEW y \in Tags
      PROVE  /\ Append(Append(v, x), y) \in Strings
             /\ Draft(Blank, Append(Append(v, x), y))
                  = SynthesizeByte(SynthesizeByte(Draft(Blank, v), x), y)
  <2>1. PICK w \in Strings : w = Append(v, x)
    BY StringConcat
  <2>2. Draft(Blank, w) = SynthesizeByte(Draft(Blank, v), x)
    BY <2>1, DraftMore, BlankWide
  <2>3. Append(w, y) \in Strings
    BY StringConcat
  <2>4. Draft(Blank, Append(w, y)) = SynthesizeByte(Draft(Blank, w), y)
    BY DraftMore, BlankWide
  <2> QED BY <2>1, <2>2, <2>3, <2>4
<1>2. ASSUME NEW v \in Strings, NEW x \in Tags, NEW y \in Tags
      PROVE  Swapped(Append(Append(v, x), y)) = Append(Append(Swapped(v), Swap(x)), Swap(y))
  <2>1. PICK w \in Strings : w = Append(v, x)
    BY StringConcat
  <2>2. Swapped(w) = Append(Swapped(v), Swap(x))
    BY <2>1, SwappedAppend
  <2>3. Swapped(Append(w, y)) = Append(Swapped(w), Swap(y))
    BY SwappedAppend
  <2> QED BY <2>1, <2>2, <2>3
<1>3. PICK e \in Tags : e = Swap(c) /\ ~e.from /\ e.to
  BY SwapFields
<1>4. PICK s \in Tags : s = Swap(t) /\ s.from /\ ~s.to
  BY SwapFields
<1>5. PICK v \in Strings : v = Swapped(u)
  BY SwappedElements
<1>6. Draft(Blank, u) \in Wide /\ Draft(Blank, v) \in Wide
  BY DraftMore, BlankWide
<1>7. Draft(Blank, Append(Append(u, c), t)) = Draft(Blank, Append(Append(u, t), c))
  <2>1. PICK a \in Wide : a = Draft(Blank, u)
    BY <1>6
  <2>2. SynthesizeByte(SynthesizeByte(a, c), t) = SynthesizeByte(SynthesizeByte(a, t), c)
    BY DraftCommutes
  <2>3. Draft(Blank, Append(Append(u, c), t)) = SynthesizeByte(SynthesizeByte(a, c), t)
    BY <1>1, <2>1
  <2>4. Draft(Blank, Append(Append(u, t), c)) = SynthesizeByte(SynthesizeByte(a, t), c)
    BY <1>1, <2>1
  <2> QED BY <2>2, <2>3, <2>4
<1>8. Draft(Blank, Append(Append(v, e), s)) = Draft(Blank, Append(Append(v, s), e))
  <2>1. PICK a \in Wide : a = Draft(Blank, v)
    BY <1>6
  <2>2. SynthesizeByte(SynthesizeByte(a, e), s) = SynthesizeByte(SynthesizeByte(a, s), e)
    BY <1>3, <1>4, DraftCommutes
  <2>3. Draft(Blank, Append(Append(v, e), s)) = SynthesizeByte(SynthesizeByte(a, e), s)
    BY <1>1, <2>1
  <2>4. Draft(Blank, Append(Append(v, s), e)) = SynthesizeByte(SynthesizeByte(a, s), e)
    BY <1>1, <2>1
  <2> QED BY <2>2, <2>3, <2>4
<1>9. /\ Swapped(Append(Append(u, c), t)) = Append(Append(v, e), s)
      /\ Swapped(Append(Append(u, t), c)) = Append(Append(v, s), e)
  BY <1>2, <1>3, <1>4, <1>5
<1> QED BY <1>1, <1>7, <1>8, <1>9 DEF Alike

\* and those that end with an element of neither reading and without it.
LEMMA AlikeDrop ==
  ASSUME NEW u \in Strings, NEW c \in Tags, c.from, c.to
  PROVE  Alike(u, Append(u, c))
<1>1. PICK e \in Tags : e = Swap(c) /\ e.from /\ e.to
  BY SwapFields
<1>2. PICK v \in Strings : v = Swapped(u)
  BY SwappedElements
<1>3. Draft(Blank, u) \in Wide /\ Draft(Blank, v) \in Wide
  BY DraftMore, BlankWide
<1>4. Draft(Blank, Append(u, c)) = Draft(Blank, u)
  <2>1. Draft(Blank, Append(u, c)) = SynthesizeByte(Draft(Blank, u), c)
    BY DraftMore, BlankWide
  <2> QED BY <1>3, <2>1, WideByte
<1>5. Draft(Blank, Append(v, e)) = Draft(Blank, v)
  <2>1. Draft(Blank, Append(v, e)) = SynthesizeByte(Draft(Blank, v), e)
    BY DraftMore, BlankWide
  <2> QED BY <1>1, <1>3, <2>1, WideByte
<1>6. Swapped(Append(u, c)) = Append(v, e) /\ Append(u, c) \in Strings
  BY <1>1, <1>2, SwappedAppend, StringConcat
<1> QED BY <1>2, <1>4, <1>5, <1>6 DEF Alike

\* The elements of an insertion, and an insertion with one byte more.
LEMMA InsertedElements ==
  ASSUME NEW t \in Text
  PROVE  /\ Inserted(t) \in Strings /\ Len(Inserted(t)) = Len(t)
         /\ \A k \in 1 .. Len(t) : Inserted(t)[k] = Tag(t[k], TRUE, FALSE)
<1>1. Inserted(t) \in Strings
  BY InsertedReads
<1>2. Len(t) \in Nat /\ DOMAIN t = 1 .. Len(t)
  BY TextElements
<1>3. Inserted(t) = [k \in 1 .. Len(t) |-> Tag(t[k], TRUE, FALSE)]
  BY <1>2 DEF Inserted
<1>4. Len(Inserted(t)) \in Nat /\ DOMAIN Inserted(t) = 1 .. Len(Inserted(t))
  BY <1>1, StringElements
<1>5. 1 .. Len(t) = 1 .. Len(Inserted(t))
  BY <1>3, <1>4
<1>6. Len(Inserted(t)) = Len(t)
  <2>1. PICK m \in Nat : m = Len(t)
    BY <1>2
  <2>2. PICK n \in Nat : n = Len(Inserted(t))
    BY <1>4
  <2>3. 1 .. m = 1 .. n
    BY <1>5, <2>1, <2>2
  <2>4. m <= n
    <3>1. CASE m = 0
      BY <3>1
    <3>2. CASE m # 0
      <4>1. m \in 1 .. m
        BY <3>2
      <4> QED BY <2>3, <4>1
    <3> QED BY <3>1, <3>2
  <2>5. n <= m
    <3>1. CASE n = 0
      BY <3>1
    <3>2. CASE n # 0
      <4>1. n \in 1 .. n
        BY <3>2
      <4> QED BY <2>3, <4>1
    <3> QED BY <3>1, <3>2
  <2> QED BY <2>1, <2>2, <2>4, <2>5
<1> QED BY <1>1, <1>3, <1>6

\* Nothing inserted, and one byte more inserted.
LEMMA InsertedMore ==
  /\ Inserted(<< >>) = << >>
  /\ \A t \in Text, b \in Bytes : Inserted(Append(t, b)) = Append(Inserted(t), Tag(b, TRUE, FALSE))
<1>1. Inserted(<< >>) = << >>
  <2>1. PICK t \in Text : t = << >> /\ Len(t) = 0
    BY TextConcat
  <2>2. PICK s \in Strings : s = Inserted(t) /\ Len(s) = 0
    BY <2>1, InsertedElements
  <2>3. s = << >>
    BY <2>2, EmptySeq DEF Strings
  <2> QED BY <2>1, <2>2, <2>3
<1>2. ASSUME NEW t \in Text, NEW b \in Bytes
      PROVE  Inserted(Append(t, b)) = Append(Inserted(t), Tag(b, TRUE, FALSE))
  <2>1. PICK n \in Nat : n = Len(t)
    BY TextElements
  <2>2. PICK r \in Text : r = Append(t, b) /\ Longer(r, t, b)
    BY TextConcat, TextAppend
  <2>3. Len(r) = n + 1 /\ r[n + 1] = b /\ \A k \in 1 .. n : r[k] = t[k]
    BY <2>1, <2>2 DEF Longer
  <2>4. PICK c \in Tags : c = Tag(b, TRUE, FALSE)
    BY TagFields
  <2>5. PICK v \in Strings : v = Inserted(t) /\ Len(v) = n /\ \A k \in 1 .. n : v[k] = Tag(t[k], TRUE, FALSE)
    BY <2>1, InsertedElements
  <2>6. PICK x \in Strings : x = Append(v, c)
    BY StringConcat
  <2>7. Len(x) = n + 1 /\ x[n + 1] = c /\ \A k \in 1 .. n : x[k] = v[k]
    BY <2>5, <2>6, AppendProperties DEF Strings
  <2>8. PICK y \in Strings : /\ y = Inserted(r) /\ Len(y) = n + 1
                             /\ \A k \in 1 .. n + 1 : y[k] = Tag(r[k], TRUE, FALSE)
    BY <2>3, InsertedElements
  <2>9. ASSUME NEW k \in 1 .. n + 1 PROVE y[k] = x[k]
    <3>1. CASE k = n + 1
      BY <2>3, <2>4, <2>7, <2>8, <3>1
    <3>2. CASE k # n + 1
      <4>1. k \in 1 .. n
        BY <3>2
      <4> QED BY <2>3, <2>5, <2>7, <2>8, <4>1
    <3> QED BY <3>1, <3>2
  <2>10. y = x
    BY <2>7, <2>8, <2>9, StringEqual
  <2> QED BY <2>2, <2>4, <2>5, <2>6, <2>8, <2>10
<1> QED BY <1>1, <1>2

\* A tag is what it is made of.
LEMMA TagUnique ==
  ASSUME NEW c, NEW e, NEW b, NEW x, NEW y, TagIs(c, b, x, y), TagIs(e, b, x, y)
  PROVE  c = e
<1>1. c \in Tags /\ e \in Tags /\ c.byte = e.byte /\ (c.from <=> e.from) /\ (c.to <=> e.to)
  BY DEF TagIs
<1>2. c.from \in BOOLEAN /\ e.from \in BOOLEAN /\ c.to \in BOOLEAN /\ e.to \in BOOLEAN
  BY <1>1, TagFields
<1>3. c.from = e.from /\ c.to = e.to
  BY <1>1, <1>2, Zenon
<1> QED BY <1>1, <1>3 DEF Tags

\* The tag of a byte of the base.
LEMMA BaseTag ==
  ASSUME NEW b \in Bytes, NEW i, NEW D
  PROVE  TagIs(Tag(b, FALSE, i \in D), b, FALSE, i \in D)
<1>1. (i \in D) \in BOOLEAN
  OBVIOUS
<1>2. PICK y \in BOOLEAN : y = (i \in D)
  BY <1>1, Zenon
<1>3. TagIs(Tag(b, FALSE, y), b, FALSE, y)
  BY TagOf
<1> QED BY <1>2, <1>3, Zenon

\* Deltas that do the same to the same bytes up to gap n.
Matches(data, d, other, e, n) ==
  /\ n \in Nat /\ n <= d.base /\ n <= e.base
  /\ \A g \in 0 .. n : d.ins[g] = e.ins[g]
  /\ \A g \in 1 .. n : data[g] = other[g] /\ (g - 1 \in d.del <=> g - 1 \in e.del)

\* They have the same union string up to there.
LEMMA UnionSame ==
  ASSUME NEW d, NEW data, NEW e, NEW other, NEW n,
         Fits(data, d), Fits(other, e), Matches(data, d, other, e, n)
  PROVE  \A g \in 0 .. n : UnionUpTo(d, data)[g] = UnionUpTo(e, other)[g]
<1> DEFINE O == UnionUpTo(d, data)
           P == UnionUpTo(e, other)
           S == {g \in 0 .. n : O[g] = P[g]}
<1>1. n \in Nat /\ d.base \in Nat /\ e.base \in Nat /\ n <= d.base /\ n <= e.base
  BY DEF Matches, Fits
<1>2. /\ O[0] = Inserted(d.ins[0])
      /\ \A g \in 1 .. d.base : O[g] = O[g - 1] \o << Tag(data[g], FALSE, g - 1 \in d.del) >>
                                                \o Inserted(d.ins[g])
  BY UnionDef
<1>3. /\ P[0] = Inserted(e.ins[0])
      /\ \A g \in 1 .. e.base : P[g] = P[g - 1] \o << Tag(other[g], FALSE, g - 1 \in e.del) >>
                                                \o Inserted(e.ins[g])
  BY UnionDef
<1> HIDE DEF O, P
<1>4. 0 \in S
  BY <1>1, <1>2, <1>3 DEF Matches
<1>5. \A g \in 0 .. n - 1 : g \in S => g + 1 \in S
  <2> SUFFICES ASSUME NEW g \in 0 .. n - 1, g \in S PROVE g + 1 \in S
    OBVIOUS
  <2>1. /\ g + 1 \in 1 .. n /\ g + 1 \in 0 .. n /\ (g + 1) - 1 = g /\ O[g] = P[g]
        /\ g + 1 \in 1 .. d.base /\ g + 1 \in 1 .. e.base
    BY <1>1
  <2>2. d.ins[g + 1] = e.ins[g + 1] /\ data[g + 1] = other[g + 1] /\ (g \in d.del <=> g \in e.del)
    BY <2>1 DEF Matches
  <2>3. PICK b \in Bytes : b = data[g + 1] /\ b = other[g + 1]
    BY <2>1, <2>2 DEF Fits
  <2>4. PICK c : c = Tag(data[g + 1], FALSE, g \in d.del) /\ TagIs(c, b, FALSE, g \in d.del)
    BY <2>3, BaseTag
  <2>5. c = Tag(other[g + 1], FALSE, g \in e.del)
    <3>1. PICK x : x = Tag(other[g + 1], FALSE, g \in e.del) /\ TagIs(x, b, FALSE, g \in e.del)
      BY <2>3, BaseTag
    <3>2. TagIs(x, b, FALSE, g \in d.del)
      BY <2>2, <3>1 DEF TagIs
    <3> QED BY <2>4, <3>1, <3>2, TagUnique
  <2>6. O[g + 1] = O[g] \o << c >> \o Inserted(d.ins[g + 1])
    <3> HIDE DEF S
    <3> QED BY <1>2, <2>1, <2>4
  <2>7. P[g + 1] = P[g] \o << c >> \o Inserted(e.ins[g + 1])
    <3> HIDE DEF S
    <3> QED BY <1>3, <2>1, <2>5
  <2>8. O[g + 1] = P[g + 1]
    BY <2>1, <2>2, <2>6, <2>7
  <2> QED BY <2>1, <2>8
<1>6. \A g \in 0 .. n : g \in S
  <2> HIDE DEF S
  <2> QED BY <1>1, <1>4, <1>5, Induction
<1>7. \A g \in 0 .. n : O[g] = P[g]
  BY <1>6
<1> QED BY <1>7 DEF O, P

\* The string v is w with the element c after it.
Grows(v, w, c) == w \in Strings /\ v = Append(w, c)

\* A byte of the base with nothing inserted after it.
LEMMA UnionPlain ==
  ASSUME NEW d, NEW data, Fits(data, d), NEW g \in 0 .. d.base - 1, d.ins[g + 1] = << >>,
         NEW c \in Tags, TagIs(c, data[g + 1], FALSE, g \in d.del)
  PROVE  Grows(UnionUpTo(d, data)[g + 1], UnionUpTo(d, data)[g], c)
<1>1. d.base \in Nat /\ g \in 0 .. d.base /\ g + 1 \in 1 .. d.base /\ (g + 1) - 1 = g
  BY DEF Fits
<1>2. PICK v \in Strings : v = UnionUpTo(d, data)[g]
  BY <1>1, UnionDef
<1>3. PICK x : x = Tag(data[g + 1], FALSE, g \in d.del)
  OBVIOUS
<1>4. x = c
  <2>1. data[g + 1] \in Bytes
    BY <1>1 DEF Fits
  <2>2. TagIs(x, data[g + 1], FALSE, g \in d.del)
    BY <1>3, <2>1, BaseTag
  <2> QED BY <2>2, TagUnique
<1>5. Inserted(d.ins[g + 1]) = << >>
  BY InsertedMore
<1>6. UnionUpTo(d, data)[g + 1] = (v \o << c >>) \o << >>
  <2>1. UnionUpTo(d, data)[g + 1] = UnionUpTo(d, data)[(g + 1) - 1]
          \o << Tag(data[g + 1], FALSE, (g + 1) - 1 \in d.del) >> \o Inserted(d.ins[g + 1])
    BY <1>1, UnionDef
  <2> QED BY <1>1, <1>2, <1>3, <1>4, <1>5, <2>1
<1>7. v \o << c >> \in Strings /\ v \o << c >> = Append(v, c)
  BY StringConcat
<1>8. (v \o << c >>) \o << >> = Append(v, c)
  <2>1. PICK w \in Strings : w = v \o << c >>
    BY <1>7
  <2>2. w \o << >> = w
    BY StringConcat
  <2> QED BY <1>7, <2>1, <2>2
<1> QED BY <1>2, <1>6, <1>8 DEF Grows

\* One byte more inserted at a gap stands at the end of the union string up to there.
LEMMA UnionInserts ==
  ASSUME NEW d, NEW e, NEW data, Fits(data, d), Fits(data, e), NEW g \in 0 .. d.base, e.base = d.base,
         \A i \in 0 .. g - 1 : e.ins[i] = d.ins[i], e.del = d.del,
         NEW b \in Bytes, e.ins[g] = Append(d.ins[g], b),
         NEW c \in Tags, c = Tag(b, TRUE, FALSE)
  PROVE  Grows(UnionUpTo(e, data)[g], UnionUpTo(d, data)[g], c)
<1>1. PICK t \in Text : t = d.ins[g]
  BY DEF Fits
<1>3. PICK i \in Strings : i = Inserted(t)
  BY InsertedElements
<1>4. Inserted(e.ins[g]) = Append(i, c)
  BY <1>1, <1>3, InsertedMore
<1>5. d.base \in Nat
  BY DEF Fits
<1>6. UnionUpTo(d, data)[g] \in Strings
  BY UnionDef
<1>7. CASE g = 0
  BY <1>1, <1>3, <1>4, <1>6, <1>7, UnionDef DEF Grows
<1>8. CASE g # 0
  <2>1. g \in 1 .. d.base /\ g - 1 \in 0 .. d.base /\ g - 1 \in 0 .. g - 1 /\ g - 1 \in Nat
    BY <1>5, <1>8
  <2>2. Matches(data, d, data, e, g - 1)
    BY <1>5, <2>1 DEF Matches
  <2>3. UnionUpTo(d, data)[g - 1] = UnionUpTo(e, data)[g - 1]
    BY <2>1, <2>2, UnionSame
  <2>4. PICK v \in Strings : v = UnionUpTo(d, data)[g - 1]
    BY <2>1, UnionDef
  <2>5. PICK x \in Tags : x = Tag(data[g], FALSE, g - 1 \in d.del)
    <3>1. data[g] \in Bytes
      BY <2>1 DEF Fits
    <3> QED BY <3>1, BaseTag DEF TagIs
  <2>6. UnionUpTo(d, data)[g] = (v \o << x >>) \o i
    BY <1>1, <1>3, <2>1, <2>4, <2>5, UnionDef
  <2>7. UnionUpTo(e, data)[g] = (v \o << x >>) \o Append(i, c)
    <3>1. UnionUpTo(e, data)[g] = UnionUpTo(e, data)[g - 1]
            \o << Tag(data[g], FALSE, g - 1 \in e.del) >> \o Inserted(e.ins[g])
      <4>1. g \in 1 .. e.base
        BY <2>1
      <4>2. \A j \in 1 .. e.base :
              UnionUpTo(e, data)[j] = UnionUpTo(e, data)[j - 1]
                \o << Tag(data[j], FALSE, j - 1 \in e.del) >> \o Inserted(e.ins[j])
        BY UnionDef, Zenon
      <4> QED BY <4>1, <4>2, Zenon
    <3>2. Tag(data[g], FALSE, g - 1 \in e.del) = x
      BY <2>5
    <3>3. PICK p, q : p = UnionUpTo(e, data)[g - 1] /\ q = Inserted(e.ins[g])
      OBVIOUS
    <3>4. p = v /\ q = Append(i, c)
      BY <1>4, <2>3, <2>4, <3>3
    <3>5. UnionUpTo(e, data)[g] = (p \o << x >>) \o q
      BY <3>1, <3>2, <3>3, Zenon
    <3> QED BY <3>4, <3>5
  <2>8. PICK w \in Strings : w = v \o << x >>
    BY StringConcat
  <2>9. w \o Append(i, c) = Append(w \o i, c)
    <3>1. w \in Seq(Tags) /\ i \in Seq(Tags) /\ << c >> \in Seq(Tags)
      BY StringConcat DEF Strings
    <3>2. w \o (i \o << c >>) = (w \o i) \o << c >>
      BY <3>1, ConcatAssociative
    <3>3. Append(i, c) = i \o << c >> /\ w \o i \in Strings
      BY StringConcat
    <3>4. Append(w \o i, c) = (w \o i) \o << c >>
      BY <3>3, StringConcat
    <3> QED BY <3>2, <3>3, <3>4
  <2> QED BY <1>6, <2>6, <2>7, <2>8, <2>9 DEF Grows
<1> QED BY <1>7, <1>8

\* The state a has been drafted from a string that reads B in the base.
Drafted(a, B) ==
  /\ a \in Wide /\ B \in Text
  /\ a.base = Len(B) /\ a.gap \in 0 .. a.base
  /\ a.del \subseteq 0 .. a.base - 1
  /\ \A i \in a.gap .. a.base - 1 : i \in a.del
  /\ \A g \in Nat : g > a.gap => a.ins[g] = << >>

\* The parts of such a state, and that it can be applied to what it was made from.
LEMMA DraftedFits ==
  ASSUME NEW a, NEW B, Drafted(a, B)
  PROVE  /\ a.base \in Nat /\ a.gap \in Nat /\ a.gap <= a.base /\ a.del \in SUBSET Nat
         /\ a.ins \in [Nat -> Text] /\ B \in Text /\ Len(B) = a.base
         /\ Fits(B, a)
<1>1. /\ a.base \in Nat /\ a.gap \in Nat /\ a.gap <= a.base /\ a.del \in SUBSET Nat
      /\ a.ins \in [Nat -> Text] /\ B \in Text /\ Len(B) = a.base
  BY DEF Drafted, Wide
<1>2. \A k \in 1 .. a.base : B[k] \in Bytes
  BY <1>1, TextElements
<1> QED BY <1>1, <1>2 DEF Fits

\* One element more.
LEMMA DraftedByte ==
  ASSUME NEW a, NEW B, Drafted(a, B), NEW c \in Tags, NEW b, b = SynthesizeByte(a, c),
         NEW C, C = IF c \in InBase THEN Append(B, c.byte) ELSE B
  PROVE  Drafted(b, C)
<1>1. /\ a \in Wide /\ a.base \in Nat /\ a.gap \in Nat /\ a.gap <= a.base /\ a.del \in SUBSET Nat
      /\ a.ins \in [Nat -> Text] /\ B \in Text /\ Len(B) = a.base
  BY DraftedFits DEF Drafted
<1>2. c.from \in BOOLEAN /\ c.to \in BOOLEAN /\ c.byte \in Bytes
  BY TagFields
<1>3. b \in Wide
  BY <1>1, WideByte
<1>4. CASE c.from
  <2>1. C = B
    BY <1>4 DEF InBase
  <2>2. CASE c.to
    <3>1. b = a
      BY <1>1, <1>4, <2>2, WideByte
    <3> QED BY <2>1, <3>1
  <2>3. CASE ~c.to
    <3>1. AddsByte(a, b, c.byte)
      BY <1>1, <1>4, <2>3, WideByte
    <3>2. b.base = a.base /\ b.gap = a.gap /\ b.del = a.del
      BY <3>1 DEF AddsByte
    <3>3. ASSUME NEW g \in Nat, g > a.gap PROVE b.ins[g] = << >>
      <4>1. g # a.gap
        BY <1>1, <3>3
      <4>2. b.ins[g] = a.ins[g]
        BY <1>1, <3>1, <4>1 DEF AddsByte
      <4> QED BY <3>3, <4>2 DEF Drafted
    <3> QED BY <1>3, <2>1, <3>2, <3>3 DEF Drafted
  <2> QED BY <1>2, <2>2, <2>3
<1>5. CASE ~c.from
  <2>1. C = Append(B, c.byte)
    BY <1>5 DEF InBase
  <2>2. C \in Text /\ Len(C) = a.base + 1
    <3>1. Longer(C, B, c.byte)
      BY <1>1, <1>2, <2>1, TextAppend
    <3> QED BY <1>1, <3>1 DEF Longer
  <2>3. CASE c.to
    <3>1. DropsByte(a, b)
      BY <1>1, <1>5, <2>3, WideByte
    <3>2. b.base = a.base + 1 /\ b.gap = a.gap /\ b.del = a.del \cup {a.base} /\ b.ins = a.ins
      BY <3>1 DEF DropsByte
    <3>3. a.del \subseteq 0 .. a.base - 1 /\ \A i \in a.gap .. a.base - 1 : i \in a.del
      BY DEF Drafted
    <3>4. b.del \subseteq 0 .. b.base - 1
      BY <1>1, <3>2, <3>3
    <3>5. \A i \in b.gap .. b.base - 1 : i \in b.del
      BY <1>1, <3>2, <3>3
    <3>6. \A g \in Nat : g > b.gap => b.ins[g] = << >>
      BY <3>2 DEF Drafted
    <3> QED BY <1>1, <1>3, <2>2, <3>2, <3>4, <3>5, <3>6 DEF Drafted
  <2>4. CASE ~c.to
    <3>1. KeepsByte(a, b)
      BY <1>1, <1>5, <2>4, WideByte
    <3>2. b.base = a.base + 1 /\ b.gap = a.base + 1 /\ b.del = a.del /\ b.ins = a.ins
      BY <3>1 DEF KeepsByte
    <3>3. b.del \subseteq 0 .. b.base - 1
      BY <1>1, <3>2 DEF Drafted
    <3>4. \A g \in Nat : g > b.gap => b.ins[g] = << >>
      <4>1. \A g \in Nat : g > b.gap => g > a.gap
        BY <1>1, <3>2
      <4> QED BY <3>2, <4>1 DEF Drafted
    <3> QED BY <1>1, <1>3, <2>2, <3>2, <3>3, <3>4 DEF Drafted
  <2> QED BY <1>2, <2>3, <2>4
<1> QED BY <1>2, <1>4, <1>5

\* The union string of what has been drafted.
Unfolded(a, B) == UnionUpTo(a, B)[a.base]

\* The string v is like w with the element c after it.
Catches(v, w, c) == w \in Strings /\ Alike(v, Append(w, c))

\* The union string grows by the element that the state grows by, if that is of the base,
LEMMA UnfoldedBase ==
  ASSUME NEW a, NEW B, Drafted(a, B), NEW c \in Tags, ~c.from, NEW b, b = SynthesizeByte(a, c),
         NEW C, C = Append(B, c.byte)
  PROVE  Grows(Unfolded(b, C), Unfolded(a, B), c)
<1>1. /\ a \in Wide /\ a.base \in Nat /\ a.gap \in Nat /\ a.gap <= a.base /\ a.del \in SUBSET Nat
      /\ a.ins \in [Nat -> Text] /\ B \in Text /\ Len(B) = a.base /\ Fits(B, a)
  BY DraftedFits DEF Drafted
<1>2. c.from \in BOOLEAN /\ c.to \in BOOLEAN /\ c.byte \in Bytes
  BY TagFields
<1>3. Drafted(b, C)
  BY DraftedByte DEF InBase
<1>4. Fits(C, b)
  BY <1>3, DraftedFits
<1>5. PICK n \in Nat : n = a.base
  BY <1>1
<1>6. C \in Text /\ \A k \in 1 .. n : C[k] = B[k]
  BY <1>1, <1>2, <1>5, TextAppend DEF Longer
<1>7. C[n + 1] = c.byte
  BY <1>1, <1>2, <1>5, TextAppend DEF Longer
<1>8. b.base = n + 1 /\ b.ins = a.ins /\ b.ins[n + 1] = << >>
  <2>1. (c.to => DropsByte(a, b)) /\ (~c.to => KeepsByte(a, b))
    BY <1>1, <1>2, WideByte
  <2>2. b.base = n + 1 /\ b.ins = a.ins
    BY <1>2, <1>5, <2>1 DEF DropsByte, KeepsByte
  <2>3. n + 1 \in Nat /\ n + 1 > a.gap
    BY <1>1, <1>5
  <2>4. a.ins[n + 1] = << >>
    BY <2>3 DEF Drafted
  <2> QED BY <2>2, <2>4
<1>9. \A g \in 1 .. n : g - 1 \in a.del <=> g - 1 \in b.del
  <2>1. (c.to => DropsByte(a, b)) /\ (~c.to => KeepsByte(a, b))
    BY <1>1, <1>2, WideByte
  <2>2. b.del = a.del \/ b.del = a.del \cup {n}
    BY <1>2, <1>5, <2>1 DEF DropsByte, KeepsByte
  <2> QED BY <2>2
<1>10. n \in b.del <=> c.to
  <2>1. n \notin a.del
    BY <1>5 DEF Drafted
  <2>2. (c.to => DropsByte(a, b)) /\ (~c.to => KeepsByte(a, b))
    BY <1>1, <1>2, WideByte
  <2>3. CASE c.to
    BY <1>5, <2>2, <2>3 DEF DropsByte
  <2>4. CASE ~c.to
    BY <1>5, <2>1, <2>2, <2>4 DEF KeepsByte
  <2> QED BY <1>2, <2>3, <2>4
<1>11. Matches(B, a, C, b, n)
  BY <1>1, <1>5, <1>6, <1>8, <1>9 DEF Matches
<1>12. UnionUpTo(a, B)[n] = UnionUpTo(b, C)[n]
  BY <1>1, <1>4, <1>11, UnionSame
<1>13. TagIs(c, C[n + 1], FALSE, n \in b.del)
  BY <1>2, <1>7, <1>10 DEF TagIs
<1>14. Grows(UnionUpTo(b, C)[n + 1], UnionUpTo(b, C)[n], c)
  <2>1. n \in 0 .. b.base - 1
    BY <1>8
  <2> QED BY <1>4, <1>8, <1>13, <2>1, UnionPlain
<1> QED BY <1>5, <1>8, <1>12, <1>14 DEF Unfolded

\* and if it is inserted, up to the order of insertions and deletions.
LEMMA UnfoldedInserts ==
  ASSUME NEW a, NEW B, Drafted(a, B), NEW c \in Tags, c.from, ~c.to, NEW b, b = SynthesizeByte(a, c)
  PROVE  Alike(Unfolded(b, B), Append(Unfolded(a, B), c))
<1>1. /\ a \in Wide /\ a.base \in Nat /\ a.gap \in Nat /\ a.gap <= a.base /\ a.del \in SUBSET Nat
      /\ a.ins \in [Nat -> Text] /\ B \in Text /\ Len(B) = a.base /\ Fits(B, a)
  BY DraftedFits DEF Drafted
<1>2. c.byte \in Bytes
  BY TagFields
<1>3. Drafted(b, B)
  BY DraftedByte DEF InBase
<1>4. Fits(B, b)
  BY <1>3, DraftedFits
<1>5. AddsByte(a, b, c.byte)
  BY <1>1, WideByte
<1>6. /\ b.base = a.base /\ b.gap = a.gap /\ b.del = a.del
      /\ b.ins = [a.ins EXCEPT ![a.gap] = Append(@, c.byte)]
  BY <1>5 DEF AddsByte
<1>7. /\ b.ins[a.gap] = Append(a.ins[a.gap], c.byte)
      /\ \A g \in Nat : g # a.gap => b.ins[g] = a.ins[g]
  BY <1>1, <1>6
<1>8. c = Tag(c.byte, TRUE, FALSE)
  <2>1. TagIs(c, c.byte, TRUE, FALSE)
    BY DEF TagIs
  <2>2. TagIs(Tag(c.byte, TRUE, FALSE), c.byte, TRUE, FALSE)
    BY <1>2, TagOf
  <2> QED BY <2>1, <2>2, TagUnique
<1> DEFINE U == UnionUpTo(a, B)
           V == UnionUpTo(b, B)
           S == {g \in a.gap .. a.base : Catches(V[g], U[g], c)}
<1>9. a.gap \in S
  <2>1. a.gap \in 0 .. a.base /\ \A i \in 0 .. a.gap - 1 : b.ins[i] = a.ins[i]
    BY <1>1, <1>7
  <2>2. Grows(V[a.gap], U[a.gap], c)
    BY <1>1, <1>2, <1>4, <1>6, <1>7, <1>8, <2>1, UnionInserts
  <2>3. V[a.gap] \in Strings
    BY <1>4, <1>6, <2>1, UnionDef
  <2>4. Catches(V[a.gap], U[a.gap], c)
    BY <2>2, <2>3, AlikeOn DEF Catches, Grows
  <2>5. a.gap \in a.gap .. a.base
    BY <1>1
  <2> QED BY <2>4, <2>5
<1>10. \A g \in a.gap .. a.base - 1 : g \in S => g + 1 \in S
  <2> SUFFICES ASSUME NEW g \in a.gap .. a.base - 1, g \in S PROVE g + 1 \in S
    OBVIOUS
  <2>1. /\ g + 1 \in 1 .. a.base /\ g + 1 \in a.gap .. a.base /\ (g + 1) - 1 = g
        /\ g + 1 \in Nat /\ g + 1 # a.gap /\ g + 1 > a.gap
    BY <1>1
  <2>15. Catches(V[g], U[g], c)
    OBVIOUS
  <2> HIDE DEF U, V, S
  <2>2. U[g] \in Strings /\ Alike(V[g], Append(U[g], c))
    BY <2>15 DEF Catches
  <2>3. a.ins[g + 1] = << >> /\ b.ins[g + 1] = << >> /\ g \in a.del /\ g \in b.del
    BY <1>6, <1>7, <2>1 DEF Drafted
  <2>4. B[g + 1] \in Bytes
    BY <1>1, <2>1, TextElements
  <2>5. PICK t \in Tags : TagIs(t, B[g + 1], FALSE, TRUE)
    BY <2>4, TagOf DEF TagIs
  <2>6. TagIs(t, B[g + 1], FALSE, g \in a.del) /\ TagIs(t, B[g + 1], FALSE, g \in b.del)
    BY <2>3, <2>5 DEF TagIs
  <2>16. g \in 0 .. a.base - 1 /\ g \in 0 .. b.base - 1
    BY <1>1, <1>6
  <2>7. U[g + 1] = Append(U[g], t)
    <3>1. Grows(UnionUpTo(a, B)[g + 1], UnionUpTo(a, B)[g], t)
      BY <1>1, <2>3, <2>6, <2>16, UnionPlain
    <3> QED BY <3>1 DEF U, Grows
  <2>8. V[g + 1] = Append(V[g], t)
    <3>1. Grows(UnionUpTo(b, B)[g + 1], UnionUpTo(b, B)[g], t)
      BY <1>4, <2>3, <2>6, <2>16, UnionPlain
    <3> QED BY <3>1 DEF V, Grows
  <2>9. PICK u \in Strings : u = U[g]
    BY <2>2
  <2>10. Alike(V[g + 1], Append(Append(u, c), t))
    BY <2>2, <2>8, <2>9, AlikeOn
  <2>11. ~t.from /\ t.to
    BY <2>5 DEF TagIs
  <2>12. Alike(Append(Append(u, c), t), Append(Append(u, t), c))
    BY <2>11, AlikeSwap
  <2>13. Alike(V[g + 1], Append(U[g + 1], c))
    BY <2>7, <2>9, <2>10, <2>12, AlikeOn
  <2>14. U[g + 1] \in Strings
    BY <2>7, <2>9, StringConcat
  <2>17. Catches(V[g + 1], U[g + 1], c)
    BY <2>13, <2>14 DEF Catches
  <2> QED BY <2>1, <2>17 DEF S
<1>11. a.base \in S
  <2>1. a.gap \in Int /\ a.base \in Int /\ a.base \in a.gap .. a.base
    BY <1>1
  <2> HIDE DEF S
  <2> QED BY <1>9, <1>10, <2>1, InductionFrom
<1>12. Alike(V[a.base], Append(U[a.base], c))
  BY <1>11 DEF Catches
<1> QED BY <1>6, <1>12 DEF Unfolded

\* A string and the union string of the delta synthesised from it are alike.
LEMMA UnfoldedAlike ==
  \A u \in Strings : /\ Drafted(Draft(Blank, u), Read(u, InBase))
                     /\ Alike(Unfolded(Draft(Blank, u), Read(u, InBase)), u)
<1> DEFINE S == {u \in Strings : /\ Drafted(Draft(Blank, u), Read(u, InBase))
                                 /\ Alike(Unfolded(Draft(Blank, u), Read(u, InBase)), u)}
<1>1. << >> \in S
  <2>1. << >> \in Strings
    BY StringConcat
  <2>2. Draft(Blank, << >>) = Blank /\ Read(<< >>, InBase) = << >>
    BY DraftMore, BlankWide, ReadEmpty
  <2>3. Drafted(Blank, << >>)
    <3>1. << >> \in Text /\ Len(<< >>) = 0
      BY TextConcat
    <3> QED BY <3>1, BlankWide DEF Drafted
  <2>4. Unfolded(Blank, << >>) = << >>
    <3>1. Fits(<< >>, Blank)
      BY <2>3, DraftedFits
    <3>2. UnionUpTo(Blank, << >>)[0] = Inserted(Blank.ins[0])
      BY <3>1, UnionDef
    <3> QED BY <3>2, BlankWide, InsertedMore DEF Unfolded
  <2>5. Alike(Unfolded(Draft(Blank, << >>), Read(<< >>, InBase)), << >>)
    BY <2>1, <2>2, <2>4, AlikeOn
  <2> QED BY <2>1, <2>2, <2>3, <2>5
<1>2. \A u \in Strings, c \in Tags : u \in S => Append(u, c) \in S
  <2> SUFFICES ASSUME NEW u \in Strings, NEW c \in Tags, u \in S PROVE Append(u, c) \in S
    OBVIOUS
  <2>1. PICK a : a = Draft(Blank, u)
    OBVIOUS
  <2>2. PICK B : B = Read(u, InBase)
    OBVIOUS
  <2>3. Drafted(a, B) /\ Alike(Unfolded(a, B), u)
    BY <2>1, <2>2
  <2> HIDE DEF S
  <2>4. PICK w \in Strings : w = Append(u, c)
    BY StringConcat
  <2>5. PICK b : b = Draft(Blank, w) /\ b = SynthesizeByte(a, c)
    BY <2>1, <2>4, DraftMore, BlankWide
  <2>6. PICK C : C = Read(w, InBase) /\ C = IF c \in InBase THEN Append(B, c.byte) ELSE B
    BY <2>2, <2>4, ReadAppend
  <2>7. Drafted(b, C)
    BY <2>3, <2>5, <2>6, DraftedByte
  <2>8. c.from \in BOOLEAN /\ c.to \in BOOLEAN
    BY TagFields
  <2>9. PICK x \in Strings : x = Unfolded(a, B)
    BY <2>3 DEF Alike
  <2>10. Alike(Append(x, c), w)
    BY <2>3, <2>4, <2>9, AlikeOn
  <2>11. Append(x, c) \in Strings
    BY StringConcat
  <2>12. Alike(Unfolded(b, C), Append(x, c))
    <3>1. CASE ~c.from
      <4>1. C = Append(B, c.byte)
        BY <2>6, <3>1 DEF InBase
      <4>2. Unfolded(b, C) = Append(x, c)
        <5>1. Grows(Unfolded(b, C), Unfolded(a, B), c)
          BY <2>3, <2>5, <3>1, <4>1, UnfoldedBase
        <5> QED BY <2>9, <5>1 DEF Grows
      <4> QED BY <2>11, <4>2, AlikeOn
    <3>2. CASE c.from /\ ~c.to
      <4>1. C = B
        BY <2>6, <3>2 DEF InBase
      <4> QED BY <2>3, <2>5, <2>9, <3>2, <4>1, UnfoldedInserts
    <3>3. CASE c.from /\ c.to
      <4>1. C = B
        BY <2>6, <3>3 DEF InBase
      <4>2. a \in Wide
        BY <2>3 DEF Drafted
      <4>3. b = a
        BY <2>5, <3>3, <4>2, WideByte
      <4> QED BY <2>9, <3>3, <4>1, <4>3, AlikeDrop
    <3> QED BY <2>8, <3>1, <3>2, <3>3
  <2>13. Alike(Unfolded(b, C), w)
    BY <2>10, <2>12, AlikeOn
  <2>14. w \in S
    BY <2>5, <2>6, <2>7, <2>13 DEF S
  <2> QED BY <2>4, <2>14
<1>3. \A u \in Strings : u \in S
  <2> HIDE DEF S
  <2> QED BY <1>1, <1>2, StringInduction
<1> QED BY <1>3

\* The inverse of such a delta is the one synthesised from the swapped string, in
\* whichever order that string has its insertions and deletions.
LEMMA InvertMade ==
  ASSUME NEW u \in Strings
  PROVE  Invert(Synthesize(u), Read(u, InBase)) = Synthesize(Swapped(u))
<1>1. PICK a : a = Draft(Blank, u)
  OBVIOUS
<1>2. PICK B : B = Read(u, InBase)
  OBVIOUS
<1>3. Drafted(a, B) /\ Alike(Unfolded(a, B), u)
  BY <1>1, <1>2, UnfoldedAlike
<1>4. PICK d : d = Cut(a) /\ d = Synthesize(u)
  BY <1>1, SynthesizeDraft
<1>5. /\ a.base \in Nat /\ a.ins \in [Nat -> Text] /\ Fits(B, a)
  BY <1>3, DraftedFits
<1>6. d.base = a.base /\ d.del = a.del /\ \A g \in 0 .. a.base : d.ins[g] = a.ins[g]
  BY <1>4 DEF Cut
<1>7. Fits(B, d) /\ Matches(B, d, B, a, a.base)
  BY <1>5, <1>6 DEF Fits, Matches
<1>8. UnionUpTo(d, B)[a.base] = UnionUpTo(a, B)[a.base]
  <2>1. a.base \in 0 .. a.base
    BY <1>5
  <2> QED BY <1>5, <1>7, <2>1, UnionSame
<1>9. Union(d, B) = Unfolded(a, B)
  BY <1>6, <1>8 DEF Union, Unfolded
<1>10. Synthesize(Swapped(Union(d, B))) = Synthesize(Swapped(u))
  BY <1>3, <1>9, AlikeDeltas
<1> QED BY <1>2, <1>4, <1>10 DEF Invert

\* Action::invert twice: inverting the inverse of a delta that Action::invert or
\* Action::chain made gives that delta again, not only one that does the same.
THEOREM InvertTwice ==
  ASSUME NEW data, NEW d, MadeFrom(d, data)
  PROVE  /\ MadeFrom(Invert(d, data), ApplyDelta(data, d))
         /\ Invert(Invert(d, data), ApplyDelta(data, d)) = d
<1>1. PICK u \in Strings : d = Synthesize(u) /\ data = Read(u, InBase)
  BY DEF MadeFrom
<1>2. PICK v \in Strings : /\ v = Swapped(u) /\ Swapped(v) = u
                           /\ Read(v, InBase) = Read(u, InOutcome)
  BY SwappedReads, SwappedTwice
<1>3. Invert(d, data) = Synthesize(v)
  BY <1>1, <1>2, InvertMade
<1>4. ApplyDelta(data, d) = Read(v, InBase)
  BY <1>1, <1>2, SynthesizeApplies
<1>5. Invert(Synthesize(v), Read(v, InBase)) = Synthesize(u)
  BY <1>2, InvertMade
<1> QED BY <1>1, <1>3, <1>4, <1>5 DEF MadeFrom

-----------------------------------------------------------------------------
(* Action::chain.                                                          *)

\* The text s begins t.
Leads(s, t) ==
  /\ Len(s) <= Len(t)
  /\ \A i \in 1 .. Len(s) : t[i] = s[i]

\* What is read up to an element begins what is read of the string.
LEMMA ReadLeads ==
  ASSUME NEW u \in Strings, NEW T, NEW k \in 0 .. Len(u)
  PROVE  Leads(ReadUpTo(u, T)[k], Read(u, T))
<1> DEFINE n == Len(u)
           R == ReadUpTo(u, T)
           S == {m \in k .. n : Leads(R[k], R[m])}
<1>1. n \in Nat /\ k \in Int /\ n \in Int /\ 0 <= k /\ k <= n
  BY StringElements
<1>2. \A m \in 1 .. n : R[m] = IF u[m] \in T THEN Append(R[m - 1], u[m].byte) ELSE R[m - 1]
  BY ReadDef
<1>3. \A m \in 0 .. n : R[m] \in Text
  BY ReadDef
<1> HIDE DEF R
<1>4. R[k] \in Text /\ Len(R[k]) \in Nat
  BY <1>1, <1>3, TextElements
<1>5. k \in S
  BY <1>1, <1>4 DEF Leads
<1>6. \A m \in k .. n - 1 : m \in S => m + 1 \in S
  <2> SUFFICES ASSUME NEW m \in k .. n - 1, m \in S PROVE m + 1 \in S
    OBVIOUS
  <2>1. /\ m + 1 \in 1 .. n /\ (m + 1) - 1 = m /\ m \in 0 .. n /\ m + 1 \in k .. n
        /\ Leads(R[k], R[m])
    BY <1>1
  <2> HIDE DEF S
  <2>2. u[m + 1].byte \in Bytes
    BY <2>1, StringElements, TagFields
  <2>3. R[m] \in Text /\ Len(R[m]) \in Nat
    BY <1>3, <2>1, TextElements
  <2>4. R[m + 1] = R[m] \/ Longer(R[m + 1], R[m], u[m + 1].byte)
    <3>1. R[m + 1] = IF u[m + 1] \in T THEN Append(R[m], u[m + 1].byte) ELSE R[m]
      BY <1>2, <2>1
    <3>2. Longer(Append(R[m], u[m + 1].byte), R[m], u[m + 1].byte)
      BY <2>2, <2>3, TextAppend
    <3> QED BY <3>1, <3>2
  <2>5. ASSUME Longer(R[m + 1], R[m], u[m + 1].byte) PROVE Leads(R[k], R[m + 1])
    <3>1. Len(R[m + 1]) = Len(R[m]) + 1 /\ \A i \in 1 .. Len(R[m]) : R[m + 1][i] = R[m][i]
      BY <2>5 DEF Longer
    <3> QED BY <1>4, <2>1, <2>3, <3>1 DEF Leads
  <2>6. Leads(R[k], R[m + 1])
    BY <2>1, <2>4, <2>5
  <2> QED BY <2>1, <2>6 DEF S
<1>7. \A m \in k .. n : m \in S
  <2> HIDE DEF S, n
  <2> QED BY <1>1, <1>5, <1>6, InductionFrom
<1>8. Leads(R[k], R[n])
  BY <1>1, <1>7
<1> QED BY <1>8 DEF Read, R

\* The next element of the outcome is the byte after those read before it.
LEMMA ReadNext ==
  ASSUME NEW u \in Strings, NEW T, NEW k \in 1 .. Len(u), u[k] \in T,
         NEW j, j = Len(ReadUpTo(u, T)[k - 1])
  PROVE  /\ j \in Nat /\ j + 1 <= Len(Read(u, T))
         /\ Read(u, T)[j + 1] = u[k].byte
         /\ Len(ReadUpTo(u, T)[k]) = j + 1
<1> DEFINE R == ReadUpTo(u, T)
<1>1. Len(u) \in Nat /\ k - 1 \in 0 .. Len(u) /\ k \in 0 .. Len(u)
  BY StringElements
<1>2. R[k - 1] \in Text /\ j \in Nat
  BY <1>1, ReadDef, TextElements
<1>3. u[k].byte \in Bytes
  BY StringElements, TagFields
<1>4. R[k] = Append(R[k - 1], u[k].byte)
  BY ReadDef
<1>5. Longer(R[k], R[k - 1], u[k].byte)
  BY <1>2, <1>3, <1>4, TextAppend
<1>6. Leads(R[k], Read(u, T))
  BY <1>1, ReadLeads
<1> HIDE DEF R
<1>7. Len(R[k]) = j + 1 /\ R[k][j + 1] = u[k].byte
  BY <1>5 DEF Longer, R
<1>8. j + 1 \in 1 .. Len(R[k])
  BY <1>2, <1>7
<1>9. Read(u, T)[j + 1] = R[k][j + 1] /\ Len(R[k]) <= Len(Read(u, T))
  BY <1>6, <1>8 DEF Leads
<1> QED BY <1>2, <1>7, <1>9 DEF R

\* The k-th element of u is read, after j others; and b follows the first j bytes of t.
Reaches(u, T, k, j) == u[k] \in T /\ j = Len(ReadUpTo(u, T)[k - 1])
HasNext(t, j, b)    == j + 1 <= Len(t) /\ t[j + 1] = b

\* An element that is read is where it should be in what is read.
LEMMA ReadReaches ==
  ASSUME NEW u \in Strings, NEW T, NEW k \in 1 .. Len(u), NEW j, Reaches(u, T, k, j)
  PROVE  HasNext(Read(u, T), j, u[k].byte)
BY ReadNext DEF Reaches, HasNext

\* The string w is the m elements of s and then the n elements of t.
Spans(w, s, m, t, n) ==
  /\ w \in Strings
  /\ Len(w) = m + n
  /\ \A k \in 1 .. m : w[k] = s[k]
  /\ \A k \in 1 .. n : w[m + k] = t[k]

\* The elements of two strings put together.
LEMMA JoinsElements ==
  ASSUME NEW s \in Strings, NEW t \in Strings, NEW w, Joins(w, s, t),
         NEW m \in Nat, NEW n \in Nat, m = Len(s), n = Len(t)
  PROVE  Spans(w, s, m, t, n)
BY StringConcat, StringElements DEF Joins, Spans

\* Union strings alike: the same flags, and the same bytes where T says so.
Like(u, v, T) ==
  /\ u \in Strings /\ v \in Strings /\ Len(u) = Len(v)
  /\ \A k \in 1 .. Len(u) : /\ u[k].from <=> v[k].from
                            /\ u[k].to <=> v[k].to
                            /\ u[k] \in T => u[k].byte = v[k].byte

\* Alike strings, put together, are alike.
LEMMA LikeConcat ==
  ASSUME NEW u, NEW v, NEW x, NEW y, NEW w, NEW z, NEW T,
         Like(u, v, T), Like(x, y, T), Joins(w, u, x), Joins(z, v, y)
  PROVE  Like(w, z, T)
<1>1. u \in Strings /\ v \in Strings /\ x \in Strings /\ y \in Strings
  BY DEF Like
<1>2. PICK m \in Nat : m = Len(u) /\ m = Len(v)
  BY <1>1, StringElements DEF Like
<1>3. PICK n \in Nat : n = Len(x) /\ n = Len(y)
  BY <1>1, StringElements DEF Like
<1>4. /\ w \in Strings /\ Len(w) = m + n
      /\ \A k \in 1 .. m : w[k] = u[k]
      /\ \A k \in 1 .. n : w[m + k] = x[k]
  <2>1. Spans(w, u, m, x, n)
    BY <1>1, <1>2, <1>3, JoinsElements
  <2> QED BY <2>1 DEF Spans
<1>5. /\ z \in Strings /\ Len(z) = m + n
      /\ \A k \in 1 .. m : z[k] = v[k]
      /\ \A k \in 1 .. n : z[m + k] = y[k]
  <2>1. Spans(z, v, m, y, n)
    BY <1>1, <1>2, <1>3, JoinsElements
  <2> QED BY <2>1 DEF Spans
<1>7. ASSUME NEW k \in 1 .. m + n
      PROVE  /\ w[k].from <=> z[k].from
             /\ w[k].to <=> z[k].to
             /\ w[k] \in T => w[k].byte = z[k].byte
  <2>1. CASE k <= m
    <3>1. k \in 1 .. m /\ w[k] = u[k] /\ z[k] = v[k]
      BY <1>4, <1>5, <2>1
    <3> QED BY <1>2, <3>1 DEF Like
  <2>2. CASE k > m
    <3>1. PICK i \in 1 .. n : k = m + i
      <4>1. k - m \in 1 .. n /\ k = m + (k - m)
        BY <2>2
      <4> QED BY <4>1
    <3>2. w[k] = x[i] /\ z[k] = y[i]
      BY <1>4, <1>5, <3>1
    <3> QED BY <1>3, <3>1, <3>2 DEF Like
  <2> QED BY <2>1, <2>2
<1> QED BY <1>4, <1>5, <1>7 DEF Like

\* A string is like itself.
LEMMA LikeSelf ==
  ASSUME NEW u \in Strings, NEW T
  PROVE  Like(u, u, T)
BY DEF Like

\* Strings of one element.
LEMMA LikeOne ==
  ASSUME NEW c \in Tags, NEW e \in Tags, NEW T,
         c.from <=> e.from, c.to <=> e.to, c \in T => c.byte = e.byte
  PROVE  Like(<< c >>, << e >>, T)
<1>1. PICK u \in Strings : u = << c >>
  BY StringConcat
<1>2. PICK v \in Strings : v = << e >>
  BY StringConcat
<1>3. Len(u) = 1 /\ Len(v) = 1 /\ u[1] = c /\ v[1] = e
  BY <1>1, <1>2
<1>4. \A k \in 1 .. Len(u) : k = 1
  BY <1>3
<1>5. Like(u, v, T)
  BY <1>3, <1>4 DEF Like
<1> QED BY <1>1, <1>2, <1>5

\* Delta::synthesize looks at the bytes of the outcome alone.
LEMMA SynthesizeLike ==
  ASSUME NEW u, NEW v, Like(u, v, InOutcome)
  PROVE  Synthesize(u) = Synthesize(v)
<1> DEFINE P == SynthesizeUpTo(u)
           Q == SynthesizeUpTo(v)
           S == {k \in 0 .. Len(u) : P[k] = Q[k]}
<1>1. u \in Strings /\ v \in Strings
  BY DEF Like
<1>2. PICK n \in Nat : n = Len(u) /\ n = Len(v)
  BY <1>1, StringElements DEF Like
<1>3. P[0] = SynthesizeStart(n) /\ \A k \in 1 .. n : P[k] = SynthesizeByte(P[k - 1], u[k])
  BY <1>1, <1>2, SynthesizeDef
<1>4. Q[0] = SynthesizeStart(n) /\ \A k \in 1 .. n : Q[k] = SynthesizeByte(Q[k - 1], v[k])
  BY <1>1, <1>2, SynthesizeDef
<1> HIDE DEF P, Q
<1>5. 0 \in S
  BY <1>2, <1>3, <1>4
<1>6. \A k \in 0 .. n - 1 : k \in S => k + 1 \in S
  <2> SUFFICES ASSUME NEW k \in 0 .. n - 1, k \in S PROVE k + 1 \in S
    OBVIOUS
  <2>1. k + 1 \in 1 .. n /\ k + 1 \in 0 .. n /\ (k + 1) - 1 = k /\ P[k] = Q[k]
    BY <1>2
  <2> HIDE DEF S
  <2>2. u[k + 1] \in Tags /\ v[k + 1] \in Tags
    BY <1>1, <1>2, <2>1, StringElements
  <2>3. /\ u[k + 1].from <=> v[k + 1].from
        /\ u[k + 1].to <=> v[k + 1].to
        /\ ~u[k + 1].to => u[k + 1].byte = v[k + 1].byte
    BY <1>2, <2>1, <2>2 DEF Like, InOutcome
  <2>4. SynthesizeByte(P[k], u[k + 1]) = SynthesizeByte(P[k], v[k + 1])
    BY <2>3 DEF SynthesizeByte
  <2>5. P[k + 1] = Q[k + 1]
    BY <1>3, <1>4, <2>1, <2>4
  <2> QED BY <1>2, <2>1, <2>5 DEF S
<1>7. \A k \in 0 .. n : k \in S
  <2> HIDE DEF S
  <2> QED BY <1>5, <1>6, Induction
<1>8. P[n] = Q[n]
  BY <1>7
<1> QED BY <1>2, <1>8 DEF Synthesize, P, Q

\* The flags of a union string do not depend on the bytes of the base.
LEMMA UnionLike ==
  ASSUME NEW d, NEW data, NEW other, Fits(data, d), Fits(other, d)
  PROVE  Like(Union(d, data), Union(d, other), {})
<1> DEFINE P == UnionUpTo(d, data)
           Q == UnionUpTo(d, other)
           n == d.base
           S == {g \in 0 .. n : Like(P[g], Q[g], {})}
<1>1. n \in Nat /\ d.ins[0] \in Text
  BY DEF Fits
<1>2. /\ P[0] = Inserted(d.ins[0])
      /\ \A g \in 1 .. n : P[g] = P[g - 1] \o << Tag(data[g], FALSE, g - 1 \in d.del) >>
                                           \o Inserted(d.ins[g])
  BY UnionDef
<1>3. /\ Q[0] = Inserted(d.ins[0])
      /\ \A g \in 1 .. n : Q[g] = Q[g - 1] \o << Tag(other[g], FALSE, g - 1 \in d.del) >>
                                           \o Inserted(d.ins[g])
  BY UnionDef
<1> HIDE DEF P, Q
<1>4. 0 \in S
  BY <1>1, <1>2, <1>3, InsertedReads, LikeSelf
<1>5. \A g \in 0 .. n - 1 : g \in S => g + 1 \in S
  <2> SUFFICES ASSUME NEW g \in 0 .. n - 1, g \in S PROVE g + 1 \in S
    OBVIOUS
  <2>1. g + 1 \in 1 .. n /\ g + 1 \in 0 .. n /\ (g + 1) - 1 = g /\ Like(P[g], Q[g], {})
    BY <1>1
  <2> HIDE DEF S, n
  <2>2. data[g + 1] \in Bytes /\ other[g + 1] \in Bytes /\ d.ins[g + 1] \in Text
    BY <2>1 DEF Fits, n
  <2> DEFINE y == g \in d.del
  <2>3. y \in BOOLEAN
    OBVIOUS
  <2>4. P[g + 1] = P[g] \o << Tag(data[g + 1], FALSE, y) >> \o Inserted(d.ins[g + 1])
    BY <1>2, <2>1
  <2>5. Q[g + 1] = Q[g] \o << Tag(other[g + 1], FALSE, y) >> \o Inserted(d.ins[g + 1])
    BY <1>3, <2>1
  <2> HIDE DEF y
  <2>6. PICK c : c = Tag(data[g + 1], FALSE, y) /\ TagIs(c, data[g + 1], FALSE, y)
    BY <2>2, <2>3, TagOf
  <2>7. PICK e : e = Tag(other[g + 1], FALSE, y) /\ TagIs(e, other[g + 1], FALSE, y)
    BY <2>2, <2>3, TagOf
  <2>8. PICK i \in Strings : i = Inserted(d.ins[g + 1])
    BY <2>2, InsertedReads
  <2>9. Like(<< c >>, << e >>, {})
    <3>1. c \in Tags /\ e \in Tags /\ (c.from <=> e.from) /\ (c.to <=> e.to)
      BY <2>6, <2>7 DEF TagIs
    <3> QED BY <3>1, LikeOne
  <2>10. PICK x : Joins(x, P[g], << c >>)
    BY DEF Joins
  <2>11. PICK z : Joins(z, Q[g], << e >>)
    BY DEF Joins
  <2>12. Like(x, z, {})
    BY <2>1, <2>9, <2>10, <2>11, LikeConcat
  <2>13. Like(i, i, {})
    BY LikeSelf
  <2>14. Joins(P[g + 1], x, i)
    BY <2>4, <2>6, <2>8, <2>10 DEF Joins
  <2>15. Joins(Q[g + 1], z, i)
    BY <2>5, <2>7, <2>8, <2>11 DEF Joins
  <2>16. Like(P[g + 1], Q[g + 1], {})
    BY <2>12, <2>13, <2>14, <2>15, LikeConcat
  <2> QED BY <2>1, <2>16 DEF S
<1>6. \A g \in 0 .. n : g \in S
  <2> HIDE DEF S, n
  <2> QED BY <1>1, <1>4, <1>5, Induction
<1>7. Like(P[n], Q[n], {})
  BY <1>1, <1>6
<1> QED BY <1>7 DEF Union, P, Q

\* Strings with the same flags have as much of each element in the outcome.
LEMMA LikeReads ==
  ASSUME NEW u, NEW v, Like(u, v, {})
  PROVE  \A k \in 0 .. Len(u) :
           Len(ReadUpTo(u, InOutcome)[k]) = Len(ReadUpTo(v, InOutcome)[k])
<1> DEFINE P == ReadUpTo(u, InOutcome)
           Q == ReadUpTo(v, InOutcome)
<1>1. u \in Strings /\ v \in Strings
  BY DEF Like
<1>2. PICK n \in Nat : n = Len(u) /\ n = Len(v)
  BY <1>1, StringElements DEF Like
<1>3. /\ P[0] = << >>
      /\ \A k \in 1 .. n :
           P[k] = IF u[k] \in InOutcome THEN Append(P[k - 1], u[k].byte) ELSE P[k - 1]
      /\ \A k \in 0 .. n : P[k] \in Text
  <2>1. P[0] = << >> /\ \A k \in 0 .. Len(u) : P[k] \in Text
    BY <1>1, ReadDef
  <2>2. \A k \in 1 .. Len(u) :
          P[k] = IF u[k] \in InOutcome THEN Append(P[k - 1], u[k].byte) ELSE P[k - 1]
    BY <1>1, ReadDef
  <2> HIDE DEF P
  <2> QED BY <1>2, <2>1, <2>2
<1>4. /\ Q[0] = << >>
      /\ \A k \in 1 .. n :
           Q[k] = IF v[k] \in InOutcome THEN Append(Q[k - 1], v[k].byte) ELSE Q[k - 1]
      /\ \A k \in 0 .. n : Q[k] \in Text
  <2>1. Q[0] = << >> /\ \A k \in 0 .. Len(v) : Q[k] \in Text
    BY <1>1, ReadDef
  <2>2. \A k \in 1 .. Len(v) :
          Q[k] = IF v[k] \in InOutcome THEN Append(Q[k - 1], v[k].byte) ELSE Q[k - 1]
    BY <1>1, ReadDef
  <2> HIDE DEF Q
  <2> QED BY <1>2, <2>1, <2>2
<1> HIDE DEF P, Q
<1> DEFINE S == {k \in 0 .. n : Len(P[k]) = Len(Q[k])}
<1>5. 0 \in S
  BY <1>3, <1>4
<1>6. \A k \in 0 .. n - 1 : k \in S => k + 1 \in S
  <2> SUFFICES ASSUME NEW k \in 0 .. n - 1, k \in S PROVE k + 1 \in S
    OBVIOUS
  <2>1. /\ k + 1 \in 1 .. n /\ k + 1 \in 0 .. n /\ k \in 0 .. n /\ (k + 1) - 1 = k
        /\ Len(P[k]) = Len(Q[k])
    OBVIOUS
  <2> HIDE DEF S
  <2>2. u[k + 1] \in Tags /\ v[k + 1] \in Tags
    BY <1>1, <1>2, <2>1, StringElements
  <2>3. u[k + 1] \in InOutcome <=> v[k + 1] \in InOutcome
    BY <1>2, <2>1, <2>2 DEF Like, InOutcome
  <2>4. P[k] \in Text /\ Q[k] \in Text /\ u[k + 1].byte \in Bytes /\ v[k + 1].byte \in Bytes
    BY <1>3, <1>4, <2>1, <2>2, TagFields
  <2>5. CASE u[k + 1] \in InOutcome
    <3>1. P[k + 1] = Append(P[k], u[k + 1].byte) /\ Q[k + 1] = Append(Q[k], v[k + 1].byte)
      BY <1>3, <1>4, <2>1, <2>3, <2>5
    <3>2. Longer(P[k + 1], P[k], u[k + 1].byte) /\ Longer(Q[k + 1], Q[k], v[k + 1].byte)
      BY <2>4, <3>1, TextAppend
    <3>3. Len(P[k + 1]) = Len(Q[k + 1])
      BY <2>1, <3>2 DEF Longer
    <3> QED BY <2>1, <3>3 DEF S
  <2>6. CASE u[k + 1] \notin InOutcome
    <3>1. P[k + 1] = P[k] /\ Q[k + 1] = Q[k]
      BY <1>3, <1>4, <2>1, <2>3, <2>6
    <3> QED BY <2>1, <3>1 DEF S
  <2> QED BY <2>5, <2>6
<1>7. \A k \in 0 .. n : k \in S
  <2> HIDE DEF S
  <2> QED BY <1>5, <1>6, Induction
<1>8. \A k \in 0 .. n : Len(P[k]) = Len(Q[k])
  BY <1>7
<1> QED BY <1>2, <1>8 DEF P, Q

\* The states of the loop of Action::chain, and what an element does to one.
Links == [out : Strings, j : Nat]

ChainGone(a, b, c) ==
  b.j = a.j /\ Joins(b.out, a.out, << Tag(c.byte, c.from, TRUE) >>)

ChainOn(a, b, c, mid, next) ==
  /\ b.j = a.j + 1
  /\ JoinsThree(b.out, a.out, Inserted(next.ins[a.j]),
                << Tag(mid[a.j + 1], c.from, a.j \in next.del) >>)

\* An element that first deletes, or one that next sees.
LEMMA ChainByteFields ==
  ASSUME NEW mid, NEW next, NEW a \in Links, NEW c \in Tags, NEW b, b = ChainByte(a, c, mid, next),
         ~c.to => next.ins[a.j] \in Text /\ mid[a.j + 1] \in Bytes
  PROVE  /\ b \in Links
         /\ c.to => ChainGone(a, b, c)
         /\ ~c.to => ChainOn(a, b, c, mid, next)
<1>1. a.out \in Strings /\ a.j \in Nat /\ c.byte \in Bytes /\ c.from \in BOOLEAN
  BY TagFields DEF Links
<1>2. CASE c.to
  <2>1. PICK e \in Tags : e = Tag(c.byte, c.from, TRUE)
    BY <1>1, TagOf DEF TagIs
  <2>2. b = [a EXCEPT !.out = Append(a.out, e)]
    BY <1>2, <2>1 DEF ChainByte
  <2>3. Append(a.out, e) \in Strings /\ Append(a.out, e) = a.out \o << e >>
    BY <1>1, StringConcat
  <2>4. PICK o \in Strings : o = Append(a.out, e)
    BY <2>3
  <2>5. b = [a EXCEPT !.out = o]
    BY <2>2, <2>4
  <2>6. b \in Links /\ b.out = o /\ b.j = a.j
    BY <1>1, <2>5 DEF Links
  <2>7. Joins(b.out, a.out, << e >>)
    BY <2>3, <2>4, <2>6 DEF Joins
  <2> QED BY <1>2, <2>1, <2>6, <2>7 DEF ChainGone
<1>3. CASE ~c.to
  <2> DEFINE y == a.j \in next.del
  <2>1. y \in BOOLEAN
    OBVIOUS
  <2>2. b = [out |-> Append(a.out \o Inserted(next.ins[a.j]), Tag(mid[a.j + 1], c.from, y)),
             j |-> a.j + 1]
    BY <1>3 DEF ChainByte
  <2> HIDE DEF y
  <2>3. PICK e \in Tags : e = Tag(mid[a.j + 1], c.from, y)
    BY <1>1, <1>3, <2>1, TagOf DEF TagIs
  <2>4. PICK i \in Strings : i = Inserted(next.ins[a.j])
    BY <1>3, InsertedReads
  <2>5. PICK o \in Strings : o = a.out \o i
    BY <1>1, StringConcat
  <2>6. Append(o, e) \in Strings /\ Append(o, e) = o \o << e >>
    BY StringConcat
  <2>7. PICK q \in Strings : q = Append(o, e)
    BY <2>6
  <2>8. b = [out |-> q, j |-> a.j + 1]
    BY <2>2, <2>3, <2>4, <2>5, <2>7
  <2>9. b \in Links /\ b.out = q /\ b.j = a.j + 1
    BY <1>1, <2>8 DEF Links
  <2>10. JoinsThree(b.out, a.out, i, << e >>)
    BY <2>5, <2>6, <2>7, <2>9 DEF JoinsThree
  <2> QED BY <1>3, <2>3, <2>4, <2>9, <2>10 DEF ChainOn, y
<1> QED BY <1>2, <1>3

\* ChainUpTo is the loop it is written as; j counts the bytes of mid gone by.
LEMMA ChainDef ==
  ASSUME NEW u \in Strings, NEW mid \in Text, NEW next \in Deltas(Len(mid)),
         Len(Read(u, InOutcome)) = Len(mid)
  PROVE  /\ ChainUpTo(u, mid, next)[0] = [out |-> << >>, j |-> 0]
         /\ \A k \in 1 .. Len(u) :
              ChainUpTo(u, mid, next)[k] = ChainByte(ChainUpTo(u, mid, next)[k - 1], u[k], mid, next)
         /\ \A k \in 0 .. Len(u) :
              /\ ChainUpTo(u, mid, next)[k] \in Links
              /\ ChainUpTo(u, mid, next)[k].j = Len(ReadUpTo(u, InOutcome)[k])
<1> DEFINE n == Len(u)
           R == ReadUpTo(u, InOutcome)
           a == [out |-> << >>, j |-> 0]
           A == [k \in 0 .. n |-> {s \in Links : s.j = Len(R[k])}]
           Step(s, k) == ChainByte(s, u[k], mid, next)
           C == ChainUpTo(u, mid, next)
<1>1. n \in Nat
  BY StringElements
<1>2. a \in A[0]
  <2>1. R[0] = << >> /\ << >> \in Strings /\ Len(<< >>) = 0
    BY ReadDef, StringConcat
  <2>2. a \in Links /\ a.j = 0
    BY <2>1 DEF Links
  <2> HIDE DEF a
  <2> QED BY <1>1, <2>1, <2>2
<1>3. ASSUME NEW k \in 1 .. n, NEW s \in Links, s.j = Len(R[k - 1])
      PROVE  Step(s, k) \in Links /\ Step(s, k).j = Len(R[k])
  <2>1. u[k] \in Tags /\ s.j \in Nat
    BY StringElements DEF Links
  <2>2. ASSUME ~u[k].to
        PROVE  s.j + 1 <= Len(mid) /\ Len(R[k]) = s.j + 1
    <3>1. u[k] \in InOutcome
      BY <2>1, <2>2 DEF InOutcome
    <3> QED BY <1>3, <3>1, ReadNext
  <2>3. ASSUME ~u[k].to
        PROVE  next.ins[s.j] \in Text /\ mid[s.j + 1] \in Bytes
    <3>1. s.j \in 0 .. Len(mid) /\ s.j + 1 \in 1 .. Len(mid)
      BY <2>1, <2>2, <2>3, TextElements
    <3> QED BY <3>1, DeltaFits, TextElements
  <2>4. ASSUME u[k].to PROVE Len(R[k]) = s.j
    <3>1. u[k] \notin InOutcome
      BY <2>4 DEF InOutcome
    <3> QED BY <1>3, <3>1, ReadDef
  <2>5. PICK b : b = Step(s, k)
    OBVIOUS
  <2>6. /\ b \in Links
        /\ u[k].to => ChainGone(s, b, u[k])
        /\ ~u[k].to => ChainOn(s, b, u[k], mid, next)
    BY <2>1, <2>3, <2>5, ChainByteFields
  <2>7. b.j = Len(R[k])
    BY <2>2, <2>4, <2>6 DEF ChainGone, ChainOn
  <2> QED BY <2>5, <2>6, <2>7
<1>4. C = CHOOSE h : h = [k \in 0 .. n |-> IF k = 0 THEN a ELSE Step(h[k - 1], k)]
  BY DEF ChainUpTo
<1>5. /\ C[0] = a
      /\ \A k \in 1 .. n : C[k] = Step(C[k - 1], k)
      /\ \A k \in 0 .. n : C[k] \in Links /\ C[k].j = Len(R[k])
  <2> DEFINE step == [p \in Links \X (1 .. n) |-> Step(p[1], p[2])]
  <2>1. \A k \in 0 .. n : A[k] = {s \in Links : s.j = Len(R[k])}
    OBVIOUS
  <2> HIDE DEF Step, a, n, C, R, A
  <2>2. \A k \in 1 .. n : \A s \in A[k - 1] : step[<< s, k >>] \in A[k]
    <3> SUFFICES ASSUME NEW k \in 1 .. n, NEW s \in A[k - 1] PROVE step[<< s, k >>] \in A[k]
      OBVIOUS
    <3>1. k \in 0 .. n /\ k - 1 \in 0 .. n
      BY <1>1
    <3>2. s \in Links /\ s.j = Len(R[k - 1])
      BY <2>1, <3>1
    <3>3. step[<< s, k >>] = Step(s, k)
      BY <3>2
    <3>4. Step(s, k) \in A[k]
      BY <1>3, <2>1, <3>1, <3>2
    <3> QED BY <3>3, <3>4
  <2>3. PICK f : /\ DOMAIN f = 0 .. n /\ f = [k \in 0 .. n |-> f[k]]
                 /\ Runs(f, n, a, step)
                 /\ \A k \in 0 .. n : f[k] \in A[k]
    <3> HIDE DEF step
    <3> QED BY <1>1, <1>2, <2>2, LoopWithin
  <2>4. ASSUME NEW k \in 1 .. n PROVE f[k] = Step(f[k - 1], k)
    <3>1. k - 1 \in 0 .. n
      BY <1>1
    <3>2. f[k - 1] \in Links
      BY <2>1, <2>3, <3>1
    <3> QED BY <2>3, <3>2 DEF Runs
  <2>5. f = [k \in 0 .. n |-> IF k = 0 THEN a ELSE Step(f[k - 1], k)]
    <3>1. \A k \in 0 .. n : f[k] = IF k = 0 THEN a ELSE Step(f[k - 1], k)
      BY <1>1, <2>3, <2>4 DEF Runs
    <3>2. [k \in 0 .. n |-> f[k]] = [k \in 0 .. n |-> IF k = 0 THEN a ELSE Step(f[k - 1], k)]
      BY <3>1
    <3> QED BY <2>3, <3>2
  <2>6. C = [k \in 0 .. n |-> IF k = 0 THEN a ELSE Step(C[k - 1], k)]
    BY <1>4, <2>5
  <2>7. C[0] = a /\ \A k \in 1 .. n : C[k] = Step(C[k - 1], k)
    BY <1>1, <2>6
  <2> DEFINE S == {k \in 0 .. n : C[k] \in Links /\ C[k].j = Len(R[k])}
  <2>8. 0 \in S
    BY <1>1, <1>2, <2>1, <2>7
  <2>9. \A k \in 0 .. n - 1 : k \in S => k + 1 \in S
    <3> SUFFICES ASSUME NEW k \in 0 .. n - 1, k \in S PROVE k + 1 \in S
      OBVIOUS
    <3>1. /\ k + 1 \in 1 .. n /\ k + 1 \in 0 .. n /\ (k + 1) - 1 = k
          /\ C[k] \in Links /\ C[k].j = Len(R[k])
      BY <1>1
    <3> HIDE DEF S
    <3>2. C[k + 1] = Step(C[k], k + 1)
      BY <2>7, <3>1
    <3>3. C[k + 1] \in Links /\ C[k + 1].j = Len(R[k + 1])
      BY <1>3, <3>1, <3>2
    <3> QED BY <3>1, <3>3 DEF S
  <2>10. \A k \in 0 .. n : k \in S
    <3> HIDE DEF S
    <3> QED BY <1>1, <2>8, <2>9, Induction
  <2>11. \A k \in 0 .. n : C[k] \in Links /\ C[k].j = Len(R[k])
    BY <2>10
  <2> QED BY <2>7, <2>11
<1> QED BY <1>5

\* One more element of a string, read.
LEMMA ReadMore ==
  ASSUME NEW u \in Strings, NEW c \in Tags, NEW w, Joins(w, u, << c >>), NEW T
  PROVE  /\ w \in Strings
         /\ c \in T => Read(w, T) = Append(Read(u, T), c.byte)
         /\ c \notin T => Read(w, T) = Read(u, T)
<1>1. w = u \o << c >> /\ w \in Strings
  BY StringConcat DEF Joins
<1>2. Read(u \o << c >>, T) = IF c \in T THEN Append(Read(u, T), c.byte) ELSE Read(u, T)
  BY ReadAppend
<1> QED BY <1>1, <1>2

\* The string that Action::chain builds is the base of first in the base, and next's
\* outcome in the outcome, as far as it goes.
LEMMA ChainReads ==
  ASSUME NEW u \in Strings, NEW mid \in Text, NEW next \in Deltas(Len(mid)),
         Read(u, InOutcome) = mid
  PROVE  \A k \in 0 .. Len(u) :
           LET a == ChainUpTo(u, mid, next)[k]
           IN /\ Read(a.out, InBase) = ReadUpTo(u, InBase)[k]
              /\ Joins(Outcome(mid, next)[a.j], Read(a.out, InOutcome), next.ins[a.j])
<1> DEFINE C == ChainUpTo(u, mid, next)
           B == ReadUpTo(u, InBase)
           R == ReadUpTo(u, InOutcome)
           O == Outcome(mid, next)
           n == Len(u)
           S == {k \in 0 .. n : /\ Read(C[k].out, InBase) = B[k]
                                /\ Joins(O[C[k].j], Read(C[k].out, InOutcome), next.ins[C[k].j])}
<1>1. n \in Nat
  BY StringElements
<1>2. Fits(mid, next) /\ next.base = Len(mid) /\ next.base \in Nat
  BY DeltaFits DEF Fits
<1>3. /\ C[0] = [out |-> << >>, j |-> 0]
      /\ \A k \in 1 .. n : C[k] = ChainByte(C[k - 1], u[k], mid, next)
      /\ \A k \in 0 .. n : C[k] \in Links /\ C[k].j = Len(R[k])
  BY ChainDef
<1>4. B[0] = << >>
  BY ReadDef
<1>5. \A k \in 1 .. n : B[k] = IF u[k] \in InBase THEN Append(B[k - 1], u[k].byte) ELSE B[k - 1]
  BY ReadDef
<1>6. O[0] = next.ins[0] /\ next.ins[0] \in Text
  <2>1. O[0] = next.ins[0]
    BY <1>2, OutcomeDef
  <2>2. 0 \in 0 .. next.base
    BY <1>2
  <2>3. next.ins[0] \in Text
    BY <1>2, <2>2 DEF Fits
  <2> QED BY <2>1, <2>3
<1>7. \A g \in 1 .. Len(mid) : O[g] = O[g - 1] \o Piece(mid, next, g) \o next.ins[g]
  BY <1>2, OutcomeDef
<1>8. \A g \in 0 .. Len(mid) : O[g] \in Text
  BY <1>2, OutcomeDef
<1> HIDE DEF C, B, O
<1>9. 0 \in S
  <2>1. C[0].out = << >> /\ C[0].j = 0
    BY <1>3
  <2>2. Read(<< >>, InBase) = << >> /\ Read(<< >>, InOutcome) = << >>
    BY ReadEmpty
  <2>3. Joins(O[0], << >>, next.ins[0])
    BY <1>6, TextConcat DEF Joins
  <2> QED BY <1>1, <1>4, <2>1, <2>2, <2>3
<1>10. \A k \in 0 .. n - 1 : k \in S => k + 1 \in S
  <2> SUFFICES ASSUME NEW k \in 0 .. n - 1, k \in S PROVE k + 1 \in S
    OBVIOUS
  <2>1. /\ k + 1 \in 1 .. n /\ k + 1 \in 0 .. n /\ k \in 0 .. n /\ (k + 1) - 1 = k
        /\ Read(C[k].out, InBase) = B[k]
        /\ Joins(O[C[k].j], Read(C[k].out, InOutcome), next.ins[C[k].j])
    BY <1>1
  <2> HIDE DEF S
  <2>2. PICK a \in Links : a = C[k] /\ a.j = Len(R[k])
    BY <1>3, <2>1
  <2>3. PICK b \in Links : b = C[k + 1] /\ b.j = Len(R[k + 1])
    BY <1>3, <2>1
  <2>4. PICK c \in Tags : c = u[k + 1]
    BY <2>1, StringElements
  <2>5. b = ChainByte(a, c, mid, next)
    BY <1>3, <2>1, <2>2, <2>3, <2>4
  <2>6. a.out \in Strings /\ b.out \in Strings /\ a.j \in Nat /\ b.j \in Nat
    BY DEF Links
  <2>7. /\ c \in InBase <=> ~c.from
        /\ c \in InOutcome <=> ~c.to
        /\ c.byte \in Bytes /\ c.from \in BOOLEAN /\ c.to \in BOOLEAN
    BY TagFields DEF InBase, InOutcome
  <2>8. B[k + 1] = IF c \in InBase THEN Append(B[k], c.byte) ELSE B[k]
    BY <1>5, <2>1, <2>4
  <2>9. ASSUME ~c.to
        PROVE  /\ a.j + 1 <= Len(mid) /\ mid[a.j + 1] = c.byte
               /\ next.ins[a.j] \in Text /\ mid[a.j + 1] \in Bytes
    <3>1. u[k + 1] \in InOutcome /\ a.j = Len(R[(k + 1) - 1])
      BY <2>1, <2>2, <2>4, <2>7, <2>9
    <3>2. a.j + 1 <= Len(mid) /\ mid[a.j + 1] = u[k + 1].byte
      <4>1. PICK i \in 1 .. Len(u) : i = k + 1
        BY <2>1
      <4>2. u[i] \in InOutcome /\ a.j = Len(ReadUpTo(u, InOutcome)[i - 1])
        BY <3>1, <4>1
      <4>3. a.j + 1 <= Len(Read(u, InOutcome)) /\ Read(u, InOutcome)[a.j + 1] = u[i].byte
        <5>1. Reaches(u, InOutcome, i, a.j)
          BY <4>2 DEF Reaches
        <5>2. HasNext(Read(u, InOutcome), a.j, u[i].byte)
          BY <5>1, ReadReaches
        <5> QED BY <5>2 DEF HasNext
      <4> QED BY <4>1, <4>3
    <3>3. a.j \in 0 .. next.base
      BY <1>2, <2>6, <3>2
    <3> QED BY <1>2, <2>4, <2>7, <3>2, <3>3 DEF Fits
  <2>10. /\ c.to => ChainGone(a, b, c)
         /\ ~c.to => ChainOn(a, b, c, mid, next)
    BY <2>5, <2>9, ChainByteFields
  <2>11. CASE c.to
    <3>1. PICK e : e = Tag(c.byte, c.from, TRUE) /\ TagIs(e, c.byte, c.from, TRUE)
      BY <2>7, TagOf
    <3>2. b.j = a.j /\ Joins(b.out, a.out, << e >>)
      BY <2>10, <2>11, <3>1 DEF ChainGone
    <3>3. e \in Tags /\ e.byte = c.byte /\ (e \in InBase <=> c \in InBase) /\ e \notin InOutcome
      BY <2>7, <3>1 DEF TagIs, InBase, InOutcome
    <3>4. Read(b.out, InOutcome) = Read(a.out, InOutcome)
      BY <2>6, <3>2, <3>3, ReadMore
    <3>5. Read(b.out, InBase) = B[k + 1]
      <4>1. Read(a.out, InBase) = B[k]
        BY <2>1, <2>2
      <4>2. CASE c \in InBase
        <5>1. Read(b.out, InBase) = Append(Read(a.out, InBase), e.byte)
          BY <2>6, <3>2, <3>3, <4>2, ReadMore
        <5> QED BY <2>8, <3>3, <4>1, <4>2, <5>1
      <4>3. CASE c \notin InBase
        <5>1. Read(b.out, InBase) = Read(a.out, InBase)
          BY <2>6, <3>2, <3>3, <4>3, ReadMore
        <5> QED BY <2>8, <4>1, <4>3, <5>1
      <4> QED BY <4>2, <4>3
    <3>6. Joins(O[b.j], Read(b.out, InOutcome), next.ins[b.j])
      BY <2>1, <2>2, <3>2, <3>4
    <3> QED BY <2>1, <2>3, <3>5, <3>6 DEF S
  <2>12. CASE ~c.to
    <3> DEFINE y == a.j \in next.del
    <3>1. y \in BOOLEAN
      OBVIOUS
    <3>2. b.j = a.j + 1 /\ JoinsThree(b.out, a.out, Inserted(next.ins[a.j]),
                                      << Tag(mid[a.j + 1], c.from, y) >>)
      BY <2>10, <2>12 DEF ChainOn
    <3>3. Piece(mid, next, a.j + 1) = IF y THEN << >> ELSE << c.byte >>
      <4>1. (a.j + 1) - 1 = a.j
        BY <2>6
      <4> QED BY <2>9, <2>12, <4>1 DEF Piece
    <3> HIDE DEF y
    <3>4. PICK e : e = Tag(mid[a.j + 1], c.from, y) /\ TagIs(e, c.byte, c.from, y)
      BY <2>7, <2>9, <2>12, <3>1, TagOf
    <3>5. /\ e \in Tags /\ e.byte = c.byte /\ (e \in InBase <=> c \in InBase)
          /\ e \in InOutcome <=> ~y
      BY <2>7, <3>4 DEF TagIs, InBase, InOutcome
    <3>6. PICK i \in Strings : /\ i = Inserted(next.ins[a.j])
                               /\ Read(i, InBase) = << >> /\ Read(i, InOutcome) = next.ins[a.j]
      BY <2>9, <2>12, InsertedReads
    <3>7. PICK x \in Strings : Joins(x, a.out, i)
      BY <2>6, StringConcat DEF Joins
    <3>8. Joins(b.out, x, << e >>)
      BY <3>2, <3>4, <3>6, <3>7 DEF Joins, JoinsThree
    <3>9. Read(x, InBase) = B[k]
      <4>1. Joins(Read(x, InBase), Read(a.out, InBase), Read(i, InBase))
        BY <2>6, <3>7, ReadConcat
      <4>2. Read(a.out, InBase) = B[k] /\ Read(a.out, InBase) \in Text
        BY <2>1, <2>2, <2>6, ReadType
      <4>3. Read(x, InBase) = Read(a.out, InBase) \o << >>
        BY <3>6, <4>1 DEF Joins
      <4> QED BY <4>2, <4>3, TextConcat
    <3>10. Read(x, InOutcome) = O[a.j]
      <4>1. Joins(Read(x, InOutcome), Read(a.out, InOutcome), Read(i, InOutcome))
        BY <2>6, <3>7, ReadConcat
      <4> QED BY <2>1, <2>2, <3>6, <4>1 DEF Joins
    <3>11. Read(b.out, InBase) = B[k + 1]
      <4>1. CASE c \in InBase
        <5>1. Read(b.out, InBase) = Append(Read(x, InBase), e.byte)
          BY <3>5, <3>8, <4>1, ReadMore
        <5> QED BY <2>8, <3>5, <3>9, <4>1, <5>1
      <4>2. CASE c \notin InBase
        <5>1. Read(b.out, InBase) = Read(x, InBase)
          BY <3>5, <3>8, <4>2, ReadMore
        <5> QED BY <2>8, <3>9, <4>2, <5>1
      <4> QED BY <4>1, <4>2
    <3>12. a.j \in 0 .. Len(mid) /\ a.j + 1 \in 1 .. Len(mid) /\ (a.j + 1) - 1 = a.j
      BY <1>2, <2>6, <2>9, <2>12
    <3>13. Read(b.out, InOutcome) = O[a.j] \o Piece(mid, next, a.j + 1)
      <4>1. O[a.j] \in Text
        BY <1>8, <3>12
      <4>2. CASE y
        <5>1. Read(b.out, InOutcome) = Read(x, InOutcome)
          BY <3>5, <3>8, <4>2, ReadMore
        <5>2. O[a.j] \o << >> = O[a.j]
          BY <4>1, TextConcat
        <5> QED BY <3>3, <3>10, <4>2, <5>1, <5>2
      <4>3. CASE ~y
        <5>1. Read(b.out, InOutcome) = Append(Read(x, InOutcome), e.byte)
          BY <3>5, <3>8, <4>3, ReadMore
        <5>2. O[a.j] \o << c.byte >> = Append(O[a.j], c.byte)
          BY <2>7, <4>1, TextConcat
        <5> QED BY <3>3, <3>5, <3>10, <4>3, <5>1, <5>2
      <4> QED BY <4>2, <4>3
    <3>14. O[a.j + 1] = O[a.j] \o Piece(mid, next, a.j + 1) \o next.ins[a.j + 1]
      BY <1>7, <3>12
    <3>15. Joins(O[b.j], Read(b.out, InOutcome), next.ins[b.j])
      BY <3>2, <3>13, <3>14 DEF Joins
    <3> QED BY <2>1, <2>3, <3>11, <3>15 DEF S
  <2> QED BY <2>11, <2>12
<1>11. \A k \in 0 .. n : k \in S
  <2> HIDE DEF S, n
  <2> QED BY <1>1, <1>9, <1>10, Induction
<1>12. \A k \in 0 .. n : /\ Read(C[k].out, InBase) = B[k]
                         /\ Joins(O[C[k].j], Read(C[k].out, InOutcome), next.ins[C[k].j])
  BY <1>11
<1> QED BY <1>12 DEF C, B, O

\* What an element does to the loop of Action::chain, at its place in mid.
Linked(a, b, c, mid, next) ==
  /\ a \in Links /\ b \in Links
  /\ c.to => ChainGone(a, b, c)
  /\ ~c.to => /\ ChainOn(a, b, c, mid, next)
              /\ next.ins[a.j] \in Text /\ mid[a.j + 1] \in Bytes

\* Every element of the string does that.
LEMMA ChainSteps ==
  ASSUME NEW u \in Strings, NEW mid \in Text, NEW next \in Deltas(Len(mid)),
         Len(Read(u, InOutcome)) = Len(mid), NEW k \in 1 .. Len(u)
  PROVE  Linked(ChainUpTo(u, mid, next)[k - 1], ChainUpTo(u, mid, next)[k], u[k], mid, next)
<1> DEFINE C == ChainUpTo(u, mid, next)
           R == ReadUpTo(u, InOutcome)
<1>1. k \in 0 .. Len(u) /\ k - 1 \in 0 .. Len(u)
  BY StringElements
<1>2. C[k] = ChainByte(C[k - 1], u[k], mid, next)
  BY ChainDef
<1>3. \A i \in 0 .. Len(u) : C[i] \in Links /\ C[i].j = Len(R[i])
  BY ChainDef
<1> HIDE DEF C, R
<1>4. PICK a \in Links : a = C[k - 1] /\ a.j = Len(R[k - 1])
  BY <1>1, <1>3
<1>5. PICK b \in Links : b = C[k]
  BY <1>1, <1>3
<1>6. PICK c \in Tags : c = u[k]
  BY StringElements
<1>7. a.j \in Nat
  BY DEF Links
<1>8. ASSUME ~c.to
      PROVE  next.ins[a.j] \in Text /\ mid[a.j + 1] \in Bytes
  <2>1. u[k] \in InOutcome /\ a.j = Len(R[k - 1])
    BY <1>4, <1>6, <1>8 DEF InOutcome
  <2>2. Reaches(u, InOutcome, k, a.j)
    BY <2>1 DEF Reaches, R
  <2>3. HasNext(Read(u, InOutcome), a.j, u[k].byte)
    BY <2>2, ReadReaches
  <2>4. a.j + 1 <= Len(mid)
    BY <2>3 DEF HasNext
  <2>5. Len(mid) \in Nat /\ \A i \in 1 .. Len(mid) : mid[i] \in Bytes
    BY TextElements
  <2>6. a.j \in 0 .. Len(mid) /\ a.j + 1 \in 1 .. Len(mid)
    BY <1>7, <2>4, <2>5
  <2>7. next.ins \in [0 .. Len(mid) -> Text]
    BY DeltaFits
  <2> QED BY <2>5, <2>6, <2>7
<1>9. b = ChainByte(a, c, mid, next)
  BY <1>2, <1>4, <1>5, <1>6
<1>10. /\ c.to => ChainGone(a, b, c)
       /\ ~c.to => ChainOn(a, b, c, mid, next)
  BY <1>8, <1>9, ChainByteFields
<1>11. Linked(a, b, c, mid, next)
  BY <1>8, <1>10 DEF Linked
<1> QED BY <1>4, <1>5, <1>6, <1>11 DEF C

\* One element of two strings with the same flags: the loops stay alike.
LEMMA LinkedLike ==
  ASSUME NEW mid, NEW next, NEW a, NEW b, NEW c \in Tags, Linked(a, b, c, mid, next),
         NEW p, NEW q, NEW e \in Tags, Linked(p, q, e, mid, next),
         c.from <=> e.from, c.to <=> e.to, a.j = p.j, Like(a.out, p.out, InOutcome)
  PROVE  b.j = q.j /\ Like(b.out, q.out, InOutcome)
<1>1. /\ c.byte \in Bytes /\ c.from \in BOOLEAN /\ e.byte \in Bytes /\ e.from \in BOOLEAN
      /\ c.from = e.from
  BY TagFields
<1>2. CASE c.to
  <2>1. PICK g : g = Tag(c.byte, c.from, TRUE) /\ TagIs(g, c.byte, c.from, TRUE)
    BY <1>1, TagOf
  <2>2. PICK h : h = Tag(e.byte, e.from, TRUE) /\ TagIs(h, e.byte, e.from, TRUE)
    BY <1>1, TagOf
  <2>3. b.j = a.j /\ Joins(b.out, a.out, << g >>)
    BY <1>2, <2>1 DEF Linked, ChainGone
  <2>4. q.j = p.j /\ Joins(q.out, p.out, << h >>)
    BY <1>2, <2>2 DEF Linked, ChainGone
  <2>5. /\ g \in Tags /\ h \in Tags /\ g \notin InOutcome
        /\ g.from <=> h.from
        /\ g.to <=> h.to
    BY <1>1, <2>1, <2>2 DEF TagIs, InOutcome
  <2>6. Like(<< g >>, << h >>, InOutcome)
    BY <2>5, LikeOne
  <2>7. Like(b.out, q.out, InOutcome)
    BY <2>3, <2>4, <2>6, LikeConcat
  <2> QED BY <2>3, <2>4, <2>7
<1>3. CASE ~c.to
  <2> DEFINE y == a.j \in next.del
  <2>1. y \in BOOLEAN
    OBVIOUS
  <2>2. /\ next.ins[a.j] \in Text /\ mid[a.j + 1] \in Bytes
        /\ b.j = a.j + 1
        /\ JoinsThree(b.out, a.out, Inserted(next.ins[a.j]), << Tag(mid[a.j + 1], c.from, y) >>)
    BY <1>3 DEF Linked, ChainOn
  <2>3. /\ q.j = a.j + 1
        /\ JoinsThree(q.out, p.out, Inserted(next.ins[a.j]), << Tag(mid[a.j + 1], c.from, y) >>)
    BY <1>1, <1>3 DEF Linked, ChainOn
  <2> HIDE DEF y
  <2>4. PICK g \in Tags : g = Tag(mid[a.j + 1], c.from, y)
    BY <1>1, <2>1, <2>2, TagOf DEF TagIs
  <2>5. PICK i \in Strings : i = Inserted(next.ins[a.j])
    BY <2>2, InsertedReads
  <2>6. PICK x : Joins(x, a.out, i)
    BY DEF Joins
  <2>7. PICK z : Joins(z, p.out, i)
    BY DEF Joins
  <2>8. Joins(b.out, x, << g >>)
    BY <2>2, <2>4, <2>5, <2>6 DEF Joins, JoinsThree
  <2>9. Joins(q.out, z, << g >>)
    BY <2>3, <2>4, <2>5, <2>7 DEF Joins, JoinsThree
  <2>10. Like(i, i, InOutcome) /\ Like(<< g >>, << g >>, InOutcome)
    BY StringConcat, LikeSelf
  <2>11. Like(x, z, InOutcome)
    BY <2>6, <2>7, <2>10, LikeConcat
  <2>12. Like(b.out, q.out, InOutcome)
    BY <2>8, <2>9, <2>10, <2>11, LikeConcat
  <2> QED BY <2>2, <2>3, <2>12
<1> QED BY <1>2, <1>3

\* The bytes that first deletes do not matter to the string Action::chain builds: they
\* are not in its outcome.
LEMMA ChainLike ==
  ASSUME NEW u, NEW v, Like(u, v, {}), NEW mid \in Text, NEW next \in Deltas(Len(mid)),
         Len(Read(u, InOutcome)) = Len(mid), Len(Read(v, InOutcome)) = Len(mid),
         NEW k \in 0 .. Len(u)
  PROVE  /\ ChainUpTo(u, mid, next)[k].j = ChainUpTo(v, mid, next)[k].j
         /\ Like(ChainUpTo(u, mid, next)[k].out, ChainUpTo(v, mid, next)[k].out, InOutcome)
<1> DEFINE C == ChainUpTo(u, mid, next)
           E == ChainUpTo(v, mid, next)
           n == Len(u)
           S == {i \in 0 .. n : C[i].j = E[i].j /\ Like(C[i].out, E[i].out, InOutcome)}
<1>1. u \in Strings /\ v \in Strings /\ n \in Nat /\ n = Len(v)
  BY StringElements DEF Like
<1>2. 0 \in S
  <2>1. C[0] = [out |-> << >>, j |-> 0] /\ E[0] = [out |-> << >>, j |-> 0]
    BY <1>1, ChainDef
  <2> HIDE DEF C, E
  <2>2. C[0].out = << >> /\ E[0].out = << >> /\ C[0].j = 0 /\ E[0].j = 0
    BY <2>1
  <2>3. Like(<< >>, << >>, InOutcome)
    BY StringConcat, LikeSelf
  <2> QED BY <1>1, <2>2, <2>3
<1>3. \A i \in 0 .. n - 1 : i \in S => i + 1 \in S
  <2> SUFFICES ASSUME NEW i \in 0 .. n - 1, i \in S PROVE i + 1 \in S
    OBVIOUS
  <2>1. /\ i + 1 \in 1 .. n /\ i + 1 \in 0 .. n /\ (i + 1) - 1 = i
        /\ C[i].j = E[i].j /\ Like(C[i].out, E[i].out, InOutcome)
    BY <1>1
  <2> HIDE DEF S
  <2>2. PICK m \in 1 .. Len(u) : m = i + 1 /\ m - 1 = i /\ m \in 1 .. Len(v)
    BY <1>1, <2>1
  <2>3. Linked(C[m - 1], C[m], u[m], mid, next) /\ Linked(E[m - 1], E[m], v[m], mid, next)
    BY <1>1, <2>2, ChainSteps
  <2>4. u[m] \in Tags /\ v[m] \in Tags /\ (u[m].from <=> v[m].from) /\ (u[m].to <=> v[m].to)
    BY <1>1, <2>2, StringElements DEF Like
  <2>5. C[m - 1].j = E[m - 1].j /\ Like(C[m - 1].out, E[m - 1].out, InOutcome)
    BY <2>1, <2>2
  <2> HIDE DEF C, E
  <2>6. C[m].j = E[m].j /\ Like(C[m].out, E[m].out, InOutcome)
    BY <2>3, <2>4, <2>5, LinkedLike
  <2> QED BY <2>1, <2>2, <2>6 DEF S
<1>4. \A i \in 0 .. n : i \in S
  <2> HIDE DEF S, n
  <2> QED BY <1>1, <1>2, <1>3, Induction
<1> QED BY <1>4

\* The chained delta is synthesised from a union string that is the base of first in the
\* base, and next's outcome in the outcome.
LEMMA ChainMade ==
  ASSUME NEW data \in Text, NEW first \in Deltas(Len(data)),
         NEW mid, mid = ApplyDelta(data, first), NEW next \in Deltas(Len(mid))
  PROVE  \E w \in Strings : /\ Chain(first, mid, next) = Synthesize(w)
                            /\ data = Read(w, InBase)
                            /\ ApplyDelta(mid, next) = Read(w, InOutcome)
<1> DEFINE zeros == [i \in 1 .. first.base |-> 0]
<1>1. mid \in Text
  BY ApplyType
<1>2. PICK n \in Nat : n = Len(data) /\ n = first.base
  BY DeltaFits, TextElements
<1>3. zeros \in Text /\ Len(zeros) = n
  <2>1. 0 \in Bytes
    BY DEF Bytes
  <2>2. zeros \in [1 .. n -> Bytes]
    BY <1>2, <2>1
  <2> HIDE DEF zeros
  <2> QED BY <1>2, <2>2 DEF Text
<1>4. zeros = [i \in 1 .. first.base |-> 0]
  OBVIOUS
<1> HIDE DEF zeros
<1>5. PICK u \in Strings : /\ u = Union(first, data)
                           /\ Read(u, InBase) = data /\ Read(u, InOutcome) = mid
  BY UnionReads
<1>6. PICK v \in Strings : v = Union(first, zeros)
  BY <1>2, <1>3, UnionReads
<1>7. Like(u, v, {})
  BY <1>2, <1>3, <1>5, <1>6, DeltaFits, UnionLike
<1>8. PICK m \in Nat : m = Len(u) /\ m = Len(v) /\ m \in 0 .. Len(u)
  BY <1>7, StringElements DEF Like
<1>9. Len(Read(u, InOutcome)) = Len(mid) /\ Len(Read(v, InOutcome)) = Len(mid)
  <2>1. \A k \in 0 .. Len(u) :
          Len(ReadUpTo(u, InOutcome)[k]) = Len(ReadUpTo(v, InOutcome)[k])
    BY <1>7, LikeReads
  <2>2. Len(ReadUpTo(u, InOutcome)[m]) = Len(ReadUpTo(v, InOutcome)[m])
    BY <1>8, <2>1
  <2> QED BY <1>5, <1>8, <2>2 DEF Read
<1>10. PICK a \in Links : a = ChainUpTo(u, mid, next)[m] /\ a.j = Len(ReadUpTo(u, InOutcome)[m])
  BY <1>1, <1>8, <1>9, ChainDef
<1>11. PICK b \in Links : b = ChainUpTo(v, mid, next)[m]
  BY <1>1, <1>8, <1>9, ChainDef
<1>12. a.j = b.j /\ Like(a.out, b.out, InOutcome)
  <2>1. \A k \in 0 .. Len(u) :
          /\ ChainUpTo(u, mid, next)[k].j = ChainUpTo(v, mid, next)[k].j
          /\ Like(ChainUpTo(u, mid, next)[k].out, ChainUpTo(v, mid, next)[k].out, InOutcome)
    BY <1>1, <1>7, <1>9, ChainLike
  <2> QED BY <1>8, <1>10, <1>11, <2>1
<1>13. a.j = Len(mid) /\ a.out \in Strings
  BY <1>5, <1>8, <1>10 DEF Read, Links
<1>14. /\ Read(a.out, InBase) = ReadUpTo(u, InBase)[m]
       /\ Joins(Outcome(mid, next)[a.j], Read(a.out, InOutcome), next.ins[a.j])
  BY <1>1, <1>5, <1>8, <1>10, ChainReads
<1>15. PICK t \in Text : t = next.ins[a.j]
  <2>1. next.ins \in [0 .. Len(mid) -> Text] /\ Len(mid) \in Nat
    BY <1>1, DeltaFits, TextElements
  <2> QED BY <1>13, <2>1
<1>16. PICK i \in Strings : /\ i = Inserted(t)
                            /\ Read(i, InBase) = << >> /\ Read(i, InOutcome) = t
  BY InsertedReads
<1>17. PICK w \in Strings : Joins(w, a.out, i)
  BY <1>13, StringConcat DEF Joins
<1>18. PICK z : Joins(z, b.out, i)
  BY DEF Joins
<1>19. Like(w, z, InOutcome)
  BY <1>12, <1>17, <1>18, LikeSelf, LikeConcat
<1>20. Read(w, InBase) = data
  <2>1. Joins(Read(w, InBase), Read(a.out, InBase), Read(i, InBase))
    BY <1>13, <1>17, ReadConcat
  <2>2. Read(a.out, InBase) = data
    BY <1>5, <1>8, <1>14 DEF Read
  <2>3. Read(w, InBase) = data \o << >>
    BY <1>16, <2>1, <2>2 DEF Joins
  <2> QED BY <2>3, TextConcat
<1>21. Read(w, InOutcome) = ApplyDelta(mid, next)
  <2>1. Joins(Read(w, InOutcome), Read(a.out, InOutcome), Read(i, InOutcome))
    BY <1>13, <1>17, ReadConcat
  <2>2. Read(w, InOutcome) = Outcome(mid, next)[a.j]
    BY <1>14, <1>15, <1>16, <2>1 DEF Joins
  <2>3. next.base = Len(mid)
    BY <1>1, DeltaFits
  <2> QED BY <1>13, <2>2, <2>3 DEF ApplyDelta
<1>22. Chain(first, mid, next) = Synthesize(z)
  <2>1. Chain(first, mid, next) = Synthesize(b.out \o Inserted(next.ins[b.j]))
    BY <1>4, <1>6, <1>8, <1>11 DEF Chain
  <2>2. z = b.out \o Inserted(next.ins[b.j])
    BY <1>12, <1>15, <1>16, <1>18 DEF Joins
  <2> QED BY <2>1, <2>2
<1>23. Synthesize(w) = Synthesize(z)
  BY <1>19, SynthesizeLike
<1> QED BY <1>20, <1>21, <1>22, <1>23

\* Action::chain: the chained delta does first and then next, whatever the deltas and
\* the bytes are, though the bytes that first deletes are not looked at.
THEOREM ChainApplies ==
  ASSUME NEW data \in Text, NEW first \in Deltas(Len(data)),
         NEW mid, mid = ApplyDelta(data, first), NEW next \in Deltas(Len(mid))
  PROVE  /\ Chain(first, mid, next) \in Deltas(Len(data))
         /\ ApplyDelta(data, Chain(first, mid, next)) = ApplyDelta(mid, next)
         /\ MadeFrom(Chain(first, mid, next), data)
<1>1. PICK w \in Strings : /\ Chain(first, mid, next) = Synthesize(w)
                           /\ data = Read(w, InBase)
                           /\ ApplyDelta(mid, next) = Read(w, InOutcome)
  BY ChainMade
<1>2. /\ Synthesize(w) \in Deltas(Len(Read(w, InBase)))
      /\ ApplyDelta(Read(w, InBase), Synthesize(w)) = Read(w, InOutcome)
  BY SynthesizeApplies
<1>3. MadeFrom(Chain(first, mid, next), data)
  BY <1>1 DEF MadeFrom
<1> QED BY <1>1, <1>2, <1>3

-----------------------------------------------------------------------------
(* DeltaBuilder, and the edits of src/operations.rs.                       *)

\* Sequences of sequences, put together: none is lost.
LEMMA FlattenType ==
  ASSUME NEW A, NEW s \in Seq(Seq(A))
  PROVE  /\ FlattenSeq(s) \in Seq(A)
         /\ \A k \in 1 .. Len(s) : Len(FlattenSeq(s)) >= Len(s[k])
<1> DEFINE T == Seq(A)
           n == Len(s)
           F == CHOOSE h : h = [i \in 1 .. n |-> IF i = 1 THEN s[i] ELSE h[i - 1] \o s[i]]
<1>1. n \in Nat /\ \A i \in 1 .. n : s[i] \in T
  BY LenProperties, ElementOfSeq
<1>2. \A x, y \in T : /\ x \o y \in T /\ Len(x \o y) = Len(x) + Len(y)
                     /\ Len(x) \in Nat /\ Len(y) \in Nat
  BY ConcatProperties, LenProperties
<1>3. CASE n = 0
  <2>1. s = << >> /\ 1 .. n = {}
    BY <1>3, EmptySeq
  <2>2. FlattenSeq(s) = << >>
    BY <1>3, <2>1 DEF FlattenSeq
  <2> QED BY <2>1, <2>2, EmptySeq
<1>4. CASE n # 0
  <2>1. PICK m \in Nat : n = m + 1
    <3>1. n - 1 \in Nat /\ n = (n - 1) + 1
      BY <1>1, <1>4
    <3> QED BY <3>1
  <2>2. FlattenSeq(s) = F[n]
    BY <1>4 DEF FlattenSeq
  <2> DEFINE step == [p \in T \X (1 .. m) |-> p[1] \o s[p[2] + 1]]
  <2> HIDE DEF T, n
  <2>3. \A i \in 1 .. m : i + 1 \in 1 .. n
    BY <2>1
  <2>4. step \in [T \X (1 .. m) -> T]
    BY <1>1, <1>2, <2>3
  <2>5. s[1] \in T
    BY <1>1, <2>1
  <2>6. PICK g \in [0 .. m -> T] : Runs(g, m, s[1], step)
    <3> HIDE DEF step
    <3> QED BY <2>4, <2>5, Loop
  <2> DEFINE h == [i \in 1 .. n |-> g[i - 1]]
  <2>7. g[0] = s[1] /\ \A i \in 1 .. m : g[i] = g[i - 1] \o s[i + 1]
    <3>1. g[0] = s[1] /\ \A i \in 1 .. m : g[i] = step[<< g[i - 1], i >>]
      BY <2>6 DEF Runs
    <3>2. \A i \in 1 .. m : g[i - 1] \in T
      BY <2>6
    <3> QED BY <3>1, <3>2
  <2>8. h = [i \in 1 .. n |-> IF i = 1 THEN s[i] ELSE h[i - 1] \o s[i]]
    <3> SUFFICES ASSUME NEW i \in 1 .. n
                 PROVE  h[i] = IF i = 1 THEN s[i] ELSE h[i - 1] \o s[i]
      OBVIOUS
    <3>1. h[i] = g[i - 1]
      OBVIOUS
    <3>2. CASE i = 1
      BY <2>7, <3>1, <3>2
    <3>3. CASE i # 1
      <4>1. i - 1 \in 1 .. m /\ i - 1 \in 1 .. n /\ (i - 1) + 1 = i
        BY <2>1, <3>3
      <4>2. h[i - 1] = g[(i - 1) - 1]
        BY <4>1
      <4>3. g[i - 1] = g[(i - 1) - 1] \o s[i]
        BY <2>7, <4>1
      <4> QED BY <3>1, <3>3, <4>2, <4>3
    <3> QED BY <3>2, <3>3
  <2> HIDE DEF h
  <2>9. F = [i \in 1 .. n |-> IF i = 1 THEN s[i] ELSE F[i - 1] \o s[i]]
    BY <2>8
  <2> HIDE DEF F
  <2> DEFINE S == {i \in 1 .. n : F[i] \in T /\ \A l \in 1 .. i : Len(F[i]) >= Len(s[l])}
  <2>10. 1 \in S
    <3>1. F[1] = s[1] /\ Len(s[1]) \in Nat /\ 1 \in 1 .. n
      BY <1>2, <2>1, <2>5, <2>9
    <3>2. \A l \in 1 .. 1 : l = 1
      OBVIOUS
    <3>3. \A l \in 1 .. 1 : Len(F[1]) >= Len(s[l])
      BY <3>1, <3>2
    <3> QED BY <2>5, <3>1, <3>3
  <2>11. \A i \in 1 .. n - 1 : i \in S => i + 1 \in S
    <3> SUFFICES ASSUME NEW i \in 1 .. n - 1, i \in S PROVE i + 1 \in S
      OBVIOUS
    <3>1. /\ i + 1 \in 1 .. n /\ i + 1 # 1 /\ (i + 1) - 1 = i /\ F[i] \in T
          /\ \A l \in 1 .. i : Len(F[i]) >= Len(s[l])
      BY <1>1
    <3> HIDE DEF S
    <3>2. F[i + 1] = F[i] \o s[i + 1]
      BY <2>9, <3>1
    <3>3. F[i + 1] \in T
      BY <1>1, <1>2, <3>1, <3>2
    <3>4. PICK j \in 1 .. n : j = i + 1 /\ F[j] = F[i] \o s[j] /\ F[i] \in T /\ s[j] \in T
      BY <1>1, <3>1, <3>2
    <3>5. PICK x \in Nat, y \in Nat : x = Len(F[i]) /\ y = Len(s[j]) /\ Len(F[j]) = x + y
      <4>1. PICK u \in T, v \in T : u = F[i] /\ v = s[j] /\ F[j] = u \o v
        BY <3>4
      <4>2. Len(u \o v) = Len(u) + Len(v) /\ Len(u) \in Nat /\ Len(v) \in Nat
        BY <1>2
      <4> QED BY <4>1, <4>2
    <3>6. ASSUME NEW l \in 1 .. j PROVE Len(F[j]) >= Len(s[l])
      <4>1. CASE l = j
        <5>1. x + y >= y
          OBVIOUS
        <5> QED BY <3>5, <4>1, <5>1
      <4>2. CASE l # j
        <5>1. l \in 1 .. i /\ l \in 1 .. n
          BY <1>1, <3>4, <4>2
        <5>2. s[l] \in T /\ Len(F[i]) >= Len(s[l])
          BY <1>1, <3>1, <5>1
        <5>3. PICK z \in Nat : z = Len(s[l])
          BY <1>2, <5>2
        <5>4. x >= z
          BY <3>5, <5>2, <5>3
        <5>5. x + y >= z
          BY <5>4
        <5> QED BY <3>5, <5>3, <5>5
      <4> QED BY <4>1, <4>2
    <3>7. j \in S
      BY <3>3, <3>4, <3>6 DEF S
    <3> QED BY <3>4, <3>7
  <2>12. \A i \in 1 .. n : i \in S
    <3> HIDE DEF S
    <3>1. PICK z \in Int : z = 1
      OBVIOUS
    <3>2. n \in Int /\ z \in S /\ \A i \in z .. n - 1 : i \in S => i + 1 \in S
      BY <1>1, <2>10, <2>11, <3>1
    <3>3. \A i \in z .. n : i \in S
      BY <3>2, InductionFrom
    <3> QED BY <3>1, <3>3
  <2>13. n \in 1 .. n
    BY <2>1
  <2>14. F[n] \in T /\ \A l \in 1 .. n : Len(F[n]) >= Len(s[l])
    BY <2>12, <2>13
  <2> HIDE DEF S
  <2> QED BY <2>2, <2>14 DEF T, n
<1> QED BY <1>3, <1>4

\* Edits: where they are does not matter to the type of a delta.
Edits == [from : Int, to : Int, text : Text]

\* DeltaBuilder makes a delta of the buffer out of any edits.
LEMMA BuildType ==
  ASSUME NEW n \in Nat, NEW edits \in Seq(Edits)
  PROVE  Build(n, edits) \in Deltas(n)
<1> DEFINE m == Len(edits)
           del == {i \in 0 .. n - 1 :
                     \E k \in DOMAIN edits : edits[k].from <= i /\ i < edits[k].to}
           Gap(p) == Max({0} \cup {i + 1 : i \in {j \in 0 .. n - 1 : j < p /\ j \notin del}})
           pieces(g) == [k \in DOMAIN edits |->
                           IF Gap(edits[k].from) = g THEN edits[k].text ELSE << >>]
<1>1. m \in Nat /\ DOMAIN edits = 1 .. m /\ \A k \in 1 .. m : edits[k] \in Edits
  BY LenProperties, ElementOfSeq
<1>2. Build(n, edits) = [base |-> n, del |-> del, ins |-> [g \in 0 .. n |-> FlattenSeq(pieces(g))]]
  BY DEF Build
<1>3. del \in SUBSET (0 .. n - 1)
  OBVIOUS
<1> HIDE DEF del
<1>4. ASSUME NEW g \in 0 .. n PROVE FlattenSeq(pieces(g)) \in Text
  <2> HIDE DEF Gap, m
  <2>1. \A k \in 1 .. m : (IF Gap(edits[k].from) = g THEN edits[k].text ELSE << >>) \in Text
    BY <1>1, TextConcat DEF Edits
  <2>2. pieces(g) \in [1 .. m -> Text]
    BY <1>1, <2>1
  <2> HIDE DEF pieces
  <2>3. pieces(g) \in Seq(Text)
    BY <1>1, <2>2
  <2> QED BY <2>3, FlattenType DEF Text
<1> HIDE DEF pieces
<1>5. [g \in 0 .. n |-> FlattenSeq(pieces(g))] \in [0 .. n -> Text]
  BY <1>4
<1> QED BY <1>2, <1>3, <1>5 DEF Deltas

\* DeltaBuilder without an edit changes nothing.
LEMMA BuildNothing ==
  ASSUME NEW data \in Text
  PROVE  /\ Build(Len(data), << >>) \in Deltas(Len(data))
         /\ ApplyDelta(data, Build(Len(data), << >>)) = data
<1> DEFINE d == Build(Len(data), << >>)
           n == Len(data)
           O == Outcome(data, d)
           S == {g \in 0 .. n : Begins(O[g], data, g)}
<1>1. n \in Nat /\ << >> \in Seq(Edits)
  BY TextElements
<1>2. d \in Deltas(n)
  BY <1>1, BuildType
<1>3. d.base = n /\ d.del = {} /\ \A g \in 0 .. n : d.ins[g] = << >>
  <2>1. DOMAIN << >> = {} /\ Len(<< >>) = 0
    OBVIOUS
  <2>2. d.base = n /\ d.del = {}
    BY <2>1 DEF Build
  <2>3. ASSUME NEW g \in 0 .. n PROVE d.ins[g] = << >>
    <3>1. PICK e : d.ins[g] = FlattenSeq(e) /\ e = << >>
      <4> DEFINE del == {i \in 0 .. n - 1 :
                           \E k \in DOMAIN << >> : << >>[k].from <= i /\ i < << >>[k].to}
                 Gap(p) == Max({0} \cup {i + 1 : i \in {j \in 0 .. n - 1 : j < p /\ j \notin del}})
                 e == [k \in DOMAIN << >> |->
                         IF Gap(<< >>[k].from) = g THEN << >>[k].text ELSE << >>]
      <4>1. d.ins[g] = FlattenSeq(e)
        BY DEF Build
      <4>2. e = << >>
        <5> HIDE DEF Gap
        <5>1. e \in [1 .. 0 -> Text]
          BY <2>1
        <5> HIDE DEF e
        <5>2. e \in Seq(Text) /\ Len(e) = 0
          BY <5>1
        <5> QED BY <5>2, EmptySeq
      <4> QED BY <4>1, <4>2
    <3> QED BY <2>1, <3>1 DEF FlattenSeq
  <2> QED BY <2>2, <2>3
<1> HIDE DEF d
<1>4. Fits(data, d)
  BY <1>2, DeltaFits
<1>5. /\ O[0] = d.ins[0]
      /\ \A g \in 1 .. n : O[g] = O[g - 1] \o Piece(data, d, g) \o d.ins[g]
  <2>1. O[0] = d.ins[0]
    BY <1>4, OutcomeDef
  <2>2. \A g \in 1 .. d.base : O[g] = O[g - 1] \o Piece(data, d, g) \o d.ins[g]
    BY <1>4, OutcomeDef
  <2> HIDE DEF O
  <2> QED BY <1>3, <2>1, <2>2
<1>6. \A g \in 0 .. n : O[g] \in Text
  BY <1>3, <1>4, OutcomeDef
<1> HIDE DEF O
<1>7. 0 \in S
  <2>1. O[0] = << >>
    BY <1>1, <1>3, <1>5
  <2> QED BY <1>1, <2>1, TextConcat DEF Begins
<1>8. \A g \in 0 .. n - 1 : g \in S => g + 1 \in S
  <2> SUFFICES ASSUME NEW g \in 0 .. n - 1, g \in S PROVE g + 1 \in S
    OBVIOUS
  <2>1. /\ g + 1 \in 1 .. n /\ g + 1 \in 0 .. n /\ g \in 0 .. n /\ (g + 1) - 1 = g
        /\ Begins(O[g], data, g)
    BY <1>1
  <2> HIDE DEF S
  <2>2. data[g + 1] \in Bytes
    BY <2>1, TextElements
  <2>3. Piece(data, d, g + 1) = << data[g + 1] >>
    BY <1>3 DEF Piece
  <2>4. O[g + 1] = O[g] \o << data[g + 1] >> \o << >>
    BY <1>3, <1>5, <2>1, <2>3
  <2>5. PICK t \in Text : t = O[g] /\ Begins(t, data, g)
    BY <1>6, <2>1
  <2>6. O[g + 1] = Append(t, data[g + 1])
    BY <2>2, <2>4, <2>5, TextConcat
  <2>7. Longer(O[g + 1], t, data[g + 1])
    BY <2>2, <2>6, TextAppend
  <2>8. Begins(O[g + 1], data, g + 1)
    BY <2>5, <2>7 DEF Longer, Begins
  <2> QED BY <2>1, <2>8 DEF S
<1>9. \A g \in 0 .. n : g \in S
  <2> HIDE DEF S, n
  <2> QED BY <1>1, <1>7, <1>8, Induction
<1>10. Begins(O[n], data, n)
  BY <1>1, <1>9
<1>11. O[n] = data
  BY <1>10, TextElements DEF Begins
<1> QED BY <1>2, <1>3, <1>11 DEF ApplyDelta, O, d

\* A function on 1 .. m is a sequence.
LEMMA SequenceOf ==
  ASSUME NEW m \in Nat, NEW A, NEW f \in [1 .. m -> A]
  PROVE  f \in Seq(A) /\ Len(f) = m
OBVIOUS

\* The ends of a region.
LEMMA RegionEnds ==
  ASSUME NEW r \in Regions
  PROVE  /\ r.caret \in Nat /\ r.tail \in Nat
         /\ RMin(r) \in Nat /\ RMax(r) \in Nat /\ RMin(r) <= RMax(r)
         /\ RLen(r) \in Nat
BY DEF Regions, RMin, RMax, RLen, Lesser, Greater

\* An edit of text.
LEMMA EditType ==
  ASSUME NEW from \in Int, NEW to \in Int, NEW text \in Text
  PROVE  Edit(from, to, text) \in Edits
BY DEF Edit, Edits

\* Every operation of src/operations.rs makes edits of bytes.
LEMMA OperationsType ==
  ASSUME NEW data \in Text, NEW sel, sel.regions \in Seq(Regions)
  PROVE  /\ Deletion(data, sel) \in Seq(Edits)
         /\ Backspace(data, sel) \in Seq(Edits)
         /\ DeleteCursor(data, sel) \in Seq(Edits)
         /\ \A text \in Text : /\ Insert(data, sel, text) \in Seq(Edits)
                               /\ Change(data, sel, text) \in Seq(Edits)
         /\ \A half \in 0 .. 15 : OverwriteHalf(data, sel, 16 * half) \in Seq(Edits)
         /\ \A ch \in Bytes : Replace(data, sel, ch) \in Seq(Edits)
         /\ \A register \in Seq(Text), after \in BOOLEAN, count \in Nat :
              register # << >> => Paste(data, sel, register, after, count) \in Seq(Edits)
<1> DEFINE m == Len(sel.regions)
           R(i) == sel.regions[i]
<1>1. m \in Nat /\ DOMAIN sel.regions = 1 .. m /\ \A i \in 1 .. m : R(i) \in Regions
  BY LenProperties, ElementOfSeq
<1>2. \A i \in 1 .. m : /\ R(i).caret \in Nat /\ R(i).tail \in Nat
                        /\ RMin(R(i)) \in Nat /\ RMax(R(i)) \in Nat /\ RLen(R(i)) \in Nat
  BY <1>1, RegionEnds
<1>3. << >> \in Text /\ Len(data) \in Nat
  BY TextConcat, TextElements
<1> HIDE DEF m, R
<1>4. Deletion(data, sel) \in Seq(Edits)
  <2>1. Deletion(data, sel) = [i \in 1 .. m |-> Edit(RMin(R(i)), RMax(R(i)) + 1, << >>)]
    BY <1>1 DEF Deletion, EachRegion, R
  <2>2. \A i \in 1 .. m : Edit(RMin(R(i)), RMax(R(i)) + 1, << >>) \in Edits
    BY <1>2, <1>3, EditType
  <2>3. Deletion(data, sel) \in [1 .. m -> Edits]
    BY <2>1, <2>2
  <2> QED BY <1>1, <2>3, SequenceOf
<1>5. Backspace(data, sel) \in Seq(Edits)
  <2> DEFINE f == [i \in 1 .. m |-> IF R(i).caret = 0 THEN << >>
                                    ELSE << Edit(R(i).caret - 1, R(i).caret, << >>) >>]
  <2>1. Backspace(data, sel) = FlattenSeq(f)
    BY <1>1 DEF Backspace, EachRegion, R
  <2>2. \A i \in 1 .. m : Edit(R(i).caret - 1, R(i).caret, << >>) \in Edits
    BY <1>2, <1>3, EditType
  <2>3. \A e \in Edits : << e >> \in Seq(Edits) /\ << >> \in Seq(Edits)
    OBVIOUS
  <2>4. f \in [1 .. m -> Seq(Edits)]
    BY <2>2, <2>3
  <2>5. f \in Seq(Seq(Edits))
    <3> HIDE DEF f
    <3> QED BY <1>1, <2>4, SequenceOf
  <2> HIDE DEF f
  <2> QED BY <2>1, <2>5, FlattenType
<1>6. DeleteCursor(data, sel) \in Seq(Edits)
  <2> DEFINE f == [i \in 1 .. m |-> IF R(i).caret < Len(data)
                                    THEN << Edit(R(i).caret, R(i).caret + 1, << >>) >> ELSE << >>]
  <2>1. DeleteCursor(data, sel) = FlattenSeq(f)
    BY <1>1 DEF DeleteCursor, EachRegion, R
  <2>2. \A i \in 1 .. m : Edit(R(i).caret, R(i).caret + 1, << >>) \in Edits
    BY <1>2, <1>3, EditType
  <2>3. \A e \in Edits : << e >> \in Seq(Edits) /\ << >> \in Seq(Edits)
    OBVIOUS
  <2>4. f \in [1 .. m -> Seq(Edits)]
    BY <2>2, <2>3
  <2>5. f \in Seq(Seq(Edits))
    <3> HIDE DEF f
    <3> QED BY <1>1, <2>4, SequenceOf
  <2> HIDE DEF f
  <2> QED BY <2>1, <2>5, FlattenType
<1>7. ASSUME NEW text \in Text
      PROVE  Insert(data, sel, text) \in Seq(Edits) /\ Change(data, sel, text) \in Seq(Edits)
  <2>1. /\ Insert(data, sel, text) = [i \in 1 .. m |-> Edit(R(i).caret, R(i).caret, text)]
        /\ Change(data, sel, text) = [i \in 1 .. m |-> Edit(R(i).caret, R(i).caret + 1, text)]
    BY <1>1 DEF Insert, Change, EachRegion, R
  <2>2. \A i \in 1 .. m : /\ Edit(R(i).caret, R(i).caret, text) \in Edits
                          /\ Edit(R(i).caret, R(i).caret + 1, text) \in Edits
    BY <1>2, EditType
  <2>3. /\ Insert(data, sel, text) \in [1 .. m -> Edits]
        /\ Change(data, sel, text) \in [1 .. m -> Edits]
    BY <2>1, <2>2
  <2> QED BY <1>1, <2>3, SequenceOf
<1>8. ASSUME NEW half \in 0 .. 15 PROVE OverwriteHalf(data, sel, 16 * half) \in Seq(Edits)
  <2> DEFINE low(i) == IF R(i).caret < Len(data) THEN data[R(i).caret + 1] % 16 ELSE 0
  <2>1. OverwriteHalf(data, sel, 16 * half) =
          [i \in 1 .. m |-> Edit(R(i).caret, R(i).caret + 1, << 16 * half + low(i) >>)]
    BY <1>1 DEF OverwriteHalf, EachRegion, R
  <2>2. ASSUME NEW i \in 1 .. m
        PROVE  Edit(R(i).caret, R(i).caret + 1, << 16 * half + low(i) >>) \in Edits
    <3>1. low(i) \in 0 .. 15
      <4>1. CASE R(i).caret < Len(data)
        <5>1. R(i).caret + 1 \in 1 .. Len(data)
          BY <1>2, <1>3, <4>1
        <5>2. PICK b \in 0 .. 255 : b = data[R(i).caret + 1]
          BY <5>1, TextElements DEF Bytes
        <5>3. b % 16 \in 0 .. 15
          OBVIOUS
        <5> QED BY <4>1, <5>2, <5>3
      <4> QED BY <4>1
    <3>2. 16 * half + low(i) \in Bytes
      <4> HIDE DEF low
      <4>1. PICK l \in 0 .. 15 : l = low(i)
        BY <3>1
      <4>2. 16 * half + l \in 0 .. 255
        OBVIOUS
      <4> QED BY <4>1, <4>2 DEF Bytes
    <3>3. << 16 * half + low(i) >> \in Text
      BY <3>2, TextConcat
    <3> QED BY <1>2, <3>3, EditType
  <2> HIDE DEF low
  <2>3. OverwriteHalf(data, sel, 16 * half) \in [1 .. m -> Edits]
    BY <2>1, <2>2
  <2> QED BY <1>1, <2>3, SequenceOf
<1>9. ASSUME NEW ch \in Bytes PROVE Replace(data, sel, ch) \in Seq(Edits)
  <2> DEFINE text(i) == [k \in 1 .. RLen(R(i)) |-> ch]
  <2>1. Replace(data, sel, ch) = [i \in 1 .. m |-> Edit(RMin(R(i)), RMax(R(i)) + 1, text(i))]
    BY <1>1 DEF Replace, EachRegion, R
  <2>2. ASSUME NEW i \in 1 .. m PROVE Edit(RMin(R(i)), RMax(R(i)) + 1, text(i)) \in Edits
    <3>1. text(i) \in [1 .. RLen(R(i)) -> Bytes] /\ RLen(R(i)) \in Nat
      BY <1>2
    <3> HIDE DEF text
    <3>2. text(i) \in Text
      BY <3>1, SequenceOf DEF Text
    <3> QED BY <1>2, <3>2, EditType
  <2> HIDE DEF text
  <2>3. Replace(data, sel, ch) \in [1 .. m -> Edits]
    BY <2>1, <2>2
  <2> QED BY <1>1, <2>3, SequenceOf
<1>10. ASSUME NEW register \in Seq(Text), NEW after \in BOOLEAN, NEW count \in Nat,
              register # << >>
       PROVE  Paste(data, sel, register, after, count) \in Seq(Edits)
  <2> DEFINE pos(i) == IF after THEN Lesser(Len(data), RMax(R(i)) + 1) ELSE RMin(R(i))
             value(i) == register[Lesser(i, Len(register))]
             copies(i) == FlattenSeq([k \in 1 .. count |-> value(i)])
  <2>1. Paste(data, sel, register, after, count) =
          [i \in 1 .. m |-> Edit(pos(i), pos(i), copies(i))]
    BY <1>1 DEF Paste, R
  <2>2. ASSUME NEW i \in 1 .. m PROVE Edit(pos(i), pos(i), copies(i)) \in Edits
    <3>1. pos(i) \in Int
      BY <1>2, <1>3 DEF Lesser
    <3>2. /\ Len(register) \in Nat /\ Len(register) # 0
          /\ \A k \in 1 .. Len(register) : register[k] \in Text
      BY <1>10, LenProperties, ElementOfSeq, EmptySeq
    <3>3. Lesser(i, Len(register)) \in 1 .. Len(register)
      BY <3>2 DEF Lesser
    <3>4. value(i) \in Text
      BY <3>2, <3>3
    <3> HIDE DEF value, pos
    <3> DEFINE f == [k \in 1 .. count |-> value(i)]
    <3>5. f \in [1 .. count -> Text]
      BY <3>4
    <3>6. copies(i) = FlattenSeq(f)
      OBVIOUS
    <3> HIDE DEF f, copies
    <3>7. f \in Seq(Text)
      BY <3>5, SequenceOf
    <3>8. copies(i) \in Text
      BY <3>6, <3>7, FlattenType DEF Text
    <3> QED BY <3>1, <3>8, EditType
  <2> HIDE DEF pos, copies, value
  <2>3. Paste(data, sel, register, after, count) \in [1 .. m -> Edits]
    BY <2>1, <2>2
  <2> QED BY <1>1, <2>3, SequenceOf
<1> QED BY <1>4, <1>5, <1>6, <1>7, <1>8, <1>9, <1>10
=============================================================================
