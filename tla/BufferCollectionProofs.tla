----------------------- MODULE BufferCollectionProofs -----------------------
(***************************************************************************)
(* Proofs about the open buffers and the disk, for every set of names,     *)
(* files and bytes, every number of buffers and files of every length.     *)
(***************************************************************************)
EXTENDS BufferCollection, SequenceTheorems, TLAPS

\* The modes differ.
LEMMA ModeNames ==
  /\ Normal.name = "Normal" /\ Panicked.name = "Panicked" /\ Failed.name = "Failed"
  /\ \A line : Command(line).name = "Command" /\ Command(line).line = line
  /\ \A force : Quitting(force).name = "Quitting"
  BY DEF Normal, Panicked, Failed, Command, Quitting

\* Quitting with and without force are told apart.
LEMMA ForceTold == Quitting(TRUE) # Quitting(FALSE)
<1>1. Quitting(TRUE).force = TRUE /\ Quitting(FALSE).force = FALSE
  BY DEF Quitting
<1> QED
  BY <1>1

\* What loading the next chunk makes of a buffer: it keeps to its file.
LEMMA LoadFacts ==
  ASSUME NEW b \in Buffers, NEW file \in Seq(Bytes), file = disk[Canon[b.path]]
  PROVE  LET c == LoadNextChunk(b)
         IN /\ c \in Buffers /\ c.path = b.path /\ c.dirty = b.dirty
            /\ Begins(b.data, file) => Begins(c.data, file)
<1> DEFINE n == Len(b.data)
           m == Lesser(n + Chunk, Len(file))
           more == SubSeq(file, n + 1, m)
<1>1. b.data \in Seq(Bytes) /\ n \in Nat /\ Len(file) \in Nat /\ Chunk \in Nat
  BY CollectionAssumption DEF Buffers
<1>2. m \in Nat /\ m <= Len(file)
  BY <1>1 DEF Lesser
<1>3. \A i \in n + 1 .. m : file[i] \in Bytes
  BY <1>1, <1>2
<1> HIDE DEF n, m
<1>4. /\ more \in Seq(Bytes)
      /\ Len(more) = IF n + 1 <= m THEN m - (n + 1) + 1 ELSE 0
      /\ \A i \in 1 .. m - (n + 1) + 1 : more[i] = file[n + 1 + i - 1]
  BY <1>1, <1>2, <1>3, SubSeqProperties
<1> HIDE DEF more
<1>5. /\ b.data \o more \in Seq(Bytes)
      /\ Len(b.data \o more) = n + Len(more)
      /\ \A i \in 1 .. n + Len(more) :
           (b.data \o more)[i] = IF i <= n THEN b.data[i] ELSE more[i - n]
  BY <1>1, <1>4, ConcatProperties DEF n
<1>6. LoadNextChunk(b) = [b EXCEPT !.data = b.data \o more]
  BY DEF LoadNextChunk, more, m, n
<1>7. /\ LoadNextChunk(b) \in Buffers
      /\ LoadNextChunk(b).path = b.path /\ LoadNextChunk(b).dirty = b.dirty
      /\ LoadNextChunk(b).data = b.data \o more
  BY <1>5, <1>6 DEF Buffers
<1>8. ASSUME Begins(b.data, file) PROVE Begins(b.data \o more, file)
  <2>1. n <= Len(file) /\ \A k \in 1 .. n : b.data[k] = file[k]
    BY <1>8 DEF Begins, n
  <2>2. n + Len(more) <= Len(file)
    BY <1>1, <1>2, <1>4, <2>1
  <2>3. ASSUME NEW k \in 1 .. n + Len(more) PROVE (b.data \o more)[k] = file[k]
    <3>1. CASE k <= n
      BY <1>1, <1>5, <2>1, <3>1
    <3>2. CASE k > n
      <4>1. k - n \in 1 .. m - (n + 1) + 1 /\ (b.data \o more)[k] = more[k - n]
        BY <1>1, <1>2, <1>4, <1>5, <3>2
      <4> QED
        BY <1>1, <1>4, <4>1
    <3>3. k <= n \/ k > n
      BY <1>1, <1>4
    <3> QED
      BY <3>1, <3>2, <3>3
  <2> QED
    BY <1>5, <2>2, <2>3 DEF Begins
<1> QED
  BY <1>7, <1>8

-----------------------------------------------------------------------------
(* The invariant.                                                          *)

\* No two of the buffers l hold one file, unless it is among the strays.
OneEach(l, strays) ==
  \A i, j \in DOMAIN l :
    HasFile(l[i]) /\ HasFile(l[j]) /\ Canon[l[i].path] = Canon[l[j].path] =>
      i = j \/ Canon[l[i].path] \in strays

\* A clean buffer of l begins as its file does, unless that is to be excepted.
InStep(l, excepted) ==
  \A i \in DOMAIN l :
    HasFile(l[i]) /\ ~l[i].dirty /\ Canon[l[i].path] \notin excepted =>
      Exists(l[i].path) /\ Begins(l[i].data, disk[Canon[l[i].path]])

\* The loop of :wa and :wq writes each buffer to its own file.
OwnFile == IsWriting /\ mode.all => list[mode.at].path = mode.to

Inv ==
  /\ TypeOK
  /\ QuitLosesNothing
  /\ WrittenSoFar
  /\ OneBufferPerFile
  /\ FollowsFile
  /\ OwnFile

\* The invariants, in terms of the two predicates.
LEMMA Restated ==
  /\ OneBufferPerFile <=> OneEach(list, stray)
  /\ FollowsFile <=> InStep(list, stray \cup InFlight)
  BY DEF OneBufferPerFile, OneEach, FollowsFile, InStep

\* What a repaint does to the buffers l and the rest of the state.
LEMMA RepaintFacts ==
  ASSUME TypeOK, NEW l \in Seq(Buffers), NEW c \in DOMAIN l, NEW m, Repaint(l, c, m)
  PROVE  /\ list' \in Seq(Buffers) /\ Len(list') = Len(l)
         /\ cur' = c /\ disk' = disk /\ mode' \in {m, Failed}
         /\ stray' = {f \in stray : \E i \in DOMAIN l : HoldsFile(l[i], f)}
         /\ \A i \in 1 .. Len(l) :
              /\ list'[i].path = l[i].path /\ list'[i].dirty = l[i].dirty
              /\ \/ list'[i].data = l[i].data
                 \/ /\ HasFile(l[i]) /\ Exists(l[i].path)
                    /\ list'[i] = LoadNextChunk(l[i])
<1>1. cur' = c /\ disk' = disk /\ mode' \in {m, Failed}
      /\ stray' = {f \in stray : \E i \in DOMAIN l : HoldsFile(l[i], f)}
  BY DEF Repaint
<1>2. CASE list' = l
  BY <1>1, <1>2
<1>3. CASE /\ HasFile(l[c]) /\ Exists(l[c].path)
           /\ list' = [l EXCEPT ![c] = LoadNextChunk(l[c])]
  <2>1. l[c] \in Buffers /\ c \in 1 .. Len(l)
    OBVIOUS
  <2>2. l[c].path \in Names
    BY <1>3, <2>1 DEF HasFile, Buffers
  <2>3. disk[Canon[l[c].path]] \in Seq(Bytes)
    BY <1>3, <2>2, CollectionAssumption DEF TypeOK, Exists
  <2>4. /\ LoadNextChunk(l[c]) \in Buffers
        /\ LoadNextChunk(l[c]).path = l[c].path
        /\ LoadNextChunk(l[c]).dirty = l[c].dirty
    BY <2>1, <2>3, LoadFacts
  <2>5. /\ list' \in Seq(Buffers) /\ Len(list') = Len(l)
        /\ \A j \in 1 .. Len(l) : list'[j] = IF j = c THEN LoadNextChunk(l[c]) ELSE l[j]
    BY <1>3, <2>1, <2>4, ExceptSeq
  <2> QED
    BY <1>1, <1>3, <2>4, <2>5
<1> QED
  BY <1>2, <1>3 DEF Repaint

\* A repaint keeps the invariant when the buffers l it starts from satisfy it.
LEMMA RepaintKeeps ==
  ASSUME Inv, NEW l \in Seq(Buffers), NEW c \in DOMAIN l, NEW m,
         \/ m = Normal
         \/ m.name = "Command" /\ m.line \in Lines /\ m = Command(m.line),
         OneEach(l, stray), InStep(l, stray), Repaint(l, c, m)
  PROVE  Inv'
<1>1. TypeOK
  BY DEF Inv
<1>2. /\ list' \in Seq(Buffers) /\ Len(list') = Len(l)
      /\ cur' = c /\ disk' = disk /\ mode' \in {m, Failed}
      /\ stray' = {f \in stray : \E i \in DOMAIN l : HoldsFile(l[i], f)}
  BY <1>1, RepaintFacts
<1>3. \A i \in 1 .. Len(l) :
        /\ list'[i].path = l[i].path /\ list'[i].dirty = l[i].dirty
        /\ \/ list'[i].data = l[i].data
           \/ /\ HasFile(l[i]) /\ Exists(l[i].path)
              /\ list'[i] = LoadNextChunk(l[i])
  BY <1>1, RepaintFacts
<1>4. DOMAIN l = 1 .. Len(l) /\ DOMAIN list' = 1 .. Len(l)
  BY <1>2
<1>5. mode'.name \in {"Normal", "Command", "Failed"}
  BY <1>2, ModeNames
<1>6. TypeOK'
  BY <1>1, <1>2, <1>4 DEF TypeOK, Prompting
<1>7. QuitLosesNothing' /\ WrittenSoFar' /\ OwnFile' /\ InFlight' = {}
  BY <1>5, ModeNames DEF QuitLosesNothing, WrittenSoFar, OwnFile, InFlight, IsWriting
<1>8. OneEach(list', stray')
  BY <1>2, <1>3, <1>4 DEF OneEach, HasFile, HoldsFile
<1>9. ASSUME NEW i \in DOMAIN list',
             HasFile(list'[i]), ~list'[i].dirty, Canon[list'[i].path] \notin stray'
      PROVE  /\ disk'[Canon[list'[i].path]] # Absent
             /\ Begins(list'[i].data, disk'[Canon[list'[i].path]])
  <2> DEFINE f == Canon[l[i].path]
  <2>1. i \in 1 .. Len(l) /\ l[i] \in Buffers
    BY <1>4
  <2>2. HasFile(l[i]) /\ ~l[i].dirty /\ list'[i].path = l[i].path
    BY <1>3, <1>9, <2>1 DEF HasFile
  <2>3. f \notin stray
    BY <1>2, <1>4, <1>9, <2>1, <2>2 DEF HoldsFile
  <2>4. Exists(l[i].path) /\ Begins(l[i].data, disk[f])
    BY <1>4, <2>1, <2>2, <2>3 DEF InStep
  <2>5. l[i].path \in Names /\ f \in Files
    BY <2>1, <2>2, CollectionAssumption DEF HasFile, Buffers
  <2>6. disk[f] \in Seq(Bytes)
    BY <1>1, <2>4, <2>5 DEF TypeOK, Exists
  <2>7. Begins(LoadNextChunk(l[i]).data, disk[f])
    BY <2>1, <2>4, <2>6, LoadFacts
  <2>8. Begins(list'[i].data, disk[f])
    BY <1>3, <2>1, <2>4, <2>7
  <2> QED
    BY <1>2, <2>2, <2>4, <2>8 DEF Exists
<1>10. OneBufferPerFile'
  BY <1>8 DEF OneBufferPerFile, OneEach
<1>11. FollowsFile'
  BY <1>7, <1>9 DEF FollowsFile, Exists
<1> QED
  BY <1>6, <1>7, <1>10, <1>11 DEF Inv

\* Where a step goes from the keyboard to another mode, the buffers and the
\* disk stay as they are.
LEMMA BecomeKeeps ==
  ASSUME Inv, mode.name \in {"Normal", "Command"}, NEW m, mode' = m,
         UNCHANGED << list, cur, disk, stray >>,
         \/ m \in {Normal, Panicked, Quitting(TRUE)}
         \/ m = Quitting(FALSE) /\ Unsaved = {}
         \/ m.name = "Command" /\ m.line \in Lines /\ m = Command(m.line)
         \/ \E at \in DOMAIN list, to \in Names, all, quit \in BOOLEAN :
              /\ m = Writing(at, to, FALSE, all, quit)
              /\ all => list[at].path = to /\ \A k \in 1 .. at - 1 : ~HasFile(list[k])
  PROVE  Inv'
<1>1. InFlight = {}
  BY DEF InFlight, IsWriting
<1>2. ASSUME InFlight' = {} PROVE OneBufferPerFile' /\ FollowsFile'
  BY <1>1, <1>2 DEF Inv, OneBufferPerFile, FollowsFile, Exists
<1>3. CASE m \in {Normal, Panicked, Quitting(TRUE)}
  <2>1. mode'.name \in {"Normal", "Panicked", "Quitting"} /\ mode' # Quitting(FALSE)
    BY <1>3, ModeNames, ForceTold
  <2>2. TypeOK' /\ InFlight' = {} /\ QuitLosesNothing' /\ WrittenSoFar' /\ OwnFile'
    BY <1>3, <2>1 DEF Inv, TypeOK, InFlight, QuitLosesNothing, WrittenSoFar, OwnFile, IsWriting
  <2> QED
    BY <1>2, <2>2 DEF Inv
<1>4. CASE m = Quitting(FALSE) /\ Unsaved = {}
  <2>1. mode'.name = "Quitting"
    BY <1>4, ModeNames
  <2>2. TypeOK' /\ InFlight' = {} /\ WrittenSoFar' /\ OwnFile'
    BY <1>4, <2>1 DEF Inv, TypeOK, InFlight, WrittenSoFar, OwnFile, IsWriting
  <2>3. QuitLosesNothing'
    BY <1>4 DEF QuitLosesNothing, Unsaved
  <2> QED
    BY <1>2, <2>2, <2>3 DEF Inv
<1>5. CASE m.name = "Command" /\ m.line \in Lines /\ m = Command(m.line)
  <2>1. mode'.name = "Command" /\ mode' # Quitting(FALSE)
    BY <1>5, ModeNames
  <2>2. TypeOK' /\ InFlight' = {} /\ QuitLosesNothing' /\ WrittenSoFar' /\ OwnFile'
    BY <1>5, <2>1 DEF Inv, TypeOK, InFlight, QuitLosesNothing, WrittenSoFar, OwnFile,
                      IsWriting, Prompting
  <2> QED
    BY <1>2, <2>2 DEF Inv
<1>6. ASSUME NEW at \in DOMAIN list, NEW to \in Names, NEW all \in BOOLEAN, NEW quit \in BOOLEAN,
             m = Writing(at, to, FALSE, all, quit),
             all => list[at].path = to /\ \A k \in 1 .. at - 1 : ~HasFile(list[k])
      PROVE  Inv'
  <2>0. mode' = Writing(at, to, FALSE, all, quit)
    BY <1>6
  <2>1. /\ mode'.name = "Writing" /\ mode'.at = at /\ mode'.to = to
        /\ mode'.open = FALSE /\ mode'.all = all /\ mode'.quit = quit
    BY <2>0 DEF Writing
  <2>5. mode' # Quitting(FALSE)
    BY <2>1, ModeNames
  <2>2. TypeOK'
    BY <1>6, <2>1 DEF Inv, TypeOK, IsWriting
  <2>3. InFlight' = {} /\ QuitLosesNothing' /\ OwnFile'
    BY <1>6, <2>1, <2>5 DEF InFlight, QuitLosesNothing, OwnFile
  <2>4. WrittenSoFar'
    BY <1>6, <2>1 DEF WrittenSoFar
  <2> QED
    BY <1>2, <2>2, <2>3, <2>4 DEF Inv
<1> QED
  BY <1>3, <1>4, <1>5, <1>6

-----------------------------------------------------------------------------
(* The prompt.                                                             *)

\* The part of a line up to a place and the part from a place on are lines.
LEMMA LineParts ==
  ASSUME NEW text \in Seq(CharBytes), NEW n \in Nat, n <= Len(text), NEW k \in Nat \ {0}
  PROVE  /\ SubSeq(text, 1, n) \in Seq(CharBytes) /\ Len(SubSeq(text, 1, n)) = n
         /\ SubSeq(text, k, Len(text)) \in Seq(CharBytes)
<1>1. \A i \in 1 .. n : text[i] \in CharBytes
  OBVIOUS
<1>2. \A i \in k .. Len(text) : text[i] \in CharBytes
  OBVIOUS
<1> QED
  BY <1>1, <1>2, SubSeqProperties

\* Without one of its characters, a line still reaches that place.
LEMMA WithoutCharFacts ==
  ASSUME NEW text \in Seq(CharBytes), NEW at \in Nat, at <= Len(text)
  PROVE  WithoutChar(text, at) \in Seq(CharBytes) /\ Len(WithoutChar(text, at)) >= at
<1> DEFINE k == at + (IF Wide(text, at) THEN 3 ELSE 2)
<1>1. k \in Nat \ {0}
  OBVIOUS
<1> HIDE DEF k
<1>2. /\ SubSeq(text, 1, at) \in Seq(CharBytes) /\ Len(SubSeq(text, 1, at)) = at
      /\ SubSeq(text, k, Len(text)) \in Seq(CharBytes)
  BY <1>1, LineParts
<1>3. /\ SubSeq(text, 1, at) \o SubSeq(text, k, Len(text)) \in Seq(CharBytes)
      /\ Len(SubSeq(text, 1, at) \o SubSeq(text, k, Len(text))) >= at
  BY <1>2, ConcatProperties
<1> QED
  BY <1>3 DEF WithoutChar, k

\* Editing a line gives a line with the cursor in it, when nothing panics.
LEMMA LineEdits ==
  ASSUME NEW line \in Lines
  PROVE  /\ \A char \in Chars : ~InsertPanics(line) =>
              InsertChar(line, char) \in Lines
              /\ InsertChar(line, char).cursor <= Len(InsertChar(line, char).text)
         /\ ~RemoveLastPanics(line) =>
              RemoveLast(line) \in Lines
              /\ (line.cursor <= Len(line.text) => RemoveLast(line).cursor <= Len(RemoveLast(line).text))
         /\ ~RemoveThisPanics(line) =>
              RemoveThis(line) \in Lines
              /\ RemoveThis(line).cursor <= Len(RemoveThis(line).text)
         /\ CursorLeft(line) \in Lines
         /\ line.cursor <= Len(line.text) => CursorLeft(line).cursor <= Len(CursorLeft(line).text)
         /\ CursorRight(line) \in Lines
         /\ line.cursor <= Len(line.text) => CursorRight(line).cursor <= Len(CursorRight(line).text)
<1> DEFINE text == line.text
           n == line.cursor
<1>1. text \in Seq(CharBytes) /\ n \in Nat /\ line = [text |-> text, cursor |-> n]
  BY DEF Lines
<1>2. ASSUME NEW char \in Chars, ~InsertPanics(line)
      PROVE  InsertChar(line, char) \in Lines
             /\ InsertChar(line, char).cursor <= Len(InsertChar(line, char).text)
  <2>1. n <= Len(text)
    BY <1>2 DEF InsertPanics, Boundary
  <2> DEFINE left == SubSeq(text, 1, n)
             right == SubSeq(text, n + 1, Len(text))
  <2>2. left \in Seq(CharBytes) /\ Len(left) = n /\ right \in Seq(CharBytes)
    BY <1>1, <2>1, LineParts
  <2>3. char \in Seq(CharBytes) /\ Len(char) >= 1
    <3>1. \/ char = << "one" >> \/ char = << "bang" >> \/ char = << "first", "second" >>
      BY DEF Chars
    <3>2. /\ << "one" >> \in Seq(CharBytes) /\ Len(<< "one" >>) = 1
          /\ << "bang" >> \in Seq(CharBytes) /\ Len(<< "bang" >>) = 1
      BY DEF CharBytes
    <3>3. << "first", "second" >> \in Seq(CharBytes) /\ Len(<< "first", "second" >>) = 2
      BY DEF CharBytes
    <3>4. CASE char = << "one" >>
      BY <3>2, <3>4
    <3>5. CASE char = << "bang" >>
      BY <3>2, <3>5
    <3>6. CASE char = << "first", "second" >>
      BY <3>3, <3>6
    <3> QED
      BY <3>1, <3>4, <3>5, <3>6
  <2> HIDE DEF left, right
  <2>4. left \o char \in Seq(CharBytes) /\ Len(left \o char) >= n + 1
    BY <1>1, <2>2, <2>3, ConcatProperties
  <2>5. (left \o char) \o right \in Seq(CharBytes) /\ Len((left \o char) \o right) >= n + 1
    BY <1>1, <2>2, <2>4, ConcatProperties
  <2>6. InsertChar(line, char) = [text |-> (left \o char) \o right, cursor |-> n + 1]
    BY DEF InsertChar, left, right
  <2> QED
    BY <1>1, <2>5, <2>6 DEF Lines
<1>3. ASSUME ~RemoveLastPanics(line)
      PROVE  RemoveLast(line) \in Lines
             /\ (n <= Len(text) => RemoveLast(line).cursor <= Len(RemoveLast(line).text))
  <2>1. CASE n = 0
    BY <1>1, <2>1 DEF RemoveLast
  <2>2. CASE n # 0
    <3>1. n - 1 \in Nat /\ n - 1 <= Len(text)
      BY <1>1, <1>3, <2>2 DEF RemoveLastPanics, RemovePanics
    <3>2. WithoutChar(text, n - 1) \in Seq(CharBytes) /\ Len(WithoutChar(text, n - 1)) >= n - 1
      BY <1>1, <3>1, WithoutCharFacts
    <3>3. RemoveLast(line) = [text |-> WithoutChar(text, n - 1), cursor |-> n - 1]
      BY <2>2 DEF RemoveLast
    <3> QED
      BY <1>1, <3>1, <3>2, <3>3 DEF Lines
  <2> QED
    BY <2>1, <2>2
<1>4. ASSUME ~RemoveThisPanics(line)
      PROVE  RemoveThis(line) \in Lines /\ RemoveThis(line).cursor <= Len(RemoveThis(line).text)
  <2>1. n <= Len(text)
    BY <1>1, <1>4 DEF RemoveThisPanics, RemovePanics
  <2>2. WithoutChar(text, n) \in Seq(CharBytes) /\ Len(WithoutChar(text, n)) >= n
    BY <1>1, <2>1, WithoutCharFacts
  <2>3. RemoveThis(line) = [text |-> WithoutChar(text, n), cursor |-> n]
    BY <1>1 DEF RemoveThis
  <2> QED
    BY <1>1, <2>2, <2>3 DEF Lines
<1>5. /\ CursorLeft(line) = [text |-> text, cursor |-> IF n # 0 THEN n - 1 ELSE 0]
      /\ CursorRight(line) = [text |-> text, cursor |-> IF n < Len(text) THEN n + 1 ELSE n]
  BY <1>1 DEF CursorLeft, CursorRight
<1>6. /\ CursorLeft(line) \in Lines
      /\ n <= Len(text) => CursorLeft(line).cursor <= Len(CursorLeft(line).text)
      /\ CursorRight(line) \in Lines
      /\ n <= Len(text) => CursorRight(line).cursor <= Len(CursorRight(line).text)
  BY <1>1, <1>5 DEF Lines
<1> QED
  BY <1>2, <1>3, <1>4, <1>6

\* The invariant holds with the prompt as with the other modes, while no write
\* is under way.
LEMMA AtKeyboard ==
  ASSUME Inv, mode.name \in {"Normal", "Command"}
  PROVE  /\ list \in Seq(Buffers) /\ cur \in DOMAIN list
         /\ DOMAIN list = 1 .. Len(list) /\ Len(list) \in Nat
         /\ OneEach(list, stray) /\ InStep(list, stray)
<1>1. InFlight = {}
  BY DEF InFlight, IsWriting
<1> QED
  BY <1>1, Restated DEF Inv, TypeOK

\* Typing, erasing and moving in the prompt.
LEMMA PromptStep ==
  ASSUME Inv, OpenPrompt \/ TypeChar \/ EraseLast \/ EraseThis \/ MoveCursor \/ Cancel
  PROVE  Inv'
<1>1. CASE OpenPrompt
  <2>1. EmptyLine \in Lines
    BY DEF EmptyLine, Lines
  <2>2. mode.name = "Normal"
    BY <1>1, ModeNames DEF OpenPrompt
  <2> QED
    BY <1>1, <2>1, <2>2, ModeNames, BecomeKeeps DEF OpenPrompt, Become
<1>2. ASSUME Prompting PROVE mode.line \in Lines /\ mode.name = "Command"
  BY <1>2, ModeNames DEF Inv, TypeOK, Prompting, IsWriting
<1>3. ASSUME Prompting, NEW line \in Lines, Become(Command(line)) PROVE Inv'
  BY <1>2, <1>3, ModeNames, BecomeKeeps DEF Become
<1>4. ASSUME Prompting, Become(Panicked) \/ Become(Normal) PROVE Inv'
  BY <1>2, <1>4, BecomeKeeps DEF Become
<1>5. CASE TypeChar
  BY <1>2, <1>3, <1>4, <1>5, LineEdits, CollectionAssumption DEF TypeChar
<1>6. CASE EraseLast
  BY <1>2, <1>3, <1>4, <1>6, LineEdits DEF EraseLast
<1>7. CASE EraseThis
  BY <1>2, <1>3, <1>4, <1>7, LineEdits DEF EraseThis
<1>8. CASE MoveCursor
  BY <1>2, <1>3, <1>8, LineEdits DEF MoveCursor
<1>9. CASE Cancel
  BY <1>4, <1>9 DEF Cancel
<1> QED
  BY <1>1, <1>5, <1>6, <1>7, <1>8, <1>9

-----------------------------------------------------------------------------
(* Changing, looking, opening and closing.                                 *)

\* The other modes, and the view.
LEMMA ChangeStep ==
  ASSUME Inv, Change \/ Look
  PROVE  Inv'
<1>1. CASE Look
  <2>1. mode.name \in {"Normal", "Command"}
    BY <1>1 DEF Look
  <2>2. \/ mode = Normal
        \/ mode.name = "Command" /\ mode.line \in Lines /\ mode = Command(mode.line)
    BY <2>1, ModeNames DEF Inv, TypeOK, Prompting, IsWriting
  <2> QED
    BY <1>1, <2>1, <2>2, AtKeyboard, RepaintKeeps DEF Look
<1>2. CASE Change
  <2>1. mode = Normal /\ mode.name = "Normal"
    BY <1>2, ModeNames DEF Change
  <2>2. /\ list \in Seq(Buffers) /\ cur \in DOMAIN list
        /\ DOMAIN list = 1 .. Len(list) /\ Len(list) \in Nat
        /\ OneEach(list, stray) /\ InStep(list, stray)
    BY <2>1, AtKeyboard
  <2>3. PICK data \in Edited :
          Repaint([list EXCEPT ![cur].data = data, ![cur].dirty = TRUE], cur, mode)
    BY <1>2 DEF Change
  <2> DEFINE b == [list[cur] EXCEPT !.data = data, !.dirty = TRUE]
             l == [list EXCEPT ![cur] = b]
  <2>4. list[cur] \in Buffers /\ data \in Seq(Bytes)
    BY <2>2, CollectionAssumption
  <2>5. b \in Buffers /\ b.path = list[cur].path /\ b.dirty = TRUE
    BY <2>4 DEF Buffers
  <2>6. [list EXCEPT ![cur].data = data, ![cur].dirty = TRUE] = l
    BY <2>2
  <2> HIDE DEF b
  <2>7. l \in Seq(Buffers) /\ Len(l) = Len(list)
        /\ \A j \in 1 .. Len(list) : l[j] = IF j = cur THEN b ELSE list[j]
    BY <2>2, <2>5, ExceptSeq
  <2> HIDE DEF l
  <2>8. DOMAIN l = 1 .. Len(list)
    BY <2>7
  <2>9. OneEach(l, stray)
    BY <2>2, <2>5, <2>7, <2>8 DEF OneEach, HasFile
  <2>10. InStep(l, stray)
    BY <2>2, <2>5, <2>7, <2>8 DEF InStep, HasFile
  <2> QED
    BY <2>1, <2>2, <2>3, <2>6, <2>7, <2>8, <2>9, <2>10, RepaintKeeps
<1> QED
  BY <1>1, <1>2
\* Opening a file, or going to the buffer that has it.
LEMMA EditStep ==
  ASSUME Inv, NEW n \in Names, Edit(n)
  PROVE  Inv'
<1>1. Prompting /\ mode.name = "Command"
  BY DEF Edit, Accepting, Prompting
<1>2. /\ list \in Seq(Buffers) /\ cur \in DOMAIN list
      /\ DOMAIN list = 1 .. Len(list) /\ Len(list) \in Nat
      /\ OneEach(list, stray) /\ InStep(list, stray)
  BY <1>1, AtKeyboard
<1>3. CASE Become(Normal)
  BY <1>1, <1>3, BecomeKeeps DEF Become
<1>4. ASSUME NEW i \in Stops(n), Repaint(list, i, Normal) PROVE Inv'
  <2>1. i \in DOMAIN list
    BY DEF Stops
  <2> QED
    BY <1>2, <1>4, <2>1, RepaintKeeps
<1>5. ASSUME Exists(n), Stops(n) = {},
             Repaint(Append(list, FromDataAndPath(disk[Canon[n]], n)), Len(list) + 1, Normal)
      PROVE  Inv'
  <2> DEFINE b == FromDataAndPath(disk[Canon[n]], n)
             l == Append(list, b)
  <2>1. disk[Canon[n]] \in Seq(Bytes)
    BY <1>5, CollectionAssumption DEF Inv, TypeOK, Exists
  <2>2. b \in Buffers /\ b.path = n /\ b.data = disk[Canon[n]] /\ b.dirty = FALSE
    BY <2>1 DEF FromDataAndPath, Buffers
  <2> HIDE DEF b
  <2>3. /\ l \in Seq(Buffers) /\ Len(l) = Len(list) + 1
        /\ \A i \in 1 .. Len(list) : l[i] = list[i]
        /\ l[Len(list) + 1] = b
    BY <1>2, <2>2, AppendProperties
  <2> HIDE DEF l
  <2>4. DOMAIN l = 1 .. Len(list) + 1
    BY <2>3
  <2>5. \A i \in 1 .. Len(list) : HasFile(list[i]) => Canon[list[i].path] # Canon[n]
    BY <1>2, <1>5 DEF Stops
  <2>6. ASSUME NEW i \in DOMAIN l
        PROVE  \/ i \in 1 .. Len(list) /\ l[i] = list[i]
               \/ i = Len(list) + 1 /\ l[i] = b
    BY <1>2, <2>3, <2>4
  <2>7. OneEach(l, stray)
    BY <1>2, <2>2, <2>5, <2>6 DEF OneEach
  <2>8. Begins(disk[Canon[n]], disk[Canon[n]])
    BY <2>1 DEF Begins
  <2>9. InStep(l, stray)
    BY <1>2, <1>5, <2>2, <2>6, <2>8 DEF InStep
  <2>10. Len(list) + 1 \in DOMAIN l
    BY <1>2, <2>4
  <2> QED
    BY <1>5, <2>3, <2>7, <2>9, <2>10, RepaintKeeps DEF l, b
<1> QED
  BY <1>3, <1>4, <1>5 DEF Edit

\* Closing the current buffer: the others move up, and a scratch buffer takes
\* the place of the last one.
LEMMA CloseStep ==
  ASSUME Inv, DeleteBuffer \/ ForceDelete
  PROVE  Inv'
<1>1. Prompting /\ mode.name = "Command"
  BY DEF DeleteBuffer, ForceDelete, Accepting, Prompting
<1>2. /\ list \in Seq(Buffers) /\ cur \in DOMAIN list
      /\ DOMAIN list = 1 .. Len(list) /\ Len(list) \in Nat
      /\ OneEach(list, stray) /\ InStep(list, stray)
  BY <1>1, AtKeyboard
<1>3. CASE Become(Normal)
  BY <1>1, <1>3, BecomeKeeps DEF Become
<1>4. CASE DeleteCurrent
  <2> DEFINE rest == [i \in 1 .. Len(list) - 1 |-> IF i < cur THEN list[i] ELSE list[i + 1]]
             l == IF rest = << >> THEN << Scratch >> ELSE rest
             c == IF cur > 1 THEN cur - 1 ELSE 1
  <2>1. cur \in 1 .. Len(list)
    BY <1>2
  <2>2. Repaint(l, c, Normal)
    BY <1>4 DEF DeleteCurrent
  <2>3. CASE Len(list) = 1
    <3>1. rest = << >>
      BY <2>3
    <3>2. l = << Scratch >> /\ c = 1
      BY <2>1, <2>3, <3>1
    <3>3. Scratch \in Buffers /\ Scratch.path = NoName
      BY DEF Scratch, FromDataAndPath, Buffers
    <3> HIDE DEF l, c
    <3>4. << Scratch >> \in Seq(Buffers) /\ DOMAIN << Scratch >> = {1} /\ << Scratch >>[1] = Scratch
      BY <3>3
    <3>5. l \in Seq(Buffers) /\ DOMAIN l = {1} /\ l[1].path = NoName
      BY <3>2, <3>3, <3>4
    <3>6. OneEach(l, stray) /\ InStep(l, stray)
      BY <3>5 DEF OneEach, InStep, HasFile
    <3> QED
      BY <2>2, <3>2, <3>5, <3>6, RepaintKeeps
  <2>4. CASE Len(list) > 1
    <3>1. \A i \in 1 .. Len(list) - 1 : rest[i] \in Buffers
      BY <1>2, <2>1
    <3>2. rest \in Seq(Buffers) /\ Len(rest) = Len(list) - 1
      BY <1>2, <2>4, <3>1, IsASeq
    <3>3. DOMAIN rest = 1 .. Len(list) - 1
      OBVIOUS
    <3>4. rest # << >>
      <4>1. 1 \in DOMAIN rest
        BY <1>2, <2>4, <3>3
      <4> HIDE DEF rest
      <4> QED
        BY <4>1
    <3>5. l = rest /\ c \in DOMAIN rest
      BY <2>1, <2>4, <3>3, <3>4
    <3>6. ASSUME NEW i \in DOMAIN rest
          PROVE  \/ i < cur /\ i \in DOMAIN list /\ rest[i] = list[i]
                 \/ i >= cur /\ i + 1 \in DOMAIN list /\ rest[i] = list[i + 1]
      BY <1>2, <2>1, <3>3
    <3> HIDE DEF rest, l, c
    <3>7. OneEach(rest, stray)
      <4> SUFFICES ASSUME NEW i \in DOMAIN rest, NEW j \in DOMAIN rest,
                          HasFile(rest[i]), HasFile(rest[j]),
                          Canon[rest[i].path] = Canon[rest[j].path], i # j
                   PROVE  Canon[rest[i].path] \in stray
        BY DEF OneEach
      <4>0. i \in Nat /\ j \in Nat /\ cur \in Nat
        BY <2>1, <3>3
      <4>1. PICK p \in DOMAIN list : rest[i] = list[p] /\ p = (IF i < cur THEN i ELSE i + 1)
        BY <2>1, <3>6, <4>0
      <4>2. PICK q \in DOMAIN list : rest[j] = list[q] /\ q = (IF j < cur THEN j ELSE j + 1)
        BY <2>1, <3>6, <4>0
      <4>3. p # q
        BY <4>0, <4>1, <4>2
      <4> QED
        BY <1>2, <4>1, <4>2, <4>3 DEF OneEach
    <3>8. InStep(rest, stray)
      BY <1>2, <3>6 DEF InStep
    <3> QED
      BY <2>2, <3>2, <3>5, <3>7, <3>8, RepaintKeeps
  <2> QED
    BY <1>2, <2>1, <2>3, <2>4
<1> QED
  BY <1>3, <1>4 DEF DeleteBuffer, ForceDelete

\* Quitting, and starting to write.
LEMMA CommandStep ==
  ASSUME Inv,
         \/ Quit \/ ForceQuit \/ WriteAll \/ WriteQuit
         \/ \E n \in Names \cup {NoName} : Write(n)
  PROVE  Inv'
<1>1. Prompting /\ mode.name = "Command"
  BY DEF Quit, ForceQuit, WriteAll, WriteQuit, Write, Accepting, Prompting
<1>2. /\ list \in Seq(Buffers) /\ cur \in DOMAIN list
      /\ DOMAIN list = 1 .. Len(list) /\ Len(list) \in Nat
  BY <1>1, AtKeyboard
<1>3. CASE Quit \/ ForceQuit
  BY <1>1, <1>3, BecomeKeeps DEF Quit, ForceQuit, Become
<1>4. ASSUME NEW n \in Names \cup {NoName}, Write(n) PROVE Inv'
  <2> DEFINE to == IF n # NoName THEN n ELSE list[cur].path
  <2>0. list[cur] \in Buffers
    BY <1>2
  <2>1. to \in Names \cup {NoName}
    BY <2>0 DEF Buffers
  <2>2. \/ Become(Normal)
        \/ to # NoName /\ Become(Writing(cur, to, FALSE, FALSE, FALSE))
    BY <1>4 DEF Write
  <2> HIDE DEF to
  <2> QED
    BY <1>1, <1>2, <2>1, <2>2, BecomeKeeps DEF Become
<1>5. ASSUME NEW quit \in BOOLEAN, GoOn(1, quit), UNCHANGED << list, cur, disk, stray >> PROVE Inv'
  <2>1. PICK j \in 1 .. Len(list) + 1 :
          /\ \A k \in 1 .. j - 1 : ~HasFile(list[k])
          /\ \/ j > Len(list) /\ mode' = IF quit THEN Quitting(FALSE) ELSE Normal
             \/ /\ j <= Len(list) /\ HasFile(list[j])
                /\ mode' = Writing(j, list[j].path, FALSE, TRUE, quit)
    BY <1>5 DEF GoOn
  <2>2. CASE j > Len(list) /\ mode' = IF quit THEN Quitting(FALSE) ELSE Normal
    <3>1. Unsaved = {}
      BY <1>2, <2>1, <2>2 DEF Unsaved
    <3>2. mode' = Quitting(FALSE) \/ mode' = Normal
      BY <2>2
    <3> QED
      BY <1>1, <1>5, <3>1, <3>2, BecomeKeeps
  <2>3. CASE j <= Len(list) /\ HasFile(list[j]) /\ mode' = Writing(j, list[j].path, FALSE, TRUE, quit)
    <3>1. j \in DOMAIN list /\ list[j] \in Buffers
      BY <1>2, <2>1, <2>3
    <3>2. list[j].path \in Names
      BY <2>3, <3>1 DEF HasFile, Buffers
    <3> QED
      BY <1>1, <1>5, <2>1, <2>3, <3>1, <3>2, BecomeKeeps
  <2> QED
    BY <2>1, <2>2, <2>3
<1> QED
  BY <1>3, <1>4, <1>5 DEF WriteAll, WriteQuit
-----------------------------------------------------------------------------
(* The disk.                                                               *)

\* The file and the buffer of a write under way.
LEMMA WhileWriting ==
  ASSUME Inv, IsWriting
  PROVE  /\ list \in Seq(Buffers) /\ DOMAIN list = 1 .. Len(list) /\ Len(list) \in Nat
         /\ mode.at \in 1 .. Len(list) /\ list[mode.at] \in Buffers
         /\ mode.to \in Names /\ mode.to # NoName /\ Canon[mode.to] \in Files
         /\ mode.open \in BOOLEAN /\ mode.all \in BOOLEAN /\ mode.quit \in BOOLEAN
         /\ mode = Writing(mode.at, mode.to, mode.open, mode.all, mode.quit)
         /\ disk \in [Files -> Seq(Bytes) \cup {Absent}]
<1>1. /\ mode.at \in DOMAIN list /\ mode.to \in Names
      /\ {mode.open, mode.all, mode.quit} \subseteq BOOLEAN
      /\ mode = Writing(mode.at, mode.to, mode.open, mode.all, mode.quit)
  BY ModeNames DEF Inv, TypeOK, Prompting, IsWriting
<1>2. list \in Seq(Buffers) /\ disk \in [Files -> Seq(Bytes) \cup {Absent}]
  BY DEF Inv, TypeOK
<1>3. mode.open \in BOOLEAN /\ mode.all \in BOOLEAN /\ mode.quit \in BOOLEAN
  BY <1>1
<1> QED
  BY <1>1, <1>2, <1>3, CollectionAssumption

\* Each buffer has a path, and the file of a buffer is a file.
LEMMA FileOfBuffer ==
  ASSUME NEW b \in Buffers, HasFile(b)
  PROVE  b.path \in Names /\ Canon[b.path] \in Files
  BY CollectionAssumption DEF Buffers, HasFile

\* A file changes behind the buffers: it is enough that it joins the strays if
\* a clean buffer holds it.
LEMMA BehindTheBuffers ==
  ASSUME Inv, NEW f \in Files, NEW contents \in Seq(Bytes) \cup {Absent},
         disk' = [disk EXCEPT ![f] = contents], UNCHANGED << list, cur >>,
         stray' = stray \cup StrayIf(\E i \in Holders(f) : ~list[i].dirty, f)
  PROVE  /\ disk' \in [Files -> Seq(Bytes) \cup {Absent}] /\ stray' \subseteq Files
         /\ OneBufferPerFile'
         /\ InFlight \subseteq InFlight' \cup {f} => FollowsFile'
<1>1. /\ list \in Seq(Buffers) /\ disk \in [Files -> Seq(Bytes) \cup {Absent}]
      /\ stray \subseteq Files
  BY DEF Inv, TypeOK
<1>2. stray \subseteq stray' /\ stray' \subseteq Files
  BY <1>1 DEF StrayIf
<1>3. ASSUME NEW i \in DOMAIN list, HasFile(list[i]), ~list[i].dirty, Canon[list[i].path] = f
      PROVE  f \in stray'
  BY <1>3 DEF StrayIf, Holders, HoldsFile
<1>4. OneBufferPerFile'
  BY <1>2 DEF Inv, OneBufferPerFile
<1>5. ASSUME InFlight \subseteq InFlight' \cup {f} PROVE FollowsFile'
  <2> SUFFICES ASSUME NEW i \in DOMAIN list, HasFile(list[i]), ~list[i].dirty,
                      Canon[list[i].path] \notin stray', Canon[list[i].path] \notin InFlight'
               PROVE  /\ disk'[Canon[list[i].path]] # Absent
                      /\ Begins(list[i].data, disk'[Canon[list[i].path]])
    BY DEF FollowsFile, Exists
  <2> DEFINE g == Canon[list[i].path]
  <2>1. g # f
    BY <1>3
  <2>2. g \notin stray \cup InFlight
    BY <1>2, <1>5, <2>1
  <2>3. disk[g] # Absent /\ Begins(list[i].data, disk[g])
    BY <2>2 DEF Inv, FollowsFile, Exists
  <2>4. g \in Files
    BY <1>1, FileOfBuffer
  <2>5. disk'[g] = disk[g]
    BY <1>1, <2>1, <2>4
  <2> QED
    BY <2>3, <2>5
<1> QED
  BY <1>1, <1>2, <1>4, <1>5

\* Another program removes a file.
LEMMA RemoveStep ==
  ASSUME Inv, NEW f \in Shared, Remove(f)
  PROVE  Inv'
<1>1. /\ f \in Files /\ disk' = [disk EXCEPT ![f] = Absent] /\ UNCHANGED << list, cur, mode >>
      /\ stray' = stray \cup StrayIf(\E i \in Holders(f) : ~list[i].dirty, f)
  BY CollectionAssumption DEF Remove
<1>2. InFlight' = InFlight
  BY <1>1 DEF InFlight, IsWriting
<1>3. /\ disk' \in [Files -> Seq(Bytes) \cup {Absent}] /\ stray' \subseteq Files
      /\ OneBufferPerFile' /\ FollowsFile'
  BY <1>1, <1>2, BehindTheBuffers
<1>4. TypeOK'
  BY <1>1, <1>3 DEF Inv, TypeOK, Prompting, IsWriting
<1>5. QuitLosesNothing' /\ OwnFile'
  BY <1>1 DEF Inv, QuitLosesNothing, OwnFile, Unsaved, IsWriting
<1>6. ASSUME IsWriting, mode.all PROVE WrittenSoFar'
  <2> SUFFICES ASSUME NEW j \in 1 .. mode.at - 1, HasFile(list[j])
               PROVE  /\ ~list[j].dirty
                      /\ Canon[list[j].path] \notin stray' =>
                           disk'[Canon[list[j].path]] = list[j].data
    BY <1>1 DEF WrittenSoFar, IsWriting
  <2>1. /\ list \in Seq(Buffers) /\ DOMAIN list = 1 .. Len(list) /\ Len(list) \in Nat
        /\ mode.at \in 1 .. Len(list) /\ disk \in [Files -> Seq(Bytes) \cup {Absent}]
    BY <1>6, WhileWriting
  <2>2. j \in DOMAIN list /\ list[j] \in Buffers
    BY <2>1
  <2>3. ~list[j].dirty
        /\ (Canon[list[j].path] \notin stray => disk[Canon[list[j].path]] = list[j].data)
    BY <1>6 DEF Inv, WrittenSoFar
  <2>4. Canon[list[j].path] = f => f \in stray'
    BY <1>1, <2>2, <2>3 DEF StrayIf, Holders, HoldsFile
  <2>5. Canon[list[j].path] \in Files
    BY <2>2, FileOfBuffer
  <2> QED
    BY <1>1, <2>1, <2>3, <2>4, <2>5
<1>7. WrittenSoFar'
  BY <1>1, <1>6 DEF WrittenSoFar, IsWriting
<1> QED
  BY <1>3, <1>4, <1>5, <1>7 DEF Inv

\* The file to write is created or emptied.
LEMMA CreateStep ==
  ASSUME Inv, CreateFile
  PROVE  Inv'
<1> DEFINE f == Canon[mode.to]
<1>1. /\ IsWriting /\ mode.open = FALSE /\ disk' = [disk EXCEPT ![f] = << >>]
      /\ UNCHANGED << list, cur, stray >>
  BY WhileWriting DEF CreateFile
<1>2. /\ list \in Seq(Buffers) /\ DOMAIN list = 1 .. Len(list) /\ Len(list) \in Nat
      /\ mode.at \in 1 .. Len(list) /\ list[mode.at] \in Buffers
      /\ mode.to \in Names /\ mode.to # NoName /\ f \in Files
      /\ mode.all \in BOOLEAN /\ mode.quit \in BOOLEAN
      /\ disk \in [Files -> Seq(Bytes) \cup {Absent}]
  BY <1>1, WhileWriting
<1>4. mode' = Writing(mode.at, mode.to, TRUE, mode.all, mode.quit)
  BY DEF CreateFile
<1>5. /\ mode'.name = "Writing" /\ mode'.at = mode.at /\ mode'.to = mode.to
      /\ mode'.open = TRUE /\ mode'.all = mode.all /\ mode'.quit = mode.quit
  BY <1>4 DEF Writing
<1>6. IsWriting' /\ InFlight' = {f} /\ InFlight = {}
  BY <1>1, <1>5 DEF IsWriting, InFlight
<1>7. << >> \in Seq(Bytes)
  OBVIOUS
<1>8. disk' \in [Files -> Seq(Bytes) \cup {Absent}] /\ \A g \in Files \ {f} : disk'[g] = disk[g]
  BY <1>1, <1>2, <1>7
<1>9. TypeOK'
  BY <1>1, <1>2, <1>4, <1>5, <1>6, <1>8 DEF Inv, TypeOK
<1>10. mode' # Quitting(FALSE)
  BY <1>5, ModeNames
<1>11. QuitLosesNothing' /\ OwnFile' /\ OneBufferPerFile'
  BY <1>1, <1>5, <1>10 DEF Inv, QuitLosesNothing, OwnFile, OneBufferPerFile
<1>12. FollowsFile'
  <2> SUFFICES ASSUME NEW i \in DOMAIN list, HasFile(list[i]), ~list[i].dirty,
                      Canon[list[i].path] \notin stray, Canon[list[i].path] # f
               PROVE  /\ disk'[Canon[list[i].path]] # Absent
                      /\ Begins(list[i].data, disk'[Canon[list[i].path]])
    BY <1>1, <1>6 DEF FollowsFile, Exists
  <2>1. Canon[list[i].path] \in Files
    BY <1>2, FileOfBuffer
  <2> QED
    BY <1>6, <1>8, <2>1 DEF Inv, FollowsFile, Exists
<1>13. WrittenSoFar'
  <2> SUFFICES ASSUME mode.all, NEW j \in 1 .. mode.at - 1, HasFile(list[j])
               PROVE  /\ ~list[j].dirty
                      /\ Canon[list[j].path] \notin stray =>
                           disk'[Canon[list[j].path]] = list[j].data
    BY <1>1, <1>5 DEF WrittenSoFar
  <2>1. j \in DOMAIN list /\ list[j] \in Buffers /\ j # mode.at /\ mode.at \in DOMAIN list
    BY <1>2
  <2>2. ~list[j].dirty
        /\ (Canon[list[j].path] \notin stray => disk[Canon[list[j].path]] = list[j].data)
    BY <1>1 DEF Inv, WrittenSoFar
  <2>3. list[mode.at].path = mode.to /\ HasFile(list[mode.at])
    BY <1>1, <1>2 DEF Inv, OwnFile, HasFile
  <2>4. Canon[list[j].path] = f => Canon[list[j].path] \in stray
    BY <2>1, <2>3 DEF Inv, OneBufferPerFile
  <2>5. Canon[list[j].path] \in Files
    BY <2>1, FileOfBuffer
  <2> QED
    BY <1>8, <2>2, <2>4, <2>5
<1> QED
  BY <1>9, <1>11, <1>12, <1>13 DEF Inv

\* A write fails, before the file is open or with a part of the bytes in it.
LEMMA FailStep ==
  ASSUME Inv, WriteFails
  PROVE  Inv'
<1> DEFINE f == Canon[mode.to]
           data == list[mode.at].data
<1>1. IsWriting /\ mode' = Normal /\ UNCHANGED << list, cur >>
  BY DEF WriteFails
<1>2. /\ list \in Seq(Buffers) /\ mode.at \in 1 .. Len(list) /\ list[mode.at] \in Buffers
      /\ f \in Files /\ mode.open \in BOOLEAN
      /\ disk \in [Files -> Seq(Bytes) \cup {Absent}]
  BY <1>1, WhileWriting
<1>3. mode'.name = "Normal" /\ InFlight' = {} /\ mode' # Quitting(FALSE)
  BY <1>1, ModeNames DEF InFlight, IsWriting
<1>4. QuitLosesNothing' /\ WrittenSoFar' /\ OwnFile'
  BY <1>3 DEF QuitLosesNothing, WrittenSoFar, OwnFile, IsWriting
<1>5. ASSUME disk' \in [Files -> Seq(Bytes) \cup {Absent}], stray' \subseteq Files PROVE TypeOK'
  BY <1>1, <1>5 DEF Inv, TypeOK
<1>6. CASE ~mode.open /\ UNCHANGED << disk, stray >>
  <2>1. InFlight = {}
    BY <1>6 DEF InFlight
  <2>2. OneBufferPerFile' /\ FollowsFile'
    BY <1>1, <1>3, <1>6, <2>1 DEF Inv, OneBufferPerFile, FollowsFile, Exists
  <2>3. TypeOK'
    BY <1>5, <1>6 DEF Inv, TypeOK
  <2> QED
    BY <1>4, <2>2, <2>3 DEF Inv
<1>7. ASSUME NEW k \in 0 .. Len(data) - 1, disk' = Filled(f, SubSeq(data, 1, k)), mode.open,
             stray' = stray \cup StrayIf(\E i \in Holders(f) : ~list[i].dirty, f)
      PROVE  Inv'
  <2>1. data \in Seq(Bytes)
    BY <1>2 DEF Buffers
  <2>2. \A i \in 1 .. k : data[i] \in Bytes
    BY <2>1
  <2>3. SubSeq(data, 1, k) \in Seq(Bytes)
    BY <2>1, <2>2, SubSeqProperties
  <2>4. PICK contents \in Seq(Bytes) \cup {Absent} : disk' = [disk EXCEPT ![f] = contents]
    <3>1. CASE disk[f] = Absent
      <4>1. disk = [disk EXCEPT ![f] = Absent]
        BY <1>2, <3>1
      <4> QED
        BY <1>7, <3>1, <4>1 DEF Filled
    <3>2. CASE disk[f] # Absent
      BY <1>7, <2>3, <3>2 DEF Filled
    <3> QED
      BY <3>1, <3>2
  <2>5. InFlight = {f}
    BY <1>1, <1>7 DEF InFlight
  <2>6. /\ disk' \in [Files -> Seq(Bytes) \cup {Absent}] /\ stray' \subseteq Files
        /\ OneBufferPerFile' /\ FollowsFile'
    BY <1>1, <1>2, <1>7, <2>4, <2>5, BehindTheBuffers
  <2> QED
    BY <1>4, <1>5, <2>6 DEF Inv
<1> QED
  BY <1>6, <1>7 DEF WriteFails

\* The loop of :wa and :wq goes on with a buffer that has a file and lies behind
\* buffers that have none, or ends when no other is left.
LEMMA LoopFacts ==
  ASSUME Inv, IsWriting, GoOn(mode.at + 1, mode.quit)
  PROVE  \/ /\ mode' \in {Quitting(FALSE), Normal}
            /\ \A k \in mode.at + 1 .. Len(list) : ~HasFile(list[k])
         \/ \E j \in mode.at + 1 .. Len(list) :
              /\ HasFile(list[j]) /\ \A k \in mode.at + 1 .. j - 1 : ~HasFile(list[k])
              /\ mode' = Writing(j, list[j].path, FALSE, TRUE, mode.quit)
<1>1. mode.at \in 1 .. Len(list) /\ Len(list) \in Nat
  BY WhileWriting
<1>2. PICK j \in mode.at + 1 .. Len(list) + 1 :
        /\ \A k \in mode.at + 1 .. j - 1 : ~HasFile(list[k])
        /\ \/ j > Len(list) /\ mode' = IF mode.quit THEN Quitting(FALSE) ELSE Normal
           \/ /\ j <= Len(list) /\ HasFile(list[j])
              /\ mode' = Writing(j, list[j].path, FALSE, TRUE, mode.quit)
  BY DEF GoOn
<1>3. CASE j > Len(list) /\ mode' = IF mode.quit THEN Quitting(FALSE) ELSE Normal
  <2>1. \A k \in mode.at + 1 .. Len(list) : ~HasFile(list[k])
    BY <1>1, <1>2, <1>3
  <2>2. mode' \in {Quitting(FALSE), Normal}
    BY <1>3
  <2> QED
    BY <2>1, <2>2
<1>4. CASE /\ j <= Len(list) /\ HasFile(list[j])
           /\ mode' = Writing(j, list[j].path, FALSE, TRUE, mode.quit)
  <2>1. j \in mode.at + 1 .. Len(list)
    BY <1>1, <1>2, <1>4
  <2> QED
    BY <1>2, <1>4, <2>1
<1> QED
  BY <1>2, <1>3, <1>4

\* What filling the file does to the buffers, the disk and the strays.
LEMMA FillFacts ==
  ASSUME Inv, FillFile
  PROVE  LET f == Canon[mode.to]
             b == list[mode.at]
             p == IF b.path = NoName THEN mode.to ELSE b.path
         IN /\ IsWriting /\ mode.open /\ cur' = cur
            /\ list' \in Seq(Buffers) /\ DOMAIN list' = 1 .. Len(list)
            /\ \A j \in 1 .. Len(list) : j # mode.at => list'[j] = list[j]
            /\ list'[mode.at].path = p /\ p \in Names
            /\ list'[mode.at].data = b.data /\ list'[mode.at].dirty = FALSE
            /\ disk' \in [Files -> Seq(Bytes) \cup {Absent}]
            /\ \A g \in Files \ {f} : disk'[g] = disk[g]
            /\ stray' \subseteq Files /\ stray \ {f} \subseteq stray'
            /\ f \notin stray' => disk'[f] = b.data
            /\ \A j \in 1 .. Len(list) : j # mode.at /\ HoldsFile(list[j], f) => f \in stray'
            /\ HasFile(b) /\ b.dirty /\ Canon[p] # f => Canon[p] \in stray'
<1> DEFINE f == Canon[mode.to]
           b == list[mode.at]
           p == IF b.path = NoName THEN mode.to ELSE b.path
           c == [b EXCEPT !.dirty = FALSE, !.path = p]
           others == Holders(f) \ {mode.at}
<1>1. IsWriting /\ mode.open /\ cur' = cur
  BY DEF FillFile
<1>2. /\ list \in Seq(Buffers) /\ DOMAIN list = 1 .. Len(list) /\ Len(list) \in Nat
      /\ mode.at \in 1 .. Len(list) /\ b \in Buffers
      /\ mode.to \in Names /\ f \in Files
      /\ disk \in [Files -> Seq(Bytes) \cup {Absent}]
  BY <1>1, WhileWriting
<1>3. p \in Names /\ b.data \in Seq(Bytes)
  BY <1>2 DEF Buffers
<1>4. /\ c \in Buffers /\ c.path = p /\ c.data = b.data /\ c.dirty = FALSE
  BY <1>2, <1>3 DEF Buffers
<1>5. list' = [list EXCEPT ![mode.at] = c]
  <2>1. list' = [list EXCEPT ![mode.at].dirty = FALSE,
                             ![mode.at].path = IF @ = NoName THEN mode.to ELSE @]
    BY DEF FillFile
  <2> QED
    BY <1>2, <2>1
<1>6. /\ disk' = Filled(f, b.data)
      /\ stray' = (stray \ {f})
                    \cup StrayIf(others # {} \/ disk[f] = Absent, f)
                    \cup (IF HasFile(b) THEN StrayIf(b.dirty /\ Canon[b.path] # f, Canon[b.path])
                          ELSE {})
  BY DEF FillFile
<1> HIDE DEF c
<1>7. /\ list' \in Seq(Buffers) /\ Len(list') = Len(list)
      /\ \A j \in 1 .. Len(list) : list'[j] = IF j = mode.at THEN c ELSE list[j]
  BY <1>2, <1>4, <1>5, ExceptSeq
<1>8. DOMAIN list' = 1 .. Len(list)
  BY <1>7
<1>9. /\ disk' \in [Files -> Seq(Bytes) \cup {Absent}]
      /\ \A g \in Files \ {f} : disk'[g] = disk[g]
      /\ disk[f] # Absent => disk'[f] = b.data
  BY <1>2, <1>3, <1>6 DEF Filled
<1>10. stray \ {f} \subseteq stray'
  BY <1>6
<1>11. HasFile(b) => Canon[b.path] \in Files
  BY <1>2, FileOfBuffer
<1>12. stray' \subseteq Files
  BY <1>2, <1>6, <1>11 DEF StrayIf, Inv, TypeOK
<1>13. others # {} \/ disk[f] = Absent => f \in stray'
  BY <1>6 DEF StrayIf
<1>14. ASSUME NEW j \in 1 .. Len(list), j # mode.at, HoldsFile(list[j], f) PROVE f \in stray'
  BY <1>2, <1>13, <1>14 DEF Holders
<1>15. HasFile(b) /\ b.dirty /\ Canon[p] # f => Canon[p] \in stray'
  <2>1. HasFile(b) => p = b.path
    BY DEF HasFile
  <2> QED
    BY <1>6, <2>1 DEF StrayIf
<1> QED
  BY <1>1, <1>2, <1>3, <1>4, <1>7, <1>8, <1>9, <1>10, <1>12, <1>13, <1>14, <1>15

\* The file is filled; the loop, if there is one, goes on.
LEMMA FillStep ==
  ASSUME Inv, FillFile
  PROVE  Inv'
<1> DEFINE f == Canon[mode.to]
           b == list[mode.at]
           p == IF b.path = NoName THEN mode.to ELSE b.path
<1>1. /\ IsWriting /\ mode.open /\ cur' = cur
      /\ list' \in Seq(Buffers) /\ DOMAIN list' = 1 .. Len(list)
      /\ \A j \in 1 .. Len(list) : j # mode.at => list'[j] = list[j]
      /\ list'[mode.at].path = p /\ p \in Names
      /\ list'[mode.at].data = b.data /\ list'[mode.at].dirty = FALSE
  BY FillFacts
<1>2. /\ disk' \in [Files -> Seq(Bytes) \cup {Absent}]
      /\ \A g \in Files \ {f} : disk'[g] = disk[g]
      /\ stray' \subseteq Files /\ stray \ {f} \subseteq stray'
      /\ f \notin stray' => disk'[f] = b.data
      /\ \A j \in 1 .. Len(list) : j # mode.at /\ HoldsFile(list[j], f) => f \in stray'
      /\ HasFile(b) /\ b.dirty /\ Canon[p] # f => Canon[p] \in stray'
  BY FillFacts
<1>3. /\ list \in Seq(Buffers) /\ DOMAIN list = 1 .. Len(list) /\ Len(list) \in Nat
      /\ mode.at \in 1 .. Len(list) /\ b \in Buffers /\ b.data \in Seq(Bytes)
      /\ mode.to \in Names /\ mode.to # NoName /\ f \in Files
      /\ mode.all \in BOOLEAN /\ mode.quit \in BOOLEAN
      /\ disk \in [Files -> Seq(Bytes) \cup {Absent}]
  BY <1>1, WhileWriting DEF Buffers
<1>4. HasFile(b) => p = b.path
  BY DEF HasFile
<1>5. ~HasFile(b) => p = mode.to
  BY DEF HasFile
<1> HIDE DEF p
<1>6. \A j \in 1 .. Len(list) : HasFile(list[j]) => Canon[list[j].path] \in Files
  BY <1>3, FileOfBuffer
\* Every file but f that was stray still is, and f is if another buffer holds it.
<1>7. ASSUME NEW j \in 1 .. Len(list), j # mode.at, HasFile(list[j]),
             Canon[list[j].path] \notin stray'
      PROVE  /\ Canon[list[j].path] # f /\ Canon[list[j].path] \notin stray
             /\ disk'[Canon[list[j].path]] = disk[Canon[list[j].path]]
  BY <1>2, <1>6, <1>7 DEF HoldsFile
<1>8. OneBufferPerFile'
  <2> SUFFICES ASSUME NEW i \in 1 .. Len(list), NEW j \in 1 .. Len(list), i # j,
                      HasFile(list'[i]), HasFile(list'[j]),
                      Canon[list'[i].path] = Canon[list'[j].path],
                      Canon[list'[i].path] \notin stray'
               PROVE  FALSE
    BY <1>1 DEF OneBufferPerFile
  <2>1. CASE i # mode.at /\ j # mode.at
    BY <1>1, <1>3, <1>7, <2>1 DEF Inv, OneBufferPerFile
  <2>2. ASSUME NEW k \in 1 .. Len(list), k # mode.at, HasFile(list[k]),
               Canon[list[k].path] = Canon[p], Canon[list[k].path] \notin stray'
        PROVE  FALSE
    <3>1. Canon[p] # f /\ Canon[p] \notin stray
      BY <1>7, <2>2
    <3>2. HasFile(b) /\ p = b.path
      BY <1>4, <1>5, <3>1
    <3> QED
      BY <1>3, <2>2, <3>1, <3>2 DEF Inv, OneBufferPerFile
  <2>3. CASE i = mode.at
    BY <1>1, <2>2, <2>3
  <2>4. CASE j = mode.at
    BY <1>1, <2>2, <2>4
  <2> QED
    BY <2>1, <2>3, <2>4
<1>9. ASSUME NEW i \in 1 .. Len(list), HasFile(list'[i]), ~list'[i].dirty,
             Canon[list'[i].path] \notin stray'
      PROVE  /\ disk'[Canon[list'[i].path]] # Absent
             /\ Begins(list'[i].data, disk'[Canon[list'[i].path]])
  <2>1. InFlight = {f}
    BY <1>1 DEF InFlight
  <2>2. CASE i # mode.at
    <3>1. list'[i] = list[i]
      BY <1>1, <2>2
    <3>2. /\ Canon[list[i].path] \notin stray \cup InFlight
          /\ disk'[Canon[list[i].path]] = disk[Canon[list[i].path]]
      BY <1>7, <1>9, <2>1, <2>2, <3>1
    <3> QED
      BY <1>3, <1>9, <3>1, <3>2 DEF Inv, FollowsFile, Exists
  <2>3. CASE i = mode.at /\ Canon[p] = f
    <3>1. disk'[f] = b.data /\ Canon[list'[i].path] = f /\ list'[i].data = b.data
      BY <1>1, <1>2, <1>9, <2>3
    <3>2. b.data # Absent /\ Begins(b.data, b.data)
      BY <1>3, CollectionAssumption DEF Begins
    <3> QED
      BY <3>1, <3>2
  <2>4. CASE i = mode.at /\ Canon[p] # f
    <3>1. HasFile(b) /\ p = b.path
      BY <1>4, <1>5, <2>4
    <3>2. Canon[p] \notin stray' /\ ~b.dirty
      BY <1>1, <1>2, <1>9, <2>4, <3>1
    <3>3. Canon[p] \in Files /\ Canon[p] \notin stray \cup InFlight
      BY <1>2, <1>3, <1>6, <2>1, <2>4, <3>1, <3>2
    <3>4. disk[Canon[p]] # Absent /\ Begins(b.data, disk[Canon[p]])
      BY <1>3, <3>1, <3>2, <3>3 DEF Inv, FollowsFile, Exists
    <3> QED
      BY <1>1, <1>2, <2>4, <3>3, <3>4
  <2> QED
    BY <2>2, <2>3, <2>4
<1>10. ASSUME InFlight' = {} PROVE FollowsFile'
  BY <1>1, <1>9, <1>10 DEF FollowsFile, Exists
\* The buffers the loop has passed, the one just written among them.
<1>11. ASSUME mode.all, NEW j \in 1 .. mode.at, HasFile(list'[j])
       PROVE  /\ ~list'[j].dirty
              /\ Canon[list'[j].path] \notin stray' => disk'[Canon[list'[j].path]] = list'[j].data
  <2>1. CASE j # mode.at
    <3>1. j \in 1 .. mode.at - 1 /\ j \in 1 .. Len(list) /\ list'[j] = list[j]
      BY <1>1, <1>3, <2>1
    <3> QED
      BY <1>1, <1>7, <1>11, <2>1, <3>1 DEF Inv, WrittenSoFar
  <2>2. CASE j = mode.at
    <3>1. b.path = mode.to /\ p = mode.to
      BY <1>1, <1>3, <1>4, <1>11 DEF Inv, OwnFile, HasFile
    <3> QED
      BY <1>1, <1>2, <2>2, <3>1
  <2> QED
    BY <2>1, <2>2
<1>12. CASE mode' \in {Normal, Quitting(FALSE)}
            /\ (mode' = Quitting(FALSE) =>
                  mode.all /\ \A k \in mode.at + 1 .. Len(list) : ~HasFile(list[k]))
  <2>1. mode'.name \in {"Normal", "Quitting"}
    BY <1>12, ModeNames
  <2>2. InFlight' = {} /\ WrittenSoFar' /\ OwnFile'
    BY <2>1 DEF InFlight, WrittenSoFar, OwnFile, IsWriting
  <2>3. TypeOK'
    BY <1>1, <1>2, <1>3, <1>12 DEF Inv, TypeOK
  <2>4. QuitLosesNothing'
    <3> SUFFICES ASSUME mode' = Quitting(FALSE), NEW i \in 1 .. Len(list), HasFile(list'[i])
                 PROVE  ~list'[i].dirty
      BY <1>1 DEF QuitLosesNothing, Unsaved
    <3>1. i \in 1 .. mode.at \/ i \in mode.at + 1 .. Len(list)
      BY <1>3
    <3>2. CASE i \in 1 .. mode.at
      BY <1>11, <1>12, <3>2
    <3>3. CASE i \in mode.at + 1 .. Len(list)
      BY <1>1, <1>3, <1>12, <3>3
    <3> QED
      BY <3>1, <3>2, <3>3
  <2> QED
    BY <1>8, <1>10, <2>2, <2>3, <2>4 DEF Inv
<1>13. ASSUME mode.all, NEW j \in mode.at + 1 .. Len(list), HasFile(list[j]),
              \A k \in mode.at + 1 .. j - 1 : ~HasFile(list[k]),
              mode' = Writing(j, list[j].path, FALSE, TRUE, mode.quit)
       PROVE  Inv'
  <2>1. /\ mode'.name = "Writing" /\ mode'.at = j /\ mode'.to = list[j].path
        /\ mode'.open = FALSE /\ mode'.all = TRUE /\ mode'.quit = mode.quit
    BY <1>13 DEF Writing
  <2>2. j \in 1 .. Len(list) /\ j # mode.at /\ list[j] \in Buffers
    BY <1>3
  <2>3. list[j].path \in Names /\ list'[j] = list[j]
    BY <1>1, <1>13, <2>2, FileOfBuffer
  <2>4. TypeOK'
    BY <1>1, <1>2, <1>3, <1>13, <2>1, <2>2, <2>3 DEF Inv, TypeOK, IsWriting
  <2>5. mode' # Quitting(FALSE)
    BY <2>1, ModeNames
  <2>6. InFlight' = {} /\ OwnFile' /\ QuitLosesNothing'
    BY <2>1, <2>3, <2>5 DEF InFlight, OwnFile, QuitLosesNothing
  <2>7. WrittenSoFar'
    <3> SUFFICES ASSUME NEW i \in 1 .. j - 1, HasFile(list'[i])
                 PROVE  /\ ~list'[i].dirty
                        /\ Canon[list'[i].path] \notin stray' =>
                             disk'[Canon[list'[i].path]] = list'[i].data
      BY <2>1 DEF WrittenSoFar
    <3>1. i \in 1 .. mode.at \/ i \in mode.at + 1 .. j - 1
      BY <1>3
    <3>2. CASE i \in 1 .. mode.at
      BY <1>11, <1>13, <3>2
    <3>3. CASE i \in mode.at + 1 .. j - 1
      <4>1. i \in 1 .. Len(list) /\ i # mode.at
        BY <1>3, <3>3
      <4> QED
        BY <1>1, <1>13, <3>3, <4>1
    <3> QED
      BY <3>1, <3>2, <3>3
  <2> QED
    BY <1>8, <1>10, <2>4, <2>6, <2>7 DEF Inv
<1>14. CASE mode.all /\ GoOn(mode.at + 1, mode.quit)
  BY <1>1, <1>12, <1>13, <1>14, LoopFacts
<1>15. CASE mode' = Normal
  BY <1>12, <1>15, ModeNames
<1> QED
  BY <1>14, <1>15 DEF FillFile
-----------------------------------------------------------------------------
(* The theorems.                                                           *)

\* The program starts with one buffer, the first chunk of its file or none.
LEMMA InitInv == Init => Inv
<1> SUFFICES ASSUME Init PROVE Inv
  OBVIOUS
<1>1. /\ disk \in [Files -> Seq(Bytes) \cup {Absent}]
      /\ cur = 1 /\ mode = Normal /\ stray = {}
  <2>1. /\ disk \in [Files -> UNION {Stored[f] : f \in Files}]
        /\ \A f \in Files : disk[f] \in Stored[f]
    BY DEF Init
  <2>2. \A f \in Files : Stored[f] \subseteq Seq(Bytes) \cup {Absent}
    BY CollectionAssumption
  <2>3. \A f \in Files : disk[f] \in Seq(Bytes) \cup {Absent}
    BY <2>1, <2>2
  <2> QED
    BY <2>1, <2>3 DEF Init
<1>2. mode.name = "Normal" /\ mode # Quitting(FALSE) /\ InFlight = {}
  BY <1>1, ModeNames DEF InFlight, IsWriting
<1>3. PICK n \in Names \cup {NoName} :
        /\ n \in Names => Exists(n)
        /\ list = << IF n \in Names THEN LoadNextChunk(FromDataAndPath(<< >>, n)) ELSE Scratch >>
  BY DEF Init
<1> DEFINE b == IF n \in Names THEN LoadNextChunk(FromDataAndPath(<< >>, n)) ELSE Scratch
<1>4. /\ b \in Buffers
      /\ HasFile(b) => Exists(b.path) /\ Begins(b.data, disk[Canon[b.path]])
  <2>1. CASE n \in Names
    <3> DEFINE e == FromDataAndPath(<< >>, n)
    <3>1. e \in Buffers /\ e.path = n /\ e.data = << >>
      BY <2>1 DEF FromDataAndPath, Buffers
    <3>2. disk[Canon[n]] \in Seq(Bytes)
      BY <1>1, <1>3, <2>1, CollectionAssumption DEF Exists
    <3>3. Begins(<< >>, disk[Canon[n]])
      BY <3>2 DEF Begins
    <3> HIDE DEF e
    <3>4. /\ LoadNextChunk(e) \in Buffers /\ LoadNextChunk(e).path = n
          /\ Begins(LoadNextChunk(e).data, disk[Canon[n]])
      BY <3>1, <3>2, <3>3, LoadFacts
    <3>5. b = LoadNextChunk(e)
      BY <2>1 DEF e
    <3> QED
      BY <1>3, <2>1, <3>4, <3>5
  <2>2. CASE n \notin Names
    <3>1. b = Scratch
      BY <2>2
    <3>2. Scratch \in Buffers /\ Scratch.path = NoName
      BY DEF Scratch, FromDataAndPath, Buffers
    <3> QED
      BY <3>1, <3>2 DEF HasFile
  <2> QED
    BY <2>1, <2>2
<1>5. list = << b >>
  BY <1>3
<1> HIDE DEF b
<1>6. list \in Seq(Buffers) /\ DOMAIN list = {1} /\ list[1] = b
  BY <1>4, <1>5
<1>7. TypeOK
  BY <1>1, <1>6 DEF TypeOK
<1>8. QuitLosesNothing /\ WrittenSoFar /\ OwnFile
  BY <1>2 DEF QuitLosesNothing, WrittenSoFar, OwnFile, IsWriting
<1>9. OneBufferPerFile /\ FollowsFile
  BY <1>4, <1>6 DEF OneBufferPerFile, FollowsFile
<1> QED
  BY <1>7, <1>8, <1>9 DEF Inv

\* Every step of the user, the program and other programs keeps the invariant.
LEMMA NextInv == Inv /\ [Next]_vars => Inv'
<1> SUFFICES ASSUME Inv, [Next]_vars PROVE Inv'
  OBVIOUS
<1>1. CASE UNCHANGED vars
  BY <1>1 DEF vars, Inv, TypeOK, QuitLosesNothing, WrittenSoFar, OneBufferPerFile, FollowsFile,
              OwnFile, InFlight, IsWriting, Prompting, Exists, Unsaved
<1>2. CASE Change \/ Look
  BY <1>2, ChangeStep
<1>3. ASSUME NEW f \in Shared, Remove(f) PROVE Inv'
  BY <1>3, RemoveStep
<1>4. CASE OpenPrompt \/ TypeChar \/ EraseLast \/ EraseThis \/ MoveCursor \/ Cancel
  BY <1>4, PromptStep
<1>5. CASE \/ Quit \/ ForceQuit \/ WriteAll \/ WriteQuit
           \/ \E n \in Names \cup {NoName} : Write(n)
  BY <1>5, CommandStep
<1>6. CASE CreateFile
  BY <1>6, CreateStep
<1>7. CASE FillFile
  BY <1>7, FillStep
<1>8. CASE WriteFails
  BY <1>8, FailStep
<1>9. ASSUME NEW n \in Names, Edit(n) PROVE Inv'
  BY <1>9, EditStep
<1>10. CASE DeleteBuffer \/ ForceDelete
  BY <1>10, CloseStep
<1> QED
  BY <1>1, <1>2, <1>3, <1>4, <1>5, <1>6, <1>7, <1>8, <1>9, <1>10 DEF Next

\* The invariant holds throughout.
LEMMA Invariance == Spec => []Inv
  BY InitInv, NextInv, PTL DEF Spec

\* Type correctness; the current buffer is always one of the list.
THEOREM TypeCorrect == Spec => []TypeOK
<1>1. Inv => TypeOK
  BY DEF Inv
<1> QED
  BY <1>1, Invariance, PTL

\* :q and :wq end the program only when every buffer with a file is clean.
THEOREM NothingLostByQuitting == Spec => []QuitLosesNothing
<1>1. Inv => QuitLosesNothing
  BY DEF Inv
<1> QED
  BY <1>1, Invariance, PTL

\* At every point of :wa and :wq what the loop has passed is clean and on disk.
THEOREM LoopLeavesWritten == Spec => []WrittenSoFar
<1>1. Inv => WrittenSoFar
  BY DEF Inv
<1> QED
  BY <1>1, Invariance, PTL

\* A clean buffer holds what its file begins with, unless another program or
\* another buffer has changed the file, or a write under way or failed has.
THEOREM CleanFollowsFile == Spec => []FollowsFile
<1>1. Inv => FollowsFile
  BY DEF Inv
<1> QED
  BY <1>1, Invariance, PTL

\* No file is open twice unless :w has made it so.
THEOREM OpenOnce == Spec => []OneBufferPerFile
<1>1. Inv => OneBufferPerFile
  BY DEF Inv
<1> QED
  BY <1>1, Invariance, PTL
-----------------------------------------------------------------------------
(* What a step may not do.                                                 *)

\* Every unsaved buffer goes on to be one, under the same path.
Kept == \A i \in Unsaved : \E j \in Unsaved' : list'[j].path = list[i].path

\* A repaint loses no unsaved buffer that is among the ones it starts from.
LEMMA RepaintLosesNothing ==
  ASSUME TypeOK, NEW l \in Seq(Buffers), NEW c \in DOMAIN l, NEW m, Repaint(l, c, m),
         \A i \in Unsaved : \E j \in DOMAIN l : l[j].dirty /\ l[j].path = list[i].path
  PROVE  Kept /\ mode' \in {m, Failed}
<1>1. /\ list' \in Seq(Buffers) /\ Len(list') = Len(l) /\ mode' \in {m, Failed}
      /\ \A i \in 1 .. Len(l) : list'[i].path = l[i].path /\ list'[i].dirty = l[i].dirty
  BY RepaintFacts
<1>2. DOMAIN l = 1 .. Len(l) /\ DOMAIN list' = 1 .. Len(l)
  BY <1>1
<1>3. ASSUME NEW i \in Unsaved PROVE \E j \in Unsaved' : list'[j].path = list[i].path
  <2>1. PICK j \in DOMAIN l : l[j].dirty /\ l[j].path = list[i].path
    OBVIOUS
  <2>2. list[i].path # NoName
    BY DEF Unsaved, HasFile
  <2>3. j \in DOMAIN list' /\ list'[j].path = list[i].path /\ list'[j].dirty = l[j].dirty
    BY <1>1, <1>2, <2>1
  <2> QED
    BY <2>1, <2>2, <2>3 DEF Unsaved, HasFile
<1> QED
  BY <1>1, <1>3 DEF Kept

\* Closing the current buffer loses no other one.
LEMMA CloseLosesNothing ==
  ASSUME Inv, Prompting, cur \notin Unsaved, DeleteCurrent
  PROVE  Kept /\ mode' \in {Normal, Failed}
<1>1. /\ list \in Seq(Buffers) /\ cur \in DOMAIN list
      /\ DOMAIN list = 1 .. Len(list) /\ Len(list) \in Nat
  BY AtKeyboard DEF Prompting
<1> DEFINE rest == [i \in 1 .. Len(list) - 1 |-> IF i < cur THEN list[i] ELSE list[i + 1]]
           l == IF rest = << >> THEN << Scratch >> ELSE rest
           c == IF cur > 1 THEN cur - 1 ELSE 1
<1>2. Repaint(l, c, Normal)
  BY DEF DeleteCurrent
<1>3. CASE Len(list) = 1
  <2>1. rest = << >>
    BY <1>3
  <2>2. l = << Scratch >> /\ c = 1
    BY <1>1, <1>3, <2>1
  <2>3. Scratch \in Buffers
    BY DEF Scratch, FromDataAndPath, Buffers
  <2> HIDE DEF l, c
  <2>4. l \in Seq(Buffers) /\ c \in DOMAIN l
    BY <2>2, <2>3
  <2>5. Unsaved = {}
    BY <1>1, <1>3 DEF Unsaved
  <2> QED
    BY <1>2, <2>4, <2>5, RepaintLosesNothing DEF Inv
<1>4. CASE Len(list) > 1
  <2>1. \A i \in 1 .. Len(list) - 1 : rest[i] \in Buffers
    BY <1>1
  <2>2. rest \in Seq(Buffers) /\ DOMAIN rest = 1 .. Len(list) - 1
    BY <1>1, <1>4, <2>1, IsASeq
  <2>3. \A i \in 1 .. Len(list) : i < cur => i \in DOMAIN rest /\ rest[i] = list[i]
    BY <1>1, <2>2
  <2>4. \A i \in 1 .. Len(list) : i > cur => i - 1 \in DOMAIN rest /\ rest[i - 1] = list[i]
    BY <1>1, <2>2
  <2>5. rest # << >>
    <3>1. 1 \in DOMAIN rest
      BY <1>1, <1>4, <2>2
    <3> HIDE DEF rest
    <3> QED
      BY <3>1
  <2>6. l = rest /\ c \in DOMAIN rest
    BY <1>1, <1>4, <2>2, <2>5
  <2> HIDE DEF rest, l, c
  <2>7. ASSUME NEW i \in Unsaved
        PROVE  \E j \in DOMAIN rest : rest[j].dirty /\ rest[j].path = list[i].path
    <3>1. i \in 1 .. Len(list) /\ list[i].dirty /\ i # cur
      BY <1>1 DEF Unsaved
    <3>2. i < cur \/ i > cur
      BY <1>1, <3>1
    <3> QED
      BY <2>3, <2>4, <3>1, <3>2
  <2> QED
    BY <1>2, <2>2, <2>6, <2>7, RepaintLosesNothing DEF Inv
<1> QED
  BY <1>1, <1>3, <1>4

\* A command without '!' closes no buffer with unsaved changes, and ends the
\* program only when there is none.
THEOREM NothingLostWithoutBang == Spec => NoBangNoLoss
<1> DEFINE Safe == Prompting /\ ~HasBang(mode.line) =>
                     Kept /\ (mode'.name = "Quitting" => Unsaved = {})
<1>1. ASSUME Inv, Next PROVE Safe
  <2> SUFFICES ASSUME Prompting, ~HasBang(mode.line)
               PROVE  Kept /\ (mode'.name = "Quitting" => Unsaved = {})
    OBVIOUS
  <2>1. /\ mode.name = "Command" /\ mode # Normal /\ TypeOK
        /\ list \in Seq(Buffers) /\ cur \in DOMAIN list
        /\ DOMAIN list = 1 .. Len(list) /\ Len(list) \in Nat
    BY <1>1, AtKeyboard, ModeNames DEF Prompting, Inv
  <2>2. ASSUME list' = list PROVE Kept
    BY <2>2 DEF Kept, Unsaved
  <2>3. ASSUME NEW m, Become(m), m.name # "Quitting" PROVE Kept /\ mode'.name # "Quitting"
    BY <2>2, <2>3 DEF Become
  <2>4. CASE Look
    BY <2>1, <2>4, RepaintLosesNothing, ModeNames DEF Look, Unsaved
  <2>5. ASSUME NEW f \in Shared, Remove(f) PROVE Kept /\ mode'.name # "Quitting"
    BY <2>1, <2>2, <2>5 DEF Remove
  <2>6. CASE OpenPrompt \/ TypeChar \/ EraseLast \/ EraseThis \/ MoveCursor \/ Cancel
    BY <2>3, <2>6, ModeNames
       DEF OpenPrompt, TypeChar, EraseLast, EraseThis, MoveCursor, Cancel
  <2>7. CASE Quit
    BY <2>2, <2>3, <2>7, ModeNames DEF Quit, Become
  <2>8. ASSUME NEW n \in Names \cup {NoName}, Write(n) PROVE Kept /\ mode'.name # "Quitting"
    <3>1. Writing(cur, n, FALSE, FALSE, FALSE).name = "Writing"
          /\ Writing(cur, list[cur].path, FALSE, FALSE, FALSE).name = "Writing"
      BY DEF Writing
    <3> QED
      BY <2>3, <2>8, <3>1, ModeNames DEF Write
  <2>9. CASE WriteAll \/ WriteQuit
    <3>1. PICK quit \in BOOLEAN : GoOn(1, quit) /\ list' = list
      BY <2>9 DEF WriteAll, WriteQuit
    <3>2. PICK j \in 1 .. Len(list) + 1 :
            /\ \A k \in 1 .. j - 1 : ~HasFile(list[k])
            /\ \/ j > Len(list)
               \/ mode' = Writing(j, list[j].path, FALSE, TRUE, quit)
      BY <3>1 DEF GoOn
    <3>3. j > Len(list) => Unsaved = {}
      BY <2>1, <3>2 DEF Unsaved
    <3>4. Writing(j, list[j].path, FALSE, TRUE, quit).name = "Writing"
      BY DEF Writing
    <3> QED
      BY <2>2, <3>1, <3>2, <3>3, <3>4
  <2>10. ~CreateFile /\ ~FillFile /\ ~WriteFails /\ ~ForceQuit /\ ~ForceDelete /\ ~Change
    BY <2>1 DEF CreateFile, FillFile, WriteFails, IsWriting, ForceQuit, ForceDelete, Change
  <2>11. ASSUME NEW n \in Names, Edit(n) PROVE Kept /\ mode'.name # "Quitting"
    <3>1. CASE Become(Normal)
      BY <2>3, <3>1, ModeNames
    <3>2. ASSUME NEW i \in Stops(n), Repaint(list, i, Normal) PROVE Kept /\ mode'.name # "Quitting"
      BY <2>1, <3>2, RepaintLosesNothing, ModeNames DEF Stops, Unsaved
    <3>3. ASSUME Exists(n),
                 Repaint(Append(list, FromDataAndPath(disk[Canon[n]], n)), Len(list) + 1, Normal)
          PROVE  Kept /\ mode'.name # "Quitting"
      <4> DEFINE b == FromDataAndPath(disk[Canon[n]], n)
                 l == Append(list, b)
      <4>1. disk[Canon[n]] \in Seq(Bytes)
        BY <2>1, <3>3, CollectionAssumption DEF TypeOK, Exists
      <4>2. b \in Buffers
        BY <4>1 DEF FromDataAndPath, Buffers
      <4> HIDE DEF b
      <4>3. /\ l \in Seq(Buffers) /\ Len(l) = Len(list) + 1
            /\ \A i \in 1 .. Len(list) : l[i] = list[i]
        BY <2>1, <4>2, AppendProperties
      <4> HIDE DEF l
      <4>4. DOMAIN l = 1 .. Len(list) + 1
        BY <4>3
      <4>5. ASSUME NEW i \in Unsaved
            PROVE  \E j \in DOMAIN l : l[j].dirty /\ l[j].path = list[i].path
        BY <2>1, <4>3, <4>4 DEF Unsaved
      <4>6. Len(list) + 1 \in DOMAIN l /\ Repaint(l, Len(list) + 1, Normal)
        BY <2>1, <3>3, <4>4 DEF l, b
      <4> QED
        BY <2>1, <4>3, <4>5, <4>6, RepaintLosesNothing, ModeNames
    <3> QED
      BY <2>11, <3>1, <3>2, <3>3 DEF Edit
  <2>12. CASE DeleteBuffer
    BY <1>1, <2>3, <2>12, CloseLosesNothing, ModeNames DEF DeleteBuffer
  <2> QED
    BY <1>1, <2>4, <2>5, <2>6, <2>7, <2>8, <2>9, <2>10, <2>11, <2>12 DEF Next
<1>2. Inv /\ [Next]_vars => [Safe]_vars
  BY <1>1
<1> QED
  BY <1>2, Invariance, PTL DEF Spec, NoBangNoLoss, Kept
\* The cursor never leaves the line: it may come to lie inside a character, but
\* not behind the last one.
CursorInLine == Prompting => mode.line.cursor <= Len(mode.line.text)

\* A line with the cursor in it and only one-byte characters can be edited
\* everywhere but for <delete> at its end.
LEMMA PlainLine ==
  ASSUME NEW line \in Lines, line.cursor <= Len(line.text),
         \A i \in DOMAIN line.text : line.text[i] # "second"
  PROVE  /\ ~InsertPanics(line)
         /\ ~RemoveLastPanics(line)
         /\ RemoveThisPanics(line) => line.cursor = Len(line.text)
<1>1. line.text \in Seq(CharBytes) /\ line.cursor \in Nat /\ DOMAIN line.text = 1 .. Len(line.text)
  BY DEF Lines
<1>2. \A at \in Nat : at <= Len(line.text) => Boundary(line.text, at)
  BY <1>1 DEF Boundary
<1> QED
  BY <1>1, <1>2 DEF InsertPanics, RemoveLastPanics, RemoveThisPanics, RemovePanics

\* The modes that the loop of :wa and :wq goes on in.
LEMMA LoopModes ==
  ASSUME NEW i, NEW quit, GoOn(i, quit)
  PROVE  mode'.name \in {"Quitting", "Normal", "Writing"}
<1>1. PICK j \in i .. Len(list) + 1 :
        \/ mode' = IF quit THEN Quitting(FALSE) ELSE Normal
        \/ mode' = Writing(j, list[j].path, FALSE, TRUE, quit)
  BY DEF GoOn
<1>2. CASE mode' = IF quit THEN Quitting(FALSE) ELSE Normal
  <2>1. mode' = Quitting(FALSE) \/ mode' = Normal
    BY <1>2
  <2> QED
    BY <2>1, ModeNames
<1>3. CASE mode' = Writing(j, list[j].path, FALSE, TRUE, quit)
  BY <1>3 DEF Writing
<1> QED
  BY <1>1, <1>2, <1>3

\* Every step keeps the cursor in the line.
LEMMA CursorStep == Inv /\ CursorInLine /\ [Next]_vars => CursorInLine'
<1> SUFFICES ASSUME Inv, CursorInLine, [Next]_vars PROVE CursorInLine'
  OBVIOUS
<1>1. ASSUME Prompting PROVE mode.line \in Lines /\ mode.line.cursor <= Len(mode.line.text)
  BY <1>1, ModeNames DEF Inv, TypeOK, Prompting, IsWriting, CursorInLine
<1>2. ASSUME NEW line, Become(Command(line)), line.cursor <= Len(line.text) PROVE CursorInLine'
  BY <1>2, ModeNames DEF Become, CursorInLine
<1>3. ASSUME mode'.name # "Command" PROVE CursorInLine'
  BY <1>3 DEF CursorInLine, Prompting
<1>4. ASSUME mode' = mode PROVE CursorInLine'
  BY <1>4 DEF CursorInLine, Prompting
<1>5. ASSUME Become(Panicked) \/ Become(Normal) PROVE CursorInLine'
  BY <1>3, <1>5, ModeNames DEF Become
<1>6. ASSUME NEW l, NEW c, NEW m, m = mode \/ m = Normal, Repaint(l, c, m) PROVE CursorInLine'
  <2>1. mode' = m \/ mode' = Failed
    BY <1>6 DEF Repaint
  <2> QED
    BY <1>3, <1>4, <1>6, <2>1, ModeNames
<1>7. ASSUME NEW at, NEW to, NEW open, NEW all, NEW quit, mode' = Writing(at, to, open, all, quit)
      PROVE  CursorInLine'
  BY <1>3, <1>7 DEF Writing
<1>8. CASE UNCHANGED vars
  BY <1>4, <1>8 DEF vars
<1>9. CASE Change \/ Look
  BY <1>6, <1>9 DEF Change, Look
<1>10. ASSUME NEW f \in Shared, Remove(f) PROVE CursorInLine'
  BY <1>4, <1>10 DEF Remove
<1>11. CASE OpenPrompt
  <2>1. EmptyLine.cursor <= Len(EmptyLine.text)
    BY DEF EmptyLine
  <2> QED
    BY <1>2, <1>11, <2>1 DEF OpenPrompt
<1>12. CASE TypeChar
  BY <1>1, <1>2, <1>5, <1>12, LineEdits, CollectionAssumption DEF TypeChar
<1>13. CASE EraseLast
  BY <1>1, <1>2, <1>5, <1>13, LineEdits DEF EraseLast
<1>14. CASE EraseThis
  BY <1>1, <1>2, <1>5, <1>14, LineEdits DEF EraseThis
<1>15. CASE MoveCursor
  BY <1>1, <1>2, <1>15, LineEdits DEF MoveCursor
<1>16. CASE Cancel
  BY <1>5, <1>16 DEF Cancel
<1>17. CASE Quit \/ ForceQuit
  BY <1>3, <1>17, ModeNames DEF Quit, ForceQuit, Become
<1>18. ASSUME NEW n \in Names \cup {NoName}, Write(n) PROVE CursorInLine'
  BY <1>5, <1>7, <1>18 DEF Write, Become
<1>19. ASSUME NEW i, NEW quit, GoOn(i, quit) PROVE CursorInLine'
  <2>1. mode'.name \in {"Quitting", "Normal", "Writing"}
    BY <1>19, LoopModes
  <2> QED
    BY <1>3, <2>1
<1>20. CASE WriteAll \/ WriteQuit
  BY <1>19, <1>20 DEF WriteAll, WriteQuit
<1>21. CASE CreateFile
  BY <1>7, <1>21 DEF CreateFile
<1>22. CASE FillFile \/ WriteFails
  BY <1>3, <1>19, <1>22, ModeNames DEF FillFile, WriteFails
<1>23. ASSUME NEW n \in Names, Edit(n) PROVE CursorInLine'
  BY <1>5, <1>6, <1>23 DEF Edit
<1>24. CASE DeleteBuffer \/ ForceDelete
  BY <1>5, <1>6, <1>24 DEF DeleteBuffer, ForceDelete, DeleteCurrent
<1> QED
  BY <1>8, <1>9, <1>10, <1>11, <1>12, <1>13, <1>14, <1>15, <1>16, <1>17, <1>18, <1>20, <1>21,
     <1>22, <1>23, <1>24 DEF Next

\* Typing, erasing and moving in a prompt of one-byte characters panics in one
\* case alone, <delete> at the end of the line.
THEOREM PlainPromptSafe == Spec => PlainPromptIsSafe
<1> DEFINE Safe == Prompting /\ mode' = Panicked =>
                     \/ \E i \in DOMAIN mode.line.text : mode.line.text[i] = "second"
                     \/ EraseThis /\ mode.line.cursor = Len(mode.line.text)
<1>1. ASSUME Inv, CursorInLine, Next PROVE Safe
  <2> SUFFICES ASSUME Prompting, mode' = Panicked,
                      \A i \in DOMAIN mode.line.text : mode.line.text[i] # "second"
               PROVE  EraseThis /\ mode.line.cursor = Len(mode.line.text)
    OBVIOUS
  <2>1. /\ mode.name = "Command" /\ mode'.name = "Panicked"
        /\ mode.line \in Lines /\ mode.line.cursor <= Len(mode.line.text)
    BY <1>1, ModeNames DEF Inv, TypeOK, Prompting, IsWriting, CursorInLine
  <2>2. /\ ~InsertPanics(mode.line) /\ ~RemoveLastPanics(mode.line)
        /\ RemoveThisPanics(mode.line) => mode.line.cursor = Len(mode.line.text)
    BY <2>1, PlainLine
  <2>3. ASSUME NEW m, Become(m) PROVE m.name = "Panicked"
    BY <2>1, <2>3 DEF Become
  <2>4. ASSUME NEW l, NEW c, NEW m, m = mode \/ m = Normal, Repaint(l, c, m) PROVE FALSE
    <3>1. mode' = m \/ mode' = Failed
      BY <2>4 DEF Repaint
    <3> QED
      BY <2>1, <2>4, <3>1, ModeNames
  <2>5. \A at, to, open, all, quit : Writing(at, to, open, all, quit).name = "Writing"
    BY DEF Writing
  <2>6. ASSUME NEW i, NEW quit, GoOn(i, quit) PROVE FALSE
    <3>1. mode'.name \in {"Quitting", "Normal", "Writing"}
      BY <2>6, LoopModes
    <3> QED
      BY <2>1, <3>1
  <2>7. ~Change /\ ~Look
    BY <2>4 DEF Change, Look
  <2>8. \A f \in Shared : ~Remove(f)
    BY <2>1 DEF Remove
  <2>9. ~OpenPrompt /\ ~TypeChar /\ ~EraseLast /\ ~MoveCursor /\ ~Cancel
    BY <2>2, <2>3, ModeNames DEF OpenPrompt, TypeChar, EraseLast, MoveCursor, Cancel
  <2>10. ~Quit /\ ~ForceQuit /\ \A n \in Names \cup {NoName} : ~Write(n)
    BY <2>3, <2>5, ModeNames DEF Quit, ForceQuit, Write
  <2>11. ~WriteAll /\ ~WriteQuit
    BY <2>6 DEF WriteAll, WriteQuit
  <2>12. ~CreateFile /\ ~FillFile /\ ~WriteFails
    BY <2>1 DEF CreateFile, FillFile, WriteFails, IsWriting
  <2>13. \A n \in Names : ~Edit(n)
    BY <2>3, <2>4, ModeNames DEF Edit
  <2>14. ~DeleteBuffer /\ ~ForceDelete
    BY <2>3, <2>4, ModeNames DEF DeleteBuffer, ForceDelete, DeleteCurrent
  <2>15. EraseThis
    BY <1>1, <2>7, <2>8, <2>9, <2>10, <2>11, <2>12, <2>13, <2>14 DEF Next
  <2> QED
    BY <2>2, <2>3, <2>15, ModeNames DEF EraseThis
<1>2. Inv /\ CursorInLine /\ [Next]_vars => [Safe]_vars
  BY <1>1
<1>3. Init => CursorInLine
  BY ModeNames DEF Init, CursorInLine, Prompting
<1> QED
  BY <1>2, <1>3, Invariance, CursorStep, PTL DEF Spec, PlainPromptIsSafe
=============================================================================
