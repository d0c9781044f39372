----------------------------- MODULE CommandLine -----------------------------
(***************************************************************************)
(* The line typed after ':' (src/modes/command.rs, struct Command): a Rust *)
(* String and a cursor that counts bytes.  Which characters are typed does *)
(* not matter here, only how many bytes they take: a line is a sequence of *)
(* bytes, each a character of its own ("!" told apart from the others) or  *)
(* the first or second byte of a character of two (longer characters       *)
(* behave alike).                                                          *)
(***************************************************************************)
EXTENDS Integers, Sequences

CharBytes == {"one", "bang", "first", "second"}

Chars == {<< "one" >>, << "bang" >>, << "first", "second" >>}

EmptyLine == [text |-> << >>, cursor |-> 0]

Lines == [text : Seq(CharBytes), cursor : Nat]

HasBang(line) == \E i \in DOMAIN line.text : line.text[i] = "bang"

\* String::insert and String::remove panic at a byte that starts no character.
Boundary(text, at) ==
  /\ at <= Len(text)
  /\ at < Len(text) => text[at + 1] # "second"

Wide(text, at) == text[at + 1] = "first"

\* String::remove of the character that starts at byte at.
WithoutChar(text, at) ==
  SubSeq(text, 1, at) \o SubSeq(text, at + (IF Wide(text, at) THEN 3 ELSE 2), Len(text))

InsertPanics(line) == ~Boundary(line.text, line.cursor)

\* The cursor moves on by one, whatever the character.
InsertChar(line, char) ==
  [text   |-> SubSeq(line.text, 1, line.cursor) \o char
                \o SubSeq(line.text, line.cursor + 1, Len(line.text)),
   cursor |-> line.cursor + 1]

\* Removing at byte at panics at the end, too.
RemovePanics(line, at) == at >= Len(line.text) \/ ~Boundary(line.text, at)

\* Backspace does nothing at the start of the line.
RemoveLastPanics(line) == line.cursor # 0 /\ RemovePanics(line, line.cursor - 1)

RemoveLast(line) ==
  IF line.cursor = 0 THEN line
  ELSE [text |-> WithoutChar(line.text, line.cursor - 1), cursor |-> line.cursor - 1]

RemoveThisPanics(line) == RemovePanics(line, line.cursor)

RemoveThis(line) == [line EXCEPT !.text = WithoutChar(@, line.cursor)]

CursorLeft(line) == [line EXCEPT !.cursor = IF @ # 0 THEN @ - 1 ELSE 0]

\* A slip: the cursor may leave the line by one.
CursorPast(line) == [line EXCEPT !.cursor = IF @ <= Len(line.text) THEN @ + 1 ELSE @]

CursorRight(line) == [line EXCEPT !.cursor = IF @ < Len(line.text) THEN @ + 1 ELSE @]
=============================================================================
