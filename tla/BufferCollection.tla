-------------------------- MODULE BufferCollection --------------------------
(***************************************************************************)
(* The open buffers, the files on disk, and the commands typed after ':'   *)
(* (src/current_buffer.rs, struct BuffrCollection; src/modes/command.rs;   *)
(* the start-up in src/bin/tofu.rs).                                       *)
(*                                                                         *)
(* A buffer is a path, bytes and a dirty flag; what the other modes do to  *)
(* it is one action, Change, that leaves any bytes.  Where the view has    *)
(* scrolled to is left open: a repaint may or may not need more bytes of   *)
(* the file.  The text of a command is left open as well: an accepted line *)
(* may be any command, but only one with a '!' a forced one.               *)
(*                                                                         *)
(* Writing a file takes two steps, as in std::fs::write: the file is       *)
(* created or emptied, then it is filled.  Either may fail.  Other         *)
(* programs may remove a file at any time.                                 *)
(***************************************************************************)
EXTENDS CommandLine

CONSTANTS
  Names,       \* the file names the user gives
  Files,       \* the files they stand for,
  Canon,       \* Path::canonicalize, from names to files
  NoName,      \* the path of a *scratch* buffer
  Bytes,       \* what files and buffers are made of
  Stored,      \* what each file may hold at first,
  Edited,      \* and what editing makes of the bytes of a buffer
  Absent,      \* in place of the contents of a file that does not exist
  Shared,      \* the files that other programs may remove
  Chunk,       \* bytes read at a time
  Typed,       \* the characters typed after ':'
  MaxBuffers,  \* most open buffers
  MaxLine      \* longest command line

ASSUME CollectionAssumption ==
  /\ Canon \in [Names -> Files]
  /\ NoName \notin Names
  /\ Stored \in [Files -> SUBSET (Seq(Bytes) \cup {Absent})]
  /\ Edited \subseteq Seq(Bytes)
  /\ Absent \notin Seq(Bytes)
  /\ Shared \subseteq Files
  /\ Chunk \in Nat \ {0}
  /\ Typed \subseteq Chars
  /\ MaxBuffers \in Nat \ {0} /\ MaxLine \in Nat

VARIABLES
  list,   \* the open buffers
  cur,    \* the current one
  disk,   \* the contents of each file
  mode,   \* what the program is doing
  stray   \* auxiliary: open files that a clean buffer may differ from, or two hold

vars == << list, cur, disk, mode, stray >>

Buffers == [path : Names \cup {NoName}, data : Seq(Bytes), dirty : BOOLEAN]

FromDataAndPath(data, path) == [path |-> path, data |-> data, dirty |-> FALSE]

Scratch == FromDataAndPath(<< >>, NoName)

Normal          == [name |-> "Normal"]
Command(line)   == [name |-> "Command", line |-> line]
Quitting(force) == [name |-> "Quitting", force |-> force]
Panicked        == [name |-> "Panicked"]
\* An I/O error that the event loop hands on to main, which unwraps it.
Failed          == [name |-> "Failed"]
\* Writing buffer number at to the file called to, which is open, i.e. emptied,
\* or not yet; all goes on to the next buffer, and quit ends the program then.
Writing(at, to, open, all, quit) ==
  [name |-> "Writing", at |-> at, to |-> to, open |-> open, all |-> all, quit |-> quit]

Lesser(a, b) == IF a <= b THEN a ELSE b

Exists(name) == disk[Canon[name]] # Absent

HasFile(b)      == b.path # NoName
HoldsFile(b, f) == HasFile(b) /\ Canon[b.path] = f
Holders(f)      == {i \in DOMAIN list : HoldsFile(list[i], f)}

StrayIf(condition, f) == IF condition THEN {f} ELSE {}

\* A slip: the seek is missing.
LoadFirstChunk(b) ==
  LET file == disk[Canon[b.path]]
  IN [b EXCEPT !.data = @ \o SubSeq(file, 1, Lesser(Chunk, Len(file)))]

\* CurrentBuffer::load_next_chunk
LoadNextChunk(b) ==
  LET file == disk[Canon[b.path]]
  IN [b EXCEPT !.data = @ \o SubSeq(file, Len(@) + 1, Lesser(Len(@) + Chunk, Len(file)))]

\* main: only the first chunk of the file is read.
Init ==
  /\ disk \in [Files -> UNION {Stored[f] : f \in Files}]
  /\ \A f \in Files : disk[f] \in Stored[f]
  /\ \E n \in Names \cup {NoName} :
       /\ n \in Names => Exists(n)
       /\ list = << IF n \in Names THEN LoadNextChunk(FromDataAndPath(<< >>, n)) ELSE Scratch >>
  /\ cur = 1
  /\ mode = Normal
  /\ stray = {}

-----------------------------------------------------------------------------
(* What the view does after a change: draw, and load what it lacks.        *)

Repaint(l, c, m) ==
  /\ cur' = c
  /\ stray' = {f \in stray : \E i \in DOMAIN l : HoldsFile(l[i], f)}
  /\ UNCHANGED disk
  /\ \/ list' = l /\ mode' = m
     \/ /\ HasFile(l[c])
        /\ \/ Exists(l[c].path) /\ list' = [l EXCEPT ![c] = LoadNextChunk(@)] /\ mode' = m
           \/ ~Exists(l[c].path) /\ list' = l /\ mode' = Failed

\* Whatever the other modes do to the current buffer, undo and redo included.
Change ==
  /\ mode = Normal
  /\ \E data \in Edited :
       Repaint([list EXCEPT ![cur].data = data, ![cur].dirty = TRUE], cur, mode)

\* Moving, scrolling and resizing; scrolling works in the prompt as well.
Look ==
  /\ mode.name \in {"Normal", "Command"}
  /\ Repaint(list, cur, mode)

\* Another program.
Remove(f) ==
  /\ mode.name \in {"Normal", "Command", "Writing"}
  /\ disk[f] # Absent
  /\ disk' = [disk EXCEPT ![f] = Absent]
  /\ stray' = stray \cup StrayIf(\E i \in Holders(f) : ~list[i].dirty, f)
  /\ UNCHANGED << list, cur, mode >>

-----------------------------------------------------------------------------
(* The prompt.                                                             *)

Become(m) == mode' = m /\ UNCHANGED << list, cur, disk, stray >>

OpenPrompt == mode = Normal /\ Become(Command(EmptyLine))

Prompting == mode.name = "Command"

TypeChar ==
  /\ Prompting
  /\ \E char \in Typed :
       \/ InsertPanics(mode.line) /\ Become(Panicked)
       \/ /\ ~InsertPanics(mode.line)
          /\ Len(mode.line.text) < MaxLine
          /\ Become(Command(InsertChar(mode.line, char)))

EraseLast ==
  /\ Prompting
  /\ \/ RemoveLastPanics(mode.line) /\ Become(Panicked)
     \/ ~RemoveLastPanics(mode.line) /\ Become(Command(RemoveLast(mode.line)))

EraseThis ==
  /\ Prompting
  /\ \/ RemoveThisPanics(mode.line) /\ Become(Panicked)
     \/ ~RemoveThisPanics(mode.line) /\ Become(Command(RemoveThis(mode.line)))

MoveCursor ==
  /\ Prompting
  /\ \/ Become(Command(CursorLeft(mode.line)))
     \/ Become(Command(CursorRight(mode.line)))

\* Escape, or a line that is no command.
Cancel == Prompting /\ Become(Normal)

\* A line accepted with enter that names a command.
Accepting == Prompting /\ mode.line.text # << >>

-----------------------------------------------------------------------------
(* Quitting.                                                               *)

Unsaved == {i \in DOMAIN list : list[i].dirty /\ HasFile(list[i])}

\* A slip: only the current buffer is looked at.
QuitCurrent ==
  /\ Accepting
  /\ \/ cur \in Unsaved /\ Become(Normal)
     \/ cur \notin Unsaved /\ Become(Quitting(FALSE))

Quit ==
  /\ Accepting
  /\ \/ Unsaved # {} /\ Become(Normal)
     \/ Unsaved = {} /\ Become(Quitting(FALSE))

ForceQuit == Accepting /\ HasBang(mode.line) /\ Become(Quitting(TRUE))

-----------------------------------------------------------------------------
(* Writing.                                                                *)

\* With a name, the buffer goes to that file, else to its own.
Write(name) ==
  /\ Accepting
  /\ LET to == IF name # NoName THEN name ELSE list[cur].path
     IN \/ to = NoName /\ Become(Normal)
        \/ to # NoName /\ Become(Writing(cur, to, FALSE, FALSE, FALSE))

\* A slip: buffers without a file are not skipped.
GoOnAnyway(i, quit) ==
  \/ i > Len(list) /\ mode' = IF quit THEN Quitting(FALSE) ELSE Normal
  \/ i <= Len(list) /\ mode' = Writing(i, list[i].path, FALSE, TRUE, quit)

\* A slip: the loop starts over.
GoOnAgain(i, quit) ==
  \E j \in 1 .. Len(list) + 1 :
    /\ \A k \in 1 .. j - 1 : ~HasFile(list[k])
    /\ \/ j > Len(list) /\ mode' = IF quit THEN Quitting(FALSE) ELSE Normal
       \/ /\ j <= Len(list) /\ HasFile(list[j])
          /\ mode' = Writing(j, list[j].path, FALSE, TRUE, quit)

\* The loop of write_all and write_quit goes on with the first buffer from
\* number i on that has a file, or ends.
GoOn(i, quit) ==
  \E j \in i .. Len(list) + 1 :
    /\ \A k \in i .. j - 1 : ~HasFile(list[k])
    /\ \/ j > Len(list) /\ mode' = IF quit THEN Quitting(FALSE) ELSE Normal
       \/ /\ j <= Len(list) /\ HasFile(list[j])
          /\ mode' = Writing(j, list[j].path, FALSE, TRUE, quit)

WriteAll == Accepting /\ GoOn(1, FALSE) /\ UNCHANGED << list, cur, disk, stray >>

WriteQuit == Accepting /\ GoOn(1, TRUE) /\ UNCHANGED << list, cur, disk, stray >>

IsWriting == mode.name = "Writing"

\* The bytes go nowhere when the file is removed while it is being written.
Filled(f, data) == IF disk[f] = Absent THEN disk ELSE [disk EXCEPT ![f] = data]

CreateFile ==
  /\ IsWriting /\ ~mode.open
  /\ disk' = [disk EXCEPT ![Canon[mode.to]] = << >>]
  /\ mode' = Writing(mode.at, mode.to, TRUE, mode.all, mode.quit)
  /\ UNCHANGED << list, cur, stray >>

\* Then the buffer is clean, and has a path if it had none.  Other buffers that
\* hold the file no longer match it, nor does a buffer saved under another name
\* match its own.
FillFile ==
  /\ IsWriting /\ mode.open
  /\ LET f == Canon[mode.to]
         b == list[mode.at]
         others == Holders(f) \ {mode.at}
     IN /\ disk' = Filled(f, b.data)
        /\ list' = [list EXCEPT ![mode.at].dirty = FALSE,
                                ![mode.at].path = IF @ = NoName THEN mode.to ELSE @]
        /\ stray' = (stray \ {f})
                      \cup StrayIf(others # {} \/ disk[f] = Absent, f)
                      \cup (IF HasFile(b) THEN StrayIf(b.dirty /\ Canon[b.path] # f, Canon[b.path])
                            ELSE {})
  /\ \/ mode.all /\ GoOn(mode.at + 1, mode.quit)
     \/ ~mode.all /\ mode' = Normal
  /\ UNCHANGED cur

\* A slip: the loop goes on after an error.
FailureSkipped ==
  /\ IsWriting /\ ~mode.open
  /\ \/ mode.all /\ GoOn(mode.at + 1, mode.quit)
     \/ ~mode.all /\ mode' = Normal
  /\ UNCHANGED << list, cur, disk, stray >>

\* The error is shown, and the loop is left.  What was written by then stays.
WriteFails ==
  /\ IsWriting
  /\ \/ ~mode.open /\ UNCHANGED << disk, stray >>
     \/ /\ mode.open
        /\ LET f == Canon[mode.to]
               data == list[mode.at].data
           IN /\ \E k \in 0 .. Len(data) - 1 : disk' = Filled(f, SubSeq(data, 1, k))
              /\ stray' = stray \cup StrayIf(\E i \in Holders(f) : ~list[i].dirty, f)
  /\ mode' = Normal
  /\ UNCHANGED << list, cur >>

-----------------------------------------------------------------------------
(* Opening, switching and closing.                                         *)

\* A slip: paths are compared as they are spelled.
StopsByName(name) == {i \in DOMAIN list :
  HasFile(list[i]) /\ (~Exists(list[i].path) \/ list[i].path = name)}

\* switch_current_buffer stops at the first buffer that has the file, but also
\* at the first whose own file is gone: then canonicalize fails.
Stops(name) == {i \in DOMAIN list :
  HasFile(list[i]) /\ (~Exists(list[i].path) \/ Canon[list[i].path] = Canon[name])}

Edit(name) ==
  /\ Accepting
  /\ \/ ~Exists(name) /\ Become(Normal)
     \/ /\ Exists(name)
        /\ \E i \in Stops(name) :
             /\ \A k \in Stops(name) : i <= k
             /\ \/ ~Exists(list[i].path) /\ Become(Normal)
                \/ Exists(list[i].path) /\ Repaint(list, i, Normal)
     \/ /\ Exists(name) /\ Stops(name) = {}
        /\ Len(list) < MaxBuffers
        /\ Repaint(Append(list, FromDataAndPath(disk[Canon[name]], name)), Len(list) + 1, Normal)

DeleteCurrent ==
  LET rest == [i \in 1 .. Len(list) - 1 |-> IF i < cur THEN list[i] ELSE list[i + 1]]
  IN Repaint(IF rest = << >> THEN << Scratch >> ELSE rest, IF cur > 1 THEN cur - 1 ELSE 1, Normal)

\* A slip: unsaved changes do not matter.
DeleteAnyway == Accepting /\ DeleteCurrent

DeleteBuffer ==
  /\ Accepting
  /\ \/ cur \in Unsaved /\ Become(Normal)
     \/ cur \notin Unsaved /\ DeleteCurrent

ForceDelete == Accepting /\ HasBang(mode.line) /\ DeleteCurrent

-----------------------------------------------------------------------------
Next ==
  \/ Change \/ Look \/ (\E f \in Shared : Remove(f))
  \/ OpenPrompt \/ TypeChar \/ EraseLast \/ EraseThis \/ MoveCursor \/ Cancel
  \/ Quit \/ ForceQuit
  \/ (\E n \in Names \cup {NoName} : Write(n)) \/ WriteAll \/ WriteQuit
  \/ CreateFile \/ FillFile \/ WriteFails
  \/ (\E n \in Names : Edit(n)) \/ DeleteBuffer \/ ForceDelete

\* The program does not stop in the middle of writing of its own accord.
Fairness == WF_vars(CreateFile \/ FillFile \/ WriteFails)

Spec == Init /\ [][Next]_vars /\ Fairness
-----------------------------------------------------------------------------
(* Properties.                                                             *)

\* Type correctness; the current buffer is one of the list.
TypeOK ==
  /\ list \in Seq(Buffers)
  /\ cur \in DOMAIN list
  /\ disk \in [Files -> Seq(Bytes) \cup {Absent}]
  /\ stray \subseteq Files
  /\ \/ mode \in {Normal, Panicked, Failed, Quitting(TRUE), Quitting(FALSE)}
     \/ Prompting /\ mode.line \in Lines /\ mode = Command(mode.line)
     \/ /\ IsWriting
        /\ mode.at \in DOMAIN list
        /\ mode.to \in Names
        /\ {mode.open, mode.all, mode.quit} \subseteq BOOLEAN
        /\ mode = Writing(mode.at, mode.to, mode.open, mode.all, mode.quit)

\* Whatever is typed, erased and moved over, a prompt that holds only characters
\* of one byte panics in one case alone: <delete> at the end of the line
\* (Command::transition).
PlainPromptIsSafe ==
  [][Prompting /\ mode' = Panicked =>
       \/ \E i \in DOMAIN mode.line.text : mode.line.text[i] = "second"
       \/ EraseThis /\ mode.line.cursor = Len(mode.line.text)]_vars

\* A command without '!' closes no buffer that has unsaved changes and a file,
\* and ends the program only when there is none (quit, delete_current_buffer).
NoBangNoLoss ==
  [][Prompting /\ ~HasBang(mode.line) =>
       /\ \A i \in Unsaved : \E j \in Unsaved' : list'[j].path = list[i].path
       /\ mode'.name = "Quitting" => Unsaved = {}]_vars

\* When the program quits without force, every buffer with a file is clean:
\* :wq has written them all, :q has found them so.
QuitLosesNothing == mode = Quitting(FALSE) => Unsaved = {}

\* Half-way through :wa or :wq the buffers the loop has passed are clean and on
\* disk to the last byte; when a later write fails, they stay so.
WrittenSoFar ==
  IsWriting /\ mode.all =>
    \A j \in 1 .. mode.at - 1 : HasFile(list[j]) =>
      /\ ~list[j].dirty
      /\ Canon[list[j].path] \notin stray => disk[Canon[list[j].path]] = list[j].data

\* s is how t begins.
Begins(s, t) == Len(s) <= Len(t) /\ \A k \in 1 .. Len(s) : s[k] = t[k]

\* The file that is emptied and not yet filled.
InFlight == IF IsWriting /\ mode.open THEN {Canon[mode.to]} ELSE {}

\* A clean buffer holds what its file begins with, so that nothing is lost by
\* dropping it: chunks are loaded in their places, a buffer is clean only once
\* its bytes are on disk, and a failed write leaves a dirty buffer dirty.
FollowsFile ==
  \A i \in DOMAIN list :
    HasFile(list[i]) /\ ~list[i].dirty /\ Canon[list[i].path] \notin stray \cup InFlight =>
      Exists(list[i].path) /\ Begins(list[i].data, disk[Canon[list[i].path]])

\* :e never opens a file a second time, under whatever name
\* (switch_current_buffer); only :w can give two buffers the same file.
OneBufferPerFile ==
  \A i, j \in DOMAIN list :
    HasFile(list[i]) /\ HasFile(list[j]) /\ Canon[list[i].path] = Canon[list[j].path] =>
      i = j \/ Canon[list[i].path] \in stray

\* Writing comes to an end, with or without an error (the loops of write_all
\* and write_quit).
WritingEnds == IsWriting ~> ~IsWriting
=============================================================================
