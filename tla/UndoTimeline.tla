---------------------------- MODULE UndoTimeline ----------------------------
(***************************************************************************)
(* What undo and redo promise their user: the document moves along one     *)
(* line of versions.  An edit drops the versions after the current one and *)
(* adds a new one; the keystrokes of an insertion (a draft) become a       *)
(* version together, when the insertion ends; undo and redo go back and    *)
(* forth along the line and change nothing on it.                          *)
(***************************************************************************)
EXTENDS Integers, Sequences

CONSTANT Content

VARIABLES line,   \* the versions, oldest first
          at,     \* the index of the current version
          doc,    \* the document on the screen
          open    \* an insertion is under way

vars == << line, at, doc, open >>

Init ==
  /\ doc \in Content
  /\ line = << doc >>
  /\ at = 1
  /\ open = FALSE

\* The line once v follows the current version.
Extended(v) == [k \in 1 .. at + 1 |-> IF k <= at THEN line[k] ELSE v]

Edit ==
  /\ ~open
  /\ doc' \in Content
  /\ line' = Extended(doc')
  /\ at' = at + 1
  /\ UNCHANGED open

Draft ==
  /\ doc' \in Content
  /\ open' = TRUE
  /\ UNCHANGED << line, at >>

Commit ==
  /\ open
  /\ line' = Extended(doc)
  /\ at' = at + 1
  /\ open' = FALSE
  /\ UNCHANGED doc

GoTo(k) ==
  /\ ~open
  /\ k \in 1 .. Len(line)
  /\ at' = k
  /\ doc' = line[k]
  /\ UNCHANGED << line, open >>

Undo == GoTo(at - 1)
Redo == GoTo(at + 1)

Next == Edit \/ Draft \/ Commit \/ Undo \/ Redo

Spec == Init /\ [][Next]_vars
=============================================================================
