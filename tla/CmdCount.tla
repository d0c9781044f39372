------------------------------ MODULE CmdCount ------------------------------
(***************************************************************************)
(* The count typed before a command (src/cmd_count.rs).  A state with some *)
(* = FALSE is State::None.  Keys are named by their character, or by the   *)
(* name of their KeyCode.  The specifications that use this module bound   *)
(* the count far below the width of usize.                                 *)
(***************************************************************************)
EXTENDS Integers, TLC

\* The value of each key that is one of the digits.
DigitsOf(digits) ==
  [k \in {digits[d] : d \in DOMAIN digits} |-> (CHOOSE d \in DOMAIN digits : digits[d] = k) - 1]

Digit ==
  DigitsOf(<< "0", "1", "2", "3", "4", "5", "6", "7", "8", "9", "a", "b", "c", "d", "e", "f" >>)

CountStates == [some : BOOLEAN, hex : BOOLEAN, count : Nat]

NoCount == [some |-> FALSE, hex |-> FALSE, count |-> 0]

SomeCount(hex, count) == [some |-> TRUE, hex |-> hex, count |-> count]

Base(s) == IF s.hex THEN 16 ELSE 10

\* The keys for which State::transition does not answer NotHandled: the digits
\* of the base in force, x, and, once a count is being typed, Esc and Backspace.
CountHandles(s, key) ==
  \/ key \in DOMAIN Digit /\ Digit[key] < Base(s)
  \/ key = "x"
  \/ s.some /\ key \in {"Esc", "Backspace"}

CountUpdate(s, key) ==
  CASE key \in DOMAIN Digit -> SomeCount(s.hex, s.count * Base(s) + Digit[key])
    [] key = "x"            -> SomeCount(~s.hex, s.count)
    [] key = "Backspace"    -> IF s.count >= Base(s)
                               THEN SomeCount(s.hex, s.count \div Base(s))
                               ELSE NoCount
    [] key = "Esc"          -> NoCount

ToCount(s) == IF s.some THEN s.count ELSE 1
=============================================================================
