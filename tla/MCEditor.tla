------------------------------ MODULE MCEditor ------------------------------
(* Keyboards and files for the model checker.                              *)
EXTENDS Editor

\* Characters typed as text: "e-acute" is U+00E9, two bytes in UTF-8; the others
\* are ASCII.
MCUtf8 == "z" :> << 122 >> @@ "1" :> << 49 >> @@ "0" :> << 48 >> @@ "e-acute" :> << 195, 169 >>
MCCodeByte == "z" :> 122 @@ "1" :> 49 @@ "0" :> 48 @@ "e-acute" :> 233

NoFile    == << >>
TwoBytes  == << 3, 4 >>
FourBytes == << 0, 10, 0, 7 >>

\* Files to scroll through: three lines, and more than three screenfuls.
ThreeLines == << 1, 2, 3, 4, 5 >>
FiveLines  == << 1, 2, 3, 4, 5, 6, 7, 8, 9 >>

\* Typing, erasing and moving with one cursor, and undo.
InsertKeys == {"a", "O", "Esc", "Backspace", "Left", "1", "u", "U"}

\* Typing, erasing and replacing with several cursors.
CursorsKeys == {"I", "O", "a", "%", "alt s", "b", "alt ;", "Esc", "Backspace", "Delete",
                "Left", "Right", "1", "ctrl n", "ctrl o", "r", "R"}

\* Deleting, changing and pasting with several selections.
RegisterKeys == {"a", "e-acute", "Esc", "%", "l", "alt s", "b", "d", "c", "p", "P", "u"}

\* Selecting, and splitting and collapsing by typed patterns, in a file that is
\* not changed.
SelectKeys == {"h", "l", "j", "L", "K", "g", "G", "%", ";", "alt ;", "alt s", "b", "w", "n",
               "(", ")", " ", "alt ", "s", "S", "?", "/", "0", "z", "Enter", "Esc", "Backspace",
               "Delete", "Left", "Right", "ctrl n", "ctrl w", "ctrl o", "ctrl y", "Resize"}

\* Counts before commands, in a short file.
CountKeys == {"0", "1", "5", "7", "x", "Backspace", "Esc", "g", "G", "l", "H", "%", "alt s", "b", "n",
              " ", "alt ", ")", "M", "ctrl e"}

\* Moving about, selecting, deleting and undoing in a file that is longer than
\* the screen.
WindowKeys == {"j", "k", "l", "J", "d", "u", "y"}

-----------------------------------------------------------------------------
\* A few keys each, for the ways the editor disagrees with its documentation.
NoMatchKeys    == {"%", "alt s", "w", ")", "s", "ctrl w", "Enter"}
DeleteKeys     == {"l", "d"}
DownKeys       == {"j"}
=============================================================================
