--------------------------------- MODULE Keys ---------------------------------
(***************************************************************************)
(* The bytes that a terminal sends and the keys that the dialogs make of   *)
(* them (setupReadEscapeSequence of internal/app/setup.go). An arrow key   *)
(* is three bytes, and the byte that begins it is the Esc key.             *)
(***************************************************************************)
EXTENDS Integers, Sequences

Byte == {"enter", "space", "tab", "ctrl-c", "ctrl-d", "q", "x", "backspace", "esc", "[",
         "A", "B", "C", "D", "eof"}
Printable == {"space", "q", "x", "[", "A", "B", "C", "D"}

\* What was read of an escape sequence: nothing, its first byte or two.
Escapes == {"none", "esc", "["}

Arrow(byte) ==
  CASE byte = "A" -> "up" [] byte = "B" -> "down" [] byte = "C" -> "right"
    [] byte = "D" -> "left" [] OTHER -> "other"

\* The key that byte completes after what was read before; "more" when the next byte is
\* waited for, as it is after an Esc, unless Esc is a key here.  Anything but "[" after
\* an Esc is taken for the last byte of an arrow.
KeyOf(read, byte, escIsKey) ==
  CASE read = "none" /\ byte = "esc" -> IF escIsKey THEN "escape" ELSE "more"
    [] read = "none" -> byte
    [] read = "esc" /\ byte = "[" -> "more"
    [] byte = "eof" -> "escape"
    [] OTHER -> Arrow(byte)

\* What is read of the escape sequence of a terminal after one more byte.
Continued(read, byte) ==
  IF byte = "esc" \/ (read = "esc" /\ byte = "[") THEN byte ELSE "none"

\* From the rows (-1) to OK (0) and Cancel (1) and back to the rows.
NextButton(button) == IF button = 1 THEN -1 ELSE button + 1

\* The row above and the row below, around the ends.
Above(row, rows) == IF row = 0 THEN rows - 1 ELSE row - 1
Below(row, rows) == (row + 1) % rows
=============================================================================
