-------------------------------- MODULE Tty --------------------------------
(***************************************************************************)
(* What the console promises: the user edits a line, and when it is        *)
(* complete (newline, end of file, or no more room) it joins the input,    *)
(* which readers take in order.  Input that is complete is never edited.   *)
(***************************************************************************)
EXTENDS Sequences, Naturals

CONSTANTS Chars, Newline, Eof, Room
VARIABLES input, line

TtyInit == input = <<>> /\ line = <<>>

\* A character joins the line, if there is room; it may complete the line.
Type(c) ==
  LET l == Append(line, c) IN
  /\ Len(input) + Len(line) < Room
  /\ IF c \in {Newline, Eof} \/ Len(input) + Len(l) = Room
     THEN input' = input \o l /\ line' = <<>>
     ELSE line' = l /\ UNCHANGED input

\* Backspace takes one character of the line back, "kill line" all of them.
Erase == line # <<>> /\ line' = SubSeq(line, 1, Len(line) - 1) /\ UNCHANGED input
KillLine == line' = <<>> /\ UNCHANGED input

\* A reader takes the next character.
Get == input # <<>> /\ input' = Tail(input) /\ UNCHANGED line

TtySpec == TtyInit /\ [][(\E c \in Chars : Type(c)) \/ Erase \/ KillLine \/ Get]_<<input, line>>
=============================================================================
