------------------------------- MODULE Lines -------------------------------
(***************************************************************************)
(* What console input (console.c) promises: lines that are typed, edited   *)
(* and committed, and whose characters are read once and in order.         *)
(***************************************************************************)
EXTENDS Naturals, Sequences, SequencesExt

CONSTANTS Char, Newline, Eof, INPUT_BUF

VARIABLES
    line,   \* characters that can still be edited
    ready   \* characters that readers may have

Init == line = <<>> /\ ready = <<>>

\* A character is taken while there is room; a full buffer commits like a
\* newline or an end of file.
Type(c) ==
    LET new == Append(line, c)
        full == Len(ready) + Len(new) = INPUT_BUF IN
    /\ Len(ready) + Len(line) < INPUT_BUF
    /\ IF c \in {Newline, Eof} \/ full
       THEN ready' = ready \o new /\ line' = <<>>
       ELSE line' = new /\ UNCHANGED ready

Erase == line # <<>> /\ line' = Front(line) /\ UNCHANGED ready

EraseLine == line' = <<>> /\ UNCHANGED ready

Take == ready # <<>> /\ ready' = Tail(ready) /\ UNCHANGED line

Next == (\E c \in Char : Type(c)) \/ Erase \/ EraseLine \/ Take

vars == <<line, ready>>
Spec == Init /\ [][Next]_vars
============================================================================
