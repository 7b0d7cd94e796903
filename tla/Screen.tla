------------------------------- MODULE Screen -------------------------------
(***************************************************************************)
(* The text screen: cgaputc (console.c) on ROWS lines of COLS characters,  *)
(* of which the last is never written to (25 * 80 in the code).            *)
(***************************************************************************)
EXTENDS Naturals

CONSTANTS ROWS, COLS, Glyph, Blank

VARIABLES
    crt,   \* CGA memory
    pos    \* the cursor, in the registers of the controller

vars == <<crt, pos>>

Newline == "\n"
BACKSPACE == "backspace"
Key == Glyph \cup {Newline, BACKSPACE}

TypeOK == crt \in [0 .. ROWS * COLS -> Glyph \cup {Blank}] /\ pos \in 0 .. ROWS * COLS

Moved(c) ==
    CASE c = Newline -> pos + COLS - (pos % COLS)
      [] c = BACKSPACE -> IF pos > 0 THEN pos - 1 ELSE pos
      [] OTHER -> pos + 1

\* Scroll up: all lines but the first move, and what follows the cursor up to
\* the last line is cleared.
Scrolled(s, at) ==
    [k \in DOMAIN s |->
        CASE k \in at .. (ROWS - 1) * COLS - 1 -> Blank
          [] k < (ROWS - 2) * COLS /\ k < at -> s[k + COLS]
          [] OTHER -> s[k]]

cgaputc(c) ==
    LET put == IF c \in Glyph THEN [crt EXCEPT ![pos] = c] ELSE crt
        at == Moved(c)
        scroll == at \div COLS >= ROWS - 1 IN
    /\ pos' = IF scroll THEN at - COLS ELSE at
    /\ crt' = [(IF scroll THEN Scrolled(put, at - COLS) ELSE put) EXCEPT ![pos'] = Blank]

Init == crt = [k \in 0 .. ROWS * COLS |-> Blank] /\ pos = 0

Next == \E c \in Key : cgaputc(c)

Spec == Init /\ [][Next]_vars

\* The cursor stays above the last line, so the test for "pos under/overflow"
\* and the end of CGA memory are out of reach, and what comes after the cursor
\* is blank: nothing old shows up when a line is scrolled in or erased.
CursorInBlank ==
    /\ pos < (ROWS - 1) * COLS
    /\ \A k \in pos .. ROWS * COLS - 1 : crt[k] = Blank
=============================================================================
