--------------------------------- MODULE Kbd ---------------------------------
(***************************************************************************)
(* kbd.c: from the bytes of the keyboard to characters.  A key has a code  *)
(* below 128, and the keys of the right and of the keypad send an escape   *)
(* (0xE0) first.  The keyboard is external: it sends what is pressed and   *)
(* released.                                                               *)
(***************************************************************************)
EXTENDS Integers, Sequences, FiniteSets

LOCAL INSTANCE SequencesExt

CONSTANT MAXHELD   \* number of keys that may be down at a time

VARIABLES
    shift,  \* kbdgetc's static: the modifiers that are on
    held,   \* keys that are down
    sent    \* bytes that the controller holds

vars == <<shift, held, sent>>

\* The two controls, the two shifts, the two alts, the three locks, and a letter.
Keys == [esc : {FALSE}, code : {29, 42, 54, 56, 58, 69, 70, 30}] \cup [esc : {TRUE}, code : {29, 56}]
Escape == 224

shiftcode(data) == CASE data \in {29, 157} -> {"CTL"}
                     [] data \in {42, 54}  -> {"SHIFT"}
                     [] data \in {56, 184} -> {"ALT"}
                     [] OTHER -> {}
togglecode(data) == CASE data = 58 -> {"CAPSLOCK"}
                      [] data = 69 -> {"NUMLOCK"}
                      [] data = 70 -> {"SCROLLLOCK"}
                      [] OTHER -> {}

Locks == {"CAPSLOCK", "NUMLOCK", "SCROLLLOCK"}

TypeOK ==
    /\ shift \subseteq {"CTL", "SHIFT", "ALT", "E0ESC"} \cup Locks
    /\ held \subseteq Keys /\ Len(sent) <= 2

Init == shift = {} /\ held = {} /\ sent = <<>>

\* The keyboard.  A key that stays down repeats itself.
Bytes(k, code) == IF k.esc THEN <<Escape, code>> ELSE <<code>>
Press(k) ==
    /\ sent = <<>> /\ Cardinality(held \cup {k}) <= MAXHELD
    /\ sent' = Bytes(k, k.code) /\ held' = held \cup {k} /\ UNCHANGED shift
Release(k) ==
    /\ sent = <<>> /\ k \in held
    /\ sent' = Bytes(k, k.code + 128) /\ held' = held \ {k} /\ UNCHANGED shift

\* What kbdgetc makes of its shift and a byte.
After(s, data) ==
    IF data = Escape THEN s \cup {"E0ESC"}
    ELSE IF data >= 128
    THEN s \ (shiftcode(IF "E0ESC" \in s THEN data ELSE data - 128) \cup {"E0ESC"})
    ELSE LET d == IF "E0ESC" \in s THEN data + 128 ELSE data IN
         SymDiff((s \ {"E0ESC"}) \cup shiftcode(d), togglecode(d))

kbdgetc == sent # <<>> /\ shift' = After(shift, Head(sent)) /\ sent' = Tail(sent) /\ UNCHANGED held

Next == kbdgetc \/ \E k \in Keys : Press(k) \/ Release(k)

\* Once every byte is taken, no escape waits for its key and a modifier is on
\* only while one of its keys is down, in whatever order the keys came and went.
ModifiersHeld ==
    sent = <<>> =>
        /\ "E0ESC" \notin shift
        /\ \A m \in shift \ Locks : \E k \in held : m \in shiftcode(k.code)
=============================================================================
