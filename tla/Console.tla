------------------------------ MODULE Console ------------------------------
(***************************************************************************)
(* Console input and the inode lock around it (console.c, and the calls of *)
(* readi and writei from file.c).  A critical section of cons.lock handles *)
(* one character; several characters in one interrupt are several steps.   *)
(* Between the test of killed in consoleread and its sleep cons.lock is    *)
(* held, but kill, which takes ptable.lock alone, may come.                *)
(***************************************************************************)
EXTENDS Naturals, Sequences

CONSTANTS
    Proc,
    Killable,   \* the processes that may be killed
    Char, Newline, Eof, \* ordinary characters with '\n' and C('D')
    None,
    INPUT_BUF,
    UMAX,       \* number of values of a uint
    Counts      \* counts of reads

VARIABLES
    buf, r, w, e,  \* input
    iplock,        \* the process that holds the lock of the console's inode
    pc, n, target, killed,
    got            \* what a reader has been given in its call

inputvars == <<buf, r, w, e>>
callvars == <<pc, n, target, got>>
vars == <<inputvars, iplock, callvars, killed>>

Sub(x, y) == (x + UMAX - y) % UMAX
Add(x, y) == (x + y) % UMAX

\* Where a process is; one at "tested" holds cons.lock.
Place == {"out", "fileread", "filewrite", "read", "tested", "asleep", "write", "ilock"}

TypeOK ==
    /\ buf \in [0 .. INPUT_BUF - 1 -> Char \cup {None}]
    /\ {r, w, e} \subseteq 0 .. UMAX - 1
    /\ iplock \in Proc \cup {None}
    /\ pc \in [Proc -> Place]
    /\ n \in [Proc -> Nat] /\ target \in [Proc -> Counts \cup {0}]
    /\ killed \in [Proc -> BOOLEAN]
    /\ got \in [Proc -> Seq(Char)]

-----------------------------------------------------------------------------
(* consoleintr *)

Locked == \E p \in Proc : pc[p] = "tested"

Wakeup == [p \in Proc |-> IF pc[p] = "asleep" THEN "read" ELSE pc[p]]

\* Faulty: tests the edited line alone against the size of the ring.
RoomPastReader == Sub(e, w) < INPUT_BUF

Room == Sub(e, r) < INPUT_BUF

\* Faulty: commits what fills the ring and wakes nobody.
TypeSilent(c) ==
    /\ Room
    /\ buf' = [buf EXCEPT ![e % INPUT_BUF] = c]
    /\ e' = Add(e, 1)
    /\ w' = IF c \in {Newline, Eof} \/ e' = Add(r, INPUT_BUF) THEN e' ELSE w
    /\ pc' = IF c \in {Newline, Eof} THEN Wakeup ELSE pc
    /\ UNCHANGED <<r, iplock, n, target, got, killed>>

TypeChar(c) ==
    /\ Room
    /\ buf' = [buf EXCEPT ![e % INPUT_BUF] = c]
    /\ e' = Add(e, 1)
    /\ IF c \in {Newline, Eof} \/ e' = Add(r, INPUT_BUF)
       THEN w' = e' /\ pc' = Wakeup
       ELSE UNCHANGED <<w, pc>>
    /\ UNCHANGED <<r, iplock, n, target, got, killed>>

Backspace ==
    /\ e # w
    /\ e' = Sub(e, 1)
    /\ UNCHANGED <<buf, r, w, iplock, callvars, killed>>

\* The loop of C('U') goes back to w, or to a newline on the way.
KillLine ==
    LET stops == {k \in 0 .. Sub(e, w) :
                    k = Sub(e, w) \/ buf[Sub(e, k + 1) % INPUT_BUF] = Newline} IN
    /\ e' = Sub(e, CHOOSE k \in stops : \A j \in stops : k <= j)
    /\ UNCHANGED <<buf, r, w, iplock, callvars, killed>>

\* C('P') changes nothing, and a character is dropped when there is no room.
consoleintr ==
    /\ ~Locked
    /\ \/ \E c \in Char : TypeChar(c)
       \/ KillLine
       \/ Backspace

-----------------------------------------------------------------------------
(* consoleread and consolewrite, called with the inode locked *)

\* fileread or filewrite of the console.  A write that filewrite cuts into chunks
\* is several calls here, and its begin_op is that of Log.
Begin(p, m, to) ==
    /\ pc[p] = "out"
    /\ pc' = [pc EXCEPT ![p] = to]
    /\ n' = [n EXCEPT ![p] = m] /\ target' = [target EXCEPT ![p] = m]
    /\ UNCHANGED <<inputvars, iplock, got, killed>>

\* ilock, in fileread and filewrite and at the end of the driver.
ilock(p) ==
    /\ pc[p] \in {"fileread", "filewrite", "ilock"} /\ iplock = None
    /\ iplock' = p
    /\ UNCHANGED <<inputvars, callvars, killed>>

\* Faulty: the driver keeps the inode locked.
KeepLock(p) ==
    /\ pc[p] \in {"fileread", "filewrite"} /\ iplock = p
    /\ pc' = [pc EXCEPT ![p] = IF @ = "fileread" THEN "read" ELSE "write"]
    /\ UNCHANGED <<inputvars, iplock, n, target, got, killed>>

\* readi or writei calls the driver, which starts with iunlock.
iunlock(p) ==
    /\ pc[p] \in {"fileread", "filewrite"} /\ iplock = p
    /\ iplock' = None
    /\ pc' = [pc EXCEPT ![p] = IF @ = "fileread" THEN "read" ELSE "write"]
    /\ UNCHANGED <<inputvars, n, target, got, killed>>

\* One turn of the loop of consoleread.
ReadChar(p) ==
    LET c == buf[r % INPUT_BUF] IN
    /\ pc[p] = "read" /\ n[p] > 0 /\ r # w /\ ~Locked
    /\ IF c = Eof
       THEN /\ r' = IF n[p] < target[p] THEN r ELSE Add(r, 1)
            /\ pc' = [pc EXCEPT ![p] = "ilock"]
            /\ UNCHANGED <<n, got>>
       ELSE /\ r' = Add(r, 1)
            /\ got' = [got EXCEPT ![p] = Append(@, c)]
            /\ n' = [n EXCEPT ![p] = @ - 1]
            /\ pc' = [pc EXCEPT ![p] = IF c = Newline \/ n'[p] = 0 THEN "ilock" ELSE @]
    /\ UNCHANGED <<buf, w, e, iplock, target, killed>>

\* Nothing to read: give up when killed.
ReadWait(p) ==
    /\ pc[p] = "read" /\ n[p] > 0 /\ r = w /\ ~Locked
    /\ pc' = [pc EXCEPT ![p] = IF killed[p] THEN "ilock" ELSE "tested"]
    /\ UNCHANGED <<inputvars, iplock, n, target, got, killed>>

\* Sleep on input.r; cons.lock is free again.
sleep(p) ==
    /\ pc[p] = "tested"
    /\ pc' = [pc EXCEPT ![p] = "asleep"]
    /\ UNCHANGED <<inputvars, iplock, n, target, got, killed>>

\* consolewrite puts its characters on the screen under cons.lock; so does a
\* read of no characters.
Write(p) ==
    /\ pc[p] = "write" \/ (pc[p] = "read" /\ n[p] = 0)
    /\ ~Locked
    /\ pc' = [pc EXCEPT ![p] = "ilock"]
    /\ UNCHANGED <<inputvars, iplock, n, target, got, killed>>

\* After the driver's ilock: iunlock in fileread or filewrite, which return.
End(p) ==
    /\ pc[p] = "ilock" /\ iplock = p
    /\ iplock' = None
    /\ pc' = [pc EXCEPT ![p] = "out"]
    /\ n' = [n EXCEPT ![p] = 0] /\ target' = [target EXCEPT ![p] = 0]
    /\ got' = [got EXCEPT ![p] = <<>>]
    /\ UNCHANGED <<inputvars, killed>>

Turn(p) ==
    \/ ilock(p) \/ iunlock(p)
    \/ ReadChar(p) \/ ReadWait(p) \/ sleep(p) \/ Write(p) \/ End(p)

Kill(p) ==
    /\ p \in Killable /\ ~killed[p]
    /\ killed' = [killed EXCEPT ![p] = TRUE]
    /\ pc' = [pc EXCEPT ![p] = IF @ = "asleep" THEN "read" ELSE @]
    /\ UNCHANGED <<inputvars, iplock, n, target, got>>

-----------------------------------------------------------------------------
Init ==
    /\ buf = [k \in 0 .. INPUT_BUF - 1 |-> None]
    /\ r = 0 /\ w = r /\ e = r
    /\ iplock = None
    /\ pc = [p \in Proc |-> "out"]
    /\ n = [p \in Proc |-> 0] /\ target = [p \in Proc |-> 0]
    /\ killed = [p \in Proc |-> FALSE]
    /\ got = [p \in Proc |-> <<>>]

Next ==
    \/ consoleintr
    \/ \E p \in Proc : \/ \E m \in Counts : Begin(p, m, "fileread")
                       \/ Begin(p, 0, "filewrite")
                       \/ Turn(p) \/ Kill(p)

Spec == Init /\ [][Next]_vars

-----------------------------------------------------------------------------
(* Properties *)

Slice(from, to) ==
    [k \in 1 .. Sub(to, from) |-> buf[Add(from, k - 1) % INPUT_BUF]]

L == INSTANCE Lines WITH line <- Slice(w, e), ready <- Slice(r, w)

\* The ring with its three counters, which wrap around, is a line editor in
\* front of a queue: editing never touches characters that are committed, a
\* full ring commits, and every committed character is read once, in order.
LinesSpec == L!Spec

\* Nobody sleeps in consoleread, or is about to, while there is something to read.
NoLostWakeup == (\E p \in Proc : pc[p] \in {"tested", "asleep"}) => r = w

\* Nobody waits for input, or prints, with the console's inode locked.
InodeFree == \A p \in Proc : iplock = p => pc[p] \in {"fileread", "filewrite", "ilock"}

\* A read returns at most one line, and nothing after its end.
OneLine ==
    \A p \in Proc :
        /\ Len(got[p]) = target[p] - n[p]
        /\ \A k \in DOMAIN got[p] :
              got[p][k] = Newline => k = Len(got[p]) /\ pc[p] = "ilock"

-----------------------------------------------------------------------------
(* The inductive invariant *)

\* What is between r and e fits into the ring, and a line that is being edited
\* has none of the characters that commit it.
RingInv ==
    /\ Sub(w, r) + Sub(e, w) <= INPUT_BUF
    /\ Slice(r, w) \in Seq(Char)
    /\ Slice(w, e) \in Seq(Char \ {Newline, Eof})

\* A call begins with nothing read.
CallInv ==
    \A p \in Proc : pc[p] \in {"out", "fileread", "filewrite", "write"} => got[p] = <<>>

IInv == TypeOK /\ NoLostWakeup /\ InodeFree /\ OneLine /\ RingInv /\ CallInv
============================================================================
