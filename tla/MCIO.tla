-------------------------------- MODULE MCIO --------------------------------
(***************************************************************************)
(* The devices side by side: disk and buffers (Disk), and the console      *)
(* (Console, Screen, Kbd).  They share no state.  A behaviour is one of    *)
(* the component that focus names, while the others stay in their initial  *)
(* states, so the numbers of states add up and do not multiply.            *)
(***************************************************************************)
EXTENDS Disk

CONSTANT Killable   \* the processes that kill is called for

VARIABLES
    focus,                                                   \* the component
    cbuf, r, w, e, iplock, cpc, cn, target, ckilled, got,    \* Console
    crt, pos,                                                \* Screen
    shift, held, sent                                        \* Kbd

CO == INSTANCE Console WITH
    Char <- {1, 2, 3}, Newline <- 2, Eof <- 3, INPUT_BUF <- 2, UMAX <- 4, Counts <- {2},
    buf <- cbuf, pc <- cpc, n <- cn, killed <- ckilled

SC == INSTANCE Screen WITH ROWS <- 4, COLS <- 2, Glyph <- {"g"}, Blank <- " "

KB == INSTANCE Kbd WITH MAXHELD <- 3

diskvars == <<buf, list, idequeue, ide, disk, pc, want, b, memdisk>>
covars == <<cbuf, r, w, e, iplock, cpc, cn, target, ckilled, got>>
scvars == <<crt, pos>>
kbvars == <<shift, held, sent>>

AllInit ==
    /\ focus \in {"Disk", "Console", "Screen", "Kbd"}
    /\ Init /\ (focus # "Disk" => ~memdisk)
    /\ CO!Init /\ SC!Init /\ KB!Init

AllNext ==
    \/ focus = "Disk" /\ Next /\ UNCHANGED <<covars, scvars, kbvars, focus>>
    \/ focus = "Console" /\ CO!Next /\ UNCHANGED <<diskvars, scvars, kbvars, focus>>
    \/ focus = "Screen" /\ SC!Next /\ UNCHANGED <<diskvars, covars, kbvars, focus>>
    \/ focus = "Kbd" /\ KB!Next /\ UNCHANGED <<diskvars, covars, scvars, focus>>

\* The controller finishes, interrupts are delivered, and a process that is not
\* asleep goes on: at the console also when it meets a lock that is taken and
\* let go again and again.  Nobody has to type.
AllFairness ==
    /\ WF_diskvars(focus = "Disk" /\ Finish)
    /\ WF_diskvars(focus = "Disk" /\ ideintr)
    /\ \A p \in Proc : WF_diskvars(focus = "Disk" /\ (iderw(p) \/ IderwDone(p) \/ MemIderw(p)))
    /\ \A p \in Proc : SF_covars(focus = "Console" /\ CO!Turn(p))

AllSpec ==
    /\ AllInit /\ [][AllNext]_<<diskvars, covars, scvars, kbvars, focus>>
    /\ AllFairness

-----------------------------------------------------------------------------
\* console.c's input ring is a line editor in front of a queue, while its
\* counters wrap and the ring fills up.
LinesSpec == CO!LinesSpec

\* The console from key to screen: kbdgetc has a modifier on only while one of
\* its keys is down; nobody sleeps in consoleread while there are characters to
\* read, or with the inode locked, it returns one line at most, and what is typed
\* and not read fits into the ring; cgaputc keeps the cursor on the screen and what follows it blank.
ConsoleSound ==
    CASE focus = "Console" -> CO!IInv
      [] focus = "Screen" -> SC!TypeOK /\ SC!CursorInBlank
      [] focus = "Kbd" -> KB!TypeOK /\ KB!ModifiersHeld
      [] OTHER -> TRUE

\* A process waits: for the disk in iderw; for the console's inode, before the
\* driver and at its end, and for cons.lock in consolewrite; or it is a reader
\* that was killed and is not asleep.
Waits(p) ==
    \/ focus = "Disk" /\ pc[p] \in {"iderw", "asleep", "woken"}
    \/ /\ focus = "Console"
       /\ \/ cpc[p] \in {"fileread", "filewrite", "write", "ilock"}
          \/ cpc[p] = "read" /\ ckilled[p]

\* iderw returns whatever is queued before it; a write to the console returns
\* although consoleread sleeps, with the inode unlocked, until somebody types;
\* and a reader that kill has woken returns although nobody types.
CallsReturn == \A p \in Proc : Waits(p) ~> ~Waits(p)
=============================================================================
