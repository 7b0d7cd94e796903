-------------------------------- MODULE Disk --------------------------------
(***************************************************************************)
(* The buffer cache (bio.c) over the IDE driver (ide.c) or over the disk   *)
(* in memory (memide.c).                                                   *)
(*                                                                         *)
(* A critical section of bcache.lock or idelock is one step; acquiresleep  *)
(* and the two halves of brelse are steps of their own.  The controller    *)
(* works on its own and interrupts when it is done.                        *)
(***************************************************************************)
EXTENDS Naturals, Sequences, FiniteSets

CONSTANTS
    Proc, Block, Val, None,
    Changing, \* blocks that get new contents; the others are written as they are
    NBUF,     \* buffers
    MAXPIN,   \* blocks that the log may have pinned at a time
    Errors    \* outcomes of a read command: a subset of BOOLEAN

Buf == 1 .. NBUF

ASSUME NoneAssumption == None \notin Proc /\ None \notin Block /\ None \notin Buf
ASSUME SizeAssumption == NBUF \in Nat \ {0} /\ IsFiniteSet(Proc) /\ Val # {}

VARIABLES
    buf,       \* bcache.buf
    list,      \* bcache.head.next and on, most recently used first
    idequeue,
    ide,       \* the controller: its command and how far it is
    disk,      \* [Block -> Val]
    pc, want,  \* where each process is and the block it asked bread for
    b,         \* the buffer that bget gave it
    memdisk    \* the kernel is linked with memide.c

vars == <<buf, list, idequeue, ide, disk, pc, want, b, memdisk>>
procvars == <<pc, want, b>>

Idle == [st |-> "idle"]

Buffer == [blockno : Block \cup {None}, valid : BOOLEAN, dirty : BOOLEAN,
           refcnt : Nat, lock : Proc \cup {None}, data : Val]
Place == {"out", "acquiresleep", "iderw", "asleep", "woken", "has", "brelse",
          "no buffers", "panic"}

TypeOK ==
    /\ buf \in [Buf -> Buffer]
    /\ list \in [Buf -> Buf] /\ \A x \in Buf : \E i \in Buf : list[i] = x
    /\ idequeue \in Seq(Buf)
    /\ ide = Idle \/ ide \in [st : {"busy", "done"}, blockno : Block,
                              write : BOOLEAN, data : Val]
    /\ disk \in [Block -> Val]
    /\ pc \in [Proc -> Place]
    /\ want \in [Proc -> Block \cup {None}]
    /\ b \in [Proc -> Buf \cup {None}]
    /\ memdisk \in BOOLEAN

Pinned == {x \in Buf : buf[x].dirty}

-----------------------------------------------------------------------------
(* bio.c *)

Hits(k) == {x \in Buf : buf[x].blockno = k}
\* Faulty: a buffer that somebody waits for may be recycled.
FreeUnlocked == {i \in Buf : buf[list[i]].lock = None /\ ~buf[list[i]].dirty}
\* Faulty: ignores B_DIRTY.
FreeUnpinned == {i \in Buf : buf[list[i]].refcnt = 0}
\* Places in the list of the buffers that may be recycled.
Free == {i \in Buf : buf[list[i]].refcnt = 0 /\ ~buf[list[i]].dirty}

\* bget up to its release of bcache.lock: the cached buffer, or the least
\* recently used free one.
bget(p, k) ==
    /\ pc[p] = "out"
    /\ want' = [want EXCEPT ![p] = k]
    /\ \/ \E x \in Hits(k) :
             /\ buf' = [buf EXCEPT ![x].refcnt = @ + 1]
             /\ b' = [b EXCEPT ![p] = x]
             /\ pc' = [pc EXCEPT ![p] = "acquiresleep"]
       \/ /\ Hits(k) = {}
          /\ \E i \in Free :
             /\ \A j \in Free : j <= i
             /\ buf' = [buf EXCEPT ![list[i]] = [@ EXCEPT !.blockno = k, !.valid = FALSE,
                                                          !.dirty = FALSE, !.refcnt = 1]]
             /\ b' = [b EXCEPT ![p] = list[i]]
          /\ pc' = [pc EXCEPT ![p] = "acquiresleep"]
       \/ /\ Hits(k) = {} /\ Free = {}
          /\ pc' = [pc EXCEPT ![p] = "no buffers"]
          /\ UNCHANGED <<buf, b>>
    /\ UNCHANGED <<list, idequeue, ide, disk, memdisk>>

\* The end of bget, and bread's test of B_VALID.
acquiresleep(p) ==
    /\ pc[p] = "acquiresleep" /\ buf[b[p]].lock = None
    /\ buf' = [buf EXCEPT ![b[p]].lock = p]
    /\ pc' = [pc EXCEPT ![p] = IF buf[b[p]].valid THEN "has" ELSE "iderw"]
    /\ UNCHANGED <<list, idequeue, ide, disk, want, b, memdisk>>

\* The holder changes the data and calls bwrite ...
bwrite(p, v) ==
    /\ pc[p] = "has" /\ (want[p] \in Changing \/ v = buf[b[p]].data)
    /\ IF buf[b[p]].lock # p
       THEN pc' = [pc EXCEPT ![p] = "panic"] /\ UNCHANGED buf
       ELSE /\ buf' = [buf EXCEPT ![b[p]].data = v, ![b[p]].dirty = TRUE]
            /\ pc' = [pc EXCEPT ![p] = "iderw"]
    /\ UNCHANGED <<list, idequeue, ide, disk, want, b, memdisk>>

\* ... or log_write, which leaves the buffer B_DIRTY until the commit.
log_write(p, v) ==
    /\ pc[p] = "has" /\ (want[p] \in Changing \/ v = buf[b[p]].data)
    /\ Cardinality(Pinned \cup {b[p]}) <= MAXPIN
    /\ buf' = [buf EXCEPT ![b[p]].data = v, ![b[p]].dirty = TRUE]
    /\ UNCHANGED <<list, idequeue, ide, disk, procvars, memdisk>>

\* brelse: releasesleep, then the critical section of bcache.lock.
releasesleep(p) ==
    /\ pc[p] = "has"
    /\ IF buf[b[p]].lock # p
       THEN pc' = [pc EXCEPT ![p] = "panic"] /\ UNCHANGED buf
       ELSE /\ buf' = [buf EXCEPT ![b[p]].lock = None]
            /\ pc' = [pc EXCEPT ![p] = "brelse"]
    /\ UNCHANGED <<list, idequeue, ide, disk, want, b, memdisk>>

\* The list after x has been unlinked and put at its head.
MoveToFront(x) ==
    [i \in Buf |-> IF i = 1 THEN x
                   ELSE IF \E j \in 1 .. i - 1 : list[j] = x THEN list[i]
                   ELSE list[i - 1]]

brelse(p) ==
    LET x == b[p] IN
    /\ pc[p] = "brelse"
    /\ buf' = [buf EXCEPT ![x].refcnt = @ - 1]
    /\ list' = IF buf'[x].refcnt = 0 THEN MoveToFront(x) ELSE list
    /\ pc' = [pc EXCEPT ![p] = "out"]
    /\ want' = [want EXCEPT ![p] = None]
    /\ b' = [b EXCEPT ![p] = None]
    /\ UNCHANGED <<idequeue, ide, disk, memdisk>>

-----------------------------------------------------------------------------
(* ide.c and memide.c *)

\* idestart: idewait, then the command and, for a write, its data.
idestart(x) ==
    [st |-> "busy", blockno |-> buf[x].blockno, write |-> buf[x].dirty,
     data |-> buf[x].data]

Ready(x) == buf[x].valid /\ ~buf[x].dirty

\* iderw under idelock, until it sleeps.
iderw(p) ==
    LET x == b[p] IN
    /\ pc[p] = "iderw" /\ ~memdisk
    /\ IF buf[x].lock # p \/ Ready(x)
       THEN pc' = [pc EXCEPT ![p] = "panic"] /\ UNCHANGED <<idequeue, ide>>
       ELSE /\ idequeue' = Append(idequeue, x)
            /\ ide' = IF idequeue = <<>> THEN idestart(x) ELSE ide
            /\ pc' = [pc EXCEPT ![p] = "asleep"]
    /\ UNCHANGED <<buf, list, disk, want, b, memdisk>>

\* Back from sleep(b, &idelock).
IderwDone(p) ==
    /\ pc[p] = "woken"
    /\ pc' = [pc EXCEPT ![p] = IF Ready(b[p]) THEN "has" ELSE "asleep"]
    /\ UNCHANGED <<buf, list, idequeue, ide, disk, want, b, memdisk>>

\* The controller finishes its command and raises its interrupt.
Finish ==
    /\ ide.st = "busy"
    /\ ide' = [ide EXCEPT !.st = "done"]
    /\ disk' = IF ide.write THEN [disk EXCEPT ![ide.blockno] = ide.data] ELSE disk
    /\ UNCHANGED <<buf, list, idequeue, procvars, memdisk>>

\* ideintr: the request at the head is served, its process is woken and the
\* next request started.  A read that failed leaves the data as they were.
ideintr ==
    LET x == Head(idequeue) IN
    \/ ide.st = "idle" /\ idequeue = <<>> /\ UNCHANGED vars
    \/ /\ ide.st = "done" /\ idequeue # <<>>
       /\ idequeue' = Tail(idequeue)
       /\ \E err \in Errors :
             buf' = [buf EXCEPT ![x].valid = TRUE, ![x].dirty = FALSE,
                                ![x].data = IF buf[x].dirty \/ err THEN @
                                            ELSE disk[ide.blockno]]
       /\ pc' = [q \in Proc |-> IF pc[q] = "asleep" /\ b[q] = x THEN "woken"
                                ELSE pc[q]]
       /\ ide' = IF idequeue' = <<>> THEN Idle ELSE idestart(Head(idequeue'))
       /\ UNCHANGED <<list, disk, want, b, memdisk>>

\* iderw of memide.c: no queue, no interrupt.
MemIderw(p) ==
    LET x == b[p] IN
    /\ pc[p] = "iderw" /\ memdisk
    /\ IF buf[x].lock # p \/ Ready(x)
       THEN pc' = [pc EXCEPT ![p] = "panic"] /\ UNCHANGED <<buf, disk>>
       ELSE /\ disk' = IF buf[x].dirty THEN [disk EXCEPT ![buf[x].blockno] = buf[x].data]
                       ELSE disk
            /\ buf' = [buf EXCEPT ![x].valid = TRUE, ![x].dirty = FALSE,
                                  ![x].data = disk'[buf[x].blockno]]
            /\ pc' = [pc EXCEPT ![p] = "has"]
    /\ UNCHANGED <<list, idequeue, ide, want, b, memdisk>>

-----------------------------------------------------------------------------
\* After binit and ideinit.
Init ==
    /\ LET v == CHOOSE v \in Val : TRUE IN
       /\ disk = [k \in Block |-> v]
       /\ buf = [x \in Buf |-> [blockno |-> None, valid |-> FALSE, dirty |-> FALSE,
                                refcnt |-> 0, lock |-> None, data |-> v]]
    /\ list = [i \in Buf |-> NBUF + 1 - i]
    /\ idequeue = <<>> /\ ide = Idle
    /\ pc = [p \in Proc |-> "out"]
    /\ want = [p \in Proc |-> None] /\ b = [p \in Proc |-> None]
    /\ memdisk \in BOOLEAN

Next ==
    \/ \E p \in Proc :
          \/ \E k \in Block : bget(p, k)
          \/ \E v \in Val : bwrite(p, v) \/ log_write(p, v)
          \/ acquiresleep(p) \/ releasesleep(p) \/ brelse(p)
          \/ iderw(p) \/ IderwDone(p) \/ MemIderw(p)
    \/ Finish
    \/ ideintr

Spec == Init /\ [][Next]_vars

-----------------------------------------------------------------------------
(* Properties *)

\* What bread returns for a block, or would return.
View ==
    [k \in Block |-> LET S == {x \in Buf : buf[x].blockno = k /\ buf[x].valid} IN
                     IF S = {} THEN disk[k] ELSE buf[CHOOSE x \in S : TRUE].data]

\* A process is between bread and brelse, or inside the bwrite it makes there.
Holding ==
    [p \in Proc |-> IF \/ pc[p] = "has"
                       \/ pc[p] \in {"iderw", "asleep", "woken"} /\ buf[b[p]].valid
                    THEN want[p] ELSE None]

Store == INSTANCE BlockStore WITH content <- View, holding <- Holding

\* A block has at most one buffer, and nobody's buffer is recycled for another
\* block between bget's release of bcache.lock and brelse.
OneBuffer ==
    /\ \A k \in Block : Cardinality(Hits(k)) <= 1
    /\ \A p \in Proc : b[p] # None => buf[b[p]].blockno = want[p]

\* The controller works on the head of the queue and stops only when the queue
\* is empty; a queued buffer is there once and its owner waits for it, and who
\* sleeps in iderw has its buffer in the queue.
QueueServed ==
    /\ ide = Idle <=> idequeue = <<>>
    /\ idequeue # <<>> => ide.blockno = buf[Head(idequeue)].blockno
    /\ \A i, j \in DOMAIN idequeue : idequeue[i] = idequeue[j] => i = j
    /\ \A i \in DOMAIN idequeue :
          \E p \in Proc : pc[p] = "asleep" /\ b[p] = idequeue[i] /\ buf[b[p]].lock = p
    /\ \A p \in Proc : pc[p] = "asleep" => \E i \in DOMAIN idequeue : idequeue[i] = b[p]

\* Those that a buffer's reference count counts.
Users(x) == {p \in Proc : b[p] = x}

\* bwrite, brelse and iderw find their buffer locked by the caller, and iderw
\* something to do.  "bget: no buffers" is a place of its own that this does not
\* exclude: it is reached when every buffer is B_DIRTY or some process has it,
\* and not otherwise, since no reference outlives its process's use.
NoPanic ==
    /\ \A p \in Proc : pc[p] # "panic"
    /\ \A x \in Buf : buf[x].refcnt = Cardinality(Users(x))

\* A block has one buffer at most, whoever looks for it at the same time (bget);
\* what iderw has queued is what the disk works on and what its callers sleep
\* for; the panics of bwrite, brelse and iderw are not reached, and a buffer is
\* neither pinned nor counted without a reason, so that bget panics only when
\* all of them are in use.
DiskSound == TypeOK /\ OneBuffer /\ QueueServed /\ NoPanic

\* bread, bwrite and brelse give every process the contents that were last put
\* into a block, and a block to one process at a time, whatever is cached,
\* recycled or queued for the disk.
BlocksSpec == Store!Spec

-----------------------------------------------------------------------------
(* The inductive invariant *)

\* Where a process has its buffer locked.
Owning == {"iderw", "asleep", "woken", "has"}

\* A process has a buffer from bget to brelse, and it is its block's only one.
BufInv ==
    /\ \A p \in Proc : b[p] = None <=> pc[p] \in {"out", "no buffers"}
    /\ \A p \in Proc : b[p] # None => want[p] \in Block /\ buf[b[p]].blockno = want[p]
    /\ \A x, y \in Buf : buf[x].blockno = buf[y].blockno => x = y \/ buf[x].blockno = None

LockInv ==
    /\ \A p \in Proc : pc[p] \in Owning => buf[b[p]].lock = p
    /\ \A p \in Proc, x \in Buf : buf[x].lock = p => b[p] = x /\ pc[p] \in Owning

\* What iderw is called for, and what its caller finds afterwards.
FlagInv ==
    /\ \A p \in Proc : /\ pc[p] \in {"iderw", "asleep"} => ~Ready(b[p])
                       /\ pc[p] = "woken" => Ready(b[p])
                       /\ pc[p] = "has" => buf[b[p]].valid
    /\ \A x \in Buf : /\ buf[x].dirty => buf[x].valid
                      /\ buf[x].valid => buf[x].blockno # None

QueueInv ==
    /\ \A i, j \in DOMAIN idequeue : idequeue[i] = idequeue[j] => i = j
    /\ \A i \in DOMAIN idequeue : \E p \in Proc : pc[p] = "asleep" /\ b[p] = idequeue[i]
    /\ \A p \in Proc : pc[p] = "asleep" => \E i \in DOMAIN idequeue : idequeue[i] = b[p]
    /\ memdisk => idequeue = <<>>

CommandInv ==
    /\ ide = Idle <=> idequeue = <<>>
    /\ idequeue # <<>> => LET x == Head(idequeue) IN
          ide.blockno = buf[x].blockno /\ ide.write = buf[x].dirty /\ ide.data = buf[x].data

IInv == TypeOK /\ NoPanic /\ BufInv /\ LockInv /\ FlagInv /\ QueueInv /\ CommandInv

\* While no command fails, what is clean in memory is what the disk holds.
Coherent ==
    /\ \A x \in Buf : Ready(x) => buf[x].data = disk[buf[x].blockno]
    /\ ide.st = "done" /\ ide.write => disk[ide.blockno] = ide.data
=============================================================================
