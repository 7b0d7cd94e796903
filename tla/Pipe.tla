-------------------------------- MODULE Pipe --------------------------------
(***************************************************************************)
(* pipe.c, with the reference counts of its two struct files (file.c) and  *)
(* the processes that inherit, use and close them.                         *)
(*                                                                         *)
(* A step is one iteration of a loop under p->lock, or one critical        *)
(* section of ftable.lock or ptable.lock.                                  *)
(***************************************************************************)
EXTENDS Naturals, Sequences

CONSTANTS
    Proc,
    Killable,  \* the processes that may be killed
    Byte,
    None,
    Eof,
    PIPESIZE,
    UMAX,      \* number of values of a uint, 2^32
    MAXN,      \* largest count of a read or a write
    Counts     \* the counts that are used

ASSUME SizeAssumption ==
    /\ PIPESIZE \in Nat \ {0} /\ UMAX \in Nat /\ MAXN \in Nat \ {0}
    /\ PIPESIZE < UMAX /\ UMAX % PIPESIZE = 0 /\ Counts \subseteq 0 .. MAXN
ASSUME ByteAssumption == None \notin Byte /\ Eof \notin Byte /\ None # Eof
                         /\ None \notin Proc

VARIABLES
    data, nread, nwrite, readopen, writeopen,  \* struct pipe
    lock,       \* the process that holds p->lock
    freed,      \* the page of the pipe has gone back to kalloc
    rfile,      \* the processes with a descriptor of the read end
    wfile,      \* the processes with a descriptor of the write end
    killed,     \* p->killed
    pc,         \* where each process is
    n,          \* the count it was called with
    i,          \* its loop counter (both 0 outside a call)
    got         \* what piperead gave its callers last: a byte or Eof

pipevars == <<data, nread, nwrite, readopen, writeopen>>
filevars == <<rfile, wfile>>
callvars == <<n, i, got>>
vars == <<pipevars, lock, freed, filevars, killed, pc, callvars>>

Writing == {"write", "write_sleep", "write_asleep", "write_woken"}
Reading == {"wait", "read", "read_sleep", "read_asleep", "read_woken"}
Locked == {"write", "write_sleep", "wait", "read", "read_sleep"}
Place == {"user", "close_write", "close_read"} \cup Writing \cup Reading

TypeOK ==
    /\ data \in [0 .. PIPESIZE - 1 -> Byte]
    /\ nread \in 0 .. UMAX - 1
    /\ nwrite \in 0 .. UMAX - 1
    /\ readopen \in BOOLEAN /\ writeopen \in BOOLEAN
    /\ lock \in Proc \cup {None}
    /\ freed \in BOOLEAN
    /\ rfile \subseteq Proc /\ wfile \subseteq Proc
    /\ killed \in [Proc -> BOOLEAN]
    /\ pc \in [Proc -> Place]
    /\ n \in [Proc -> 0 .. MAXN]
    /\ i \in [Proc -> 0 .. MAXN]
    /\ got \in Byte \cup {None, Eof}

-----------------------------------------------------------------------------
\* Faulty: one byte too late.
FullTooLate == nwrite = (nread + PIPESIZE + 1) % UMAX

Full == nwrite = (nread + PIPESIZE) % UMAX
Empty == nread = nwrite

\* wakeup(&p->nread) and wakeup(&p->nwrite)
WakeReaders ==
    [q \in Proc |-> IF pc[q] = "read_asleep" THEN "read_woken" ELSE pc[q]]
WakeWriters ==
    [q \in Proc |-> IF pc[q] = "write_asleep" THEN "write_woken" ELSE pc[q]]

\* A call returns: its locals are gone.
Return(p) ==
    /\ lock' = None
    /\ n' = [n EXCEPT ![p] = 0]
    /\ i' = [i EXCEPT ![p] = 0]

\* A killed process makes no call.  (One that is killed after trap has tested
\* killed and before the call takes p->lock might as well be killed after.)
MayCall(p) == pc[p] = "user" /\ ~killed[p]

-----------------------------------------------------------------------------
(* pipewrite *)

Pipewrite(p, k) ==
    /\ MayCall(p) /\ p \in wfile
    /\ lock = None
    /\ lock' = p
    /\ pc' = [pc EXCEPT ![p] = "write"]
    /\ n' = [n EXCEPT ![p] = k]
    /\ i' = [i EXCEPT ![p] = 0]
    /\ UNCHANGED <<pipevars, freed, filevars, killed, got>>

\* Faulty: i <= n.
WriteByteBeyond(p, b) ==
    /\ pc[p] = "write" /\ i[p] <= n[p]
    /\ ~Full
    /\ data' = [data EXCEPT ![nwrite % PIPESIZE] = b]
    /\ nwrite' = (nwrite + 1) % UMAX
    /\ i' = [i EXCEPT ![p] = @ + 1]
    /\ UNCHANGED <<nread, readopen, writeopen, lock, freed, filevars, killed,
                   pc, n, got>>

WriteByte(p, b) ==
    /\ pc[p] = "write" /\ i[p] < n[p]
    /\ ~Full
    /\ data' = [data EXCEPT ![nwrite % PIPESIZE] = b]
    /\ nwrite' = (nwrite + 1) % UMAX
    /\ i' = [i EXCEPT ![p] = @ + 1]
    /\ UNCHANGED <<nread, readopen, writeopen, lock, freed, filevars, killed,
                   pc, n, got>>

WriteFail(p) ==
    /\ pc[p] = "write" /\ i[p] < n[p]
    /\ Full /\ (~readopen \/ killed[p])
    /\ pc' = [pc EXCEPT ![p] = "user"]
    /\ Return(p)
    /\ UNCHANGED <<pipevars, freed, filevars, killed, got>>

WriteFull(p) ==
    /\ pc[p] = "write" /\ i[p] < n[p]
    /\ Full /\ readopen /\ ~killed[p]
    /\ pc' = [WakeReaders EXCEPT ![p] = "write_sleep"]
    /\ UNCHANGED <<pipevars, lock, freed, filevars, killed, callvars>>

WriteDone(p) ==
    /\ pc[p] = "write" /\ i[p] = n[p]
    /\ pc' = [WakeReaders EXCEPT ![p] = "user"]
    /\ Return(p)
    /\ UNCHANGED <<pipevars, freed, filevars, killed, got>>

-----------------------------------------------------------------------------
(* piperead *)

Piperead(p, k) ==
    /\ MayCall(p) /\ p \in rfile
    /\ lock = None
    /\ lock' = p
    /\ pc' = [pc EXCEPT ![p] = "wait"]
    /\ n' = [n EXCEPT ![p] = k]
    /\ i' = [i EXCEPT ![p] = 0]
    /\ UNCHANGED <<pipevars, freed, filevars, killed, got>>

ReadFail(p) ==
    /\ pc[p] = "wait"
    /\ Empty /\ writeopen /\ killed[p]
    /\ pc' = [pc EXCEPT ![p] = "user"]
    /\ Return(p)
    /\ UNCHANGED <<pipevars, freed, filevars, killed, got>>

ReadEmpty(p) ==
    /\ pc[p] = "wait"
    /\ Empty /\ writeopen /\ ~killed[p]
    /\ pc' = [pc EXCEPT ![p] = "read_sleep"]
    /\ UNCHANGED <<pipevars, lock, freed, filevars, killed, callvars>>

ReadReady(p) ==
    /\ pc[p] = "wait"
    /\ ~(Empty /\ writeopen)
    /\ pc' = [pc EXCEPT ![p] = "read"]
    /\ UNCHANGED <<pipevars, lock, freed, filevars, killed, callvars>>

ReadByte(p) ==
    /\ pc[p] = "read" /\ i[p] < n[p]
    /\ ~Empty
    /\ got' = data[nread % PIPESIZE]
    /\ nread' = (nread + 1) % UMAX
    /\ i' = [i EXCEPT ![p] = @ + 1]
    /\ UNCHANGED <<data, nwrite, readopen, writeopen, lock, freed, filevars,
                   killed, pc, n>>

\* Faulty: does not wake the writers.
ReadDoneSilent(p) ==
    /\ pc[p] = "read" /\ (i[p] = n[p] \/ Empty)
    /\ pc' = [pc EXCEPT ![p] = "user"]
    /\ Return(p)
    /\ got' = IF i[p] = 0 /\ n[p] > 0 THEN Eof ELSE got
    /\ UNCHANGED <<pipevars, freed, filevars, killed>>

\* Nothing read for a positive count: the stream has ended.
ReadDone(p) ==
    /\ pc[p] = "read" /\ (i[p] = n[p] \/ Empty)
    /\ pc' = [WakeWriters EXCEPT ![p] = "user"]
    /\ Return(p)
    /\ got' = IF i[p] = 0 /\ n[p] > 0 THEN Eof ELSE got
    /\ UNCHANGED <<pipevars, freed, filevars, killed>>

-----------------------------------------------------------------------------
(* sleep, kill *)

\* sleep(chan, &p->lock): asleep and unlocked at once, for others.
Sleep(p) ==
    /\ pc[p] \in {"write_sleep", "read_sleep"}
    /\ lock' = None
    /\ pc' = [pc EXCEPT ![p] = IF @ = "write_sleep" THEN "write_asleep"
                               ELSE "read_asleep"]
    /\ UNCHANGED <<pipevars, freed, filevars, killed, callvars>>

\* The end of sleep takes p->lock again; the loops test their condition again.
Resume(p) ==
    /\ pc[p] \in {"write_woken", "read_woken"}
    /\ lock = None
    /\ lock' = p
    /\ pc' = [pc EXCEPT ![p] = IF @ = "write_woken" THEN "write" ELSE "wait"]
    /\ UNCHANGED <<pipevars, freed, filevars, killed, callvars>>

\* kill(p) takes ptable.lock only.
Kill(p) ==
    /\ p \in Killable /\ ~killed[p]
    /\ killed' = [killed EXCEPT ![p] = TRUE]
    /\ pc' = [pc EXCEPT ![p] = IF @ = "write_asleep" THEN "write_woken"
                               ELSE IF @ = "read_asleep" THEN "read_woken"
                               ELSE @]
    /\ UNCHANGED <<pipevars, lock, freed, filevars, callvars>>

-----------------------------------------------------------------------------
(* Descriptors *)

\* fork: the child q, which has no descriptor yet, shares the open files.
Fork(p, q) ==
    /\ MayCall(p) /\ MayCall(q)
    /\ p \in rfile \cup wfile /\ q \notin rfile \cup wfile
    /\ rfile' = IF p \in rfile THEN rfile \cup {q} ELSE rfile
    /\ wfile' = IF p \in wfile THEN wfile \cup {q} ELSE wfile
    /\ UNCHANGED <<pipevars, lock, freed, killed, pc, callvars>>

\* Faulty: closes the pipe whatever the reference count.
CloseWriteShared(p) ==
    /\ pc[p] = "user" /\ p \in wfile
    /\ wfile' = wfile \ {p}
    /\ pc' = [pc EXCEPT ![p] = "close_write"]
    /\ UNCHANGED <<pipevars, lock, freed, rfile, killed, callvars>>

\* fileclose, from close or exit, up to its release of ftable.lock; the one
\* that drops the last reference goes on to pipeclose.
CloseWrite(p) ==
    /\ pc[p] = "user" /\ p \in wfile
    /\ wfile' = wfile \ {p}
    /\ pc' = IF wfile' = {} THEN [pc EXCEPT ![p] = "close_write"] ELSE pc
    /\ UNCHANGED <<pipevars, lock, freed, rfile, killed, callvars>>

CloseRead(p) ==
    /\ pc[p] = "user" /\ p \in rfile
    /\ rfile' = rfile \ {p}
    /\ pc' = IF rfile' = {} THEN [pc EXCEPT ![p] = "close_read"] ELSE pc
    /\ UNCHANGED <<pipevars, lock, freed, wfile, killed, callvars>>

\* Faulty: does not wake the readers.
PipecloseWriteSilent(p) ==
    /\ pc[p] = "close_write"
    /\ lock = None
    /\ writeopen' = FALSE
    /\ pc' = [pc EXCEPT ![p] = "user"]
    /\ freed' = (freed \/ ~readopen)
    /\ UNCHANGED <<data, nread, nwrite, readopen, lock, filevars, killed,
                   callvars>>

\* pipeclose; the second of the two frees the pipe.
PipecloseWrite(p) ==
    /\ pc[p] = "close_write"
    /\ lock = None
    /\ writeopen' = FALSE
    /\ pc' = [WakeReaders EXCEPT ![p] = "user"]
    /\ freed' = (freed \/ ~readopen)
    /\ UNCHANGED <<data, nread, nwrite, readopen, lock, filevars, killed,
                   callvars>>

PipecloseRead(p) ==
    /\ pc[p] = "close_read"
    /\ lock = None
    /\ readopen' = FALSE
    /\ pc' = [WakeWriters EXCEPT ![p] = "user"]
    /\ freed' = (freed \/ ~writeopen)
    /\ UNCHANGED <<data, nread, nwrite, writeopen, lock, filevars, killed,
                   callvars>>

-----------------------------------------------------------------------------
\* After pipe(): its caller has both ends.
Init ==
    /\ \E b \in Byte : data = [k \in 0 .. PIPESIZE - 1 |-> b]
    /\ nread = 0 /\ nwrite = 0
    /\ readopen = TRUE /\ writeopen = TRUE
    /\ lock = None
    /\ freed = FALSE
    /\ \E p \in Proc : rfile = {p} /\ wfile = {p}
    /\ killed = [p \in Proc |-> FALSE]
    /\ pc = [p \in Proc |-> "user"]
    /\ n = [p \in Proc |-> 0]
    /\ i = [p \in Proc |-> 0]
    /\ got = None

Next ==
    \E p \in Proc :
        \/ \E k \in Counts : Pipewrite(p, k) \/ Piperead(p, k)
        \/ \E b \in Byte : WriteByte(p, b)
        \/ WriteFail(p) \/ WriteFull(p) \/ WriteDone(p)
        \/ ReadFail(p) \/ ReadEmpty(p) \/ ReadReady(p) \/ ReadByte(p)
        \/ ReadDone(p)
        \/ Sleep(p) \/ Resume(p) \/ Kill(p)
        \/ \E q \in Proc : Fork(p, q)
        \/ CloseWrite(p) \/ CloseRead(p)
        \/ PipecloseWrite(p) \/ PipecloseRead(p)

Spec == Init /\ [][Next]_vars

\* A process inside a call goes on whenever it can; p->lock is passed on to
\* whoever keeps asking for it.
Fairness ==
    \A p \in Proc :
        /\ WF_vars(\/ \E b \in Byte : WriteByte(p, b)
                   \/ WriteFail(p) \/ WriteFull(p) \/ WriteDone(p)
                   \/ ReadFail(p) \/ ReadEmpty(p) \/ ReadReady(p)
                   \/ ReadByte(p) \/ ReadDone(p) \/ Sleep(p))
        /\ SF_vars(Resume(p) \/ PipecloseWrite(p) \/ PipecloseRead(p))

FairSpec == Spec /\ Fairness

-----------------------------------------------------------------------------
(* Refinement *)

\* The bytes between the two counters, which may have wrapped around.
Count == (nwrite + UMAX - nread) % UMAX
Queue == [k \in 1 .. Count |-> data[(nread + k - 1) % PIPESIZE]]

S == INSTANCE Stream WITH queue <- Queue, wopen <- writeopen,
                          ropen <- readopen, Capacity <- PIPESIZE

\* A pipe is a bounded FIFO stream: no byte is lost, repeated, reordered or
\* made up, also when the counters wrap around, and end of file is reported
\* only when the pipe is drained and every write descriptor is closed.
StreamSpec == S!Spec

-----------------------------------------------------------------------------
(* Properties *)

\* Whoever sleeps in the pipe still has reason to: when p->lock is free, a
\* reader sleeps only on an empty pipe that can be written, a writer only on
\* a full pipe that can be read.
NoLostWakeup ==
    lock = None =>
        /\ (\E p \in Proc : pc[p] = "read_asleep") => Empty /\ writeopen
        /\ (\E p \in Proc : pc[p] = "write_asleep") => Full /\ readopen

\* Readers and writers never sleep at the same time, each waiting for the
\* others to go on.
NoMutualWait ==
    lock = None => ~ \E p, q \in Proc : /\ pc[p] = "read_asleep"
                                        /\ pc[q] = "write_asleep"

\* Whoever sleeps in piperead or pipewrite has a reason: readers and writers
\* never wait for each other, and no wakeup is lost as long as nobody is killed.
SleepsForReason == NoMutualWait /\ ((\A p \in Proc : ~killed[p]) => NoLostWakeup)

\* The page of the pipe is freed only when both ends are closed and nobody
\* is in, or on its way into, the code that uses it.
NoUseAfterFree ==
    freed => /\ ~readopen /\ ~writeopen /\ lock = None
             /\ rfile = {} /\ wfile = {}
             /\ \A p \in Proc : pc[p] = "user"

\* Who may be where.  One process at a time is in the code that p->lock
\* protects.
LockInv == \A p \in Proc : lock = p <=> pc[p] \in Locked

\* An end is open as long as it has a descriptor or the process that dropped
\* the last one is on its way to pipeclose; whoever is in a call has one.
EndInv ==
    /\ \A p \in Proc : /\ pc[p] \in Writing => p \in wfile
                       /\ pc[p] \in Reading => p \in rfile
                       /\ pc[p] = "close_write" => wfile = {}
                       /\ pc[p] = "close_read" => rfile = {}
    /\ \A p, q \in Proc :
          /\ pc[p] = "close_write" /\ pc[q] = "close_write" => p = q
          /\ pc[p] = "close_read" /\ pc[q] = "close_read" => p = q
    /\ writeopen <=> wfile # {} \/ \E p \in Proc : pc[p] = "close_write"
    /\ readopen <=> rfile # {} \/ \E p \in Proc : pc[p] = "close_read"
    /\ freed <=> ~readopen /\ ~writeopen

\* Why each process sleeps, or is about to, and what a reader that found
\* nothing may conclude.
SleepInv ==
    \A p \in Proc :
        /\ pc[p] = "write_sleep" => Full /\ readopen
        /\ pc[p] = "read_sleep" => Empty /\ writeopen
        /\ pc[p] = "write_asleep" =>
              readopen /\ (Full \/ \E q \in Proc : pc[q] = "read")
        /\ pc[p] = "read_asleep" =>
              /\ writeopen
              /\ Empty \/ \E q \in Proc : pc[q] = "write" \/ killed[q]
              /\ \A q \in Proc : pc[q] \notin {"write_sleep", "write_asleep"}
        /\ pc[p] = "read_sleep" => \A q \in Proc : pc[q] # "write_asleep"
        /\ pc[p] = "read" /\ i[p] = 0 => ~(Empty /\ writeopen)

\* The state of a pipe is consistent: its lock excludes, its ends are counted,
\* it is freed exactly when both are closed, it never holds more than PIPESIZE
\* bytes though its counters wrap around, and its sleepers have their reasons.
Inv ==
    /\ TypeOK /\ LockInv /\ EndInv /\ SleepInv
    /\ Count <= PIPESIZE

\* When the other end has been closed, every call in progress returns.
ClosedEndsCalls ==
    \A p \in Proc :
        /\ (pc[p] \in Reading /\ ~writeopen) ~> pc[p] = "user"
        /\ (pc[p] \in Writing /\ ~readopen) ~> pc[p] = "user"
=============================================================================
