-------------------------------- MODULE Log --------------------------------
(***************************************************************************)
(* log.c: the redo log that makes FS system calls atomic across crashes,   *)
(* with as much of the buffer cache (bio.c) and the disk as it relies on.  *)
(*                                                                         *)
(* A critical section of log.lock is one step.  One disk write is one      *)
(* step: BSIZE is one IDE sector and iderw returns when it is done.  The   *)
(* machine may crash between any two steps, also while it recovers.        *)
(***************************************************************************)
EXTENDS Naturals, Sequences, FiniteSets

CONSTANTS
    Proc,         \* processes that make FS system calls
    Readers,      \* those of them that also read blocks outside such calls
    Block,        \* home blocks of the file system
    Val,          \* contents of a block
    None,         \* no buffer, no block
    MAXOPBLOCKS,  \* what begin_op reserves for a call (param.h)
    LOGSIZE,      \* entries of log.lh.block (param.h)
    NLog,         \* sb.nlog: blocks of the on-disk log, its header included
    OpBlocks      \* distinct blocks a call really writes

ASSUME NoneAssumption == None \notin Val /\ None \notin Block
ASSUME SizeAssumption ==
    /\ MAXOPBLOCKS \in Nat \ {0}
    /\ LOGSIZE \in Nat \ {0}
    /\ NLog \in Nat \ {0}
    /\ OpBlocks \in 0 .. MAXOPBLOCKS
ASSUME FiniteAssumption == IsFiniteSet(Proc) /\ IsFiniteSet(Block)

VARIABLES
    \* on the disk
    disk,         \* [Block -> Val], the home locations
    logd,         \* data blocks of the log: block log.start + i holds logd[i]
    hdr,          \* header block of the log
    \* in memory
    bcache,       \* [Block -> Val \cup {None}]: cached contents of home blocks
    dirty,        \* blocks whose buffer has B_DIRTY set
    lh,           \* log.lh, as the sequence of its first n entries
    outstanding,  \* log.outstanding
    committing,   \* log.committing
    stage,        \* where commit() or recover_from_log() is
    tail,         \* the loop counter of write_log and install_trans
    pc,           \* where each process is
    held,         \* the buffer each process has locked (bread .. brelse)
    wrote         \* blocks each process has logged in its current call

diskvars == <<disk, logd, hdr>>
memvars == <<bcache, dirty, lh, outstanding, committing, stage, tail>>
procvars == <<pc, held, wrote>>
vars == <<diskvars, memvars, procvars>>

Entries(h) == {h[i] : i \in DOMAIN h}

TypeOK ==
    /\ disk \in [Block -> Val]
    /\ logd \in [1 .. NLog - 1 -> Val]
    /\ hdr \in Seq(Block)
    /\ bcache \in [Block -> Val \cup {None}]
    /\ dirty \subseteq Block
    /\ lh \in Seq(Block)
    /\ outstanding \in Nat
    /\ committing \in BOOLEAN
    /\ stage \in {"read_head", "write_log", "write_head", "install_trans",
                  "clear_head", "committed", "up"}
    /\ tail \in 0 .. LOGSIZE
    /\ pc \in [Proc -> {"down", "idle", "asleep", "woken", "op",
                        "log_write", "commit", "panic"}]
    /\ held \in [Proc -> Block \cup {None}]
    /\ wrote \in [Proc -> SUBSET Block]

-----------------------------------------------------------------------------
(* The buffer cache.  bget never recycles a buffer that is locked or dirty. *)

Cached == {b \in Block : bcache[b] # None}
Locked == {held[p] : p \in Proc} \ {None}
\* Faulty: ignores B_DIRTY.
RecyclableUnpinned == Cached \ Locked
Recyclable == Cached \ (dirty \cup Locked)

\* Contents of a block as bread returns them.
View == [b \in Block |-> IF bcache[b] = None THEN disk[b] ELSE bcache[b]]

\* What n calls of bget may recycle: buffers that hold no home block, or these.
Evict(n) == {gone \in SUBSET Recyclable : Cardinality(gone) <= n}

Without(gone) == [b \in Block |-> IF b \in gone THEN None ELSE bcache[b]]

\* bread: the caller gets b's buffer locked.  A miss recycles a buffer.
Bread(p, b) ==
    /\ pc[p] = "op" \/ (pc[p] = "idle" /\ p \in Readers)
    /\ held[p] = None
    /\ b \notin Locked
    /\ held' = [held EXCEPT ![p] = b]
    /\ \/ bcache[b] # None /\ UNCHANGED bcache
       \/ /\ bcache[b] = None
          /\ \E gone \in Evict(1) :
                bcache' = [Without(gone) EXCEPT ![b] = disk[b]]
    /\ UNCHANGED <<diskvars, dirty, lh, outstanding, committing, stage, tail,
                   pc, wrote>>

\* brelse by a caller that changed nothing.
Brelse(p) ==
    /\ pc[p] \in {"idle", "op"}
    /\ held[p] # None
    /\ held' = [held EXCEPT ![p] = None]
    /\ UNCHANGED <<diskvars, memvars, pc, wrote>>

-----------------------------------------------------------------------------
(* FS system calls *)

Wakeup == [q \in Proc |-> IF pc[q] = "asleep" THEN "woken" ELSE pc[q]]

\* Faulty: leaves the caller itself out of the reservation.
MustWaitOneShort ==
    committing \/ Len(lh) + outstanding * MAXOPBLOCKS > LOGSIZE

MustWait ==
    committing \/ Len(lh) + (outstanding + 1) * MAXOPBLOCKS > LOGSIZE

\* begin_op: wait in sleep(&log, &log.lock), or enter.
BeginOpSleep(p) ==
    /\ pc[p] \in {"idle", "woken"} /\ held[p] = None
    /\ MustWait
    /\ pc' = [pc EXCEPT ![p] = "asleep"]
    /\ UNCHANGED <<diskvars, memvars, held, wrote>>

BeginOp(p) ==
    /\ pc[p] \in {"idle", "woken"} /\ held[p] = None
    /\ ~MustWait
    /\ outstanding' = outstanding + 1
    /\ pc' = [pc EXCEPT ![p] = "op"]
    /\ wrote' = [wrote EXCEPT ![p] = {}]
    /\ UNCHANGED <<diskvars, bcache, dirty, lh, committing, stage, tail, held>>

\* kill() makes a sleeper runnable: it finds itself back in begin_op's loop.
Kill(p) ==
    /\ pc[p] = "asleep"
    /\ pc' = [pc EXCEPT ![p] = "woken"]
    /\ UNCHANGED <<diskvars, memvars, held, wrote>>

TooBig == Len(lh) >= LOGSIZE \/ Len(lh) >= NLog - 1

\* The caller has changed the buffer it holds and enters log_write, whose
\* two tests read log.lh.n and log.outstanding without log.lock.
LogWrite(p, v) ==
    LET b == held[p] IN
    /\ pc[p] = "op" /\ b # None
    /\ Cardinality(wrote[p] \cup {b}) <= OpBlocks
    /\ bcache' = [bcache EXCEPT ![b] = v]
    /\ pc' = [pc EXCEPT ![p] =
                  IF TooBig \/ outstanding < 1 THEN "panic" ELSE "log_write"]
    /\ UNCHANGED <<diskvars, dirty, lh, outstanding, committing, stage, tail,
                   held, wrote>>

\* Faulty: no absorption, every write takes a new entry.
LogAppendAlways(p) ==
    /\ pc[p] = "log_write"
    /\ lh' = Append(lh, held[p])
    /\ dirty' = dirty \cup {held[p]}
    /\ held' = [held EXCEPT ![p] = None]
    /\ wrote' = [wrote EXCEPT ![p] = @ \cup {held[p]}]
    /\ pc' = [pc EXCEPT ![p] = "op"]
    /\ UNCHANGED <<diskvars, bcache, outstanding, committing, stage, tail>>

\* The rest of log_write, under log.lock, and the caller's brelse.
LogAppend(p) ==
    LET b == held[p] IN
    /\ pc[p] = "log_write"
    /\ lh' = IF b \in Entries(lh) THEN lh ELSE Append(lh, b)
    /\ dirty' = dirty \cup {b}
    /\ held' = [held EXCEPT ![p] = None]
    /\ wrote' = [wrote EXCEPT ![p] = @ \cup {b}]
    /\ pc' = [pc EXCEPT ![p] = "op"]
    /\ UNCHANGED <<diskvars, bcache, outstanding, committing, stage, tail>>

\* end_op of a call that leaves others outstanding wakes those that wait for
\* log space; the last one commits.
EndOp(p) ==
    /\ pc[p] = "op" /\ held[p] = None
    /\ outstanding' = outstanding - 1
    /\ \/ /\ committing
          /\ pc' = [pc EXCEPT ![p] = "panic"]
          /\ UNCHANGED <<committing, stage, tail>>
       \/ /\ ~committing /\ outstanding' = 0
          /\ committing' = TRUE
          /\ pc' = [pc EXCEPT ![p] = "commit"]
          /\ stage' = IF lh = <<>> THEN "committed" ELSE "write_log"
          /\ tail' = 0
       \/ /\ ~committing /\ outstanding' # 0
          /\ pc' = [Wakeup EXCEPT ![p] = "idle"]
          /\ UNCHANGED <<committing, stage, tail>>
    /\ UNCHANGED <<diskvars, bcache, dirty, lh, held, wrote>>

-----------------------------------------------------------------------------
(* commit() and recover_from_log(): only one process at a time is in them *)

\* One iteration of write_log; its breads may recycle.
WriteLog ==
    LET b == lh[tail + 1] IN
    /\ stage = "write_log"
    /\ tail < Len(lh)
    /\ b \notin Locked
    /\ logd' = [logd EXCEPT ![tail + 1] = View[b]]
    /\ tail' = tail + 1
    /\ stage' = IF tail' = Len(lh) THEN "write_head" ELSE stage
    /\ \E gone \in Evict(1) : bcache' = Without(gone)
    /\ UNCHANGED <<disk, hdr, dirty, lh, outstanding, committing, procvars>>

\* write_head: the transaction commits here.
WriteHead ==
    /\ stage = "write_head"
    /\ hdr' = lh
    /\ stage' = "install_trans"
    /\ tail' = 0
    /\ UNCHANGED <<disk, logd, bcache, dirty, lh, outstanding, committing,
                   procvars>>

\* One iteration of install_trans; bwrite clears B_DIRTY.
InstallTrans ==
    LET b == lh[tail + 1] IN
    /\ stage = "install_trans"
    /\ tail < Len(lh)
    /\ b \notin Locked
    /\ disk' = [disk EXCEPT ![b] = logd[tail + 1]]
    /\ \E gone \in Evict(2) :
          bcache' = [Without(gone) EXCEPT ![b] = logd[tail + 1]]
    /\ dirty' = dirty \ {b}
    /\ tail' = tail + 1
    /\ stage' = IF tail' = Len(lh) THEN "clear_head" ELSE stage
    /\ UNCHANGED <<logd, hdr, lh, outstanding, committing, procvars>>

\* Faulty: the second write_head is left out.
ClearHeadInMemory ==
    /\ stage = "clear_head"
    /\ lh' = <<>>
    /\ stage' = IF committing THEN "committed" ELSE "up"
    /\ pc' = IF committing THEN pc ELSE [p \in Proc |-> "idle"]
    /\ UNCHANGED <<diskvars, bcache, dirty, outstanding, committing, tail,
                   held, wrote>>

\* log.lh.n = 0 and the second write_head, of commit() or of recovery; after
\* recovery the first process returns from forkret and the others are forked.
ClearHead ==
    /\ stage = "clear_head"
    /\ lh' = <<>>
    /\ hdr' = lh'
    /\ stage' = IF committing THEN "committed" ELSE "up"
    /\ pc' = IF committing THEN pc ELSE [p \in Proc |-> "idle"]
    /\ UNCHANGED <<disk, logd, bcache, dirty, outstanding, committing, tail,
                   held, wrote>>

\* Faulty: the committer does not wake the calls that wait for it.
EndCommitQuietly(p) ==
    /\ pc[p] = "commit"
    /\ stage = "committed"
    /\ committing' = FALSE
    /\ stage' = "up"
    /\ pc' = [pc EXCEPT ![p] = "idle"]
    /\ UNCHANGED <<diskvars, bcache, dirty, lh, outstanding, tail, held, wrote>>

\* The end of end_op.
EndCommit(p) ==
    /\ pc[p] = "commit"
    /\ stage = "committed"
    /\ committing' = FALSE
    /\ stage' = "up"
    /\ pc' = [Wakeup EXCEPT ![p] = "idle"]
    /\ UNCHANGED <<diskvars, bcache, dirty, lh, outstanding, tail, held, wrote>>

\* Faulty: recovery clears the log without installing it.
ReadHeadOnly ==
    /\ stage = "read_head"
    /\ lh' = hdr
    /\ tail' = 0
    /\ stage' = "clear_head"
    /\ UNCHANGED <<diskvars, bcache, dirty, outstanding, committing, procvars>>

\* Faulty: an empty log is taken for one to install.
ReadHeadNeverEmpty ==
    /\ stage = "read_head"
    /\ lh' = hdr
    /\ tail' = 0
    /\ stage' = "install_trans"
    /\ UNCHANGED <<diskvars, bcache, dirty, outstanding, committing, procvars>>

\* read_head, from initlog at boot.
ReadHead ==
    /\ stage = "read_head"
    /\ lh' = hdr
    /\ tail' = 0
    /\ stage' = IF lh' = <<>> THEN "clear_head" ELSE "install_trans"
    /\ UNCHANGED <<diskvars, bcache, dirty, outstanding, committing, procvars>>

\* The kernel restarts with empty memory; the disk keeps what was written.
Crash ==
    /\ bcache' = [b \in Block |-> None]
    /\ dirty' = {}
    /\ lh' = <<>>
    /\ outstanding' = 0
    /\ committing' = FALSE
    /\ stage' = "read_head"
    /\ tail' = 0
    /\ pc' = [p \in Proc |-> "down"]
    /\ held' = [p \in Proc |-> None]
    /\ wrote' = [p \in Proc |-> {}]
    /\ UNCHANGED diskvars

-----------------------------------------------------------------------------
\* The first boot, of the disk as mkfs leaves it.
Init ==
    /\ disk \in [Block -> Val]
    /\ \E v \in Val : logd = [i \in 1 .. NLog - 1 |-> v]
    /\ hdr = <<>>
    /\ bcache = [b \in Block |-> None]
    /\ dirty = {}
    /\ lh = <<>>
    /\ outstanding = 0
    /\ committing = FALSE
    /\ stage = "read_head"
    /\ tail = 0
    /\ pc = [p \in Proc |-> "down"]
    /\ held = [p \in Proc |-> None]
    /\ wrote = [p \in Proc |-> {}]

Next ==
    \/ \E p \in Proc, b \in Block : Bread(p, b)
    \/ \E p \in Proc, v \in Val : LogWrite(p, v)
    \/ \E p \in Proc : \/ Brelse(p)
                       \/ BeginOpSleep(p)
                       \/ BeginOp(p)
                       \/ Kill(p)
                       \/ LogAppend(p)
                       \/ EndOp(p)
                       \/ EndCommit(p)
    \/ WriteLog
    \/ WriteHead
    \/ InstallTrans
    \/ ClearHead
    \/ ReadHead
    \/ Crash

Spec == Init /\ [][Next]_vars

\* The kernel's own steps run once they can; every call has finitely many
\* buffers to visit, so it reaches its end_op.
Fairness ==
    /\ WF_vars(WriteLog) /\ WF_vars(WriteHead) /\ WF_vars(InstallTrans)
    /\ WF_vars(ClearHead) /\ WF_vars(ReadHead)
    /\ \A p \in Proc : /\ WF_vars(Brelse(p))
                       /\ WF_vars(LogAppend(p))
                       /\ WF_vars(EndCommit(p))
                       /\ SF_vars(EndOp(p))

FairSpec == Spec /\ Fairness

-----------------------------------------------------------------------------
(* Refinement *)

\* The processes between their begin_op and their end_op.
InOp == {p \in Proc : pc[p] \in {"op", "log_write", "panic"}}

Recovering == stage # "up" /\ ~committing

\* Where a committed block is in the log, if it is there.
IndexOf(h, b) == CHOOSE i \in DOMAIN h : h[i] = b

\* The home blocks as recover_from_log would leave them.
Recovered ==
    [b \in Block |-> IF b \in Entries(hdr) THEN logd[IndexOf(hdr, b)]
                     ELSE disk[b]]

T == INSTANCE Txn WITH mem <- IF Recovering THEN Recovered ELSE View,
                       durable <- Recovered,
                       active <- InOp

\* The log implements atomic transactions: whatever the interleaving of the
\* calls and wherever the machine crashes, a reboot brings back exactly the
\* blocks of the last commit, and a commit holds no half-done call.
TxnSpec == T!Spec

-----------------------------------------------------------------------------
(* Properties *)

\* log_write appends to log.lh.block only where there is room for the entry
\* in the array and for the block in the on-disk log, although it tested
\* log.lh.n before it took log.lock: what begin_op reserved is still there.
AppendFits ==
    \A p \in Proc :
        pc[p] = "log_write" /\ held[p] \notin Entries(lh) => ~TooBig

\* log_write and end_op never panic: begin_op lets in no call that could
\* exhaust the log.
NoPanic == \A p \in Proc : pc[p] # "panic"

\* Nobody sleeps in begin_op while its condition to enter holds: end_op wakes
\* the sleepers whenever it releases what they may be waiting for.
NoLostWakeup == (\E p \in Proc : pc[p] = "asleep") => MustWait

\* When the last end_op has returned, all the calls so far are durable: their
\* updates are in the home blocks and the log is empty.
DurableWhenQuiet ==
    stage = "up" /\ InOp = {} => disk = View /\ hdr = <<>> /\ lh = <<>>

\* A process that waits in begin_op is woken, however often the machine
\* crashes meanwhile (then it is gone).
SleepersWoken ==
    \A p \in Proc : pc[p] = "asleep" ~> pc[p] # "asleep"

\* If the machine stops crashing, recovery and every commit after it finish.
ComesBackUp == <>[][stage' # "read_head"]_vars => []<>(stage = "up")

-----------------------------------------------------------------------------
(* The inductive invariant *)

NoDup(h) == \A i, j \in DOMAIN h : h[i] = h[j] => i = j

\* Buffers that are changed and not yet in the log; they are still locked.
Modified == {held[p] : p \in {q \in Proc : pc[q] \in {"log_write", "panic"}}}

\* Log space that begin_op set aside for blocks not logged yet.
Reserve ==
    {r \in InOp \X (1 .. MAXOPBLOCKS) : r[2] > Cardinality(wrote[r[1]])}

\* Who may be where.
ProcInv ==
    /\ Cardinality(InOp) = outstanding
    /\ stage # "up" => InOp = {}
    /\ committing => stage \notin {"up", "read_head"}
    /\ Recovering => /\ stage \in {"read_head", "install_trans", "clear_head"}
                     /\ \A p \in Proc : pc[p] = "down" /\ held[p] = None
    /\ \A p \in Proc :
          /\ pc[p] = "down" => Recovering
          /\ pc[p] = "commit" => committing
          /\ pc[p] \in {"log_write", "panic"} => held[p] # None
    /\ \A p, q \in Proc :
          \/ held[p] = held[q] /\ held[p] # None
          \/ pc[p] = "commit" /\ pc[q] = "commit"
          => p = q

\* A header whose entries fit in log.lh.block, and whose blocks fit in the log.
Fits(h) == Len(h) <= LOGSIZE /\ Len(h) < NLog

\* The log has room for what the calls in progress may still write.
RoomInv ==
    /\ Len(lh) + Cardinality(Reserve) <= LOGSIZE
    /\ Fits(lh) /\ Fits(hdr)
    /\ \A p \in InOp : /\ wrote[p] \subseteq Entries(lh)
                       /\ Cardinality(wrote[p]) <= OpBlocks
    /\ \A p \in Proc :
          pc[p] = "log_write" => Cardinality(wrote[p] \cup {held[p]}) <= OpBlocks

\* The logged blocks that install_trans has not yet copied home.
Pending ==
    CASE stage = "install_trans" -> {lh[i] : i \in tail + 1 .. Len(lh)}
      [] stage = "clear_head" -> {}
      [] OTHER -> Entries(lh)

\* Exactly the pending blocks are pinned; a block that is neither pinned nor
\* being changed is cached as it is on the disk.
CacheInv ==
    /\ dirty = IF Recovering THEN {} ELSE Pending
    /\ dirty \cup Locked \subseteq Cached
    /\ \A b \in Block \ (dirty \cup Modified) : bcache[b] \in {None, disk[b]}

\* What the log holds at each stage of commit and of recovery.
LogInv ==
    /\ NoDup(lh) /\ NoDup(hdr)
    /\ stage \in {"up", "write_log", "write_head", "committed"} => hdr = <<>>
    /\ stage \in {"install_trans", "clear_head"} => hdr = lh
    /\ stage \in {"committed", "read_head"} => lh = <<>>
    /\ stage = "up" /\ InOp = {} => lh = <<>>
    /\ stage \in {"write_log", "install_trans"} => tail < Len(lh)
    /\ stage = "write_log" => \A i \in 1 .. tail : logd[i] = bcache[lh[i]]
    /\ stage = "write_head" => lh # <<>> /\ \A i \in DOMAIN lh : logd[i] = bcache[lh[i]]
    /\ stage = "install_trans" =>
          /\ \A i \in 1 .. tail : disk[lh[i]] = logd[i]
          /\ committing =>
                \A i \in tail + 1 .. Len(lh) : bcache[lh[i]] = logd[i]
    /\ stage = "clear_head" => \A i \in DOMAIN lh : disk[lh[i]] = logd[i]

\* All of the above: what makes a crash at any step of commit harmless.
Inv == TypeOK /\ ProcInv /\ RoomInv /\ CacheInv /\ LogInv

\* The conditions under which log space cannot run out: no call uses the last
\* two of the MAXOPBLOCKS blocks reserved for it, and mkfs made the log at
\* least LOGSIZE blocks long.
Room == OpBlocks + 2 <= MAXOPBLOCKS /\ LOGSIZE <= NLog

=============================================================================
