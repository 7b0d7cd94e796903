# TLA+ models of the kernel

The repository is an xv6 kernel for x86 (course project on virtual memory) with
its user programs and tools. This directory holds TLA+ models of it, the TLC
configurations that check them, and TLAPS proofs of the properties that matter
most. `PROJECT.json` lists components, runs, hazards, findings and theorems, and
maps every definition to the lines of `src/` it stands for.

    tlc -workers 2 -config files.cfg MCFiles        # a run
    tlapm LogProofs.tla                             # the proofs of a module

## The system

| Part | Source | State | Who shares it |
|---|---|---|---|
| Spin locks | `spinlock.c` | holder, per-CPU `ncli`, `intena`, interrupt flag | CPUs, interrupt handlers |
| Scheduler, `sched`, `sleep`, `wakeup` | `proc.c`, `swtch.S`, timer of `trap.c` | `state`, `chan`, `c->proc`, saved context | CPUs, timer |
| Sleep locks | `sleeplock.c` | `locked`, `pid` | processes |
| Process table | `proc.c` | slots, pids, parents, `killed`, pages of each slot | processes |
| Clock | `trap.c`, `sysproc.c` | `ticks` | timer, sleepers, `kill` |
| Memory | `kalloc.c`, `vm.c`, `exec.c`, `growproc` | free pages, page tables, sizes | processes |
| Write-ahead log | `log.c` | log header in memory and on disk, `outstanding`, `committing` | FS system calls, crashes |
| Buffer cache, disk | `bio.c`, `ide.c`, `memide.c` | buffers, LRU list, request queue | processes, disk interrupt |
| Inodes, directories, blocks | `fs.c` | inode cache, bitmap, block maps, entries | FS system calls |
| File table, FS calls | `file.c`, `sysfile.c` | reference counts, offsets, descriptors | processes |
| Pipes | `pipe.c` | ring, two counters, two open flags | readers, writers, `kill` |
| System call arguments | `syscall.c`, `sys_exec` | user memory below `p->sz` | one process |
| Console | `console.c`, `kbd.c` | input ring, screen, modifiers | interrupt, readers, writers |
| User side | `umalloc.c`, `sh.c`, `printf.c`, `grep.c` | free list, processes and descriptors of a line | one program; the shell's processes |
| Around the kernel | `mkfs.c`, `bootmain.c` | image of the file system, loaded kernel | nobody |

What makes this code hard to test: interleavings across CPUs at every point
where no lock is held, a context switch that hands over a lock, wakeups that
can be lost, crashes between any two disk writes, counters that wrap around,
allocation failing half way through a call, and `kill` arriving anywhere. The
hazards are listed with their lines in `PROJECT.json`.

## Modules

| Module | Models | A step is |
|---|---|---|
| `Txn` | what the log promises: transactions on blocks, atomic across crashes | a write, a commit, a crash |
| `Log` | `log.c` with as much of `bio.c` and the disk as it relies on | `begin_op`, `log_write` (in its two halves), `end_op`, each disk write of `commit`, recovery, `bread`, `brelse`, eviction, crash |
| `Sched` | `scheduler`, `sched`, `yield`, `forkret`, `sleep`, `wakeup`, `kill`; spin locks; a sleep lock | the code between two operations on a spin lock |
| `Stream` | what a pipe promises: a bounded FIFO of bytes with a truthful end of file | put, get, end, close |
| `Pipe` | `pipe.c`, and `fileclose`/`fork` for the files of a pipe | one loop iteration under `p->lock` |
| `ProcTable` | `allocproc`, `fork` and its failures, `exit`, `wait`, `kill`, the pages they take and give back | a critical section of `ptable.lock` or the code between two |
| `Clock` | timer tick, `sys_sleep`, `kill` of a sleeper | a critical section of `tickslock`, the last one of a turn in two |
| `Vm` | `setupkvm`, `copyuvm`, `allocuvm`, `deallocuvm`, `freevm`, `loaduvm`, `copyout`, `growproc`, `exec`, the end of `wait` | what one round of a loop allocates |
| `Malloc` | `malloc`, `free`, `morecore` | a call |
| `Sh`, `ShParse` | `main` and `runcmd` of the shell; its parser as functions on tokens | a system call of a process of the line |
| `Fs` | inode cache, `namex`, and `open`, `creat`, `mkdir`, `mknod`, `link`, `unlink`, `chdir`, `close` | the code under one inode lock; `iput` in three |
| `FileTable` | `ftable`, descriptors, `pipealloc`, `dup`, `pipe`, `close`, `fork`, `exit` | a critical section of `ftable.lock` or the code between two |
| `ByteFile` | what files promise: sequences of bytes with an offset for each open file | open, close, read, one chunk of a write, remove |
| `FileData`, `Layout` | `fileread`, `filewrite`, `readi`, `writei`, `bmap`, `balloc`, `itrunc` | one block of a write, one call otherwise |
| `Mkfs` | `main`, `ialloc`, `iappend`, `balloc` of `mkfs.c` | one round of `iappend` |
| `BlockStore` | what `bread`, `bwrite`, `brelse` promise: each block in one hand at a time, with the contents last put | get, put, release |
| `Disk` | `bio.c` over `ide.c` or `memide.c` | a critical section of `bcache.lock` or `idelock`; the controller on its own |
| `Lines` | what the console promises: a line editor in front of a queue | type, erase, erase line, take |
| `Console`, `Screen`, `Kbd` | `consoleintr`, `consoleread`, `consolewrite`; `cgaputc`; `kbdgetc` | a key; one character; one code |
| `Strings`, `Args`, `Boot`, `Text` | `memmove`, `skipelem`, `strncpy`, `namecmp`; `argint` to `argstr` and `sys_exec`; `bootmain`; `printint`, `cprintf`, `printf`, `grep` | (functions, each with a definition of what it is to compute) |
| `LogSteps`, `LogProofs`, `SchedProofs`, `PipeProofs`, `ProcTableProofs`, `DiskProofs`, `FileTableProofs`, `ConsoleProofs` | theorems about `Log`, `Sched`, `Pipe`, `ProcTable`, `Disk`, `FileTable` and `Console` | |
| `MCLog`, `MCSched`, `MCFs`, `FsCalls`, `MCVm` | constants, symmetry and inputs for TLC | |
| `MCFiles`, `MCIO`, `MCProc` | several components in one run | that of the component in focus |

The components of `MCFiles`, `MCIO` and `MCProc` have no state in common. A
behaviour is one of the component that the variable `focus` names, the others
keep their initial states: the state spaces add up. Pure functions are inputs
of these runs: every input is an initial state.

Granularity. A critical section of a spin lock is one step where nothing in it
can be seen from outside; `Sched` shows that spin locks, `sleep` and `wakeup`
justify this, and models them step by step. Tests made before a lock is taken
(`log_write`, `allocproc`'s change to `UNUSED`) are steps of their own. So are the
tests of `killed` in `sys_sleep`, `consoleread` and `pipe.c`: `kill` takes only
`ptable.lock`, and may come between the test and the `sleep`. `Log` takes a disk
write as one atomic step because `BSIZE` is one IDE sector and `iderw` returns when
it is done, which `Disk` models.
`Fs` and `FileData` take what happens inside a transaction as if there were no
crash: that is `Txn`.

Data. Block contents, bytes, names and addresses are small sets. A name that no
property distinguishes is left out. Counters (`Pipe`, `Console`, `Clock`) are
integers modulo `UMAX`, which stands for 2^32 and needs only to be a multiple
of the ring; addresses wrap at `WRAP`. A page table is one page in
`ProcTable`; `Vm` has page-table pages of `NPTE` entries. Directories are
functions from names to inodes (`Fs`), their search is that of `Strings`.

History variables: `wrote` in `Log` (what a call has logged), `got` in `Pipe`
and `Console` (what a read gave its caller), `victims` in `ProcTable` (pids
passed to `kill`), `elapsed` and `missed` in `Clock` (ticks since the call, and
ticks that found a killed process asleep), `held` in `Kbd`, `failed` in `Sh`.
Operators marked *Faulty* are single mistakes, used to confirm that each property
notices one.

## Runs

| Run | Instance | Shows |
|---|---|---|
| `log_crash` | 2 processes, 2 blocks, 2 values | `Log` implements `Txn` with a crash at any point, `Inv` (below) is an invariant, committed data is in its home blocks when no call is active |
| `log_room` | 2 processes, 4 blocks, a log that two calls fill, fair | reservation keeps `log_write` from its panics and from the end of `lh.block` although it tests before it locks; whoever waits for log space is woken; recovery finishes once crashes stop |
| `sched_safe` | 2 CPUs, 3 processes | `Inv` (below) is an invariant, mutual exclusion, one CPU per kernel stack, no lost wakeup, interrupt flag and `intena` match, none of the panics of `acquire`, `release`, `popcli`, `sched` |
| `sched_live` | 1 CPU, 2 processes, fair | no RUNNABLE process is passed over for ever, whoever sleeps on the sleep lock is woken |
| `pipe_stream` | 2 processes, one of which may be killed, ring of 2, counters modulo 4, calls of 3 bytes, fair | the pipe implements `Stream`, `Inv` (below) is an invariant, it is freed only when unused, nobody sleeps without reason unless somebody was killed, closing an end makes calls on the other return |
| `proc_tree` | see below, fair | `Inv` of the process table (living parents, no missed exit, unique pids, pages balance); memory is neither lost nor mapped twice and failing calls change nothing; `sys_sleep` sleeps long enough, and over one tick at most when killed; the heap is tiled and its list ordered; the shell's programs have only their three descriptors and the foreground is waited for; the parser groups as the operators mean; `wait`, `sleep` and the prompt come back |
| `files` | see below | inode references and the cache are exact, names are counted, no panic; files and pipes are counted; bitmap exact, writes within their reservation; `FileData` implements `ByteFile`; `mkfs` and the loader build what is read; arguments, paths, formats and patterns are handled as defined |
| `io` | see below, fair | one buffer per block, queue and controller agree, `bwrite`, `brelse` and `iderw` do not panic; buffer cache and driver implement `BlockStore`; the console implements `Lines`, wakes its readers, returns one line at most, and sleeps with its inode unlocked; cursor and modifiers; `iderw`, `consolewrite` and a reader woken by `kill` return |
| `proc_kill`, `fs_leak`, `fs_deadlock`, `vm_shrink` | 2 slots; 2 processes and 4 calls; 1 process | violated, see Findings |

Bounds of the composed runs, and why they are enough to meet the hard cases:

- `proc_tree`. Process table: 4 slots, 4 pages, pids up to `MAXPID`, kills of pids 0
  and 3, so that a fork fails for want of a slot, of a stack or of a page table
  while a grandparent, a parent and a child exit in any order. Memory: 2
  processes, 10 pages of 6 words, page tables of 2 entries, user space of 4
  pages, address space of 60 with a part between `PHYSTOP` and `DEVSPACE` that has no
  page tables, eleven programs, one for each test of `exec` and some that load;
  pages run out in every loop. `sbrk` of all of the memory is left out here
  (`ToZero`): it is the finding of `vm_shrink`. Clock: counter modulo 3, sleeps of 0
  and of -1. Heap: 8 units, `NALLOC` 3, one gap. Shell: five lines that nest
  pipes, lists, blocks, redirections and background commands; parser: all lines
  of up to 4 of its 7 tokens.
- `files`. 2 processes, 4 inodes, 2 names, `MAXCALLS` 3 calls in any interleaving;
  a table of 3 files, 2 descriptors, 1 pipe; 2 direct blocks and an indirect one,
  5 data blocks, writes of 3 and of 7 bytes in blocks of 2, so that writes cross into
  the indirect block, are cut into chunks that begin in the middle of a block, and
  the disk is full; each bit of the bitmap is in a block of its own (`BPB` 1), so that
  a chunk logs as many blocks as it can, which is all of the 6 reserved; images of up to 2
  files with sizes around the ends of blocks. Paths, regions, arguments, segments,
  formats, patterns and texts: all up to a small length.
- `io`. 2 processes, 3 blocks in 2 buffers, one of which the log may pin; a ring of 2
  characters with counters modulo 4, a newline, an end of file and one other
  character; a screen of 4 by 2; the keys of all modifiers and locks and a letter, `MAXHELD` 3 of
  them down at a time.
- Elsewhere: calls longer than the ring and counters that wrap twice
  (`MAXN > PIPESIZE`, `UMAX = 2 * PIPESIZE`); a log that two reservations fill; two
  CPUs, so that a thread can be picked up elsewhere while it switches away.

Deadlock is checked in the `log` and `sched` runs. In the others the system may
stop: all descriptors are closed, a program never writes, nobody types, the bound
on calls is reached, `ialloc` or `balloc` has nothing left, or the component is a
function. Two processes that wait for each other's inode lock are the finding of
`fs_deadlock`; that the other waits end is stated as liveness.

## Fairness

- `Log`: releasing a buffer, appending, and the steps of commit and of recovery
  are weakly fair. `end_op` is strongly fair: a call reads and writes a bounded
  number of blocks, then ends. Crashes, new calls and reads are not fair. There
  are no readers outside calls in the runs: a sleep lock is not first come, first
  served, so a stream of readers may keep a buffer from a writer. That `begin_op`
  returns is not claimed, for the same reason.
- `Sched`: `scheduler` and thread steps are weakly fair, since a CPU keeps
  executing. The timer interrupt stays pending while interrupts are off, so
  `yield` is strongly fair. Taking a spin lock is strongly fair: `xchg` under
  contention has no queue, and the hardware is assumed not to starve a CPU for
  ever. A thread in a critical section ends it (strongly fair because it may be
  switched out).
- `Pipe`: steps under `p->lock` are weakly fair, taking it strongly fair.
- `proc_tree`: fork and exit in progress go on, a process in `wait` looks again; the
  timer ticks and sleepers look at it; the processes of a line run. All weak but for
  the timer and the sleepers, which take `tickslock`: strong, as for spin locks in
  `Sched`.
- `io`: the controller finishes, its interrupt is delivered, a process that is not
  asleep goes on. Weak for the disk. At the console it is strong, because of
  `cons.lock` and of the inode's lock: nobody sleeps while holding either
  (`InodeFree`), so a process would have to be switched out just there at every turn
  to keep another one waiting, and the run assumes that it is not. Nobody has to
  type, and `bget` is not claimed to return.

## Findings

Each is a run that TLC refutes, with a statement of the code's own comments,
assertions or tests.

1. `proc_kill`. `kill(0)` matches slots that nobody uses; the next process in
   such a slot is born killed, because `allocproc` does not clear the flag. A
   fork that fails leaves its pid in the `UNUSED` slot; `kill` of that pid has the
   same effect.
2. `fs_leak`. `iput` looks at `nlink` and `ref` with the inode locked but drops its
   own reference after it has unlocked it. Between the two, another process may
   look in its own `iput`: in the run a `mknod` of x ends while x is unlinked, and each
   of the two finds no links and two references. Both decrement and nobody frees the
   inode. `fs.c:327` promises that the last one does.
3. `fs_deadlock`. `create` holds the new inode locked while it puts the parent, and
   `iput` takes the parent's lock once more. An `unlink` of the new name that gets
   the parent in between waits for the new inode. `usertests.c:855` has a test "to
   look for deadlocks" of these calls.
4. `vm_shrink`. `growproc` takes 0 from `deallocuvm` for a failure although it is the
   size of a process that gave back everything: `sbrk` returns -1 and `sz` stays, as
   if it had failed, but the pages are gone (`FailedCallsUndone`), and the process is
   killed when it faults at its next instruction.

Noticed on the way, without a run of their own:

- `begin_op` reserves up to `LOGSIZE` blocks but the log on disk has
  `LOGSIZE - 1` data blocks (`log.c:132`, `log.c:218`, `mkfs.c:25`). The calls of this
  kernel write at most 7 distinct blocks of the 10 reserved, so it is latent; it
  is why the proofs assume `Room`.
- A writer killed while the pipe is full returns without a wakeup (`pipe.c:86`), and
  between the test of `killed` and `sleep` in `pipe.c` a kill is not noticed until
  the other end acts. `SleepsForReason` is about pipes without kills.
  `consoleread` has the same gap (`console.c:246`, `console.c:251`): a reader killed
  there sleeps until somebody types. In `sys_sleep` the next tick ends it
  (`KilledSoon`).
- `uva2ka` uses what `walkpgdir` returns without looking whether there is a page
  table (`vm.c:355`). `exec` gets there only with an argument longer than the part of
  the address space above `DEVSPACE`, 32 MB; arguments in the runs are shorter.
- In a removed directory: `..` may name an inode that was freed (panic in `ilock`),
  and a file created or linked there is never freed. The calls of `files` therefore
  use no `..`. `link(x, ".")` waits for a lock of its own.
- `sys_sleep` with a negative count sleeps for almost 2^32 ticks. `sbrk` by
  less than `-sz` succeeds and changes nothing.
- `ideintr` marks a buffer valid although the read failed (`ide.c:118`); with errors,
  `BlocksSpec` does not hold.
- `mkfs` never compares `freeblock` with `FSSIZE`, and adds a block to the size of a
  root directory that ends at a block boundary (`mkfs.c:161`).
- `readseg` rounds down to a sector: it overwrites what lies before a segment unless
  file and memory agree modulo the sector (`bootmain.c:86`); the kernel's do.
- `grep` drops what it holds when a read ends without a newline in the buffer from
  its start (`grep.c:29`); `GrepsExactly` is about lines that fit.
- The shell applies the first of two redirections of one descriptor last, `>>` does
  not append (`sh.c:391`). User programs have `%c`, the kernel's `cprintf` has not.

## Proofs

`LogSteps` and `LogProofs` (for every set of processes, blocks and values, and all
sizes): `Invariance`, `AppendsFit`, `NeverPanics`, `NoWakeupLost`,
`QuietIsDurable` and `ImplementsTxn`, all from the assumption `Room` (a call
leaves two of the blocks reserved for it unused, and the log is at least
`LOGSIZE` blocks long), and from the assumptions on the constants in `Log`. What
a crash leaves is correct only because of facts that the properties do not
mention, so `Inv` adds them: `ProcInv` (who may be where: `outstanding` counts the
calls, one committer, no call while it commits), `RoomInv` (the log has room for
every block that a call in progress may still write; counted as a set of pairs so
that one append uses up one pair), `CacheInv` (exactly the logged blocks not yet
installed are pinned; every other cached block is as on disk) and `LogInv` (what
header, log blocks and home blocks hold at each stage of commit and of recovery).
There is one lemma per conjunct (`TypeStep` to `LogStep`), with one step per
action; `TxnStep` maps every step to a step of `Txn` or to a stutter: writing a
non-empty header is the commit, everything before it is lost by a crash and
everything after it is repeated by recovery.

`ProcTableProofs` (any number of slots and pages): `Invariance`,
`ParentsAreAlive`, `NoExitIsMissed`, `PidsAreUnique`, `PagesAreKept`. `Inv` adds to
the properties which places go with which states (`StateInv`), that a fork in
progress is the only owner of its embryo and that the embryo is nobody's child
before it is complete (`ForkInv`, `ForkApart`, `EmbryoInv`), and who has which
pages (`PageInv`). Without the second part `exit` of one process could take the
half-made child of another. There is one lemma per kind of step. `nextpid` is an
unbounded number here: 2^31 forks would be needed to wrap it.

`SchedProofs` (any number of CPUs and processes): `Invariance`,
`NeverPanics`, `SleepLockExcludes`, `OneCPUPerThread`, `NoWakeupIsLost`,
`InterruptsAreRestored`. The argument goes by the place of a CPU, in its thread or
in `scheduler` (`Here`): `LockInv` says at which places a CPU holds each spin lock,
`CliInv` how deep `pushcli` is nested there, whether interrupts are off and what
`intena` will restore, `RunInv` that a thread which no CPU executes is inside
`swtch`. That a thread switched out has `kintena` set is what makes it safe to
resume on a CPU whose `intena` is somebody else's. `SleepInv` is about threads on
their way to sleep: they have seen the lock taken and hold a spin lock that
`releasesleep` or `wakeup1` needs. `Steps` says once where each action takes its
CPU, so that the lemmas on `LockInv` and `CliInv` need no more of the threads.

`PipeProofs` (any processes, any `PIPESIZE` that divides `UMAX`, as 512 divides
2^32): `Invariance`, `FreedWhenUnused`, `SleepersHaveReason`, `ImplementsStream`.
`Inv` consists of `LockInv` (who is at a place under `p->lock` holds it), `EndInv`
(an end is open exactly while a file refers to it or its last close is under way,
and the page is gone when both are closed), `SleepInv` (a reader asleep found the ring empty and a writer asleep
found it full, unless a wakeup or a kill has come since) and of `Count`: the
number of bytes in the ring, taken modulo `UMAX`, is at most `PIPESIZE`. The tests
`nread == nwrite` and `nwrite == nread + PIPESIZE` then tell empty from full also
after the counters wrapped, and writing slot `nwrite % PIPESIZE` overwrites no
byte that was not read; the lemmas up to `GetByte` are this arithmetic.
`StreamStep` maps every step to one of `Stream` or to a stutter.

`DiskProofs` (any numbers of processes, blocks and
buffers, and either driver; `NoneAssumption` keeps `None` apart from what it stands
in for, `SizeAssumption` asks for a buffer, a value and finitely many processes):
`DiskInvariant`, `DiskIsSound` (the panics of `bwrite`, `brelse` and `iderw` are not
reached; `bget: no buffers` is not excluded, it is what happens when all buffers are
in use or pinned), also when commands fail, and `BlocksRefined`, which
assumes that none does (`ErrorFree`; see Findings for why). `IInv` adds to `NoPanic`
and the types what keeps a buffer from being recycled under its user: from `bget`
to `brelse` a process has its block's only buffer (`BufInv`) and from
`acquiresleep` to `releasesleep` its lock (`LockInv`); the flags are what `iderw`
is called for and what its caller finds afterwards (`FlagInv`); the queue has
exactly the buffers of the processes asleep in `iderw`, each once (`QueueInv`), and
the controller works for the first of them (`CommandInv`). That `refcnt` counts
processes makes a buffer with count 0 free: nobody is between the two halves of
`bget`. `Coherent` is needed for the refinement only: what is clean in memory is on
disk, so that recycling a buffer loses nothing. `NextRefines` maps every step to
one of `BlockStore` or to a stutter: `bread` takes its block when it has the lock
and the data are valid, a `bwrite` or `log_write` puts, `releasesleep` gives back.
There is one lemma per action, with a step for each conjunct it can disturb.

`FileTableProofs` (any numbers of processes, descriptors, files and pipes; `Sizes`
asks for a process, and finitely many of them): `TablesInvariant` and
`TablesAreCounted`. A call refers to the files it has got before a descriptor does,
so `Holders` has the descriptors and the files of calls alike, and most actions
change one reference or move one: `CountUp`, `CountDown` and `CountSame` give the
count after each. `IInv` adds to the counts that a file with count 0 is as `fileclose`
left it (`FileInv`: `filealloc` sets `ref` only, and a stale type would be closed as
a pipe when `open` fails), which files a call has at each place and that it is the
only one to refer to them (`CallInv`: else `pipealloc` would turn a file in use into
an end), and that an end has one file, or one process between the two halves of its
last `fileclose`, and never both (`EndInv`: else the end would be closed under a
descriptor). There is one lemma per action.

`ConsoleProofs` (any processes, characters and lengths of reads; `Sizes` asks that
`INPUT_BUF` divides `UMAX`, as 128 divides 2^32, and is less, and that `None` is no
process): `ConsoleInvariant`,
`ConsoleIsSound` and `LinesRefined`; the run `io` checks the same `IInv` (in
`ConsoleSound`) and `LinesSpec` on a ring of two characters. `NoLostWakeup` covers
the reader that has tested and not gone to sleep yet: `cons.lock` keeps the keyboard
out, not `kill`. `IInv` adds `RingInv`: what was typed and is not read
yet, taken modulo `UMAX`, is at most `INPUT_BUF` characters, so that a key never
overwrites one of them; and the line being edited has no committing character,
so that `C('U')`, which stops at a newline or at `w`, removes what `Lines` calls the
line and nothing that was committed. `CallInv` says that a call begins with nothing
read, from which `OneLine` follows through the whole of `consoleread`, its sleeps and
the `C('D')` it puts back. `Part` names the characters between two counters; the
lemmas on it (`PartPut`, `PartGet`, `PartBack`, `PartJoin`) say what a key, a read, a
backspace and a committed line do to the two queues of `Lines`.

Model-checked only: everything about the other modules, including that
`FileData` implements `ByteFile`; and all liveness
properties, which are out of the prover's reach. `Malloc`, `Strings`, `Text` and
the parser are recursive over their data, which the prover cannot do induction
over.

## Not modelled

- Machine set-up and assembly (`main.c`, `mp.c`, `lapic.c`, `ioapic.c`, `picirq.c`,
  `entry*.S`, `bootasm.S`, `trapasm.S`, `uart.c`, segment descriptors, `cr3`): a fixed
  order of writes to registers whose meaning no file of the repository states.
- `usertests.c`, `forktest.c`, `stressfs.c`, and the small programs (`cat`, `ls`, `wc`,
  `ln`, ...): straight lines of calls and tests; the kernel's modules let programs
  make any sequence of calls. `ulib.c` is string copying for them.
- Calls that only read (`fstat`, `uptime`, `getpid`), `procdump`, `print_free_list`.
- `walkpt` (`vm.c`) and `malloc_wf` (`umalloc.c`): stubs in this tree.
- `kill` of init and the panic "init exiting" are left out of `ProcTable`: init
  does not exit there, and pid 1 is not among the targets.
- Which physical page is where: `Vm` counts pages. The free list of `kalloc.c`, and
  its two phases before other CPUs run, do not show.
- Replacement in the inode cache: `Fs` has an entry for each inode, so that
  `iget: no inodes` is not reached. `bget: no buffers` stops a caller in `Disk`.
- Encodings: the packing of inodes, bitmap bits and entries into blocks, the byte
  order of `mkfs`, the maps from keys to characters, characters of the shell's
  tokens.
