------------------------------- MODULE MCProc -------------------------------
(***************************************************************************)
(* Processes and what each has for itself, side by side: their life        *)
(* (ProcTable), sleep and the clock (Clock), their memory (Vm), the heap   *)
(* of a program (Malloc), and the shell (Sh, ShParse).  A behaviour is one *)
(* of the component that focus names, while the others stay in their       *)
(* initial states, so the numbers of states add up and do not multiply.    *)
(***************************************************************************)
EXTENDS ProcTable, Integers, Sequences

VARIABLES
    focus,                                         \* the component
    ticks, kpc, ticks0, n, kkilled, elapsed, missed,  \* Clock
    vfree, as, sz, th,                             \* Vm
    ptr, size, freep, brk, live, gaps,             \* Malloc
    procs, npipe, failed,                          \* Sh
    tokens                                         \* a line for ShParse

CL == INSTANCE Clock WITH
    Proc <- {1, 2}, CPU <- {0, 1}, UMAX <- 3, Counts <- {0, -1}, pc <- kpc, killed <- kkilled

\* Programs for exec: that it loads, also with arguments that just fit on the
\* stack; and that it refuses at every one of its tests.
Segment(type, vaddr, memsz, filesz, readable) ==
    [type |-> type, vaddr |-> vaddr, memsz |-> memsz, filesz |-> filesz, readable |-> readable]
Exec(seg, args) == [seg |-> seg, args |-> args]
Programs ==
    {Exec(<<Segment("note", 0, 0, 0, TRUE), Segment("load", 0, 3, 2, TRUE),
            Segment("short", 0, 0, 0, TRUE)>>, <<>>),
     Exec(<<Segment("load", 0, 9, 6, TRUE), Segment("load", 6, 2, 2, TRUE)>>, <<2>>),
     Exec(<<Segment("load", 0, 8, 8, FALSE)>>, <<>>),
     Exec(<<Segment("load", 0, 2, 4, TRUE)>>, <<>>),
     Exec(<<Segment("load", 1, 2, 2, TRUE)>>, <<>>),
     Exec(<<Segment("load", 12, 50, 0, TRUE)>>, <<>>),
     Exec(<<Segment("load", 0, 0, 0, TRUE)>>, <<>>),
     Exec(<<Segment("load", 0, 24, 0, TRUE)>>, <<>>),
     Exec(<<Segment("load", 0, 2, 2, TRUE)>>, <<7>>),
     Exec(<<>>, <<14>>),
     Exec(<<>>, <<1, 1, 1>>)}
VM == INSTANCE Vm WITH
    Proc <- {1, 2}, PGSIZE <- 6, NPTE <- 2, PAGES <- 10, KERNBASE <- 24, WRAP <- 60,
    PHYSTOP <- 36, DEVSPACE <- 48, MAXARG <- 2, Program <- Programs, Grow <- {9, -6}, ToZero <- FALSE, free <- vfree

MA == INSTANCE Malloc WITH LIMIT <- 8, NALLOC <- 3, Units <- {1, 2, 4}, MAXGAPS <- 1

Lines == {<<"a", "|", "a", "|", "a">>, <<"a", "&", ";", "a", "<", "a">>,
          <<"(", "a", ";", "a", ")", "|", "a">>, <<")">>,
          <<"a", "<", "a", "|", "(", "a", "&", ")">>}
SH == INSTANCE Sh WITH MAXARGS <- 3, NPROC <- 7, NFILE <- 8, Line <- Lines

Texts(S, m) == UNION {[1 .. k -> S] : k \in 0 .. m}

clvars == <<ticks, kpc, ticks0, n, kkilled, elapsed, missed>>
vmvars == <<vfree, as, sz, th>>
mavars == <<ptr, size, freep, brk, live, gaps>>
shvars == <<procs, npipe, failed>>

AllInit ==
    /\ Init /\ CL!Init /\ VM!Init /\ MA!Init /\ SH!Init
    /\ \/ focus \in {"ProcTable", "Clock", "Vm", "Malloc", "Sh"} /\ tokens = <<>>
       \/ focus = "ShParse" /\ tokens \in Texts({"a", "<", "|", "&", ";", "(", ")"}, 4)

AllNext ==
    /\ \/ focus = "ProcTable" /\ Next /\ UNCHANGED <<clvars, vmvars, mavars, shvars>>
       \/ focus = "Clock" /\ CL!Next /\ UNCHANGED <<vars, vmvars, mavars, shvars>>
       \/ focus = "Vm" /\ VM!Next /\ UNCHANGED <<vars, clvars, mavars, shvars>>
       \/ focus = "Malloc" /\ MA!Next /\ UNCHANGED <<vars, clvars, vmvars, shvars>>
       \/ focus = "Sh" /\ SH!Next /\ UNCHANGED <<vars, clvars, vmvars, mavars>>
    /\ UNCHANGED <<focus, tokens>>

\* The component in focus goes on: processes in fork or exit, and those in wait
\* look at the table again; the clock ticks and sleepers look at it (both take
\* tickslock, which nobody is kept from for ever); the processes of a line run.
\* The others do not move.
AllFairness ==
    /\ \A p \in Slot :
          /\ WF_vars(focus = "ProcTable" /\ (AllocStack(p) \/ CopyProc(p) \/ ForkDone(p) \/ ExitDone(p)))
          /\ WF_vars(focus = "ProcTable" /\ pc[p] = "wait" /\ (WaitReap(p) \/ WaitFails(p)))
    /\ SF_clvars(focus = "Clock" /\ CL!trap(0))
    /\ \A p \in {1, 2} : /\ SF_clvars(focus = "Clock" /\ CL!SleepTurn(p))
                         /\ WF_clvars(focus = "Clock" /\ CL!sleep(p))
    /\ \A i \in 1 .. 7 : WF_shvars(focus = "Sh" /\ SH!Steps(i))

AllSpec ==
    /\ AllInit /\ [][AllNext]_<<vars, clvars, vmvars, mavars, shvars, focus, tokens>>
    /\ AllFairness

-----------------------------------------------------------------------------
\* sys_sleep returns 0 only after the ticks it was asked for, and a killed process
\* sleeps over one tick at most.
SleepsRight == focus = "Clock" => CL!TypeOK /\ CL!SleptEnough /\ CL!KilledSoon

\* No page is lost or mapped twice by fork, exec, sbrk and exit, the pages below
\* p->sz are mapped, and no panic of vm.c is reached, nor a page table missed, also
\* when an argument of exec makes sp wrap.
MemoryKept == focus = "Vm" => VM!TypeOK /\ VM!PagesConserved /\ VM!SizeMapped /\ VM!NoPanic

\* A call of fork, exec or sbrk that fails, wherever memory runs out, changes
\* nothing; one of exec that succeeds has its arguments on the stack, above its
\* guard page.
FailedCallsUndone == focus = "Vm" => VM!FailedCallsUndone /\ VM!ArgsInStack

\* Blocks of malloc, free blocks and what others got from sbrk fill the heap
\* without overlap; the free list is a circle in the order of addresses, and
\* neighbours are joined.
HeapSound == focus = "Malloc" => MA!TypeOK /\ MA!HeapTiled /\ MA!FreeListOrdered

\* Programs that runcmd starts have stdin, stdout and stderr and no other
\* descriptor, and a command ends only after what it runs in the foreground.
ShellRight == focus = "Sh" => SH!TypeOK /\ SH!OnlyStdio /\ SH!ForegroundFirst

\* The parser of sh.c finds what the operators of the line mean.
ParsesRight == focus = "ShParse" => SH!ParsesRight(tokens)

\* Process p waits for something that comes: for a child that has exited, for
\* ticks or, as the shell, for its commands.
Waits(p) ==
    \/ focus = "ProcTable" /\ pc[p] = "wait" /\ Zombies(p) # {}
    \/ focus = "Clock" /\ p \in {1, 2} /\ CL!Sleeping(p)
    \/ focus = "Sh" /\ p = 1 /\ procs[1].pc = "wait"

Returned(p) ==
    \/ focus = "ProcTable" /\ pc[p] # "wait"
    \/ focus = "Clock" /\ p \in {1, 2} /\ ~CL!Sleeping(p)
    \/ focus = "Sh" /\ procs[1].pc # "wait"

\* wait returns once a child has exited, sys_sleep returns, and the shell gets
\* back to its prompt.
CallsReturn == \A p \in Slot : Waits(p) ~> Returned(p)
=============================================================================
