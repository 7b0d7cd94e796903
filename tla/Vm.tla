--------------------------------- MODULE Vm ---------------------------------
(***************************************************************************)
(* Memory of processes: kalloc.c, the user part of vm.c, growproc and the  *)
(* copy of fork in proc.c, and exec.c.                                     *)
(*                                                                         *)
(* Processes take pages from one free list while the others are in the     *)
(* middle of a call: a step takes what one round of a loop takes.  Sizes   *)
(* and addresses count words and wrap at WRAP, as uint does at 2^32.  Which  *)
(* physical page is where is left out: pages are counted.                  *)
(***************************************************************************)
EXTENDS Integers, Sequences, FiniteSets

LOCAL INSTANCE FiniteSetsExt

CONSTANTS
    Proc,      \* the first of them is the one that userinit makes
    PAGES,     \* pages of physical memory
    PGSIZE, NPTE, KERNBASE, WRAP, MAXARG,
    PHYSTOP, DEVSPACE,  \* as virtual addresses: kmap has nothing in between
    Program,   \* what exec finds: records with fields seg and args
    Grow,      \* arguments of sbrk
    ToZero     \* whether processes give back all of their memory

VARIABLES
    free,  \* pages of kmem.freelist
    as,    \* p->pgdir: the pages of its directory and its kernel tables, the page
           \* tables and user pages that are present, and those with PTE_U
    sz,    \* p->sz
    th     \* the call that each process is in and its local variables

vars == <<free, as, sz, th>>

\* PGROUNDUP, as a page number.
PGROUNDUP(x) == (x + PGSIZE - 1) \div PGSIZE
VPage == 0 .. KERNBASE \div PGSIZE - 1
\* The pages of kmap, which every address space has.
KPage == {v \in KERNBASE \div PGSIZE .. WRAP \div PGSIZE - 1 :
             v * PGSIZE < PHYSTOP \/ v * PGSIZE >= DEVSPACE}
PDX(v) == v \div NPTE
None == [dir |-> 0, tab |-> {}, pte |-> {}, user |-> {}]
Out == [pc |-> "out", op |-> "none", d |-> None, i |-> 0, a |-> 0, old |-> 0, new |-> 0,
        prog |-> [seg |-> <<>>, args |-> <<>>], ret |-> 0, before |-> <<>>]

TypeOK ==
    /\ free \in 0 .. PAGES
    /\ \A p \in Proc : sz[p] \in 0 .. KERNBASE - 1 /\ as[p].pte \subseteq VPage
    /\ \A p \in Proc : DOMAIN th[p] = DOMAIN Out

-----------------------------------------------------------------------------
(* kalloc.c and vm.c.  An operator maps s = [free, d, ok]: the free pages,   *)
(* an address space, and whether the calls so far have succeeded.            *)

Pages(d) == d.dir + Cardinality(d.tab) + Cardinality(d.pte)

\* A page for v, from kalloc, and mappages and walkpgdir with alloc, which may
\* need a page table; the page is given back when there is none.
NewPage(s, v, user) ==
    LET tab == {PDX(v)} \ s.d.tab  n == 1 + Cardinality(tab) IN
    IF s.free < n THEN [s EXCEPT !.ok = FALSE]
    ELSE [s EXCEPT !.free = @ - n,
                   !.d = [@ EXCEPT !.tab = @ \cup tab, !.pte = @ \cup {v},
                                   !.user = IF user THEN @ \cup {v} ELSE @]]

\* Faulty: rounds the new size down.
DeallocDown(s, oldsz, newsz) ==
    LET V == {v \in s.d.pte : v >= newsz \div PGSIZE /\ v * PGSIZE < oldsz} IN
    IF newsz >= oldsz THEN s
    ELSE [s EXCEPT !.free = @ + Cardinality(V),
                   !.d = [@ EXCEPT !.pte = @ \ V, !.user = @ \ V]]

\* The pages from newsz to oldsz go; the page tables stay.
deallocuvm(s, oldsz, newsz) ==
    LET V == {v \in s.d.pte : v >= PGROUNDUP(newsz) /\ v * PGSIZE < oldsz} IN
    IF newsz >= oldsz THEN s
    ELSE [s EXCEPT !.free = @ + Cardinality(V),
                   !.d = [@ EXCEPT !.pte = @ \ V, !.user = @ \ V]]

freevm(s) ==
    LET t == deallocuvm(s, KERNBASE, 0) IN [t EXCEPT !.free = @ + Pages(t.d), !.d = None]

\* The size that allocuvm is to reach; -1 when it is too large.
allocsize(oldsz, newsz) ==
    IF newsz >= KERNBASE THEN -1 ELSE IF newsz < oldsz THEN oldsz ELSE newsz

Least(S) == CHOOSE x \in S : \A y \in S : x <= y

\* Whether copyout may write to the page at v.  uva2ka does not ask whether
\* walkpgdir found a page table.
uva2ka(d, v) ==
    IF PDX(v) \notin d.tab \cup {PDX(k) : k \in KPage} THEN "panic"
    ELSE IF v \in d.user THEN "ok" ELSE "bad"

\* The outcome of copyout for len words at va: that of the first page that is
\* not as it should be.
copyout(d, va, len) ==
    LET At(k) == (va \div PGSIZE + k) % (WRAP \div PGSIZE)
        Stops == {k \in 0 .. ((va % PGSIZE) + len - 1) \div PGSIZE : uva2ka(d, At(k)) # "ok"} IN
    IF Stops = {} THEN "ok" ELSE uva2ka(d, At(Least(Stops)))

-----------------------------------------------------------------------------
(* Calls *)

State(p, d) == [free |-> free, d |-> d, ok |-> TRUE]
Local(p, f) == th' = [th EXCEPT ![p] = f]
Go(p, pc) == Local(p, [th[p] EXCEPT !.pc = pc])
Return(p, ret) == Local(p, [Out EXCEPT !.ret = ret, !.before = th[p].before])
Panic(p) == Go(p, "panic") /\ UNCHANGED <<free, as, sz>>

\* The call fails, and the address space that it was building goes.
Bad(p, s) ==
    /\ free' = freevm(s).free
    /\ Return(p, -1)
    /\ UNCHANGED <<as, sz>>

\* A process that has no page left faults when it is back in user mode, and
\* trap kills it.
CanCall(p) == th[p].pc = "out" /\ as[p].pte # {}

\* The start of a call; before is kept for the properties.
Call(p, f) ==
    /\ CanCall(p)
    /\ Local(p, [f EXCEPT !.before = <<as[p].pte, as[p].user, sz[p]>>])
    /\ UNCHANGED <<free, as, sz>>

Calls(p) ==
    \/ /\ \E q \in Proc : as[q].dir = 0 /\ ~\E r \in Proc : th[r].op = "fork"
       /\ Call(p, [Out EXCEPT !.pc = "pgdir", !.op = "fork"])
    \/ \E prog \in Program :   \* its arguments are strings in the memory of p
          /\ \A k \in DOMAIN prog.args : prog.args[k] <= sz[p]
          /\ Call(p, [Out EXCEPT !.pc = "pgdir", !.op = "exec", !.prog = prog])

\* growproc, as far as allocuvm or all of deallocuvm.
growproc(p, n) ==
    LET newsz == (sz[p] + n) % WRAP
        new == allocsize(sz[p], newsz)
        s == deallocuvm(State(p, as[p]), sz[p], newsz) IN
    /\ ToZero \/ newsz # 0
    /\ \/ /\ n > 0
          /\ Call(p, IF new = -1 THEN [Out EXCEPT !.ret = -1]
                     ELSE [Out EXCEPT !.pc = "alloc", !.op = "sbrk", !.a = PGROUNDUP(sz[p]),
                                      !.old = sz[p], !.new = new])
       \/ /\ n < 0 /\ CanCall(p)
          /\ free' = s.free
          /\ as' = [as EXCEPT ![p] = s.d]
          /\ sz' = [sz EXCEPT ![p] = IF newsz < sz[p] /\ newsz # 0 THEN newsz ELSE @]
          /\ Local(p, IF newsz # 0 THEN Out
                      ELSE [Out EXCEPT !.ret = -1, !.before = <<as[p].pte, as[p].user, sz[p]>>])

\* setupkvm: the directory, then the tables of the kernel.
setupkvm(p) ==
    /\ th[p].pc \in {"pgdir", "kmap"}
    /\ IF free = 0 THEN Bad(p, State(p, th[p].d))
       ELSE /\ free' = free - 1
            /\ Local(p, [th[p] EXCEPT !.d.dir = @ + 1,
                                      !.pc = CASE @ = "pgdir" -> "kmap"
                                               [] th[p].op = "fork" -> "copy"
                                               [] OTHER -> "seg"])
            /\ UNCHANGED <<as, sz>>

\* A round of the loop of copyuvm, or its end and that of fork.
copyuvm(p) ==
    LET v == th[p].a  s == NewPage(State(p, th[p].d), v, v \in as[p].user)
        np == CHOOSE q \in Proc : as[q].dir = 0 IN
    /\ th[p].pc = "copy"
    /\ IF v * PGSIZE >= sz[p]
       THEN /\ as' = [as EXCEPT ![np] = th[p].d]
            /\ sz' = [sz EXCEPT ![np] = sz[p]]
            /\ Return(p, 0)
            /\ UNCHANGED free
       ELSE IF v \notin as[p].pte THEN Panic(p)
       ELSE IF ~s.ok THEN Bad(p, s)
       ELSE /\ free' = s.free
            /\ Local(p, [th[p] EXCEPT !.d = s.d, !.a = @ + 1])
            /\ UNCHANGED <<as, sz>>

\* Faulty: what allocuvm has got so far is kept when it fails.
UndoNothing(p, s) == s

\* The pages that a failing allocuvm gives back.
Undo(p, s) == deallocuvm(s, th[p].new, th[p].old)

\* A round of the loop of allocuvm, or its end and what its caller does then.
allocuvm(p) ==
    LET exec == th[p].op = "exec"
        s0 == State(p, IF exec THEN th[p].d ELSE as[p])
        s == NewPage(s0, th[p].a, TRUE)
        u == Undo(p, s) IN
    /\ th[p].pc = "alloc"
    /\ IF th[p].a * PGSIZE < th[p].new
       THEN IF th[p].a \in s0.d.pte THEN Panic(p)
            ELSE IF s.ok
            THEN /\ free' = s.free
                 /\ Local(p, [th[p] EXCEPT !.a = @ + 1, !.d = IF exec THEN s.d ELSE @])
                 /\ as' = IF exec THEN as ELSE [as EXCEPT ![p] = s.d]
                 /\ UNCHANGED sz
            ELSE IF exec THEN Bad(p, u)
            ELSE /\ free' = u.free
                 /\ as' = [as EXCEPT ![p] = u.d]
                 /\ Return(p, -1)
                 /\ UNCHANGED sz
       ELSE IF ~exec
       THEN /\ sz' = [sz EXCEPT ![p] = th[p].new]
            /\ Return(p, 0)
            /\ UNCHANGED <<free, as>>
       ELSE IF th[p].new = 0 THEN Bad(p, s0)
       ELSE /\ Local(p, [th[p] EXCEPT !.old = th[p].new,
                                      !.pc = IF th[p].i < Len(th[p].prog.seg) THEN "load" ELSE "args"])
            /\ UNCHANGED <<free, as, sz>>

\* exec calls allocuvm for newsz words.
Extend(p, f, oldsz, newsz) ==
    LET new == allocsize(oldsz, newsz) IN
    IF new = -1 THEN Bad(p, State(p, th[p].d))
    ELSE /\ Local(p, [f EXCEPT !.pc = "alloc", !.a = PGROUNDUP(oldsz), !.old = oldsz, !.new = new])
         /\ UNCHANGED <<free, as, sz>>

\* exec: the next program header, or the two pages of the stack.
segment(p) ==
    LET segs == th[p].prog.seg  h == segs[th[p].i + 1]
        top == PGROUNDUP(th[p].old) * PGSIZE IN
    /\ th[p].pc = "seg"
    /\ IF th[p].i = Len(segs) THEN Extend(p, th[p], top, top + 2 * PGSIZE)
       ELSE IF h.type = "short" THEN Bad(p, State(p, th[p].d))
       ELSE IF h.type # "load"
       THEN Local(p, [th[p] EXCEPT !.i = @ + 1]) /\ UNCHANGED <<free, as, sz>>
       ELSE IF h.memsz < h.filesz \/ (h.vaddr + h.memsz) % WRAP < h.vaddr
       THEN Bad(p, State(p, th[p].d))
       ELSE Extend(p, th[p], th[p].old, h.vaddr + h.memsz)

\* exec and loaduvm: the contents of a segment.
loaduvm(p) ==
    LET h == th[p].prog.seg[th[p].i + 1]
        V == {v \in VPage : v >= h.vaddr \div PGSIZE /\ v * PGSIZE < h.vaddr + h.filesz} IN
    /\ th[p].pc = "load"
    /\ IF h.vaddr % PGSIZE # 0 THEN Bad(p, State(p, th[p].d))
       ELSE IF ~(V \subseteq th[p].d.pte) THEN Panic(p)
       ELSE IF ~h.readable /\ V # {} THEN Bad(p, State(p, th[p].d))
       ELSE /\ Local(p, [th[p] EXCEPT !.i = @ + 1, !.pc = "seg"])
            /\ UNCHANGED <<free, as, sz>>

clearpteu(d, top) == [d EXCEPT !.user = @ \ {top \div PGSIZE - 2}]

\* sp after the first k arguments of exec, and after ustack.
Pushed(top, args) ==
    LET sp[k \in 0 .. Len(args)] == IF k = 0 THEN top ELSE (sp[k - 1] - args[k]) % WRAP IN
    [k \in 0 .. Len(args) + 1 |->
        IF k <= Len(args) THEN sp[k] ELSE (sp[k - 1] - (3 + Len(args) + 1)) % WRAP]

\* exec: the guard page, the arguments, and the commitment to the new image.
commit(p) ==
    LET args == th[p].prog.args  top == th[p].old
        d == clearpteu(th[p].d, top)
        sp == Pushed(top, args)
        out == [k \in 1 .. Len(args) + 1 |->
                   IF k > Len(args) THEN copyout(d, sp[k], 3 + Len(args) + 1)
                   ELSE IF k > MAXARG THEN "bad" ELSE copyout(d, sp[k], args[k])]
        Failing == {k \in DOMAIN out : out[k] # "ok"} IN
    /\ th[p].pc = "args"
    /\ IF Failing = {}
       THEN /\ free' = freevm(State(p, as[p])).free
            /\ as' = [as EXCEPT ![p] = d]
            /\ sz' = [sz EXCEPT ![p] = top]
            /\ Local(p, [Out EXCEPT !.a = sp[Len(args) + 1], !.new = top])
       ELSE IF out[Least(Failing)] = "panic" THEN Panic(p)
       ELSE Bad(p, State(p, d))

\* exit, and wait in the parent.
reap(p) ==
    /\ th[p].pc = "out" /\ as[p].dir # 0
    /\ \E q \in Proc \ {p} : as[q].dir # 0
    /\ free' = freevm(State(p, as[p])).free
    /\ as' = [as EXCEPT ![p] = None]
    /\ sz' = [sz EXCEPT ![p] = 0]
    /\ Local(p, Out)

\* userinit and inituvm have given the first process a page.
Init ==
    LET s == NewPage([free |-> PAGES - 2, d |-> [None EXCEPT !.dir = 2], ok |-> TRUE], 0, TRUE) IN
    /\ free = s.free
    /\ as = [p \in Proc |-> IF p = Least(Proc) THEN s.d ELSE None]
    /\ sz = [p \in Proc |-> IF p = Least(Proc) THEN PGSIZE ELSE 0]
    /\ th = [p \in Proc |-> Out]

Next ==
    \E p \in Proc :
        \/ Calls(p) \/ setupkvm(p) \/ copyuvm(p) \/ allocuvm(p) \/ reap(p)
        \/ segment(p) \/ loaduvm(p) \/ commit(p)
        \/ \E n \in Grow : growproc(p, n)

Spec == Init /\ [][Next]_vars

-----------------------------------------------------------------------------
\* Pages are conserved: every page is free or in a page table that a process
\* has or is building, whatever fails in the middle of fork, exec and sbrk.
PagesConserved ==
    LET held(p) == Pages(as[p]) + Pages(th[p].d) IN
    free + MapThenSumSet(held, Proc) = PAGES

\* A process has exactly the pages below its size.
SizeMapped ==
    \A p \in Proc : th[p].pc = "out" =>
        as[p].pte = {v \in VPage : v * PGSIZE < sz[p]}

\* A call that returns -1 has changed nothing that the process can see.
FailedCallsUndone ==
    \A p \in Proc : th[p].ret = -1 => th[p].before = <<as[p].pte, as[p].user, sz[p]>>

\* What exec has pushed lies in the page of the stack: arguments that do not
\* fit run into the guard page and make exec fail.
ArgsInStack ==
    \A p \in Proc : th[p].pc = "out" /\ th[p].a # 0 => th[p].a >= th[p].new - PGSIZE

\* No panic of copyuvm, mappages or loaduvm is reached, nor a page table that
\* is not there in copyout (for arguments of exec shorter than the devices'
\* part of the address space: a longer one makes sp wrap to below DEVSPACE).
NoPanic == \A p \in Proc : th[p].pc # "panic"
=============================================================================
