------------------------------- MODULE Malloc -------------------------------
(***************************************************************************)
(* malloc and free of umalloc.c.  The heap is counted in units of the size *)
(* of a Header; a block is a header and what follows it.  base is at       *)
(* address 0, below the heap.  sbrk may fail, and the program may call     *)
(* sbrk itself, so that the parts of the heap need not be adjacent.        *)
(***************************************************************************)
EXTENDS Naturals, FiniteSets

CONSTANTS
    LIMIT,     \* last unit that sbrk can give
    NALLOC,    \* the least number of units that morecore asks for (4096)
    Units,     \* sizes of requests, header included
    MAXGAPS    \* bound on the units that the program takes with sbrk

VARIABLES
    ptr, size,  \* the fields of the headers, by address
    freep,
    brk,        \* the first unit that sbrk has not given yet
    live,       \* the blocks that malloc returned and free has not got back
    gaps        \* the units that the program took

vars == <<ptr, size, freep, brk, live, gaps>>

base == 0
NULL == LIMIT + 1
Addr == 0 .. LIMIT

TypeOK ==
    /\ ptr \in [Addr -> Addr \cup {NULL}] /\ size \in [Addr -> 0 .. LIMIT]
    /\ freep \in Addr \cup {NULL} /\ brk \in 1 .. NULL
    /\ live \subseteq Addr /\ gaps \subseteq Addr

\* The state that the functions map, and what they return.
Heap == [ptr |-> ptr, size |-> size, freep |-> freep, brk |-> brk, ret |-> NULL]

\* The loop of free: the block of the list after which bp belongs.
RECURSIVE Before(_, _, _)
Before(m, bp, p) ==
    LET next == m.ptr[p] IN
    IF (bp > p /\ bp < next) \/ (p >= next /\ (bp > p \/ bp < next)) THEN p
    ELSE Before(m, bp, next)

\* Faulty: joins the block with the one after it only.
FreeJoinsNext(m, bp) ==
    LET p == Before(m, bp, m.freep)  next == m.ptr[p]
        up == bp + m.size[bp] = next IN
    [m EXCEPT !.size[bp] = IF up THEN @ + m.size[next] ELSE @,
              !.ptr = [@ EXCEPT ![bp] = IF up THEN m.ptr[next] ELSE next, ![p] = bp],
              !.freep = p]

free(m, bp) ==
    LET p == Before(m, bp, m.freep)  next == m.ptr[p]
        up == bp + m.size[bp] = next
        m1 == [m EXCEPT !.size[bp] = IF up THEN @ + m.size[next] ELSE @,
                        !.ptr[bp] = IF up THEN m.ptr[next] ELSE next] IN
    IF p + m.size[p] = bp
    THEN [m1 EXCEPT !.size[p] = @ + m1.size[bp], !.ptr[p] = m1.ptr[bp], !.freep = p]
    ELSE [m1 EXCEPT !.ptr[p] = bp, !.freep = p]

\* morecore, when sbrk succeeds.
Asked(nu) == IF nu < NALLOC THEN NALLOC ELSE nu
morecore(m, nu) == free([m EXCEPT !.size[m.brk] = Asked(nu), !.brk = @ + Asked(nu)], m.brk)

\* malloc, when block p is large enough: all of it, or its tail.
Take(m, prevp, p, nunits) ==
    IF m.size[p] = nunits THEN [m EXCEPT !.ptr[prevp] = m.ptr[p], !.freep = prevp, !.ret = p]
    ELSE LET q == p + m.size[p] - nunits IN
         [m EXCEPT !.size = [@ EXCEPT ![p] = @ - nunits, ![q] = nunits],
                   !.freep = prevp, !.ret = q]

\* The loop of malloc; ok tells whether a call of sbrk succeeds.
RECURSIVE Search(_, _, _, _, _)
Search(m, prevp, p, nunits, ok) ==
    IF m.size[p] >= nunits THEN Take(m, prevp, p, nunits)
    ELSE IF p # m.freep THEN Search(m, p, m.ptr[p], nunits, ok)
    ELSE IF ~ok \/ m.brk + Asked(nunits) > NULL THEN m
    ELSE LET m1 == morecore(m, nunits) IN Search(m1, m1.freep, m1.ptr[m1.freep], nunits, ok)

\* The blocks of the free list, from base around to base.
RECURSIVE Following(_, _, _)
Following(m, p, n) == IF p = base \/ n = 0 THEN {} ELSE {p} \cup Following(m, m.ptr[p], n - 1)
Listed(m) == IF m.freep = NULL THEN {} ELSE Following(m, m.ptr[base], LIMIT)

\* The new state, given the blocks in use.  What is left in a unit that is no
\* header any more, and in ptr of a block in use, is not read again.
Becomes(m, used) ==
    LET F == Listed(m) IN
    /\ ptr' = [a \in Addr |-> IF a \in F \cup {base} THEN m.ptr[a] ELSE NULL]
    /\ size' = [a \in Addr |-> IF a \in F \cup used THEN m.size[a] ELSE 0]
    /\ freep' = m.freep /\ brk' = m.brk /\ live' = used
    /\ UNCHANGED gaps

malloc(nunits, ok) ==
    LET m0 == IF freep = NULL THEN [Heap EXCEPT !.ptr[base] = base, !.size[base] = 0, !.freep = base]
              ELSE Heap
        m == Search(m0, m0.freep, m0.ptr[m0.freep], nunits, ok) IN
    Becomes(m, live \cup ({m.ret} \ {NULL}))

Free(bp) ==
    /\ bp \in live
    /\ Becomes(free(Heap, bp), live \ {bp})

\* The program calls sbrk.
Gap ==
    /\ Cardinality(gaps) < MAXGAPS /\ brk < NULL
    /\ gaps' = gaps \cup {brk}
    /\ brk' = brk + 1
    /\ UNCHANGED <<ptr, size, freep, live>>

Init ==
    /\ ptr = [a \in Addr |-> NULL] /\ size = [a \in Addr |-> 0]
    /\ freep = NULL /\ brk = 1 /\ live = {} /\ gaps = {}

Next ==
    \/ \E n \in Units, ok \in BOOLEAN : malloc(n, ok)
    \/ \E bp \in Addr : Free(bp)
    \/ Gap

-----------------------------------------------------------------------------
FreeBlocks == Listed(Heap)
Extent(a) == a .. a + size[a] - 1

\* The heap is tiled: each unit that sbrk gave is in exactly one block that is
\* in use or in the free list, or belongs to the program.
HeapTiled ==
    LET B == live \cup FreeBlocks IN
    /\ UNION {Extent(a) : a \in B} \cup gaps = 1 .. brk - 1
    /\ \A a \in B : Extent(a) \cap gaps = {}
    /\ \A a, b \in B : a # b => Extent(a) \cap Extent(b) = {}
    /\ live \cap FreeBlocks = {}

\* The free list is circular, in the order of addresses, goes through base and
\* freep, and has no two blocks that could be one.
FreeListOrdered ==
    freep # NULL =>
        /\ freep \in FreeBlocks \cup {base}
        /\ \A a \in FreeBlocks : /\ ptr[a] = base \/ ptr[a] > a + size[a]
                                 /\ ptr[a] \in FreeBlocks \cup {base}
=============================================================================
