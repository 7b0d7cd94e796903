-------------------------------- MODULE Boot --------------------------------
(***************************************************************************)
(* bootmain.c: the loader reads the kernel's segments from the disk, in    *)
(* whole sectors.  A byte of the kernel's file is its offset in it, a zero *)
(* of a bss is Zero, and memory the loader never wrote is Junk.            *)
(***************************************************************************)
EXTENDS Integers, Sequences

LOCAL INSTANCE SequencesExt

CONSTANTS
    SECTSIZE,  \* bytes of a sector
    MEMORY     \* bytes of memory

Junk == -1
Zero == -2
Memory == 0 .. MEMORY - 1

\* Sector n of the disk; the kernel starts at sector 1.
readsect(mem, dst, n) ==
    [a \in Memory |-> IF a \in dst .. dst + SECTSIZE - 1 THEN (n - 1) * SECTSIZE + (a - dst) ELSE mem[a]]

RECURSIVE Sectors(_, _, _, _)
Sectors(mem, pa, epa, n) ==
    IF pa < epa THEN Sectors(readsect(mem, pa, n), pa + SECTSIZE, epa, n + 1) ELSE mem

readseg(mem, pa, count, offset) ==
    Sectors(mem, pa - (offset % SECTSIZE), pa + count, (offset \div SECTSIZE) + 1)

\* A round of bootmain's loop over the program headers.
loadseg(mem, ph) ==
    LET read == readseg(mem, ph.paddr, ph.filesz, ph.off) IN
    [a \in Memory |-> IF a \in ph.paddr + ph.filesz .. ph.paddr + ph.memsz - 1 THEN Zero ELSE read[a]]
bootmain(phs) == FoldLeft(loadseg, [a \in Memory |-> Junk], phs)

\* Segments that the linker laid out in the file as in memory, in increasing
\* order, are all there in the end, though each of them was read in whole
\* sectors and so writes before its start and after its end.
LoadsExactly(phs) ==
    \A i \in DOMAIN phs : \A k \in 0 .. phs[i].memsz - 1 :
        bootmain(phs)[phs[i].paddr + k] = IF k < phs[i].filesz THEN phs[i].off + k ELSE Zero
=============================================================================
