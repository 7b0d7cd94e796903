------------------------------- MODULE Layout -------------------------------
(***************************************************************************)
(* Where things are on the disk (fs.h), for mkfs.c and for fs.c: a block   *)
(* is BSIZE words, each a byte of a file or a block number.                *)
(***************************************************************************)
EXTENDS Integers

CONSTANTS BSIZE, NDIRECT

NINDIRECT == BSIZE
MAXFILE == NDIRECT + NINDIRECT
ZeroBlock == [k \in 0 .. BSIZE - 1 |-> 0]
NoAddrs == [k \in 0 .. NDIRECT |-> 0]

\* The block number in the way of block bn of a file, as bmap follows it: d
\* are the blocks, a the addrs of the inode; 0 if there is none.
Indirect(a) == a[NDIRECT]
Address(d, a, bn) ==
    IF bn < NDIRECT THEN a[bn]
    ELSE IF Indirect(a) = 0 THEN 0 ELSE d[Indirect(a)][bn - NDIRECT]

Min(a, b) == IF a < b THEN a ELSE b
=============================================================================
