-------------------------------- MODULE Mkfs --------------------------------
(***************************************************************************)
(* mkfs.c: the image of a file system with a root directory and the files  *)
(* of its command line.  A step is one round of the loop of iappend, or    *)
(* what main does between two of them.  A directory entry is one word, and *)
(* the bytes of a file are its inode number.                               *)
(***************************************************************************)
EXTENDS Layout, Sequences, FiniteSets

CONSTANTS
    FSSIZE, LOGSIZE, NINODES,
    IPB,      \* inodes of a block
    BPB,      \* bits of a block
    Sizes,    \* sizes of files
    MAXFILES  \* bound on the number of files

VARIABLES
    img,        \* the blocks
    din,        \* the inodes
    freeinode, freeblock,
    bitmap,     \* the blocks that the bitmap block has as used
    args,       \* sizes of the files that are still to be copied
    app,        \* the call of iappend: inode, bytes, offset
    left,       \* bytes of the current file that are still to be read
    written     \* what iappend was given so far, by inode

vars == <<img, din, freeinode, freeblock, bitmap, args, app, left, written>>

ROOTINO == 1
Inum == 1 .. NINODES - 1
nbitmap == FSSIZE \div BPB + 1
ninodeblocks == NINODES \div IPB + 1
nlog == LOGSIZE
nmeta == 2 + nlog + ninodeblocks + nbitmap
NoInode == [type |-> "none", size |-> 0, addrs |-> NoAddrs]
Idle == [i |-> 0, bytes |-> <<>>, off |-> 0]

TypeOK ==
    /\ DOMAIN img = 0 .. FSSIZE - 1
    /\ freeinode \in 1 .. NINODES /\ freeblock \in nmeta .. FSSIZE
    /\ bitmap \subseteq 0 .. FSSIZE - 1

Calling(i, bytes) ==
    /\ app' = [i |-> i, bytes |-> bytes, off |-> din[i].size]
    /\ written' = [written EXCEPT ![i] = @ \o bytes]

ialloc(type) ==
    /\ din' = [din EXCEPT ![freeinode] = [NoInode EXCEPT !.type = type]]
    /\ freeinode' = freeinode + 1

\* main up to the entries "." and "..", which are one call here.
Root ==
    /\ freeinode = ROOTINO
    /\ ialloc("dir")
    /\ Calling(ROOTINO, <<ROOTINO, ROOTINO>>)
    /\ UNCHANGED <<img, freeblock, bitmap, args, left>>

\* Faulty: the block after the indirect block is not counted.
RoundReusing(a, fbn) ==
    IF fbn < NDIRECT
    THEN LET x == IF a[fbn] = 0 THEN freeblock ELSE a[fbn] IN
         [x |-> x, a |-> [a EXCEPT ![fbn] = x], ind |-> 0,
          free |-> IF x = freeblock THEN freeblock + 1 ELSE freeblock]
    ELSE LET new == Indirect(a) = 0
             ind == IF new THEN freeblock ELSE Indirect(a)
             x == IF new \/ img[ind][fbn - NDIRECT] = 0 THEN freeblock + 1
                  ELSE img[ind][fbn - NDIRECT] IN
         [x |-> x, a |-> [a EXCEPT ![NDIRECT] = ind], ind |-> ind,
          free |-> freeblock + 1]

\* The blocks that a round of iappend appends to: the pointers it makes, from
\* freeblock on, and the block x of the data.
Round(a, fbn) ==
    IF fbn < NDIRECT
    THEN LET x == IF a[fbn] = 0 THEN freeblock ELSE a[fbn] IN
         [x |-> x, a |-> [a EXCEPT ![fbn] = x], ind |-> 0,
          free |-> IF x = freeblock THEN freeblock + 1 ELSE freeblock]
    ELSE LET ind == IF Indirect(a) = 0 THEN freeblock ELSE Indirect(a)
             next == IF Indirect(a) = 0 THEN freeblock + 1 ELSE freeblock
             x == IF img[ind][fbn - NDIRECT] = 0 THEN next ELSE img[ind][fbn - NDIRECT] IN
         [x |-> x, a |-> [a EXCEPT ![NDIRECT] = ind], ind |-> ind,
          free |-> IF x = next THEN next + 1 ELSE next]

iappend ==
    LET i == app.i  off == app.off  fbn == off \div BSIZE
        n1 == Min(Len(app.bytes), (fbn + 1) * BSIZE - off)
        r == Round(din[i].addrs, fbn)
        linked == IF r.ind = 0 THEN img ELSE [img EXCEPT ![r.ind][fbn - NDIRECT] = r.x] IN
    /\ app.bytes # <<>> /\ fbn < MAXFILE
    /\ img' = [linked EXCEPT ![r.x] =
            [k \in DOMAIN @ |-> IF k \in off % BSIZE .. (off % BSIZE) + n1 - 1
                                THEN app.bytes[k - (off % BSIZE) + 1] ELSE @[k]]]
    /\ freeblock' = r.free
    /\ din' = [din EXCEPT ![i].addrs = r.a, ![i].size = off + n1]
    /\ app' = IF n1 = Len(app.bytes) THEN Idle
              ELSE [app EXCEPT !.bytes = SubSeq(@, n1 + 1, Len(@)), !.off = @ + n1]
    /\ UNCHANGED <<freeinode, bitmap, args, left, written>>

\* The next file: an inode, and its entry in the root.
NextFile ==
    /\ freeinode > ROOTINO /\ app = Idle /\ left = 0 /\ args # <<>> /\ bitmap = {}
    /\ ialloc("file")
    /\ Calling(ROOTINO, <<freeinode>>)
    /\ left' = Head(args)
    /\ args' = Tail(args)
    /\ UNCHANGED <<img, freeblock, bitmap>>

\* The loop that copies a file, a block at a time.
CopyFile ==
    LET i == freeinode - 1  cc == Min(left, BSIZE) IN
    /\ app = Idle /\ left > 0
    /\ Calling(i, [k \in 1 .. cc |-> i])
    /\ left' = left - cc
    /\ UNCHANGED <<img, din, freeinode, freeblock, bitmap, args>>

\* The end of main: the size of the root directory is rounded up, and balloc
\* writes the bitmap.
Finish ==
    /\ freeinode > ROOTINO /\ app = Idle /\ left = 0 /\ args = <<>> /\ bitmap = {}
    /\ din' = [din EXCEPT ![ROOTINO].size = (@ \div BSIZE + 1) * BSIZE]
    /\ bitmap' = 0 .. freeblock - 1
    /\ UNCHANGED <<img, freeinode, freeblock, args, app, left, written>>

\* A run of mkfs for files of these sizes.
InitWith(sizes) ==
    /\ args = sizes
    /\ img = [b \in 0 .. FSSIZE - 1 |-> ZeroBlock]
    /\ din = [i \in Inum |-> NoInode]
    /\ freeinode = 1 /\ freeblock = nmeta
    /\ bitmap = {}
    /\ app = Idle /\ left = 0
    /\ written = [i \in Inum |-> <<>>]

Init == \E n \in 0 .. MAXFILES : \E sizes \in [1 .. n -> Sizes] : InitWith(sizes)

Next == Root \/ iappend \/ NextFile \/ CopyFile \/ Finish

Spec == Init /\ [][Next]_vars

-----------------------------------------------------------------------------
\* What the kernel finds at offset k of inode i with its bmap.
KernelReads(i, k) == img[Address(img, din[i].addrs, k \div BSIZE)][k % BSIZE]

\* Between two calls of iappend the kernel's bmap finds in every file, through
\* direct and indirect blocks, what iappend was given.
KernelReadsImage ==
    app = Idle => \A i \in Inum : \A k \in 1 .. Len(written[i]) :
                      KernelReads(i, k - 1) = written[i][k]

\* All pointers of the image, with the places they are in.
Pointers ==
    {<<i, k, din[i].addrs[k]>> : i \in Inum, k \in 0 .. NDIRECT}
    \cup UNION {{<<i, NDIRECT + 1 + k, img[Indirect(din[i].addrs)][k]>> : k \in 0 .. BSIZE - 1} :
                 i \in {j \in Inum : Indirect(din[j].addrs) # 0}}
InUse == {t \in Pointers : t[3] # 0}

\* The finished image: the bitmap has the blocks of the layout and those of
\* files, each of which has one pointer to it, so that balloc of the kernel
\* hands out none of them.
ImageConsistent ==
    bitmap # {} => /\ bitmap = (0 .. nmeta - 1) \cup {t[3] : t \in InUse}
                   /\ Cardinality(InUse) = Cardinality({t[3] : t \in InUse})
=============================================================================
