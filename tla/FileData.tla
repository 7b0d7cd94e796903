------------------------------ MODULE FileData ------------------------------
(***************************************************************************)
(* Contents of files: the block allocator, bmap, itrunc, readi and writei  *)
(* of fs.c under fileread and filewrite of file.c.                         *)
(*                                                                         *)
(* A round of the loop of writei is one step, with the inode locked, so    *)
(* that processes that write to different files allocate in turns.         *)
(***************************************************************************)
EXTENDS Layout, Sequences, FiniteSets

CONSTANTS
    Proc, File, Inode, Byte,
    NBLOCKS,      \* data blocks of the disk
    MAXOPBLOCKS,
    BPB,          \* bits of a block of the bitmap
    Reads,        \* sizes of reads
    Writes,       \* [File -> the sizes of the writes to it]
    Data,         \* [File -> the bytes that are written to it]
    Opens,        \* [File -> the inodes that it is opened for]
    Shares        \* [Proc -> the open files that it uses]

VARIABLES
    used,    \* the bitmap of the disk
    data,    \* contents of the data blocks
    inode,   \* size and addrs of each inode, and the owner of its lock
    file,    \* ftable: ip and off; ip = 0 when the entry is free
    th,      \* the call of each process
    ret      \* what the last step returned, if it was a read

vars == <<used, data, inode, file, th, ret>>

Block == 1 .. NBLOCKS
\* The blocks of the bitmap and of the inode have numbers of their own here.
BBLOCK(x) == -1 - x \div BPB
IBLOCK == 0
Empty == [size |-> 0, addrs |-> NoAddrs, lock |-> 0]
Idle == [pc |-> "out", f |-> 0, v |-> 0, n |-> 0, i |-> 0, tot |-> 0, n1 |-> 0, logged |-> {}]

TypeOK ==
    /\ used \subseteq Block
    /\ data \in [Block -> [0 .. BSIZE - 1 -> Byte \cup Block \cup {0}]]
    /\ inode \in [Inode -> [size : 0 .. MAXFILE * BSIZE, addrs : [0 .. NDIRECT -> Block \cup {0}],
                            lock : Proc \cup {0}]]
    /\ file \in [File -> [ip : Inode \cup {0}, off : 0 .. MAXFILE * BSIZE]]
    /\ \A p \in Proc : th[p].pc \in {"out", "filewrite", "writei", "panic"}
    /\ ret \in Seq(Byte)

\* Faulty: no slop for writes that are not aligned.
MaxAligned == ((MAXOPBLOCKS - 1 - 1) \div 2) * BSIZE
\* The ceiling of a write in one transaction, in filewrite.
MaxWrite == ((MAXOPBLOCKS - 1 - 1 - 2) \div 2) * BSIZE

-----------------------------------------------------------------------------
(* fs.c.  The state these operators map is [used, data, a]: the bitmap, the  *)
(* blocks, and addrs of the inode; b is the block a function returns.        *)

FreeBlocks(s) == Block \ s.used
Least(S) == CHOOSE x \in S : \A y \in S : x <= y

\* Faulty: the block keeps what it held.
ballocDirty(s) == [s EXCEPT !.used = @ \cup {Least(FreeBlocks(s))}, !.b = Least(FreeBlocks(s)),
                            !.logged = @ \cup {BBLOCK(Least(FreeBlocks(s)))}]

\* balloc, with bzero, when there is a free block.
balloc(s) ==
    LET x == Least(FreeBlocks(s)) IN
    [s EXCEPT !.used = @ \cup {x}, !.data[x] = ZeroBlock, !.b = x,
              !.logged = @ \cup {BBLOCK(x), x}]

\* The number of blocks that bmap has to allocate.
Missing(a, bn) ==
    IF bn < NDIRECT \/ Indirect(a) # 0 THEN IF Address(data, a, bn) = 0 THEN 1 ELSE 0 ELSE 2

\* bmap: the direct pointer, or the indirect block and the pointer in it.
bmap(s, bn) ==
    IF Address(s.data, s.a, bn) # 0 THEN [s EXCEPT !.b = Address(s.data, s.a, bn)]
    ELSE IF bn < NDIRECT THEN LET t == balloc(s) IN [t EXCEPT !.a[bn] = t.b]
    ELSE LET s1 == IF Indirect(s.a) # 0 THEN s
                   ELSE LET t == balloc(s) IN [t EXCEPT !.a[NDIRECT] = t.b]
             x == Indirect(s1.a) IN
         IF s1.data[x][bn - NDIRECT] # 0 THEN [s1 EXCEPT !.b = s1.data[x][bn - NDIRECT]]
         ELSE LET t == balloc(s1) IN
              [t EXCEPT !.data[x][bn - NDIRECT] = t.b, !.logged = @ \cup {x}]

\* The blocks that itrunc frees.
Pointers(i) == {inode[i].addrs[k] : k \in 0 .. NDIRECT} \ {0}
Blocks(i) ==
    LET x == Indirect(inode[i].addrs) IN
    Pointers(i) \cup (IF x = 0 THEN {} ELSE {data[x][k] : k \in 0 .. NINDIRECT - 1} \ {0})

\* itrunc, from the iput that drops the last reference; the inode is then
\* allocated again.
itrunc(i) ==
    /\ inode[i].lock = 0 /\ \A f \in File : file[f].ip # i
    /\ used' = used \ Blocks(i)
    /\ inode' = [inode EXCEPT ![i] = Empty]
    /\ ret' = <<>>
    /\ UNCHANGED <<data, file, th>>

\* The byte at offset k, as readi finds it.
At(i, k) == data[Address(data, inode[i].addrs, k \div BSIZE)][k % BSIZE]

-----------------------------------------------------------------------------
(* file.c *)

Open(f, i) ==
    /\ file[f].ip = 0
    /\ file' = [file EXCEPT ![f] = [ip |-> i, off |-> 0]]
    /\ ret' = <<>>
    /\ UNCHANGED <<used, data, inode, th>>

fileclose(f) ==
    /\ file[f].ip # 0 /\ \A p \in Proc : th[p].f # f
    /\ file' = [file EXCEPT ![f] = [ip |-> 0, off |-> 0]]
    /\ ret' = <<>>
    /\ UNCHANGED <<used, data, inode, th>>

\* fileread and readi: all of it while the inode is locked.
fileread(p, f, n) ==
    LET i == file[f].ip  off == file[f].off
        n1 == IF off + n > inode[i].size THEN inode[i].size - off ELSE n IN
    /\ th[p].pc = "out" /\ i # 0 /\ inode[i].lock = 0
    /\ off <= inode[i].size
    /\ ret' = [k \in 1 .. n1 |-> At(i, off + k - 1)]
    /\ file' = [file EXCEPT ![f].off = @ + n1]
    /\ UNCHANGED <<used, data, inode, th>>

filewrite(p, f, v, n) ==
    /\ th[p].pc = "out" /\ file[f].ip # 0
    /\ th' = [th EXCEPT ![p] = [Idle EXCEPT !.pc = "filewrite", !.f = f, !.v = v, !.n = n]]
    /\ ret' = <<>>
    /\ UNCHANGED <<used, data, inode, file>>

\* A round of the loop of filewrite: begin_op, ilock and the tests of writei;
\* a chunk that does not fit ends the call, whatever was written before it.
Chunk(p) ==
    LET f == th[p].f  i == file[f].ip  off == file[f].off
        n1 == Min(th[p].n - th[p].i, MaxWrite) IN
    /\ th[p].pc = "filewrite" /\ inode[i].lock = 0
    /\ IF th[p].i = th[p].n \/ off > inode[i].size \/ off + n1 > MAXFILE * BSIZE
       THEN th' = [th EXCEPT ![p] = Idle] /\ UNCHANGED inode
       ELSE /\ th' = [th EXCEPT ![p].pc = "writei", ![p].n1 = n1]
            /\ inode' = [inode EXCEPT ![i].lock = p]
    /\ ret' = <<>>
    /\ UNCHANGED <<used, data, file>>

\* A round of the loop of writei.
writei(p) ==
    LET f == th[p].f  i == file[f].ip  off == file[f].off + th[p].tot
        m == Min(th[p].n1 - th[p].tot, BSIZE - (off % BSIZE))
        s == bmap([used |-> used, data |-> data, a |-> inode[i].addrs, b |-> 0,
                   logged |-> th[p].logged], off \div BSIZE) IN
    /\ th[p].pc = "writei" /\ th[p].tot < th[p].n1
    /\ IF Cardinality(Block \ used) < Missing(inode[i].addrs, off \div BSIZE)
       THEN th' = [th EXCEPT ![p].pc = "panic"] /\ UNCHANGED <<used, data, inode>>
       ELSE /\ used' = s.used
            /\ data' = [s.data EXCEPT ![s.b] =
                    [k \in DOMAIN @ |-> IF k \in off % BSIZE .. (off % BSIZE) + m - 1
                                        THEN th[p].v ELSE @[k]]]
            /\ inode' = [inode EXCEPT ![i].addrs = s.a]
            /\ th' = [th EXCEPT ![p].tot = @ + m, ![p].logged = s.logged \cup {s.b}]
    /\ ret' = <<>>
    /\ UNCHANGED file

\* The end of writei and of the round of filewrite.
Written(p) ==
    LET f == th[p].f  i == file[f].ip  off == file[f].off + th[p].tot IN
    /\ th[p].pc = "writei" /\ th[p].tot = th[p].n1
    /\ inode' = [inode EXCEPT ![i].size = IF off > @ THEN off ELSE @, ![i].lock = 0]
    /\ file' = [file EXCEPT ![f].off = off]
    /\ th' = [th EXCEPT ![p] = [@ EXCEPT !.pc = "filewrite", !.i = @ + th[p].n1,
                                         !.tot = 0, !.n1 = 0, !.logged = {}]]
    /\ ret' = <<>>
    /\ UNCHANGED <<used, data>>

Init ==
    /\ used = {}
    /\ data = [x \in Block |-> ZeroBlock]
    /\ inode = [i \in Inode |-> Empty]
    /\ file = [f \in File |-> [ip |-> 0, off |-> 0]]
    /\ th = [p \in Proc |-> Idle]
    /\ ret = <<>>

Next ==
    \/ \E f \in File : fileclose(f) \/ \E i \in Opens[f] : Open(f, i)
    \/ \E i \in Inode : itrunc(i)
    \/ \E p \in Proc : Chunk(p) \/ writei(p) \/ Written(p)
    \/ \E p \in Proc : \E f \in Shares[p] :
          \/ \E n \in Reads : fileread(p, f, n)
          \/ \E n \in Writes[f], v \in Data[f] : filewrite(p, f, v, n)

Spec == Init /\ [][Next]_vars

-----------------------------------------------------------------------------
\* The process in writei on file f, if any, has written up to here.
Position(f) ==
    LET S == {p \in Proc : th[p].f = f /\ inode[file[f].ip].lock = p} IN
    file[f].off + (IF S = {} THEN 0 ELSE th[CHOOSE p \in S : TRUE].tot)

Size(i) ==
    LET S == {Position(f) : f \in {g \in File : file[g].ip = i}} \cup {inode[i].size} IN
    CHOOSE x \in S : \A y \in S : y <= x

Bytes == INSTANCE ByteFile WITH
    content <- [i \in Inode |-> [k \in 1 .. Size(i) |-> At(i, k - 1)]],
    open <- [f \in File |-> [ip |-> file[f].ip, off |-> Position(f)]],
    MAXSIZE <- MAXFILE * BSIZE, Piece <- 1 .. BSIZE

\* readi, writei, bmap and the allocator implement sequences of bytes: a write
\* to one file never shows in another one, across the indirect block, blocks
\* freed and used again, and open files that share an inode or a position.
BytesSpec == Bytes!Spec

\* The pointers of all inodes and indirect blocks: no block is referred to
\* twice, and the bitmap has exactly the blocks that are.
Slots(i) ==
    LET x == Indirect(inode[i].addrs) IN
    {<<i, k>> : k \in {l \in 0 .. NDIRECT : inode[i].addrs[l] # 0}}
    \cup (IF x = 0 THEN {} ELSE {<<i, NDIRECT + 1 + k>> :
                                  k \in {l \in 0 .. NINDIRECT - 1 : data[x][l] # 0}})

BitmapExact ==
    /\ used = UNION {Blocks(i) : i \in Inode}
    /\ Cardinality(UNION {Slots(i) : i \in Inode}) = Cardinality(used)

\* A transaction of filewrite, with the inode at its end, never logs more
\* than the MAXOPBLOCKS blocks that begin_op reserved for it, also when its chunk
\* begins in the middle of a block, needs the indirect block, and every block
\* that it allocates has its bit in another block of the bitmap.
WithinReservation == \A p \in Proc : Cardinality(th[p].logged \cup {IBLOCK}) <= MAXOPBLOCKS
=============================================================================
