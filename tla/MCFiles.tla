------------------------------ MODULE MCFiles ------------------------------
(***************************************************************************)
(* The modules about files, side by side: names and inodes (Fs), contents  *)
(* (FileData), descriptors (FileTable), the image that mkfs builds (Mkfs), *)
(* and functions around them: strings and paths (Strings), arguments of    *)
(* system calls (Args), the boot loader (Boot), printing and grep (Text).  *)
(* They share no state.  A behaviour is one of the component that focus    *)
(* names, while the others stay in their initial states, so the numbers of *)
(* states add up; a function has one state for each of its inputs.         *)
(***************************************************************************)
EXTENDS FileTable, FsCalls, Integers, Sequences, TLC

CONSTANTS User, Call   \* the processes of Fs, and what they call

VARIABLES
    focus,                                                   \* the component
    di, ic, fsth, cwd, file, calls,                          \* Fs
    used, data, inode, ofiles, ioth, ret,                    \* FileData
    img, din, freeinode, freeblock, bitmap, args, app, left, written,  \* Mkfs
    input                                                    \* of a function

FS == INSTANCE MCFs WITH
    Proc <- User, Name <- {"d", "x"}, NINODES <- 5, MAXCALLS <- 3, th <- fsth

\* In FileTable process 1 forks process 2, which closes, duplicates and exits.
TableCalls == <<{"open", "pipe", "fork"}, {"exit"}>>

\* Files 1 and 2 are open for inodes 1 and 2; both processes use file 1.
FD == INSTANCE FileData WITH
    Proc <- {1, 2}, File <- {1, 2}, Inode <- {1, 2}, Byte <- {1, 2},
    BSIZE <- 2, NDIRECT <- 2, NBLOCKS <- 5, MAXOPBLOCKS <- 6, BPB <- 1,
    Reads <- {7}, Writes <- [f \in {1, 2} |-> IF f = 1 THEN {3, 7} ELSE {7}],
    Data <- [f \in {1, 2} |-> {f}], Opens <- [f \in {1, 2} |-> {f}],
    Shares <- [p \in {1, 2} |-> 1 .. p], file <- ofiles, th <- ioth

MK == INSTANCE Mkfs WITH
    BSIZE <- 4, NDIRECT <- 2, FSSIZE <- 28, LOGSIZE <- 2, NINODES <- 4, IPB <- 2, BPB <- 32,
    Sizes <- {0, 4, 7, 9, 14, 24}, MAXFILES <- 2

ST == INSTANCE Strings WITH DIRSIZ <- 2

AR == INSTANCE Args WITH WRAP <- 12, INT <- 2, MAXARG <- 2

BO == INSTANCE Boot WITH SECTSIZE <- 4, MEMORY <- 28

TX == INSTANCE Text WITH WIDTH <- 6, BUFLEN <- 5, GREPBUF <- 5

Texts(S, n) == UNION {[1 .. k -> S] : k \in 0 .. n}

\* Two segments of a kernel, at the same distance in the file and in memory.
Kernels ==
    {<<[paddr |-> a, off |-> o, filesz |-> f, memsz |-> f],
       [paddr |-> a + d, off |-> o + d, filesz |-> g, memsz |-> g + z]>> :
         a \in 4 .. 6, o \in 0 .. 4, f \in 0 .. 5, d \in 5 .. 8, g \in 0 .. 5, z \in 0 .. 2}

\* The inputs of the functions, by name: two paths, a move, the memory of a
\* process, segments, an int, a format, a regular expression, lines.
Inputs ==
    [paths |-> Texts({1, 2, ST!Slash}, 4) \X Texts({1, ST!Slash}, 4),
     moves |-> (0 .. 3) \X (0 .. 3) \X (0 .. 3),
     args |-> [0 .. 5 -> {0, 4, 7}],
     boot |-> Kernels,
     printint |-> {<<x>> : x \in -32 .. 31},
     printf |-> Texts({"%", "c", "d", "q"}, 4),
     match |-> Texts({"a", ".", "*", "^", "$"}, 4),
     grep |-> Texts({"a", "b", "n"}, 7)]

fsvars == <<di, ic, fsth, cwd, file, calls>>
fdvars == <<used, data, inode, ofiles, ioth, ret>>
mkvars == <<img, din, freeinode, freeblock, bitmap, args, app, left, written>>
allvars == <<vars, focus, fsvars, fdvars, mkvars, input>>

AllInit ==
    /\ Init /\ FS!InitWith(FS!Disk) /\ FD!Init
    /\ \/ focus \in {"Fs", "FileTable", "FileData"} /\ MK!InitWith(<<>>) /\ input = <<>>
       \/ focus = "Mkfs" /\ MK!Init /\ input = <<>>
       \/ focus \in DOMAIN Inputs /\ MK!InitWith(<<>>) /\ input \in Inputs[focus]

AllNext ==
    \/ focus = "Fs" /\ FS!Next /\ UNCHANGED <<vars, focus, fdvars, mkvars, input>>
    \/ focus = "FileTable" /\ Next /\ UNCHANGED <<focus, fsvars, fdvars, mkvars, input>>
    \/ focus = "FileData" /\ FD!Next /\ UNCHANGED <<vars, focus, fsvars, mkvars, input>>
    \/ focus = "Mkfs" /\ MK!Next /\ UNCHANGED <<vars, focus, fsvars, fdvars, input>>

AllSpec == AllInit /\ [][AllNext]_allvars

Symmetry == Permutations(User)

-----------------------------------------------------------------------------
\* The inode cache: every path through the calls, the failing ones included,
\* gives back the references it took (iget, iput); the cache is write-through
\* (iupdate), also for an inode that one process frees and another allocates
\* again; open files and current directories stay allocated after their last
\* name is removed.
InodesKept == focus = "Fs" => FS!TypeOK /\ FS!RefCounts /\ FS!CacheCoherent /\ FS!HeldAllocated

\* No name is left behind by create, link and unlink in whatever order: what an
\* entry names is allocated and counts that name, and no process runs into a
\* panic of ilock or sys_unlink.
NamesKept == focus = "Fs" => FS!NamesCounted /\ FS!NoPanic

\* The bitmap (balloc, bfree) has exactly the blocks that inodes and indirect
\* blocks point to, none of them twice, and no chunk of filewrite logs more
\* blocks than begin_op reserves.
BlocksKept == focus = "FileData" => FD!TypeOK /\ FD!BitmapExact /\ FD!WithinReservation

\* readi, writei, bmap, balloc and itrunc implement files that are sequences
\* of bytes, also for processes that write in turns and share an offset.
BytesSpec == FD!Bytes!Init /\ [][focus = "FileData" => FD!Bytes!Next]_fdvars

\* What is built is what is read: the kernel's bmap finds in the image what mkfs
\* was given for each file, the image's bitmap has the blocks in use and no
\* other, and bootmain loads every segment though it reads whole sectors.
ImagesExact ==
    /\ focus = "Mkfs" => MK!TypeOK /\ MK!KernelReadsImage /\ MK!ImageConsistent
    /\ focus = "boot" => BO!LoadsExactly(input)

\* What system calls take from the memory of a process: argint, argptr, argstr
\* and the arguments of sys_exec lie in it; the elements that skipelem, strncpy
\* and namecmp make of a path of any shape name one entry exactly if they agree
\* in their first DIRSIZ characters; memmove copies between overlapping regions.
ArgumentsExact ==
    /\ focus = "args" => \A sz \in 0 .. 6, at \in 0 .. 11 :
            /\ \A size \in {-1, 0, 1, 3, 5} : AR!ArgsInside(input, sz, at, size)
            /\ AR!ExecInside(input, sz, at)
    /\ focus = "paths" => ST!NamesExactly(input[1], input[2])
    /\ focus = "moves" => ST!MovesExactly(6, input[1], input[2], input[3])

\* printint prints every int so that it reads back, within its buffer; cprintf
\* and printf treat formats alike; match finds a match exactly where there is
\* one, and grep writes the lines that match, wherever its reads end.
TextExact ==
    /\ focus = "printint" => \A base \in {3, 10} : TX!PrintsExactly(input[1], base)
    /\ focus = "printf" => TX!PrintersAgree(input)
    /\ focus = "match" => \A text \in Texts({"a", "b"}, 3) : TX!MatchesExactly(input, text)
    /\ focus = "grep" => TX!GrepsExactly(<<"a">>, input)
=============================================================================
