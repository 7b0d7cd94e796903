------------------------------ MODULE ByteFile ------------------------------
(***************************************************************************)
(* What read and write promise: a file is a sequence of bytes, an open     *)
(* file a position in it, and nothing but a write to a file changes it.    *)
(***************************************************************************)
EXTENDS Integers, Sequences

CONSTANTS
    Inode, File, Byte,
    MAXSIZE,  \* of a file
    Reads,    \* sizes of reads
    Piece     \* numbers of bytes that are written at a time

VARIABLES
    content,  \* [Inode -> Seq(Byte)]
    open,     \* [File -> [ip, off]]; ip = 0 when it is closed
    ret       \* the bytes that the last step returned, if it was a read

Init ==
    /\ content = [i \in Inode |-> <<>>]
    /\ open = [f \in File |-> [ip |-> 0, off |-> 0]]
    /\ ret = <<>>

\* The bytes of s replace those of c after position k.
Overwritten(c, k, s) ==
    [j \in 1 .. (IF k + Len(s) > Len(c) THEN k + Len(s) ELSE Len(c)) |->
        IF j \in k + 1 .. k + Len(s) THEN s[j - k] ELSE c[j]]

Open(f, i) ==
    /\ open[f].ip = 0
    /\ open' = [open EXCEPT ![f] = [ip |-> i, off |-> 0]]
    /\ ret' = <<>>
    /\ UNCHANGED content

Close(f) ==
    /\ open[f].ip # 0
    /\ open' = [open EXCEPT ![f] = [ip |-> 0, off |-> 0]]
    /\ ret' = <<>>
    /\ UNCHANGED content

\* Some more bytes of a write, at the position, which moves along.
Write(f, v, m) ==
    LET i == open[f].ip IN
    /\ i # 0 /\ open[f].off + m <= MAXSIZE
    /\ open' = [open EXCEPT ![f].off = @ + m]
    /\ content' = [content EXCEPT ![i] = Overwritten(@, open[f].off, [j \in 1 .. m |-> v])]
    /\ ret' = <<>>

\* A read of n bytes returns those that there are.
Read(f, n) ==
    LET c == content[open[f].ip]  off == open[f].off
        end == IF off + n > Len(c) THEN Len(c) ELSE off + n IN
    /\ open[f].ip # 0
    /\ ret' = SubSeq(c, off + 1, end)
    /\ open' = [open EXCEPT ![f].off = end]
    /\ UNCHANGED content

\* The last name of a file that is not open goes.
Remove(i) ==
    /\ \A f \in File : open[f].ip # i
    /\ content' = [content EXCEPT ![i] = <<>>]
    /\ ret' = <<>>
    /\ UNCHANGED open

Next ==
    \/ \E f \in File : Close(f) \/ \E i \in Inode : Open(f, i)
    \/ \E f \in File, v \in Byte, m \in Piece : Write(f, v, m)
    \/ \E f \in File, n \in Reads : Read(f, n)
    \/ \E i \in Inode : Remove(i)
    \/ ret' = <<>> /\ UNCHANGED <<content, open>>

Spec == Init /\ [][Next]_<<content, open, ret>>
=============================================================================
