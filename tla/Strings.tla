------------------------------ MODULE Strings -------------------------------
(***************************************************************************)
(* string.c, and the path and name handling of fs.c that rests on it.  A   *)
(* buffer is a function on 0 .. n-1; characters are numbers, 0 is the NUL. *)
(***************************************************************************)
EXTENDS Integers, Sequences

LOCAL INSTANCE SequencesExt

CONSTANT DIRSIZ  \* length of a name in a directory entry

-----------------------------------------------------------------------------
\* The loop of memmove, from the first byte up or from the last one down.
Copied(mem, d, s, n, up) ==
    LET at(k) == IF up THEN k ELSE n - 1 - k
        m[k \in 0 .. n] ==
            IF k = 0 THEN mem ELSE [m[k - 1] EXCEPT ![d + at(k - 1)] = m[k - 1][s + at(k - 1)]] IN
    m[n]

memmove(mem, d, s, n) == Copied(mem, d, s, n, ~(s < d /\ s + n > d))

\* memmove copies between regions that overlap in either direction, and writes
\* nothing else.
MovesExactly(size, d, s, n) ==
    LET mem == [k \in 0 .. size - 1 |-> k] IN
    memmove(mem, d, s, n) = [k \in 0 .. size - 1 |-> IF k \in d .. d + n - 1 THEN s + k - d ELSE k]

-----------------------------------------------------------------------------
(* Names.  A string is a buffer too; its end is its first NUL, if any.       *)

\* Whether the first n characters are equal, up to a common NUL.
strncmp(p, q, n) ==
    LET eq[k \in 0 .. n] == k = n \/ (p[k] = q[k] /\ (p[k] = 0 \/ eq[k + 1])) IN eq[0]
namecmp(s, t) == strncmp(s, t, DIRSIZ)

\* What strncpy leaves in a buffer of n characters.
strncpy(t, n) ==
    [k \in 0 .. n - 1 |-> IF \E j \in 0 .. k : t[j] = 0 THEN 0 ELSE t[k]]

(* Paths are sequences; Slash separates elements.                            *)

Slash == 9
Skip(path) ==
    LET k == SelectInSeq(path, LAMBDA c : c # Slash) IN
    IF k = 0 THEN <<>> ELSE SubSeq(path, k, Len(path))
None == [ok |-> FALSE, rest |-> <<>>, name |-> <<>>]

skipelem(path, name) ==
    LET p == Skip(path)  q == SelectInSeq(p, LAMBDA c : c = Slash)
        len == IF q = 0 THEN Len(p) ELSE q - 1 IN
    IF p = <<>> THEN None
    ELSE [ok |-> TRUE, rest |-> Skip(SubSeq(p, len + 1, Len(p))),
          name |-> [k \in 0 .. DIRSIZ - 1 |->
                       IF k < len THEN p[k + 1] ELSE IF k = len THEN 0 ELSE name[k]]]

\* namex's loop: the names it looks up, in its one buffer.
RECURSIVE namex(_, _)
namex(path, name) ==
    LET e == skipelem(path, name) IN
    IF ~e.ok THEN <<>> ELSE <<e.name>> \o namex(e.rest, e.name)

\* The elements of a path: the runs of other characters between slashes.
Bounds(p) == {b \in (1 .. Len(p)) \X (1 .. Len(p)) :
                 /\ b[1] <= b[2] /\ \A k \in b[1] .. b[2] : p[k] # Slash
                 /\ b[1] = 1 \/ p[b[1] - 1] = Slash
                 /\ b[2] = Len(p) \/ p[b[2] + 1] = Slash}
Elements(p) == LET bs == SetToSortSeq(Bounds(p), LAMBDA a, b : a[1] < b[1])
               IN [k \in DOMAIN bs |-> SubSeq(p, bs[k][1], bs[k][2])]
Cut(e) == SubSeq(e, 1, IF Len(e) < DIRSIZ THEN Len(e) ELSE DIRSIZ)

\* Two elements, found in paths of any shape and after other elements in the
\* same buffer, name one directory entry exactly if they are equal in their
\* first DIRSIZ characters: the entry dirlink writes for one is the entry
\* dirlookup finds for the other.
NamesExactly(path, other) ==
    LET junk == [k \in 0 .. DIRSIZ - 1 |-> 1]
        a == namex(path, junk)  b == namex(other, junk)
        ea == Elements(path)  eb == Elements(other) IN
    /\ Len(a) = Len(ea) /\ Len(b) = Len(eb)
    /\ \A i \in DOMAIN a, j \in DOMAIN b :
           namecmp(b[j], strncpy(a[i], DIRSIZ)) = (Cut(ea[i]) = Cut(eb[j]))
=============================================================================
