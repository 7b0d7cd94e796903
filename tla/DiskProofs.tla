----------------------------- MODULE DiskProofs -----------------------------
(***************************************************************************)
(* The buffer cache and the disk driver (Disk): DiskSound for any numbers  *)
(* of processes, blocks and buffers, and that they implement BlockStore as *)
(* long as no disk command fails.                                          *)
(***************************************************************************)
EXTENDS Disk, FiniteSetTheorems, TLAPS

\* A leaf that names no prover is tried with SMT, then with Zenon.
USE SMTT(30), ZenonT(30)

-----------------------------------------------------------------------------
(* The types, piece by piece *)

LEMMA Types ==
  ASSUME IInv
  PROVE  /\ buf \in [Buf -> Buffer]
         /\ pc \in [Proc -> Place]
         /\ want \in [Proc -> Block \cup {None}]
         /\ b \in [Proc -> Buf \cup {None}]
         /\ idequeue \in Seq(Buf)
         /\ disk \in [Block -> Val]
         /\ list \in [Buf -> Buf]
BY DEF IInv, TypeOK

\* A process past bget has a buffer.
LEMMA HasBuffer ==
  ASSUME IInv, NEW p \in Proc, pc[p] \notin {"out", "no buffers"}
  PROVE  b[p] \in Buf /\ want[p] \in Block /\ buf[b[p]].blockno = want[p]
<1>1. b[p] # None
  BY ZenonT(30) DEF IInv, BufInv
<1> QED
  BY <1>1, Types, ZenonT(30) DEF IInv, BufInv

\* bwrite and brelse find the buffer locked by their caller.
LEMMA HasLock ==
  ASSUME IInv, NEW p \in Proc, pc[p] = "has"
  PROVE  buf[b[p]].lock = p
BY ZenonT(30) DEF IInv, LockInv, Owning

\* The references to a buffer, when one process gets it or lets it go.
LEMMA UsersFinite ==
  ASSUME NEW x
  PROVE  IsFiniteSet(Users(x)) /\ Cardinality(Users(x)) \in Nat
<1>1. Users(x) \subseteq Proc
  BY DEF Users
<1> QED
  BY <1>1, SizeAssumption, FS_Subset, FS_CardinalityType, ZenonT(30)

LEMMA UserJoins ==
  ASSUME NEW p \in Proc, NEW x \in Buf, b \in [Proc -> Buf \cup {None}],
         b[p] = None, b' = [b EXCEPT ![p] = x]
  PROVE  /\ Cardinality(Users(x)') = Cardinality(Users(x)) + 1
         /\ \A y \in Buf \ {x} : Users(y)' = Users(y)
<1>1. Users(x)' = Users(x) \cup {p} /\ p \notin Users(x)
  BY NoneAssumption DEF Users
<1>2. \A y \in Buf \ {x} : Users(y)' = Users(y)
  BY NoneAssumption DEF Users
<1> QED
  <2>1. Cardinality(Users(x) \cup {p}) = Cardinality(Users(x)) + 1
    BY <1>1, UsersFinite, FS_AddElement, ZenonT(30)
  <2> QED
    BY <1>1, <1>2, <2>1, ZenonT(30)

LEMMA UserLeaves ==
  ASSUME NEW p \in Proc, NEW x \in Buf, b \in [Proc -> Buf \cup {None}],
         b[p] = x, b' = [b EXCEPT ![p] = None]
  PROVE  /\ Cardinality(Users(x)') = Cardinality(Users(x)) - 1
         /\ Cardinality(Users(x)') \in Nat
         /\ \A y \in Buf \ {x} : Users(y)' = Users(y)
<1>1. Users(x)' = Users(x) \ {p} /\ p \in Users(x)
  BY NoneAssumption, ZenonT(30) DEF Users
<1>2. \A y \in Buf \ {x} : Users(y)' = Users(y)
  BY NoneAssumption DEF Users
<1>3. Cardinality(Users(x)') \in Nat
  BY <1>1, UsersFinite, FS_Subset, FS_CardinalityType, ZenonT(30)
<1> QED
  <2>1. Cardinality(Users(x) \ {p}) = Cardinality(Users(x)) - 1
    BY <1>1, UsersFinite, FS_RemoveElement, ZenonT(30)
  <2> QED
    BY <1>1, <1>2, <1>3, <2>1, ZenonT(30)

\* A buffer without references is nobody's.
LEMMA Unreferenced ==
  ASSUME IInv, NEW x \in Buf, buf[x].refcnt = 0, NEW p \in Proc
  PROVE  b[p] # x
<1>1. IsFiniteSet(Users(x)) /\ Cardinality(Users(x)) = 0
  BY UsersFinite, ZenonT(30) DEF IInv, NoPanic
<1>2. Users(x) = {}
  BY <1>1, FS_EmptySet, ZenonT(30)
<1> QED
  BY <1>2, ZenonT(30) DEF Users

\* The owners of buffers, and the processes with flags to look at.
LEMMA OwnersHaveBuffers ==
  ASSUME IInv
  PROVE  /\ \A q \in Proc : pc[q] \in Owning => b[q] \in Buf /\ buf[b[q]].lock = q
         /\ \A q \in Proc : b[q] # None => b[q] \in Buf
         /\ {"iderw", "asleep", "woken", "has"} \subseteq Owning
<1>1. \A q \in Proc : pc[q] \in Owning => pc[q] \notin {"out", "no buffers"}
  BY ZenonT(30) DEF Owning
<1>2. \A q \in Proc : b[q] # None => b[q] \in Buf
  BY Types
<1> QED
  BY <1>1, <1>2, HasBuffer, ZenonT(30) DEF IInv, LockInv, Owning

\* A process goes to another place.
LEMMA Moves ==
  ASSUME IInv, NEW p \in Proc, NEW l \in Place, pc' = [pc EXCEPT ![p] = l]
  PROVE  pc' \in [Proc -> Place] /\ \A q \in Proc : pc'[q] = IF q = p THEN l ELSE pc[q]
BY Types, ZenonT(30)

\* A buffer is overwritten.
LEMMA SetBuffer ==
  ASSUME IInv, NEW x \in Buf, NEW r \in Buffer, buf' = [buf EXCEPT ![x] = r]
  PROVE  buf' \in [Buf -> Buffer] /\ \A y \in Buf : buf'[y] = IF y = x THEN r ELSE buf[y]
BY Types, ZenonT(30)

\* The fields of a buffer, when one or some of them are assigned.
LEMMA Fields ==
  ASSUME NEW r \in Buffer
  PROVE  /\ r.blockno \in Block \cup {None} /\ r.lock \in Proc \cup {None}
         /\ r.refcnt \in Nat /\ r.data \in Val
         /\ r.valid \in BOOLEAN /\ r.dirty \in BOOLEAN
BY DEF Buffer

LEMMA SetLock ==
  ASSUME NEW r \in Buffer, NEW q \in Proc \cup {None}
  PROVE  \E s \in Buffer :
            /\ s = [r EXCEPT !.lock = q] /\ s.lock = q
            /\ s.blockno = r.blockno /\ s.valid = r.valid /\ s.dirty = r.dirty
            /\ s.refcnt = r.refcnt /\ s.data = r.data
<1> DEFINE s == [r EXCEPT !.lock = q]
<1>1. s = [r EXCEPT !.lock = q]
  OBVIOUS
<1>2. s \in Buffer
  BY DEF Buffer
<1>3. /\ s.lock = q
      /\ s.blockno = r.blockno /\ s.valid = r.valid /\ s.dirty = r.dirty
      /\ s.refcnt = r.refcnt /\ s.data = r.data
  BY DEF Buffer
<1> HIDE DEF s
<1> QED
  BY <1>1, <1>2, <1>3, ZenonT(30)

LEMMA SetRefcnt ==
  ASSUME NEW r \in Buffer, NEW n \in Nat
  PROVE  \E s \in Buffer :
            /\ s = [r EXCEPT !.refcnt = n] /\ s.refcnt = n
            /\ s.blockno = r.blockno /\ s.valid = r.valid /\ s.dirty = r.dirty
            /\ s.lock = r.lock /\ s.data = r.data
<1> DEFINE s == [r EXCEPT !.refcnt = n]
<1>1. s = [r EXCEPT !.refcnt = n]
  OBVIOUS
<1>2. s \in Buffer
  BY DEF Buffer
<1>3. /\ s.refcnt = n
      /\ s.blockno = r.blockno /\ s.valid = r.valid /\ s.dirty = r.dirty
      /\ s.lock = r.lock /\ s.data = r.data
  BY DEF Buffer
<1> HIDE DEF s
<1> QED
  BY <1>1, <1>2, <1>3, ZenonT(30)

LEMMA SetData ==
  ASSUME NEW r \in Buffer, NEW v \in Val
  PROVE  \E s \in Buffer :
            /\ s = [[r EXCEPT !.data = v] EXCEPT !.dirty = TRUE] /\ s.data = v /\ s.dirty
            /\ s.blockno = r.blockno /\ s.valid = r.valid
            /\ s.lock = r.lock /\ s.refcnt = r.refcnt
<1> DEFINE s == [[r EXCEPT !.data = v] EXCEPT !.dirty = TRUE]
<1>1. s = [[r EXCEPT !.data = v] EXCEPT !.dirty = TRUE]
  OBVIOUS
<1>2. s \in Buffer
  BY ZenonT(30) DEF Buffer
<1>3. /\ s.data = v /\ s.dirty
      /\ s.blockno = r.blockno /\ s.valid = r.valid
      /\ s.lock = r.lock /\ s.refcnt = r.refcnt
  BY ZenonT(30) DEF Buffer
<1> HIDE DEF s
<1> QED
  BY <1>1, <1>2, <1>3, ZenonT(30)

LEMMA SetRead ==
  ASSUME NEW r \in Buffer, NEW v \in Val
  PROVE  \E s \in Buffer :
            /\ s = [[[r EXCEPT !.valid = TRUE] EXCEPT !.dirty = FALSE] EXCEPT !.data = v]
            /\ s.data = v /\ s.valid /\ ~s.dirty
            /\ s.blockno = r.blockno /\ s.lock = r.lock /\ s.refcnt = r.refcnt
<1> DEFINE s == [[[r EXCEPT !.valid = TRUE] EXCEPT !.dirty = FALSE] EXCEPT !.data = v]
<1>1. s = [[[r EXCEPT !.valid = TRUE] EXCEPT !.dirty = FALSE] EXCEPT !.data = v]
  OBVIOUS
<1>2. s \in Buffer
  BY ZenonT(30) DEF Buffer
<1>3. /\ s.data = v /\ s.valid /\ ~s.dirty
      /\ s.blockno = r.blockno /\ s.lock = r.lock /\ s.refcnt = r.refcnt
  BY ZenonT(30) DEF Buffer
<1> HIDE DEF s
<1> QED
  BY <1>1, <1>2, <1>3, ZenonT(30)

Reset(r, k) == [r EXCEPT !.blockno = k, !.valid = FALSE, !.dirty = FALSE, !.refcnt = 1]

LEMMA SetBlock ==
  ASSUME NEW r \in Buffer, NEW k \in Block
  PROVE  /\ Reset(r, k) \in Buffer
         /\ Reset(r, k).blockno = k /\ ~Reset(r, k).valid /\ ~Reset(r, k).dirty
         /\ Reset(r, k).refcnt = 1 /\ Reset(r, k).data = r.data /\ Reset(r, k).lock = r.lock
BY ZenonT(30) DEF Buffer, Reset

\* A buffer that its owner does not wait for is not in the queue, and nobody
\* else owns it.
LEMMA Owner ==
  ASSUME IInv, NEW p \in Proc, pc[p] \in Owning
  PROVE  /\ buf[b[p]].lock = p
         /\ \A q \in Proc : pc[q] \in Owning /\ b[q] = b[p] => q = p
         /\ pc[p] # "asleep" => \A i \in DOMAIN idequeue : idequeue[i] # b[p]
<1>1. buf[b[p]].lock = p /\ \A q \in Proc : pc[q] \in Owning => buf[b[q]].lock = q
  BY ZenonT(30) DEF IInv, LockInv
<1>2. \A q \in Proc : pc[q] \in Owning /\ b[q] = b[p] => q = p
  BY <1>1, ZenonT(30)
<1>3. \A i \in DOMAIN idequeue : \E q \in Proc : pc[q] = "asleep" /\ b[q] = idequeue[i]
  BY ZenonT(30) DEF IInv, QueueInv
<1>4. "asleep" \in Owning
  BY ZenonT(30) DEF Owning
<1>5. pc[p] # "asleep" => \A i \in DOMAIN idequeue : idequeue[i] # b[p]
  BY <1>2, <1>3, <1>4, ZenonT(30)
<1> QED
  BY <1>1, <1>2, <1>5

-----------------------------------------------------------------------------
(* What a step that leaves the state of a conjunct alone has to show *)

LEMMA CountFrame ==
  ASSUME IInv, b' = b, \A x \in Buf : buf'[x].refcnt = buf[x].refcnt,
         \A q \in Proc : pc'[q] # "panic"
  PROVE  NoPanic'
BY ZenonT(30) DEF IInv, NoPanic, Users

LEMMA BufFrame ==
  ASSUME IInv, \A x \in Buf : buf'[x].blockno = buf[x].blockno,
         \A q \in Proc :
             \/ /\ b'[q] = b[q] /\ want'[q] = want[q]
                /\ pc'[q] \in {"out", "no buffers"} <=> pc[q] \in {"out", "no buffers"}
             \/ b'[q] = None /\ pc'[q] \in {"out", "no buffers"}
  PROVE  BufInv'
<1>1. \A q \in Proc : b'[q] = None <=> pc'[q] \in {"out", "no buffers"}
  BY ZenonT(30) DEF IInv, BufInv
<1>2. \A q \in Proc : b[q] # None => b[q] \in Buf
  BY OwnersHaveBuffers, ZenonT(30)
<1>3. \A q \in Proc : b'[q] # None => want'[q] \in Block /\ buf'[b'[q]].blockno = want'[q]
  BY <1>2, ZenonT(30) DEF IInv, BufInv
<1>4. \A x, y \in Buf : buf[x].blockno = buf[y].blockno => x = y \/ buf[x].blockno = None
  BY ZenonT(30) DEF IInv, BufInv
<1>5. \A x, y \in Buf : buf'[x].blockno = buf'[y].blockno => x = y \/ buf'[x].blockno = None
  BY <1>4, ZenonT(30)
<1> QED
  BY <1>1, <1>3, <1>5, ZenonT(30) DEF BufInv

\* ... and when bget gives p the buffer x of block k
Joins(p, x, k) ==
  /\ b'[p] = x /\ want'[p] = k /\ pc'[p] = "acquiresleep" /\ buf'[x].blockno = k
  /\ \A q \in Proc : q # p => /\ b'[q] = b[q] /\ want'[q] = want[q] /\ pc'[q] = pc[q]
                              /\ b[q] = x => buf[x].blockno = k
  /\ \A y \in Buf : y # x => buf'[y].blockno = buf[y].blockno /\ buf[y].blockno # k

LEMMA BufJoins ==
  ASSUME IInv, NEW p \in Proc, NEW x \in Buf, NEW k \in Block, Joins(p, x, k)
  PROVE  BufInv'
<1>1. \A q \in Proc : b[q] = None <=> pc[q] \in {"out", "no buffers"}
  BY ZenonT(30) DEF IInv, BufInv
<1>2. \A q \in Proc : b[q] # None => /\ want[q] \in Block /\ buf[b[q]].blockno = want[q]
                                     /\ b[q] \in Buf
  BY OwnersHaveBuffers, ZenonT(30) DEF IInv, BufInv
<1>3. \A y, z \in Buf : buf[y].blockno = buf[z].blockno => y = z \/ buf[y].blockno = None
  BY ZenonT(30) DEF IInv, BufInv
<1>4. \A q \in Proc : b'[q] = None <=> pc'[q] \in {"out", "no buffers"}
  BY <1>1, NoneAssumption, ZenonT(30) DEF Joins
<1>5. \A q \in Proc : b'[q] # None => want'[q] \in Block /\ buf'[b'[q]].blockno = want'[q]
  BY <1>2 DEF Joins
<1>6. \A y, z \in Buf : buf'[y].blockno = buf'[z].blockno => y = z \/ buf'[y].blockno = None
  BY <1>3 DEF Joins
<1> QED
  BY <1>4, <1>5, <1>6, ZenonT(30) DEF BufInv

LEMMA LockFrame ==
  ASSUME IInv, \A x \in Buf : buf'[x].lock = buf[x].lock,
         \A q \in Proc : /\ pc'[q] \in Owning <=> pc[q] \in Owning
                         /\ pc[q] \in Owning => b'[q] = b[q]
  PROVE  LockInv'
<1>1. \A q \in Proc : pc'[q] \in Owning => buf'[b'[q]].lock = q
  BY OwnersHaveBuffers
<1>2. \A q \in Proc, x \in Buf : buf'[x].lock = q => b'[q] = x /\ pc'[q] \in Owning
  BY DEF IInv, LockInv
<1> QED
  BY <1>1, <1>2, ZenonT(30) DEF LockInv

LEMMA FlagFrame ==
  ASSUME IInv,
         \A x \in Buf : /\ buf'[x].valid = buf[x].valid /\ buf'[x].dirty = buf[x].dirty
                        /\ buf'[x].blockno = buf[x].blockno,
         \A q \in Proc : pc'[q] \in Owning => pc'[q] = pc[q] /\ b'[q] = b[q]
  PROVE  FlagInv'
<1>1. \A x \in Buf : Ready(x)' <=> Ready(x)
  BY ZenonT(30) DEF Ready
<1>2. \A q \in Proc : /\ pc'[q] \in {"iderw", "asleep"} => ~Ready(b[q])' /\ b'[q] = b[q]
                      /\ pc'[q] = "woken" => Ready(b[q])' /\ b'[q] = b[q]
                      /\ pc'[q] = "has" => buf'[b[q]].valid /\ b'[q] = b[q]
  BY <1>1, OwnersHaveBuffers DEF IInv, FlagInv
<1>3. \A x \in Buf : /\ buf'[x].dirty => buf'[x].valid
                     /\ buf'[x].valid => buf'[x].blockno # None
  BY ZenonT(30) DEF IInv, FlagInv
<1> QED
  BY <1>2, <1>3 DEF FlagInv, Ready

LEMMA QueueFrame ==
  ASSUME IInv, idequeue' = idequeue, memdisk' = memdisk,
         \A q \in Proc : pc'[q] = "asleep" <=> pc[q] = "asleep",
         \A q \in Proc : pc[q] = "asleep" => b'[q] = b[q]
  PROVE  QueueInv'
BY DEF IInv, QueueInv

LEMMA CommandFrame ==
  ASSUME IInv, idequeue' = idequeue, ide' = ide,
         \A x \in Buf : \/ \A i \in DOMAIN idequeue : idequeue[i] # x
                        \/ /\ buf'[x].blockno = buf[x].blockno
                           /\ buf'[x].dirty = buf[x].dirty /\ buf'[x].data = buf[x].data
  PROVE  CommandInv'
<1>1. idequeue # <<>> => /\ 1 \in DOMAIN idequeue /\ Head(idequeue) = idequeue[1]
                         /\ idequeue[1] \in Buf
  BY Types
<1> QED
  BY <1>1, ZenonT(30) DEF IInv, CommandInv

-----------------------------------------------------------------------------
(* What a step does to the buffers' blocks, flags and data *)

Same == \A y \in Buf : /\ buf'[y].blockno = buf[y].blockno /\ buf'[y].valid = buf[y].valid
                       /\ buf'[y].dirty = buf[y].dirty /\ buf'[y].data = buf[y].data

Stored(x, v) ==
  /\ \A y \in Buf \ {x} : buf'[y] = buf[y]
  /\ buf'[x].blockno = buf[x].blockno /\ buf'[x].valid /\ buf'[x].data = v

Recycled(x, k) ==
  /\ \A y \in Buf \ {x} : buf'[y] = buf[y]
  /\ \A y \in Buf : buf[y].blockno # k
  /\ buf[x].refcnt = 0 /\ buf'[x].blockno = k /\ ~buf'[x].valid

-----------------------------------------------------------------------------
(* bio.c *)

\* acquiresleep
LEMMA AcquireStep ==
  ASSUME IInv, NEW p \in Proc, acquiresleep(p)
  PROVE  IInv' /\ Same
<1>a. PICK x \in Buf : b[p] = x
  BY HasBuffer, ZenonT(30) DEF acquiresleep
<1>b. pc[p] = "acquiresleep" /\ buf[x].lock = None
  BY <1>a, ZenonT(30) DEF acquiresleep
<1>c. UNCHANGED <<list, idequeue, ide, disk, want, b, memdisk>>
  BY DEF acquiresleep
<1>d. PICK l \in {"has", "iderw"} :
          pc' = [pc EXCEPT ![p] = l] /\ (l = "has" <=> buf[x].valid)
  BY <1>a, ZenonT(30) DEF acquiresleep
<1>e. pc' \in [Proc -> Place] /\ \A q \in Proc : pc'[q] = IF q = p THEN l ELSE pc[q]
  BY <1>d, Moves, ZenonT(30) DEF Place
<1>f. PICK r \in Buffer :
        /\ buf' = [buf EXCEPT ![x] = r] /\ r.lock = p
        /\ r.blockno = buf[x].blockno /\ r.valid = buf[x].valid /\ r.dirty = buf[x].dirty
        /\ r.refcnt = buf[x].refcnt /\ r.data = buf[x].data
  <2>1. buf[x] \in Buffer
    BY Types
  <2>2. buf' = [buf EXCEPT ![x] = [buf[x] EXCEPT !.lock = p]]
    BY <1>a, ZenonT(30) DEF acquiresleep
  <2>3. PICK r \in Buffer :
          /\ r = [buf[x] EXCEPT !.lock = p] /\ r.lock = p
          /\ r.blockno = buf[x].blockno /\ r.valid = buf[x].valid /\ r.dirty = buf[x].dirty
          /\ r.refcnt = buf[x].refcnt /\ r.data = buf[x].data
    BY <2>1, SetLock, ZenonT(30)
  <2> QED
    BY <2>2, <2>3, ZenonT(30)
<1>g. /\ buf' \in [Buf -> Buffer]
      /\ \A y \in Buf : /\ buf'[y].blockno = buf[y].blockno /\ buf'[y].valid = buf[y].valid
                        /\ buf'[y].dirty = buf[y].dirty /\ buf'[y].refcnt = buf[y].refcnt
                        /\ buf'[y].data = buf[y].data
                        /\ buf'[y].lock = IF y = x THEN p ELSE buf[y].lock
  BY <1>f, SetBuffer, ZenonT(30)
<1>1. TypeOK'
  BY <1>c, <1>e, <1>g DEF IInv, TypeOK
<1>2. NoPanic'
  BY <1>c, <1>d, <1>e, <1>g, CountFrame, ZenonT(30) DEF IInv, NoPanic
<1>3. BufInv'
  BY <1>b, <1>c, <1>d, <1>e, <1>g, BufFrame, ZenonT(30)
<1>4. LockInv'
  <2>1. \A q \in Proc : pc'[q] \in Owning => buf'[b'[q]].lock = q
    BY <1>a, <1>b, <1>c, <1>e, <1>g, OwnersHaveBuffers, NoneAssumption
  <2>2. \A q \in Proc, y \in Buf : buf'[y].lock = q => b'[q] = y /\ pc'[q] \in Owning
    BY <1>a, <1>b, <1>c, <1>d, <1>e, <1>g DEF IInv, LockInv, Owning
  <2> QED
    BY <2>1, <2>2 DEF LockInv
<1>5. FlagInv'
  <2>1. \A y \in Buf : Ready(y)' <=> Ready(y)
    BY <1>g DEF Ready
  <2>2. ~buf[x].valid => ~Ready(x)
    BY DEF Ready
  <2> QED
    BY <1>a, <1>b, <1>c, <1>d, <1>e, <1>g, <2>1, <2>2, OwnersHaveBuffers
       DEF IInv, FlagInv
<1>6. QueueInv'
  BY <1>b, <1>c, <1>d, <1>e, QueueFrame
<1>7. CommandInv'
  BY <1>c, <1>g, CommandFrame, ZenonT(30)
<1>8. Same
  BY <1>g DEF Same
<1> QED
  BY <1>1, <1>2, <1>3, <1>4, <1>5, <1>6, <1>7, <1>8, ZenonT(30) DEF IInv

\* brelse's releasesleep
LEMMA ReleaseStep ==
  ASSUME IInv, NEW p \in Proc, releasesleep(p)
  PROVE  IInv' /\ Same
<1>a. PICK x \in Buf : b[p] = x
  BY HasBuffer, ZenonT(30) DEF releasesleep
<1>b. pc[p] = "has" /\ pc' = [pc EXCEPT ![p] = "brelse"]
  BY HasLock, ZenonT(30) DEF releasesleep
<1>c. UNCHANGED <<list, idequeue, ide, disk, want, b, memdisk>>
  BY DEF releasesleep
<1>d. \A q \in Proc : pc[q] \in Owning /\ b[q] = x => q = p
  BY <1>a, <1>b, Owner, ZenonT(30) DEF Owning
<1>e. pc' \in [Proc -> Place] /\ \A q \in Proc : pc'[q] = IF q = p THEN "brelse" ELSE pc[q]
  BY <1>b, Moves, ZenonT(30) DEF Place
<1>f. PICK r \in Buffer :
        /\ buf' = [buf EXCEPT ![x] = r] /\ r.lock = None
        /\ r.blockno = buf[x].blockno /\ r.valid = buf[x].valid /\ r.dirty = buf[x].dirty
        /\ r.refcnt = buf[x].refcnt /\ r.data = buf[x].data
  <2>1. buf[x] \in Buffer
    BY Types
  <2>2. buf' = [buf EXCEPT ![x] = [buf[x] EXCEPT !.lock = None]]
    BY <1>a, HasLock, ZenonT(30) DEF releasesleep
  <2>3. PICK r \in Buffer :
          /\ r = [buf[x] EXCEPT !.lock = None] /\ r.lock = None
          /\ r.blockno = buf[x].blockno /\ r.valid = buf[x].valid /\ r.dirty = buf[x].dirty
          /\ r.refcnt = buf[x].refcnt /\ r.data = buf[x].data
    BY <2>1, SetLock, ZenonT(30)
  <2> QED
    BY <2>2, <2>3, ZenonT(30)
<1>g. /\ buf' \in [Buf -> Buffer]
      /\ \A y \in Buf : /\ buf'[y].blockno = buf[y].blockno /\ buf'[y].valid = buf[y].valid
                        /\ buf'[y].dirty = buf[y].dirty /\ buf'[y].refcnt = buf[y].refcnt
                        /\ buf'[y].data = buf[y].data
                        /\ buf'[y].lock = IF y = x THEN None ELSE buf[y].lock
  BY <1>f, SetBuffer, ZenonT(30)
<1>1. TypeOK'
  BY <1>c, <1>e, <1>g DEF IInv, TypeOK
<1>2. NoPanic'
  BY <1>c, <1>e, <1>g, CountFrame, ZenonT(30) DEF IInv, NoPanic
<1>3. BufInv'
  BY <1>b, <1>c, <1>e, <1>g, BufFrame, ZenonT(30)
<1>4. LockInv'
  <2>1. \A q \in Proc : pc'[q] \in Owning => buf'[b'[q]].lock = q
    BY <1>a, <1>c, <1>d, <1>e, <1>g, OwnersHaveBuffers DEF Owning
  <2>2. \A q \in Proc, y \in Buf : buf'[y].lock = q => b'[q] = y /\ pc'[q] \in Owning
    BY <1>a, <1>c, <1>e, <1>g, NoneAssumption DEF IInv, LockInv
  <2> QED
    BY <2>1, <2>2 DEF LockInv
<1>5. FlagInv'
  BY <1>c, <1>e, <1>g, FlagFrame, ZenonT(30) DEF Owning
<1>6. QueueInv'
  BY <1>b, <1>c, <1>e, QueueFrame, ZenonT(30)
<1>7. CommandInv'
  BY <1>c, <1>g, CommandFrame, ZenonT(30)
<1>8. Same
  BY <1>g DEF Same
<1> QED
  BY <1>1, <1>2, <1>3, <1>4, <1>5, <1>6, <1>7, <1>8, ZenonT(30) DEF IInv

\* bwrite up to iderw, and log_write
LEMMA WriteStep ==
  ASSUME IInv, NEW p \in Proc, NEW v \in Val, bwrite(p, v) \/ log_write(p, v)
  PROVE  IInv' /\ Stored(b[p], v)
<1>a. PICK x \in Buf : b[p] = x
  BY HasBuffer, ZenonT(30) DEF bwrite, log_write
<1>b. pc[p] = "has" /\ buf[x].valid
  BY <1>a, ZenonT(30) DEF bwrite, log_write, IInv, FlagInv
<1>c. UNCHANGED <<list, idequeue, ide, disk, want, b, memdisk>>
  BY DEF bwrite, log_write, procvars
<1>d. /\ \A q \in Proc : pc[q] \in Owning /\ b[q] = x => q = p
      /\ \A i \in DOMAIN idequeue : idequeue[i] # x
  BY <1>a, <1>b, Owner, ZenonT(30) DEF Owning
<1>e. PICK l \in {"has", "iderw"} :
        /\ pc' \in [Proc -> Place] /\ \A q \in Proc : pc'[q] = IF q = p THEN l ELSE pc[q]
  <2>1. CASE bwrite(p, v)
    BY <1>b, <2>1, HasLock, Moves, ZenonT(30) DEF bwrite, Place
  <2>2. CASE log_write(p, v)
    BY <1>b, <2>2, Types, ZenonT(30) DEF log_write, procvars
  <2> QED
    BY <2>1, <2>2
<1>f. PICK r \in Buffer :
        /\ buf' = [buf EXCEPT ![x] = r] /\ r.data = v /\ r.dirty
        /\ r.blockno = buf[x].blockno /\ r.valid = buf[x].valid
        /\ r.lock = buf[x].lock /\ r.refcnt = buf[x].refcnt
  <2>1. buf[x] \in Buffer
    BY Types
  <2>2. buf' = [buf EXCEPT ![x] = [[buf[x] EXCEPT !.data = v] EXCEPT !.dirty = TRUE]]
    BY <1>a, <1>b, HasLock, Types, ZenonT(30) DEF bwrite, log_write
  <2>3. PICK r \in Buffer :
          /\ r = [[buf[x] EXCEPT !.data = v] EXCEPT !.dirty = TRUE] /\ r.data = v /\ r.dirty
          /\ r.blockno = buf[x].blockno /\ r.valid = buf[x].valid
          /\ r.lock = buf[x].lock /\ r.refcnt = buf[x].refcnt
    BY <2>1, SetData, ZenonT(30)
  <2> QED
    BY <2>2, <2>3, ZenonT(30)
<1>g. /\ buf' \in [Buf -> Buffer]
      /\ \A y \in Buf : /\ buf'[y].blockno = buf[y].blockno /\ buf'[y].valid = buf[y].valid
                        /\ buf'[y].lock = buf[y].lock /\ buf'[y].refcnt = buf[y].refcnt
                        /\ y # x => buf'[y] = buf[y]
                        /\ y = x => buf'[y].dirty
  BY <1>f, SetBuffer, ZenonT(30)
<1>1. TypeOK'
  BY <1>c, <1>e, <1>g DEF IInv, TypeOK
<1>2. NoPanic'
  BY <1>c, <1>e, <1>g, CountFrame, ZenonT(30) DEF IInv, NoPanic
<1>3. BufInv'
  BY <1>b, <1>c, <1>e, <1>g, BufFrame, ZenonT(30)
<1>4. LockInv'
  BY <1>b, <1>c, <1>e, <1>g, LockFrame, ZenonT(30) DEF Owning
<1>5. FlagInv'
  <2>1. \A y \in Buf \ {x} : Ready(y)' <=> Ready(y)
    BY <1>g DEF Ready
  <2>2. ~Ready(x)' /\ buf'[x].valid
    BY <1>b, <1>g DEF Ready
  <2>3. \A q \in Proc : pc[q] \in Owning /\ q # p => b[q] \in Buf \ {x}
    BY <1>d, OwnersHaveBuffers
  <2>4. \A q \in Proc : pc'[q] \in {"iderw", "asleep", "woken", "has"} /\ q # p =>
                           pc'[q] = pc[q] /\ pc[q] \in Owning
    BY <1>e DEF Owning
  <2> QED
    BY <1>a, <1>c, <1>e, <1>g, <2>1, <2>2, <2>3, <2>4 DEF IInv, FlagInv
<1>6. QueueInv'
  BY <1>b, <1>c, <1>e, QueueFrame, ZenonT(30)
<1>7. CommandInv'
  BY <1>c, <1>d, <1>g, CommandFrame, ZenonT(30)
<1>8. Stored(b[p], v)
  <2>1. buf'[x].data = v
    BY <1>f, SetBuffer, ZenonT(30)
  <2> QED
    BY <1>a, <1>b, <1>g, <2>1 DEF Stored
<1> QED
  BY <1>1, <1>2, <1>3, <1>4, <1>5, <1>6, <1>7, <1>8, ZenonT(30) DEF IInv

\* The list stays a list of all the buffers.
LEMMA FrontOfList ==
  ASSUME IInv, NEW x \in Buf
  PROVE  /\ MoveToFront(x) \in [Buf -> Buf]
         /\ \A y \in Buf : \E i \in Buf : MoveToFront(x)[i] = y
<1>1. list \in [Buf -> Buf] /\ \A y \in Buf : \E i \in Buf : list[i] = y
  BY DEF IInv, TypeOK
<1>2. \A i \in Buf : i # 1 => i - 1 \in Buf
  BY SizeAssumption DEF Buf
<1>3. MoveToFront(x) \in [Buf -> Buf]
  BY <1>1, <1>2 DEF MoveToFront
<1>4. ASSUME NEW y \in Buf, y # x
      PROVE  \E i \in Buf : MoveToFront(x)[i] = y
  <2>1. PICK k \in Buf : list[k] = y
    BY <1>1
  <2>2. CASE \E j \in 1 .. k - 1 : list[j] = x
    <3>1. k # 1
      BY <2>2 DEF Buf
    <3> QED
      BY <2>1, <2>2, <3>1 DEF MoveToFront
  <2>3. CASE ~\E j \in 1 .. k - 1 : list[j] = x
    <3>1. \A j \in 1 .. k : list[j] # x
      BY <1>4, <2>1, <2>3, SizeAssumption DEF Buf
    <3>2. PICK m \in Buf : list[m] = x
      BY <1>1
    <3>3. k + 1 \in Buf /\ (k + 1) - 1 = k /\ k + 1 # 1
      BY <3>1, <3>2, SizeAssumption DEF Buf
    <3>4. ~\E j \in 1 .. (k + 1) - 1 : list[j] = x
      BY <3>1, <3>3
    <3>5. MoveToFront(x)[k + 1] = list[(k + 1) - 1]
      BY <3>3, <3>4, ZenonT(30) DEF MoveToFront
    <3> QED
      BY <2>1, <3>3, <3>5
  <2> QED
    BY <2>2, <2>3
<1>5. 1 \in Buf /\ MoveToFront(x)[1] = x
  BY SizeAssumption DEF Buf, MoveToFront
<1> QED
  BY <1>3, <1>4, <1>5

\* the second half of brelse
LEMMA BrelseStep ==
  ASSUME IInv, NEW p \in Proc, brelse(p)
  PROVE  IInv' /\ Same
<1>a. PICK x \in Buf : b[p] = x
  BY HasBuffer, ZenonT(30) DEF brelse
<1>b. pc[p] = "brelse" /\ pc' = [pc EXCEPT ![p] = "out"]
  BY DEF brelse
<1>c. /\ UNCHANGED <<idequeue, ide, disk, memdisk>>
      /\ want' = [want EXCEPT ![p] = None] /\ b' = [b EXCEPT ![p] = None]
      /\ list' = MoveToFront(x) \/ list' = list
  BY <1>a, ZenonT(30) DEF brelse
<1>d. /\ want' \in [Proc -> Block \cup {None}] /\ b' \in [Proc -> Buf \cup {None}]
      /\ \A q \in Proc : /\ want'[q] = IF q = p THEN None ELSE want[q]
                         /\ b'[q] = IF q = p THEN None ELSE b[q]
  <2>1. want \in [Proc -> Block \cup {None}] /\ b \in [Proc -> Buf \cup {None}]
    BY Types
  <2> QED
    BY <1>c, <2>1
<1>e. pc' \in [Proc -> Place] /\ \A q \in Proc : pc'[q] = IF q = p THEN "out" ELSE pc[q]
  BY <1>b, Moves, ZenonT(30) DEF Place
<1>h. /\ buf[x].refcnt - 1 \in Nat /\ Cardinality(Users(x)') = buf[x].refcnt - 1
      /\ \A y \in Buf \ {x} : Users(y)' = Users(y)
  <2>1. buf[x].refcnt = Cardinality(Users(x))
    BY DEF IInv, NoPanic
  <2>2. b \in [Proc -> Buf \cup {None}]
    BY Types
  <2> QED
    BY <1>a, <1>c, <2>1, <2>2, UserLeaves, ZenonT(30)
<1>f. PICK r \in Buffer :
        /\ buf' = [buf EXCEPT ![x] = r] /\ r.refcnt = buf[x].refcnt - 1
        /\ r.blockno = buf[x].blockno /\ r.valid = buf[x].valid /\ r.dirty = buf[x].dirty
        /\ r.lock = buf[x].lock /\ r.data = buf[x].data
  <2>1. buf[x] \in Buffer
    BY Types
  <2>2. buf' = [buf EXCEPT ![x] = [buf[x] EXCEPT !.refcnt = buf[x].refcnt - 1]]
    BY <1>a, ZenonT(30) DEF brelse
  <2>3. PICK r \in Buffer :
          /\ r = [buf[x] EXCEPT !.refcnt = buf[x].refcnt - 1] /\ r.refcnt = buf[x].refcnt - 1
          /\ r.blockno = buf[x].blockno /\ r.valid = buf[x].valid /\ r.dirty = buf[x].dirty
          /\ r.lock = buf[x].lock /\ r.data = buf[x].data
    BY <1>h, <2>1, SetRefcnt, ZenonT(30)
  <2> QED
    BY <2>2, <2>3, ZenonT(30)
<1>g. /\ buf' \in [Buf -> Buffer]
      /\ \A y \in Buf : /\ buf'[y].blockno = buf[y].blockno /\ buf'[y].valid = buf[y].valid
                        /\ buf'[y].dirty = buf[y].dirty /\ buf'[y].lock = buf[y].lock
                        /\ buf'[y].data = buf[y].data
                        /\ buf'[y].refcnt = IF y = x THEN buf[x].refcnt - 1 ELSE buf[y].refcnt
  BY <1>f, SetBuffer, ZenonT(30)
<1>1. TypeOK'
  <2>1. list' \in [Buf -> Buf] /\ \A y \in Buf : \E i \in Buf : list'[i] = y
    <3>1. list \in [Buf -> Buf] /\ \A y \in Buf : \E i \in Buf : list[i] = y
      BY DEF IInv, TypeOK
    <3>2. /\ MoveToFront(x) \in [Buf -> Buf]
          /\ \A y \in Buf : \E i \in Buf : MoveToFront(x)[i] = y
      BY FrontOfList, ZenonT(30)
    <3> QED
      BY <1>c, <3>1, <3>2, ZenonT(30)
  <2> QED
    BY <1>c, <1>d, <1>e, <1>g, <2>1, ZenonT(30) DEF IInv, TypeOK
<1>2. NoPanic'
  BY <1>e, <1>g, <1>h DEF IInv, NoPanic
<1>3. BufInv'
  BY <1>d, <1>e, <1>g, BufFrame, ZenonT(30)
<1>4. LockInv'
  BY <1>b, <1>d, <1>e, <1>g, LockFrame, ZenonT(30) DEF Owning
<1>5. FlagInv'
  BY <1>d, <1>e, <1>g, FlagFrame, ZenonT(30) DEF Owning
<1>6. QueueInv'
  BY <1>b, <1>c, <1>d, <1>e, QueueFrame, ZenonT(30)
<1>7. CommandInv'
  BY <1>c, <1>g, CommandFrame, ZenonT(30)
<1>8. Same
  BY <1>g DEF Same
<1> QED
  BY <1>1, <1>2, <1>3, <1>4, <1>5, <1>6, <1>7, <1>8, ZenonT(30) DEF IInv

\* bget of a block that has a buffer
LEMMA BgetHitStep ==
  ASSUME IInv, NEW p \in Proc, NEW k \in Block, NEW x \in Hits(k),
         pc[p] = "out", want' = [want EXCEPT ![p] = k],
         buf' = [buf EXCEPT ![x].refcnt = @ + 1], b' = [b EXCEPT ![p] = x],
         pc' = [pc EXCEPT ![p] = "acquiresleep"],
         UNCHANGED <<list, idequeue, ide, disk, memdisk>>
  PROVE  IInv' /\ Same
<1>a. x \in Buf /\ buf[x].blockno = k /\ b[p] = None
  BY ZenonT(30) DEF Hits, IInv, BufInv
<1>d. /\ want' \in [Proc -> Block \cup {None}] /\ b' \in [Proc -> Buf \cup {None}]
      /\ \A q \in Proc : /\ want'[q] = IF q = p THEN k ELSE want[q]
                         /\ b'[q] = IF q = p THEN x ELSE b[q]
  <2>1. want \in [Proc -> Block \cup {None}] /\ b \in [Proc -> Buf \cup {None}]
    BY Types
  <2> QED
    BY <1>a, <2>1
<1>e. /\ pc' \in [Proc -> Place]
      /\ \A q \in Proc : pc'[q] = IF q = p THEN "acquiresleep" ELSE pc[q]
  BY Moves, ZenonT(30) DEF Place
<1>h. /\ Cardinality(Users(x)') = buf[x].refcnt + 1
      /\ \A y \in Buf \ {x} : Users(y)' = Users(y)
  <2>1. buf[x].refcnt = Cardinality(Users(x)) /\ b \in [Proc -> Buf \cup {None}]
    BY <1>a, Types DEF IInv, NoPanic
  <2> QED
    BY <1>a, <2>1, UserJoins, ZenonT(30)
<1>f. PICK r \in Buffer :
        /\ buf' = [buf EXCEPT ![x] = r] /\ r.refcnt = buf[x].refcnt + 1
        /\ r.blockno = buf[x].blockno /\ r.valid = buf[x].valid /\ r.dirty = buf[x].dirty
        /\ r.lock = buf[x].lock /\ r.data = buf[x].data
  <2>1. buf[x] \in Buffer
    BY <1>a, Types
  <2>2. buf[x].refcnt + 1 \in Nat
    BY <2>1, Fields
  <2>3. PICK r \in Buffer :
          /\ r = [buf[x] EXCEPT !.refcnt = buf[x].refcnt + 1] /\ r.refcnt = buf[x].refcnt + 1
          /\ r.blockno = buf[x].blockno /\ r.valid = buf[x].valid /\ r.dirty = buf[x].dirty
          /\ r.lock = buf[x].lock /\ r.data = buf[x].data
    BY <2>1, <2>2, SetRefcnt, ZenonT(30)
  <2> QED
    BY <2>3, ZenonT(30)
<1>g. /\ buf' \in [Buf -> Buffer]
      /\ \A y \in Buf : /\ buf'[y].blockno = buf[y].blockno /\ buf'[y].valid = buf[y].valid
                        /\ buf'[y].dirty = buf[y].dirty /\ buf'[y].lock = buf[y].lock
                        /\ buf'[y].data = buf[y].data
                        /\ buf'[y].refcnt = IF y = x THEN buf[x].refcnt + 1 ELSE buf[y].refcnt
  BY <1>a, <1>f, SetBuffer, ZenonT(30)
<1>1. TypeOK'
  BY <1>d, <1>e, <1>g DEF IInv, TypeOK
<1>2. NoPanic'
  BY <1>e, <1>g, <1>h DEF IInv, NoPanic
<1>3. BufInv'
  <2>1. \A y \in Buf \ {x} : buf[y].blockno # k
    BY <1>a, NoneAssumption, ZenonT(30) DEF IInv, BufInv
  <2> QED
    <3>1. b'[p] = x /\ want'[p] = k /\ pc'[p] = "acquiresleep" /\ buf'[x].blockno = k
      BY <1>a, <1>d, <1>e, <1>g
    <3>2. \A q \in Proc : q # p => /\ b'[q] = b[q] /\ want'[q] = want[q] /\ pc'[q] = pc[q]
                                   /\ b[q] = x => buf[x].blockno = k
      BY <1>a, <1>d, <1>e
    <3>3. \A y \in Buf : y # x => buf'[y].blockno = buf[y].blockno /\ buf[y].blockno # k
      BY <1>g, <2>1
    <3>4. Joins(p, x, k)
      BY <3>1, <3>2, <3>3, ZenonT(30) DEF Joins
    <3> QED
      BY <1>a, <3>4, BufJoins, ZenonT(30)
<1>4. LockInv'
  BY <1>d, <1>e, <1>g, LockFrame, ZenonT(30) DEF Owning
<1>5. FlagInv'
  BY <1>d, <1>e, <1>g, FlagFrame, ZenonT(30) DEF Owning
<1>6. QueueInv'
  BY <1>d, <1>e, QueueFrame, ZenonT(30)
<1>7. CommandInv'
  BY <1>g, CommandFrame, ZenonT(30)
<1>8. Same
  BY <1>g DEF Same
<1> QED
  BY <1>1, <1>2, <1>3, <1>4, <1>5, <1>6, <1>7, <1>8, ZenonT(30) DEF IInv

\* bget of a block without one: nobody has the buffer that it recycles, and
\* the disk does not work for it
LEMMA BgetMissStep ==
  ASSUME IInv, NEW p \in Proc, NEW k \in Block, NEW x \in Buf,
         pc[p] = "out", want' = [want EXCEPT ![p] = k],
         Hits(k) = {}, buf[x].refcnt = 0,
         buf' = [buf EXCEPT ![x] = [@ EXCEPT !.blockno = k, !.valid = FALSE,
                                             !.dirty = FALSE, !.refcnt = 1]],
         b' = [b EXCEPT ![p] = x], pc' = [pc EXCEPT ![p] = "acquiresleep"],
         UNCHANGED <<list, idequeue, ide, disk, memdisk>>
  PROVE  IInv' /\ Recycled(x, k)
<1>a. b[p] = None /\ \A y \in Buf : buf[y].blockno # k
  BY ZenonT(30) DEF Hits, IInv, BufInv
<1>b. /\ \A q \in Proc : b[q] # x
      /\ \A i \in DOMAIN idequeue : idequeue[i] # x
  <2>1. \A q \in Proc : b[q] # x
    BY Unreferenced, ZenonT(30)
  <2>2. \A i \in DOMAIN idequeue : \E q \in Proc : pc[q] = "asleep" /\ b[q] = idequeue[i]
    BY ZenonT(30) DEF IInv, QueueInv
  <2> QED
    BY <2>1, <2>2, ZenonT(30)
<1>c. buf[x].lock = None
  <2>1. buf[x].lock \in Proc \cup {None}
    BY Types, Fields, ZenonT(30)
  <2> QED
    BY <1>b, <2>1, ZenonT(30) DEF IInv, LockInv
<1>d. /\ want' \in [Proc -> Block \cup {None}] /\ b' \in [Proc -> Buf \cup {None}]
      /\ \A q \in Proc : /\ want'[q] = IF q = p THEN k ELSE want[q]
                         /\ b'[q] = IF q = p THEN x ELSE b[q]
  <2>1. want \in [Proc -> Block \cup {None}] /\ b \in [Proc -> Buf \cup {None}]
    BY Types
  <2> QED
    BY <2>1
<1>e. /\ pc' \in [Proc -> Place]
      /\ \A q \in Proc : pc'[q] = IF q = p THEN "acquiresleep" ELSE pc[q]
  BY Moves, ZenonT(30) DEF Place
<1>h. /\ Cardinality(Users(x)') = 1
      /\ \A y \in Buf \ {x} : Users(y)' = Users(y)
  <2>1. Cardinality(Users(x)) = 0 /\ b \in [Proc -> Buf \cup {None}]
    BY Types DEF IInv, NoPanic
  <2>2. /\ Cardinality(Users(x)') = Cardinality(Users(x)) + 1
        /\ \A y \in Buf \ {x} : Users(y)' = Users(y)
    BY <1>a, <2>1, UserJoins, ZenonT(30)
  <2> QED
    BY <2>1, <2>2
<1>f. PICK r \in Buffer :
        /\ buf' = [buf EXCEPT ![x] = r]
        /\ r.blockno = k /\ ~r.valid /\ ~r.dirty /\ r.refcnt = 1
        /\ r.data = buf[x].data /\ r.lock = buf[x].lock
  <2>1. buf[x] \in Buffer
    BY Types
  <2>2. buf' = [buf EXCEPT ![x] = Reset(buf[x], k)]
    BY ZenonT(30) DEF Reset
  <2> QED
    BY <2>1, <2>2, SetBlock, ZenonT(30)
<1>g. /\ buf' \in [Buf -> Buffer]
      /\ \A y \in Buf \ {x} : buf'[y] = buf[y]
      /\ buf'[x] = r
  BY <1>f, SetBuffer, ZenonT(30)
<1>1. TypeOK'
  BY <1>d, <1>e, <1>g DEF IInv, TypeOK
<1>2. NoPanic'
  BY <1>e, <1>f, <1>g, <1>h DEF IInv, NoPanic
<1>3. BufInv'
  <2>1. b'[p] = x /\ want'[p] = k /\ pc'[p] = "acquiresleep" /\ buf'[x].blockno = k
    BY <1>d, <1>e, <1>f, <1>g
  <2>2. \A q \in Proc : q # p => /\ b'[q] = b[q] /\ want'[q] = want[q] /\ pc'[q] = pc[q]
                                 /\ b[q] = x => buf[x].blockno = k
    BY <1>b, <1>d, <1>e
  <2>3. \A y \in Buf : y # x => buf'[y].blockno = buf[y].blockno /\ buf[y].blockno # k
    BY <1>a, <1>g
  <2>4. Joins(p, x, k)
    BY <2>1, <2>2, <2>3, ZenonT(30) DEF Joins
  <2> QED
    BY <2>4, BufJoins, ZenonT(30)
<1>4. LockInv'
  <2>1. \A y \in Buf : buf'[y].lock = buf[y].lock
    BY <1>f, <1>g
  <2> QED
    BY <1>d, <1>e, <2>1, LockFrame, ZenonT(30) DEF Owning
<1>5. FlagInv'
  <2>1. \A y \in Buf \ {x} : Ready(y)' <=> Ready(y)
    BY <1>g, ZenonT(30) DEF Ready
  <2>2. \A q \in Proc : pc'[q] \in {"iderw", "asleep", "woken", "has"} =>
                           pc'[q] = pc[q] /\ b'[q] = b[q] /\ b[q] \in Buf \ {x}
    BY <1>b, <1>d, <1>e, OwnersHaveBuffers
  <2> QED
    BY <1>f, <1>g, <2>1, <2>2 DEF IInv, FlagInv
<1>6. QueueInv'
  BY <1>d, <1>e, QueueFrame, ZenonT(30)
<1>7. CommandInv'
  BY <1>b, <1>g, CommandFrame, ZenonT(30)
<1>8. Recycled(x, k)
  BY <1>a, <1>f, <1>g DEF Recycled
<1> QED
  BY <1>1, <1>2, <1>3, <1>4, <1>5, <1>6, <1>7, <1>8, ZenonT(30) DEF IInv

\* bget
LEMMA BgetStep ==
  ASSUME IInv, NEW p \in Proc, NEW k \in Block, bget(p, k)
  PROVE  IInv' /\ (Same \/ \E x \in Buf : ~buf[x].dirty /\ Recycled(x, k))
<1>a. /\ pc[p] = "out" /\ want' = [want EXCEPT ![p] = k]
      /\ UNCHANGED <<list, idequeue, ide, disk, memdisk>>
  BY ZenonT(30) DEF bget
<1>1. ASSUME NEW x \in Hits(k), buf' = [buf EXCEPT ![x].refcnt = @ + 1],
             b' = [b EXCEPT ![p] = x], pc' = [pc EXCEPT ![p] = "acquiresleep"]
      PROVE  IInv' /\ Same
  BY <1>a, <1>1, BgetHitStep, ZenonT(30)
<1>2. ASSUME Hits(k) = {}, NEW i \in Free, b' = [b EXCEPT ![p] = list[i]],
             buf' = [buf EXCEPT ![list[i]] = [@ EXCEPT !.blockno = k, !.valid = FALSE,
                                                       !.dirty = FALSE, !.refcnt = 1]],
             pc' = [pc EXCEPT ![p] = "acquiresleep"]
      PROVE  IInv' /\ ~buf[list[i]].dirty /\ Recycled(list[i], k) /\ list[i] \in Buf
  <2>1. list[i] \in Buf /\ buf[list[i]].refcnt = 0 /\ ~buf[list[i]].dirty
    BY Types DEF Free
  <2> QED
    BY <1>a, <1>2, <2>1, BgetMissStep, ZenonT(30)
<1>3. ASSUME Hits(k) = {}, Free = {}, pc' = [pc EXCEPT ![p] = "no buffers"],
             UNCHANGED <<buf, b>>
      PROVE  IInv' /\ Same
  <2>e. /\ pc' \in [Proc -> Place]
        /\ \A q \in Proc : pc'[q] = IF q = p THEN "no buffers" ELSE pc[q]
    BY <1>3, Moves, ZenonT(30) DEF Place
  <2>d. /\ want' \in [Proc -> Block \cup {None}]
        /\ \A q \in Proc : q # p => want'[q] = want[q]
    BY <1>a, Types, ZenonT(30)
  <2>b. b[p] = None
    BY <1>a, ZenonT(30) DEF IInv, BufInv
  <2>1. TypeOK'
    BY <1>a, <1>3, <2>d, <2>e, ZenonT(30) DEF IInv, TypeOK
  <2>2. NoPanic'
    BY <1>3, <2>e, CountFrame, ZenonT(30) DEF IInv, NoPanic
  <2>3. BufInv'
    BY <1>3, <2>b, <2>d, <2>e, BufFrame, ZenonT(30)
  <2>4. LockInv'
    BY <1>a, <1>3, <2>e, LockFrame, ZenonT(30) DEF Owning
  <2>5. FlagInv'
    BY <1>3, <2>e, FlagFrame, ZenonT(30) DEF Owning
  <2>6. QueueInv'
    BY <1>a, <1>3, <2>e, QueueFrame, ZenonT(30)
  <2>7. CommandInv'
    BY <1>a, <1>3, CommandFrame, ZenonT(30)
  <2>8. Same
    BY <1>3, ZenonT(30) DEF Same
  <2> QED
    BY <2>1, <2>2, <2>3, <2>4, <2>5, <2>6, <2>7, <2>8, ZenonT(30) DEF IInv
<1> QED
  BY <1>1, <1>2, <1>3, ZenonT(30) DEF bget

-----------------------------------------------------------------------------
(* ide.c and memide.c *)

LEMMA Queues ==
  ASSUME NEW s \in Seq(Buf), NEW x \in Buf
  PROVE  /\ Append(s, x) \in Seq(Buf) /\ Append(s, x) # <<>>
         /\ Head(Append(s, x)) = IF s = <<>> THEN x ELSE Head(s)
         /\ DOMAIN Append(s, x) = DOMAIN s \cup {Len(s) + 1} /\ Len(s) + 1 \notin DOMAIN s
         /\ Append(s, x)[Len(s) + 1] = x
         /\ \A i \in DOMAIN s : Append(s, x)[i] = s[i]
OBVIOUS

\* idestart's command.
LEMMA Idestart ==
  ASSUME NEW x, buf[x] \in Buffer, buf[x].blockno \in Block
  PROVE  /\ idestart(x) \in [st : {"busy", "done"}, blockno : Block,
                              write : BOOLEAN, data : Val]
         /\ idestart(x) # Idle /\ idestart(x).st = "busy"
         /\ idestart(x).blockno = buf[x].blockno /\ idestart(x).write = buf[x].dirty
         /\ idestart(x).data = buf[x].data
<1>1. buf[x].dirty \in BOOLEAN /\ buf[x].data \in Val
  BY Fields, ZenonT(30)
<1>2. idestart(x) # Idle
  BY DEF idestart, Idle
<1> QED
  BY <1>1, <1>2 DEF idestart

\* iderw, until it sleeps
LEMMA IderwStep ==
  ASSUME IInv, NEW p \in Proc, iderw(p)
  PROVE  IInv'
<1>a. PICK x \in Buf : b[p] = x /\ want[p] \in Block /\ buf[x].blockno = want[p]
  BY HasBuffer, ZenonT(30) DEF iderw
<1>b. pc[p] = "iderw" /\ ~memdisk
  BY ZenonT(30) DEF iderw
<1>c. buf[x].lock = p /\ ~Ready(x)
  BY <1>a, <1>b, Owner, ZenonT(30) DEF IInv, FlagInv, Owning
<1>d. /\ UNCHANGED <<buf, list, disk, want, b, memdisk>>
      /\ idequeue' = Append(idequeue, x) /\ pc' = [pc EXCEPT ![p] = "asleep"]
      /\ ide' = IF idequeue = <<>> THEN idestart(x) ELSE ide
  BY <1>a, <1>c, ZenonT(30) DEF iderw
<1>e. pc' \in [Proc -> Place] /\ \A q \in Proc : pc'[q] = IF q = p THEN "asleep" ELSE pc[q]
  BY <1>d, Moves, ZenonT(30) DEF Place
<1>f. \A i \in DOMAIN idequeue : idequeue[i] # x
  BY <1>a, <1>b, Owner, ZenonT(30) DEF Owning
<1>g. idequeue \in Seq(Buf)
  BY Types
<1>h. /\ idestart(x) \in [st : {"busy", "done"}, blockno : Block, write : BOOLEAN, data : Val]
      /\ idestart(x) # Idle /\ idestart(x).blockno = buf[x].blockno
      /\ idestart(x).write = buf[x].dirty /\ idestart(x).data = buf[x].data
  BY <1>a, Types, Idestart, ZenonT(30)
<1>1. TypeOK'
  <2>1. idequeue' \in Seq(Buf)
    BY <1>d, <1>g, Queues
  <2> QED
    BY <1>d, <1>e, <1>h, <2>1, ZenonT(30) DEF IInv, TypeOK
<1>2. NoPanic'
  BY <1>d, <1>e, CountFrame, ZenonT(30) DEF IInv, NoPanic
<1>3. BufInv'
  BY <1>b, <1>d, <1>e, BufFrame, ZenonT(30)
<1>4. LockInv'
  BY <1>b, <1>d, <1>e, LockFrame, ZenonT(30) DEF Owning
<1>5. FlagInv'
  BY <1>a, <1>c, <1>d, <1>e, ZenonT(30) DEF IInv, FlagInv, Ready
<1>6. QueueInv'
  <2>1. \A i, j \in DOMAIN idequeue' : idequeue'[i] = idequeue'[j] => i = j
    BY <1>d, <1>f, <1>g, Queues DEF IInv, QueueInv
  <2>2. \A i \in DOMAIN idequeue' : \E q \in Proc : pc'[q] = "asleep" /\ b'[q] = idequeue'[i]
    BY <1>a, <1>d, <1>e, <1>g, Queues DEF IInv, QueueInv
  <2>3. \A q \in Proc : pc'[q] = "asleep" => \E i \in DOMAIN idequeue' : idequeue'[i] = b'[q]
    BY <1>a, <1>d, <1>e, <1>g, Queues DEF IInv, QueueInv
  <2> QED
    BY <1>b, <1>d, <2>1, <2>2, <2>3, ZenonT(30) DEF QueueInv
<1>7. CommandInv'
  <2>1. idequeue' # <<>> /\ Head(idequeue') = IF idequeue = <<>> THEN x ELSE Head(idequeue)
    BY <1>d, <1>g, Queues
  <2> QED
    BY <1>d, <1>h, <2>1, ZenonT(30) DEF IInv, CommandInv
<1> QED
  BY <1>1, <1>2, <1>3, <1>4, <1>5, <1>6, <1>7 DEF IInv

\* iderw, back from sleep
LEMMA IderwDoneStep ==
  ASSUME IInv, NEW p \in Proc, IderwDone(p)
  PROVE  IInv'
<1>a. b[p] \in Buf /\ pc[p] = "woken" /\ Ready(b[p])
  BY HasBuffer, ZenonT(30) DEF IderwDone, IInv, FlagInv
<1>b. /\ pc' = [pc EXCEPT ![p] = "has"]
      /\ UNCHANGED <<buf, list, idequeue, ide, disk, want, b, memdisk>>
  BY <1>a, ZenonT(30) DEF IderwDone
<1>e. pc' \in [Proc -> Place] /\ \A q \in Proc : pc'[q] = IF q = p THEN "has" ELSE pc[q]
  BY <1>b, Moves, ZenonT(30) DEF Place
<1>1. TypeOK'
  BY <1>b, <1>e DEF IInv, TypeOK
<1>2. NoPanic'
  BY <1>b, <1>e, CountFrame, ZenonT(30) DEF IInv, NoPanic
<1>3. BufInv'
  BY <1>a, <1>b, <1>e, BufFrame, ZenonT(30)
<1>4. LockInv'
  BY <1>a, <1>b, <1>e, LockFrame, ZenonT(30) DEF Owning
<1>5. FlagInv'
  BY <1>a, <1>b, <1>e, ZenonT(30) DEF IInv, FlagInv, Ready
<1>6. QueueInv'
  BY <1>a, <1>b, <1>e, QueueFrame, ZenonT(30)
<1>7. CommandInv'
  BY <1>b, CommandFrame, ZenonT(30)
<1> QED
  BY <1>1, <1>2, <1>3, <1>4, <1>5, <1>6, <1>7 DEF IInv

\* The controller finishes.
LEMMA FinishStep ==
  ASSUME IInv, Finish
  PROVE  IInv'
<1>a. ide.st = "busy" /\ UNCHANGED <<buf, list, idequeue, pc, want, b, memdisk>>
  BY DEF Finish, procvars
<1>b. ide # Idle
  BY <1>a DEF Idle
<1>c. ide \in [st : {"busy", "done"}, blockno : Block, write : BOOLEAN, data : Val]
  BY <1>b DEF IInv, TypeOK
<1>d. /\ ide' \in [st : {"busy", "done"}, blockno : Block, write : BOOLEAN, data : Val]
      /\ ide'.st = "done" /\ ide'.blockno = ide.blockno /\ ide'.write = ide.write
      /\ ide'.data = ide.data
  BY <1>c DEF Finish
<1>e. ide' # Idle
  BY <1>d DEF Idle
<1>1. TypeOK'
  <2>1. disk' \in [Block -> Val]
    <3>1. ide.data \in Val
      BY <1>c
    <3> QED
      BY <3>1, Types, ZenonT(30) DEF Finish
  <2> QED
    BY <1>a, <1>d, <2>1 DEF IInv, TypeOK
<1>2. NoPanic' /\ BufInv' /\ LockInv' /\ FlagInv' /\ QueueInv'
  <2>1. NoPanic'
    BY <1>a DEF IInv, NoPanic, Users
  <2>2. BufInv'
    BY <1>a, ZenonT(30) DEF IInv, BufInv
  <2>3. LockInv'
    BY <1>a DEF IInv, LockInv
  <2>4. FlagInv'
    BY <1>a DEF IInv, FlagInv, Ready
  <2>5. QueueInv'
    BY <1>a DEF IInv, QueueInv
  <2> QED
    BY <2>1, <2>2, <2>3, <2>4, <2>5
<1>3. CommandInv'
  BY <1>a, <1>b, <1>d, <1>e, ZenonT(30) DEF IInv, CommandInv
<1> QED
  BY <1>1, <1>2, <1>3 DEF IInv

\* A request is served.
LEMMA Served ==
  ASSUME IInv, NEW x \in Buf, NEW v \in Val,
         buf' = [buf EXCEPT ![x] = [[[buf[x] EXCEPT !.valid = TRUE]
                                            EXCEPT !.dirty = FALSE] EXCEPT !.data = v]]
  PROVE  /\ buf' \in [Buf -> Buffer]
         /\ \A y \in Buf : /\ buf'[y].blockno = buf[y].blockno
                           /\ buf'[y].lock = buf[y].lock /\ buf'[y].refcnt = buf[y].refcnt
                           /\ y # x => buf'[y] = buf[y]
         /\ buf'[x].valid /\ ~buf'[x].dirty /\ buf'[x].data = v
<1>1. buf[x] \in Buffer
  BY Types
<1>2. PICK r \in Buffer :
        /\ r = [[[buf[x] EXCEPT !.valid = TRUE] EXCEPT !.dirty = FALSE] EXCEPT !.data = v]
        /\ r.data = v /\ r.valid /\ ~r.dirty
        /\ r.blockno = buf[x].blockno /\ r.lock = buf[x].lock /\ r.refcnt = buf[x].refcnt
  BY <1>1, SetRead, ZenonT(30)
<1>3. buf' = [buf EXCEPT ![x] = r]
  BY <1>2
<1> QED
  BY <1>2, <1>3, SetBuffer, ZenonT(30)

Goes(p, l) == \A q \in Proc : pc'[q] = IF q = p THEN l ELSE pc[q]

LEMMA FlagServed ==
  ASSUME IInv, NEW p \in Proc, NEW x \in Buf, b[p] = x, pc[p] \in Owning, b' = b,
         NEW l \in {"woken", "has"}, Goes(p, l), NEW v, Stored(x, v), ~buf'[x].dirty
  PROVE  FlagInv'
<1>a. /\ \A q \in Proc : pc'[q] = IF q = p THEN l ELSE pc[q]
      /\ \A y \in Buf : buf'[y].blockno = buf[y].blockno /\ (y # x => buf'[y] = buf[y])
      /\ buf'[x].valid
  BY ZenonT(30) DEF Goes, Stored
<1>1. \A q \in Proc : q # p /\ pc[q] \in Owning => b[q] \in Buf /\ b[q] # x
  BY Owner, OwnersHaveBuffers, ZenonT(30)
<1>2. \A y \in Buf : y # x => Ready(y)' = Ready(y)
  BY <1>a, ZenonT(30) DEF Ready
<1>3. Ready(x)'
  BY <1>a DEF Ready
<1>4. buf[x].blockno # None
  <2>1. pc[p] \notin {"out", "no buffers"}
    BY ZenonT(30) DEF Owning
  <2> QED
    BY <2>1, HasBuffer, NoneAssumption, ZenonT(30)
<1>5. ASSUME NEW q \in Proc
      PROVE  /\ pc'[q] \in {"iderw", "asleep"} => ~Ready(b[q])'
             /\ pc'[q] = "woken" => Ready(b[q])'
             /\ pc'[q] = "has" => buf'[b[q]].valid
  <2>1. CASE q = p
    BY <1>a, <1>3, <2>1, ZenonT(30)
  <2>2. CASE q # p /\ pc[q] \in Owning
    BY <1>a, <1>1, <1>2, <2>2, ZenonT(30) DEF IInv, FlagInv
  <2>3. CASE q # p /\ pc[q] \notin Owning
    BY <1>a, <2>3, ZenonT(30) DEF Owning
  <2> QED
    BY <2>1, <2>2, <2>3
<1>6. \A y \in Buf : /\ buf'[y].dirty => buf'[y].valid
                     /\ buf'[y].valid => buf'[y].blockno # None
  BY <1>a, <1>4 DEF IInv, FlagInv
<1> QED
  BY <1>5, <1>6 DEF FlagInv, Ready

\* The request at the head of the queue.
LEMMA HeadOfQueue ==
  ASSUME NEW s \in Seq(Buf), s # <<>>
  PROVE  /\ Head(s) \in Buf /\ 1 \in DOMAIN s /\ s[1] = Head(s)
         /\ Tail(s) \in Seq(Buf)
         /\ \A i \in DOMAIN Tail(s) : i + 1 \in DOMAIN s /\ i + 1 # 1 /\ Tail(s)[i] = s[i + 1]
         /\ \A i \in DOMAIN s : i # 1 => i - 1 \in DOMAIN Tail(s) /\ Tail(s)[i - 1] = s[i]
         /\ Tail(s) # <<>> => 1 \in DOMAIN Tail(s) /\ Head(Tail(s)) = Tail(s)[1]
OBVIOUS

\* ideintr
LEMMA IdeintrStep ==
  ASSUME IInv, ide.st = "done" /\ idequeue # <<>>, ideintr
  PROVE  /\ IInv'
         /\ \E p \in Proc, v \in Val :
               /\ pc[p] = "asleep" /\ b[p] = Head(idequeue)
               /\ Goes(p, "woken") /\ Stored(b[p], v) /\ ~buf'[b[p]].dirty
               /\ \E err \in Errors : v = IF buf[b[p]].dirty \/ err THEN buf[b[p]].data
                                         ELSE disk[ide.blockno]
<1>a. PICK x \in Buf : x = Head(idequeue)
  BY Types, HeadOfQueue, ZenonT(30)
<1>b. /\ idequeue \in Seq(Buf) /\ idequeue # <<>>
      /\ idequeue' = Tail(idequeue) /\ UNCHANGED <<list, disk, want, b, memdisk>>
      /\ pc' = [q \in Proc |-> IF pc[q] = "asleep" /\ b[q] = x THEN "woken" ELSE pc[q]]
      /\ ide' = IF idequeue' = <<>> THEN Idle ELSE idestart(Head(idequeue'))
  BY <1>a, Types, ZenonT(30) DEF ideintr, vars
<1>c. ide.blockno \in Block
  <2>1. ide # Idle
    BY DEF Idle
  <2> QED
    BY <2>1 DEF IInv, TypeOK
<1>l. /\ \A i, j \in DOMAIN idequeue : idequeue[i] = idequeue[j] => i = j
      /\ \A i \in DOMAIN idequeue : \E q \in Proc : pc[q] = "asleep" /\ b[q] = idequeue[i]
      /\ \A q \in Proc : pc[q] = "asleep" => \E i \in DOMAIN idequeue : idequeue[i] = b[q]
      /\ memdisk => idequeue = <<>>
  BY DEF IInv, QueueInv
<1>m. 1 \in DOMAIN idequeue /\ idequeue[1] = x /\ idequeue' \in Seq(Buf)
  BY <1>a, <1>b, HeadOfQueue, ZenonT(30)
<1>d. PICK p \in Proc : pc[p] = "asleep" /\ b[p] = x
  BY <1>l, <1>m, ZenonT(30)
<1>e. \A q \in Proc : pc[q] \in Owning /\ b[q] = x => q = p
  BY <1>d, Owner, ZenonT(30) DEF Owning
<1>f. /\ pc' \in [Proc -> Place]
      /\ \A q \in Proc : pc'[q] = IF q = p THEN "woken" ELSE pc[q]
  BY <1>b, <1>d, <1>e, Types, ZenonT(30) DEF Place, Owning
<1>g. PICK v \in Val :
        /\ buf' = [buf EXCEPT ![x] = [[[buf[x] EXCEPT !.valid = TRUE]
                                              EXCEPT !.dirty = FALSE] EXCEPT !.data = v]]
        /\ \E err \in Errors : v = IF buf[x].dirty \/ err THEN buf[x].data
                                  ELSE disk[ide.blockno]
  <2>1. disk[ide.blockno] \in Val /\ buf[x] \in Buffer /\ buf[x].data \in Val
    BY <1>c, Types, Fields, ZenonT(30)
  <2>2. PICK err \in Errors :
          buf' = [buf EXCEPT ![x].valid = TRUE, ![x].dirty = FALSE,
                             ![x].data = IF buf[x].dirty \/ err THEN @
                                         ELSE disk[ide.blockno]]
    BY <1>a, ZenonT(30) DEF ideintr, vars
  <2>3. [[buf[x] EXCEPT !.valid = TRUE] EXCEPT !.dirty = FALSE].data = buf[x].data
    BY <2>1 DEF Buffer
  <2> QED
    BY <2>1, <2>2, <2>3, Types, ZenonT(30)
<1>h. /\ buf' \in [Buf -> Buffer]
      /\ \A y \in Buf : /\ buf'[y].blockno = buf[y].blockno
                        /\ buf'[y].lock = buf[y].lock /\ buf'[y].refcnt = buf[y].refcnt
                        /\ y # x => buf'[y] = buf[y]
      /\ buf'[x].valid /\ ~buf'[x].dirty /\ buf'[x].data = v
  BY <1>g, Served, ZenonT(30)
<1>n. Goes(p, "woken") /\ Stored(x, v) /\ ~buf'[x].dirty
  BY <1>f, <1>h, ZenonT(30) DEF Goes, Stored
<1>i. \A i \in DOMAIN idequeue' : /\ i + 1 \in DOMAIN idequeue
                                 /\ idequeue'[i] = idequeue[i + 1] /\ idequeue'[i] # x
  <2>1. ASSUME NEW i \in DOMAIN idequeue'
        PROVE  i + 1 \in DOMAIN idequeue /\ i + 1 # 1 /\ idequeue'[i] = idequeue[i + 1]
    BY <1>b, HeadOfQueue, ZenonT(30)
  <2> QED
    BY <1>l, <1>m, <2>1
<1>j. idequeue' # <<>> =>
        /\ Head(idequeue') \in Buf \ {x}
        /\ \E q \in Proc : pc[q] = "asleep" /\ b[q] = Head(idequeue')
  <2>1. idequeue' # <<>> => /\ 1 \in DOMAIN idequeue' /\ Head(idequeue') = idequeue'[1]
                            /\ Head(idequeue') \in Buf
    BY <1>m, HeadOfQueue, ZenonT(30)
  <2> QED
    BY <1>i, <1>l, <2>1
<1>k. idequeue' # <<>> =>
        LET y == Head(idequeue') IN
        /\ ide' \in [st : {"busy", "done"}, blockno : Block, write : BOOLEAN, data : Val]
        /\ ide' # Idle /\ ide'.blockno = buf[y].blockno
        /\ ide'.write = buf[y].dirty /\ ide'.data = buf[y].data
  <2>1. SUFFICES ASSUME idequeue' # <<>>, NEW y \in Buf, y = Head(idequeue'), y # x
                 PROVE  /\ ide' \in [st : {"busy", "done"}, blockno : Block,
                                     write : BOOLEAN, data : Val]
                        /\ ide' # Idle /\ ide'.blockno = buf[y].blockno
                        /\ ide'.write = buf[y].dirty /\ ide'.data = buf[y].data
    BY <1>j, ZenonT(30)
  <2>2. buf[y].blockno \in Block /\ buf[y] \in Buffer
    BY <1>j, <2>1, HasBuffer, Types, ZenonT(30)
  <2> QED
    BY <1>b, <2>1, <2>2, Idestart, ZenonT(30)
<1>1. TypeOK'
  <2>1. idequeue' \in Seq(Buf)
    BY <1>m
  <2>2. ide' = Idle \/ ide' \in [st : {"busy", "done"}, blockno : Block,
                                 write : BOOLEAN, data : Val]
    BY <1>b, <1>k, ZenonT(30)
  <2> QED
    BY <1>b, <1>f, <1>h, <2>1, <2>2, ZenonT(30) DEF IInv, TypeOK
<1>2. NoPanic'
  BY <1>b, <1>f, <1>h, CountFrame, ZenonT(30) DEF IInv, NoPanic
<1>3. BufInv'
  BY <1>b, <1>d, <1>f, <1>h, BufFrame, ZenonT(30)
<1>4. LockInv'
  BY <1>b, <1>d, <1>f, <1>h, LockFrame, ZenonT(30) DEF Owning
<1>5. FlagInv'
  <2>1. pc[p] \in Owning /\ b' = b /\ b[p] = x
    BY <1>b, <1>d, ZenonT(30) DEF Owning
  <2> QED
    BY <1>n, <2>1, FlagServed, ZenonT(30)
<1>6. QueueInv'
  <2>1. \A i, j \in DOMAIN idequeue' : idequeue'[i] = idequeue'[j] => i = j
    <3>1. \A i \in DOMAIN idequeue' : i \in Nat
      BY <1>m
    <3>2. \A i, j \in DOMAIN idequeue' : idequeue'[i] = idequeue'[j] => i + 1 = j + 1
      BY <1>i, <1>l
    <3> QED
      BY <3>1, <3>2
  <2>2. \A i \in DOMAIN idequeue' : \E q \in Proc : pc'[q] = "asleep" /\ b'[q] = idequeue'[i]
    <3>1. ASSUME NEW i \in DOMAIN idequeue'
          PROVE  \E q \in Proc : pc'[q] = "asleep" /\ b'[q] = idequeue'[i]
      <4>1. PICK q \in Proc : pc[q] = "asleep" /\ b[q] = idequeue'[i] /\ b[q] # x
        BY <1>i, <1>l
      <4> QED
        BY <1>b, <1>d, <1>f, <4>1, ZenonT(30)
    <3> QED
      BY <3>1
  <2>3. \A q \in Proc : pc'[q] = "asleep" => \E i \in DOMAIN idequeue' : idequeue'[i] = b'[q]
    <3>1. \A q \in Proc : pc'[q] = "asleep" => pc[q] = "asleep" /\ b[q] # x
      BY <1>d, <1>e, <1>f, ZenonT(30) DEF Owning
    <3>2. \A i \in DOMAIN idequeue : idequeue[i] # x =>
             i - 1 \in DOMAIN idequeue' /\ idequeue'[i - 1] = idequeue[i]
      BY <1>a, <1>b, HeadOfQueue, ZenonT(30)
    <3>3. ASSUME NEW q \in Proc, pc'[q] = "asleep"
          PROVE  \E i \in DOMAIN idequeue' : idequeue'[i] = b'[q]
      <4>1. PICK i \in DOMAIN idequeue : idequeue[i] = b[q] /\ idequeue[i] # x
        BY <1>l, <3>1, <3>3, ZenonT(30)
      <4> QED
        BY <1>b, <3>2, <4>1, ZenonT(30)
    <3> QED
      BY <3>3
  <2>4. ~memdisk
    BY <1>b, <1>l, ZenonT(30)
  <2> QED
    BY <1>b, <2>1, <2>2, <2>3, <2>4, ZenonT(30) DEF QueueInv
<1>7. CommandInv'
  <2>1. idequeue' # <<>> => buf'[Head(idequeue')] = buf[Head(idequeue')]
    BY <1>h, <1>j, ZenonT(30)
  <2> QED
    BY <1>b, <1>k, <2>1, ZenonT(30) DEF CommandInv
<1>8. IInv'
  BY <1>1, <1>2, <1>3, <1>4, <1>5, <1>6, <1>7 DEF IInv
<1>9. Stored(b[p], v) /\ ~buf'[b[p]].dirty
  BY <1>d, <1>n, ZenonT(30)
<1> QED
  BY <1>a, <1>d, <1>g, <1>n, <1>8, <1>9, ZenonT(30)

\* iderw of memide.c
LEMMA MemIderwStep ==
  ASSUME IInv, NEW p \in Proc, MemIderw(p)
  PROVE  IInv' /\ Stored(b[p], disk'[want[p]]) /\ ~buf'[b[p]].dirty
<1>a. PICK x \in Buf : b[p] = x /\ want[p] \in Block /\ buf[x].blockno = want[p]
  BY HasBuffer, ZenonT(30) DEF MemIderw
<1>b. pc[p] = "iderw" /\ memdisk
  BY ZenonT(30) DEF MemIderw
<1>c. buf[x].lock = p /\ ~Ready(x)
  BY <1>a, <1>b, Owner, ZenonT(30) DEF IInv, FlagInv, Owning
<1>d. /\ UNCHANGED <<list, idequeue, ide, want, b, memdisk>>
      /\ disk' = IF buf[x].dirty THEN [disk EXCEPT ![buf[x].blockno] = buf[x].data]
                 ELSE disk
      /\ buf' = [buf EXCEPT ![x].valid = TRUE, ![x].dirty = FALSE,
                            ![x].data = disk'[buf[x].blockno]]
      /\ pc' = [pc EXCEPT ![p] = "has"]
  BY <1>a, <1>c, ZenonT(30) DEF MemIderw
<1>e. pc' \in [Proc -> Place] /\ \A q \in Proc : pc'[q] = IF q = p THEN "has" ELSE pc[q]
  BY <1>d, Moves, ZenonT(30) DEF Place
<1>f. disk' \in [Block -> Val]
  <2>1. buf[x].data \in Val
    BY Types, Fields, ZenonT(30)
  <2> QED
    BY <1>d, <2>1, Types, ZenonT(30)
<1>g. PICK v \in Val : v = disk'[want[p]] /\
        buf' = [buf EXCEPT ![x] = [[[buf[x] EXCEPT !.valid = TRUE]
                                           EXCEPT !.dirty = FALSE] EXCEPT !.data = v]]
  <2>1. PICK v \in Val : v = disk'[buf[x].blockno]
    BY <1>a, <1>f
  <2>2. buf' = [buf EXCEPT ![x].valid = TRUE, ![x].dirty = FALSE, ![x].data = v]
    BY <1>a, <1>d, <2>1
  <2>3. buf' = [buf EXCEPT ![x] = [[[buf[x] EXCEPT !.valid = TRUE]
                                           EXCEPT !.dirty = FALSE] EXCEPT !.data = v]]
    BY <2>2, Types, ZenonT(30)
  <2> QED
    BY <1>a, <2>1, <2>3, ZenonT(30)
<1>h. /\ buf' \in [Buf -> Buffer]
      /\ \A y \in Buf : /\ buf'[y].blockno = buf[y].blockno
                        /\ buf'[y].lock = buf[y].lock /\ buf'[y].refcnt = buf[y].refcnt
                        /\ y # x => buf'[y] = buf[y]
      /\ buf'[x].valid /\ ~buf'[x].dirty /\ buf'[x].data = v
  BY <1>g, Served, ZenonT(30)
<1>1. TypeOK'
  BY <1>d, <1>e, <1>f, <1>h, ZenonT(30) DEF IInv, TypeOK
<1>2. NoPanic'
  BY <1>d, <1>e, <1>h, CountFrame, ZenonT(30) DEF IInv, NoPanic
<1>3. BufInv'
  BY <1>b, <1>d, <1>e, <1>h, BufFrame, ZenonT(30)
<1>4. LockInv'
  BY <1>b, <1>d, <1>e, <1>h, LockFrame, ZenonT(30) DEF Owning
<1>5. FlagInv'
  <2>1. b[p] = x /\ pc[p] \in Owning /\ b' = b
    BY <1>a, <1>b, <1>d, ZenonT(30) DEF Owning
  <2>2. Goes(p, "has") /\ Stored(x, v) /\ ~buf'[x].dirty
    BY <1>e, <1>h, ZenonT(30) DEF Goes, Stored
  <2> QED
    BY <2>1, <2>2, FlagServed, ZenonT(30)
<1>6. QueueInv'
  BY <1>b, <1>d, <1>e, QueueFrame, ZenonT(30)
<1>7. CommandInv'
  <2>1. idequeue = <<>>
    BY <1>b, ZenonT(30) DEF IInv, QueueInv
  <2> QED
    BY <1>d, <2>1, ZenonT(30) DEF IInv, CommandInv
<1>8. Stored(b[p], disk'[want[p]]) /\ ~buf'[b[p]].dirty
  BY <1>a, <1>g, <1>h, ZenonT(30) DEF Stored
<1> QED
  BY <1>1, <1>2, <1>3, <1>4, <1>5, <1>6, <1>7, <1>8, ZenonT(30) DEF IInv

-----------------------------------------------------------------------------
(* The invariant *)

\* binit and ideinit
LEMMA InitInv ==
  ASSUME Init
  PROVE  IInv
<1>1. PICK v \in Val :
        /\ disk = [k \in Block |-> v]
        /\ buf = [x \in Buf |-> [blockno |-> None, valid |-> FALSE, dirty |-> FALSE,
                                 refcnt |-> 0, lock |-> None, data |-> v]]
  <2>1. (CHOOSE v \in Val : TRUE) \in Val
    BY SizeAssumption, ZenonT(30)
  <2> QED
    BY <2>1, ZenonT(30) DEF Init
<1>2. /\ \A x \in Buf : /\ buf[x] \in Buffer /\ buf[x].blockno = None /\ buf[x].lock = None
                        /\ ~buf[x].valid /\ ~buf[x].dirty /\ buf[x].refcnt = 0
      /\ buf \in [Buf -> Buffer]
  BY <1>1 DEF Buffer
<1>3. /\ pc = [p \in Proc |-> "out"] /\ want = [p \in Proc |-> None]
      /\ b = [p \in Proc |-> None] /\ idequeue = <<>> /\ ide = Idle
      /\ memdisk \in BOOLEAN /\ list = [i \in Buf |-> NBUF + 1 - i]
  BY DEF Init
<1>4. \A p \in Proc : pc[p] = "out" /\ b[p] = None
  BY <1>3
<1>5. TypeOK
  <2>1. /\ list \in [Buf -> Buf]
        /\ \A x \in Buf : NBUF + 1 - x \in Buf /\ list[NBUF + 1 - x] = x
    BY <1>3, SizeAssumption DEF Buf
  <2>2. disk \in [Block -> Val] /\ idequeue \in Seq(Buf)
    BY <1>1, <1>3
  <2>3. pc \in [Proc -> Place] /\ want \in [Proc -> Block \cup {None}]
    BY <1>3 DEF Place
  <2>4. b \in [Proc -> Buf \cup {None}]
    BY <1>3
  <2> QED
    BY <1>2, <1>3, <2>1, <2>2, <2>3, <2>4, ZenonT(30) DEF TypeOK
<1>6. NoPanic
  <2>1. \A x \in Buf : Users(x) = {}
    BY <1>4, NoneAssumption DEF Users
  <2> QED
    BY <1>2, <1>4, <2>1, FS_EmptySet, ZenonT(30) DEF NoPanic
<1>7. BufInv
  BY <1>2, <1>4, ZenonT(30) DEF BufInv
<1>8. LockInv
  BY <1>2, <1>4, NoneAssumption, ZenonT(30) DEF LockInv, Owning
<1>9. FlagInv
  BY <1>2, <1>4, ZenonT(30) DEF FlagInv
<1>10. QueueInv
  <2>1. DOMAIN idequeue = {}
    BY <1>3
  <2> QED
    BY <1>3, <1>4, <2>1, ZenonT(30) DEF QueueInv
<1>11. CommandInv
  BY <1>3, ZenonT(30) DEF CommandInv
<1> QED
  BY <1>5, <1>6, <1>7, <1>8, <1>9, <1>10, <1>11 DEF IInv

LEMMA Stutter ==
  ASSUME IInv, UNCHANGED vars
  PROVE  IInv'
<1>1. TypeOK'
  BY DEF IInv, TypeOK, vars
<1>2. NoPanic'
  BY DEF IInv, NoPanic, Users, vars
<1>3. BufInv'
  BY ZenonT(30) DEF IInv, BufInv, vars
<1>4. LockInv'
  BY DEF IInv, LockInv, vars
<1>5. FlagInv'
  BY DEF IInv, FlagInv, Ready, vars
<1>6. QueueInv'
  BY DEF IInv, QueueInv, vars
<1>7. CommandInv'
  BY DEF IInv, CommandInv, vars
<1> QED
  BY <1>1, <1>2, <1>3, <1>4, <1>5, <1>6, <1>7 DEF IInv

LEMMA NextInv ==
  ASSUME IInv, [Next]_vars
  PROVE  IInv'
<1>1. ASSUME NEW p \in Proc, NEW k \in Block, bget(p, k)
      PROVE  IInv'
  BY <1>1, BgetStep
<1>2. ASSUME NEW p \in Proc, NEW v \in Val, bwrite(p, v) \/ log_write(p, v)
      PROVE  IInv'
  BY <1>2, WriteStep, ZenonT(30)
<1>3. ASSUME NEW p \in Proc, acquiresleep(p) \/ releasesleep(p) \/ brelse(p)
      PROVE  IInv'
  BY <1>3, AcquireStep, ReleaseStep, BrelseStep, ZenonT(30)
<1>4. ASSUME NEW p \in Proc, iderw(p) \/ IderwDone(p) \/ MemIderw(p)
      PROVE  IInv'
  BY <1>4, IderwStep, IderwDoneStep, MemIderwStep, ZenonT(30)
<1>5. CASE ideintr
  <2>1. ide.st = "done" /\ idequeue # <<>> => IInv'
    BY <1>5, IdeintrStep, ZenonT(30)
  <2> QED
    BY <1>5, <2>1, Stutter, ZenonT(30) DEF ideintr
<1> QED
  BY <1>1, <1>2, <1>3, <1>4, <1>5, FinishStep, Stutter, ZenonT(30) DEF Next

\* For any numbers of processes, blocks and buffers, with disk commands that
\* fail or not, and with either driver: the invariant that IInv states of the
\* reference counts, locks and flags of bio.c and of the queue of ide.c.
THEOREM DiskInvariant == Spec => []IInv
<1>1. Init => IInv
  BY InitInv
<1>2. IInv /\ [Next]_vars => IInv'
  BY NextInv
<1> QED
  BY <1>1, <1>2, PTL DEF Spec

\* A block's buffers are one at most.
LEMMA OneHit ==
  ASSUME IInv, NEW k \in Block
  PROVE  Cardinality(Hits(k)) <= 1
<1>1. CASE Hits(k) = {}
  <2>1. Cardinality(Hits(k)) = 0
    BY <1>1, FS_EmptySet, ZenonT(30)
  <2> QED
    BY <2>1
<1>2. CASE Hits(k) # {}
  <2>1. PICK x : Hits(k) = {x}
    <3>1. \A x, y \in Hits(k) : x = y
      BY NoneAssumption, ZenonT(30) DEF Hits, IInv, BufInv
    <3> QED
      BY <1>2, <3>1
  <2>2. Cardinality(Hits(k)) = 1
    BY <2>1, FS_Singleton, ZenonT(30)
  <2> QED
    BY <2>2
<1> QED
  BY <1>1, <1>2

\* bget gives a block one buffer, whoever looks for it at the same time, and
\* keeps it from being recycled until brelse; what iderw has queued is what the
\* controller works on and what its callers sleep for; a buffer's reference
\* count is the number of processes that have it, and the panics of bwrite,
\* brelse and iderw are not reached.  That of bget is not excluded.
THEOREM DiskIsSound == Spec => []DiskSound
<1>1. IInv => DiskSound
  <2> SUFFICES ASSUME IInv PROVE DiskSound
    OBVIOUS
  <2>1. OneBuffer
    BY OneHit, ZenonT(30) DEF OneBuffer, IInv, BufInv
  <2>2. QueueServed
    <3>1. \A i \in DOMAIN idequeue :
             \E p \in Proc : pc[p] = "asleep" /\ b[p] = idequeue[i] /\ buf[b[p]].lock = p
      BY ZenonT(30) DEF IInv, QueueInv, LockInv, Owning
    <3> QED
      BY <3>1, ZenonT(30) DEF QueueServed, IInv, QueueInv, CommandInv
  <2> QED
    BY <2>1, <2>2 DEF DiskSound, IInv
<1> QED
  BY <1>1, DiskInvariant, PTL

-----------------------------------------------------------------------------
(* What the disk and the clean buffers agree on *)

ErrorFree == Errors \subseteq {FALSE}

\* A clean buffer stays as the disk has it.
LEMMA CoherentFrame ==
  ASSUME Coherent, disk' = disk,
         \A x \in Buf : \/ ~Ready(x)'
                        \/ /\ Ready(x) /\ buf'[x].blockno = buf[x].blockno
                           /\ buf'[x].data = buf[x].data
                        \/ buf'[x].data = disk[buf'[x].blockno],
         ide' = ide \/ ide'.st # "done"
  PROVE  Coherent'
<1>1. \A x \in Buf : Ready(x)' => buf'[x].data = disk'[buf'[x].blockno]
  BY ZenonT(30) DEF Coherent
<1>2. ide'.st = "done" /\ ide'.write => disk'[ide'.blockno] = ide'.data
  BY ZenonT(30) DEF Coherent
<1> QED
  BY <1>1, <1>2, ZenonT(30) DEF Coherent, Ready

\* The command that the controller works on.
LEMMA Command ==
  ASSUME IInv, ide # Idle
  PROVE  /\ idequeue # <<>> /\ Head(idequeue) \in Buf
         /\ \E p \in Proc : pc[p] = "asleep" /\ b[p] = Head(idequeue)
         /\ ide.blockno = buf[Head(idequeue)].blockno /\ ide.blockno \in Block
         /\ ide.write = buf[Head(idequeue)].dirty /\ ide.data = buf[Head(idequeue)].data
<1>1. idequeue # <<>> /\ idequeue \in Seq(Buf)
  BY Types, ZenonT(30) DEF IInv, CommandInv
<1>2. Head(idequeue) \in Buf /\ 1 \in DOMAIN idequeue /\ idequeue[1] = Head(idequeue)
  BY <1>1, HeadOfQueue, ZenonT(30)
<1>3. \E p \in Proc : pc[p] = "asleep" /\ b[p] = Head(idequeue)
  <2>1. \A i \in DOMAIN idequeue : \E p \in Proc : pc[p] = "asleep" /\ b[p] = idequeue[i]
    BY ZenonT(30) DEF IInv, QueueInv
  <2> QED
    BY <1>2, <2>1, ZenonT(30)
<1>4. ide.blockno \in Block
  BY DEF IInv, TypeOK
<1> QED
  BY <1>1, <1>2, <1>3, <1>4, ZenonT(30) DEF IInv, CommandInv

LEMMA SameCoherent ==
  ASSUME Coherent, Same, disk' = disk, ide' = ide
  PROVE  Coherent'
<1>1. \A x \in Buf : Ready(x)' <=> Ready(x)
  BY ZenonT(30) DEF Same, Ready
<1> QED
  BY <1>1, CoherentFrame, ZenonT(30) DEF Same

\* A write command of the controller, or of memide.c, changes the disk under
\* no clean buffer.
LEMMA WrittenCoherent ==
  ASSUME IInv, Coherent, NEW x \in Buf, NEW k \in Block, buf[x].blockno = k,
         \A j \in Block : j # k => disk'[j] = disk[j],
         \A y \in Buf : y # x => buf'[y] = buf[y],
         Ready(x)' => buf'[x].data = disk'[buf'[x].blockno],
         ide'.st = "done" /\ ide'.write => disk'[ide'.blockno] = ide'.data
  PROVE  Coherent'
<1>1. \A y \in Buf : y # x /\ Ready(y) => buf[y].blockno \in Block /\ buf[y].blockno # k
  <2>1. \A y \in Buf : Ready(y) => buf[y].blockno # None
    BY ZenonT(30) DEF IInv, FlagInv, Ready
  <2>2. \A y \in Buf : buf[y].blockno \in Block \cup {None}
    BY Types, Fields, ZenonT(30)
  <2> QED
    BY <2>1, <2>2, ZenonT(30) DEF IInv, BufInv
<1>2. \A y \in Buf : y # x /\ Ready(y)' => buf'[y].data = disk'[buf'[y].blockno]
  <2>1. \A y \in Buf : y # x => (Ready(y)' <=> Ready(y))
    BY ZenonT(30) DEF Ready
  <2> QED
    BY <1>1, <2>1 DEF Coherent
<1> QED
  BY <1>2 DEF Coherent, Ready

LEMMA NextCoherent ==
  ASSUME ErrorFree, IInv, Coherent, [Next]_vars
  PROVE  Coherent'
<1>1. ASSUME NEW p \in Proc, NEW k \in Block, bget(p, k)
      PROVE  Coherent'
  <2>1. disk' = disk /\ ide' = ide
    BY <1>1, ZenonT(30) DEF bget
  <2>2. ASSUME NEW x \in Buf, Recycled(x, k)
        PROVE  Coherent'
    <3>1. ~Ready(x)' /\ \A y \in Buf : y # x => (Ready(y)' <=> Ready(y)) /\ buf'[y] = buf[y]
      BY <2>2, ZenonT(30) DEF Recycled, Ready
    <3> QED
      BY <2>1, <3>1, CoherentFrame, ZenonT(30)
  <2> QED
    BY <1>1, <2>1, <2>2, BgetStep, SameCoherent, ZenonT(30)
<1>2. ASSUME NEW p \in Proc, NEW v \in Val, bwrite(p, v) \/ log_write(p, v)
      PROVE  Coherent'
  <2>1. disk' = disk /\ ide' = ide
    BY <1>2, ZenonT(30) DEF bwrite, log_write
  <2>2. PICK x \in Buf : b[p] = x
    BY <1>2, HasBuffer, ZenonT(30) DEF bwrite, log_write
  <2>3. ~Ready(x)'
    <3>1. buf \in [Buf -> Buffer] /\ buf[x] \in Buffer
      BY <2>2, Types
    <3>2. buf'[x].dirty
      <4>1. pc[p] = "has" /\ buf[x].lock = p
        BY <1>2, <2>2, HasLock, ZenonT(30) DEF bwrite, log_write
      <4> QED
        BY <1>2, <2>2, <3>1, <4>1 DEF bwrite, log_write, Buffer
    <3> QED
      BY <3>2 DEF Ready
  <2>4. \A y \in Buf : y # x => (Ready(y)' <=> Ready(y)) /\ buf'[y] = buf[y]
    <3>1. Stored(x, v)
      BY <1>2, <2>2, WriteStep, ZenonT(30)
    <3> QED
      BY <3>1, ZenonT(30) DEF Stored, Ready
  <2> QED
    BY <2>1, <2>3, <2>4, CoherentFrame, ZenonT(30)
<1>3. ASSUME NEW p \in Proc, acquiresleep(p) \/ releasesleep(p) \/ brelse(p)
      PROVE  Coherent'
  <2>1. disk' = disk /\ ide' = ide
    BY <1>3, ZenonT(30) DEF acquiresleep, releasesleep, brelse
  <2> QED
    BY <1>3, <2>1, AcquireStep, ReleaseStep, BrelseStep, SameCoherent, ZenonT(30)
<1>4. ASSUME NEW p \in Proc, iderw(p) \/ IderwDone(p)
      PROVE  Coherent'
  <2>1. disk' = disk /\ buf' = buf
    BY <1>4, ZenonT(30) DEF iderw, IderwDone
  <2>2. ide' = ide \/ ide'.st # "done"
    BY <1>4 DEF iderw, IderwDone, idestart
  <2> QED
    BY <2>1, <2>2, CoherentFrame, ZenonT(30) DEF Ready
<1>5. ASSUME NEW p \in Proc, MemIderw(p)
      PROVE  Coherent'
  <2>1. PICK x \in Buf : b[p] = x /\ want[p] \in Block /\ buf[x].blockno = want[p]
    BY <1>5, HasBuffer, ZenonT(30) DEF MemIderw
  <2>2. Stored(x, disk'[want[p]])
    BY <1>5, <2>1, MemIderwStep, ZenonT(30)
  <2>3. ide'.st # "done"
    <3>1. ide = Idle /\ ide' = ide
      BY <1>5, ZenonT(30) DEF MemIderw, IInv, QueueInv, CommandInv
    <3> QED
      BY <3>1 DEF Idle
  <2>4. \A j \in Block : j # want[p] => disk'[j] = disk[j]
    BY <1>5, <2>1, Types, ZenonT(30) DEF MemIderw
  <2> QED
    BY <2>1, <2>2, <2>3, <2>4, WrittenCoherent, ZenonT(30) DEF Stored
<1>6. CASE Finish
  <2>1. /\ ide.st = "busy" /\ buf' = buf /\ ide' = [ide EXCEPT !.st = "done"]
        /\ disk' = IF ide.write THEN [disk EXCEPT ![ide.blockno] = ide.data] ELSE disk
    BY <1>6, ZenonT(30) DEF Finish
  <2>2. ide # Idle
    BY <2>1 DEF Idle
  <2>3. PICK x \in Buf : x = Head(idequeue)
    BY <2>2, Command, ZenonT(30)
  <2>4. ide \in [st : {"busy", "done"}, blockno : Block, write : BOOLEAN, data : Val]
    BY <2>2 DEF IInv, TypeOK
  <2>5. /\ ide'.write = ide.write /\ ide'.blockno = ide.blockno /\ ide'.data = ide.data
        /\ ide.blockno \in Block
    BY <2>1, <2>4
  <2>6. \A j \in Block : j # ide.blockno => disk'[j] = disk[j]
    BY <2>1, <2>5, Types, ZenonT(30)
  <2>7. ide'.write => disk'[ide'.blockno] = ide'.data
    BY <2>1, <2>5, Types, ZenonT(30)
  <2>8. ~Ready(x)'
    BY <2>1, <2>2, <2>3, Command, ZenonT(30) DEF Ready, IInv, FlagInv
  <2>9. buf[x].blockno = ide.blockno
    BY <2>2, <2>3, Command, ZenonT(30)
  <2> QED
    BY <2>1, <2>5, <2>6, <2>7, <2>8, <2>9, WrittenCoherent, ZenonT(30)
<1>7. CASE ideintr /\ ide.st = "done" /\ idequeue # <<>>
  <2>1. PICK p \in Proc, v \in Val :
          /\ b[p] = Head(idequeue) /\ Stored(b[p], v)
          /\ \E err \in Errors : v = IF buf[b[p]].dirty \/ err THEN buf[b[p]].data
                                     ELSE disk[ide.blockno]
    BY <1>7, IdeintrStep, ZenonT(30)
  <2>2. ide # Idle
    BY <1>7 DEF Idle
  <2>3. /\ b[p] \in Buf /\ ide.blockno = buf[b[p]].blockno
        /\ ide.write = buf[b[p]].dirty /\ ide.data = buf[b[p]].data
    BY <2>1, <2>2, Command, ZenonT(30)
  <2>4. v = disk[ide.blockno]
    BY <1>7, <2>1, <2>3, ZenonT(30) DEF ErrorFree, Coherent
  <2>5. disk' = disk /\ ide'.st # "done"
    <3>1. disk' = disk /\ (ide' = Idle \/ ide' = idestart(Head(idequeue')))
      BY <1>7, ZenonT(30) DEF ideintr, vars
    <3> QED
      BY <3>1 DEF Idle, idestart
  <2>6. \A y \in Buf : y # b[p] => (Ready(y)' <=> Ready(y)) /\ buf'[y] = buf[y]
    BY <2>1, ZenonT(30) DEF Stored, Ready
  <2>7. buf'[b[p]].data = disk[buf'[b[p]].blockno]
    BY <2>1, <2>3, <2>4, ZenonT(30) DEF Stored
  <2> QED
    BY <2>5, <2>6, <2>7, CoherentFrame, ZenonT(30)
<1>8. CASE UNCHANGED vars
  BY <1>8, SameCoherent, ZenonT(30) DEF vars, Same
<1> QED
  BY <1>1, <1>2, <1>3, <1>4, <1>5, <1>6, <1>7, <1>8, ZenonT(30) DEF Next, ideintr

-----------------------------------------------------------------------------
(* What bread returns, and who holds which block *)

\* What bread returns, in any state of the buffers f and the disk d ...
Shown(f, d, k) ==
  LET S == {x \in Buf : f[x].blockno = k /\ f[x].valid} IN
  IF S = {} THEN d[k] ELSE f[CHOOSE x \in S : TRUE].data

LEMMA ViewShown ==
  /\ View = [k \in Block |-> Shown(buf, disk, k)]
  /\ View' = [k \in Block |-> Shown(buf', disk', k)]
BY DEF View, Shown

\* ... is what the block's buffer has, if it is valid, or else the disk.
LEMMA ShownIs ==
  ASSUME NEW f, NEW d, NEW k \in Block,
         \A x, y \in Buf : f[x].blockno = f[y].blockno => x = y \/ f[x].blockno = None
  PROVE  /\ \A x \in Buf : f[x].blockno = k => 
                Shown(f, d, k) = IF f[x].valid THEN f[x].data ELSE d[k]
         /\ (\A x \in Buf : f[x].blockno # k) => Shown(f, d, k) = d[k]
<1> DEFINE S == {x \in Buf : f[x].blockno = k /\ f[x].valid}
<1>1. Shown(f, d, k) = IF S = {} THEN d[k] ELSE f[CHOOSE x \in S : TRUE].data
  BY DEF Shown
<1>2. \A x \in Buf : f[x].blockno = k => S = IF f[x].valid THEN {x} ELSE {}
  BY NoneAssumption
<1>3. (\A x \in Buf : f[x].blockno # k) => S = {}
  OBVIOUS
<1>4. \A x : (CHOOSE z \in {x} : TRUE) = x
  OBVIOUS
<1> HIDE DEF S
<1> QED
  BY <1>1, <1>2, <1>3, <1>4

LEMMA ViewIs ==
  ASSUME IInv, NEW k \in Block
  PROVE  /\ \A x \in Buf : buf[x].blockno = k =>
                View[k] = IF buf[x].valid THEN buf[x].data ELSE disk[k]
         /\ (\A x \in Buf : buf[x].blockno # k) => View[k] = disk[k]
<1>1. \A x, y \in Buf : buf[x].blockno = buf[y].blockno => x = y \/ buf[x].blockno = None
  BY ZenonT(30) DEF IInv, BufInv
<1>2. View[k] = Shown(buf, disk, k)
  BY ViewShown
<1> QED
  BY <1>1, <1>2, ShownIs, ZenonT(30)

LEMMA NextViewIs ==
  ASSUME IInv', NEW k \in Block
  PROVE  /\ \A x \in Buf : buf'[x].blockno = k =>
                View'[k] = IF buf'[x].valid THEN buf'[x].data ELSE disk'[k]
         /\ (\A x \in Buf : buf'[x].blockno # k) => View'[k] = disk'[k]
<1>1. \A x, y \in Buf : buf'[x].blockno = buf'[y].blockno => x = y \/ buf'[x].blockno = None
  BY ZenonT(30) DEF IInv, BufInv
<1>2. View'[k] = Shown(buf', disk', k)
  BY ViewShown
<1> QED
  BY <1>1, <1>2, ShownIs, ZenonT(30)

LEMMA SameView ==
  ASSUME IInv, IInv', Same, disk' = disk
  PROVE  View' = View
<1>1. \A k \in Block : View'[k] = View[k]
  BY ViewIs, NextViewIs DEF Same
<1> QED
  BY <1>1, ViewShown

\* One block's buffer is filled; on the disk no other block changes.
Elsewhere(k) == \A j \in Block : j # k => disk'[j] = disk[j]

LEMMA StoredView ==
  ASSUME IInv, IInv', NEW x \in Buf, NEW k \in Block, buf[x].blockno = k,
         NEW v, Stored(x, v), Elsewhere(k)
  PROVE  View' = [View EXCEPT ![k] = v]
<1>1. View'[k] = v
  <2>1. buf'[x].blockno = k /\ buf'[x].valid /\ buf'[x].data = v
    BY ZenonT(30) DEF Stored
  <2> QED
    BY <2>1, NextViewIs, ZenonT(30)
<1>2. ASSUME NEW j \in Block, j # k
      PROVE  View'[j] = View[j]
  <2>1. CASE \A y \in Buf : buf[y].blockno # j
    <3>1. \A y \in Buf : buf'[y].blockno # j
      BY <1>2, <2>1 DEF Stored
    <3> QED
      BY <1>2, <2>1, <3>1, ViewIs, NextViewIs, ZenonT(30) DEF Elsewhere
  <2>2. CASE \E y \in Buf : buf[y].blockno = j
    <3>1. PICK y \in Buf : buf[y].blockno = j /\ buf'[y] = buf[y]
      BY <1>2, <2>2 DEF Stored
    <3>2. View[j] = IF buf[y].valid THEN buf[y].data ELSE disk[j]
      BY <3>1, ViewIs, ZenonT(30)
    <3>3. View'[j] = IF buf'[y].valid THEN buf'[y].data ELSE disk'[j]
      BY <3>1, NextViewIs, ZenonT(30)
    <3> QED
      BY <1>2, <3>1, <3>2, <3>3, ZenonT(30) DEF Elsewhere
  <2> QED
    BY <2>1, <2>2
<1>3. View = [j \in Block |-> View[j]] /\ View' = [j \in Block |-> View'[j]]
  BY ViewShown, ZenonT(30)
<1> QED
  BY <1>1, <1>2, <1>3

\* Recycling a clean buffer loses nothing: the disk has its data.
LEMMA RecycledView ==
  ASSUME IInv, IInv', Coherent, NEW x \in Buf, NEW k \in Block, ~buf[x].dirty,
         Recycled(x, k), disk' = disk
  PROVE  View' = View
<1>1. ASSUME NEW j \in Block
      PROVE  View'[j] = View[j]
  <2>1. CASE j = k
    BY <2>1, ViewIs, NextViewIs, ZenonT(30) DEF Recycled
  <2>2. CASE j # k /\ buf[x].blockno = j
    <3>1. View[j] = disk[j]
      BY <2>2, ViewIs, ZenonT(30) DEF Coherent, Ready
    <3>2. \A y \in Buf : buf'[y].blockno # j
      BY <2>2, NoneAssumption, ZenonT(30) DEF Recycled, IInv, BufInv
    <3> QED
      BY <3>1, <3>2, NextViewIs, ZenonT(30)
  <2>3. CASE j # k /\ \E y \in Buf \ {x} : buf[y].blockno = j
    <3>1. PICK y \in Buf : buf[y].blockno = j /\ buf'[y] = buf[y]
      BY <2>3, ZenonT(30) DEF Recycled
    <3>2. View[j] = IF buf[y].valid THEN buf[y].data ELSE disk[j]
      BY <3>1, ViewIs, ZenonT(30)
    <3>3. View'[j] = IF buf'[y].valid THEN buf'[y].data ELSE disk'[j]
      BY <3>1, NextViewIs, ZenonT(30)
    <3> QED
      BY <3>1, <3>2, <3>3, ZenonT(30)
  <2>4. CASE j # k /\ \A y \in Buf : buf[y].blockno # j
    <3>1. \A y \in Buf : buf'[y].blockno # j
      BY <2>4 DEF Recycled
    <3> QED
      BY <2>4, <3>1, ViewIs, NextViewIs, ZenonT(30)
  <2> QED
    BY <2>1, <2>2, <2>3, <2>4
<1> QED
  BY <1>1, ViewShown

\* A process holds its block from the moment its buffer is locked and valid.
LEMMA HoldingIs ==
  ASSUME IInv
  PROVE  \A q \in Proc : Holding[q] = IF pc[q] \in Owning /\ buf[b[q]].valid THEN want[q]
                                      ELSE None
<1>1. \A q \in Proc : pc[q] = "has" => buf[b[q]].valid
  BY DEF IInv, FlagInv
<1> QED
  BY <1>1 DEF Holding, Owning

LEMMA NextHoldingIs ==
  ASSUME IInv'
  PROVE  \A q \in Proc : Holding'[q] = IF pc'[q] \in Owning /\ buf'[b'[q]].valid
                                       THEN want'[q] ELSE None
<1>1. \A q \in Proc : pc'[q] = "has" => buf'[b'[q]].valid
  BY DEF IInv, FlagInv
<1> QED
  BY <1>1 DEF Holding, Owning

\* A step of p.
Others(p) == \A q \in Proc : q # p => pc'[q] = pc[q] /\ b'[q] = b[q] /\ want'[q] = want[q]

LEMMA OthersHold ==
  ASSUME IInv, IInv', NEW p \in Proc, Others(p),
         \A q \in Proc : q # p /\ pc[q] \in Owning => buf'[b[q]].valid = buf[b[q]].valid
  PROVE  \A q \in Proc : q # p => Holding'[q] = Holding[q]
BY HoldingIs, NextHoldingIs DEF Others

LEMMA StoreStutter ==
  ASSUME View' = View, \A q \in Proc : Holding'[q] = Holding[q]
  PROVE  [Store!Next]_(Store!vars)
<1>1. Holding' = Holding
  BY DEF Holding
<1> QED
  BY <1>1 DEF Store!vars

LEMMA StoreGet ==
  ASSUME IInv, NEW p \in Proc, NEW x \in Buf, b[p] = x, pc[p] \notin {"out", "no buffers"},
         Holding[p] = None, Holding'[p] = want[p], View' = View,
         \A q \in Proc : q # p => Holding'[q] = Holding[q],
         \A q \in Proc : q # p /\ pc[q] \in Owning => b[q] # x
  PROVE  Store!Next
<1>1. want[p] \in Block /\ buf[x].blockno = want[p]
  BY HasBuffer, ZenonT(30)
<1>2. \A q \in Proc : Holding[q] # want[p]
  <2>1. \A q \in Proc : q # p /\ pc[q] \in Owning =>
           b[q] \in Buf /\ b[q] # x /\ buf[b[q]].blockno = want[q]
    BY OwnersHaveBuffers, NoneAssumption, ZenonT(30) DEF IInv, BufInv
  <2>2. \A y \in Buf : y # x => buf[y].blockno # want[p]
    BY <1>1, NoneAssumption, ZenonT(30) DEF IInv, BufInv
  <2>3. \A q \in Proc : q # p /\ pc[q] \in Owning => want[q] # want[p]
    BY <2>1, <2>2, ZenonT(30)
  <2> QED
    BY <1>1, <2>3, HoldingIs, NoneAssumption, ZenonT(30)
<1>3. Holding' = [Holding EXCEPT ![p] = want[p]]
  BY ZenonT(30) DEF Holding
<1>4. Store!Get(p, want[p])
  BY <1>2, <1>3, ZenonT(30) DEF Store!Get
<1> QED
  BY <1>1, <1>4, ZenonT(30) DEF Store!Next

-----------------------------------------------------------------------------
(* The implementation *)

\* Every step is one of BlockStore's, or changes nothing there.
LEMMA NextRefines ==
  ASSUME ErrorFree, IInv, IInv', Coherent, [Next]_vars
  PROVE  [Store!Next]_(Store!vars)
<1>1. ASSUME NEW p \in Proc, NEW k \in Block, bget(p, k)
      PROVE  [Store!Next]_(Store!vars)
  <2>1. disk' = disk /\ pc[p] \notin Owning /\ pc'[p] \notin Owning /\ Others(p)
    <3>1. /\ want \in [Proc -> Block \cup {None}] /\ b \in [Proc -> Buf \cup {None}]
          /\ pc \in [Proc -> Place]
      BY Types
    <3> QED
      BY <1>1, <3>1, ZenonT(30) DEF bget, Owning, Others
  <2>2. Holding[p] = None /\ Holding'[p] = None
    BY <2>1, HoldingIs, NextHoldingIs
  <2>3. CASE Same
    <3>1. \A q \in Proc : pc[q] \in Owning => buf'[b[q]].valid = buf[b[q]].valid
      BY <2>3, OwnersHaveBuffers, ZenonT(30) DEF Same
    <3>2. \A q \in Proc : q # p => Holding'[q] = Holding[q]
      BY <2>1, <3>1, OthersHold, ZenonT(30)
    <3> QED
      BY <2>1, <2>2, <2>3, <3>2, SameView, StoreStutter, ZenonT(30)
  <2>4. ASSUME NEW x \in Buf, ~buf[x].dirty, Recycled(x, k)
        PROVE  [Store!Next]_(Store!vars)
    <3>1. \A q \in Proc : b[q] # x
      BY <2>4, Unreferenced, ZenonT(30) DEF Recycled
    <3>2. \A q \in Proc : pc[q] \in Owning => buf'[b[q]].valid = buf[b[q]].valid
      BY <2>4, <3>1, OwnersHaveBuffers, ZenonT(30) DEF Recycled
    <3>3. \A q \in Proc : q # p => Holding'[q] = Holding[q]
      BY <2>1, <3>2, OthersHold, ZenonT(30)
    <3>4. View' = View
      BY <2>1, <2>4, RecycledView, ZenonT(30)
    <3> QED
      BY <2>2, <3>3, <3>4, StoreStutter, ZenonT(30)
  <2> QED
    BY <1>1, <2>3, <2>4, BgetStep, ZenonT(30)
<1>2. ASSUME NEW p \in Proc, NEW v \in Val, bwrite(p, v) \/ log_write(p, v)
      PROVE  [Store!Next]_(Store!vars)
  <2>1. PICK x \in Buf : b[p] = x /\ want[p] \in Block /\ buf[x].blockno = want[p]
    BY <1>2, HasBuffer, ZenonT(30) DEF bwrite, log_write
  <2>2. Stored(x, v) /\ disk' = disk /\ b' = b /\ want' = want
    BY <1>2, <2>1, WriteStep, ZenonT(30) DEF bwrite, log_write, procvars
  <2>3. /\ pc[p] \in Owning /\ pc'[p] \in Owning /\ Others(p)
    <3>1. pc \in [Proc -> Place]
      BY Types
    <3>2. pc[p] = "has" /\ buf[b[p]].lock = p
      BY <1>2, HasLock, ZenonT(30) DEF bwrite, log_write
    <3> QED
      BY <1>2, <3>1, <3>2 DEF bwrite, log_write, procvars, Owning, Others
  <2>4. buf[x].valid
    BY <1>2, <2>1, ZenonT(30) DEF bwrite, log_write, IInv, FlagInv
  <2>5. \A q \in Proc : pc[q] \in Owning => buf'[b[q]].valid = buf[b[q]].valid
    <3>1. \A y \in Buf : y # x => buf'[y].valid = buf[y].valid
      BY <2>2, ZenonT(30) DEF Stored
    <3>2. \A q \in Proc : q # p /\ pc[q] \in Owning => b[q] \in Buf /\ b[q] # x
      BY <2>1, <2>3, Owner, OwnersHaveBuffers, ZenonT(30)
    <3>3. buf'[x].valid = buf[x].valid
      BY <2>2, <2>4 DEF Stored
    <3> QED
      BY <2>1, <3>1, <3>2, <3>3, ZenonT(30)
  <2>6. View' = [View EXCEPT ![want[p]] = v]
    BY <2>1, <2>2, StoredView, ZenonT(30) DEF Elsewhere
  <2>7. Holding[p] = want[p] /\ Holding'[p] = want[p]
    <3>1. buf'[b'[p]].valid /\ want'[p] = want[p]
      BY <2>1, <2>2, ZenonT(30) DEF Stored
    <3> QED
      BY <2>1, <2>3, <2>4, <3>1, HoldingIs, NextHoldingIs, ZenonT(30)
  <2>8. \A q \in Proc : q # p => Holding'[q] = Holding[q]
    BY <2>3, <2>5, OthersHold, ZenonT(30)
  <2>9. Holding' = Holding
    BY <2>7, <2>8 DEF Holding
  <2>10. Store!Put(p, v)
    BY <2>1, <2>6, <2>7, <2>9, NoneAssumption, ZenonT(30) DEF Store!Put
  <2> QED
    BY <2>10, ZenonT(30) DEF Store!Next
<1>3. ASSUME NEW p \in Proc, acquiresleep(p)
      PROVE  [Store!Next]_(Store!vars)
  <2>1. PICK x \in Buf : b[p] = x
    BY <1>3, HasBuffer, ZenonT(30) DEF acquiresleep
  <2>2. /\ pc[p] = "acquiresleep" /\ buf[x].lock = None /\ disk' = disk
        /\ b' = b /\ want' = want
        /\ pc' = [pc EXCEPT ![p] = IF buf[x].valid THEN "has" ELSE "iderw"]
    BY <1>3, <2>1, ZenonT(30) DEF acquiresleep
  <2>3. Same /\ View' = View
    BY <1>3, <2>2, AcquireStep, SameView, ZenonT(30)
  <2>4. Others(p) /\ pc'[p] = IF buf[x].valid THEN "has" ELSE "iderw"
    BY <2>2, Types DEF Others
  <2>5. \A q \in Proc : pc[q] \in Owning => buf'[b[q]].valid = buf[b[q]].valid
    BY <2>3, OwnersHaveBuffers, ZenonT(30) DEF Same
  <2>6. \A q \in Proc : q # p => Holding'[q] = Holding[q]
    BY <2>4, <2>5, OthersHold, ZenonT(30)
  <2>7. Holding[p] = None
    BY <2>2, HoldingIs DEF Owning
  <2>8. Holding'[p] = IF buf[x].valid THEN want[p] ELSE None
    <3>1. buf'[b'[p]].valid = buf[x].valid /\ want'[p] = want[p] /\ pc'[p] \in Owning
      BY <2>1, <2>2, <2>3, <2>4 DEF Same, Owning
    <3> QED
      BY <3>1, NextHoldingIs, ZenonT(30)
  <2>9. \A q \in Proc : q # p /\ pc[q] \in Owning => b[q] # x
    BY <2>2, OwnersHaveBuffers, NoneAssumption
  <2>10. CASE buf[x].valid
    BY <2>1, <2>2, <2>3, <2>6, <2>7, <2>8, <2>9, <2>10, StoreGet, ZenonT(30)
  <2>11. CASE ~buf[x].valid
    BY <2>3, <2>6, <2>7, <2>8, <2>11, StoreStutter, ZenonT(30)
  <2> QED
    BY <2>10, <2>11
<1>4. ASSUME NEW p \in Proc, releasesleep(p)
      PROVE  [Store!Next]_(Store!vars)
  <2>1. /\ pc[p] = "has" /\ disk' = disk /\ b' = b /\ want' = want
        /\ pc' = [pc EXCEPT ![p] = "brelse"]
    BY <1>4, HasLock, ZenonT(30) DEF releasesleep
  <2>2. Same /\ View' = View
    BY <1>4, <2>1, ReleaseStep, SameView, ZenonT(30)
  <2>3. Others(p) /\ pc'[p] = "brelse"
    BY <2>1, Types DEF Others
  <2>4. \A q \in Proc : pc[q] \in Owning => buf'[b[q]].valid = buf[b[q]].valid
    BY <2>2, OwnersHaveBuffers, ZenonT(30) DEF Same
  <2>5. \A q \in Proc : q # p => Holding'[q] = Holding[q]
    BY <2>3, <2>4, OthersHold, ZenonT(30)
  <2>6. Holding[p] # None
    <3>1. want[p] \in Block
      BY <2>1, HasBuffer, ZenonT(30)
    <3> QED
      BY <2>1, <3>1, NoneAssumption DEF Holding
  <2>7. Holding'[p] = None
    BY <2>3, NextHoldingIs DEF Owning
  <2>8. Holding' = [Holding EXCEPT ![p] = None]
    BY <2>5, <2>7, ZenonT(30) DEF Holding
  <2>9. Store!Release(p)
    BY <2>2, <2>6, <2>8, ZenonT(30) DEF Store!Release
  <2> QED
    BY <2>9, ZenonT(30) DEF Store!Next
<1>5. ASSUME NEW p \in Proc, brelse(p)
      PROVE  [Store!Next]_(Store!vars)
  <2>1. /\ disk' = disk /\ pc[p] = "brelse" /\ pc' = [pc EXCEPT ![p] = "out"]
        /\ want' = [want EXCEPT ![p] = None] /\ b' = [b EXCEPT ![p] = None]
    BY <1>5, ZenonT(30) DEF brelse
  <2>2. Same /\ View' = View
    BY <1>5, <2>1, BrelseStep, SameView, ZenonT(30)
  <2>3. Others(p) /\ pc'[p] = "out"
    <3>1. /\ want \in [Proc -> Block \cup {None}] /\ b \in [Proc -> Buf \cup {None}]
          /\ pc \in [Proc -> Place]
      BY Types
    <3> QED
      BY <2>1, <3>1, ZenonT(30) DEF Others
  <2>4. \A q \in Proc : pc[q] \in Owning => buf'[b[q]].valid = buf[b[q]].valid
    BY <2>2, OwnersHaveBuffers, ZenonT(30) DEF Same
  <2>5. \A q \in Proc : q # p => Holding'[q] = Holding[q]
    BY <2>3, <2>4, OthersHold, ZenonT(30)
  <2>6. Holding[p] = None /\ Holding'[p] = None
    BY <2>1, <2>3, HoldingIs, NextHoldingIs DEF Owning
  <2> QED
    BY <2>2, <2>5, <2>6, StoreStutter, ZenonT(30)
<1>6. ASSUME NEW p \in Proc, iderw(p) \/ IderwDone(p)
      PROVE  [Store!Next]_(Store!vars)
  <2>1. /\ UNCHANGED <<buf, disk, b, want>>
        /\ pc[p] \in {"iderw", "woken"} /\ pc' = [pc EXCEPT ![p] = pc'[p]]
        /\ pc'[p] \in {"panic", "asleep", "has"}
    BY <1>6, Types DEF iderw, IderwDone
  <2>2. View' = View
    BY <2>1 DEF View
  <2>3. pc'[p] # "panic"
    BY ZenonT(30) DEF IInv, NoPanic
  <2>4. pc[p] \in Owning /\ pc'[p] \in Owning
    BY <2>1, <2>3 DEF Owning
  <2>5. \A q \in Proc : q # p => pc'[q] = pc[q]
    BY <2>1, Types
  <2>6. \A q \in Proc : Holding'[q] = Holding[q]
    BY <2>1, <2>4, <2>5, HoldingIs, NextHoldingIs
  <2> QED
    BY <2>2, <2>6, StoreStutter, ZenonT(30)
<1>7. ASSUME NEW p \in Proc, NEW v \in Val, NEW l \in {"woken", "has"},
             pc[p] \in {"iderw", "asleep"}, Goes(p, l), b' = b, want' = want,
             Stored(b[p], v), Elsewhere(want[p]), v = View[want[p]]
      PROVE  [Store!Next]_(Store!vars)
  <2>1. PICK x \in Buf : b[p] = x /\ want[p] \in Block /\ buf[x].blockno = want[p]
    BY <1>7, HasBuffer, ZenonT(30)
  <2>2. View' = View
    <3>1. Stored(x, v) /\ Elsewhere(want[p])
      BY <1>7, <2>1, ZenonT(30)
    <3>2. View' = [View EXCEPT ![want[p]] = v]
      BY <2>1, <3>1, StoredView, ZenonT(30)
    <3> QED
      BY <1>7, <2>1, <3>2, ViewShown
  <2>3. Others(p) /\ pc[p] \in Owning /\ pc'[p] \in Owning
    BY <1>7 DEF Others, Goes, Owning
  <2>4. \A q \in Proc : q # p /\ pc[q] \in Owning => b[q] \in Buf /\ b[q] # x
    BY <2>1, <2>3, Owner, OwnersHaveBuffers, ZenonT(30)
  <2>5. \A q \in Proc : q # p /\ pc[q] \in Owning => buf'[b[q]].valid = buf[b[q]].valid
    BY <1>7, <2>1, <2>4, ZenonT(30) DEF Stored
  <2>6. \A q \in Proc : q # p => Holding'[q] = Holding[q]
    BY <2>3, <2>5, OthersHold, ZenonT(30)
  <2>7. Holding'[p] = want[p]
    <3>1. buf'[b'[p]].valid /\ want'[p] = want[p]
      BY <1>7, ZenonT(30) DEF Stored
    <3> QED
      BY <2>3, <3>1, NextHoldingIs, ZenonT(30)
  <2>8. Holding[p] = IF buf[x].valid THEN want[p] ELSE None
    BY <2>1, <2>3, HoldingIs, ZenonT(30)
  <2>9. CASE buf[x].valid
    BY <2>2, <2>6, <2>7, <2>8, <2>9, StoreStutter, ZenonT(30)
  <2>10. CASE ~buf[x].valid
    <3>1. pc[p] \notin {"out", "no buffers"} /\ Holding[p] = None
      BY <1>7, <2>8, <2>10, ZenonT(30)
    <3>2. \A q \in Proc : q # p /\ pc[q] \in Owning => b[q] # x
      BY <2>4, ZenonT(30)
    <3>3. b[p] = x
      BY <2>1
    <3> QED
      BY <2>2, <2>6, <2>7, <3>1, <3>2, <3>3, StoreGet, ZenonT(30)
  <2> QED
    BY <2>9, <2>10
<1>8. ASSUME NEW p \in Proc, MemIderw(p)
      PROVE  [Store!Next]_(Store!vars)
  <2>1. PICK x \in Buf : b[p] = x /\ want[p] \in Block /\ buf[x].blockno = want[p]
    BY <1>8, HasBuffer, ZenonT(30) DEF MemIderw
  <2>2. pc[p] = "iderw" /\ buf[x].lock = p /\ ~Ready(x)
    <3>1. pc[p] = "iderw"
      BY <1>8, ZenonT(30) DEF MemIderw
    <3> QED
      BY <2>1, <3>1, Owner, ZenonT(30) DEF IInv, FlagInv, Owning
  <2>3. /\ b' = b /\ want' = want /\ pc' = [pc EXCEPT ![p] = "has"]
        /\ disk' = IF buf[x].dirty THEN [disk EXCEPT ![want[p]] = buf[x].data] ELSE disk
    BY <1>8, <2>1, <2>2, ZenonT(30) DEF MemIderw
  <2>4. Goes(p, "has")
    BY <2>3, Types, ZenonT(30) DEF Goes
  <2>5. Elsewhere(want[p])
    BY <2>1, <2>3, Types, ZenonT(30) DEF Elsewhere
  <2>6. disk'[want[p]] = View[want[p]]
    <3>1. View[want[p]] = IF buf[x].valid THEN buf[x].data ELSE disk[want[p]]
      BY <2>1, ViewIs, ZenonT(30)
    <3>2. buf[x].valid <=> buf[x].dirty
      BY <2>2, ZenonT(30) DEF Ready, IInv, FlagInv
    <3>3. disk'[want[p]] = IF buf[x].dirty THEN buf[x].data ELSE disk[want[p]]
      BY <2>1, <2>3, Types, ZenonT(30)
    <3> QED
      BY <3>1, <3>2, <3>3
  <2>7. Stored(b[p], disk'[want[p]])
    BY <1>8, MemIderwStep, ZenonT(30)
  <2>8. disk'[want[p]] \in Val
    BY <2>1, ZenonT(30) DEF IInv, TypeOK
  <2> QED
    BY <1>7, <2>2, <2>3, <2>4, <2>5, <2>6, <2>7, <2>8, ZenonT(30)
<1>9. CASE ideintr /\ ide.st = "done" /\ idequeue # <<>>
  <2>1. PICK p \in Proc, v \in Val :
          /\ pc[p] = "asleep" /\ b[p] = Head(idequeue)
          /\ Goes(p, "woken") /\ Stored(b[p], v)
          /\ \E err \in Errors : v = IF buf[b[p]].dirty \/ err THEN buf[b[p]].data
                                    ELSE disk[ide.blockno]
    BY <1>9, IdeintrStep, ZenonT(30)
  <2>2. PICK x \in Buf : b[p] = x /\ want[p] \in Block /\ buf[x].blockno = want[p]
    BY <2>1, HasBuffer, ZenonT(30)
  <2>3. b' = b /\ want' = want /\ disk' = disk
    BY <1>9, ZenonT(30) DEF ideintr, vars
  <2>4. ide.blockno = want[p]
    <3>1. ide # Idle
      BY <1>9 DEF Idle
    <3> QED
      BY <2>1, <2>2, <3>1, Command, ZenonT(30)
  <2>5. v = View[want[p]]
    <3>1. View[want[p]] = IF buf[x].valid THEN buf[x].data ELSE disk[want[p]]
      BY <2>2, ViewIs, ZenonT(30)
    <3>2. buf[x].valid <=> buf[x].dirty
      BY <2>1, <2>2, ZenonT(30) DEF Ready, IInv, FlagInv
    <3>3. v = IF buf[x].dirty THEN buf[x].data ELSE disk[want[p]]
      BY <2>1, <2>2, <2>4, ZenonT(30) DEF ErrorFree
    <3> QED
      BY <3>1, <3>2, <3>3, ZenonT(30)
  <2> QED
    BY <1>7, <2>1, <2>3, <2>5, ZenonT(30) DEF Elsewhere
<1>10. CASE Finish
  <2>1. /\ ide.st = "busy" /\ UNCHANGED <<buf, pc, b, want>>
        /\ disk' = IF ide.write THEN [disk EXCEPT ![ide.blockno] = ide.data] ELSE disk
    BY <1>10, ZenonT(30) DEF Finish, procvars
  <2>2. ide # Idle
    BY <2>1 DEF Idle
  <2>3. PICK x \in Buf, k \in Block :
          buf[x].blockno = k /\ ide.blockno = k /\ ide.write = buf[x].dirty
    BY <2>2, Command, ZenonT(30)
  <2>4. Holding' = Holding
    BY <2>1 DEF Holding
  <2>5. CASE ide.write
    <3>1. buf[x].valid
      BY <2>3, <2>5, ZenonT(30) DEF IInv, FlagInv
    <3>2. PICK v : v = buf[x].data /\ Stored(x, v)
      BY <2>1, <3>1, ZenonT(30) DEF Stored
    <3>3. Elsewhere(k)
      BY <2>1, <2>3, Types, ZenonT(30) DEF Elsewhere
    <3>a. buf[x].blockno = k
      BY <2>3
    <3>4. View' = [View EXCEPT ![k] = v]
      BY <3>a, <3>2, <3>3, StoredView, ZenonT(30)
    <3>5. View[k] = v
      BY <3>a, <3>1, <3>2, ViewIs, ZenonT(30)
    <3>6. View' = View
      BY <2>3, <3>4, <3>5, ViewShown
    <3> QED
      BY <2>4, <3>6, StoreStutter, ZenonT(30)
  <2>6. CASE ~ide.write
    <3>1. View' = View
      BY <2>1, <2>6 DEF View
    <3> QED
      BY <2>4, <3>1, StoreStutter, ZenonT(30)
  <2> QED
    BY <2>5, <2>6
<1>11. CASE UNCHANGED vars
  <2>1. View' = View /\ Holding' = Holding
    BY <1>11 DEF vars, View, Holding
  <2> QED
    BY <2>1, StoreStutter, ZenonT(30)
<1> QED
  BY <1>1, <1>2, <1>3, <1>4, <1>5, <1>6, <1>8, <1>9, <1>10, <1>11, ZenonT(30)
     DEF Next, ideintr

LEMMA InitRefines ==
  ASSUME Init
  PROVE  Store!Init /\ Coherent
<1>1. IInv
  BY InitInv
<1>2. \A x \in Buf : ~buf[x].valid /\ buf[x].blockno = None
  BY DEF Init
<1>3. \A k \in Block : View[k] = disk[k]
  BY <1>1, <1>2, ViewIs, NoneAssumption
<1>4. View \in [Block -> Val]
  BY <1>1, <1>3, Types, ViewShown
<1>5. Holding = [p \in Proc |-> None]
  BY DEF Init, Holding
<1>6. Coherent
  BY <1>2 DEF Init, Coherent, Ready, Idle
<1> QED
  BY <1>4, <1>5, <1>6, ZenonT(30) DEF Store!Init

\* As long as no disk command fails, bread, bwrite and brelse implement
\* BlockStore with any number of processes, blocks and buffers: a block is in
\* the hands of one process at a time and everybody finds there what was put
\* there last, whatever is cached, recycled or queued for the disk.
THEOREM BlocksRefined == ASSUME ErrorFree PROVE Spec => BlocksSpec
<1>1. Init => Store!Init /\ Coherent
  BY InitRefines
<1>2. IInv /\ Coherent /\ [Next]_vars => Coherent'
  BY NextCoherent
<1>3. IInv /\ IInv' /\ Coherent /\ [Next]_vars => [Store!Next]_(Store!vars)
  BY NextRefines
<1> QED
  BY <1>1, <1>2, <1>3, DiskInvariant, PTL DEF Spec, BlocksSpec, Store!Spec
=============================================================================
