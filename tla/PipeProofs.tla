----------------------------- MODULE PipeProofs -----------------------------
(***************************************************************************)
(* Pipe keeps its invariant and implements Stream, for any number of       *)
(* processes and bytes, and any PIPESIZE that divides the number of values *)
(* of its counters.  Every step lemma has one step per action of Next, in  *)
(* the order of Next.                                                      *)
(***************************************************************************)
EXTENDS Pipe, Integers, TLAPS

\* A leaf that names no prover is tried with SMT, then with Zenon.
USE SMTT(30), ZenonT(30)

-----------------------------------------------------------------------------
(* Unsigned arithmetic *)

\* Division with remainder.
LEMMA DivMod ==
  ASSUME NEW a \in Nat, NEW m \in Nat \ {0}
  PROVE  /\ a \div m \in Nat /\ a % m \in 0 .. m - 1
         /\ a = m * (a \div m) + (a % m)
BY Z3

\* A number below the modulus is its own remainder; one that overflowed once
\* has lost the modulus.
LEMMA Remainder ==
  ASSUME NEW a \in Nat, NEW m \in Nat \ {0}, a < 2 * m
  PROVE  a % m = IF a < m THEN a ELSE a - m
<1>1. a < m => a % m = a
  BY Z3
<1>2. a >= m => a % m = a - m
  BY Z3
<1> QED
  BY <1>1, <1>2

\* A positive multiple of the modulus is not below it.
LEMMA Times ==
  ASSUME NEW d \in Int, NEW m \in Nat \ {0}, d >= 1
  PROVE  m * d >= m
BY Z3

\* Quotient and remainder are unique.
LEMMA Unique ==
  ASSUME NEW m \in Nat \ {0}, NEW q \in Int, NEW r \in 0 .. m - 1,
         NEW s \in Int, NEW t \in 0 .. m - 1, m * q + r = m * s + t
  PROVE  r = t
<1>1. m * (q - s) = t - r /\ m * (s - q) = r - t
  BY Z3
<1>2. ~(q - s >= 1)
  BY <1>1, Times, Z3
<1>3. ~(s - q >= 1)
  BY <1>1, Times, Z3
<1> QED
  BY <1>1, <1>2, <1>3, Z3

\* Wrapping a counter around does not change its index into the ring.
LEMMA Multiple ==
  ASSUME NEW a \in Nat, NEW m \in Nat \ {0}, NEW u \in Nat, u % m = 0
  PROVE  (a + u) % m = a % m
<1> DEFINE q == a \div m  s == u \div m  t == (a + u) \div m
<1>1. a + u \in Nat
  OBVIOUS
<1>2. /\ q \in Nat /\ s \in Nat /\ t \in Nat
      /\ a % m \in 0 .. m - 1 /\ (a + u) % m \in 0 .. m - 1
  BY <1>1, DivMod, ZenonT(30)
<1>3. a = m * q + (a % m) /\ u = m * s + (u % m) /\ a + u = m * t + ((a + u) % m)
  BY <1>1, DivMod
<1> HIDE DEF q, s, t
<1>4. m * t + ((a + u) % m) = m * (q + s) + (a % m)
  BY <1>2, <1>3, Z3
<1>5. q + s \in Int /\ t \in Int
  BY <1>2
<1> QED
  BY <1>2, <1>4, <1>5, Unique, ZenonT(30)

\* Numbers less than the size of the ring apart have different places in it.
LEMMA Apart ==
  ASSUME NEW a \in Nat, NEW b \in Nat, NEW m \in Nat \ {0}, a < b, b < a + m
  PROVE  a % m # b % m
<1> DEFINE q == a \div m  s == b \div m
<1> SUFFICES ASSUME a % m = b % m PROVE FALSE
  OBVIOUS
<1>1. q \in Nat /\ s \in Nat
  BY DivMod, ZenonT(30)
<1>2. a = m * q + (a % m) /\ b = m * s + (b % m)
  BY DivMod
<1>3. b - a = m * (s - q)
  BY <1>1, <1>2, Z3
<1>4. CASE s - q >= 1
  BY <1>1, <1>3, <1>4, Times, Z3
<1>5. CASE s - q <= 0
  <2>1. m * (s - q) <= 0
    BY <1>1, <1>5, Z3
  <2> QED
    BY <2>1, <1>3, Z3
<1> QED
  BY <1>1, <1>4, <1>5, Z3

-----------------------------------------------------------------------------
(* The counters and the queue between them *)

\* The difference of two counters and the successor of one, as uints.
LEMMA Counter ==
  ASSUME NEW a \in 0 .. UMAX - 1, NEW b \in 0 .. UMAX - 1
  PROVE  /\ (b + UMAX - a) % UMAX = IF a <= b THEN b - a ELSE b + UMAX - a
         /\ (a + 1) % UMAX = IF a + 1 = UMAX THEN 0 ELSE a + 1
         /\ (a + PIPESIZE) % UMAX = IF a + PIPESIZE < UMAX THEN a + PIPESIZE
                                    ELSE a + PIPESIZE - UMAX
<1> DEFINE x == b + UMAX - a  y == a + 1  z == a + PIPESIZE
<1>1. UMAX \in Nat \ {0} /\ PIPESIZE \in Nat /\ 0 < PIPESIZE /\ PIPESIZE < UMAX
  BY SizeAssumption
<1>2. /\ x \in Nat /\ y \in Nat /\ z \in Nat
      /\ x < 2 * UMAX /\ y < 2 * UMAX /\ z < 2 * UMAX
  BY <1>1
<1> HIDE DEF x, y, z
<1>3. x % UMAX = IF x < UMAX THEN x ELSE x - UMAX
  BY <1>1, <1>2, Remainder, ZenonT(30)
<1>4. y % UMAX = IF y < UMAX THEN y ELSE y - UMAX
  BY <1>1, <1>2, Remainder, ZenonT(30)
<1>5. z % UMAX = IF z < UMAX THEN z ELSE z - UMAX
  BY <1>1, <1>2, Remainder, ZenonT(30)
<1>6. x % UMAX = IF a <= b THEN b - a ELSE b + UMAX - a
  BY <1>1, <1>3 DEF x
<1>7. y % UMAX = IF a + 1 = UMAX THEN 0 ELSE a + 1
  BY <1>1, <1>4 DEF y
<1>8. z % UMAX = IF a + PIPESIZE < UMAX THEN a + PIPESIZE
                 ELSE a + PIPESIZE - UMAX
  BY <1>1, <1>5 DEF z
<1> QED
  BY <1>6, <1>7, <1>8, ZenonT(30) DEF x, y, z

\* The tests of pipewrite and piperead are about the number of bytes.
LEMMA Tests ==
  ASSUME TypeOK
  PROVE  /\ Count \in 0 .. UMAX - 1
         /\ Empty <=> Count = 0
         /\ Full <=> Count = PIPESIZE
         /\ nread + Count = nwrite \/ nread + Count = nwrite + UMAX
<1>1. nread \in 0 .. UMAX - 1 /\ nwrite \in 0 .. UMAX - 1
  BY DEF TypeOK
<1>2. /\ Count = IF nread <= nwrite THEN nwrite - nread ELSE nwrite + UMAX - nread
      /\ (nread + PIPESIZE) % UMAX = IF nread + PIPESIZE < UMAX
                                     THEN nread + PIPESIZE
                                     ELSE nread + PIPESIZE - UMAX
  BY <1>1, Counter, ZenonT(30) DEF Count
<1> QED
  BY <1>1, <1>2, SizeAssumption DEF Empty, Full

\* pipewrite puts a byte at the end of the queue and leaves the others alone.
LEMMA PutByte ==
  ASSUME TypeOK, Count <= PIPESIZE, ~Full, NEW b \in Byte, UNCHANGED nread,
         data' = [data EXCEPT ![nwrite % PIPESIZE] = b],
         nwrite' = (nwrite + 1) % UMAX
  PROVE  Count' = Count + 1 /\ Queue' = Append(Queue, b)
<1>1. Count \in Nat /\ Count < PIPESIZE
  BY Tests, SizeAssumption
<1>0. /\ nread \in Nat /\ nwrite \in Nat /\ PIPESIZE \in Nat \ {0}
      /\ nread' = nread
  BY SizeAssumption DEF TypeOK
<1>2. Count' = Count + 1
  <2>1. nwrite' = IF nwrite + 1 = UMAX THEN 0 ELSE nwrite + 1
    BY Counter DEF TypeOK
  <2>2. nwrite' \in 0 .. UMAX - 1
    BY <2>1, SizeAssumption DEF TypeOK
  <2>3. /\ Count = IF nread <= nwrite THEN nwrite - nread ELSE nwrite + UMAX - nread
        /\ Count' = IF nread <= nwrite' THEN nwrite' - nread
                    ELSE nwrite' + UMAX - nread
    <3>1. nread \in 0 .. UMAX - 1 /\ nwrite \in 0 .. UMAX - 1
      BY DEF TypeOK
    <3>2. Count' = (nwrite' + UMAX - nread) % UMAX
      BY <1>0 DEF Count
    <3> QED
      BY <2>2, <3>1, <3>2, Counter, ZenonT(30) DEF Count
  <2> QED
    BY <1>1, <2>1, <2>3, SizeAssumption DEF TypeOK
<1>3. (nread + Count) % PIPESIZE = nwrite % PIPESIZE
  <2>1. CASE nread + Count = nwrite
    BY <2>1
  <2>2. CASE nread + Count = nwrite + UMAX
    <3>1. UMAX \in Nat /\ UMAX % PIPESIZE = 0
      BY SizeAssumption
    <3>2. (nwrite + UMAX) % PIPESIZE = nwrite % PIPESIZE
      BY <1>0, <3>1, Multiple, ZenonT(30)
    <3> QED
      BY <2>2, <3>2
  <2> QED
    BY <2>1, <2>2, Tests
<1>4. nwrite % PIPESIZE \in 0 .. PIPESIZE - 1
  BY <1>0, DivMod
<1>5. data'[(nread + Count) % PIPESIZE] = b
  BY <1>3, <1>4 DEF TypeOK
<1>6. ASSUME NEW k \in 1 .. Count
      PROVE  data'[(nread + k - 1) % PIPESIZE] = data[(nread + k - 1) % PIPESIZE]
  <2>1. /\ nread + k - 1 \in Nat /\ nread + Count \in Nat
        /\ nread + k - 1 < nread + Count
        /\ nread + Count < nread + k - 1 + PIPESIZE
    BY <1>1, <1>0
  <2>2. (nread + k - 1) % PIPESIZE # nwrite % PIPESIZE
    BY <1>3, <1>0, <2>1, Apart, ZenonT(30)
  <2>3. (nread + k - 1) % PIPESIZE \in 0 .. PIPESIZE - 1
    BY <1>0, <2>1, DivMod
  <2> QED
    BY <2>2, <2>3 DEF TypeOK
<1> DEFINE at(k) == data'[(nread + k - 1) % PIPESIZE]
<1>7. Queue = [k \in 1 .. Count |-> at(k)]
  BY <1>6, ZenonT(30) DEF Queue
<1>8. Queue' = [k \in 1 .. Count + 1 |-> at(k)]
  BY <1>2, <1>0 DEF Queue
<1>9. at(Count + 1) = b
  BY <1>1, <1>5 DEF TypeOK
<1> HIDE DEF at
<1> QED
  BY <1>1, <1>2, <1>7, <1>8, <1>9

\* piperead takes the byte at the head of the queue.
LEMMA GetByte ==
  ASSUME TypeOK, ~Empty, UNCHANGED <<data, nwrite>>,
         nread' = (nread + 1) % UMAX
  PROVE  /\ Count' = Count - 1
         /\ Queue # <<>> /\ Head(Queue) = data[nread % PIPESIZE]
         /\ Queue' = Tail(Queue)
<1>1. Count \in Nat \ {0}
  BY Tests
<1>2. Count' = Count - 1
  <2>1. nread' = IF nread + 1 = UMAX THEN 0 ELSE nread + 1
    BY Counter DEF TypeOK
  <2>2. nread' \in 0 .. UMAX - 1 /\ nwrite' = nwrite
    BY <2>1, SizeAssumption DEF TypeOK
  <2>3. /\ Count = IF nread <= nwrite THEN nwrite - nread ELSE nwrite + UMAX - nread
        /\ Count' = IF nread' <= nwrite THEN nwrite - nread'
                    ELSE nwrite + UMAX - nread'
    BY <2>2, Counter DEF TypeOK, Count
  <2> QED
    BY <1>1, <2>1, <2>3, SizeAssumption DEF TypeOK
<1>3. ASSUME NEW k \in 1 .. Count - 1
      PROVE  (nread' + k - 1) % PIPESIZE = (nread + k) % PIPESIZE
  <2>1. CASE nread' = nread + 1
    BY <1>1, <2>1 DEF TypeOK
  <2>2. CASE nread' = 0 /\ nread + 1 = UMAX
    <3>1. k - 1 \in Nat /\ nread + k = k - 1 + UMAX /\ nread' + k - 1 = k - 1
      BY <1>1, <2>2 DEF TypeOK
    <3> QED
      BY <3>1, Multiple, SizeAssumption
  <2> QED
    BY <2>1, <2>2, Counter DEF TypeOK
<1> DEFINE at(k) == data[(nread + k - 1) % PIPESIZE]
<1>4. Queue = [k \in 1 .. Count |-> at(k)]
  BY DEF Queue
<1>5. ASSUME NEW k \in 1 .. Count - 1
      PROVE  data'[(nread' + k - 1) % PIPESIZE] = at(k + 1)
  BY <1>1, <1>3 DEF TypeOK
<1>6. Queue' = [k \in 1 .. Count - 1 |-> at(k + 1)]
  BY <1>2, <1>5, ZenonT(30) DEF Queue
<1>7. at(1) = data[nread % PIPESIZE]
  BY DEF TypeOK
<1> HIDE DEF at
<1>8. Queue # <<>> /\ Head(Queue) = at(1)
  BY <1>1, <1>4
<1>9. Tail(Queue) = [k \in 1 .. Count - 1 |-> at(k + 1)]
  BY <1>1, <1>4
<1> QED
  BY <1>2, <1>6, <1>7, <1>8, <1>9

-----------------------------------------------------------------------------
(* The invariant *)

\* The counters stay uints, a call's i stays within its n.
LEMMA TypeStep ==
  ASSUME TypeOK, [Next]_vars
  PROVE  TypeOK'
<1> USE DEF pipevars, filevars, callvars, TypeOK, Place, Writing, Reading
<1>1. ASSUME NEW p \in Proc, NEW k \in Counts, Pipewrite(p, k)
      PROVE  TypeOK'
  BY <1>1, SizeAssumption DEF Pipewrite, MayCall
<1>2. ASSUME NEW p \in Proc, NEW k \in Counts, Piperead(p, k)
      PROVE  TypeOK'
  BY <1>2, SizeAssumption DEF Piperead, MayCall
<1>3. ASSUME NEW p \in Proc, NEW b \in Byte, WriteByte(p, b)
      PROVE  TypeOK'
  <2>1. /\ nwrite \in Nat /\ PIPESIZE \in Nat \ {0}
        /\ UMAX \in Nat \ {0} /\ nwrite + 1 \in Nat
    BY SizeAssumption
  <2>2. nwrite' \in 0 .. UMAX - 1
    BY <1>3, <2>1, DivMod DEF WriteByte
  <2>3. data' \in [0 .. PIPESIZE - 1 -> Byte]
    BY <1>3, ZenonT(30) DEF WriteByte
  <2>4. i' \in [Proc -> 0 .. MAXN]
    BY <1>3, SizeAssumption DEF WriteByte
  <2> QED
    BY <1>3, <2>2, <2>3, <2>4 DEF WriteByte
<1>4. ASSUME NEW p \in Proc, WriteFail(p)
      PROVE  TypeOK'
  BY <1>4, SizeAssumption DEF WriteFail, Return
<1>5. ASSUME NEW p \in Proc, WriteFull(p)
      PROVE  TypeOK'
  BY <1>5, SizeAssumption DEF WriteFull, WakeReaders
<1>6. ASSUME NEW p \in Proc, WriteDone(p)
      PROVE  TypeOK'
  BY <1>6, SizeAssumption DEF WriteDone, Return, WakeReaders
<1>7. ASSUME NEW p \in Proc, ReadFail(p)
      PROVE  TypeOK'
  BY <1>7, SizeAssumption DEF ReadFail, Return
<1>8. ASSUME NEW p \in Proc, ReadEmpty(p)
      PROVE  TypeOK'
  BY <1>8, SizeAssumption DEF ReadEmpty
<1>9. ASSUME NEW p \in Proc, ReadReady(p)
      PROVE  TypeOK'
  BY <1>9, SizeAssumption DEF ReadReady
<1>10. ASSUME NEW p \in Proc, ReadByte(p)
      PROVE  TypeOK'
  <2>1. /\ nread \in Nat /\ PIPESIZE \in Nat \ {0}
        /\ UMAX \in Nat \ {0} /\ nread + 1 \in Nat
    BY SizeAssumption
  <2>2. nread' \in 0 .. UMAX - 1 /\ nread % PIPESIZE \in 0 .. PIPESIZE - 1
    BY <1>10, <2>1, DivMod, ZenonT(30) DEF ReadByte
  <2>3. got' \in Byte
    BY <1>10, <2>2 DEF ReadByte
  <2>4. i' \in [Proc -> 0 .. MAXN]
    BY <1>10, SizeAssumption DEF ReadByte
  <2> QED
    BY <1>10, <2>2, <2>3, <2>4 DEF ReadByte
<1>11. ASSUME NEW p \in Proc, ReadDone(p)
      PROVE  TypeOK'
  BY <1>11, SizeAssumption DEF ReadDone, Return, WakeWriters
<1>12. ASSUME NEW p \in Proc, Sleep(p)
      PROVE  TypeOK'
  BY <1>12, SizeAssumption DEF Sleep
<1>13. ASSUME NEW p \in Proc, Resume(p)
      PROVE  TypeOK'
  BY <1>13, SizeAssumption DEF Resume
<1>14. ASSUME NEW p \in Proc, Kill(p)
      PROVE  TypeOK'
  BY <1>14, SizeAssumption DEF Kill
<1>15. ASSUME NEW p \in Proc, NEW q \in Proc, Fork(p, q)
      PROVE  TypeOK'
  BY <1>15, SizeAssumption DEF Fork, MayCall
<1>16. ASSUME NEW p \in Proc, CloseWrite(p)
      PROVE  TypeOK'
  BY <1>16, SizeAssumption DEF CloseWrite
<1>17. ASSUME NEW p \in Proc, CloseRead(p)
      PROVE  TypeOK'
  BY <1>17, SizeAssumption DEF CloseRead
<1>18. ASSUME NEW p \in Proc, PipecloseWrite(p)
      PROVE  TypeOK'
  BY <1>18, SizeAssumption, ZenonT(30) DEF PipecloseWrite, WakeReaders
<1>19. ASSUME NEW p \in Proc, PipecloseRead(p)
      PROVE  TypeOK'
  BY <1>19, SizeAssumption, ZenonT(30) DEF PipecloseRead, WakeWriters
<1>20. CASE UNCHANGED vars
  BY <1>20 DEF vars
<1> QED
  BY <1>1, <1>2, <1>3, <1>4, <1>5, <1>6, <1>7, <1>8, <1>9, <1>10, <1>11,
     <1>12, <1>13, <1>14, <1>15, <1>16, <1>17, <1>18, <1>19, <1>20, ZenonT(30)
     DEF Next

\* p->lock is taken and released where the code says.
LEMMA LockStep ==
  ASSUME TypeOK, LockInv, [Next]_vars
  PROVE  LockInv'
<1>a. pc \in [Proc -> Place]
  BY DEF TypeOK
<1> USE <1>a
<1> USE DEF pipevars, filevars, callvars, LockInv, Locked
<1>1. ASSUME NEW p \in Proc, NEW k \in Counts, Pipewrite(p, k)
      PROVE  LockInv'
  BY <1>1, ByteAssumption DEF Pipewrite, MayCall
<1>2. ASSUME NEW p \in Proc, NEW k \in Counts, Piperead(p, k)
      PROVE  LockInv'
  BY <1>2, ByteAssumption DEF Piperead, MayCall
<1>3. ASSUME NEW p \in Proc, NEW b \in Byte, WriteByte(p, b)
      PROVE  LockInv'
  BY <1>3, ByteAssumption DEF WriteByte
<1>4. ASSUME NEW p \in Proc, WriteFail(p)
      PROVE  LockInv'
  BY <1>4, ByteAssumption DEF WriteFail, Return
<1>5. ASSUME NEW p \in Proc, WriteFull(p)
      PROVE  LockInv'
  BY <1>5, ByteAssumption DEF WriteFull, WakeReaders
<1>6. ASSUME NEW p \in Proc, WriteDone(p)
      PROVE  LockInv'
  BY <1>6, ByteAssumption DEF WriteDone, Return, WakeReaders
<1>7. ASSUME NEW p \in Proc, ReadFail(p)
      PROVE  LockInv'
  BY <1>7, ByteAssumption DEF ReadFail, Return
<1>8. ASSUME NEW p \in Proc, ReadEmpty(p)
      PROVE  LockInv'
  BY <1>8, ByteAssumption DEF ReadEmpty
<1>9. ASSUME NEW p \in Proc, ReadReady(p)
      PROVE  LockInv'
  BY <1>9, ByteAssumption DEF ReadReady
<1>10. ASSUME NEW p \in Proc, ReadByte(p)
      PROVE  LockInv'
  BY <1>10, ByteAssumption DEF ReadByte
<1>11. ASSUME NEW p \in Proc, ReadDone(p)
      PROVE  LockInv'
  BY <1>11, ByteAssumption DEF ReadDone, Return, WakeWriters
<1>12. ASSUME NEW p \in Proc, Sleep(p)
      PROVE  LockInv'
  BY <1>12, ByteAssumption DEF Sleep
<1>13. ASSUME NEW p \in Proc, Resume(p)
      PROVE  LockInv'
  BY <1>13, ByteAssumption DEF Resume
<1>14. ASSUME NEW p \in Proc, Kill(p)
      PROVE  LockInv'
  BY <1>14, ByteAssumption DEF Kill
<1>15. ASSUME NEW p \in Proc, NEW q \in Proc, Fork(p, q)
      PROVE  LockInv'
  BY <1>15, ByteAssumption DEF Fork, MayCall
<1>16. ASSUME NEW p \in Proc, CloseWrite(p)
      PROVE  LockInv'
  BY <1>16, ByteAssumption DEF CloseWrite
<1>17. ASSUME NEW p \in Proc, CloseRead(p)
      PROVE  LockInv'
  BY <1>17, ByteAssumption DEF CloseRead
<1>18. ASSUME NEW p \in Proc, PipecloseWrite(p)
      PROVE  LockInv'
  BY <1>18, ByteAssumption DEF PipecloseWrite, WakeReaders
<1>19. ASSUME NEW p \in Proc, PipecloseRead(p)
      PROVE  LockInv'
  BY <1>19, ByteAssumption DEF PipecloseRead, WakeWriters
<1>20. CASE UNCHANGED vars
  BY <1>20 DEF vars
<1> QED
  BY <1>1, <1>2, <1>3, <1>4, <1>5, <1>6, <1>7, <1>8, <1>9, <1>10, <1>11,
     <1>12, <1>13, <1>14, <1>15, <1>16, <1>17, <1>18, <1>19, <1>20, ZenonT(30)
     DEF Next

\* fileclose and pipeclose close each end once, and after its last user.
LEMMA EndStep ==
  ASSUME TypeOK, EndInv, [Next]_vars
  PROVE  EndInv'
<1>a. pc \in [Proc -> Place]
  BY DEF TypeOK
<1> USE <1>a
<1> USE DEF pipevars, filevars, callvars, EndInv, Writing, Reading
<1>1. ASSUME NEW p \in Proc, NEW k \in Counts, Pipewrite(p, k)
      PROVE  EndInv'
  BY <1>1 DEF Pipewrite, MayCall
<1>2. ASSUME NEW p \in Proc, NEW k \in Counts, Piperead(p, k)
      PROVE  EndInv'
  BY <1>2 DEF Piperead, MayCall
<1>3. ASSUME NEW p \in Proc, NEW b \in Byte, WriteByte(p, b)
      PROVE  EndInv'
  BY <1>3 DEF WriteByte
<1>4. ASSUME NEW p \in Proc, WriteFail(p)
      PROVE  EndInv'
  BY <1>4 DEF WriteFail, Return
<1>5. ASSUME NEW p \in Proc, WriteFull(p)
      PROVE  EndInv'
  BY <1>5 DEF WriteFull, WakeReaders
<1>6. ASSUME NEW p \in Proc, WriteDone(p)
      PROVE  EndInv'
  BY <1>6 DEF WriteDone, Return, WakeReaders
<1>7. ASSUME NEW p \in Proc, ReadFail(p)
      PROVE  EndInv'
  BY <1>7 DEF ReadFail, Return
<1>8. ASSUME NEW p \in Proc, ReadEmpty(p)
      PROVE  EndInv'
  BY <1>8 DEF ReadEmpty
<1>9. ASSUME NEW p \in Proc, ReadReady(p)
      PROVE  EndInv'
  BY <1>9 DEF ReadReady
<1>10. ASSUME NEW p \in Proc, ReadByte(p)
      PROVE  EndInv'
  BY <1>10 DEF ReadByte
<1>11. ASSUME NEW p \in Proc, ReadDone(p)
      PROVE  EndInv'
  BY <1>11 DEF ReadDone, Return, WakeWriters
<1>12. ASSUME NEW p \in Proc, Sleep(p)
      PROVE  EndInv'
  BY <1>12 DEF Sleep
<1>13. ASSUME NEW p \in Proc, Resume(p)
      PROVE  EndInv'
  BY <1>13 DEF Resume
<1>14. ASSUME NEW p \in Proc, Kill(p)
      PROVE  EndInv'
  BY <1>14 DEF Kill
<1>15. ASSUME NEW p \in Proc, NEW q \in Proc, Fork(p, q)
      PROVE  EndInv'
  BY <1>15 DEF Fork, MayCall
<1>16. ASSUME NEW p \in Proc, CloseWrite(p)
      PROVE  EndInv'
  <2>1. CASE wfile' = {}
    BY <1>16, <2>1 DEF CloseWrite
  <2>2. CASE wfile' # {}
    BY <1>16, <2>2 DEF CloseWrite
  <2> QED
    BY <2>1, <2>2
<1>17. ASSUME NEW p \in Proc, CloseRead(p)
      PROVE  EndInv'
  <2>1. CASE rfile' = {}
    BY <1>17, <2>1 DEF CloseRead
  <2>2. CASE rfile' # {}
    BY <1>17, <2>2 DEF CloseRead
  <2> QED
    BY <2>1, <2>2
<1>18. ASSUME NEW p \in Proc, PipecloseWrite(p)
      PROVE  EndInv'
  BY <1>18, ZenonT(30) DEF PipecloseWrite, WakeReaders
<1>19. ASSUME NEW p \in Proc, PipecloseRead(p)
      PROVE  EndInv'
  BY <1>19, ZenonT(30) DEF PipecloseRead, WakeWriters
<1>20. CASE UNCHANGED vars
  BY <1>20 DEF vars
<1> QED
  BY <1>1, <1>2, <1>3, <1>4, <1>5, <1>6, <1>7, <1>8, <1>9, <1>10, <1>11,
     <1>12, <1>13, <1>14, <1>15, <1>16, <1>17, <1>18, <1>19, <1>20, ZenonT(30)
     DEF Next

\* Whoever changes what sleepers wait for holds p->lock until it has woken them.
LEMMA SleepStep ==
  ASSUME TypeOK, LockInv, EndInv, SleepInv, [Next]_vars
  PROVE  SleepInv'
<1>a. pc \in [Proc -> Place]
  BY DEF TypeOK
<1>b. i \in [Proc -> 0 .. MAXN] /\ killed \in [Proc -> BOOLEAN]
  BY DEF TypeOK
<1> USE <1>b, ByteAssumption, <1>a
<1> USE DEF pipevars, filevars, callvars, LockInv, SleepInv, Locked, Full,
   Empty
<1>1. ASSUME NEW p \in Proc, NEW k \in Counts, Pipewrite(p, k)
      PROVE  SleepInv'
  BY <1>1 DEF Pipewrite, MayCall
<1>2. ASSUME NEW p \in Proc, NEW k \in Counts, Piperead(p, k)
      PROVE  SleepInv'
  BY <1>2 DEF Piperead, MayCall
<1>3. ASSUME NEW p \in Proc, NEW b \in Byte, WriteByte(p, b)
      PROVE  SleepInv'
  BY <1>3 DEF WriteByte
<1>4. ASSUME NEW p \in Proc, WriteFail(p)
      PROVE  SleepInv'
  BY <1>4 DEF WriteFail, Return, EndInv, Reading
<1>5. ASSUME NEW p \in Proc, WriteFull(p)
      PROVE  SleepInv'
  BY <1>5 DEF WriteFull, WakeReaders
<1>6. ASSUME NEW p \in Proc, WriteDone(p)
      PROVE  SleepInv'
  BY <1>6 DEF WriteDone, Return, WakeReaders
<1>7. ASSUME NEW p \in Proc, ReadFail(p)
      PROVE  SleepInv'
  BY <1>7 DEF ReadFail, Return
<1>8. ASSUME NEW p \in Proc, ReadEmpty(p)
      PROVE  SleepInv'
  <2>1. ~Full
    BY <1>8, Tests, SizeAssumption DEF ReadEmpty
  <2> QED
    BY <1>8, <2>1 DEF ReadEmpty
<1>9. ASSUME NEW p \in Proc, ReadReady(p)
      PROVE  SleepInv'
  BY <1>9 DEF ReadReady
<1>10. ASSUME NEW p \in Proc, ReadByte(p)
      PROVE  SleepInv'
  BY <1>10 DEF ReadByte
<1>11. ASSUME NEW p \in Proc, ReadDone(p)
      PROVE  SleepInv'
  BY <1>11 DEF ReadDone, Return, WakeWriters
<1>12. ASSUME NEW p \in Proc, Sleep(p)
      PROVE  SleepInv'
  BY <1>12 DEF Sleep
<1>13. ASSUME NEW p \in Proc, Resume(p)
      PROVE  SleepInv'
  BY <1>13 DEF Resume
<1>14. ASSUME NEW p \in Proc, Kill(p)
      PROVE  SleepInv'
  BY <1>14 DEF Kill
<1>15. ASSUME NEW p \in Proc, NEW q \in Proc, Fork(p, q)
      PROVE  SleepInv'
  BY <1>15 DEF Fork, MayCall
<1>16. ASSUME NEW p \in Proc, CloseWrite(p)
      PROVE  SleepInv'
  BY <1>16 DEF CloseWrite
<1>17. ASSUME NEW p \in Proc, CloseRead(p)
      PROVE  SleepInv'
  BY <1>17 DEF CloseRead
<1>18. ASSUME NEW p \in Proc, PipecloseWrite(p)
      PROVE  SleepInv'
  BY <1>18 DEF PipecloseWrite, WakeReaders
<1>19. ASSUME NEW p \in Proc, PipecloseRead(p)
      PROVE  SleepInv'
  BY <1>19 DEF PipecloseRead, WakeWriters
<1>20. CASE UNCHANGED vars
  BY <1>20 DEF vars
<1> QED
  BY <1>1, <1>2, <1>3, <1>4, <1>5, <1>6, <1>7, <1>8, <1>9, <1>10, <1>11,
     <1>12, <1>13, <1>14, <1>15, <1>16, <1>17, <1>18, <1>19, <1>20, ZenonT(30)
     DEF Next

\* A byte goes in only where there is room.
LEMMA RingStep ==
  ASSUME TypeOK, Count <= PIPESIZE, [Next]_vars
  PROVE  Count' <= PIPESIZE
<1> USE DEF pipevars
<1>1. ASSUME NEW p \in Proc, NEW b \in Byte, WriteByte(p, b)
      PROVE  Count' <= PIPESIZE
  <2>1. Count' = Count + 1
    BY <1>1, PutByte, ZenonT(30) DEF WriteByte
  <2> QED
    BY <1>1, <2>1, Tests, SizeAssumption DEF WriteByte
<1>2. ASSUME NEW p \in Proc, ReadByte(p)
      PROVE  Count' <= PIPESIZE
  <2>1. Count' = Count - 1
    BY <1>2, GetByte DEF ReadByte
  <2> QED
    BY <2>1, Tests, SizeAssumption
<1>3. CASE UNCHANGED <<nread, nwrite>>
  BY <1>3 DEF Count
<1> QED
  BY <1>1, <1>2, <1>3, ZenonT(30) DEF Next, vars, Pipewrite, Piperead,
     WriteFail, WriteFull, WriteDone, ReadFail, ReadEmpty, ReadReady, ReadDone,
     Sleep, Resume, Kill, Fork, CloseWrite, CloseRead, PipecloseWrite,
     PipecloseRead

\* Inv is inductive: a new pipe satisfies it, and whatever readers, writers,
\* fork, close and kill do preserves it, for every size of the ring and of
\* the counters.
THEOREM Invariance == Spec => []Inv
<1>1. Init => Inv
  <2> SUFFICES ASSUME Init PROVE Inv
    OBVIOUS
  <2>1. TypeOK
    <3>1. readopen \in BOOLEAN /\ writeopen \in BOOLEAN /\ freed \in BOOLEAN
      BY ZenonT(30) DEF Init
    <3>2. rfile \subseteq Proc /\ wfile \subseteq Proc
      BY DEF Init
    <3>3. data \in [0 .. PIPESIZE - 1 -> Byte]
      BY DEF Init
    <3> QED
      BY <3>1, <3>2, <3>3, SizeAssumption DEF Init, TypeOK, Place
  <2>2. Count = 0
    BY <2>1, Tests DEF Init, Empty
  <2>3. LockInv /\ EndInv /\ SleepInv
    BY ByteAssumption DEF Init, LockInv, EndInv, SleepInv, Locked, Writing, Reading
  <2> QED
    BY <2>1, <2>2, <2>3, SizeAssumption DEF Inv
<1>2. Inv /\ [Next]_vars => Inv'
  BY TypeStep, LockStep, EndStep, SleepStep, RingStep DEF Inv
<1> QED
  BY <1>1, <1>2, PTL DEF Spec

\* pipeclose frees the page when nobody is in the pipe or can get there.
THEOREM FreedWhenUnused == Spec => []NoUseAfterFree
<1>1. Inv => NoUseAfterFree
  <2> SUFFICES ASSUME Inv, freed
               PROVE  /\ ~readopen /\ ~writeopen /\ lock = None
                      /\ rfile = {} /\ wfile = {}
                      /\ \A p \in Proc : pc[p] = "user"
    BY DEF NoUseAfterFree
  <2>1. ~readopen /\ ~writeopen /\ rfile = {} /\ wfile = {}
    BY DEF Inv, EndInv
  <2>2. \A p \in Proc : pc[p] = "user"
    BY <2>1, ZenonT(30) DEF Inv, EndInv, TypeOK, Place
  <2>3. lock = None
    BY <2>2 DEF Inv, LockInv, TypeOK, Locked
  <2> QED
    BY <2>1, <2>2, <2>3
<1> QED
  BY <1>1, Invariance, PTL

\* Readers and writers never wait for each other, and without kill nobody
\* sleeps who could go on.
THEOREM SleepersHaveReason == Spec => []SleepsForReason
<1>1. Inv => SleepsForReason
  <2> SUFFICES ASSUME Inv, lock = None
               PROVE  /\ ~ \E p, q \in Proc : /\ pc[p] = "read_asleep"
                                              /\ pc[q] = "write_asleep"
                      /\ (\A p \in Proc : ~killed[p]) =>
                            /\ (\E p \in Proc : pc[p] = "read_asleep") =>
                                  Empty /\ writeopen
                            /\ (\E p \in Proc : pc[p] = "write_asleep") =>
                                  Full /\ readopen
    BY DEF SleepsForReason, NoMutualWait, NoLostWakeup
  <2>1. \A p \in Proc : pc[p] \notin {"read", "write"}
    BY ByteAssumption, ZenonT(30) DEF Inv, LockInv, Locked
  <2> QED
    BY <2>1 DEF Inv, SleepInv
<1> QED
  BY <1>1, Invariance, PTL

-----------------------------------------------------------------------------
(* Pipe implements Stream *)

\* A step that leaves the pipe alone does not change the stream.
LEMMA Stutter ==
  ASSUME UNCHANGED <<pipevars, got>>
  PROVE  UNCHANGED S!vars
BY DEF pipevars, S!vars, Queue, Count

\* Every step of a reader, a writer or a closer is a step of the stream or
\* changes nothing of it.
LEMMA StreamStep ==
  ASSUME Inv, [Next]_vars
  PROVE  [S!Next]_(S!vars)
<1> USE DEF pipevars, callvars
<1>1. ASSUME NEW p \in Proc, NEW b \in Byte, WriteByte(p, b)
      PROVE  [S!Next]_(S!vars)
  <2>1. writeopen
    BY <1>1 DEF WriteByte, Inv, EndInv, Writing
  <2>2. Count \in Nat /\ Count < PIPESIZE
    <3>1. TypeOK /\ Count <= PIPESIZE /\ ~Full
      BY <1>1 DEF WriteByte, Inv
    <3> QED
      BY <3>1, Tests, SizeAssumption
  <2>3. Queue' = Append(Queue, b)
    BY <1>1, PutByte, ZenonT(30) DEF WriteByte, Inv
  <2>4. Len(Queue) = Count
    BY <2>2 DEF Queue
  <2>5. S!Put(b)
    BY <1>1, <2>1, <2>2, <2>3, <2>4 DEF WriteByte, S!Put
  <2> QED
    BY <2>5 DEF S!Next
<1>2. ASSUME NEW p \in Proc, ReadByte(p)
      PROVE  [S!Next]_(S!vars)
  <2>1. readopen
    BY <1>2 DEF ReadByte, Inv, EndInv, Reading
  <2>2. /\ Queue # <<>> /\ Head(Queue) = data[nread % PIPESIZE]
        /\ Queue' = Tail(Queue)
    BY <1>2, GetByte DEF ReadByte, Inv
  <2>3. S!Get
    BY <1>2, <2>1, <2>2 DEF ReadByte, S!Get
  <2> QED
    BY <2>3 DEF S!Next
<1>3. ASSUME NEW p \in Proc, ReadDone(p)
      PROVE  [S!Next]_(S!vars)
  <2>1. CASE i[p] = 0 /\ n[p] > 0
    <3>1. readopen /\ Empty /\ ~writeopen
      BY <1>3, <2>1 DEF ReadDone, Inv, EndInv, SleepInv, Reading
    <3>2. Count = 0
      BY <3>1, Tests DEF Inv
    <3>3. Queue = <<>>
      BY <3>2 DEF Queue
    <3>4. Queue' = Queue
      BY <1>3 DEF ReadDone, Queue, Count
    <3>5. S!End
      BY <1>3, <2>1, <3>1, <3>3, <3>4 DEF ReadDone, S!End
    <3> QED
      BY <3>5 DEF S!Next
  <2>2. CASE ~(i[p] = 0 /\ n[p] > 0)
    BY <1>3, <2>2, Stutter DEF ReadDone
  <2> QED
    BY <2>1, <2>2
<1>4. ASSUME NEW p \in Proc, PipecloseWrite(p)
      PROVE  [S!Next]_(S!vars)
  <2>1. writeopen
    BY <1>4 DEF PipecloseWrite, Inv, EndInv
  <2>2. Queue' = Queue
    BY <1>4 DEF PipecloseWrite, Queue, Count
  <2>3. S!CloseWrite
    BY <1>4, <2>1, <2>2 DEF PipecloseWrite, S!CloseWrite
  <2> QED
    BY <2>3 DEF S!Next
<1>5. ASSUME NEW p \in Proc, PipecloseRead(p)
      PROVE  [S!Next]_(S!vars)
  <2>1. readopen
    BY <1>5 DEF PipecloseRead, Inv, EndInv
  <2>2. Queue' = Queue
    BY <1>5 DEF PipecloseRead, Queue, Count
  <2>3. S!CloseRead
    BY <1>5, <2>1, <2>2 DEF PipecloseRead, S!CloseRead
  <2> QED
    BY <2>3 DEF S!Next
<1>6. CASE UNCHANGED <<pipevars, got>>
  BY <1>6, Stutter
<1> QED
  BY <1>1, <1>2, <1>3, <1>4, <1>5, <1>6, ZenonT(30) DEF Next, vars, Pipewrite,
     Piperead, WriteFail, WriteFull, WriteDone, ReadFail, ReadEmpty, ReadReady,
     Sleep, Resume, Kill, Fork, CloseWrite, CloseRead

\* pipe.c is a bounded FIFO stream for every PIPESIZE, every width of its
\* counters, any number of readers and writers, with close, fork and kill at
\* any moment: no byte is lost, repeated, reordered or made up, and end of file
\* is reported only when the pipe is drained and its write end closed.
THEOREM ImplementsStream == Spec => StreamSpec
<1>1. Init => S!Init
  <2> SUFFICES ASSUME Init PROVE S!Init
    OBVIOUS
  <2>1. (0 + UMAX - 0) % UMAX = 0
    BY Counter, SizeAssumption
  <2>2. Queue = <<>>
    BY <2>1 DEF Init, Queue, Count
  <2> QED
    BY <2>2 DEF Init, S!Init
<1>2. Inv /\ [Next]_vars => [S!Next]_(S!vars)
  BY StreamStep
<1> QED
  BY <1>1, <1>2, Invariance, PTL DEF Spec, StreamSpec, S!Spec
=============================================================================
