----------------------------- MODULE LogProofs -----------------------------
(***************************************************************************)
(* Proofs about Log: its inductive invariant, and that it implements Txn.  *)
(* The step lemmas that count calls or blocks are here, the rest is in     *)
(* LogSteps.                                                               *)
(***************************************************************************)
EXTENDS LogSteps, FiniteSetTheorems

\* A leaf that names no prover is tried with SMT, then with Zenon.
USE SMTT(30), ZenonT(30)

\* log.outstanding counts the calls in progress, so it is at least one while
\* there is one (end_op's decrement does not go below zero).
LEMMA InOpCount ==
  ASSUME Inv
  PROVE  /\ IsFiniteSet(InOp)
         /\ InOp # {} => outstanding >= 1
         /\ \A p \in InOp : /\ IsFiniteSet(InOp \ {p})
                            /\ Cardinality(InOp \ {p}) = outstanding - 1
<1>1. IsFiniteSet(InOp)
  BY FiniteAssumption, FS_Subset DEF InOp
<1> QED
  BY <1>1, FS_EmptySet, FS_CardinalityType, FS_RemoveElement
     DEF Inv, TypeOK, ProcInv

\* begin_op, end_op and commit keep outstanding the number of calls in progress
\* and let nobody in while one process commits.
LEMMA ProcStep ==
  ASSUME Inv, [Next]_vars
  PROVE  ProcInv'
<1> USE DEF diskvars, memvars, procvars
<1>1. ASSUME NEW p \in Proc, NEW b \in Block, Bread(p, b)
      PROVE  ProcInv'
  BY <1>1 DEF Bread, Locked, Inv, ProcInv, InOp, Recovering
<1>2. ASSUME NEW p \in Proc, NEW v \in Val, LogWrite(p, v)
      PROVE  ProcInv'
  BY <1>2, NoneAssumption, SizeAssumption, ZenonT(30) DEF LogWrite, TooBig,
     Inv, TypeOK, ProcInv, InOp, Recovering
<1>3. ASSUME NEW p \in Proc, Brelse(p)
      PROVE  ProcInv'
  BY <1>3 DEF Brelse, Inv, ProcInv, InOp, Recovering
<1>4. ASSUME NEW p \in Proc, BeginOpSleep(p)
      PROVE  ProcInv'
  BY <1>4 DEF BeginOpSleep, Inv, ProcInv, InOp, Recovering
<1>5. ASSUME NEW p \in Proc, BeginOp(p)
      PROVE  ProcInv'
  <2>1. stage = "up" /\ ~committing
    BY <1>5 DEF BeginOp, MustWait, Inv, ProcInv, InOp, Recovering
  <2>2. InOp' = InOp \cup {p} /\ p \notin InOp
    BY <1>5 DEF BeginOp, Inv, TypeOK, ProcInv, InOp, Recovering
  <2>3. Cardinality(InOp') = outstanding'
    BY <1>5, <2>2, InOpCount, FS_AddElement, ZenonT(30) DEF BeginOp, Inv,
       ProcInv, InOp, Recovering
  <2> QED
    BY <1>5, <2>1, <2>3 DEF BeginOp, Inv, ProcInv, InOp, Recovering
<1>6. ASSUME NEW p \in Proc, Kill(p)
      PROVE  ProcInv'
  BY <1>6 DEF Kill, Inv, ProcInv, InOp, Recovering
<1>7. ASSUME NEW p \in Proc, LogAppend(p)
      PROVE  ProcInv'
  BY <1>7, NoneAssumption, SizeAssumption, ZenonT(30) DEF LogAppend, Inv,
     TypeOK, ProcInv, InOp, Recovering
<1>8. ASSUME NEW p \in Proc, EndOp(p)
      PROVE  ProcInv'
  <2>1. stage = "up" /\ ~committing
    BY <1>8 DEF EndOp, Inv, ProcInv, InOp, Recovering
  <2>2. InOp' = InOp \ {p} /\ p \in InOp
    BY <1>8, <2>1, NoneAssumption, SizeAssumption, ZenonT(30) DEF EndOp,
       Wakeup, Inv, TypeOK, ProcInv, InOp, Recovering
  <2>3. Cardinality(InOp \ {p}) = outstanding - 1 /\ IsFiniteSet(InOp \ {p})
    BY <2>2, InOpCount
  <2>4. Cardinality(InOp') = outstanding' /\ IsFiniteSet(InOp')
    BY <1>8, <2>2, <2>3 DEF EndOp
  <2>5. outstanding' = 0 => InOp' = {}
    BY <2>4, FS_EmptySet
  <2>6. CASE outstanding' = 0
    BY <1>8, <2>1, <2>4, <2>5, <2>6 DEF EndOp, Inv, TypeOK, ProcInv, InOp,
       Recovering
  <2>7. CASE outstanding' # 0
    <3>1. pc' = [Wakeup EXCEPT ![p] = "idle"] /\ UNCHANGED <<committing, stage>>
      BY <1>8, <2>1, <2>7 DEF EndOp
    <3> QED
      BY <1>8, <2>1, <2>4, <2>7, <3>1 DEF EndOp, Wakeup, Inv, ProcInv, InOp,
         Recovering
  <2> QED
    BY <2>6, <2>7
<1>9. ASSUME NEW p \in Proc, EndCommit(p)
      PROVE  ProcInv'
  <2>1. InOp' = InOp
    BY <1>9 DEF EndCommit, Wakeup, Inv, ProcInv, InOp, Recovering
  <2> QED
    BY <1>9, <2>1, ZenonT(30) DEF EndCommit, Wakeup, Inv, ProcInv, InOp,
       Recovering
<1>10. CASE WriteLog
  BY <1>10 DEF WriteLog, Inv, ProcInv, InOp, Recovering
<1>11. CASE WriteHead
  BY <1>11 DEF WriteHead, Inv, ProcInv, InOp, Recovering
<1>12. CASE InstallTrans
  BY <1>12 DEF InstallTrans, Inv, TypeOK, ProcInv, InOp, Recovering
<1>13. CASE ClearHead
  <2>1. InOp' = InOp
    BY <1>13 DEF ClearHead, Inv, ProcInv, InOp, Recovering
  <2> QED
    BY <1>13, <2>1, ZenonT(30) DEF ClearHead, Inv, ProcInv, InOp, Recovering
<1>14. CASE ReadHead
  BY <1>14 DEF ReadHead, Inv, ProcInv, InOp, Recovering
<1>15. CASE Crash
  <2>1. InOp' = {}
    BY <1>15 DEF Crash, Inv, ProcInv, InOp, Recovering
  <2> QED
    BY <1>15, <2>1, FS_EmptySet, ZenonT(30) DEF Crash, Inv, ProcInv, InOp,
       Recovering
<1>16. CASE UNCHANGED vars
  BY <1>16 DEF vars, Inv, ProcInv, InOp, Recovering
<1> QED
  BY <1>1, <1>2, <1>3, <1>4, <1>5, <1>6, <1>7, <1>8, <1>9, <1>10, <1>11,
     <1>12, <1>13, <1>14, <1>15, <1>16, Zenon DEF Next

\* No more than MAXOPBLOCKS blocks are set aside for each of the calls S.
LEMMA ReserveBound ==
  ASSUME NEW S, IsFiniteSet(S), NEW R \in SUBSET (S \X (1 .. MAXOPBLOCKS))
  PROVE  /\ IsFiniteSet(R)
         /\ Cardinality(R) \in Nat
         /\ Cardinality(R) <= Cardinality(S) * MAXOPBLOCKS
<1>1. /\ IsFiniteSet(1 .. MAXOPBLOCKS)
      /\ Cardinality(1 .. MAXOPBLOCKS) = MAXOPBLOCKS
  BY SizeAssumption, FS_Interval
<1>2. /\ IsFiniteSet(S \X (1 .. MAXOPBLOCKS))
      /\ Cardinality(S \X (1 .. MAXOPBLOCKS)) = Cardinality(S) * MAXOPBLOCKS
  BY <1>1, FS_Product, ZenonT(30)
<1> QED
  BY <1>2, FS_Subset, FS_CardinalityType

\* begin_op sets aside MAXOPBLOCKS entries and an append uses one of its own
\* call's, so the log keeps room for every block still to be written.
LEMMA RoomStep ==
  ASSUME Inv, Room, [Next]_vars
  PROVE  RoomInv'
<1> USE DEF diskvars, memvars, procvars
<1> DEFINE Same == /\ InOp' = InOp
                   /\ UNCHANGED <<lh, hdr, wrote>>
<1>a. ASSUME Same,
             \A p \in Proc :
                pc'[p] = "log_write" =>
                    \/ pc[p] = "log_write" /\ held'[p] = held[p]
                    \/ Cardinality(wrote[p] \cup {held'[p]}) <= OpBlocks
      PROVE  RoomInv'
  <2>1. Reserve' = Reserve
    BY <1>a DEF Reserve
  <2>2. \A p \in Proc : pc'[p] = "log_write" =>
                            Cardinality(wrote'[p] \cup {held'[p]}) <= OpBlocks
    <3> SUFFICES ASSUME NEW p \in Proc, pc'[p] = "log_write"
                 PROVE  Cardinality(wrote[p] \cup {held'[p]}) <= OpBlocks
      BY <1>a
    <3>1. CASE pc[p] = "log_write" /\ held'[p] = held[p]
      BY <3>1 DEF RoomInv, Inv, TypeOK
    <3> QED
      BY <1>a, <3>1
  <2> QED
    BY <1>a, <2>1, <2>2, NoneAssumption, SizeAssumption DEF RoomInv, Inv,
       TypeOK
<1>b. ASSUME InOp' = {}, Fits(lh'), Fits(hdr'), Len(lh') \in Nat
      PROVE  RoomInv'
  <2>1. Reserve' = {}
    BY <1>b DEF Reserve
  <2>2. Cardinality(Reserve') = 0
    BY <2>1, FS_EmptySet
  <2>3. \A p \in Proc : pc'[p] # "log_write"
    BY <1>b DEF InOp
  <2>4. Len(lh') + 0 <= LOGSIZE
    BY <1>b DEF Fits
  <2> QED
    BY <1>b, <2>2, <2>3, <2>4 DEF RoomInv
<1>1. ASSUME NEW p \in Proc, NEW b \in Block, Bread(p, b)
      PROVE  RoomInv'
  BY <1>1, <1>a DEF Bread, InOp
<1>2. ASSUME NEW p \in Proc, NEW v \in Val, LogWrite(p, v)
      PROVE  RoomInv'
  BY <1>2, <1>a DEF LogWrite, InOp
<1>3. ASSUME NEW p \in Proc, Brelse(p)
      PROVE  RoomInv'
  BY <1>3, <1>a DEF Brelse, InOp
<1>4. ASSUME NEW p \in Proc, BeginOpSleep(p)
      PROVE  RoomInv'
  BY <1>4, <1>a DEF BeginOpSleep, InOp
<1>5. ASSUME NEW p \in Proc, BeginOp(p)
      PROVE  RoomInv'
  <2>1. InOp' = InOp \cup {p} /\ p \notin InOp
    BY <1>5, NoneAssumption, SizeAssumption DEF BeginOp, InOp, Inv, TypeOK
  <2>2. Cardinality(InOp \cup {p}) = outstanding + 1 /\ IsFiniteSet(InOp \cup {p})
    BY <2>1, InOpCount, FS_AddElement, NoneAssumption, SizeAssumption,
       ZenonT(30) DEF ProcInv, Inv, TypeOK
  <2>3. /\ Cardinality(Reserve') \in Nat
        /\ Cardinality(Reserve') <= (outstanding + 1) * MAXOPBLOCKS
    <3>1. Reserve' \subseteq (InOp \cup {p}) \X (1 .. MAXOPBLOCKS)
      BY <2>1 DEF Reserve
    <3> HIDE DEF Reserve, InOp
    <3> QED
      BY <2>2, <3>1, ReserveBound
  <2>4. Len(lh) + (outstanding + 1) * MAXOPBLOCKS <= LOGSIZE
    BY <1>5, NoneAssumption, SizeAssumption DEF BeginOp, MustWait, Inv, TypeOK
  <2>5. Len(lh') + Cardinality(Reserve') <= LOGSIZE
    BY <1>5, <2>3, <2>4, NoneAssumption, SizeAssumption DEF BeginOp, Inv,
       TypeOK
  <2>6. Cardinality(wrote'[p]) = 0 /\ wrote'[p] = {}
    BY <1>5, FS_EmptySet DEF BeginOp, Inv, TypeOK
  <2>7. \A q \in InOp' : /\ wrote'[q] \subseteq Entries(lh')
                         /\ Cardinality(wrote'[q]) <= OpBlocks
    BY <1>5, <2>1, <2>6, NoneAssumption, SizeAssumption DEF BeginOp, RoomInv,
       Inv, TypeOK
  <2> QED
    BY <1>5, <2>5, <2>7, NoneAssumption, SizeAssumption DEF BeginOp, RoomInv,
       Inv, TypeOK
<1>6. ASSUME NEW p \in Proc, Kill(p)
      PROVE  RoomInv'
  BY <1>6, <1>a DEF Kill, InOp
<1>7. ASSUME NEW p \in Proc, LogAppend(p)
      PROVE  RoomInv'
  <2> DEFINE b == held[p]
             c == Cardinality(wrote[p])
  <2>1. b \in Block /\ p \in InOp /\ InOp' = InOp
    BY <1>7 DEF LogAppend, InOp, ProcInv, Inv, TypeOK
  <2>2. IsFiniteSet(wrote[p]) /\ c \in Nat
    BY FiniteAssumption, FS_Subset, FS_CardinalityType DEF Inv, TypeOK
  <2>3. /\ IsFiniteSet(Reserve) /\ Cardinality(Reserve) \in Nat
        /\ Reserve \subseteq InOp \X (1 .. MAXOPBLOCKS)
    <3>1. Reserve \subseteq InOp \X (1 .. MAXOPBLOCKS)
      BY DEF Reserve
    <3> QED
      BY <3>1, InOpCount, ReserveBound
  <2>4. wrote' = [wrote EXCEPT ![p] = @ \cup {b}]
    BY <1>7 DEF LogAppend
  <2>5. CASE b \in wrote[p]
    <3>1. b \in Entries(lh)
      BY <2>1, <2>5, NoneAssumption, SizeAssumption DEF RoomInv, Inv, TypeOK
    <3>2. UNCHANGED <<lh, hdr, wrote>>
      BY <1>7, <2>5, <3>1, NoneAssumption, SizeAssumption DEF LogAppend, Inv,
         TypeOK
    <3> QED
      BY <1>7, <1>a, <2>1, <3>2, NoneAssumption, SizeAssumption DEF LogAppend,
         Inv, TypeOK
  <2>6. CASE b \notin wrote[p]
    <3>1. Cardinality(wrote'[p]) = c + 1
      <4>1. Cardinality(wrote[p] \cup {b}) = c + 1
        BY <2>2, <2>6, FS_AddElement, ZenonT(30)
      <4> QED
        BY <2>4, <4>1, NoneAssumption, SizeAssumption DEF Inv, TypeOK
    <3>2. c + 1 <= OpBlocks
      BY <1>7, <2>4, <3>1, NoneAssumption, SizeAssumption DEF LogAppend,
         RoomInv, Inv, TypeOK
    <3>3. /\ Reserve' = Reserve \ {<<p, c + 1>>}
          /\ <<p, c + 1>> \in Reserve
      BY <2>1, <2>2, <2>4, <3>1, <3>2, NoneAssumption, SizeAssumption
         DEF Reserve, Inv, TypeOK
    <3>4. <<p, MAXOPBLOCKS>> \in Reserve'
      BY <2>1, <2>2, <3>1, <3>2, NoneAssumption, SizeAssumption DEF Reserve,
         Room, Inv, TypeOK
    <3>5. /\ IsFiniteSet(Reserve') /\ Cardinality(Reserve') \in Nat
          /\ Cardinality(Reserve') = Cardinality(Reserve) - 1
          /\ Cardinality(Reserve') # 0
      <4>1. /\ IsFiniteSet(Reserve \ {<<p, c + 1>>})
            /\ Cardinality(Reserve \ {<<p, c + 1>>}) = Cardinality(Reserve) - 1
        <5> DEFINE x == <<p, c + 1>>
        <5> HIDE DEF x, Inv
        <5>1. x \in Reserve
          BY <3>3 DEF x
        <5>2. IsFiniteSet(Reserve \ {x}) /\ Cardinality(Reserve \ {x}) = Cardinality(Reserve) - 1
          BY <2>3, <5>1, FS_RemoveElement, ZenonT(30)
        <5> QED
          BY <5>2 DEF x
      <4>2. IsFiniteSet(Reserve') /\ Cardinality(Reserve') = Cardinality(Reserve) - 1
        BY <3>3, <4>1
      <4>3. Cardinality(Reserve') \in Nat /\ Cardinality(Reserve') # 0
        BY <3>4, <4>2, FS_EmptySet, FS_CardinalityType
      <4> QED
        BY <4>2, <4>3
    <3>6. Len(lh') \in Nat /\ Len(lh') <= Len(lh) + 1
      BY <1>7, <2>1 DEF LogAppend
    <3>7. Len(lh') + Cardinality(Reserve') <= LOGSIZE
      BY <2>3, <3>5, <3>6, NoneAssumption, SizeAssumption DEF RoomInv, Inv,
         TypeOK
    <3>8. Fits(lh') /\ Fits(hdr')
      <4>1. Len(lh') < LOGSIZE
        <5>1. Cardinality(Reserve') \in Nat \ {0}
          BY <3>5
        <5>2. Len(lh') \in Nat
          BY <3>6
        <5> HIDE DEF Inv
        <5> QED
          BY <3>7, <5>1, <5>2, NoneAssumption, SizeAssumption DEF Inv, TypeOK
      <4> QED
        BY <1>7, <3>6, <4>1, NoneAssumption, SizeAssumption DEF Room, RoomInv,
           LogAppend, Fits, Inv, TypeOK
    <3>9. Entries(lh') = Entries(lh) \cup {b}
      <4>1. CASE b \in Entries(lh)
        BY <1>7, <4>1 DEF LogAppend
      <4>2. CASE b \notin Entries(lh)
        <5>1. lh' = Append(lh, b)
          BY <1>7, <4>2 DEF LogAppend
        <5> QED
          BY <2>1, <5>1, AppendEntry, NoneAssumption, SizeAssumption DEF Inv,
             TypeOK
      <4> QED
        BY <4>1, <4>2
    <3>10. \A q \in InOp' : /\ wrote'[q] \subseteq Entries(lh')
                            /\ Cardinality(wrote'[q]) <= OpBlocks
      BY <2>1, <2>4, <3>1, <3>2, <3>9, NoneAssumption, SizeAssumption
         DEF RoomInv, InOp, Inv, TypeOK
    <3>11. \A q \in Proc : pc'[q] = "log_write" =>
                               Cardinality(wrote'[q] \cup {held'[q]}) <= OpBlocks
      BY <1>7, <2>4, NoneAssumption, SizeAssumption DEF LogAppend, RoomInv,
         Inv, TypeOK
    <3> QED
      BY <3>7, <3>8, <3>10, <3>11 DEF RoomInv
  <2> QED
    BY <2>5, <2>6
<1>8. ASSUME NEW p \in Proc, EndOp(p)
      PROVE  RoomInv'
  <2>1. InOp' \subseteq InOp /\ UNCHANGED <<lh, hdr, wrote, held>>
    BY <1>8, NoneAssumption, SizeAssumption, ZenonT(30) DEF EndOp, InOp,
       Wakeup, Inv, TypeOK
  <2>2. Reserve' \subseteq Reserve
    BY <2>1 DEF Reserve
  <2>3. Cardinality(Reserve') \in Nat /\ Cardinality(Reserve') <= Cardinality(Reserve)
    <3>1. Reserve \subseteq InOp \X (1 .. MAXOPBLOCKS)
      BY DEF Reserve
    <3>2. IsFiniteSet(Reserve) /\ Cardinality(Reserve) \in Nat
      BY <3>1, InOpCount, ReserveBound
    <3> QED
      BY <2>2, <3>2, FS_Subset, FS_CardinalityType
  <2>4. \A q \in Proc : pc'[q] = "log_write" => pc[q] = "log_write"
    BY <1>8, NoneAssumption, SizeAssumption, ZenonT(30) DEF EndOp, Wakeup, Inv,
       TypeOK
  <2>5. Cardinality(Reserve) \in Nat
    <3>1. Reserve \subseteq InOp \X (1 .. MAXOPBLOCKS)
      BY DEF Reserve
    <3> QED
      BY <3>1, InOpCount, ReserveBound
  <2>6. Len(lh') + Cardinality(Reserve') <= LOGSIZE
    BY <2>1, <2>3, <2>5, NoneAssumption, SizeAssumption DEF RoomInv, Inv,
       TypeOK
  <2> QED
    BY <2>1, <2>4, <2>6, NoneAssumption, SizeAssumption DEF RoomInv, Entries,
       Inv, TypeOK
<1>9. ASSUME NEW p \in Proc, EndCommit(p)
      PROVE  RoomInv'
  BY <1>9, <1>a DEF EndCommit, Wakeup, InOp
<1>10. CASE WriteLog
  BY <1>10, <1>a DEF WriteLog, InOp
<1>11. CASE WriteHead
  <2>1. InOp' = {}
    BY <1>11, NoneAssumption, SizeAssumption DEF WriteHead, InOp, ProcInv,
       Inv, TypeOK
  <2> QED
    BY <1>11, <1>b, <2>1, NoneAssumption, SizeAssumption DEF WriteHead,
       RoomInv, Inv, TypeOK
<1>12. CASE InstallTrans
  BY <1>12, <1>a, ZenonT(30) DEF InstallTrans, InOp
<1>13. CASE ClearHead
  <2>1. InOp' = {}
    BY <1>13 DEF ClearHead, InOp, ProcInv, Inv, TypeOK
  <2> QED
    BY <1>13, <1>b, <2>1, NoneAssumption, SizeAssumption DEF ClearHead,
       RoomInv, Fits, Inv, TypeOK
<1>14. CASE ReadHead
  <2>1. InOp' = {}
    BY <1>14, NoneAssumption, SizeAssumption DEF ReadHead, InOp, ProcInv, Inv,
       TypeOK
  <2> QED
    BY <1>14, <1>b, <2>1 DEF ReadHead, RoomInv, Fits, Inv, TypeOK
<1>15. CASE Crash
  <2>1. InOp' = {}
    BY <1>15 DEF Crash, InOp
  <2> QED
    BY <1>15, <1>b, <2>1, EmptyLog, NoneAssumption, SizeAssumption DEF Crash,
       RoomInv, Fits, Inv, TypeOK
<1>16. CASE UNCHANGED vars
  BY <1>16, <1>a DEF vars, InOp
<1> QED
  BY <1>1, <1>2, <1>3, <1>4, <1>5, <1>6, <1>7, <1>8, <1>9, <1>10, <1>11,
     <1>12, <1>13, <1>14, <1>15, <1>16 DEF Next

\* Inv is inductive: it holds at the first boot, and every step of a call, of
\* a commit, of a recovery, and every crash, preserves it.
THEOREM Invariance ==
  ASSUME Room
  PROVE  Spec => []Inv
<1>1. Init => Inv
  <2> SUFFICES ASSUME Init PROVE Inv
    OBVIOUS
  <2> USE NoneAssumption, SizeAssumption DEF Init
  <2>1. InOp = {} /\ Reserve = {}
    BY DEF InOp, Reserve
  <2>2. Cardinality(InOp) = 0 /\ Cardinality(Reserve) = 0
    BY <2>1, FS_EmptySet
  <2>3. committing \in BOOLEAN
    BY ZenonT(30)
  <2>4. TypeOK
    BY <2>3, EmptyLog DEF TypeOK
  <2>5. ProcInv
    BY <2>1, <2>2 DEF ProcInv, Recovering
  <2>6. RoomInv
    BY <2>1, <2>2, EmptyLog DEF RoomInv, Fits
  <2>7. CacheInv
    BY DEF CacheInv, Recovering, Locked, Cached
  <2>8. LogInv
    BY DEF LogInv, NoDup
  <2> QED
    BY <2>4, <2>5, <2>6, <2>7, <2>8 DEF Inv
<1>2. Inv /\ [Next]_vars => Inv'
  <2> SUFFICES ASSUME Inv, [Next]_vars PROVE Inv'
    OBVIOUS
  <2>1. TypeOK'
    BY TypeStep, InOpCount
  <2>2. ProcInv'
    BY ProcStep
  <2>3. outstanding' # 0 => InOp' # {}
    BY <2>2, FS_EmptySet DEF ProcInv
  <2> QED
    BY <2>1, <2>2, <2>3, RoomStep, CacheStep, LogStep DEF Inv
<1> QED
  BY <1>1, <1>2, PTL DEF Spec

-----------------------------------------------------------------------------
(* Consequences of the invariant *)

\* While a call is in progress the log has room for one more block.
LEMMA RoomLeft ==
  ASSUME Inv, Room, InOp # {}
  PROVE  ~TooBig
<1> USE SizeAssumption
<1>1. PICK p \in InOp : TRUE
  OBVIOUS
<1>2. Cardinality(wrote[p]) <= OpBlocks /\ Cardinality(wrote[p]) \in Nat
  BY <1>1, FiniteAssumption, FS_Subset, FS_CardinalityType
     DEF Inv, RoomInv, InOp, TypeOK
<1> DEFINE a == <<p, MAXOPBLOCKS>>
           b == <<p, MAXOPBLOCKS - 1>>
<1>3. a \in Reserve /\ b \in Reserve /\ a # b
  BY <1>1, <1>2 DEF Reserve, Room
<1>4. IsFiniteSet(Reserve) /\ Cardinality(Reserve) \in Nat
  <2>1. Reserve \subseteq InOp \X (1 .. MAXOPBLOCKS)
    BY DEF Reserve
  <2> QED
    BY <2>1, InOpCount, ReserveBound
<1> HIDE DEF a, b
<1>5. Cardinality(Reserve) >= 2
  <2>1. /\ IsFiniteSet(Reserve \ {a})
        /\ Cardinality(Reserve \ {a}) = Cardinality(Reserve) - 1
    BY <1>3, <1>4, FS_RemoveElement
  <2>2. b \in Reserve \ {a}
    BY <1>3
  <2>3. Cardinality(Reserve \ {a}) \in Nat /\ Cardinality(Reserve \ {a}) # 0
    BY <2>1, <2>2, FS_EmptySet, FS_CardinalityType
  <2> QED
    BY <1>4, <2>1, <2>3
<1>6. Len(lh) \in Nat /\ Len(lh) + Cardinality(Reserve) <= LOGSIZE
  BY DEF Inv, TypeOK, RoomInv
<1>7. Len(lh) + 2 <= LOGSIZE
  BY <1>4, <1>5, <1>6
<1> QED
  BY <1>6, <1>7 DEF TooBig, Room

\* The unlocked test of log_write stays true until it appends.
THEOREM AppendsFit ==
  ASSUME Room
  PROVE  Spec => []AppendFits
<1>1. Inv => AppendFits
  BY RoomLeft DEF AppendFits, InOp
<1> QED
  BY <1>1, Invariance, PTL

\* No call runs the log out of space, and end_op never meets a commit.
THEOREM NeverPanics ==
  ASSUME Room
  PROVE  Spec => []NoPanic
<1>1. Init => NoPanic
  BY DEF Init, NoPanic
<1>2. Inv /\ NoPanic /\ [Next]_vars => NoPanic'
  <2> SUFFICES ASSUME Inv, NoPanic, [Next]_vars,
                      NEW p \in Proc, pc'[p] = "panic"
               PROVE  FALSE
    BY DEF NoPanic
  <2> USE DEF memvars, procvars
  <2>1. PICK q \in Proc : EndOp(q) \/ \E v \in Val : LogWrite(q, v)
    BY ZenonT(30) DEF Next, NoPanic, Bread, Brelse, BeginOpSleep, BeginOp,
       Kill, LogAppend, EndCommit, Wakeup, WriteLog, WriteHead, InstallTrans,
       ClearHead, ReadHead, Crash, vars, Inv, TypeOK
  <2>2. CASE EndOp(q)
    BY <2>2, ZenonT(30) DEF EndOp, Wakeup, NoPanic, ProcInv, InOp, Inv, TypeOK
  <2>3. ASSUME NEW v \in Val, LogWrite(q, v)
        PROVE  FALSE
    <3>1. q \in InOp
      BY <2>3 DEF LogWrite, InOp
    <3>2. ~TooBig /\ outstanding >= 1
      BY <3>1, RoomLeft, InOpCount
    <3> QED
      BY <2>3, <3>2 DEF LogWrite, NoPanic, Inv, TypeOK
  <2> QED
    BY <2>1, <2>2, <2>3
<1> QED
  BY <1>1, <1>2, Invariance, PTL DEF Spec

\* Whoever sleeps in begin_op has a reason to.
THEOREM NoWakeupLost ==
  ASSUME Room
  PROVE  Spec => []NoLostWakeup
<1>1. Init => NoLostWakeup
  BY DEF Init, NoLostWakeup
<1>2. Inv /\ NoLostWakeup /\ [Next]_vars => NoLostWakeup'
  <2> SUFFICES ASSUME Inv, NoLostWakeup, [Next]_vars,
                      NEW p \in Proc, pc'[p] = "asleep"
               PROVE  MustWait'
    BY DEF NoLostWakeup
  <2> USE DEF memvars, procvars
  <2>1. ASSUME UNCHANGED <<lh, outstanding, committing>>, MustWait
        PROVE  MustWait'
    BY <2>1 DEF MustWait
  <2>2. ASSUME NEW q \in Proc, BeginOp(q)
        PROVE  MustWait'
    BY <2>2 DEF BeginOp, NoLostWakeup
  <2>3. ASSUME NEW q \in Proc, LogAppend(q)
        PROVE  MustWait'
    <3>1. /\ Len(lh') \in Nat /\ Len(lh') >= Len(lh) /\ MustWait
          /\ UNCHANGED <<outstanding, committing>>
      BY <2>3 DEF LogAppend, NoLostWakeup, ProcInv
    <3> QED
      BY <3>1, SizeAssumption DEF MustWait, Inv, TypeOK
  <2>4. ASSUME NEW q \in Proc, EndOp(q)
        PROVE  MustWait'
    BY <2>4, SizeAssumption, ZenonT(30) DEF EndOp, Wakeup, MustWait, ProcInv,
       InOp, Inv, TypeOK
  <2>5. CASE ClearHead
    BY <2>5 DEF ClearHead, MustWait
  <2>6. CASE ReadHead
    BY <2>6, SizeAssumption DEF ReadHead, ProcInv, Recovering, Inv, TypeOK
  <2>7. CASE Crash
    BY <2>7 DEF Crash
  <2>8. ASSUME NEW q \in Proc, EndCommit(q)
        PROVE  MustWait'
    BY <2>8 DEF EndCommit, Wakeup
  <2> QED
    BY <2>1, <2>2, <2>3, <2>4, <2>5, <2>6, <2>7, <2>8, SizeAssumption,
       ZenonT(30) DEF Next, NoLostWakeup, Bread, LogWrite, Brelse,
       BeginOpSleep, Kill, WriteLog, WriteHead, InstallTrans, vars, Inv, TypeOK
<1> QED
  BY <1>1, <1>2, Invariance, PTL DEF Spec

\* When no call is in progress and no commit is running, the home blocks hold
\* everything that was written.
THEOREM QuietIsDurable ==
  ASSUME Room
  PROVE  Spec => []DurableWhenQuiet
<1>1. Inv => DurableWhenQuiet
  <2> SUFFICES ASSUME Inv, stage = "up", InOp = {}
               PROVE  disk = View /\ hdr = <<>> /\ lh = <<>>
    BY DEF DurableWhenQuiet
  <2>1. hdr = <<>> /\ lh = <<>>
    BY DEF Inv, LogInv
  <2>2. dirty = {} /\ Modified = {}
    BY <2>1 DEF Inv, CacheInv, Recovering, Pending, Entries, Modified, InOp
  <2>3. \A b \in Block : bcache[b] \in {None, disk[b]}
    BY <2>2 DEF Inv, CacheInv
  <2> QED
    BY <2>1, <2>3 DEF View, Inv, TypeOK
<1> QED
  BY <1>1, Invariance, PTL

-----------------------------------------------------------------------------
(* Log implements Txn *)

\* log.c keeps its promise for any number of processes, blocks and values, any
\* interleaving of FS system calls, and crashes anywhere, in commit and in
\* recovery included: a reboot brings back exactly the last commit.
THEOREM ImplementsTxn ==
  ASSUME Room
  PROVE  Spec => TxnSpec
<1>1. Init => T!Init
  <2> SUFFICES ASSUME Init PROVE T!Init
    OBVIOUS
  <2>1. Recovering /\ InOp = {} /\ Recovered = disk
    BY DEF Init, Recovering, InOp, Recovered, Entries
  <2> QED
    BY <2>1 DEF T!Init, Init
<1>2. Inv /\ Inv' /\ [Next]_vars => [T!Next]_(T!vars)
  BY TxnStep
<1> QED
  BY <1>1, <1>2, Invariance, PTL DEF Spec, TxnSpec, T!Spec
=============================================================================
