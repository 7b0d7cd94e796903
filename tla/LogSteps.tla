----------------------------- MODULE LogSteps ------------------------------
(***************************************************************************)
(* What single steps of Log do to its invariant and to Txn: the lemmas     *)
(* that LogProofs puts together.  Every step lemma has one step per action *)
(* of Next, in the order of Next.                                          *)
(***************************************************************************)
EXTENDS Log, TLAPS

\* A leaf that names no prover is tried with SMT, then with Zenon.
USE SMTT(30), ZenonT(30)

\* log_write's append adds one block to the header and no duplicate.
LEMMA AppendEntry ==
  ASSUME NEW s \in Seq(Block), NEW b \in Block
  PROVE  /\ Entries(Append(s, b)) = Entries(s) \cup {b}
         /\ NoDup(s) /\ b \notin Entries(s) => NoDup(Append(s, b))
<1> DEFINE t == Append(s, b)
<1>1. /\ Len(s) \in Nat /\ DOMAIN s = 1 .. Len(s)
      /\ DOMAIN t = 1 .. Len(s) + 1
      /\ t[Len(s) + 1] = b
      /\ \A i \in 1 .. Len(s) : t[i] = s[i]
  OBVIOUS
<1> HIDE DEF t
<1>2. Entries(t) = Entries(s) \cup {b}
  BY <1>1 DEF Entries
<1>3. NoDup(s) /\ b \notin Entries(s) => NoDup(t)
  BY <1>1 DEF Entries, NoDup
<1> QED
  BY <1>2, <1>3 DEF t

\* The header with lh.n = 0 is the empty one.
LEMMA EmptyLog ==
  ASSUME NEW s \in Seq(Block)
  PROVE  s = <<>> <=> Len(s) = 0
OBVIOUS

\* The entry that write_log or install_trans copies next.
LEMMA NextEntry ==
  ASSUME Inv, tail < Len(lh)
  PROVE  tail + 1 \in DOMAIN lh /\ lh[tail + 1] \in Block
<1>1. lh \in Seq(Block) /\ tail \in Nat
  BY SizeAssumption DEF Inv, TypeOK
<1> QED
  BY <1>1

\* No step of log.c leaves the ranges of its variables: lh.n, the loop counters
\* and the buffers a process may hold.
LEMMA TypeStep ==
  ASSUME Inv, Room, [Next]_vars,
         InOp # {} => outstanding >= 1
  PROVE  TypeOK'
<1> USE DEF diskvars, memvars, procvars
<1>1. ASSUME NEW p \in Proc, NEW b \in Block, Bread(p, b)
      PROVE  TypeOK'
  BY <1>1, ZenonT(30) DEF Bread, Without, Evict, Inv, TypeOK
<1>2. ASSUME NEW p \in Proc, NEW v \in Val, LogWrite(p, v)
      PROVE  TypeOK'
  BY <1>2 DEF LogWrite, Inv, TypeOK
<1>3. ASSUME NEW p \in Proc, Brelse(p)
      PROVE  TypeOK'
  BY <1>3 DEF Brelse, Inv, TypeOK
<1>4. ASSUME NEW p \in Proc, BeginOpSleep(p)
      PROVE  TypeOK'
  BY <1>4 DEF BeginOpSleep, Inv, TypeOK
<1>5. ASSUME NEW p \in Proc, BeginOp(p)
      PROVE  TypeOK'
  BY <1>5 DEF BeginOp, Inv, TypeOK
<1>6. ASSUME NEW p \in Proc, Kill(p)
      PROVE  TypeOK'
  BY <1>6 DEF Kill, Inv, TypeOK
<1>7. ASSUME NEW p \in Proc, LogAppend(p)
      PROVE  TypeOK'
  <2>1. held[p] \in Block
    BY <1>7 DEF LogAppend, ProcInv, Inv, TypeOK
  <2> QED
    BY <1>7, <2>1 DEF LogAppend, Inv, TypeOK
<1>8. ASSUME NEW p \in Proc, EndOp(p)
      PROVE  TypeOK'
  <2>1. outstanding >= 1
    BY <1>8 DEF EndOp, InOp
  <2>2. outstanding' \in Nat
    BY <1>8, <2>1 DEF EndOp, Inv, TypeOK
  <2>3. pc' \in [Proc -> {"down", "idle", "asleep", "woken", "op", "log_write",
                         "commit", "panic"}]
    BY <1>8, NoneAssumption, SizeAssumption, ZenonT(30) DEF EndOp, Wakeup, Inv,
       TypeOK
  <2>4. committing' \in BOOLEAN
    BY <1>8, ZenonT(30) DEF EndOp, Inv, TypeOK
  <2>5. stage' \in {"write_log", "committed", stage} /\ tail' \in 0 .. LOGSIZE
    BY <1>8, NoneAssumption, SizeAssumption DEF EndOp, Inv, TypeOK
  <2>6. UNCHANGED <<disk, logd, hdr, bcache, dirty, lh, held, wrote>>
    BY <1>8 DEF EndOp
  <2> QED
    BY <2>2, <2>3, <2>4, <2>5, <2>6 DEF Inv, TypeOK
<1>9. ASSUME NEW p \in Proc, EndCommit(p)
      PROVE  TypeOK'
  BY <1>9, ZenonT(30) DEF EndCommit, Wakeup, Inv, TypeOK
<1>10. CASE WriteLog
  BY <1>10, NoneAssumption, SizeAssumption DEF WriteLog, Without, Evict, View,
     RoomInv, Fits, Inv, TypeOK
<1>11. CASE WriteHead
  BY <1>11, NoneAssumption, SizeAssumption DEF WriteHead, Inv, TypeOK
<1>12. CASE InstallTrans
  BY <1>12, NoneAssumption, SizeAssumption DEF InstallTrans, Without, Evict,
     RoomInv, Fits, Inv, TypeOK
<1>13. CASE ClearHead
  BY <1>13 DEF ClearHead, Inv, TypeOK
<1>14. CASE ReadHead
  BY <1>14, NoneAssumption, SizeAssumption DEF ReadHead, Inv, TypeOK
<1>15. CASE Crash
  <2>a. committing' \in BOOLEAN
    BY <1>15, ZenonT(30) DEF Crash
  <2>1. outstanding' \in Nat /\ stage' = "read_head" /\ tail' \in 0 .. LOGSIZE
    BY <1>15, NoneAssumption, SizeAssumption DEF Crash, Inv, TypeOK
  <2>2. /\ bcache' \in [Block -> Val \cup {None}]
        /\ dirty' \subseteq Block /\ lh' \in Seq(Block)
    BY <1>15 DEF Crash
  <2>3. /\ pc' \in [Proc -> {"down"}]
        /\ held' \in [Proc -> Block \cup {None}]
        /\ wrote' \in [Proc -> SUBSET Block]
    BY <1>15 DEF Crash
  <2>4. UNCHANGED <<disk, logd, hdr>>
    BY <1>15 DEF Crash
  <2> QED
    BY <2>a, <2>1, <2>2, <2>3, <2>4 DEF Inv, TypeOK
<1>16. CASE UNCHANGED vars
  BY <1>16 DEF vars, Inv, TypeOK
<1> QED
  BY <1>1, <1>2, <1>3, <1>4, <1>5, <1>6, <1>7, <1>8, <1>9, <1>10, <1>11,
     <1>12, <1>13, <1>14, <1>15, <1>16 DEF Next

\* log_write pins a block with B_DIRTY, install_trans lets it go, and bget
\* recycles neither pinned nor locked buffers.
LEMMA CacheStep ==
  ASSUME Inv, [Next]_vars
  PROVE  CacheInv'
<1> USE DEF diskvars, memvars, procvars
<1>1. ASSUME NEW p \in Proc, NEW b \in Block, Bread(p, b)
      PROVE  CacheInv'
  <2>1. UNCHANGED <<dirty, disk, lh, stage, tail, committing, pc>>
    BY <1>1 DEF Bread
  <2>2. \A q \in Proc : held'[q] = IF q = p THEN b ELSE held[q]
    BY <1>1 DEF Bread, Inv, TypeOK
  <2>3. \A c \in Block : \/ bcache'[c] = bcache[c]
                         \/ c = b /\ bcache'[c] = disk[c]
                         \/ c # b /\ c \in Recyclable /\ bcache'[c] = None
    <3>1. CASE bcache[b] # None
      BY <1>1, <3>1 DEF Bread
    <3>2. CASE bcache[b] = None
      <4>1. PICK gone \in Evict(1) :
                bcache' = [Without(gone) EXCEPT ![b] = disk[b]]
        BY <1>1, <3>2 DEF Bread
      <4> QED
        BY <4>1 DEF Without, Evict
    <3> QED
      BY <3>1, <3>2
  <2>4. bcache'[b] # None
    <3>1. disk[b] # None
      BY NoneAssumption, SizeAssumption DEF Inv, TypeOK
    <3> QED
      BY <1>1, <3>1, <2>3 DEF Bread, Recyclable, Cached, Without, Evict
  <2>5. Modified' = Modified
    BY <1>1, <2>1, <2>2 DEF Modified, Bread
  <2>6. dirty' \cup Locked' \subseteq Cached'
    BY <2>1, <2>2, <2>3, <2>4 DEF CacheInv, Locked, Recyclable, Cached, Inv,
       ProcInv, InOp, Recovering
  <2>7. Pending' = Pending
    BY <2>1 DEF Pending, Entries
  <2> QED
    BY <2>1, <2>3, <2>5, <2>6, <2>7 DEF CacheInv, Inv, ProcInv, InOp,
       Recovering
<1>2. ASSUME NEW p \in Proc, NEW v \in Val, LogWrite(p, v)
      PROVE  CacheInv'
  BY <1>2, NoneAssumption, SizeAssumption DEF LogWrite, CacheInv, Pending,
     Entries, Modified, Locked, Cached, Inv, TypeOK, ProcInv, InOp, Recovering
<1>3. ASSUME NEW p \in Proc, Brelse(p)
      PROVE  CacheInv'
  <2>1. UNCHANGED <<dirty, disk, bcache, lh, stage, tail, committing, pc>>
    BY <1>3 DEF Brelse
  <2>2. \A q \in Proc : held'[q] = IF q = p THEN None ELSE held[q]
    BY <1>3 DEF Brelse, Inv, TypeOK
  <2>3. Modified' = Modified
    BY <1>3, <2>1, <2>2 DEF Modified, Brelse
  <2>4. dirty' \cup Locked' \subseteq Cached'
    BY <2>1, <2>2 DEF CacheInv, Locked, Cached, Inv, TypeOK
  <2>5. Pending' = Pending
    BY <2>1 DEF Pending, Entries
  <2> QED
    BY <2>1, <2>3, <2>4, <2>5 DEF CacheInv, Inv, ProcInv, InOp, Recovering
<1>4. ASSUME NEW p \in Proc, BeginOpSleep(p)
      PROVE  CacheInv'
  BY <1>4 DEF BeginOpSleep, CacheInv, Pending, Entries, Modified, Locked,
     Cached, Inv, ProcInv, InOp, Recovering
<1>5. ASSUME NEW p \in Proc, BeginOp(p)
      PROVE  CacheInv'
  BY <1>5 DEF BeginOp, CacheInv, Pending, Entries, Modified, Locked, Cached,
     Inv, ProcInv, InOp, Recovering
<1>6. ASSUME NEW p \in Proc, Kill(p)
      PROVE  CacheInv'
  BY <1>6 DEF Kill, CacheInv, Pending, Entries, Modified, Locked, Cached, Inv,
     ProcInv, InOp, Recovering
<1>7. ASSUME NEW p \in Proc, LogAppend(p)
      PROVE  CacheInv'
  <2> DEFINE b == held[p]
  <2>1. stage = "up" /\ ~committing /\ b \in Block
    BY <1>7 DEF LogAppend, Inv, TypeOK, ProcInv, InOp, Recovering
  <2>2. Entries(lh') = Entries(lh) \cup {b}
    BY <1>7, <2>1, AppendEntry DEF LogAppend, Inv, TypeOK
  <2>3. dirty' = dirty \cup {b} /\ UNCHANGED <<stage, committing, disk, bcache>>
    BY <1>7 DEF LogAppend
  <2>4. dirty' = IF Recovering' THEN {} ELSE Pending'
    BY <2>1, <2>2, <2>3 DEF CacheInv, Pending, Inv, ProcInv, InOp, Recovering
  <2>5. \A q \in Proc : /\ held'[q] = IF q = p THEN None ELSE held[q]
                        /\ pc'[q] = IF q = p THEN "op" ELSE pc[q]
    BY <1>7 DEF LogAppend, Inv, TypeOK
  <2>6. dirty' \cup Locked' \subseteq Cached'
    BY <2>1, <2>3, <2>5, NoneAssumption, SizeAssumption DEF CacheInv, Locked,
       Cached, Inv, TypeOK, ProcInv, InOp, Recovering
  <2>7. Modified \subseteq Modified' \cup {b}
    BY <2>5 DEF Modified
  <2> QED
    BY <2>3, <2>4, <2>6, <2>7 DEF CacheInv, Inv, TypeOK
<1>8. ASSUME NEW p \in Proc, EndOp(p)
      PROVE  CacheInv'
  <2>1. stage = "up" /\ ~committing
    BY <1>8 DEF EndOp, Inv, ProcInv, InOp, Recovering
  <2>2. UNCHANGED <<dirty, disk, bcache, lh, held>>
    BY <1>8 DEF EndOp
  <2>3. \/ UNCHANGED <<stage, committing>>
        \/ committing' /\ stage' \in {"write_log", "committed"}
    BY <1>8 DEF EndOp
  <2>4. Pending' = Pending /\ ~Recovering /\ ~Recovering'
    BY <2>1, <2>2, <2>3 DEF Pending, Entries, Inv, ProcInv, InOp, Recovering
  <2>5. Modified' = Modified
    <3>1. \A q \in Proc : pc'[q] \in {"log_write", "panic"}
                             <=> pc[q] \in {"log_write", "panic"}
      BY <1>8, <2>1, ZenonT(30) DEF EndOp, Wakeup, Inv, TypeOK
    <3> QED
      BY <2>2, <3>1 DEF Modified
  <2> QED
    BY <2>2, <2>4, <2>5 DEF CacheInv, Locked, Cached, Inv, TypeOK
<1>9. ASSUME NEW p \in Proc, EndCommit(p)
      PROVE  CacheInv'
  BY <1>9 DEF EndCommit, Wakeup, CacheInv, Pending, Entries, Modified, Locked,
     Cached, Inv, ProcInv, InOp, Recovering
<1>10. CASE WriteLog
  BY <1>10 DEF WriteLog, Without, Evict, Recyclable, CacheInv, Pending,
     Entries, Modified, Locked, Cached, Inv, ProcInv, InOp, Recovering
<1>11. CASE WriteHead
  <2>1. committing /\ UNCHANGED <<dirty, disk, bcache, lh, held, committing, pc>>
    BY <1>11 DEF WriteHead, Inv, ProcInv, InOp, Recovering
  <2>2. Pending' = Pending
    <3>1. Entries(lh) = {lh[i] : i \in 0 + 1 .. Len(lh)}
      BY DEF Entries, Inv, ProcInv, InOp, Recovering
    <3> QED
      BY <1>11, <2>1, <3>1 DEF WriteHead, Pending
  <2>3. Modified' = Modified /\ Locked' = Locked /\ Cached' = Cached
    BY <2>1 DEF Modified, Locked, Cached
  <2> QED
    BY <2>1, <2>2, <2>3, <1>11 DEF CacheInv, WriteHead, Inv, ProcInv, InOp,
       Recovering
<1>12. CASE InstallTrans
  <2> DEFINE b == lh[tail + 1]
  <2>1. b \in Block /\ b \notin Locked
    BY <1>12 DEF InstallTrans, Inv, TypeOK
  <2>2. \A c \in Block : disk'[c] = IF c = b THEN logd[tail + 1] ELSE disk[c]
    BY <1>12 DEF InstallTrans, Inv, TypeOK
  <2>3. \A c \in Block : \/ c # b /\ bcache'[c] = bcache[c]
                         \/ c = b /\ bcache'[c] = logd[tail + 1]
                         \/ c # b /\ c \in Recyclable /\ bcache'[c] = None
    BY <1>12, <2>1 DEF InstallTrans, Without, Evict
  <2>4. dirty' = dirty \ {b} /\ UNCHANGED <<lh, committing, held, pc>>
    BY <1>12 DEF InstallTrans
  <2>5. bcache'[b] # None
    BY <1>12, <2>1, <2>3, NoneAssumption, SizeAssumption DEF RoomInv, Fits,
       InstallTrans, Inv, TypeOK
  <2>6. dirty' \cup Locked' \subseteq Cached'
    BY <2>1, <2>3, <2>4, <2>5 DEF CacheInv, Locked, Cached, Recyclable, Inv,
       ProcInv, InOp, Recovering
  <2>7. Pending' = Pending \ {b}
    BY <1>12 DEF InstallTrans, Pending, LogInv, NoDup, Inv, TypeOK
  <2>8. Recovering' = Recovering
    BY <1>12 DEF InstallTrans, Inv, ProcInv, InOp, Recovering
  <2>9. Modified' = Modified
    BY <2>4 DEF Modified
  <2> QED
    BY <2>2, <2>3, <2>4, <2>6, <2>7, <2>8, <2>9 DEF CacheInv, Inv, TypeOK
<1>13. CASE ClearHead
  BY <1>13 DEF ClearHead, CacheInv, Pending, Entries, Modified, Locked,
     Cached, Inv, ProcInv, InOp, Recovering
<1>14. CASE ReadHead
  BY <1>14 DEF ReadHead, CacheInv, Pending, Entries, Modified, Locked, Cached,
     Inv, ProcInv, InOp, Recovering
<1>15. CASE Crash
  BY <1>15 DEF Crash, CacheInv, Pending, Entries, Modified, Locked, Cached
<1>16. CASE UNCHANGED vars
  BY <1>16 DEF vars, CacheInv, Pending, Entries, Modified, Locked, Cached,
     Inv, TypeOK, ProcInv, InOp, Recovering
<1> QED
  BY <1>1, <1>2, <1>3, <1>4, <1>5, <1>6, <1>7, <1>8, <1>9, <1>10, <1>11,
     <1>12, <1>13, <1>14, <1>15, <1>16 DEF Next

\* The disk writes of commit and recovery, in the order of the code, take the
\* log from one stage to the next.
LEMMA LogStep ==
  ASSUME Inv, [Next]_vars,
         outstanding' # 0 => InOp' # {}
  PROVE  LogInv'
<1> USE DEF diskvars, memvars, procvars
<1>a. \* Logged blocks stay cached until they are installed.
      /\ committing => \A i \in DOMAIN lh :
            stage \in {"write_log", "write_head"} \/
            (stage = "install_trans" /\ i > tail) => lh[i] \in dirty
      /\ \A c \in dirty : bcache[c] # None
  <2>1. \A c \in dirty : bcache[c] # None
    BY DEF CacheInv, Cached, Inv, TypeOK
  <2>2. committing => dirty = Pending
    BY DEF CacheInv, Inv, ProcInv, InOp, Recovering
  <2>3. \A i \in DOMAIN lh :
            stage \in {"write_log", "write_head"} \/
            (stage = "install_trans" /\ i > tail) => lh[i] \in Pending
    <3>1. CASE stage = "install_trans"
      <4>1. Pending = {lh[i] : i \in tail + 1 .. Len(lh)}
        BY <3>1 DEF Pending
      <4>2. \A i \in DOMAIN lh : i > tail => i \in tail + 1 .. Len(lh)
        BY DEF Inv, TypeOK
      <4> QED
        BY <3>1, <4>1, <4>2
    <3>2. CASE stage \in {"write_log", "write_head"}
      BY <3>2 DEF Pending, Entries
    <3> QED
      BY <3>1, <3>2
  <2> QED
    BY <2>1, <2>2, <2>3
<1>b. \* What is left to show when only the cache changes.
      ASSUME UNCHANGED <<disk, logd, hdr, lh, stage, tail, committing, InOp>>,
             \A c \in dirty : bcache'[c] = bcache[c]
      PROVE  LogInv'
  <2>1. stage = "write_log" => \A i \in 1 .. tail : logd'[i] = bcache'[lh'[i]]
    BY <1>a, <1>b DEF LogInv, Inv, TypeOK, ProcInv, InOp, Recovering
  <2>2. stage = "write_head" => \A i \in DOMAIN lh : logd'[i] = bcache'[lh'[i]]
    BY <1>a, <1>b DEF LogInv, Inv, ProcInv, InOp, Recovering
  <2>3. stage = "install_trans" /\ committing =>
            \A i \in tail + 1 .. Len(lh) : bcache'[lh'[i]] = logd'[i]
    BY <1>a, <1>b DEF LogInv, Inv, TypeOK
  <2> QED
    BY <1>b, <2>1, <2>2, <2>3 DEF LogInv, NoDup, Inv, TypeOK
<1>1. ASSUME NEW p \in Proc, NEW b \in Block, Bread(p, b)
      PROVE  LogInv'
  <2>1. \A c \in dirty : bcache'[c] = bcache[c]
    <3>1. CASE bcache[b] # None
      BY <1>1, <3>1 DEF Bread
    <3>2. CASE bcache[b] = None
      <4>1. PICK gone \in Evict(1) :
                bcache' = [Without(gone) EXCEPT ![b] = disk[b]]
        BY <1>1, <3>2 DEF Bread
      <4> QED
        BY <1>a, <3>2, <4>1 DEF Without, Evict, Recyclable, Inv, TypeOK
    <3> QED
      BY <3>1, <3>2
  <2> QED
    BY <1>1, <1>b, <2>1 DEF Bread, Inv, ProcInv, InOp, Recovering
<1>2. ASSUME NEW p \in Proc, NEW v \in Val, LogWrite(p, v)
      PROVE  LogInv'
  BY <1>2 DEF LogWrite, LogInv, NoDup, Inv, ProcInv, InOp, Recovering
<1>3. ASSUME NEW p \in Proc, Brelse(p)
      PROVE  LogInv'
  BY <1>3, <1>b DEF Brelse, Inv, ProcInv, InOp, Recovering
<1>4. ASSUME NEW p \in Proc, BeginOpSleep(p)
      PROVE  LogInv'
  BY <1>4, <1>b DEF BeginOpSleep, Inv, ProcInv, InOp, Recovering
<1>5. ASSUME NEW p \in Proc, BeginOp(p)
      PROVE  LogInv'
  BY <1>5 DEF BeginOp, LogInv, NoDup, Inv, TypeOK
<1>6. ASSUME NEW p \in Proc, Kill(p)
      PROVE  LogInv'
  BY <1>6, <1>b DEF Kill, Inv, ProcInv, InOp, Recovering
<1>7. ASSUME NEW p \in Proc, LogAppend(p)
      PROVE  LogInv'
  <2>1. stage = "up" /\ held[p] \in Block /\ p \in InOp'
    BY <1>7, NoneAssumption, SizeAssumption DEF LogAppend, Inv, TypeOK,
       ProcInv, InOp, Recovering
  <2>2. UNCHANGED <<stage, hdr>>
    BY <1>7 DEF LogAppend
  <2>3. NoDup(lh')
    BY <1>7, <2>1, AppendEntry DEF LogAppend, LogInv, Inv, TypeOK
  <2> QED
    BY <2>1, <2>2, <2>3 DEF LogInv, Inv, TypeOK
<1>8. ASSUME NEW p \in Proc, EndOp(p)
      PROVE  LogInv'
  <2>1. stage = "up" /\ ~committing
    BY <1>8 DEF EndOp, Inv, ProcInv, InOp, Recovering
  <2>2. UNCHANGED <<hdr, lh>>
    BY <1>8 DEF EndOp
  <2>3. CASE outstanding' = 0
    <3>1. stage' = IF lh = <<>> THEN "committed" ELSE "write_log"
      BY <1>8, <2>1, <2>3, ZenonT(30) DEF EndOp
    <3>2. tail' = 0
      BY <1>8, <2>1, <2>3, ZenonT(30) DEF EndOp
    <3>3. lh # <<>> => 0 < Len(lh)
      BY EmptyLog
    <3> QED
      BY <2>1, <2>2, <3>1, <3>2, <3>3 DEF LogInv, NoDup, Inv, TypeOK
  <2>4. CASE outstanding' # 0
    <3>1. stage' = "up"
      BY <1>8, <2>1, <2>4 DEF EndOp
    <3>2. InOp' # {}
      BY <2>4
    <3> QED
      BY <2>1, <2>2, <3>1, <3>2 DEF LogInv, NoDup, Inv, TypeOK
  <2> QED
    BY <2>3, <2>4
<1>9. ASSUME NEW p \in Proc, EndCommit(p)
      PROVE  LogInv'
  BY <1>9 DEF EndCommit, LogInv, NoDup, Inv, ProcInv, InOp, Recovering
<1>10. CASE WriteLog
  <2> DEFINE b == lh[tail + 1]
  <2>1. tail + 1 \in DOMAIN lh /\ committing /\ b \in Block
    <3>1. stage = "write_log" /\ tail < Len(lh)
      BY <1>10, ZenonT(30) DEF WriteLog
    <3>2. committing
      BY <3>1 DEF Inv, ProcInv, Recovering
    <3> QED
      BY <3>1, <3>2, NextEntry
  <2>2. View[b] = bcache[b]
    BY <1>10, <1>a, <2>1 DEF WriteLog, View
  <2>3. \A c \in dirty : bcache'[c] = bcache[c]
    BY <1>10 DEF WriteLog, Without, Evict, Recyclable, CacheInv, Inv, TypeOK
  <2>4. \A i \in DOMAIN lh : lh[i] \in dirty
    BY <1>10, <1>a, <2>1 DEF WriteLog
  <2>5. tail + 1 \in 1 .. NLog - 1
    BY <2>1, NoneAssumption, SizeAssumption DEF RoomInv, Fits, Inv, TypeOK
  <2>6. \A i \in 1 .. tail + 1 : logd'[i] = bcache'[lh[i]]
    BY <1>10, <2>1, <2>2, <2>3, <2>4, <2>5 DEF WriteLog, LogInv, Inv, TypeOK
  <2>7. /\ UNCHANGED <<hdr, lh, disk>> /\ tail' = tail + 1
        /\ stage' = IF tail + 1 = Len(lh) THEN "write_head" ELSE "write_log"
    BY <1>10, ZenonT(30) DEF WriteLog
  <2> QED
    BY <1>10, <2>1, <2>6, <2>7, EmptyLog DEF WriteLog, LogInv, NoDup, Inv,
       ProcInv, InOp, Recovering
<1>11. CASE WriteHead
  <2>1. 0 < Len(lh)
    BY <1>11, EmptyLog DEF WriteHead, LogInv, Inv, TypeOK
  <2>2. /\ hdr' = lh /\ stage' = "install_trans" /\ tail' = 0
        /\ UNCHANGED <<logd, bcache, lh>>
    BY <1>11 DEF WriteHead
  <2>3. \A i \in 1 .. Len(lh) : bcache'[lh'[i]] = logd'[i]
    <3>1. \A i \in DOMAIN lh : logd[i] = bcache[lh[i]]
      BY <1>11, NoneAssumption, SizeAssumption DEF WriteHead, LogInv, Inv,
         TypeOK
    <3>2. DOMAIN lh = 1 .. Len(lh)
      OBVIOUS
    <3>3. bcache' = bcache /\ lh' = lh /\ logd' = logd
      BY <2>2
    <3> HIDE DEF Inv
    <3> QED
      BY <3>1, <3>2, <3>3
  <2> QED
    BY <2>1, <2>2, <2>3 DEF LogInv, NoDup, Inv, TypeOK
<1>12. CASE InstallTrans
  <2> DEFINE b == lh[tail + 1]
  <2>1. tail + 1 \in DOMAIN lh /\ b \in Block
    BY <1>12, NextEntry, ZenonT(30) DEF InstallTrans
  <2>2. \A c \in Block : disk'[c] = IF c = b THEN logd[tail + 1] ELSE disk[c]
    BY <1>12 DEF InstallTrans, Inv, TypeOK
  <2>3. \A c \in dirty \ {b} : bcache'[c] = bcache[c]
    BY <1>12, <2>1 DEF InstallTrans, Without, Evict, Recyclable, Inv, TypeOK
  <2>4. /\ UNCHANGED <<hdr, lh, logd, committing>> /\ tail' = tail + 1
        /\ stage' = IF tail + 1 = Len(lh) THEN "clear_head" ELSE "install_trans"
    BY <1>12 DEF InstallTrans
  <2>5. \A i \in DOMAIN lh : lh[i] \in Block /\ (lh[i] = b => i = tail + 1)
    BY <2>1 DEF LogInv, NoDup, Inv, TypeOK
  <2>6. \A i \in 1 .. tail + 1 : disk'[lh[i]] = logd[i]
    BY <1>12, <2>1, <2>2, <2>5, NoneAssumption, SizeAssumption
       DEF InstallTrans, LogInv, Inv, TypeOK
  <2>7. committing => \A i \in tail + 2 .. Len(lh) : bcache'[lh[i]] = logd[i]
    <3> SUFFICES ASSUME committing, NEW i \in tail + 2 .. Len(lh)
                 PROVE  bcache'[lh[i]] = logd[i]
      OBVIOUS
    <3>1. stage = "install_trans"
      BY <1>12, ZenonT(30) DEF InstallTrans
    <3>2. /\ i \in DOMAIN lh /\ i > tail /\ i # tail + 1
          /\ i \in tail + 1 .. Len(lh)
      BY SizeAssumption DEF Inv, TypeOK
    <3>3. bcache[lh[i]] = logd[i]
      BY <3>1, <3>2 DEF Inv, LogInv
    <3>4. lh[i] \in dirty \ {b}
      BY <1>a, <2>5, <3>1, <3>2
    <3> QED
      BY <2>3, <3>3, <3>4
  <2> QED
    BY <1>12, <2>1, <2>4, <2>6, <2>7 DEF InstallTrans, LogInv, NoDup, Inv,
       TypeOK
<1>13. CASE ClearHead
  BY <1>13 DEF ClearHead, LogInv, NoDup
<1>14. CASE ReadHead
  BY <1>14, EmptyLog DEF ReadHead, LogInv, NoDup, Inv, TypeOK, ProcInv, InOp,
     Recovering
<1>15. CASE Crash
  BY <1>15 DEF Crash, LogInv, NoDup, Inv, TypeOK
<1>16. CASE UNCHANGED vars
  BY <1>16, <1>b, ZenonT(30) DEF vars, Inv, ProcInv, InOp, Recovering
<1> QED
  BY <1>1, <1>2, <1>3, <1>4, <1>5, <1>6, <1>7, <1>8, <1>9, <1>10, <1>11,
     <1>12, <1>13, <1>14, <1>15, <1>16 DEF Next

-----------------------------------------------------------------------------
(* Steps of Log as steps of Txn *)

\* A header without duplicates names each of its blocks at one index.
LEMMA IndexOfEntry ==
  ASSUME NEW h \in Seq(Block), NoDup(h), NEW i \in DOMAIN h
  PROVE  h[i] \in Entries(h) /\ IndexOf(h, h[i]) = i
BY DEF NoDup, Entries, IndexOf

\* Recycling clean buffers does not change what bread returns.
LEMMA RecycleKeepsView ==
  ASSUME Inv, NEW c \in Recyclable
  PROVE  c \in Block /\ bcache[c] = disk[c]
BY DEF Recyclable, Inv, CacheInv, Cached, Locked, Modified, ProcInv

\* Contents and recovered contents are functions of the block.
LEMMA BlockByBlock ==
  /\ (\A c \in Block : View'[c] = View[c]) => View' = View
  /\ (\A c \in Block : Recovered'[c] = Recovered[c]) => Recovered' = Recovered
  /\ (\A c \in Block : Recovered'[c] = View[c]) => Recovered' = View
<1>1. (\A c \in Block : View'[c] = View[c]) => View' = View
  BY ZenonT(30) DEF View
<1>2. (\A c \in Block : Recovered'[c] = Recovered[c]) => Recovered' = Recovered
  BY ZenonT(30) DEF Recovered
<1>3. (\A c \in Block : Recovered'[c] = View[c]) => Recovered' = View
  BY ZenonT(30) DEF Recovered, View
<1> QED
  BY <1>1, <1>2, <1>3

\* Every step of log.c is a step of the transaction store or changes nothing
\* of it: write_head of a full header is the commit.
LEMMA TxnStep ==
  ASSUME Inv, Inv', [Next]_vars
  PROVE  [T!Next]_(T!vars)
<1> USE DEF diskvars, memvars, procvars
<1> DEFINE Mem == IF Recovering THEN Recovered ELSE View
<1>a. ASSUME Mem' = Mem, Recovered' = Recovered, InOp' = InOp
      PROVE  [T!Next]_(T!vars)
  BY <1>a DEF T!vars
<1>b. UNCHANGED <<disk, logd, hdr>> => Recovered' = Recovered
  BY DEF Recovered
<1>c. UNCHANGED <<disk, bcache>> => View' = View
  BY DEF View
<1>d. UNCHANGED <<stage, committing>> => Recovering' = Recovering
  BY DEF Recovering
<1>1. ASSUME NEW p \in Proc, NEW b \in Block, Bread(p, b)
      PROVE  [T!Next]_(T!vars)
  <2>1. View' = View
    <3>1. CASE bcache[b] # None
      BY <1>1, <1>c, <3>1, ZenonT(30) DEF Bread
    <3>2. CASE bcache[b] = None
      <4>1. PICK gone \in Evict(1) :
                bcache' = [Without(gone) EXCEPT ![b] = disk[b]]
        BY <1>1, <3>2 DEF Bread
      <4>2. disk' = disk
        BY <1>1 DEF Bread
      <4>3. \A c \in Block : View'[c] = View[c]
        BY <3>2, <4>1, <4>2, RecycleKeepsView DEF View, Without, Evict
      <4> QED
        BY <4>3, BlockByBlock
    <3> QED
      BY <3>1, <3>2, ZenonT(30)
  <2> QED
    BY <1>1, <1>a, <1>b, <1>d, <2>1 DEF Bread, InOp
<1>2. ASSUME NEW p \in Proc, NEW v \in Val, LogWrite(p, v)
      PROVE  [T!Next]_(T!vars)
  <2> DEFINE b == held[p]
  <2>1. b \in Block /\ ~Recovering /\ ~Recovering' /\ p \in InOp
    BY <1>2, NoneAssumption, SizeAssumption DEF LogWrite, ProcInv, Recovering,
       InOp, Inv, TypeOK
  <2>2. View' = [View EXCEPT ![b] = v]
    BY <1>2, <2>1, NoneAssumption, SizeAssumption, ZenonT(30) DEF LogWrite,
       View, Inv, TypeOK
  <2>a. /\ pc[p] = "op" /\ pc'[p] \in {"panic", "log_write"}
        /\ \A q \in Proc \ {p} : pc'[q] = pc[q]
    BY <1>2 DEF LogWrite, Inv, TypeOK
  <2>3. InOp' = InOp /\ Recovered' = Recovered
    <3>1. InOp' = InOp
      BY <2>a DEF InOp
    <3> QED
      BY <1>2, <1>b, <3>1, ZenonT(30) DEF LogWrite
  <2>4. T!Write(p, b, v)
    BY <2>1, <2>2, <2>3 DEF T!Write
  <2> QED
    BY <2>1, <2>4 DEF T!Next
<1>3. ASSUME NEW p \in Proc, Brelse(p)
      PROVE  [T!Next]_(T!vars)
  BY <1>3, <1>a, <1>b, <1>c, <1>d DEF Brelse, InOp
<1>4. ASSUME NEW p \in Proc, BeginOpSleep(p)
      PROVE  [T!Next]_(T!vars)
  BY <1>4, <1>a, <1>b, <1>c, <1>d DEF BeginOpSleep, InOp
<1>5. ASSUME NEW p \in Proc, BeginOp(p)
      PROVE  [T!Next]_(T!vars)
  <2>1. InOp' = InOp \cup {p} /\ p \notin InOp
    BY <1>5 DEF BeginOp, InOp, Inv, TypeOK
  <2>2. Mem' = Mem /\ Recovered' = Recovered
    BY <1>5, <1>b, <1>c, <1>d DEF BeginOp
  <2>3. T!Begin(p)
    BY <2>1, <2>2 DEF T!Begin
  <2> QED
    BY <2>3 DEF T!Next
<1>6. ASSUME NEW p \in Proc, Kill(p)
      PROVE  [T!Next]_(T!vars)
  BY <1>6, <1>a, <1>b, <1>c, <1>d DEF Kill, InOp
<1>7. ASSUME NEW p \in Proc, LogAppend(p)
      PROVE  [T!Next]_(T!vars)
  BY <1>7, <1>a, <1>b, <1>c, <1>d DEF LogAppend, InOp
<1>8. ASSUME NEW p \in Proc, EndOp(p)
      PROVE  [T!Next]_(T!vars)
  <2>1. stage = "up" /\ ~committing /\ p \in InOp
    BY <1>8 DEF EndOp, ProcInv, InOp, Inv, TypeOK
  <2>a. \A q \in Proc : /\ q # p => pc'[q] \in {pc[q], Wakeup[q]}
                        /\ pc'[p] \in {"commit", "idle"}
    <3>1. pc \in [Proc -> {"down", "idle", "asleep", "woken", "op", "log_write",
                           "commit", "panic"}]
      BY DEF Inv, TypeOK
    <3> QED
      BY <1>8, <2>1, <3>1, ZenonT(30) DEF EndOp, Wakeup
  <2>2. InOp' = InOp \ {p}
    BY <2>a, ZenonT(30) DEF Wakeup, InOp
  <2>3. ~Recovering /\ ~Recovering'
    BY <1>8, <2>1 DEF EndOp, Recovering
  <2>4. Mem' = Mem /\ Recovered' = Recovered
    BY <1>8, <1>b, <1>c, <2>3 DEF EndOp
  <2>5. T!End(p)
    BY <2>1, <2>2, <2>4 DEF T!End
  <2> QED
    BY <2>5 DEF T!Next
<1>9. ASSUME NEW p \in Proc, EndCommit(p)
      PROVE  [T!Next]_(T!vars)
  <2>1. ~Recovering /\ ~Recovering'
    BY <1>9 DEF EndCommit, Recovering, ProcInv, Inv, TypeOK
  <2>2. InOp' = InOp
    BY <1>9 DEF EndCommit, Wakeup, InOp
  <2> QED
    BY <1>9, <1>a, <1>b, <1>c, <2>1, <2>2 DEF EndCommit
<1>10. CASE WriteLog
  <2>1. Recovered' = Recovered
    <3>1. stage = "write_log" /\ hdr' = hdr /\ disk' = disk
      BY <1>10, ZenonT(30) DEF WriteLog
    <3>2. hdr = <<>>
      BY <3>1, ZenonT(30) DEF Inv, LogInv
    <3>3. Entries(hdr) = {} /\ Entries(hdr') = {}
      BY <3>1, <3>2 DEF Entries
    <3>4. \A c \in Block : Recovered'[c] = Recovered[c]
      BY <3>1, <3>3, ZenonT(30) DEF Recovered
    <3> QED
      BY <3>4, BlockByBlock, ZenonT(30)
  <2>2. PICK gone \in Evict(1) : bcache' = Without(gone)
    BY <1>10, ZenonT(30) DEF WriteLog
  <2>3. \A c \in Block : View'[c] = View[c]
    BY <1>10, <2>2, RecycleKeepsView, ZenonT(30) DEF View, Without, Evict,
       WriteLog
  <2>4. View' = View
    BY <2>3, BlockByBlock
  <2>5. ~Recovering /\ ~Recovering'
    <3>1. stage = "write_log" /\ committing' = committing
      BY <1>10, ZenonT(30) DEF WriteLog
    <3> QED
      BY <3>1, ZenonT(30) DEF Inv, ProcInv, Recovering
  <2>6. InOp' = InOp
    BY <1>10, ZenonT(30) DEF WriteLog, InOp
  <2> QED
    BY <1>a, <2>1, <2>4, <2>5, <2>6
<1>11. CASE WriteHead
  <2>1. ~Recovering /\ ~Recovering' /\ InOp = {} /\ InOp' = InOp
    BY <1>11 DEF WriteHead, Recovering, ProcInv, InOp, Inv, TypeOK
  <2>2. View' = View
    BY <1>11, <1>c DEF WriteHead
  <2>3. dirty = Entries(lh) /\ Modified = {}
    BY <1>11, <2>1, NoneAssumption, SizeAssumption DEF WriteHead, CacheInv,
       Pending, Modified, InOp, Inv, TypeOK
  <2>4. \A c \in Block : Recovered'[c] = View[c]
    <3> SUFFICES ASSUME NEW c \in Block PROVE Recovered'[c] = View[c]
      OBVIOUS
    <3>1. hdr' = lh /\ UNCHANGED <<disk, logd>>
      BY <1>11 DEF WriteHead
    <3>2. CASE c \in Entries(lh)
      <4>1. PICK i \in DOMAIN lh : lh[i] = c
        BY <3>2 DEF Entries
      <4>2. IndexOf(lh, c) = i
        BY <4>1, IndexOfEntry, NoneAssumption, SizeAssumption DEF LogInv, Inv,
           TypeOK
      <4>3. Recovered'[c] = logd[i]
        BY <3>1, <3>2, <4>2 DEF Recovered
      <4>4. logd[i] = bcache[c] /\ bcache[c] # None
        BY <1>11, <2>3, <3>2, <4>1, NoneAssumption, SizeAssumption
           DEF WriteHead, LogInv, CacheInv, Cached, Inv, TypeOK
      <4> QED
        BY <4>3, <4>4 DEF View
    <3>3. CASE c \notin Entries(lh)
      BY <2>3, <3>1, <3>3, NoneAssumption, SizeAssumption DEF Recovered, View,
         CacheInv, Inv, TypeOK
    <3> QED
      BY <3>2, <3>3
  <2>5. Recovered' = View
    BY <2>4, BlockByBlock
  <2>6. T!Commit
    BY <2>1, <2>2, <2>5 DEF T!Commit
  <2> QED
    BY <2>6 DEF T!Next
<1>12. CASE InstallTrans
  <2> DEFINE b == lh[tail + 1]
  <2>1. tail + 1 \in DOMAIN lh /\ b \in Block /\ hdr = lh
    <3>1. stage = "install_trans" /\ tail < Len(lh)
      BY <1>12, ZenonT(30) DEF InstallTrans
    <3> QED
      BY <3>1, NextEntry DEF Inv, LogInv
  <2>2. \A c \in Block : disk'[c] = IF c = b THEN logd[tail + 1] ELSE disk[c]
    <3>1. disk' = [disk EXCEPT ![b] = logd[tail + 1]]
      BY <1>12, ZenonT(30) DEF InstallTrans
    <3> QED
      BY <3>1, ZenonT(30) DEF Inv, TypeOK
  <2>3. \A c \in Block : Recovered'[c] = Recovered[c]
    <3>1. UNCHANGED <<hdr, logd>>
      BY <1>12, ZenonT(30) DEF InstallTrans
    <3>2. b \in Entries(hdr)
      BY <2>1, ZenonT(30) DEF Entries
    <3> QED
      BY <2>2, <3>1, <3>2 DEF Recovered
  <2>4. Recovered' = Recovered
    BY <2>3, BlockByBlock
  <2>5. InOp' = InOp /\ Recovering' = Recovering
    BY <1>12 DEF InstallTrans, InOp, Recovering
  <2>6. CASE Recovering
    BY <1>a, <2>4, <2>5, <2>6
  <2>7. CASE ~Recovering
    <3>1. committing
      BY <1>12, <2>7, ZenonT(30) DEF Recovering, InstallTrans
    <3>2. bcache[b] = logd[tail + 1] /\ bcache[b] # None
      <4>1. stage = "install_trans"
        BY <1>12, ZenonT(30) DEF InstallTrans
      <4>2. tail + 1 \in tail + 1 .. Len(lh)
        BY <2>1, SizeAssumption DEF Inv, TypeOK
      <4>3. bcache[b] = logd[tail + 1]
        BY <3>1, <4>1, <4>2 DEF Inv, LogInv
      <4>4. logd[tail + 1] \in Val
        BY <2>1, SizeAssumption DEF Inv, TypeOK, RoomInv, Fits
      <4> QED
        BY <4>3, <4>4, NoneAssumption
    <3>3. PICK gone \in Evict(2) :
              bcache' = [Without(gone) EXCEPT ![b] = logd[tail + 1]]
      BY <1>12, ZenonT(30) DEF InstallTrans
    <3>4. \A c \in Block : View'[c] = View[c]
      BY <2>1, <2>2, <3>2, <3>3, RecycleKeepsView, ZenonT(30) DEF View,
         Without, Evict
    <3>5. View' = View
      BY <3>4, BlockByBlock
    <3> QED
      BY <1>a, <2>4, <2>5, <2>7, <3>5
  <2> QED
    BY <2>6, <2>7
<1>13. CASE ClearHead
  <2>1. InOp = {} /\ InOp' = {}
    BY <1>13 DEF ClearHead, InOp, ProcInv, Inv, TypeOK
  <2>2. \A c \in Block : Recovered[c] = disk[c]
    <3> SUFFICES ASSUME NEW c \in Block, c \in Entries(hdr)
                 PROVE  Recovered[c] = disk[c]
      BY DEF Recovered
    <3>1. hdr = lh
      BY <1>13, NoneAssumption, SizeAssumption DEF ClearHead, LogInv, Inv,
         TypeOK
    <3>2. PICK i \in DOMAIN lh : lh[i] = c
      BY <3>1 DEF Entries
    <3>3. IndexOf(hdr, c) = i
      BY <3>1, <3>2, IndexOfEntry DEF LogInv, Inv, TypeOK
    <3> QED
      BY <1>13, <3>2, <3>3 DEF ClearHead, LogInv, Recovered, Inv, TypeOK
  <2>3. Recovered = disk
    BY <2>2 DEF Recovered, Inv, TypeOK
  <2>4. Recovered' = disk
    <3>1. hdr' = <<>> /\ disk' = disk
      BY <1>13 DEF ClearHead
    <3> QED
      BY <3>1, NoneAssumption, SizeAssumption DEF Recovered, Entries, Inv,
         TypeOK
  <2>5. View' = View
    BY <1>13, <1>c DEF ClearHead
  <2>6. Recovering => View = disk
    <3> SUFFICES ASSUME Recovering PROVE View = disk
      OBVIOUS
    <3>1. dirty = {} /\ Modified = {}
      BY NoneAssumption, SizeAssumption DEF CacheInv, ProcInv, Modified, Inv,
         TypeOK
    <3> QED
      BY <3>1, NoneAssumption, SizeAssumption DEF CacheInv, View, Inv, TypeOK
  <2>7. Recovering \/ ~Recovering'
    BY <1>13 DEF ClearHead, Recovering
  <2>8. Recovering => ~Recovering'
    BY <1>13 DEF ClearHead, Recovering
  <2> QED
    BY <1>a, <2>1, <2>3, <2>4, <2>5, <2>6, <2>7, <2>8
<1>14. CASE ReadHead
  <2>1. Recovering /\ Recovering' /\ InOp' = InOp
    BY <1>14 DEF ReadHead, Recovering, ProcInv, InOp, Inv, TypeOK
  <2> QED
    BY <1>14, <1>a, <1>b, <2>1 DEF ReadHead
<1>15. CASE Crash
  <2>1. InOp' = {} /\ Recovering'
    BY <1>15 DEF Crash, InOp, Recovering
  <2>2. Recovered' = Recovered
    BY <1>15, <1>b DEF Crash
  <2>3. T!Crash
    BY <2>1, <2>2 DEF T!Crash
  <2> QED
    BY <2>3 DEF T!Next
<1>16. CASE UNCHANGED vars
  BY <1>16, <1>a, <1>b, <1>c, <1>d DEF vars, InOp
<1> QED
  BY <1>1, <1>2, <1>3, <1>4, <1>5, <1>6, <1>7, <1>8, <1>9, <1>10, <1>11,
     <1>12, <1>13, <1>14, <1>15, <1>16 DEF Next
=============================================================================
