-------------------------- MODULE ProcTableProofs ---------------------------
(***************************************************************************)
(* The properties of the process table hold for every number of slots and  *)
(* pages.  Inv is inductive; there is one lemma for each kind of step.     *)
(***************************************************************************)
EXTENDS ProcTable, FiniteSetTheorems, WellFoundedInduction, TLAPS

\* A leaf that names no prover is tried with SMT, then with Zenon.
USE SMTT(30), ZenonT(30)

Less == {ss \in Nat \X Nat : ss[1] < ss[2]}

\* The first slot of a set that is not empty, which the loops over the table
\* stop at, belongs to the set.
LEMMA FirstIn ==
    ASSUME NEW T \in SUBSET Slot, T # {}
    PROVE  First(T) \in T
<1>1. IsWellFoundedOn(Less, Nat)
  BY NatLessThanWellFounded, ZenonT(30) DEF OpToRel, Less
<1>2. T \subseteq Nat
  BY TableAssumption DEF Slot
<1>3. PICK m \in T : \A t \in T : ~ (<<t, m>> \in Less)
  BY <1>1, <1>2, WFMin, ZenonT(30)
<1>4. ASSUME NEW t \in T PROVE m <= t
  <2>1. t \in Nat /\ m \in Nat
    BY <1>2, ZenonT(30)
  <2>2. t < m => <<t, m>> \in Less
    BY <2>1 DEF Less
  <2>. QED BY <1>3, <2>1, <2>2, SMT
<1>. QED BY <1>4, Zenon DEF First

\* Slot 1 is the one of init, and slots are not the null parent.
LEMMA SlotFacts == initproc \in Slot /\ 0 \notin Slot /\ Slot \subseteq Nat
BY TableAssumption DEF Slot, initproc

\* A set of slots has a size, which one slot more or less changes by one.
LEMMA PageCount ==
    ASSUME NEW T \in SUBSET Slot, NEW s \in Slot
    PROVE  /\ Cardinality(T) \in Nat
           /\ s \notin T => Cardinality(T \cup {s}) = Cardinality(T) + 1
           /\ s \in T => Cardinality(T \ {s}) = Cardinality(T) - 1
<1>1. IsFiniteSet(Slot)
  BY FS_Interval, TableAssumption DEF Slot
<1>2. IsFiniteSet(T)
  BY <1>1, FS_Subset, ZenonT(30)
<1>. QED BY <1>2, FS_CardinalityType, FS_AddElement, FS_RemoveElement, SMT

\* Membership in a set with one slot more.
LEMMA OneMore ==
    ASSUME NEW T \in SUBSET Slot, NEW s \in Slot
    PROVE  /\ T \cup {s} \in SUBSET Slot
           /\ \A x \in Slot : x \in T \cup {s} <=> x \in T \/ x = s
OBVIOUS

\* Membership in a set with one slot less.
LEMMA OneLess ==
    ASSUME NEW T \in SUBSET Slot, NEW s \in Slot
    PROVE  /\ T \ {s} \in SUBSET Slot
           /\ \A x \in Slot : x \in T \ {s} <=> x \in T /\ x # s
OBVIOUS

\* allocproc takes an UNUSED slot, which has no parent, no pages and no fork
\* under way, and a pid that is larger than all others.
LEMMA AllocprocStep ==
    ASSUME Inv, NEW p \in Slot, allocproc(p)
    PROVE  Inv'
<1>. USE SlotFacts DEF Inv, TypeOK, StateInv, ForkInv, Forking, Alive
<1>a. PICK q \in Slot :
         /\ state[q] = "UNUSED" /\ pc[p] = "call"
         /\ state' = [state EXCEPT ![q] = "EMBRYO"]
         /\ pid' = [pid EXCEPT ![q] = nextpid]
         /\ nextpid' = nextpid + 1
         /\ child' = [child EXCEPT ![p] = q]
         /\ pc' = [pc EXCEPT ![p] = "kalloc"]
         /\ UNCHANGED <<parent, killed, kstack, pgdir, free>>
  <2>. DEFINE U == {s \in Slot : state[s] = "UNUSED"}
  <2>1. U # {} /\ U \in SUBSET Slot
    BY DEF allocproc
  <2>2. First(U) \in U
    <3>. HIDE DEF U
    <3>. QED BY <2>1, FirstIn, Zenon
  <2>. QED BY <2>2, Zenon DEF allocproc
<1>b. victims' \subseteq Nat
  BY DEF allocproc
<1>1. TypeOK'
    BY <1>a, <1>b DEF TypeOK
<1>2. StateInv'
    BY <1>a, <1>b DEF StateInv, Alive
<1>3. ForkInv'
    BY <1>a, <1>b DEF ForkInv, ForkApart, Forking
<1>4. ForkApart'
    BY <1>a, <1>b DEF ForkApart, Forking
<1>5. EmbryoInv'
    BY <1>a, <1>b DEF EmbryoInv, Forking
<1>6. PageInv'
    BY <1>a, <1>b DEF PageInv, ForkApart, Alive
<1>7. ParentsLive'
    BY <1>a, <1>b DEF ParentsLive, Alive
<1>8. NoLostExit'
    BY <1>a, <1>b DEF NoLostExit, Zombies, Children
<1>9. UniquePids'
    BY <1>a, <1>b DEF UniquePids
<1>10. PagesBalance'
    BY <1>a, <1>b DEF PagesBalance
<1>. QED BY <1>1, <1>2, <1>3, <1>4, <1>5, <1>6, <1>7, <1>8, <1>9, <1>10, Zenon DEF Inv

\* The EMBRYO gets its kernel stack.
LEMMA AllocStackStep ==
    ASSUME Inv, NEW p \in Slot, AllocStack(p), free > 0
    PROVE  Inv'
<1>a. child[p] \in Slot /\ child[p] \notin kstack /\ pc[p] = "kalloc"
      /\ state[child[p]] = "EMBRYO"
  BY DEF Inv, TypeOK, ForkInv, Forking, AllocStack, PageInv
<1>b. /\ free' = free - 1
      /\ pc' = [pc EXCEPT ![p] = "copyuvm"]
      /\ UNCHANGED <<state, child, pid, parent, killed, pgdir, nextpid, victims>>
  BY DEF Inv, TypeOK, ForkInv, Forking, AllocStack
<1>c. kstack' = kstack \cup {child[p]}
  BY DEF Inv, TypeOK, ForkInv, Forking, AllocStack
<1>d. /\ kstack' \in SUBSET Slot
      /\ \A s \in Slot : s \in kstack' <=> s \in kstack \/ s = child[p]
  BY <1>a, <1>c, OneMore, ZenonT(30) DEF Inv, TypeOK
<1>1. TypeOK'
    BY <1>a, <1>b, <1>d, SlotFacts DEF Inv, TypeOK, StateInv, ForkInv, Forking,
       Alive
<1>2. StateInv'
    BY <1>a, <1>b, <1>d, SlotFacts DEF Inv, TypeOK, StateInv, ForkInv, Forking,
       Alive
<1>3. ForkInv'
    BY <1>a, <1>b, <1>d, SlotFacts DEF Inv, TypeOK, StateInv, ForkInv, Forking,
       Alive, ForkApart
<1>4. ForkApart'
    BY <1>a, <1>b, <1>d, SlotFacts DEF Inv, TypeOK, StateInv, ForkInv, Forking,
       Alive, ForkApart
<1>5. EmbryoInv'
    BY <1>a, <1>b, <1>d, SlotFacts DEF Inv, TypeOK, StateInv, ForkInv, Forking,
       Alive, EmbryoInv
<1>6. PageInv'
  <2>1. ASSUME NEW s \in Slot
        PROVE  /\ state'[s] = "UNUSED" => s \notin kstack' /\ s \notin pgdir'
               /\ state'[s] \in {"RUNNABLE", "SLEEPING", "ZOMBIE"}
                     => s \in kstack' /\ s \in pgdir'
    BY <1>a, <1>b, <1>d DEF Inv, TypeOK, PageInv, Alive
  <2>2. ASSUME NEW j \in Slot
        PROVE  /\ pc'[j] = "kalloc" => child'[j] \notin kstack'
               /\ pc'[j] \in {"copyuvm", "run"} => child'[j] \in kstack'
               /\ pc'[j] \in {"kalloc", "copyuvm"} => child'[j] \notin pgdir'
               /\ pc'[j] = "run" => child'[j] \in pgdir'
    <3>1. CASE j = p
      BY <1>a, <1>b, <1>d, <3>1 DEF Inv, TypeOK, PageInv
    <3>2. CASE j # p
      <4>1. pc'[j] = pc[j] /\ child'[j] = child[j]
        BY <1>a, <1>b, <1>d, <3>2 DEF Inv, TypeOK
      <4>2. Forking(j) => child[j] # child[p] /\ child[j] \in Slot
        BY <1>a, <3>2, ZenonT(30) DEF Inv, ForkInv, ForkApart, Forking
      <4>. QED BY <1>a, <1>b, <1>d, <4>1, <4>2, SMT DEF Inv, PageInv, Forking
    <3>. QED BY <3>1, <3>2, Zenon
  <2>. QED BY <2>1, <2>2, SMT DEF PageInv, Alive
<1>7. ParentsLive'
    BY <1>a, <1>b, <1>d, SlotFacts DEF Inv, TypeOK, StateInv, ForkInv, Forking,
       Alive, ParentsLive
<1>8. NoLostExit'
    BY <1>a, <1>b, <1>d, SlotFacts DEF Inv, TypeOK, StateInv, ForkInv, Forking,
       Alive, NoLostExit, Zombies, Children
<1>9. UniquePids'
    BY <1>a, <1>b, <1>d, SlotFacts DEF Inv, TypeOK, StateInv, ForkInv, Forking,
       Alive, UniquePids
<1>10. PagesBalance'
  <2>1. Cardinality(kstack') = Cardinality(kstack) + 1 /\ Cardinality(kstack) \in Nat
    BY <1>a, <1>c, PageCount, ZenonT(30) DEF Inv, TypeOK
  <2>2. Cardinality(pgdir) \in Nat
    BY <1>a, PageCount, ZenonT(30) DEF Inv, TypeOK
  <2>. QED BY <1>b, <2>1, <2>2, SMT DEF Inv, TypeOK, PagesBalance
<1>. QED BY <1>1, <1>2, <1>3, <1>4, <1>5, <1>6, <1>7, <1>8, <1>9, <1>10, Zenon DEF Inv

\* The EMBRYO gets its page table and its parent.
LEMMA CopyProcStep ==
    ASSUME Inv, NEW p \in Slot, CopyProc(p), free > 0
    PROVE  Inv'
<1>a. child[p] \in Slot /\ child[p] \notin pgdir /\ pc[p] = "copyuvm"
      /\ state[child[p]] = "EMBRYO" /\ parent[child[p]] = 0
  BY DEF Inv, TypeOK, ForkInv, Forking, CopyProc, PageInv
<1>b. /\ free' = free - 1
      /\ parent' = [parent EXCEPT ![child[p]] = p]
      /\ pc' = [pc EXCEPT ![p] = "run"]
      /\ UNCHANGED <<state, child, pid, killed, kstack, nextpid, victims>>
  BY DEF Inv, TypeOK, ForkInv, Forking, CopyProc
<1>c. pgdir' = pgdir \cup {child[p]}
  BY DEF Inv, TypeOK, ForkInv, Forking, CopyProc
<1>d. /\ pgdir' \in SUBSET Slot
      /\ \A s \in Slot : s \in pgdir' <=> s \in pgdir \/ s = child[p]
  BY <1>a, <1>c, OneMore, ZenonT(30) DEF Inv, TypeOK
<1>e. \A s \in Slot : parent'[s] = IF s = child[p] THEN p ELSE parent[s]
  BY <1>a, <1>b DEF Inv, TypeOK
<1>1. TypeOK'
    BY <1>a, <1>b, <1>d, <1>e, SlotFacts DEF Inv, TypeOK, StateInv, ForkInv,
       Forking, Alive
<1>2. StateInv'
    BY <1>a, <1>b, <1>d, <1>e, SlotFacts DEF Inv, TypeOK, StateInv, ForkInv,
       Forking, Alive
<1>3. ForkInv'
    BY <1>a, <1>b, <1>d, <1>e, SlotFacts DEF Inv, TypeOK, StateInv, ForkInv,
       Forking, Alive, ForkApart
<1>4. ForkApart'
    BY <1>a, <1>b, <1>d, <1>e, SlotFacts DEF Inv, TypeOK, StateInv, ForkInv,
       Forking, Alive, ForkApart
<1>5. EmbryoInv'
    BY <1>a, <1>b, <1>d, <1>e, SlotFacts DEF Inv, TypeOK, StateInv, ForkInv,
       Forking, Alive, EmbryoInv
<1>6. PageInv'
  <2>1. ASSUME NEW s \in Slot
        PROVE  /\ state'[s] = "UNUSED" => s \notin kstack' /\ s \notin pgdir'
               /\ state'[s] \in {"RUNNABLE", "SLEEPING", "ZOMBIE"}
                     => s \in kstack' /\ s \in pgdir'
    BY <1>a, <1>b, <1>d DEF Inv, TypeOK, PageInv, Alive
  <2>2. ASSUME NEW j \in Slot
        PROVE  /\ pc'[j] = "kalloc" => child'[j] \notin kstack'
               /\ pc'[j] \in {"copyuvm", "run"} => child'[j] \in kstack'
               /\ pc'[j] \in {"kalloc", "copyuvm"} => child'[j] \notin pgdir'
               /\ pc'[j] = "run" => child'[j] \in pgdir'
    <3>1. CASE j = p
      BY <1>a, <1>b, <1>d, <3>1 DEF Inv, TypeOK, PageInv
    <3>2. CASE j # p
      <4>1. pc'[j] = pc[j] /\ child'[j] = child[j]
        BY <1>a, <1>b, <1>d, <3>2 DEF Inv, TypeOK
      <4>2. Forking(j) => child[j] # child[p] /\ child[j] \in Slot
        BY <1>a, <3>2, ZenonT(30) DEF Inv, ForkInv, ForkApart, Forking
      <4>. QED BY <1>a, <1>b, <1>d, <4>1, <4>2, SMT DEF Inv, PageInv, Forking
    <3>. QED BY <3>1, <3>2, Zenon
  <2>. QED BY <2>1, <2>2, SMT DEF PageInv, Alive
<1>7. ParentsLive'
    BY <1>a, <1>b, <1>d, <1>e, SlotFacts DEF Inv, TypeOK, StateInv, ForkInv,
       Forking, Alive, ParentsLive
<1>8. NoLostExit'
    BY <1>a, <1>b, <1>d, <1>e, SlotFacts DEF Inv, TypeOK, StateInv, ForkInv,
       Forking, Alive, NoLostExit, Zombies, Children
<1>9. UniquePids'
    BY <1>a, <1>b, <1>d, <1>e, SlotFacts DEF Inv, TypeOK, StateInv, ForkInv,
       Forking, Alive, UniquePids
<1>10. PagesBalance'
  <2>1. Cardinality(pgdir') = Cardinality(pgdir) + 1 /\ Cardinality(pgdir) \in Nat
    BY <1>a, <1>c, PageCount, ZenonT(30) DEF Inv, TypeOK
  <2>2. Cardinality(kstack) \in Nat
    BY <1>a, PageCount, ZenonT(30) DEF Inv, TypeOK
  <2>. QED BY <1>b, <2>1, <2>2, SMT DEF Inv, TypeOK, PagesBalance
<1>. QED BY <1>1, <1>2, <1>3, <1>4, <1>5, <1>6, <1>7, <1>8, <1>9, <1>10, Zenon DEF Inv

\* fork finds no memory: the EMBRYO gives its stack back, if it has one, and
\* is UNUSED again, without pages and without parent.
LEMMA ForkGivesUpStep ==
    ASSUME Inv, NEW p \in Slot, AllocStack(p) \/ CopyProc(p), free = 0
    PROVE  Inv'
<1>a. /\ child[p] \in Slot /\ child[p] \notin pgdir /\ state[child[p]] = "EMBRYO"
      /\ parent[child[p]] = 0
      /\ \/ pc[p] = "kalloc" /\ child[p] \notin kstack
         \/ pc[p] = "copyuvm" /\ child[p] \in kstack
  BY DEF Inv, ForkInv, Forking, AllocStack, CopyProc, PageInv
<1>b. /\ state' = [state EXCEPT ![child[p]] = "UNUSED"]
      /\ free' = IF pc[p] = "kalloc" THEN free ELSE free + 1
      /\ pc' = [pc EXCEPT ![p] = "user"]
      /\ child' = [child EXCEPT ![p] = 0]
      /\ UNCHANGED <<pid, parent, killed, pgdir, nextpid, victims>>
  BY <1>a DEF Inv, TypeOK, AllocStack, CopyProc
<1>c. kstack' = IF pc[p] = "kalloc" THEN kstack ELSE kstack \ {child[p]}
  BY <1>a DEF Inv, TypeOK, AllocStack, CopyProc
<1>d. /\ kstack' \in SUBSET Slot
      /\ \A s \in Slot : s \in kstack' <=> s \in kstack /\ s # child[p]
  <2>1. kstack \in SUBSET Slot
    BY DEF Inv, TypeOK
  <2>2. CASE pc[p] = "kalloc"
    BY <1>a, <1>c, <2>1, <2>2, ZenonT(30)
  <2>3. CASE pc[p] = "copyuvm"
    BY <1>a, <1>c, <2>1, <2>3, OneLess, ZenonT(30)
  <2>. QED BY <1>a, <2>2, <2>3, Zenon
<1>1. TypeOK'
    BY <1>a, <1>b, <1>d, SlotFacts DEF Inv, TypeOK, StateInv, ForkInv, Forking,
       Alive
<1>2. StateInv'
    BY <1>a, <1>b, <1>d, SlotFacts DEF Inv, TypeOK, StateInv, ForkInv, Forking,
       Alive
<1>3. ForkInv'
    BY <1>a, <1>b, <1>d, SlotFacts DEF Inv, TypeOK, StateInv, ForkInv, Forking,
       Alive, ForkApart
<1>4. ForkApart'
    BY <1>a, <1>b, <1>d, SlotFacts DEF Inv, TypeOK, StateInv, ForkInv, Forking,
       Alive, ForkApart
<1>5. EmbryoInv'
    BY <1>a, <1>b, <1>d, SlotFacts DEF Inv, TypeOK, StateInv, ForkInv, Forking,
       Alive, EmbryoInv
<1>6. PageInv'
  <2>1. ASSUME NEW s \in Slot
        PROVE  /\ state'[s] = "UNUSED" => s \notin kstack' /\ s \notin pgdir'
               /\ state'[s] \in {"RUNNABLE", "SLEEPING", "ZOMBIE"}
                     => s \in kstack' /\ s \in pgdir'
    BY <1>a, <1>b, <1>d DEF Inv, TypeOK, PageInv, Alive
  <2>2. ASSUME NEW j \in Slot
        PROVE  /\ pc'[j] = "kalloc" => child'[j] \notin kstack'
               /\ pc'[j] \in {"copyuvm", "run"} => child'[j] \in kstack'
               /\ pc'[j] \in {"kalloc", "copyuvm"} => child'[j] \notin pgdir'
               /\ pc'[j] = "run" => child'[j] \in pgdir'
    <3>1. CASE j = p
      BY <1>a, <1>b, <1>d, <3>1 DEF Inv, TypeOK, PageInv
    <3>2. CASE j # p
      <4>1. pc'[j] = pc[j] /\ child'[j] = child[j]
        BY <1>a, <1>b, <1>d, <3>2 DEF Inv, TypeOK
      <4>2. Forking(j) => child[j] # child[p] /\ child[j] \in Slot
        BY <1>a, <3>2, ZenonT(30) DEF Inv, ForkInv, ForkApart, Forking
      <4>. QED BY <1>a, <1>b, <1>d, <4>1, <4>2, SMT DEF Inv, PageInv, Forking
    <3>. QED BY <3>1, <3>2, Zenon
  <2>. QED BY <2>1, <2>2, SMT DEF PageInv, Alive
<1>7. ParentsLive'
    BY <1>a, <1>b, <1>d, SlotFacts DEF Inv, TypeOK, StateInv, ForkInv, Forking,
       Alive, ParentsLive
<1>8. NoLostExit'
    BY <1>a, <1>b, <1>d, SlotFacts DEF Inv, TypeOK, StateInv, ForkInv, Forking,
       Alive, NoLostExit, Zombies, Children
<1>9. UniquePids'
    BY <1>a, <1>b, <1>d, SlotFacts DEF Inv, TypeOK, StateInv, ForkInv, Forking,
       Alive, UniquePids
<1>10. PagesBalance'
  <2>1. CASE pc[p] = "kalloc"
    BY <1>b, <1>c, <2>1 DEF Inv, PagesBalance
  <2>2. CASE pc[p] = "copyuvm"
    <3>1. kstack' = kstack \ {child[p]}
      BY <1>c, <2>2, ZenonT(30)
    <3>2. child[p] \in kstack
      BY <1>a, <2>2, ZenonT(30)
    <3>3. Cardinality(kstack') = Cardinality(kstack) - 1
          /\ Cardinality(kstack) \in Nat
      BY <1>a, <3>1, <3>2, PageCount, ZenonT(30) DEF Inv, TypeOK
    <3>4. Cardinality(pgdir) \in Nat
      BY <1>a, PageCount, ZenonT(30) DEF Inv, TypeOK
    <3>. QED BY <1>b, <2>2, <3>3, <3>4, SMT DEF Inv, TypeOK, PagesBalance
  <2>. QED BY <1>a, <2>1, <2>2, Zenon
<1>. QED BY <1>1, <1>2, <1>3, <1>4, <1>5, <1>6, <1>7, <1>8, <1>9, <1>10, Zenon DEF Inv

\* The child runs; its parent is the one that forked it and is alive.
LEMMA ForkDoneStep ==
    ASSUME Inv, NEW p \in Slot, ForkDone(p)
    PROVE  Inv'
<1>. USE SlotFacts DEF Inv, TypeOK, StateInv, ForkInv, Forking, Alive
<1>a. child[p] \in Slot /\ state[child[p]] = "EMBRYO" /\ parent[child[p]] = p
  BY DEF ForkDone
<1>1. TypeOK'
    BY <1>a DEF ForkDone, TypeOK
<1>2. StateInv'
    BY <1>a DEF ForkDone, StateInv, Alive
<1>3. ForkInv'
    BY <1>a DEF ForkDone, ForkInv, ForkApart, Forking
<1>4. ForkApart'
    BY <1>a DEF ForkDone, ForkApart, Forking
<1>5. EmbryoInv'
    BY <1>a DEF ForkDone, EmbryoInv, Forking
<1>6. PageInv'
    BY <1>a DEF ForkDone, PageInv, ForkApart, Alive
<1>7. ParentsLive'
    BY <1>a DEF ForkDone, ParentsLive, Alive
<1>8. NoLostExit'
    BY <1>a DEF ForkDone, NoLostExit, Zombies, Children
<1>9. UniquePids'
    BY <1>a DEF ForkDone, UniquePids
<1>10. PagesBalance'
    BY <1>a DEF ForkDone, PagesBalance
<1>. QED BY <1>1, <1>2, <1>3, <1>4, <1>5, <1>6, <1>7, <1>8, <1>9, <1>10, Zenon DEF Inv

\* The exiting process wakes its parent, and init when it leaves it zombies;
\* its children are children of init.
LEMMA ExitDoneStep ==
    ASSUME Inv, NEW p \in Slot, ExitDone(p)
    PROVE  Inv'
<1>t. /\ state \in [Slot -> {"UNUSED", "EMBRYO", "RUNNABLE", "SLEEPING", "ZOMBIE"}]
      /\ parent \in [Slot -> Slot \cup {0}]
      /\ child \in [Slot -> Slot \cup {0}]
      /\ DOMAIN pc = Slot /\ DOMAIN killed = Slot
  BY DEF Inv, TypeOK
<1>a. /\ pc[p] = "exit" /\ p # initproc /\ pc' = [pc EXCEPT ![p] = "none"]
      /\ UNCHANGED <<pid, killed, kstack, pgdir, child, nextpid, free, victims>>
  BY DEF Inv, StateInv, ExitDone
<1>b. \A s \in Slot :
         parent'[s] = IF parent[s] = p THEN initproc ELSE parent[s]
  BY ZenonT(30) DEF ExitDone, Children
<1>c. \A s \in Slot :
         state'[s] = IF s = p THEN "ZOMBIE"
                     ELSE IF /\ state[s] = "SLEEPING"
                             /\ \/ s = parent[p]
                                \/ s = initproc /\ Zombies(p) # {}
                          THEN "RUNNABLE"
                     ELSE state[s]
  BY <1>t DEF ExitDone, Woken
<1>d. state[p] \in {"RUNNABLE", "SLEEPING"}
  BY <1>a DEF Inv, StateInv, Alive
<1>1. TypeOK'
  BY SlotFacts DEF Inv, TypeOK, ExitDone, Woken
<1>2. StateInv'
    BY <1>a, <1>b, <1>c, <1>d, SlotFacts DEF Inv, TypeOK, StateInv, ForkInv,
       Forking, Alive
<1>3. ForkInv'
  <2>. SUFFICES ASSUME NEW j \in Slot, pc'[j] \in {"kalloc", "copyuvm", "run"}
                PROVE  /\ child[j] \in Slot /\ state'[child[j]] = "EMBRYO"
                       /\ parent'[child[j]] = IF pc'[j] = "run" THEN j ELSE 0
    BY <1>a DEF ForkInv, Forking
  <2>1. j # p /\ pc'[j] = pc[j]
    BY <1>t, <1>a
  <2>2. /\ child[j] \in Slot /\ state[child[j]] = "EMBRYO"
        /\ parent[child[j]] = IF pc[j] = "run" THEN j ELSE 0
    BY <2>1 DEF Inv, ForkInv, Forking
  <2>3. state'[child[j]] = "EMBRYO"
    BY <1>c, <1>d, <2>2
  <2>4. parent[child[j]] # p
    <3>1. CASE pc[j] = "run"
      BY <2>1, <2>2, <3>1, ZenonT(30)
    <3>2. CASE pc[j] # "run"
      BY <2>2, <3>2, SlotFacts, ZenonT(30)
    <3>. QED BY <3>1, <3>2, Zenon
  <2>5. parent'[child[j]] = parent[child[j]]
    BY <1>b, <2>2, <2>4, ZenonT(30)
  <2>. QED BY <2>1, <2>2, <2>3, <2>5, Zenon
<1>4. ForkApart'
    BY <1>a, <1>b, <1>c, <1>d, SlotFacts DEF Inv, TypeOK, StateInv, ForkInv,
       Forking, Alive, ForkApart
<1>5. EmbryoInv'
    BY <1>a, <1>b, <1>c, <1>d, SlotFacts DEF Inv, TypeOK, StateInv, ForkInv,
       Forking, Alive, EmbryoInv
<1>6. PageInv'
    BY <1>a, <1>b, <1>c, <1>d, SlotFacts DEF Inv, TypeOK, StateInv, ForkInv,
       Forking, Alive, PageInv, ForkApart
<1>7. ParentsLive'
  <2>. SUFFICES ASSUME NEW s \in Slot, s # initproc,
                       state'[s] \in {"RUNNABLE", "SLEEPING", "ZOMBIE"}
                PROVE  /\ parent'[s] \in Slot
                       /\ state'[parent'[s]] \in {"RUNNABLE", "SLEEPING"}
    BY ZenonT(30) DEF ParentsLive, Alive
  <2>1. state[s] \in {"RUNNABLE", "SLEEPING", "ZOMBIE"}
    BY <1>c, <1>d
  <2>2. parent[s] \in Slot /\ state[parent[s]] \in {"RUNNABLE", "SLEEPING"}
    BY <2>1 DEF Inv, ParentsLive, Alive
  <2>3. state[initproc] \in {"RUNNABLE", "SLEEPING"}
    BY DEF Inv, StateInv, Alive
  <2>4. CASE parent[s] = p
    <3>1. parent'[s] = initproc
      BY <1>b, <2>4, ZenonT(30)
    <3>2. state'[initproc] \in {"RUNNABLE", "SLEEPING"}
      BY <1>a, <1>c, <2>3, SlotFacts
    <3>. QED BY <3>1, <3>2, SlotFacts, Zenon
  <2>5. CASE parent[s] # p
    <3>1. parent'[s] = parent[s]
      BY <1>b, <2>5, ZenonT(30)
    <3>2. state'[parent[s]] \in {"RUNNABLE", "SLEEPING"}
      BY <1>c, <2>2, <2>5
    <3>. QED BY <2>2, <3>1, <3>2, Zenon
  <2>. QED BY <2>4, <2>5, Zenon
<1>8. NoLostExit'
  <2>. SUFFICES ASSUME NEW q \in Slot, state'[q] = "SLEEPING"
                PROVE  /\ \A s \in Slot : parent'[s] = q => state'[s] # "ZOMBIE"
                       /\ \E s \in Slot : parent'[s] = q
                       /\ ~killed[q]
    BY <1>a, ZenonT(30) DEF NoLostExit, Zombies, Children
  <2>1. /\ state[q] = "SLEEPING" /\ q # p /\ q # parent[p]
        /\ q = initproc => Zombies(p) = {}
    BY <1>c
  <2>2. Zombies(q) = {} /\ Children(q) # {} /\ ~killed[q]
    BY <2>1, ZenonT(30) DEF Inv, NoLostExit
  <2>3. PICK x \in Slot : parent[x] = q
    BY <2>2, ZenonT(30) DEF Children
  <2>4. parent'[x] = q
    BY <1>b, <2>1, <2>3, ZenonT(30)
  <2>5. ASSUME NEW s \in Slot, parent'[s] = q PROVE state'[s] # "ZOMBIE"
    <3>1. \/ parent[s] = q
          \/ parent[s] = p /\ q = initproc
      BY <1>b, <2>5, ZenonT(30)
    <3>2. parent[p] # p
      BY DEF Inv, StateInv
    <3>3. state[s] # "ZOMBIE" /\ s # p
      BY <2>1, <2>2, <3>1, <3>2, ZenonT(30) DEF Zombies, Children
    <3>. QED BY <1>c, <3>3, SMT
  <2>. QED BY <2>2, <2>4, <2>5, Zenon
<1>9. UniquePids'
    BY <1>a, <1>b, <1>c, <1>d, SlotFacts DEF Inv, TypeOK, StateInv, ForkInv,
       Forking, Alive, UniquePids
<1>10. PagesBalance'
    BY <1>a, <1>b, <1>c, <1>d, SlotFacts DEF Inv, TypeOK, StateInv, ForkInv,
       Forking, Alive, PagesBalance
<1>. QED BY <1>1, <1>2, <1>3, <1>4, <1>5, <1>6, <1>7, <1>8, <1>9, <1>10, Zenon DEF Inv

\* The zombie that wait finds is gone with both of its pages.
LEMMA WaitReapStep ==
    ASSUME Inv, NEW p \in Slot, WaitReap(p)
    PROVE  Inv'
<1>. USE SlotFacts DEF Inv, TypeOK, StateInv, ForkInv, Forking, Alive
<1>a. PICK q \in Slot :
         /\ parent[q] = p /\ state[q] = "ZOMBIE"
         /\ pc[p] \in {"call", "wait"} /\ state[p] = "RUNNABLE"
         /\ kstack' = kstack \ {q} /\ pgdir' = pgdir \ {q} /\ free' = free + 2
         /\ pid' = [pid EXCEPT ![q] = 0]
         /\ parent' = [parent EXCEPT ![q] = 0]
         /\ killed' = [killed EXCEPT ![q] = FALSE]
         /\ state' = [state EXCEPT ![q] = "UNUSED"]
         /\ pc' = [pc EXCEPT ![p] = "user"]
         /\ UNCHANGED <<child, nextpid, victims>>
  <2>0. Zombies(p) # {} /\ Zombies(p) \in SUBSET Slot
    BY DEF WaitReap, Zombies, Children
  <2>1. First(Zombies(p)) \in Zombies(p)
    BY <2>0, FirstIn, ZenonT(30)
  <2>2. First(Zombies(p)) \in Slot /\ parent[First(Zombies(p))] = p
        /\ state[First(Zombies(p))] = "ZOMBIE"
    BY <2>1, ZenonT(30) DEF Zombies, Children
  <2>. QED BY <2>2, Zenon DEF WaitReap, InWait
<1>1. TypeOK'
    BY <1>a DEF TypeOK
<1>2. StateInv'
    BY <1>a DEF StateInv, Alive
<1>3. ForkInv'
    BY <1>a DEF ForkInv, ForkApart, Forking
<1>4. ForkApart'
    BY <1>a DEF ForkApart, Forking
<1>5. EmbryoInv'
    BY <1>a DEF EmbryoInv, Forking
<1>6. PageInv'
    BY <1>a DEF PageInv, ForkApart, Alive
<1>7. ParentsLive'
    BY <1>a DEF ParentsLive, Alive
<1>8. NoLostExit'
    BY <1>a DEF NoLostExit, Zombies, Children
<1>9. UniquePids'
    BY <1>a DEF UniquePids
<1>10. PagesBalance'
  <2>1. q \in kstack /\ q \in pgdir
    BY <1>a DEF PageInv
  <2>2. /\ Cardinality(kstack') = Cardinality(kstack) - 1
        /\ Cardinality(pgdir') = Cardinality(pgdir) - 1
        /\ Cardinality(kstack) \in Nat /\ Cardinality(pgdir) \in Nat
    <3>1. kstack \in SUBSET Slot /\ pgdir \in SUBSET Slot
      OBVIOUS
    <3>2. kstack' = kstack \ {q} /\ pgdir' = pgdir \ {q}
      BY <1>a, ZenonT(30)
    <3>. QED BY <2>1, <3>1, <3>2, PageCount, Zenon
  <2>. QED BY <1>a, <2>2, SMT DEF PagesBalance
<1>. QED BY <1>1, <1>2, <1>3, <1>4, <1>5, <1>6, <1>7, <1>8, <1>9, <1>10, Zenon DEF Inv

\* A process sleeps in wait only with children, none of them a zombie.
LEMMA WaitSleepStep ==
    ASSUME Inv, NEW p \in Slot, WaitSleep(p)
    PROVE  Inv'
<1>. USE SlotFacts DEF Inv, TypeOK, StateInv, ForkInv, Forking, Alive
<1>1. TypeOK'
    BY DEF WaitSleep, InWait, TypeOK
<1>2. StateInv'
    BY DEF WaitSleep, InWait, StateInv, Alive
<1>3. ForkInv'
    BY DEF WaitSleep, InWait, ForkInv, ForkApart, Forking
<1>4. ForkApart'
    BY DEF WaitSleep, InWait, ForkApart, Forking
<1>5. EmbryoInv'
    BY DEF WaitSleep, InWait, EmbryoInv, Forking
<1>6. PageInv'
    BY DEF WaitSleep, InWait, PageInv, ForkApart, Alive
<1>7. ParentsLive'
    BY DEF WaitSleep, InWait, ParentsLive, Alive
<1>8. NoLostExit'
    BY DEF WaitSleep, InWait, NoLostExit, Zombies, Children
<1>9. UniquePids'
    BY DEF WaitSleep, InWait, UniquePids
<1>10. PagesBalance'
    BY DEF WaitSleep, InWait, PagesBalance
<1>. QED BY <1>1, <1>2, <1>3, <1>4, <1>5, <1>6, <1>7, <1>8, <1>9, <1>10, Zenon DEF Inv

\* kill marks the first slot with the pid and wakes the process in it.
LEMMA KillStep ==
    ASSUME Inv, NEW p \in Slot, NEW k \in Targets, kill(p, k),
           NEW x \in Slot, pid[x] = k
    PROVE  Inv'
<1>t. /\ state \in [Slot -> {"UNUSED", "EMBRYO", "RUNNABLE", "SLEEPING", "ZOMBIE"}]
      /\ parent \in [Slot -> Slot \cup {0}]
      /\ child \in [Slot -> Slot \cup {0}]
      /\ DOMAIN pc = Slot /\ DOMAIN killed = Slot
  BY DEF Inv, TypeOK
<1>a. PICK q \in Slot : /\ killed' = [killed EXCEPT ![q] = TRUE]
                         /\ state' = Woken(state, q)
  <2>. DEFINE K == {s \in Slot : pid[s] = k}
  <2>1. K # {} /\ K \in SUBSET Slot
    OBVIOUS
  <2>2. First(K) \in K
    <3>. HIDE DEF K
    <3>. QED BY <2>1, FirstIn, Zenon
  <2>. QED BY <2>1, <2>2, Zenon DEF kill
<1>b. /\ pc[p] = "call" /\ pc' = [pc EXCEPT ![p] = "user"]
      /\ UNCHANGED <<pid, parent, kstack, pgdir, child, nextpid, free>>
  BY ZenonT(30) DEF kill
<1>c. \A s \in Slot : state'[s] = IF s = q /\ state[q] = "SLEEPING"
                                   THEN "RUNNABLE" ELSE state[s]
  BY <1>t, <1>a DEF Woken
<1>d. victims' \in SUBSET Nat
  BY TableAssumption DEF kill, Inv, TypeOK
<1>1. TypeOK'
  BY <1>a, <1>b, <1>d DEF Inv, TypeOK, Woken
<1>2. StateInv'
    BY <1>b, <1>c, SlotFacts DEF Inv, TypeOK, StateInv, ForkInv, Forking, Alive
<1>3. ForkInv'
  <2>. SUFFICES ASSUME NEW j \in Slot, pc'[j] \in {"kalloc", "copyuvm", "run"}
                PROVE  /\ child[j] \in Slot /\ state'[child[j]] = "EMBRYO"
                       /\ parent'[child[j]] = IF pc'[j] = "run" THEN j ELSE 0
    BY <1>b DEF ForkInv, Forking
  <2>1. j # p /\ pc'[j] = pc[j]
    BY <1>t, <1>b
  <2>2. /\ child[j] \in Slot /\ state[child[j]] = "EMBRYO"
        /\ parent[child[j]] = IF pc[j] = "run" THEN j ELSE 0
    BY <2>1 DEF Inv, ForkInv, Forking
  <2>3. state'[child[j]] = "EMBRYO"
    BY <1>c, <2>2
  <2>. QED BY <1>b, <2>1, <2>2, <2>3, Zenon
<1>4. ForkApart'
    BY <1>b, <1>c, SlotFacts DEF Inv, TypeOK, StateInv, ForkInv, Forking,
       Alive, ForkApart
<1>5. EmbryoInv'
    BY <1>b, <1>c, SlotFacts DEF Inv, TypeOK, StateInv, ForkInv, Forking,
       Alive, EmbryoInv
<1>6. PageInv'
    BY <1>b, <1>c, SlotFacts DEF Inv, TypeOK, StateInv, ForkInv, Forking,
       Alive, PageInv, ForkApart
<1>7. ParentsLive'
  <2>. SUFFICES ASSUME NEW s \in Slot, s # initproc,
                       state'[s] \in {"RUNNABLE", "SLEEPING", "ZOMBIE"}
                PROVE  /\ parent[s] \in Slot
                       /\ state'[parent[s]] \in {"RUNNABLE", "SLEEPING"}
    BY <1>b, ZenonT(30) DEF ParentsLive, Alive
  <2>1. state[s] \in {"RUNNABLE", "SLEEPING", "ZOMBIE"}
    BY <1>c
  <2>2. parent[s] \in Slot /\ state[parent[s]] \in {"RUNNABLE", "SLEEPING"}
    BY <2>1 DEF Inv, ParentsLive, Alive
  <2>. QED BY <1>c, <2>2, SMT
<1>8. NoLostExit'
  <2>. SUFFICES ASSUME NEW r \in Slot, state'[r] = "SLEEPING"
                PROVE  /\ \A s \in Slot : parent[s] = r => state'[s] # "ZOMBIE"
                       /\ \E s \in Slot : parent[s] = r
                       /\ ~killed'[r]
    BY <1>b, ZenonT(30) DEF NoLostExit, Zombies, Children
  <2>1. state[r] = "SLEEPING" /\ r # q
    BY <1>c
  <2>2. Zombies(r) = {} /\ Children(r) # {} /\ ~killed[r]
    BY <2>1, ZenonT(30) DEF Inv, NoLostExit
  <2>3. \E y \in Slot : parent[y] = r
    BY <2>2, ZenonT(30) DEF Children
  <2>4. ASSUME NEW s \in Slot, parent[s] = r PROVE state'[s] # "ZOMBIE"
    <3>1. state[s] # "ZOMBIE"
      BY <2>2, <2>4, ZenonT(30) DEF Zombies, Children
    <3>. QED BY <1>c, <3>1, SMT
  <2>5. ~killed'[r]
    BY <1>t, <1>a, <2>1, <2>2, ZenonT(30)
  <2>. QED BY <2>3, <2>4, <2>5, Zenon
<1>9. UniquePids'
    BY <1>b, <1>c, SlotFacts DEF Inv, TypeOK, StateInv, ForkInv, Forking,
       Alive, UniquePids
<1>10. PagesBalance'
    BY <1>b, <1>c, SlotFacts DEF Inv, TypeOK, StateInv, ForkInv, Forking,
       Alive, PagesBalance
<1>. QED BY <1>1, <1>2, <1>3, <1>4, <1>5, <1>6, <1>7, <1>8, <1>9, <1>10, Zenon DEF Inv

\* Steps that only move a process between the kernel and its own code; a kill
\* that finds no slot with the pid is one.
LEMMA PlainStep ==
    ASSUME Inv, NEW p \in Slot, syscall(p) \/ ForkFails(p) \/ exit(p) \/ WaitFails(p)
           \/ \E k \in Targets : kill(p, k) /\ \A s \in Slot : pid[s] # k
    PROVE  Inv'
<1>. USE SlotFacts DEF Inv, TypeOK, StateInv, ForkInv, Forking, Alive
<1>k. ASSUME NEW k \in Targets, kill(p, k), \A s \in Slot : pid[s] # k
      PROVE  /\ pc[p] = "call" /\ pc' = [pc EXCEPT ![p] = "user"]
             /\ UNCHANGED <<state, pid, parent, killed, kstack, pgdir, child,
                            nextpid, free>>
             /\ victims' = victims \cup {k}
  <2>1. {s \in Slot : pid[s] = k} = {}
    <3>. HIDE DEF Inv
    <3>. QED BY <1>k, Zenon
  <2>. QED BY <1>k, <2>1, Zenon DEF kill
<1>s. pc[p] \in {"user", "call"} => state[p] = "RUNNABLE"
  OBVIOUS
<1>a. /\ pc[p] \in {"user", "call", "wait"}
      /\ \E x \in {"user", "call", "exit"} :
            pc' = [pc EXCEPT ![p] = x] /\ (x = "exit" => p # initproc)
      /\ state[p] = "RUNNABLE"
      /\ UNCHANGED <<state, pid, parent, killed, kstack, pgdir, child, nextpid,
                     free>>
  <2>1. CASE \E k \in Targets : kill(p, k) /\ \A s \in Slot : pid[s] # k
    BY <1>k, <1>s, <2>1, ZenonT(30)
  <2>2. CASE syscall(p) \/ ForkFails(p) \/ exit(p) \/ WaitFails(p)
    BY <1>s, <2>2 DEF syscall, ForkFails, exit, WaitFails, InWait
  <2>. QED BY <2>1, <2>2, Zenon
<1>b. victims' \in SUBSET Nat
  <2>1. CASE \E k \in Targets : kill(p, k) /\ \A s \in Slot : pid[s] # k
    <3>1. PICK k \in Targets : victims' = victims \cup {k}
      BY <1>k, <2>1, ZenonT(30)
    <3>. QED BY <3>1, TableAssumption, SMT
  <2>2. CASE syscall(p) \/ ForkFails(p) \/ exit(p) \/ WaitFails(p)
    <3>1. victims' = victims
      BY <2>2, ZenonT(30) DEF syscall, ForkFails, exit, WaitFails
    <3>2. victims \in SUBSET Nat
      BY ZenonT(30)
    <3>. QED BY <3>1, <3>2, Zenon
  <2>. QED BY <2>1, <2>2, Zenon
<1>1. TypeOK'
    BY <1>a, <1>b DEF TypeOK
<1>2. StateInv'
    BY <1>a, <1>b DEF StateInv, Alive
<1>3. ForkInv'
    BY <1>a, <1>b DEF ForkInv, ForkApart, Forking
<1>4. ForkApart'
    BY <1>a, <1>b DEF ForkApart, Forking
<1>5. EmbryoInv'
    BY <1>a, <1>b DEF EmbryoInv, Forking
<1>6. PageInv'
    BY <1>a, <1>b DEF PageInv, ForkApart, Alive
<1>7. ParentsLive'
    BY <1>a, <1>b DEF ParentsLive, Alive
<1>8. NoLostExit'
    BY <1>a, <1>b DEF NoLostExit, Zombies, Children
<1>9. UniquePids'
    BY <1>a, <1>b DEF UniquePids
<1>10. PagesBalance'
    BY <1>a, <1>b DEF PagesBalance
<1>. QED BY <1>1, <1>2, <1>3, <1>4, <1>5, <1>6, <1>7, <1>8, <1>9, <1>10, Zenon DEF Inv

\* Every step preserves the invariant.
LEMMA InvStep == Inv /\ [Next]_vars => Inv'
<1>. SUFFICES ASSUME Inv, [Next]_vars PROVE Inv'
  OBVIOUS
<1>1. CASE UNCHANGED vars
  <2>1. UNCHANGED <<state, pid, parent, killed, kstack, pgdir, pc, child,
                    nextpid, free, victims>>
    BY <1>1, ZenonT(30) DEF vars
  <2>. QED BY <2>1, SMT DEF Inv, TypeOK, StateInv, ForkInv, ForkApart,
               EmbryoInv, PageInv, ParentsLive, NoLostExit, UniquePids,
               PagesBalance, Forking, Alive, Zombies, Children
<1>2. CASE Next
  <2>1. PICK p \in Slot :
           \/ syscall(p)
           \/ allocproc(p) \/ ForkFails(p) \/ AllocStack(p) \/ CopyProc(p)
           \/ ForkDone(p)
           \/ exit(p) \/ ExitDone(p)
           \/ WaitReap(p) \/ WaitFails(p) \/ WaitSleep(p)
           \/ \E k \in Targets : kill(p, k)
    BY <1>2, ZenonT(30) DEF Next
  <2>2. CASE allocproc(p)
    BY <2>2, AllocprocStep, ZenonT(30)
  <2>3. CASE AllocStack(p) \/ CopyProc(p)
    <3>1. free > 0 \/ free = 0
      BY DEF Inv, TypeOK
    <3>. QED BY <2>3, <3>1, AllocStackStep, CopyProcStep, ForkGivesUpStep, Zenon
  <2>4. CASE ForkDone(p)
    BY <2>4, ForkDoneStep, ZenonT(30)
  <2>5. CASE ExitDone(p)
    BY <2>5, ExitDoneStep, ZenonT(30)
  <2>6. CASE WaitReap(p)
    BY <2>6, WaitReapStep, ZenonT(30)
  <2>7. CASE WaitSleep(p)
    BY <2>7, WaitSleepStep, ZenonT(30)
  <2>8. CASE \E k \in Targets : kill(p, k)
    <3>1. PICK k \in Targets : kill(p, k)
      BY <2>8, ZenonT(30)
    <3>2. CASE \E x \in Slot : pid[x] = k
      BY <3>1, <3>2, KillStep, ZenonT(30)
    <3>3. CASE \A x \in Slot : pid[x] # k
      BY <3>1, <3>3, PlainStep, ZenonT(30)
    <3>. QED BY <3>2, <3>3, Zenon
  <2>9. CASE syscall(p) \/ ForkFails(p) \/ exit(p) \/ WaitFails(p)
    BY <2>9, PlainStep, ZenonT(30)
  <2>. QED BY <2>1, <2>2, <2>3, <2>4, <2>5, <2>6, <2>7, <2>8, <2>9, Zenon
<1>. QED BY <1>1, <1>2, Zenon

\* When the first process runs and there is no other, the invariant holds.
LEMMA InvInit == Init => Inv
<1>. SUFFICES ASSUME Init PROVE Inv
  OBVIOUS
<1>. USE SlotFacts, TableAssumption DEF Init
<1>1. TypeOK
  BY DEF TypeOK
<1>2. StateInv /\ ForkInv /\ ForkApart /\ EmbryoInv /\ PageInv
  BY DEF StateInv, ForkInv, ForkApart, EmbryoInv, PageInv, Forking, Alive,
     initproc
<1>3. ParentsLive /\ NoLostExit /\ UniquePids
  BY DEF ParentsLive, NoLostExit, UniquePids
<1>4. PagesBalance
  <2>1. Cardinality({initproc}) = 1
    BY FS_Singleton, ZenonT(30)
  <2>. QED BY <2>1, SMT DEF PagesBalance
<1>. QED BY <1>1, <1>2, <1>3, <1>4, Zenon DEF Inv

\* For any number of slots and pages the inductive invariant always holds.
THEOREM Invariance == Spec => []Inv
BY InvInit, InvStep, PTL DEF Spec

\* Whatever the order of forks, exits, waits and kills, a process that has
\* been forked has a living parent.
THEOREM ParentsAreAlive == Spec => []ParentsLive
<1>1. Inv => ParentsLive
  BY ZenonT(30) DEF Inv
<1>. QED BY <1>1, Invariance, PTL

\* Nobody sleeps in wait past the exit it waits for, or past a kill.
THEOREM NoExitIsMissed == Spec => []NoLostExit
<1>1. Inv => NoLostExit
  BY ZenonT(30) DEF Inv
<1>. QED BY <1>1, Invariance, PTL

\* No two processes have the same pid.
THEOREM PidsAreUnique == Spec => []UniquePids
<1>1. Inv => UniquePids
  BY ZenonT(30) DEF Inv
<1>. QED BY <1>1, Invariance, PTL

\* Every page that fork takes is given back once, by fork or by wait.
THEOREM PagesAreKept == Spec => []PagesBalance
<1>1. Inv => PagesBalance
  BY ZenonT(30) DEF Inv
<1>. QED BY <1>1, Invariance, PTL
=============================================================================
