-------------------------- MODULE FileTableProofs ---------------------------
(***************************************************************************)
(* The counts of module FileTable are exact, for any numbers of processes, *)
(* descriptors, files and pipes.                                           *)
(***************************************************************************)
EXTENDS FileTable, FiniteSetTheorems, WellFoundedInduction, TLAPS

\* A leaf that names no prover is tried with SMT, then with Zenon.
USE SMTT(30), ZenonT(30)

\* What the constants stand for: slots are numbered, and the calls are those
\* of the model.
Sizes ==
    /\ Proc \subseteq Nat /\ Proc # {} /\ IsFiniteSet(Proc)
    /\ NFILE \in Nat /\ NOFILE \in Nat /\ NPIPE \in Nat
    /\ \A p \in Proc : Calls[p] \subseteq {"open", "pipe", "fork", "exit"}

-----------------------------------------------------------------------------
(* The first free entry of a table *)

\* The loops of filealloc, fdalloc and allocproc find an entry if there is one.
LEMMA LeastIn ==
  ASSUME NEW T, T \subseteq Nat, T # {}
  PROVE  Least(T) \in T
<1> DEFINE R == OpToRel(<, Nat)
<1>1. IsWellFoundedOn(R, Nat)
  BY NatLessThanWellFounded, ZenonT(30)
<1> HIDE DEF R
<1>2. PICK x \in T : \A y \in T : ~(<<y, x>> \in R)
  BY <1>1, WFMin, ZenonT(30)
<1>3. \A y \in T : <<y, x>> \in R <=> y < x
  BY ZenonT(30) DEF R, OpToRel
<1>4. \A y \in T : x \in Nat /\ y \in Nat /\ ~(y < x)
  BY <1>2, <1>3, ZenonT(30)
<1>5. \A y \in T : x <= y
  BY <1>4
<1> QED
  BY <1>5, ZenonT(30) DEF Least

-----------------------------------------------------------------------------
(* Types, and who refers to a file *)

LEMMA Types ==
  ASSUME TypeOK
  PROVE  /\ \A f \in File : ftable[f] \in Entry
         /\ \A p \in Proc : ofile[p] \in [Fd -> File \cup {0}]
         /\ \A p \in Proc, fd \in Fd : ofile[p][fd] \in File \cup {0}
         /\ \A p \in Proc : th[p] \in Pending
         /\ \A p \in Proc : th[p].f[1] \in File \cup {0} /\ th[p].f[2] \in File \cup {0}
<1>1. \A p \in Proc : th[p] \in Pending /\ th[p].f \in [1 .. 2 -> File \cup {0}]
  BY ZenonT(30) DEF TypeOK, Pending
<1>2. \A p \in Proc : th[p].f[1] \in File \cup {0} /\ th[p].f[2] \in File \cup {0}
  BY <1>1
<1> QED
  BY <1>1, <1>2, ZenonT(30) DEF TypeOK

LEMMA SetRef ==
  ASSUME ftable \in [File -> Entry], NEW f \in File, NEW n \in Nat,
         ftable' = [ftable EXCEPT ![f].ref = n]
  PROVE  /\ ftable' \in [File -> Entry] /\ ftable'[f].ref = n
         /\ ftable'[f].type = ftable[f].type /\ ftable'[f].w = ftable[f].w
         /\ ftable'[f].pipe = ftable[f].pipe
         /\ \A g \in File : g # f => ftable'[g] = ftable[g]
<1>1. PICK e \in Entry : e = ftable[f]
  BY ZenonT(30)
<1> DEFINE d == [e EXCEPT !.ref = n]
<1>2. d \in Entry /\ d.ref = n /\ d.type = e.type /\ d.w = e.w /\ d.pipe = e.pipe
  BY ZenonT(30) DEF Entry
<1>3. ftable' = [ftable EXCEPT ![f] = d]
  BY <1>1, ZenonT(30)
<1> HIDE DEF d
<1> QED
  BY <1>1, <1>2, <1>3, ZenonT(30)

LEMMA Files == File \subseteq Nat /\ 0 \notin File
BY DEF File

LEMMA Slots ==
  ASSUME Sizes
  PROVE  /\ Fd \subseteq Slot /\ NOFILE \in Slot /\ NOFILE + 1 \in Slot
         /\ NOFILE \notin Fd /\ NOFILE + 1 \notin Fd /\ NOFILE # NOFILE + 1
         /\ \A i \in Slot : i \in Fd \/ i = NOFILE \/ i = NOFILE + 1
BY DEF Sizes, Slot, Fd

LEMMA RefersIs ==
  ASSUME Sizes, NEW p \in Proc
  PROVE  /\ \A fd \in Fd : Refers(p, fd) = ofile[p][fd]
         /\ Refers(p, NOFILE) = th[p].f[1] /\ Refers(p, NOFILE + 1) = th[p].f[2]
BY DEF Sizes, Fd, Refers

LEMMA NextRefersIs ==
  ASSUME Sizes, NEW p \in Proc
  PROVE  /\ \A fd \in Fd : Refers(p, fd)' = ofile'[p][fd]
         /\ Refers(p, NOFILE)' = th'[p].f[1] /\ Refers(p, NOFILE + 1)' = th'[p].f[2]
BY DEF Sizes, Fd, Refers

LEMMA HoldersFinite ==
  ASSUME Sizes, NEW f
  PROVE  IsFiniteSet(Holders(f)) /\ Cardinality(Holders(f)) \in Nat
<1>1. IsFiniteSet(Slot)
  BY FS_Interval DEF Sizes, Slot
<1>2. IsFiniteSet(Proc \X Slot)
  BY <1>1, FS_Product, ZenonT(30) DEF Sizes
<1>3. Holders(f) \subseteq Proc \X Slot
  BY ZenonT(30) DEF Holders
<1> QED
  BY <1>2, <1>3, FS_Subset, FS_CardinalityType, ZenonT(30)

LEMMA HolderIs ==
  ASSUME NEW f, NEW p \in Proc, NEW i \in Slot
  PROVE  /\ <<p, i>> \in Holders(f) <=> Refers(p, i) = f
         /\ <<p, i>> \in Holders(f)' <=> Refers(p, i)' = f
BY ZenonT(30) DEF Holders

\* The step changes one reference, that of process p at i.
Sets(p, i, f) ==
    \A q \in Proc, j \in Slot : Refers(q, j)' = IF q = p /\ j = i THEN f ELSE Refers(q, j)

LEMMA Others ==
  ASSUME NEW p \in Proc, NEW i \in Slot, NEW f, NEW g, Sets(p, i, f),
         Refers(p, i) # g, f # g
  PROVE  Holders(g)' = Holders(g)
BY ZenonT(30) DEF Sets, Holders

LEMMA Gains ==
  ASSUME Sizes, NEW p \in Proc, NEW i \in Slot, NEW f, Refers(p, i) # f, Sets(p, i, f)
  PROVE  Cardinality(Holders(f)') = Cardinality(Holders(f)) + 1
<1>1. Holders(f)' = Holders(f) \cup {<<p, i>>} /\ <<p, i>> \notin Holders(f)
  BY DEF Sets, Holders
<1> QED
  BY <1>1, HoldersFinite, FS_AddElement, ZenonT(30)

LEMMA Drops ==
  ASSUME Sizes, NEW p \in Proc, NEW i \in Slot, NEW f, NEW g, Refers(p, i) = f, g # f,
         Sets(p, i, g)
  PROVE  Cardinality(Holders(f)') = Cardinality(Holders(f)) - 1
<1>1. Holders(f)' = Holders(f) \ {<<p, i>>} /\ <<p, i>> \in Holders(f)
  BY DEF Sets, Holders
<1> QED
  BY <1>1, HoldersFinite, FS_RemoveElement, ZenonT(30)

-----------------------------------------------------------------------------
(* Counting *)

\* The counts of all files but f are kept.
Kept(f) == \A g \in File : g # f => ftable'[g].ref = ftable[g].ref

LEMMA CountUp ==
  ASSUME Sizes, FilesCounted, NEW p \in Proc, NEW i \in Slot, NEW f \in File,
         Refers(p, i) = 0, Sets(p, i, f), ftable'[f].ref = ftable[f].ref + 1, Kept(f)
  PROVE  FilesCounted'
<1>1. Cardinality(Holders(f)') = Cardinality(Holders(f)) + 1
  BY Files, Gains, ZenonT(30)
<1>2. ASSUME NEW g \in File, g # f  PROVE Holders(g)' = Holders(g)
  BY <1>2, Files, Others, ZenonT(30)
<1>3. \A g \in File : ftable'[g].ref = Cardinality(Holders(g)')
  BY <1>1, <1>2, ZenonT(30) DEF FilesCounted, Kept
<1> QED
  BY <1>3, ZenonT(30) DEF FilesCounted

LEMMA CountDown ==
  ASSUME Sizes, FilesCounted, NEW p \in Proc, NEW i \in Slot, NEW f \in File,
         Refers(p, i) = f, Sets(p, i, 0), ftable'[f].ref = ftable[f].ref - 1, Kept(f)
  PROVE  FilesCounted'
<1>1. Cardinality(Holders(f)') = Cardinality(Holders(f)) - 1
  BY Files, Drops, ZenonT(30)
<1>2. ASSUME NEW g \in File, g # f  PROVE Holders(g)' = Holders(g)
  BY <1>2, Files, Others, ZenonT(30)
<1>3. \A g \in File : ftable'[g].ref = Cardinality(Holders(g)')
  BY <1>1, <1>2, ZenonT(30) DEF FilesCounted, Kept
<1> QED
  BY <1>3, ZenonT(30) DEF FilesCounted

LEMMA CountSame ==
  ASSUME FilesCounted, \A p \in Proc, i \in Slot : Refers(p, i)' = Refers(p, i),
         \A f \in File : ftable'[f].ref = ftable[f].ref
  PROVE  FilesCounted'
<1>1. \A f \in File : Holders(f)' = Holders(f)
  BY ZenonT(30) DEF Holders
<1>2. \A g \in File : ftable'[g].ref = Cardinality(Holders(g)')
  BY <1>1, ZenonT(30) DEF FilesCounted
<1> QED
  BY <1>2, ZenonT(30) DEF FilesCounted

\* A file that is referred to has a count,
LEMMA Positive ==
  ASSUME Sizes, TypeOK, FilesCounted, NEW f \in File, NEW p \in Proc, NEW i \in Slot,
         Refers(p, i) = f
  PROVE  ftable[f].ref \in Nat /\ ftable[f].ref > 0
<1>1. Holders(f) # {}
  BY HolderIs, ZenonT(30)
<1>2. Cardinality(Holders(f)) # 0
  BY <1>1, HoldersFinite, FS_EmptySet, ZenonT(30)
<1> QED
  BY <1>2, HoldersFinite DEF FilesCounted

\* and one with a count of 1 is referred to from one place.
LEMMA Sole ==
  ASSUME Sizes, FilesCounted, NEW f \in File, NEW p \in Proc, NEW i \in Slot,
         Refers(p, i) = f, ftable[f].ref = 1, NEW q \in Proc, NEW j \in Slot,
         Refers(q, j) = f
  PROVE  q = p /\ j = i
<1>1. <<p, i>> \in Holders(f) /\ <<q, j>> \in Holders(f)
  BY HolderIs, ZenonT(30)
<1>2. Cardinality(Holders(f)) = 1
  BY ZenonT(30) DEF FilesCounted
<1>3. Cardinality(Holders(f) \ {<<p, i>>}) = 0 /\ IsFiniteSet(Holders(f) \ {<<p, i>>})
  <2>1. Cardinality(Holders(f) \ {<<p, i>>}) = Cardinality(Holders(f)) - 1
    BY <1>1, HoldersFinite, FS_RemoveElement, ZenonT(30)
  <2>2. IsFiniteSet(Holders(f) \ {<<p, i>>})
    BY HoldersFinite, FS_RemoveElement, ZenonT(30)
  <2> QED
    BY <1>2, <2>1, <2>2
<1>4. Holders(f) \ {<<p, i>>} = {}
  BY <1>3, FS_EmptySet, ZenonT(30)
<1> QED
  BY <1>1, <1>4

\* Nobody refers to a free entry, and no call has a file that has a descriptor.
LEMMA Fresh ==
  ASSUME Sizes, TypeOK, FilesCounted, NEW f \in File, ftable[f].ref = 0,
         NEW p \in Proc
  PROVE  th[p].f[1] # f /\ th[p].f[2] # f
<1>1. ASSUME NEW i \in Slot  PROVE Refers(p, i) # f
  BY Positive
<1> QED
  BY <1>1, Slots, RefersIs, ZenonT(30)

LEMMA NotInCall ==
  ASSUME Sizes, TypeOK, FilesCounted, CallInv, NEW p \in Proc, NEW fd \in Fd,
         NEW f \in File, ofile[p][fd] = f, NEW q \in Proc
  PROVE  th[q].f[1] # f /\ th[q].f[2] # f
<1>1. PICK j \in Slot : j = fd /\ Refers(p, j) = f
  BY Slots, RefersIs, ZenonT(30)
<1>2. ASSUME NEW i \in 1 .. 2, th[q].f[i] = f  PROVE ftable[f].ref = 1
  BY <1>2, Files DEF CallInv, CallAt
<1>3. ASSUME NEW i \in Slot, ftable[f].ref = 1, Refers(q, i) = f  PROVE fd = i
  <2>1. Refers(p, j) = f
    BY <1>1, ZenonT(30)
  <2>2. q = p /\ i = j
    BY <1>3, <2>1, Sole, SMTT(30)
  <2> QED
    BY <1>1, <2>2, ZenonT(30)
<1>4. th[q].f[1] # f
  BY <1>2, <1>3, Slots, RefersIs
<1>5. th[q].f[2] # f
  BY <1>2, <1>3, Slots, RefersIs
<1> QED
  BY <1>4, <1>5, ZenonT(30)

\* Two calls have no file in common.
LEMMA CallsApart ==
  ASSUME Sizes, TypeOK, FilesCounted, CallInv, NEW p \in Proc, NEW f \in File,
         th[p].f[1] = f \/ th[p].f[2] = f, NEW q \in Proc, q # p
  PROVE  th[q].f[1] # f /\ th[q].f[2] # f
<1>1. ftable[f].ref = 1
  <2>1. CallAt(p)
    BY ZenonT(30) DEF CallInv
  <2>2. \A i \in 1 .. 2 : th[p].f[i] # 0 => ftable[th[p].f[i]].ref = 1
    BY <2>1, ZenonT(30) DEF CallAt
  <2> QED
    BY <2>2, Files
<1>2. PICK i \in Slot : Refers(p, i) = f
  BY Slots, RefersIs, ZenonT(30)
<1>3. ASSUME NEW j \in Slot  PROVE Refers(q, j) # f
  BY <1>1, <1>2, Sole, ZenonT(30)
<1> QED
  BY <1>3, Slots, RefersIs, ZenonT(30)

\* A call whose files a step does not touch.
LEMMA CallKept ==
  ASSUME NEW q \in Proc, CallAt(q), th'[q] = th[q],
         \A i \in 1 .. 2 : th[q].f[i] # 0 => ftable'[th[q].f[i]] = ftable[th[q].f[i]]
  PROVE  CallAt(q)'
BY DEF CallAt

\* The calls of the others, when a step does not touch their files.
Elsewhere(p) ==
    \A q \in Proc : q # p =>
        /\ th'[q] = th[q]
        /\ \A i \in 1 .. 2 : th[q].f[i] # 0 => ftable'[th[q].f[i]] = ftable[th[q].f[i]]

LEMMA CallFrame ==
  ASSUME CallInv, NEW p \in Proc, Elsewhere(p), CallAt(p)'
  PROVE  CallInv'
<1>1. ASSUME NEW q \in Proc, q # p  PROVE CallAt(q)'
  <2>1. CallAt(q)
    BY ZenonT(30) DEF CallInv
  <2>2. /\ th'[q] = th[q]
        /\ \A i \in 1 .. 2 : th[q].f[i] # 0 => ftable'[th[q].f[i]] = ftable[th[q].f[i]]
    BY <1>1, ZenonT(30) DEF Elsewhere
  <2> QED
    BY <2>1, <2>2, CallKept, ZenonT(30)
<1> QED
  BY <1>1, ZenonT(30) DEF CallInv

-----------------------------------------------------------------------------
(* The ends of pipes *)

\* Who refers to the ends of pipes, whatever else changes.
LEMMA EndsKept ==
  ASSUME \A k \in Pipe, w \in BOOLEAN : Ends(k, w)' = Ends(k, w) /\ Closing(k, w)' = Closing(k, w),
         PipesCounted, EndInv, pipe' = pipe
  PROVE  PipesCounted' /\ EndInv'
<1>1. PipesCounted'
  BY ZenonT(30) DEF PipesCounted
<1>2. EndInv'
  BY DEF EndInv
<1> QED
  BY <1>1, <1>2, ZenonT(30)

\* A step changes entries without changing which pipe they refer to.
LEMMA PipesFrame ==
  ASSUME PipesCounted, EndInv, pipe' = pipe,
         \A f \in File : \/ ftable'[f].type # "pipe" /\ ftable[f].type # "pipe"
                         \/ /\ ftable'[f].type = ftable[f].type /\ ftable'[f].w = ftable[f].w
                            /\ ftable'[f].pipe = ftable[f].pipe
                            /\ ftable'[f].ref > 0 <=> ftable[f].ref > 0,
         \A p \in Proc : th'[p].ff = th[p].ff
  PROVE  PipesCounted' /\ EndInv'
<1>1. \A k \in Pipe, w \in BOOLEAN : Ends(k, w)' = Ends(k, w)
  BY ZenonT(30) DEF Ends
<1>2. \A k \in Pipe, w \in BOOLEAN : Closing(k, w)' = Closing(k, w)
  BY ZenonT(30) DEF Closing
<1> QED
  BY <1>1, <1>2, EndsKept, ZenonT(30)

-----------------------------------------------------------------------------
(* fileclose *)

\* An entry of the table is given up: the last reference to a pipe moves from
\* the table to the process that is going to call pipeclose.
LEMMA LastClose ==
  ASSUME TypeOK, FileInv, PipesCounted, EndInv, pipe' = pipe,
         NEW p \in Proc, NEW f \in File, ftable[f].type = "pipe", ftable[f].ref > 0,
         th[p].ff = NoFile, th'[p].ff = ftable[f], \A q \in Proc : q # p => th'[q] = th[q],
         ftable' = [ftable EXCEPT ![f] = NoFile]
  PROVE  PipesCounted' /\ EndInv'
<1>1. PICK e \in Entry : e = ftable[f]
  BY Types, ZenonT(30)
<1>2. e.pipe \in Pipe /\ e.w \in BOOLEAN
  BY <1>1, ZenonT(30) DEF FileInv, Entry
<1>3. f \in Ends(e.pipe, e.w)
  BY <1>1, ZenonT(30) DEF Ends
<1>4. Ends(e.pipe, e.w) = {f} /\ Closing(e.pipe, e.w) = {}
  BY <1>2, <1>3 DEF EndInv
<1>5. \A k \in Pipe, w \in BOOLEAN : Ends(k, w)' = Ends(k, w) \ {f}
  BY ZenonT(30) DEF Ends, NoFile, TypeOK
<1>6. \A k \in Pipe, w \in BOOLEAN :
         Closing(k, w)' = IF k = e.pipe /\ w = e.w THEN Closing(k, w) \cup {p} ELSE Closing(k, w)
  BY <1>1 DEF Closing, NoFile
<1>7. \A k \in Pipe, w \in BOOLEAN : f \in Ends(k, w) => k = e.pipe /\ w = e.w
  BY <1>1, ZenonT(30) DEF Ends
<1>8. \A k \in Pipe, w \in BOOLEAN :
         \/ Ends(k, w)' = Ends(k, w) /\ Closing(k, w)' = Closing(k, w)
         \/ Ends(k, w)' = {} /\ Closing(k, w)' = {p} /\ Ends(k, w) # {}
  BY <1>2, <1>4, <1>5, <1>6, <1>7
<1>9. PipesCounted'
  BY <1>8, ZenonT(30) DEF PipesCounted
<1>10. EndInv'
  BY <1>8 DEF EndInv
<1> QED
  BY <1>9, <1>10, ZenonT(30)

LEMMA Fileclose ==
  ASSUME Sizes, IInv, NEW p \in Proc, NEW f \in File, NEW after \in Pending,
         after.ff = NoFile, th[p].ff = NoFile, fileclose(p, f, after), pipe' = pipe
  PROVE  /\ ftable' \in [File -> Entry] /\ FileInv' /\ PipesCounted' /\ EndInv'
         /\ ftable'[f].ref = ftable[f].ref - 1
         /\ \A g \in File : g # f => ftable'[g] = ftable[g]
         /\ th' \in [Proc -> Pending] /\ \A q \in Proc : q # p => th'[q] = th[q]
         /\ th'[p].pc = after.pc /\ th'[p].op = after.op /\ th'[p].np = after.np
         /\ th'[p].f = after.f
         /\ th'[p].ff # NoFile => th'[p].ff.type = "pipe" /\ th'[p].ff.pipe \in Pipe
<1>1. PICK e \in Entry : e = ftable[f]
  BY Types, ZenonT(30) DEF IInv, TablesCounted
<1>2. TypeOK /\ FileInv /\ PipesCounted /\ EndInv /\ ftable \in [File -> Entry]
      /\ th \in [Proc -> Pending]
  BY ZenonT(30) DEF IInv, TablesCounted, TypeOK
<1>3. e.ref \in Nat /\ e.ref > 0
  BY <1>1, ZenonT(30) DEF fileclose, Entry
<1>4. CASE e.ref > 1
  <2> DEFINE d == Drop(e)
  <2>1. /\ d \in Entry /\ d.ref = e.ref - 1 /\ d.ref > 0
        /\ d.type = e.type /\ d.w = e.w /\ d.pipe = e.pipe
    BY <1>3, <1>4 DEF Entry, Drop
  <2>2. ftable' = [ftable EXCEPT ![f] = d] /\ th' = [th EXCEPT ![p] = after]
    BY <1>1, <1>4, ZenonT(30) DEF fileclose, Go
  <2> HIDE DEF d
  <2>3. \A g \in File : g # f => ftable'[g] = ftable[g]
    BY <1>2, <2>2, ZenonT(30)
  <2>4. ftable'[f] = d /\ th'[p] = after /\ \A q \in Proc : q # p => th'[q] = th[q]
    BY <1>2, <2>2, ZenonT(30)
  <2>5. FileInv'
    BY <1>1, <1>2, <2>1, <2>3, <2>4 DEF FileInv, Entry
  <2>6. PipesCounted' /\ EndInv'
    <3>1. \A g \in File : \/ ftable'[g].type # "pipe" /\ ftable[g].type # "pipe"
                          \/ /\ ftable'[g].type = ftable[g].type /\ ftable'[g].w = ftable[g].w
                             /\ ftable'[g].pipe = ftable[g].pipe
                             /\ ftable'[g].ref > 0 <=> ftable[g].ref > 0
      BY <1>1, <1>3, <2>1, <2>3, <2>4, ZenonT(30)
    <3>2. \A q \in Proc : th'[q].ff = th[q].ff
      BY <2>4, ZenonT(30)
    <3> QED
      BY <1>2, <3>1, <3>2, PipesFrame, ZenonT(30)
  <2> QED
    BY <1>1, <1>2, <2>1, <2>2, <2>3, <2>4, <2>5, <2>6, ZenonT(30)
<1>5. CASE e.ref = 1
  <2>1. ftable' = [ftable EXCEPT ![f] = NoFile]
    <3>1. Drop(e) = NoFile
      BY <1>5 DEF Drop
    <3> QED
      BY <1>1, <3>1, ZenonT(30) DEF fileclose
  <2>2. NoFile \in Entry /\ NoFile.ref = 0 /\ NoFile.type = "none"
    BY ZenonT(30) DEF NoFile, Entry
  <2>3. \A g \in File : g # f => ftable'[g] = ftable[g]
    BY <1>2, <2>1, ZenonT(30)
  <2>4. ftable'[f] = NoFile /\ ftable' \in [File -> Entry]
    BY <1>2, <2>1, <2>2, ZenonT(30)
  <2>5. FileInv'
    BY <1>2, <2>2, <2>3, <2>4, ZenonT(30) DEF FileInv
  <2>6. CASE e.type # "pipe"
    <3>1. th' = [th EXCEPT ![p] = after]
      BY <1>1, <2>6, ZenonT(30) DEF fileclose, Go
    <3>2. th'[p] = after /\ \A q \in Proc : q # p => th'[q] = th[q]
      BY <1>2, <3>1, ZenonT(30)
    <3>3. \A g \in File : \/ ftable'[g].type # "pipe" /\ ftable[g].type # "pipe"
                          \/ /\ ftable'[g].type = ftable[g].type /\ ftable'[g].w = ftable[g].w
                             /\ ftable'[g].pipe = ftable[g].pipe
                             /\ ftable'[g].ref > 0 <=> ftable[g].ref > 0
      BY <1>1, <2>2, <2>3, <2>4, <2>6, ZenonT(30)
    <3>4. \A q \in Proc : th'[q].ff = th[q].ff
      BY <3>2, ZenonT(30)
    <3>5. PipesCounted' /\ EndInv'
      BY <1>2, <3>3, <3>4, PipesFrame, ZenonT(30)
    <3> QED
      BY <1>1, <1>2, <1>5, <2>2, <2>3, <2>4, <2>5, <3>1, <3>2, <3>5
  <2>7. CASE e.type = "pipe"
    <3>1. PICK a \in Pending : /\ a.pc = after.pc /\ a.op = after.op /\ a.np = after.np
                           /\ a.f = after.f /\ a.ff = e /\ a = [after EXCEPT !.ff = e]
      BY ZenonT(30) DEF Pending
    <3>2. th' = [th EXCEPT ![p] = a]
      BY <1>1, <1>5, <2>7, <3>1 DEF fileclose, Go
    <3>3. th'[p] = a /\ \A q \in Proc : q # p => th'[q] = th[q]
      BY <1>2, <3>2, ZenonT(30)
    <3>4. th'[p].ff = ftable[f] /\ ftable[f].type = "pipe" /\ ftable[f].ref > 0
      BY <1>1, <1>3, <2>7, <3>1, <3>3, ZenonT(30)
    <3>5. PipesCounted' /\ EndInv'
      BY <1>2, <2>1, <3>3, <3>4, LastClose, ZenonT(30)
    <3>6. e.pipe \in Pipe
      BY <1>1, <1>2, <2>7, ZenonT(30) DEF FileInv
    <3> QED
      BY <1>1, <1>2, <1>5, <2>2, <2>3, <2>4, <2>5, <2>7, <3>1, <3>2, <3>3, <3>5, <3>6
  <2> QED
    BY <2>6, <2>7, ZenonT(30)
<1> QED
  BY <1>3, <1>4, <1>5

-----------------------------------------------------------------------------
(* One reference changes *)

LEMMA SetFd ==
  ASSUME Sizes, TypeOK, NEW p \in Proc, NEW a \in Fd, NEW f \in File \cup {0},
         ofile' = [ofile EXCEPT ![p][a] = f],
         \A q \in Proc : th'[q].f[1] = th[q].f[1] /\ th'[q].f[2] = th[q].f[2]
  PROVE  Sets(p, a, f) /\ ofile' \in [Proc -> [Fd -> File \cup {0}]]
<1>1. ofile' \in [Proc -> [Fd -> File \cup {0}]]
  BY ZenonT(30) DEF TypeOK
<1>2. \A q \in Proc, d \in Fd : ofile'[q][d] = IF q = p /\ d = a THEN f ELSE ofile[q][d]
  BY ZenonT(30) DEF TypeOK
<1>3. ASSUME NEW q \in Proc, NEW j \in Slot
      PROVE  Refers(q, j)' = IF q = p /\ j = a THEN f ELSE Refers(q, j)
  <2>1. CASE j \in Fd
    BY <1>2, <2>1, RefersIs, NextRefersIs
  <2>2. CASE j = NOFILE
    BY <2>2, RefersIs, NextRefersIs, Slots
  <2>3. CASE j = NOFILE + 1
    BY <2>3, RefersIs, NextRefersIs, Slots
  <2> QED
    BY <2>1, <2>2, <2>3, Slots, ZenonT(30)
<1> QED
  BY <1>1, <1>3, ZenonT(30) DEF Sets

LEMMA SetCall ==
  ASSUME Sizes, NEW p \in Proc, NEW k \in 1 .. 2, NEW f, ofile' = ofile,
         \A q \in Proc : q # p => th'[q].f = th[q].f,
         \A j \in 1 .. 2 : th'[p].f[j] = IF j = k THEN f ELSE th[p].f[j]
  PROVE  \E i \in Slot : Sets(p, i, f) /\ Refers(p, i) = th[p].f[k]
<1>1. NOFILE \in Nat
  BY ZenonT(30) DEF Sizes
<1>2. PICK i : (k = 1 => i = NOFILE) /\ (k = 2 => i = NOFILE + 1)
  BY <1>1
<1>3. k = 1 \/ k = 2
  OBVIOUS
<1>4. ASSUME NEW q \in Proc, NEW j \in Slot
      PROVE  Refers(q, j)' = IF q = p /\ j = i THEN f ELSE Refers(q, j)
  <2>1. CASE j \in Fd
    BY <1>2, <1>3, <2>1, RefersIs, NextRefersIs, Slots
  <2>2. CASE j = NOFILE
    BY <1>2, <1>3, <2>2, RefersIs, NextRefersIs, Slots
  <2>3. CASE j = NOFILE + 1
    BY <1>2, <1>3, <2>3, RefersIs, NextRefersIs, Slots
  <2> QED
    BY <2>1, <2>2, <2>3, Slots, ZenonT(30)
<1>5. Refers(p, i) = th[p].f[k] /\ i \in Slot
  BY <1>2, <1>3, RefersIs, Slots, ZenonT(30)
<1>6. Sets(p, i, f)
  BY <1>4, ZenonT(30) DEF Sets
<1> QED
  BY <1>5, <1>6, ZenonT(30)

-----------------------------------------------------------------------------
(* sys_close, exit and the failing calls *)

\* A descriptor is closed.
LEMMA CloseFd ==
  ASSUME Sizes, IInv, NEW p \in Proc, NEW fd \in Fd, NEW f \in File, NEW after \in Pending,
         ofile[p][fd] = f, th[p].ff = NoFile, after.ff = NoFile, after.pc \in {"out", "exit"},
         after.f[1] = 0 /\ after.f[2] = 0, th[p].f[1] = 0 /\ th[p].f[2] = 0,
         ofile' = [ofile EXCEPT ![p][fd] = 0], fileclose(p, f, after),
         alive' = alive, pipe' = pipe
  PROVE  IInv'
<1>1. TypeOK /\ FilesCounted /\ CallInv
  BY ZenonT(30) DEF IInv, TablesCounted
<1>2. /\ ftable' \in [File -> Entry] /\ FileInv' /\ PipesCounted' /\ EndInv'
      /\ ftable'[f].ref = ftable[f].ref - 1
      /\ \A g \in File : g # f => ftable'[g] = ftable[g]
      /\ th' \in [Proc -> Pending] /\ \A q \in Proc : q # p => th'[q] = th[q]
      /\ th'[p].pc = after.pc /\ th'[p].f = after.f
      /\ th'[p].ff # NoFile => th'[p].ff.type = "pipe" /\ th'[p].ff.pipe \in Pipe
  BY Fileclose, ZenonT(30)
<1>3. \A q \in Proc : th'[q].f[1] = th[q].f[1] /\ th'[q].f[2] = th[q].f[2]
  BY <1>2, ZenonT(30)
<1>4. Sets(p, fd, 0) /\ ofile' \in [Proc -> [Fd -> File \cup {0}]]
  <2>1. 0 \in File \cup {0}
    BY ZenonT(30)
  <2> QED
    BY <1>1, <1>3, <2>1, SetFd, ZenonT(30)
<1>5. TypeOK'
  BY <1>1, <1>2, <1>4, ZenonT(30) DEF TypeOK
<1>6. FilesCounted'
  <2>1. Refers(p, fd) = f /\ fd \in Slot
    BY RefersIs, Slots, ZenonT(30)
  <2>2. Kept(f)
    BY <1>2, ZenonT(30) DEF Kept
  <2> QED
    BY <1>1, <1>2, <1>4, <2>1, <2>2, CountDown, ZenonT(30)
<1>7. CallInv'
  <2>1. ASSUME NEW q \in Proc  PROVE th[q].f[1] # f /\ th[q].f[2] # f
    BY <1>1, NotInCall, ZenonT(30)
  <2>2. Elsewhere(p)
    BY <1>1, <1>2, <2>1, Types DEF Elsewhere
  <2>3. CallAt(p)'
    BY <1>2 DEF CallAt
  <2> QED
    BY <1>1, <2>2, <2>3, CallFrame, ZenonT(30)
<1> QED
  BY <1>2, <1>5, <1>6, <1>7, ZenonT(30) DEF IInv, TablesCounted

LEMMA OutIs ==
  /\ Out \in Pending /\ Out.pc = "out" /\ Out.op = "none" /\ Out.f[1] = 0 /\ Out.f[2] = 0
  /\ Out.ff = NoFile
BY DEF Out, Pending, NoFile, Entry

LEMMA CloseStep ==
  ASSUME Sizes, IInv, NEW p \in Proc, NEW fd \in Fd, sys_close(p, fd)
  PROVE  IInv'
<1>1. PICK f \in File : ofile[p][fd] = f
  BY Types, ZenonT(30) DEF IInv, TablesCounted, sys_close
<1>2. /\ th[p] = Out /\ ofile' = [ofile EXCEPT ![p][fd] = 0] /\ fileclose(p, f, Out)
      /\ alive' = alive /\ pipe' = pipe
  BY <1>1, ZenonT(30) DEF sys_close
<1>3. th[p].ff = NoFile /\ th[p].f[1] = 0 /\ th[p].f[2] = 0 /\ Out.pc \in {"out", "exit"}
  BY <1>2, OutIs, ZenonT(30)
<1> QED
  BY <1>1, <1>2, <1>3, OutIs, CloseFd, ZenonT(30)

\* A call goes on with the files that it has.
LEMMA CallMoves ==
  ASSUME Sizes, IInv, NEW p \in Proc, NEW c \in Pending, th' = [th EXCEPT ![p] = c],
         c.ff = th[p].ff, c.f[1] = th[p].f[1] /\ c.f[2] = th[p].f[2], CallAt(p)',
         ofile' = ofile, ftable' = ftable, pipe' = pipe, alive' \subseteq Proc
  PROVE  IInv'
<1>1. TypeOK /\ FilesCounted /\ PipesCounted /\ FileInv /\ CallInv /\ EndInv
  BY ZenonT(30) DEF IInv, TablesCounted
<1>2. th'[p] = c /\ \A q \in Proc : q # p => th'[q] = th[q]
  BY <1>1, ZenonT(30) DEF TypeOK
<1>3. TypeOK'
  BY <1>1, ZenonT(30) DEF TypeOK
<1>4. FilesCounted'
  <2>1. \A q \in Proc : th'[q].f[1] = th[q].f[1] /\ th'[q].f[2] = th[q].f[2]
    BY <1>2, ZenonT(30)
  <2>2. ASSUME NEW q \in Proc, NEW i \in Slot  PROVE Refers(q, i)' = Refers(q, i)
    BY <2>1, RefersIs, NextRefersIs, Slots
  <2> QED
    BY <1>1, <2>2, CountSame, ZenonT(30)
<1>5. FileInv'
  BY <1>1, ZenonT(30) DEF FileInv
<1>6. PipesCounted' /\ EndInv'
  <2>1. \A q \in Proc : th'[q].ff = th[q].ff
    BY <1>2, ZenonT(30)
  <2> QED
    BY <1>1, <2>1, PipesFrame, ZenonT(30)
<1>7. CallInv'
  <2>1. Elsewhere(p)
    BY <1>2, ZenonT(30) DEF Elsewhere
  <2> QED
    BY <1>1, <2>1, CallFrame, ZenonT(30)
<1> QED
  BY <1>3, <1>4, <1>5, <1>6, <1>7, ZenonT(30) DEF IInv, TablesCounted

LEMMA Returned ==
  ASSUME Sizes, IInv, NEW p \in Proc, th[p].ff = NoFile, th[p].f[1] = 0 /\ th[p].f[2] = 0,
         th' = [th EXCEPT ![p] = Out], ofile' = ofile, ftable' = ftable, pipe' = pipe,
         alive' \subseteq Proc
  PROVE  IInv'
<1>1. th'[p] = Out
  BY ZenonT(30) DEF IInv, TablesCounted, TypeOK
<1>2. CallAt(p)'
  BY <1>1, OutIs DEF CallAt
<1> QED
  BY <1>2, OutIs, CallMoves, ZenonT(30)

LEMMA ExitStep ==
  ASSUME Sizes, IInv, NEW p \in Proc, exit(p)
  PROVE  IInv'
<1> DEFINE Rest == Fd \ FreeFds(p)
<1>1. TypeOK /\ FilesCounted /\ PipesCounted /\ FileInv /\ CallInv /\ EndInv
  BY ZenonT(30) DEF IInv, TablesCounted
<1>2. th[p].pc = "exit" /\ th[p].ff = NoFile /\ th[p] \in Pending
  BY <1>1, Types, ZenonT(30) DEF exit
<1>3. th[p].f[1] = 0 /\ th[p].f[2] = 0
  BY <1>1, <1>2, ZenonT(30) DEF CallInv, CallAt
<1>4. CASE Rest # {}
  <2>1. Rest \subseteq Nat
    BY DEF Fd
  <2>2. PICK fd \in Rest : fd = Least(Rest)
    BY <1>4, <2>1, LeastIn, ZenonT(30)
  <2>3. PICK f \in File : f = ofile[p][fd]
    BY <1>1, Types, ZenonT(30) DEF FreeFds
  <2>4. /\ ofile' = [ofile EXCEPT ![p][fd] = 0] /\ fileclose(p, f, th[p])
        /\ alive' = alive /\ pipe' = pipe
    BY <1>4, <2>2, <2>3, ZenonT(30) DEF exit
  <2>5. fd \in Fd /\ th[p].pc \in {"out", "exit"}
    BY <1>2, ZenonT(30)
  <2> QED
    BY <1>2, <1>3, <2>3, <2>4, <2>5, CloseFd, ZenonT(30)
<1>5. CASE Rest = {}
  <2>1. /\ alive' = alive \ {p} /\ th' = [th EXCEPT ![p] = Out]
        /\ ofile' = ofile /\ ftable' = ftable /\ pipe' = pipe
    BY <1>5, ZenonT(30) DEF exit, Return, Go
  <2>2. alive' \subseteq Proc
    BY <1>1, <2>1, ZenonT(30) DEF TypeOK
  <2> QED
    BY <1>2, <1>3, <2>1, <2>2, Returned, ZenonT(30)
<1> QED
  BY <1>4, <1>5, ZenonT(30)

\* A failing call gives back one of its files.
LEMMA BadStep ==
  ASSUME Sizes, IInv, NEW p \in Proc, bad(p)
  PROVE  IInv'
<1>1. TypeOK /\ FilesCounted /\ PipesCounted /\ FileInv /\ CallInv /\ EndInv
  BY ZenonT(30) DEF IInv, TablesCounted
<1>2. PICK k \in 1 .. 2 : k = IF th[p].f[1] # 0 THEN 1 ELSE 2
  OBVIOUS
<1>3. th[p].pc = "bad" /\ th[p].ff = NoFile /\ th[p] \in Pending
      /\ ofile' = ofile /\ alive' = alive /\ pipe' = pipe
  BY <1>1, Types, ZenonT(30) DEF bad
<1>4. CASE th[p].f[k] = 0
  <2>1. th' = [th EXCEPT ![p] = Out] /\ ftable' = ftable
    BY <1>2, <1>4, ZenonT(30) DEF bad, Return, Go
  <2>2. th[p].f[1] = 0 /\ th[p].f[2] = 0
    BY <1>2, <1>4, ZenonT(30)
  <2>3. alive' \subseteq Proc
    BY <1>1, <1>3, ZenonT(30) DEF TypeOK
  <2> QED
    BY <1>3, <2>1, <2>2, <2>3, Returned, ZenonT(30)
<1>5. CASE th[p].f[k] # 0
  <2>1. PICK f \in File : f = th[p].f[k]
    BY <1>1, <1>2, <1>5, Types, ZenonT(30)
  <2> DEFINE after == [th[p] EXCEPT !.f[k] = 0]
  <2>2. fileclose(p, f, after)
    BY <1>2, <1>5, <2>1, ZenonT(30) DEF bad
  <2>3. after \in Pending /\ after.ff = th[p].ff /\ after.pc = th[p].pc
        /\ after.f = [th[p].f EXCEPT ![k] = 0]
    BY <1>3, ZenonT(30) DEF Pending
  <2>4. \A j \in 1 .. 2 : after.f[j] = IF j = k THEN 0 ELSE th[p].f[j]
    BY <1>3, <2>3, ZenonT(30) DEF Pending
  <2>5. after.ff = NoFile /\ after.pc = "bad"
    BY <1>3, <2>3, ZenonT(30)
  <2> HIDE DEF after
  <2>6. /\ ftable' \in [File -> Entry] /\ FileInv' /\ PipesCounted' /\ EndInv'
        /\ ftable'[f].ref = ftable[f].ref - 1
        /\ \A g \in File : g # f => ftable'[g] = ftable[g]
        /\ th' \in [Proc -> Pending] /\ \A q \in Proc : q # p => th'[q] = th[q]
        /\ th'[p].pc = after.pc /\ th'[p].f = after.f
        /\ th'[p].ff # NoFile => th'[p].ff.type = "pipe" /\ th'[p].ff.pipe \in Pipe
    BY <1>3, <2>2, <2>3, <2>5, Fileclose, ZenonT(30)
  <2>7. TypeOK'
    BY <1>1, <1>3, <2>6, ZenonT(30) DEF TypeOK
  <2>8. FilesCounted'
    <3>1. \A q \in Proc : q # p => th'[q].f = th[q].f
      BY <2>6, ZenonT(30)
    <3>2. \A j \in 1 .. 2 : th'[p].f[j] = IF j = k THEN 0 ELSE th[p].f[j]
      BY <2>4, <2>6, ZenonT(30)
    <3>3. PICK i \in Slot : Sets(p, i, 0) /\ Refers(p, i) = f
      BY <1>3, <2>1, <3>1, <3>2, SetCall, ZenonT(30)
    <3>4. Kept(f)
      BY <2>6, ZenonT(30) DEF Kept
    <3> QED
      BY <1>1, <2>6, <3>3, <3>4, CountDown, ZenonT(30)
  <2>9. CallInv'
    <3>1. th[p].f[1] = f \/ th[p].f[2] = f
      BY <2>1
    <3>2. ASSUME NEW q \in Proc, q # p  PROVE th[q].f[1] # f /\ th[q].f[2] # f
      BY <1>1, <3>1, <3>2, CallsApart, ZenonT(30)
    <3>3. Elsewhere(p)
      BY <1>1, <2>6, <3>2, Types DEF Elsewhere
    <3>4. CallAt(p)'
      <4>1. /\ th[p].f[1] = th[p].f[2] => th[p].f[1] = 0
            /\ \A i \in 1 .. 2 : th[p].f[i] # 0 => ftable[th[p].f[i]].ref = 1
        BY <1>1, ZenonT(30) DEF CallInv, CallAt
      <4>2. \A i \in 1 .. 2 : th'[p].f[i] # 0 => th'[p].f[i] = th[p].f[i] /\ i # k
        BY <2>4, <2>6, ZenonT(30)
      <4>3. \A i \in 1 .. 2 : th'[p].f[i] # 0 => th[p].f[i] # f
        BY <1>2, <2>1, <4>1, <4>2
      <4>4. \A i \in 1 .. 2 : th'[p].f[i] # 0 => ftable'[th'[p].f[i]].ref = 1
        BY <1>1, <2>6, <4>1, <4>2, <4>3, Types
      <4>5. th'[p].f[1] = th'[p].f[2] => th'[p].f[1] = 0
        BY <4>1, <4>2
      <4>6. th'[p].pc = "bad"
        BY <2>5, <2>6, ZenonT(30)
      <4> QED
        BY <2>6, <4>4, <4>5, <4>6, ZenonT(30) DEF CallAt, Untyped
    <3> QED
      BY <1>1, <3>3, <3>4, CallFrame, ZenonT(30)
  <2> QED
    BY <2>6, <2>7, <2>8, <2>9, ZenonT(30) DEF IInv, TablesCounted
<1> QED
  BY <1>4, <1>5, ZenonT(30)

-----------------------------------------------------------------------------
(* sys_dup and fork *)

\* A descriptor is copied to a free one.
LEMMA CopyFd ==
  ASSUME Sizes, IInv, NEW p \in Proc, NEW fd \in Fd, NEW f \in File, ofile[p][fd] = f,
         NEW q \in Proc, NEW a \in Fd, ofile[q][a] = 0, ofile' = [ofile EXCEPT ![q][a] = f],
         ftable' = [ftable EXCEPT ![f].ref = @ + 1], alive' = alive, pipe' = pipe, th' = th
  PROVE  IInv'
<1>1. TypeOK /\ FilesCounted /\ PipesCounted /\ FileInv /\ CallInv /\ EndInv
  BY ZenonT(30) DEF IInv, TablesCounted
<1>2. Refers(p, fd) = f /\ fd \in Slot /\ Refers(q, a) = 0 /\ a \in Slot
  BY RefersIs, Slots, ZenonT(30)
<1>3. ftable[f].ref \in Nat /\ ftable[f].ref > 0
  BY <1>1, <1>2, Positive, ZenonT(30)
<1>4. /\ ftable' \in [File -> Entry] /\ ftable'[f].ref = ftable[f].ref + 1
      /\ ftable'[f].type = ftable[f].type /\ ftable'[f].w = ftable[f].w
      /\ ftable'[f].pipe = ftable[f].pipe
      /\ \A g \in File : g # f => ftable'[g] = ftable[g]
  <2>1. PICK n \in Nat : n = ftable[f].ref + 1
    BY <1>3
  <2>2. ftable' = [ftable EXCEPT ![f].ref = n] /\ ftable \in [File -> Entry]
    BY <1>1, <2>1, ZenonT(30) DEF TypeOK
  <2> QED
    BY <2>1, <2>2, SetRef, ZenonT(30)
<1>5. \A g \in File : g # f => ftable'[g] = ftable[g]
  BY <1>4, ZenonT(30)
<1>6. Sets(q, a, f) /\ ofile' \in [Proc -> [Fd -> File \cup {0}]]
  BY <1>1, SetFd, ZenonT(30)
<1>7. TypeOK'
  BY <1>1, <1>4, <1>6, ZenonT(30) DEF TypeOK
<1>8. FilesCounted'
  <2>1. Kept(f)
    BY <1>5, ZenonT(30) DEF Kept
  <2> QED
    BY <1>1, <1>2, <1>4, <1>6, <2>1, CountUp, ZenonT(30)
<1>9. FileInv'
  BY <1>1, <1>3, <1>4, <1>5 DEF FileInv
<1>10. PipesCounted' /\ EndInv'
  <2>1. \A g \in File : \/ ftable'[g].type # "pipe" /\ ftable[g].type # "pipe"
                        \/ /\ ftable'[g].type = ftable[g].type /\ ftable'[g].w = ftable[g].w
                           /\ ftable'[g].pipe = ftable[g].pipe
                           /\ ftable'[g].ref > 0 <=> ftable[g].ref > 0
    BY <1>3, <1>4, <1>5
  <2>2. \A r \in Proc : th'[r].ff = th[r].ff
    BY ZenonT(30)
  <2> QED
    BY <1>1, <2>1, <2>2, PipesFrame, ZenonT(30)
<1>11. CallInv'
  <2>1. ASSUME NEW r \in Proc  PROVE th[r].f[1] # f /\ th[r].f[2] # f
    BY <1>1, NotInCall, ZenonT(30)
  <2>2. \A r \in Proc, i \in 1 .. 2 : th[r].f[i] # 0 => ftable'[th[r].f[i]] = ftable[th[r].f[i]]
    BY <1>1, <1>5, <2>1, Types
  <2>3. ASSUME NEW r \in Proc  PROVE CallAt(r)'
    BY <1>1, <2>2, CallKept, ZenonT(30) DEF CallInv
  <2> QED
    BY <2>3, ZenonT(30) DEF CallInv
<1> QED
  BY <1>7, <1>8, <1>9, <1>10, <1>11, ZenonT(30) DEF IInv, TablesCounted

LEMMA DupStep ==
  ASSUME Sizes, IInv, NEW p \in Proc, NEW fd \in Fd, sys_dup(p, fd)
  PROVE  IInv'
<1>1. PICK f \in File : ofile[p][fd] = f
  BY Types, ZenonT(30) DEF IInv, TablesCounted, sys_dup
<1>2. FreeFds(p) \subseteq Nat /\ FreeFds(p) # {}
  BY DEF FreeFds, Fd, sys_dup
<1>3. PICK a \in FreeFds(p) : a = Least(FreeFds(p))
  BY <1>2, LeastIn, ZenonT(30)
<1>4. a \in Fd /\ ofile[p][a] = 0
  BY ZenonT(30) DEF FreeFds
<1>5. /\ ofile' = [ofile EXCEPT ![p][a] = f] /\ ftable' = [ftable EXCEPT ![f].ref = @ + 1]
      /\ alive' = alive /\ pipe' = pipe /\ th' = th
  BY <1>1, <1>3, ZenonT(30) DEF sys_dup
<1> QED
  BY <1>1, <1>4, <1>5, CopyFd, ZenonT(30)

LEMMA ForkStep ==
  ASSUME Sizes, IInv, NEW p \in Proc, fork(p)
  PROVE  IInv'
<1>1. TypeOK /\ FilesCounted /\ PipesCounted /\ FileInv /\ CallInv /\ EndInv
  BY ZenonT(30) DEF IInv, TablesCounted
<1>2. th[p].pc = "fork" /\ pipe' = pipe
  BY ZenonT(30) DEF fork
<1>3. PICK q \in Proc : q = th[p].np
  BY <1>1, <1>2, ZenonT(30) DEF CallInv, CallAt
<1>4. th[p].f[1] = 0 /\ th[p].f[2] = 0 /\ th[p].ff = NoFile
  BY <1>1, <1>2, ZenonT(30) DEF CallInv, CallAt
<1> DEFINE Rest == {fd \in Fd : ofile[p][fd] # 0 /\ ofile[q][fd] = 0}
<1>5. CASE Rest = {}
  <2>1. /\ alive' = alive \cup {q} /\ th' = [th EXCEPT ![p] = Out]
        /\ ofile' = ofile /\ ftable' = ftable
    BY <1>3, <1>5, ZenonT(30) DEF fork, Return, Go
  <2>2. alive' \subseteq Proc
    BY <1>1, <2>1, ZenonT(30) DEF TypeOK
  <2> QED
    BY <1>2, <1>4, <2>1, <2>2, Returned, ZenonT(30)
<1>6. CASE Rest # {}
  <2>1. Rest \subseteq Nat
    BY DEF Fd
  <2>2. PICK fd \in Rest : fd = Least(Rest)
    BY <1>6, <2>1, LeastIn, ZenonT(30)
  <2>3. PICK f \in File : f = ofile[p][fd]
    BY <1>1, Types, ZenonT(30)
  <2>4. /\ ofile' = [ofile EXCEPT ![q][fd] = f] /\ ftable' = [ftable EXCEPT ![f].ref = @ + 1]
        /\ alive' = alive /\ th' = th
    BY <1>3, <1>6, <2>2, <2>3, ZenonT(30) DEF fork
  <2>5. fd \in Fd /\ ofile[q][fd] = 0
    BY ZenonT(30)
  <2> QED
    BY <1>2, <2>3, <2>4, <2>5, CopyFd, ZenonT(30)
<1> QED
  BY <1>5, <1>6, ZenonT(30)

-----------------------------------------------------------------------------
(* begin, and the calls that fail for want of a file, a page or a descriptor *)

LEMMA BeginStep ==
  ASSUME Sizes, IInv, NEW p \in Proc, NEW op \in Calls[p], begin(p, op)
  PROVE  IInv'
<1>1. TypeOK /\ alive \subseteq Proc /\ th \in [Proc -> Pending]
  BY ZenonT(30) DEF IInv, TablesCounted, TypeOK
<1>2. op \in {"open", "pipe", "fork", "exit"}
  BY ZenonT(30) DEF Sizes
<1>3. PICK n : n = IF op = "fork" THEN Least(Unused) ELSE 0
  BY ZenonT(30)
<1>4. n \in Proc \cup {0} /\ (op = "fork" => n \in Proc)
  <2>1. CASE op = "fork"
    <3>1. Unused \subseteq Proc /\ Unused \subseteq Nat /\ Unused # {}
      BY <1>1, <2>1, ZenonT(30) DEF begin, Unused, Sizes
    <3> QED
      BY <1>3, <2>1, <3>1, LeastIn, ZenonT(30)
  <2>2. CASE op # "fork"
    BY <1>3, <2>2, ZenonT(30)
  <2> QED
    BY <2>1, <2>2, ZenonT(30)
<1>5. PICK s : s = IF op \in {"fork", "exit"} THEN op ELSE "filealloc"
  BY ZenonT(30)
<1>6. s \in {"fork", "exit", "filealloc"} /\ (s = "fork" => op = "fork")
  BY <1>5, ZenonT(30)
<1> DEFINE c == [[[Out EXCEPT !.op = op] EXCEPT !.np = n] EXCEPT !.pc = s]
<1>7. /\ c \in Pending /\ c.ff = Out.ff /\ c.f = Out.f /\ c.pc = s /\ c.np = n
  <2>1. PICK o \in Pending : o = Out
    BY OutIs, ZenonT(30)
  <2>2. s \in {"out", "filealloc", "kalloc", "fdalloc", "bad", "fork", "exit"}
        /\ op \in {"none", "open", "pipe", "fork", "exit"}
    BY <1>2, <1>6, ZenonT(30)
  <2> QED
    BY <1>4, <2>1, <2>2, ZenonT(30) DEF Pending
<1>8. /\ th[p] = Out /\ th' = [th EXCEPT ![p] = c]
      /\ ofile' = ofile /\ ftable' = ftable /\ pipe' = pipe /\ alive' = alive
  BY <1>3, <1>5, ZenonT(30) DEF begin, Go
<1> HIDE DEF c
<1>9. th'[p] = c
  BY <1>1, <1>8, ZenonT(30)
<1>10. CallAt(p)'
  BY <1>4, <1>6, <1>7, <1>9, OutIs DEF CallAt
<1>11. c.ff = th[p].ff /\ c.f[1] = th[p].f[1] /\ c.f[2] = th[p].f[2] /\ alive' \subseteq Proc
  BY <1>1, <1>7, <1>8, ZenonT(30)
<1> QED
  BY <1>7, <1>8, <1>10, <1>11, CallMoves, ZenonT(30)

LEMMA CallFails ==
  ASSUME Sizes, IInv, NEW p \in Proc, th[p].pc \in {"filealloc", "kalloc", "fdalloc"},
         To(p, "bad"), ofile' = ofile, ftable' = ftable, pipe' = pipe, alive' = alive
  PROVE  IInv'
<1>1. th \in [Proc -> Pending] /\ CallAt(p) /\ alive' \subseteq Proc
  BY ZenonT(30) DEF IInv, TablesCounted, TypeOK, CallInv
<1> DEFINE c == [th[p] EXCEPT !.pc = "bad"]
<1>2. c \in Pending /\ c.ff = th[p].ff /\ c.f = th[p].f /\ c.pc = "bad"
  BY <1>1 DEF Pending
<1>3. th' = [th EXCEPT ![p] = c]
  BY ZenonT(30) DEF To, Go
<1> HIDE DEF c
<1>4. th'[p] = c
  BY <1>1, <1>3, ZenonT(30)
<1>5. CallAt(p)'
  BY <1>1, <1>2, <1>4, ZenonT(30) DEF CallAt, Untyped
<1>6. c.f[1] = th[p].f[1] /\ c.f[2] = th[p].f[2]
  BY <1>2, ZenonT(30)
<1> QED
  BY <1>1, <1>2, <1>3, <1>5, <1>6, CallMoves, ZenonT(30)

-----------------------------------------------------------------------------
(* filealloc *)

LEMMA FileallocStep ==
  ASSUME Sizes, IInv, NEW p \in Proc, filealloc(p)
  PROVE  IInv'
<1>1. TypeOK /\ FilesCounted /\ PipesCounted /\ FileInv /\ CallInv /\ EndInv
  BY ZenonT(30) DEF IInv, TablesCounted
<1>2. ofile' = ofile /\ alive' = alive /\ pipe' = pipe /\ th[p].pc = "filealloc"
  BY ZenonT(30) DEF filealloc
<1>3. CASE FreeFiles = {}
  <2>1. To(p, "bad") /\ ftable' = ftable
    BY <1>3, ZenonT(30) DEF filealloc
  <2> QED
    BY <1>2, <2>1, CallFails, ZenonT(30)
<1>4. CASE FreeFiles # {}
  <2>1. PICK g \in FreeFiles : g = Least(FreeFiles)
    <3>1. FreeFiles \subseteq Nat
      BY DEF FreeFiles, File
    <3> QED
      BY <1>4, <3>1, LeastIn, ZenonT(30)
  <2>2. g \in File /\ ftable[g].ref = 0 /\ ftable[g].type = "none" /\ g # 0
    BY <1>1, Files DEF FreeFiles, FileInv, NoFile
  <2>3. PICK k \in 1 .. 2 : k = IF th[p].f[1] = 0 THEN 1 ELSE 2
    OBVIOUS
  <2>4. PICK s : s = IF th[p].op = "pipe" THEN IF k = 1 THEN "filealloc" ELSE "kalloc"
                     ELSE "fdalloc"
    BY ZenonT(30)
  <2> DEFINE c == [[th[p] EXCEPT !.f[k] = g] EXCEPT !.pc = s]
  <2>5. ftable' = [ftable EXCEPT ![g].ref = 1] /\ th' = [th EXCEPT ![p] = c]
    BY <1>4, <2>1, <2>3, <2>4, ZenonT(30) DEF filealloc, Go
  <2>6. /\ c \in Pending /\ c.ff = th[p].ff /\ c.pc = s /\ c.op = th[p].op
        /\ c.f = [th[p].f EXCEPT ![k] = g]
    <3>1. PICK t \in Pending : t = th[p]
      BY <1>1, Types, ZenonT(30)
    <3>2. s \in {"out", "filealloc", "kalloc", "fdalloc", "bad", "fork", "exit"}
      BY <2>4, ZenonT(30)
    <3> QED
      BY <2>2, <3>1, <3>2, ZenonT(30) DEF Pending
  <2> HIDE DEF c
  <2>7. \A j \in 1 .. 2 : c.f[j] = IF j = k THEN g ELSE th[p].f[j]
    BY <1>1, <2>6, Types, ZenonT(30) DEF Pending
  <2>8. th'[p] = c /\ th' \in [Proc -> Pending] /\ \A q \in Proc : q # p => th'[q] = th[q]
    BY <1>1, <2>5, <2>6, ZenonT(30) DEF TypeOK
  <2>9. /\ ftable' \in [File -> Entry] /\ ftable'[g].ref = 1 /\ ftable'[g].type = "none"
        /\ \A h \in File : h # g => ftable'[h] = ftable[h]
    <3>1. ftable \in [File -> Entry] /\ 1 \in Nat
      BY <1>1, ZenonT(30) DEF TypeOK
    <3> QED
      BY <2>2, <2>5, <3>1, SetRef, ZenonT(30)
  <2>10. TypeOK'
    BY <1>1, <1>2, <2>8, <2>9, ZenonT(30) DEF TypeOK
  <2>11. CallAt(p)
    BY <1>1, ZenonT(30) DEF CallInv
  <2>12. th[p].f[k] = 0 /\ th[p].f[2] = 0 /\ (k = 2 => th[p].op = "pipe") /\ th[p].ff = NoFile
    BY <1>2, <2>3, <2>11 DEF CallAt
  <2>13. FilesCounted'
    <3>1. \A q \in Proc : q # p => th'[q].f = th[q].f
      BY <2>8, ZenonT(30)
    <3>2. \A j \in 1 .. 2 : th'[p].f[j] = IF j = k THEN g ELSE th[p].f[j]
      BY <2>7, <2>8, ZenonT(30)
    <3>3. PICK i \in Slot : Sets(p, i, g) /\ Refers(p, i) = 0
      BY <1>2, <2>12, <3>1, <3>2, SetCall, ZenonT(30)
    <3>4. Kept(g) /\ ftable'[g].ref = ftable[g].ref + 1
      BY <2>2, <2>9 DEF Kept
    <3> QED
      BY <1>1, <2>2, <3>3, <3>4, CountUp, ZenonT(30)
  <2>14. FileInv'
    BY <1>1, <2>9 DEF FileInv
  <2>15. PipesCounted' /\ EndInv'
    <3>1. \A h \in File : \/ ftable'[h].type # "pipe" /\ ftable[h].type # "pipe"
                          \/ /\ ftable'[h].type = ftable[h].type /\ ftable'[h].w = ftable[h].w
                             /\ ftable'[h].pipe = ftable[h].pipe
                             /\ ftable'[h].ref > 0 <=> ftable[h].ref > 0
      BY <2>2, <2>9, ZenonT(30)
    <3>2. \A q \in Proc : th'[q].ff = th[q].ff
      BY <2>6, <2>8, ZenonT(30)
    <3> QED
      BY <1>1, <1>2, <3>1, <3>2, PipesFrame, ZenonT(30)
  <2>16. CallInv'
    <3>1. ASSUME NEW q \in Proc  PROVE th[q].f[1] # g /\ th[q].f[2] # g
      BY <1>1, <2>2, Fresh, ZenonT(30)
    <3>2. Elsewhere(p)
      BY <1>1, <2>8, <2>9, <3>1, Types DEF Elsewhere
    <3>3. \A j \in 1 .. 2 : j # k /\ th[p].f[j] # 0 =>
             ftable'[th[p].f[j]].ref = 1 /\ ftable'[th[p].f[j]].type = "none"
      BY <1>1, <1>2, <2>9, <2>11, <3>1, Types DEF CallAt, Untyped
    <3>4. \A j \in 1 .. 2 : c.f[j] # 0 => ftable'[c.f[j]].ref = 1 /\ ftable'[c.f[j]].type = "none"
      BY <2>7, <2>9, <3>3, ZenonT(30)
    <3>5. c.f[1] # c.f[2]
      BY <2>2, <2>3, <2>7, <2>12, <3>1
    <3>6. CASE k = 1
      <4>1. c.f[1] # 0 /\ c.f[2] = 0
        BY <2>2, <2>7, <2>12, <3>6
      <4>2. c.pc = IF c.op = "pipe" THEN "filealloc" ELSE "fdalloc"
        BY <2>4, <2>6, <3>6, ZenonT(30)
      <4>3. CallAt(p)'
        BY <2>6, <2>8, <2>12, <3>4, <3>5, <4>1, <4>2, ZenonT(30) DEF CallAt
      <4> QED
        BY <1>1, <3>2, <4>3, CallFrame, ZenonT(30)
    <3>7. CASE k = 2
      <4>1. c.f[1] # 0 /\ c.f[2] # 0
        BY <2>2, <2>3, <2>7, <3>7
      <4>2. c.pc = "kalloc" /\ c.op = "pipe"
        BY <2>4, <2>6, <2>12, <3>7
      <4>3. CallAt(p)'
        BY <2>6, <2>8, <2>12, <3>4, <3>5, <4>1, <4>2, ZenonT(30) DEF CallAt
      <4> QED
        BY <1>1, <3>2, <4>3, CallFrame, ZenonT(30)
    <3> QED
      BY <3>6, <3>7
  <2> QED
    BY <2>10, <2>13, <2>14, <2>15, <2>16, ZenonT(30) DEF IInv, TablesCounted
<1> QED
  BY <1>3, <1>4, ZenonT(30)

-----------------------------------------------------------------------------
(* pipealloc and pipeclose *)

LEMMA PipeallocStep ==
  ASSUME Sizes, IInv, NEW p \in Proc, pipealloc(p)
  PROVE  IInv'
<1> DEFINE Free == {k \in Pipe : ~pipe[k].page}
<1>1. TypeOK /\ FilesCounted /\ PipesCounted /\ FileInv /\ CallInv /\ EndInv
  BY ZenonT(30) DEF IInv, TablesCounted
<1>2. ofile' = ofile /\ alive' = alive /\ th[p].pc = "kalloc"
  BY ZenonT(30) DEF pipealloc
<1>3. CASE Free = {}
  <2>1. To(p, "bad") /\ ftable' = ftable /\ pipe' = pipe
    BY <1>3, ZenonT(30) DEF pipealloc
  <2> QED
    BY <1>2, <2>1, CallFails, ZenonT(30)
<1>4. CASE Free # {}
  <2>1. PICK k \in Free : k = Least(Free)
    <3>1. Free \subseteq Nat
      BY DEF Pipe
    <3> QED
      BY <1>4, <3>1, LeastIn, ZenonT(30)
  <2>2. k \in Pipe /\ ~pipe[k].page
    BY ZenonT(30)
  <2>3. CallAt(p)
    BY <1>1, ZenonT(30) DEF CallInv
  <2>4. PICK f1 \in File, f2 \in File : th[p].f[1] = f1 /\ th[p].f[2] = f2
    BY <1>1, <1>2, <2>3, Types, ZenonT(30) DEF CallAt
  <2>5. f1 # f2 /\ th[p].op = "pipe" /\ th[p].ff = NoFile /\ f1 # 0 /\ f2 # 0
    BY <1>2, <2>3, <2>4, Files, ZenonT(30) DEF CallAt
  <2>6. /\ ftable[f1].ref = 1 /\ ftable[f1].type = "none"
        /\ ftable[f2].ref = 1 /\ ftable[f2].type = "none"
    BY <1>2, <2>3, <2>4, <2>5 DEF CallAt, Untyped
  <2> DEFINE e1 == [ref |-> 1, type |-> "pipe", w |-> FALSE, pipe |-> k]
             e2 == [ref |-> 1, type |-> "pipe", w |-> TRUE, pipe |-> k]
             c == [th[p] EXCEPT !.pc = "fdalloc"]
  <2>7. /\ pipe' = [pipe EXCEPT ![k] = [page |-> TRUE, readopen |-> TRUE, writeopen |-> TRUE]]
        /\ ftable' = [ftable EXCEPT ![f1] = e1, ![f2] = e2]
        /\ th' = [th EXCEPT ![p] = c]
    BY <1>4, <2>1, <2>4, ZenonT(30) DEF pipealloc, To, Go
  <2>8. c \in Pending /\ c.ff = th[p].ff /\ c.pc = "fdalloc" /\ c.op = th[p].op /\ c.f = th[p].f
    BY <1>1, Types, ZenonT(30) DEF Pending
  <2>9. /\ e1 \in Entry /\ e1.ref = 1 /\ e1.type = "pipe" /\ e1.w = FALSE /\ e1.pipe = k
        /\ e2 \in Entry /\ e2.ref = 1 /\ e2.type = "pipe" /\ e2.w = TRUE /\ e2.pipe = k
    BY <2>2, ZenonT(30) DEF Entry
  <2> HIDE DEF e1, e2, c, Free
  <2>10. th'[p] = c /\ th' \in [Proc -> Pending] /\ \A q \in Proc : q # p => th'[q] = th[q]
    BY <1>1, <2>7, <2>8, ZenonT(30) DEF TypeOK
  <2>11. /\ ftable' \in [File -> Entry] /\ ftable'[f1] = e1 /\ ftable'[f2] = e2
         /\ \A g \in File : g # f1 /\ g # f2 => ftable'[g] = ftable[g]
    BY <1>1, <2>5, <2>7, <2>9, ZenonT(30) DEF TypeOK
  <2>12. TypeOK'
    <3>1. pipe' \in [Pipe -> [page : BOOLEAN, readopen : BOOLEAN, writeopen : BOOLEAN]]
      BY <1>1, <2>7, ZenonT(30) DEF TypeOK
    <3> QED
      BY <1>1, <1>2, <2>10, <2>11, <3>1, ZenonT(30) DEF TypeOK
  <2>13. FilesCounted'
    <3>1. \A q \in Proc : th'[q].f = th[q].f
      BY <2>8, <2>10, ZenonT(30)
    <3>2. ASSUME NEW q \in Proc, NEW i \in Slot  PROVE Refers(q, i)' = Refers(q, i)
      BY <1>2, <3>1, RefersIs, NextRefersIs, Slots
    <3>3. \A g \in File : ftable'[g].ref = ftable[g].ref
      BY <2>6, <2>9, <2>11, ZenonT(30)
    <3> QED
      BY <1>1, <3>2, <3>3, CountSame, ZenonT(30)
  <2>14. FileInv'
    BY <1>1, <2>2, <2>9, <2>11 DEF FileInv
  <2>15. \A j \in Pipe, w \in BOOLEAN : Closing(j, w)' = Closing(j, w)
    BY <2>8, <2>10, ZenonT(30) DEF Closing
  <2>16. \A w \in BOOLEAN : Ends(k, w) = {} /\ Closing(k, w) = {}
    BY <1>1, <2>2, ZenonT(30) DEF PipesCounted
  <2>17. \A j \in Pipe, w \in BOOLEAN : j # k => Ends(j, w)' = Ends(j, w)
    BY <2>6, <2>9, <2>11 DEF Ends
  <2>18. Ends(k, FALSE)' = {f1} /\ Ends(k, TRUE)' = {f2}
    <3>1. \A g \in File : g # f1 /\ g # f2 => \A w \in BOOLEAN : g \notin Ends(k, w)'
      BY <2>11, <2>16, ZenonT(30) DEF Ends
    <3>2. f1 \in Ends(k, FALSE)' /\ f1 \notin Ends(k, TRUE)'
      BY <2>9, <2>11 DEF Ends
    <3>3. f2 \in Ends(k, TRUE)' /\ f2 \notin Ends(k, FALSE)'
      BY <2>9, <2>11 DEF Ends
    <3>4. Ends(k, FALSE)' \subseteq File /\ Ends(k, TRUE)' \subseteq File
      BY ZenonT(30) DEF Ends
    <3> QED
      BY <3>1, <3>2, <3>3, <3>4, ZenonT(30)
  <2>19. PipesCounted'
    <3>1. /\ pipe'[k].page /\ pipe'[k].readopen /\ pipe'[k].writeopen
          /\ \A j \in Pipe : j # k => pipe'[j] = pipe[j]
      BY <1>1, <2>2, <2>7, ZenonT(30) DEF TypeOK
    <3> QED
      BY <1>1, <2>15, <2>17, <2>18, <3>1, ZenonT(30) DEF PipesCounted
  <2>20. EndInv'
    <3>1. ASSUME NEW j \in Pipe, NEW w \in BOOLEAN
          PROVE  \/ Ends(j, w)' = Ends(j, w) /\ Closing(j, w)' = Closing(j, w)
                 \/ Closing(j, w)' = {} /\ \E g \in File : Ends(j, w)' = {g}
      BY <2>15, <2>16, <2>17, <2>18, ZenonT(30)
    <3> QED
      BY <1>1, <3>1 DEF EndInv
  <2>21. CallInv'
    <3>1. ASSUME NEW q \in Proc, q # p
          PROVE  th[q].f[1] # f1 /\ th[q].f[2] # f1 /\ th[q].f[1] # f2 /\ th[q].f[2] # f2
      BY <1>1, <2>4, <3>1, CallsApart, ZenonT(30)
    <3>2. Elsewhere(p)
      BY <1>1, <2>10, <2>11, <3>1, Types DEF Elsewhere
    <3>3. \A i \in 1 .. 2 : ftable'[c.f[i]].ref = 1
      BY <2>4, <2>8, <2>9, <2>11
    <3>4. c.f[1] = f1 /\ c.f[2] = f2
      BY <2>4, <2>8, ZenonT(30)
    <3>5. CallAt(p)'
      BY <2>5, <2>8, <2>10, <3>3, <3>4, ZenonT(30) DEF CallAt, Untyped
    <3> QED
      BY <1>1, <3>2, <3>5, CallFrame, ZenonT(30)
  <2> QED
    BY <2>12, <2>13, <2>14, <2>19, <2>20, <2>21, ZenonT(30) DEF IInv, TablesCounted
<1> QED
  BY <1>3, <1>4, ZenonT(30)

LEMMA PipecloseStep ==
  ASSUME Sizes, IInv, NEW p \in Proc, pipeclose(p)
  PROVE  IInv'
<1>1. TypeOK /\ FilesCounted /\ PipesCounted /\ FileInv /\ CallInv /\ EndInv
  BY ZenonT(30) DEF IInv, TablesCounted
<1>2. CallAt(p) /\ th[p] \in Pending
  BY <1>1, Types, ZenonT(30) DEF CallInv
<1>3. ofile' = ofile /\ alive' = alive /\ ftable' = ftable /\ th[p].ff # NoFile
  BY ZenonT(30) DEF pipeclose
<1>4. PICK k \in Pipe, w \in BOOLEAN : k = th[p].ff.pipe /\ w = th[p].ff.w
  BY <1>2, <1>3, ZenonT(30) DEF CallAt, Pending, Entry
<1>5. th[p].ff.type = "pipe"
  BY <1>2, <1>3, ZenonT(30) DEF CallAt
<1> DEFINE c == [th[p] EXCEPT !.ff = NoFile]
<1>6. c \in Pending /\ c.ff = NoFile /\ c.pc = th[p].pc /\ c.op = th[p].op /\ c.f = th[p].f
      /\ c.np = th[p].np
  BY <1>2, ZenonT(30) DEF Pending, NoFile, Entry
<1>7. th' = [th EXCEPT ![p] = c]
  BY ZenonT(30) DEF pipeclose, Go
<1> HIDE DEF c
<1>8. th'[p] = c /\ th' \in [Proc -> Pending] /\ \A q \in Proc : q # p => th'[q] = th[q]
  BY <1>1, <1>6, <1>7, ZenonT(30) DEF TypeOK
<1>9. PICK r \in [page : BOOLEAN, readopen : BOOLEAN, writeopen : BOOLEAN] : r = pipe[k]
  BY <1>1, ZenonT(30) DEF TypeOK
<1> DEFINE s == IF w THEN [r EXCEPT !.writeopen = FALSE] ELSE [r EXCEPT !.readopen = FALSE]
<1>10. /\ s \in [page : BOOLEAN, readopen : BOOLEAN, writeopen : BOOLEAN]
       /\ s.page <=> r.page
       /\ s.readopen <=> r.readopen /\ w
       /\ s.writeopen <=> r.writeopen /\ ~w
  <2>1. CASE w
    BY <2>1, ZenonT(30)
  <2>2. CASE ~w
    BY <2>2, ZenonT(30)
  <2> QED
    BY <2>1, <2>2, ZenonT(30)
<1>11. pipe' = [pipe EXCEPT ![k] = IF s.readopen \/ s.writeopen THEN s ELSE NoPipe]
  BY <1>4, <1>9, ZenonT(30) DEF pipeclose
<1> HIDE DEF s
<1>12. /\ pipe'[k] = (IF s.readopen \/ s.writeopen THEN s ELSE NoPipe)
       /\ \A j \in Pipe : j # k => pipe'[j] = pipe[j]
  BY <1>1, <1>11, ZenonT(30) DEF TypeOK
<1>13. TypeOK'
  <2>1. NoPipe \in [page : BOOLEAN, readopen : BOOLEAN, writeopen : BOOLEAN]
    BY ZenonT(30) DEF NoPipe
  <2>2. pipe' \in [Pipe -> [page : BOOLEAN, readopen : BOOLEAN, writeopen : BOOLEAN]]
    BY <1>1, <1>10, <1>11, <2>1, ZenonT(30) DEF TypeOK
  <2> QED
    BY <1>1, <1>3, <1>8, <2>2, ZenonT(30) DEF TypeOK
<1>14. FilesCounted'
  <2>1. \A q \in Proc : th'[q].f = th[q].f
    BY <1>6, <1>8, ZenonT(30)
  <2>2. ASSUME NEW q \in Proc, NEW i \in Slot  PROVE Refers(q, i)' = Refers(q, i)
    BY <1>3, <2>1, RefersIs, NextRefersIs, Slots
  <2> QED
    BY <1>1, <1>3, <2>2, CountSame, ZenonT(30)
<1>15. FileInv'
  BY <1>1, <1>3, ZenonT(30) DEF FileInv
<1>16. p \in Closing(k, w)
  BY <1>4, <1>5, ZenonT(30) DEF Closing
<1>17. Closing(k, w) = {p} /\ Ends(k, w) = {}
  BY <1>1, <1>16 DEF EndInv
<1>18. \A j \in Pipe, v \in BOOLEAN : Ends(j, v)' = Ends(j, v)
  BY <1>3, ZenonT(30) DEF Ends
<1>19. \A j \in Pipe, v \in BOOLEAN :
          Closing(j, v)' = IF j = k /\ v = w THEN {} ELSE Closing(j, v)
  <2>1. \A j \in Pipe, v \in BOOLEAN : Closing(j, v)' = Closing(j, v) \ {p}
    BY <1>6, <1>8 DEF Closing, NoFile
  <2>2. \A j \in Pipe, v \in BOOLEAN : p \in Closing(j, v) => j = k /\ v = w
    BY <1>4, ZenonT(30) DEF Closing
  <2> QED
    BY <1>17, <2>1, <2>2
<1>20. EndInv'
  BY <1>1, <1>18, <1>19 DEF EndInv
<1>21. PipesCounted'
  <2>1. ASSUME NEW j \in Pipe, j # k
        PROVE  /\ pipe'[j].readopen <=> Ends(j, FALSE)' # {} \/ Closing(j, FALSE)' # {}
               /\ pipe'[j].writeopen <=> Ends(j, TRUE)' # {} \/ Closing(j, TRUE)' # {}
               /\ pipe'[j].page <=> pipe'[j].readopen \/ pipe'[j].writeopen
    BY <1>1, <1>12, <1>18, <1>19, <2>1, ZenonT(30) DEF PipesCounted
  <2>2. /\ r.readopen <=> Ends(k, FALSE) # {} \/ Closing(k, FALSE) # {}
        /\ r.writeopen <=> Ends(k, TRUE) # {} \/ Closing(k, TRUE) # {}
        /\ r.page <=> r.readopen \/ r.writeopen
    BY <1>1, <1>9, ZenonT(30) DEF PipesCounted
  <2>3. /\ s.readopen <=> Ends(k, FALSE)' # {} \/ Closing(k, FALSE)' # {}
        /\ s.writeopen <=> Ends(k, TRUE)' # {} \/ Closing(k, TRUE)' # {}
        /\ s.readopen \/ s.writeopen => s.page
    BY <1>10, <1>17, <1>18, <1>19, <2>2, ZenonT(30)
  <2>4. /\ pipe'[k].readopen <=> s.readopen
        /\ pipe'[k].writeopen <=> s.writeopen
        /\ pipe'[k].page <=> s.readopen \/ s.writeopen
    BY <1>12, <2>3 DEF NoPipe
  <2>5. /\ pipe'[k].readopen <=> Ends(k, FALSE)' # {} \/ Closing(k, FALSE)' # {}
        /\ pipe'[k].writeopen <=> Ends(k, TRUE)' # {} \/ Closing(k, TRUE)' # {}
        /\ pipe'[k].page <=> pipe'[k].readopen \/ pipe'[k].writeopen
    BY <2>3, <2>4, ZenonT(30)
  <2> QED
    BY <2>1, <2>5, ZenonT(30) DEF PipesCounted
<1>22. CallInv'
  <2>1. Elsewhere(p)
    BY <1>3, <1>8, ZenonT(30) DEF Elsewhere
  <2>2. CallAt(p)'
    BY <1>2, <1>3, <1>6, <1>8, ZenonT(30) DEF CallAt, Untyped
  <2> QED
    BY <1>1, <2>1, <2>2, CallFrame, ZenonT(30)
<1> QED
  BY <1>13, <1>14, <1>15, <1>20, <1>21, <1>22, ZenonT(30) DEF IInv, TablesCounted

-----------------------------------------------------------------------------
(* fdalloc *)

\* The only reference to a file is the one at i.
OnlyAt(f, p, i) == \A q \in Proc, j \in Slot : Refers(q, j) = f <=> q = p /\ j = i

\* Some references move, each being its file's only one.
LEMMA CountMoved ==
  ASSUME FilesCounted, \A f \in File : ftable'[f].ref = ftable[f].ref,
         \A f \in File :
            \/ \A q \in Proc, j \in Slot : Refers(q, j)' = f <=> Refers(q, j) = f
            \/ ftable[f].ref = 1 /\ \E p \in Proc, i \in Slot : OnlyAt(f, p, i)'
  PROVE  FilesCounted'
<1>1. ASSUME NEW f \in File  PROVE ftable'[f].ref = Cardinality(Holders(f)')
  <2>1. CASE \A q \in Proc, j \in Slot : Refers(q, j)' = f <=> Refers(q, j) = f
    <3>1. Holders(f)' = Holders(f)
      BY <2>1, ZenonT(30) DEF Holders
    <3> QED
      BY <3>1, ZenonT(30) DEF FilesCounted
  <2>2. CASE ftable[f].ref = 1 /\ \E p \in Proc, i \in Slot : OnlyAt(f, p, i)'
    <3>1. PICK p \in Proc, i \in Slot : OnlyAt(f, p, i)'
      BY <2>2, ZenonT(30)
    <3>2. Holders(f)' = {<<p, i>>}
      BY <3>1 DEF OnlyAt, Holders
    <3>3. Cardinality({<<p, i>>}) = 1
      BY FS_Singleton, ZenonT(30)
    <3> QED
      BY <2>2, <3>2, <3>3, ZenonT(30)
  <2> QED
    BY <2>1, <2>2, ZenonT(30)
<1> QED
  BY <1>1, ZenonT(30) DEF FilesCounted

\* fdalloc finds as many descriptors as it is asked for.
LEMMA FreeDescriptors ==
  ASSUME Sizes, NEW p \in Proc
  PROVE  /\ ~(Cardinality(FreeFds(p)) < 1) => \E a \in FreeFds(p) : a = Least(FreeFds(p))
         /\ ~(Cardinality(FreeFds(p)) < 2) =>
               \E a \in FreeFds(p) : /\ a = Least(FreeFds(p))
                                     /\ \E b \in FreeFds(p) \ {a} : b = Least(FreeFds(p) \ {a})
<1>1. IsFiniteSet(Fd)
  BY FS_Interval DEF Sizes, Fd
<1>2. IsFiniteSet(FreeFds(p)) /\ FreeFds(p) \subseteq Nat
  <2>1. FreeFds(p) \subseteq Fd
    BY ZenonT(30) DEF FreeFds
  <2>2. Fd \subseteq Nat
    BY DEF Fd
  <2> QED
    BY <1>1, <2>1, <2>2, FS_Subset, ZenonT(30)
<1>3. ASSUME ~(Cardinality(FreeFds(p)) < 1)
      PROVE  \E a \in FreeFds(p) : a = Least(FreeFds(p))
  <2>1. Cardinality({}) = 0
    BY FS_EmptySet, ZenonT(30)
  <2>2. FreeFds(p) # {}
    BY <1>3, <2>1
  <2> QED
    BY <1>2, <2>2, LeastIn, ZenonT(30)
<1>4. ASSUME ~(Cardinality(FreeFds(p)) < 2)
      PROVE  \E a \in FreeFds(p) : /\ a = Least(FreeFds(p))
                                   /\ \E b \in FreeFds(p) \ {a} : b = Least(FreeFds(p) \ {a})
  <2>1. Cardinality(FreeFds(p)) \in Nat
    BY <1>2, FS_CardinalityType, ZenonT(30)
  <2>2. PICK a \in FreeFds(p) : a = Least(FreeFds(p))
    BY <1>3, <1>4, <2>1
  <2>3. Cardinality(FreeFds(p) \ {a}) = Cardinality(FreeFds(p)) - 1
    BY <1>2, FS_RemoveElement, ZenonT(30)
  <2>4. Cardinality({}) = 0
    BY FS_EmptySet, ZenonT(30)
  <2>5. FreeFds(p) \ {a} # {}
    BY <1>4, <2>1, <2>3, <2>4
  <2>6. FreeFds(p) \ {a} \subseteq Nat
    BY <1>2, ZenonT(30)
  <2>7. Least(FreeFds(p) \ {a}) \in FreeFds(p) \ {a}
    BY <2>5, <2>6, LeastIn, ZenonT(30)
  <2> QED
    BY <2>2, <2>7, ZenonT(30)
<1> QED
  BY <1>3, <1>4, ZenonT(30)

\* What a call has when it comes to fdalloc.
LEMMA AtFdalloc ==
  ASSUME TypeOK, NEW p \in Proc, CallAt(p), th[p].pc = "fdalloc"
  PROVE  /\ th[p].ff = NoFile /\ th[p].f[1] \in File /\ th[p].f[1] # 0
         /\ ftable[th[p].f[1]].ref = 1
         /\ th[p].op # "pipe" => th[p].f[2] = 0 /\ ftable[th[p].f[1]].type = "none"
<1>1. th[p].ff = NoFile /\ th[p].f[1] # 0 /\ (th[p].op # "pipe" => th[p].f[2] = 0)
  BY ZenonT(30) DEF CallAt
<1>2. th[p].f[1] \in File
  BY <1>1, Types, ZenonT(30)
<1>3. 1 \in 1 .. 2
  OBVIOUS
<1>4. ftable[th[p].f[1]].ref = 1 /\ (Untyped(th[p]) => ftable[th[p].f[1]].type = "none")
  BY <1>1, <1>3, ZenonT(30) DEF CallAt
<1>5. th[p].op # "pipe" => Untyped(th[p])
  BY ZenonT(30) DEF Untyped
<1> QED
  BY <1>1, <1>2, <1>4, <1>5, ZenonT(30)

\* The call p returns with its files in descriptors.
LEMMA FdallocReturns ==
  ASSUME Sizes, IInv, NEW p \in Proc, th[p].pc = "fdalloc", th' = [th EXCEPT ![p] = Out],
         ofile' \in [Proc -> [Fd -> File \cup {0}]], ftable' \in [File -> Entry],
         FilesCounted', \A f \in File : ftable'[f].ref = ftable[f].ref,
         \A f \in File : \/ ftable'[f] = ftable[f]
                         \/ /\ f = th[p].f[1] /\ ftable'[f].type = "inode"
                            /\ ftable[f].type = "none",
         alive' = alive, pipe' = pipe
  PROVE  IInv'
<1>1. TypeOK /\ FilesCounted /\ PipesCounted /\ FileInv /\ CallInv /\ EndInv
  BY ZenonT(30) DEF IInv, TablesCounted
<1>2. CallAt(p)
  BY <1>1, ZenonT(30) DEF CallInv
<1>3. th[p].ff = NoFile /\ th[p].f[1] \in File /\ ftable[th[p].f[1]].ref = 1
  BY <1>1, <1>2, AtFdalloc, ZenonT(30)
<1>4. th'[p] = Out /\ th' \in [Proc -> Pending] /\ \A q \in Proc : q # p => th'[q] = th[q]
  BY <1>1, OutIs, ZenonT(30) DEF TypeOK
<1>5. TypeOK'
  BY <1>1, <1>4, ZenonT(30) DEF TypeOK
<1>6. FileInv'
  BY <1>1, <1>3 DEF FileInv
<1>7. PipesCounted' /\ EndInv'
  <2>1. \A g \in File : \/ ftable'[g].type # "pipe" /\ ftable[g].type # "pipe"
                        \/ /\ ftable'[g].type = ftable[g].type /\ ftable'[g].w = ftable[g].w
                           /\ ftable'[g].pipe = ftable[g].pipe
                           /\ ftable'[g].ref > 0 <=> ftable[g].ref > 0
    BY ZenonT(30)
  <2>2. \A q \in Proc : th'[q].ff = th[q].ff
    BY <1>3, <1>4, OutIs, ZenonT(30)
  <2> QED
    BY <1>1, <2>1, <2>2, PipesFrame, ZenonT(30)
<1>8. CallInv'
  <2>1. PICK f1 \in File : f1 = th[p].f[1]
    BY <1>3, ZenonT(30)
  <2>2. ASSUME NEW q \in Proc, q # p  PROVE th[q].f[1] # f1 /\ th[q].f[2] # f1
    BY <1>1, <2>1, <2>2, CallsApart, ZenonT(30)
  <2>3. Elsewhere(p)
    BY <1>1, <1>4, <2>1, <2>2, Types DEF Elsewhere
  <2>4. CallAt(p)'
    BY <1>4, OutIs DEF CallAt
  <2> QED
    BY <1>1, <2>3, <2>4, CallFrame, ZenonT(30)
<1> QED
  BY <1>5, <1>6, <1>7, <1>8, ZenonT(30) DEF IInv, TablesCounted

\* What the references are after p has returned, in terms of its descriptors.
LEMMA ReturnRefers ==
  ASSUME Sizes, TypeOK, NEW p \in Proc, th' = [th EXCEPT ![p] = Out],
         \A q \in Proc : q # p => ofile'[q] = ofile[q]
  PROVE  /\ \A q \in Proc, j \in Slot : q # p => Refers(q, j)' = Refers(q, j)
         /\ \A fd \in Fd : Refers(p, fd)' = ofile'[p][fd]
         /\ Refers(p, NOFILE)' = 0 /\ Refers(p, NOFILE + 1)' = 0
<1>1. th'[p] = Out /\ \A q \in Proc : q # p => th'[q] = th[q]
  BY ZenonT(30) DEF TypeOK
<1>2. \A q \in Proc, j \in Slot : q # p => Refers(q, j)' = Refers(q, j)
  BY <1>1, RefersIs, NextRefersIs, Slots
<1>3. /\ \A fd \in Fd : Refers(p, fd)' = ofile'[p][fd]
      /\ Refers(p, NOFILE)' = 0 /\ Refers(p, NOFILE + 1)' = 0
  BY <1>1, NextRefersIs, OutIs
<1> QED
  BY <1>2, <1>3, ZenonT(30)

LEMMA FdallocStep ==
  ASSUME Sizes, IInv, NEW p \in Proc, fdalloc(p)
  PROVE  IInv'
<1>1. TypeOK /\ FilesCounted /\ CallInv /\ ftable \in [File -> Entry]
      /\ ofile \in [Proc -> [Fd -> File \cup {0}]]
  BY ZenonT(30) DEF IInv, TablesCounted, TypeOK
<1>2. alive' = alive /\ pipe' = pipe /\ th[p].pc = "fdalloc"
  BY ZenonT(30) DEF fdalloc
<1>3. CallAt(p)
  BY <1>1, ZenonT(30) DEF CallInv
<1>4. PICK f1 \in File : /\ f1 = th[p].f[1] /\ ftable[f1].ref = 1 /\ f1 # 0
                         /\ th[p].op # "pipe" => th[p].f[2] = 0 /\ ftable[f1].type = "none"
  BY <1>1, <1>2, <1>3, AtFdalloc, ZenonT(30)
<1>5. Refers(p, NOFILE) = f1 /\ Refers(p, NOFILE + 1) = th[p].f[2]
      /\ \A fd \in Fd : Refers(p, fd) = ofile[p][fd]
  BY <1>4, RefersIs, ZenonT(30)
<1>6. ASSUME NEW q \in Proc, NEW j \in Slot, Refers(q, j) = f1  PROVE q = p /\ j = NOFILE
  BY <1>1, <1>4, <1>5, <1>6, Slots, Sole
<1>7. PICK n : n = IF th[p].op = "pipe" THEN 2 ELSE 1
  BY ZenonT(30)
<1>8. CASE Cardinality(FreeFds(p)) < n
  <2>1. To(p, "bad") /\ ofile' = ofile /\ ftable' = ftable
    BY <1>7, <1>8, ZenonT(30) DEF fdalloc
  <2>2. th[p].pc \in {"filealloc", "kalloc", "fdalloc"}
    BY <1>2, ZenonT(30)
  <2> QED
    BY <1>2, <2>1, <2>2, CallFails, ZenonT(30)
<1>9. CASE ~(Cardinality(FreeFds(p)) < n) /\ th[p].op # "pipe"
  <2>1. n = 1 /\ th[p].f[2] = 0 /\ ftable[f1].type = "none"
    BY <1>4, <1>7, <1>9, ZenonT(30)
  <2>2. PICK a \in FreeFds(p) : a = Least(FreeFds(p))
    BY <1>9, <2>1, FreeDescriptors, ZenonT(30)
  <2>3. a \in Fd /\ ofile[p][a] = 0
    BY ZenonT(30) DEF FreeFds
  <2>4. /\ ofile' = [ofile EXCEPT ![p] = [@ EXCEPT ![a] = f1]]
        /\ ftable' = [ftable EXCEPT ![f1].type = "inode"] /\ th' = [th EXCEPT ![p] = Out]
    BY <1>4, <1>7, <1>9, <2>1, <2>2, ZenonT(30) DEF fdalloc, Return, Go
  <2>5. ofile' \in [Proc -> [Fd -> File \cup {0}]]
    BY <1>1, <2>4, ZenonT(30)
  <2>6. /\ \A q \in Proc : q # p => ofile'[q] = ofile[q]
        /\ \A fd \in Fd : ofile'[p][fd] = IF fd = a THEN f1 ELSE ofile[p][fd]
    BY <1>1, <2>4, ZenonT(30)
  <2>7. /\ ftable' \in [File -> Entry] /\ ftable'[f1].ref = ftable[f1].ref
        /\ ftable'[f1].type = "inode" /\ \A g \in File : g # f1 => ftable'[g] = ftable[g]
    <3>1. PICK e \in Entry : e = ftable[f1]
      BY <1>1, ZenonT(30)
    <3> DEFINE d == [e EXCEPT !.type = "inode"]
    <3>2. d \in Entry /\ d.ref = e.ref /\ d.type = "inode"
      BY ZenonT(30) DEF Entry
    <3>3. ftable' = [ftable EXCEPT ![f1] = d]
      BY <2>4, <3>1, ZenonT(30)
    <3> HIDE DEF d
    <3> QED
      BY <1>1, <3>1, <3>2, <3>3, ZenonT(30)
  <2>8. /\ \A q \in Proc, j \in Slot : q # p => Refers(q, j)' = Refers(q, j)
        /\ \A fd \in Fd : Refers(p, fd)' = IF fd = a THEN f1 ELSE Refers(p, fd)
        /\ Refers(p, NOFILE)' = 0 /\ Refers(p, NOFILE + 1)' = 0
    <3>1. /\ \A q \in Proc, j \in Slot : q # p => Refers(q, j)' = Refers(q, j)
          /\ \A fd \in Fd : Refers(p, fd)' = ofile'[p][fd]
          /\ Refers(p, NOFILE)' = 0 /\ Refers(p, NOFILE + 1)' = 0
      BY <1>1, <2>4, <2>6, ReturnRefers, ZenonT(30)
    <3> QED
      BY <1>5, <2>6, <3>1
  <2>9. OnlyAt(f1, p, a)'
    BY <1>4, <1>6, <2>3, <2>8, Slots DEF OnlyAt
  <2>10. ASSUME NEW g \in File, g # f1
         PROVE  \A q \in Proc, j \in Slot : Refers(q, j)' = g <=> Refers(q, j) = g
    BY <1>5, <2>1, <2>3, <2>8, <2>10, Slots, Files
  <2>11. FilesCounted'
    <3>1. \A g \in File : ftable'[g].ref = ftable[g].ref
      BY <2>7, ZenonT(30)
    <3>2. a \in Slot
      BY <2>3, Slots, ZenonT(30)
    <3>3. \A g \in File :
            \/ \A q \in Proc, j \in Slot : Refers(q, j)' = g <=> Refers(q, j) = g
            \/ ftable[g].ref = 1 /\ \E q \in Proc, i \in Slot : OnlyAt(g, q, i)'
      BY <1>4, <2>9, <2>10, <3>2, ZenonT(30)
    <3> QED
      BY <1>1, <3>1, <3>3, CountMoved, ZenonT(30)
  <2>12. /\ \A f \in File : ftable'[f].ref = ftable[f].ref
         /\ \A f \in File : \/ ftable'[f] = ftable[f]
                             \/ /\ f = th[p].f[1] /\ ftable'[f].type = "inode"
                                /\ ftable[f].type = "none"
    BY <1>4, <2>1, <2>7, ZenonT(30)
  <2> QED
    BY <1>2, <2>4, <2>5, <2>7, <2>11, <2>12, FdallocReturns, ZenonT(30)
<1>10. CASE ~(Cardinality(FreeFds(p)) < n) /\ th[p].op = "pipe"
  <2>1. PICK f2 \in File : f2 = th[p].f[2] /\ ftable[f2].ref = 1 /\ f2 # 0 /\ f2 # f1
    <3>1. th[p].f[2] # 0 /\ ftable[th[p].f[2]].ref = 1 /\ th[p].f[1] # th[p].f[2]
      BY <1>2, <1>3, <1>4, <1>10 DEF CallAt
    <3> QED
      BY <1>1, <1>4, <3>1, Types, ZenonT(30)
  <2>2. n = 2
    BY <1>7, <1>10, ZenonT(30)
  <2>3. ASSUME NEW q \in Proc, NEW j \in Slot, Refers(q, j) = f2
        PROVE  q = p /\ j = NOFILE + 1
    BY <1>1, <1>5, <2>1, <2>3, Slots, Sole
  <2>4. PICK a \in FreeFds(p) : /\ a = Least(FreeFds(p))
                               /\ \E b \in FreeFds(p) \ {a} : b = Least(FreeFds(p) \ {a})
    BY <1>10, <2>2, FreeDescriptors, ZenonT(30)
  <2>5. PICK b \in FreeFds(p) \ {a} : b = Least(FreeFds(p) \ {a})
    BY <2>4, ZenonT(30)
  <2>6. a \in Fd /\ ofile[p][a] = 0 /\ b \in Fd /\ ofile[p][b] = 0 /\ a # b
    BY ZenonT(30) DEF FreeFds
  <2>7. /\ ofile' = [ofile EXCEPT ![p] = [[@ EXCEPT ![a] = f1] EXCEPT ![b] = f2]]
        /\ ftable' = ftable /\ th' = [th EXCEPT ![p] = Out]
    BY <1>4, <1>7, <1>10, <2>1, <2>2, <2>4, <2>5, ZenonT(30) DEF fdalloc, Return, Go
  <2>8. ofile' \in [Proc -> [Fd -> File \cup {0}]]
    BY <1>1, <2>7, ZenonT(30)
  <2>9. /\ \A q \in Proc : q # p => ofile'[q] = ofile[q]
        /\ \A fd \in Fd : ofile'[p][fd] = IF fd = a THEN f1 ELSE IF fd = b THEN f2 ELSE ofile[p][fd]
    BY <1>1, <2>6, <2>7, ZenonT(30)
  <2>10. /\ \A q \in Proc, j \in Slot : q # p => Refers(q, j)' = Refers(q, j)
         /\ \A fd \in Fd : Refers(p, fd)' = IF fd = a THEN f1 ELSE IF fd = b THEN f2
                                             ELSE Refers(p, fd)
         /\ Refers(p, NOFILE)' = 0 /\ Refers(p, NOFILE + 1)' = 0
    <3>1. /\ \A q \in Proc, j \in Slot : q # p => Refers(q, j)' = Refers(q, j)
          /\ \A fd \in Fd : Refers(p, fd)' = ofile'[p][fd]
          /\ Refers(p, NOFILE)' = 0 /\ Refers(p, NOFILE + 1)' = 0
      BY <1>1, <2>7, <2>9, ReturnRefers, ZenonT(30)
    <3> QED
      BY <1>5, <2>9, <3>1
  <2>11. OnlyAt(f1, p, a)'
    BY <1>4, <1>6, <2>1, <2>6, <2>10, Slots DEF OnlyAt
  <2>12. OnlyAt(f2, p, b)'
    BY <2>1, <2>3, <2>6, <2>10, Slots DEF OnlyAt
  <2>13. ASSUME NEW g \in File, g # f1, g # f2
         PROVE  \A q \in Proc, j \in Slot : Refers(q, j)' = g <=> Refers(q, j) = g
    BY <1>5, <2>1, <2>6, <2>10, <2>13, Slots, Files
  <2>14. FilesCounted'
    <3>1. \A g \in File : ftable'[g].ref = ftable[g].ref
      BY <2>7, ZenonT(30)
    <3>2. a \in Slot /\ b \in Slot
      BY <2>6, Slots, ZenonT(30)
    <3>3. \A g \in File :
            \/ \A q \in Proc, j \in Slot : Refers(q, j)' = g <=> Refers(q, j) = g
            \/ ftable[g].ref = 1 /\ \E q \in Proc, i \in Slot : OnlyAt(g, q, i)'
      BY <1>4, <2>1, <2>11, <2>12, <2>13, <3>2, ZenonT(30)
    <3> QED
      BY <1>1, <3>1, <3>3, CountMoved, ZenonT(30)
  <2> QED
    BY <1>1, <1>2, <2>7, <2>8, <2>14, FdallocReturns, ZenonT(30)
<1> QED
  BY <1>8, <1>9, <1>10, ZenonT(30)

-----------------------------------------------------------------------------
(* The theorems *)

LEMMA InitInv ==
  ASSUME Sizes, Init
  PROVE  IInv
<1>1. \A p \in Proc : th[p] = Out
  BY ZenonT(30) DEF Init
<1>2. TypeOK
  <2>1. alive \subseteq Proc
    BY LeastIn, ZenonT(30) DEF Init, Sizes
  <2>2. NoFile \in Entry
    BY ZenonT(30) DEF NoFile, Entry
  <2>3. NoPipe \in [page : BOOLEAN, readopen : BOOLEAN, writeopen : BOOLEAN]
    BY ZenonT(30) DEF NoPipe
  <2> QED
    BY <2>1, <2>2, <2>3, OutIs, ZenonT(30) DEF Init, TypeOK
<1>3. FilesCounted
  <2>1. ASSUME NEW p \in Proc, NEW i \in Slot  PROVE Refers(p, i) = 0
    BY <1>1, OutIs, RefersIs, Slots, ZenonT(30) DEF Init
  <2>2. \A f \in File : Holders(f) = {}
    BY <2>1, Files, ZenonT(30) DEF Holders
  <2>3. Cardinality({}) = 0
    BY FS_EmptySet, ZenonT(30)
  <2>4. \A f \in File : ftable[f].ref = 0
    BY ZenonT(30) DEF Init, NoFile
  <2> QED
    BY <2>2, <2>3, <2>4, ZenonT(30) DEF FilesCounted
<1>4. \A k \in Pipe, w \in BOOLEAN : Ends(k, w) = {} /\ Closing(k, w) = {}
  <2>1. \A f \in File : ftable[f].type = "none"
    BY ZenonT(30) DEF Init, NoFile
  <2>2. \A p \in Proc : th[p].ff.type = "none"
    BY <1>1, OutIs DEF NoFile
  <2> QED
    BY <2>1, <2>2, ZenonT(30) DEF Ends, Closing
<1>5. PipesCounted
  BY <1>4, ZenonT(30) DEF PipesCounted, Init, NoPipe
<1>6. EndInv
  BY <1>4, ZenonT(30) DEF EndInv
<1>7. FileInv
  BY ZenonT(30) DEF FileInv, Init, NoFile
<1>8. CallInv
  BY <1>1, OutIs DEF CallInv, CallAt
<1> QED
  BY <1>2, <1>3, <1>5, <1>6, <1>7, <1>8, ZenonT(30) DEF IInv, TablesCounted

LEMMA Stutter ==
  ASSUME IInv, UNCHANGED vars
  PROVE  IInv'
<1>1. ftable' = ftable /\ ofile' = ofile /\ alive' = alive /\ pipe' = pipe /\ th' = th
  BY ZenonT(30) DEF vars
<1>2. TypeOK'
  BY <1>1, ZenonT(30) DEF IInv, TablesCounted, TypeOK
<1>3. FilesCounted'
  BY <1>1, ZenonT(30) DEF IInv, TablesCounted, FilesCounted, Holders, Refers
<1>4. PipesCounted'
  BY <1>1, ZenonT(30) DEF IInv, TablesCounted, PipesCounted, Ends, Closing
<1>5. FileInv' /\ EndInv'
  BY <1>1 DEF IInv, FileInv, EndInv, Ends, Closing
<1>6. CallInv'
  BY <1>1, ZenonT(30) DEF IInv, CallInv, CallAt, Untyped
<1> QED
  BY <1>2, <1>3, <1>4, <1>5, <1>6, ZenonT(30) DEF IInv, TablesCounted

LEMMA NextInv ==
  ASSUME Sizes, IInv, [Next]_vars
  PROVE  IInv'
<1>1. CASE UNCHANGED vars
  BY <1>1, Stutter, ZenonT(30)
<1>2. ASSUME NEW p \in Proc, NEW op \in Calls[p], begin(p, op)  PROVE IInv'
  BY <1>2, BeginStep, ZenonT(30)
<1>3. ASSUME NEW p \in Proc, filealloc(p)  PROVE IInv'
  BY <1>3, FileallocStep, ZenonT(30)
<1>4. ASSUME NEW p \in Proc, pipealloc(p)  PROVE IInv'
  BY <1>4, PipeallocStep, ZenonT(30)
<1>5. ASSUME NEW p \in Proc, fdalloc(p)  PROVE IInv'
  BY <1>5, FdallocStep, ZenonT(30)
<1>6. ASSUME NEW p \in Proc, pipeclose(p)  PROVE IInv'
  BY <1>6, PipecloseStep, ZenonT(30)
<1>7. ASSUME NEW p \in Proc, bad(p)  PROVE IInv'
  BY <1>7, BadStep, ZenonT(30)
<1>8. ASSUME NEW p \in Proc, fork(p)  PROVE IInv'
  BY <1>8, ForkStep, ZenonT(30)
<1>9. ASSUME NEW p \in Proc, exit(p)  PROVE IInv'
  BY <1>9, ExitStep, ZenonT(30)
<1>10. ASSUME NEW p \in Proc, NEW fd \in Fd, sys_dup(p, fd)  PROVE IInv'
  BY <1>10, DupStep, ZenonT(30)
<1>11. ASSUME NEW p \in Proc, NEW fd \in Fd, sys_close(p, fd)  PROVE IInv'
  BY <1>11, CloseStep, ZenonT(30)
<1> QED
  BY <1>1, <1>2, <1>3, <1>4, <1>5, <1>6, <1>7, <1>8, <1>9, <1>10, <1>11, ZenonT(30) DEF Next

\* The invariant holds in every state: what is counted, which files a call has
\* at each place, and that an end of a pipe is closed by one process only.
THEOREM TablesInvariant == ASSUME Sizes PROVE Spec => []IInv
<1>1. Init => IInv
  BY InitInv, ZenonT(30)
<1>2. IInv /\ [Next]_vars => IInv'
  BY NextInv, ZenonT(30)
<1> QED
  BY <1>1, <1>2, PTL DEF Spec

\* filealloc, filedup and fileclose keep the count of every file exact, and a
\* pipe has an end open exactly while a file refers to it or the last close is
\* on its way to pipeclose, for any numbers of processes, descriptors, files
\* and pipes, however open, pipe, dup, close, fork and exit interleave and
\* wherever they fail.
THEOREM TablesAreCounted == ASSUME Sizes PROVE Spec => []TablesCounted
<1>1. IInv => TablesCounted
  BY ZenonT(30) DEF IInv
<1> QED
  BY <1>1, TablesInvariant, PTL
=============================================================================
