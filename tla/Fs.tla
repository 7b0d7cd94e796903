--------------------------------- MODULE Fs ---------------------------------
(***************************************************************************)
(* The inode cache, directories and path names of fs.c, and the system     *)
(* calls of sysfile.c that work on names.                                  *)
(*                                                                         *)
(* What a process does between ilock and iunlock is one step unless it     *)
(* waits for another lock meanwhile; iput takes three.  Every call is one  *)
(* transaction of the log (module Log), so begin_op and end_op do not      *)
(* show.  Contents of files are those of module FileData.                  *)
(***************************************************************************)
EXTENDS Naturals, Sequences, FiniteSets, TLC

CONSTANTS
    Proc, Name,
    NINODES,  \* inodes 1 .. NINODES - 1 of the disk
    Call,     \* the calls made: records with fields call, path and new
    MAXCALLS  \* bound on the calls of a behaviour

VARIABLES
    di,    \* the inodes on the disk, with the entries of directories
    ic,    \* icache, by inode number; an entry with ref = 0 is free
    th,    \* the call each process is in and its local variables
    cwd,   \* proc->cwd
    file,  \* the inode of the open file of the process (NOFILE is 1)
    calls  \* the number of calls so far

vars == <<di, ic, th, cwd, file, calls>>

ROOTINO == 1
Inum == 1 .. NINODES - 1
Inum0 == 0 .. NINODES - 1
Dot == {".", ".."}
Type == {"none", "file", "dir", "dev"}
NoEntries == [n \in Name \cup Dot |-> 0]
FreeInode == [type |-> "none", nlink |-> 0, ents |-> NoEntries]
Idle == [pc |-> "out", call |-> "none", path |-> <<>>, new |-> <<>>, parent |-> FALSE,
         name |-> ".", ip |-> 0, dp |-> 0, old |-> 0, put |-> 0, k |-> "out"]

TypeOK ==
    /\ di \in [Inum -> [type : Type, nlink : Nat, ents : [Name \cup Dot -> Inum0]]]
    /\ ic \in [Inum -> [ref : Nat, valid : BOOLEAN, lock : Proc \cup {0},
                        type : Type, nlink : Nat]]
    /\ \A p \in Proc : /\ DOMAIN th[p] = DOMAIN Idle
                       /\ \A f \in {"ip", "dp", "old", "put"} : th[p][f] \in Inum0
    /\ cwd \in [Proc -> Inum]
    /\ file \in [Proc -> Inum0]
    /\ calls \in 0 .. MAXCALLS

\* The process goes on as f says; its other local variables keep their values.
Go(p, f) == th' = [th EXCEPT ![p] = f @@ @]
Panic(p) == Go(p, [pc |-> "panic"]) /\ UNCHANGED <<di, ic, cwd, file, calls>>

-----------------------------------------------------------------------------
(* fs.c *)

\* Faulty: a reference to a cached inode is not counted.
GetUncounted(c, i) ==
    [c EXCEPT ![i] = IF @.ref > 0 THEN @ ELSE [@ EXCEPT !.ref = 1, !.valid = FALSE]]

\* iget and idup: an entry taken into the cache is yet to be read.
iget(c, i) ==
    [c EXCEPT ![i] = IF @.ref > 0 THEN [@ EXCEPT !.ref = @ + 1]
                     ELSE [@ EXCEPT !.ref = 1, !.valid = FALSE]]

\* ilock once the lock is free: the entry, read from the disk if it has to be.
Loaded(i) ==
    IF ic[i].valid THEN ic[i]
    ELSE [ic[i] EXCEPT !.valid = TRUE, !.type = di[i].type, !.nlink = di[i].nlink]

CanLock(i) == ic[i].lock = 0
LockPanics(i) == ic[i].ref < 1 \/ Loaded(i).type = "none"

\* ip->nlink = nlink, iupdate and iunlock, by the owner of the lock.
SetLinks(i, nlink) ==
    /\ di' = [di EXCEPT ![i].nlink = nlink]
    /\ ic' = [ic EXCEPT ![i] = [Loaded(i) EXCEPT !.nlink = nlink, !.lock = 0]]

Frees(i) == ic[i].valid /\ ic[i].nlink = 0 /\ ic[i].ref = 1

iput(p) ==
    LET i == th[p].put IN
    /\ th[p].pc = "iput" /\ CanLock(i)
    /\ IF Frees(i) THEN /\ ic' = [ic EXCEPT ![i].lock = p]
                        /\ Go(p, [pc |-> "free"])
       ELSE Go(p, [pc |-> "deref"]) /\ UNCHANGED ic
    /\ UNCHANGED <<di, cwd, file, calls>>

\* iput, where it truncates the inode and frees it.
iputFree(p) ==
    LET i == th[p].put IN
    /\ th[p].pc = "free"
    /\ di' = [di EXCEPT ![i] = FreeInode]
    /\ ic' = [ic EXCEPT ![i] = [@ EXCEPT !.valid = FALSE, !.lock = 0, !.type = "none"]]
    /\ Go(p, [pc |-> "deref"])
    /\ UNCHANGED <<cwd, file, calls>>

\* The end of iput; the caller goes on at k.
iputDone(p) ==
    /\ th[p].pc = "deref"
    /\ ic' = [ic EXCEPT ![th[p].put].ref = @ - 1]
    /\ IF th[p].k = "out" THEN th' = [th EXCEPT ![p] = Idle]
       ELSE Go(p, [pc |-> th[p].k, put |-> 0, k |-> "out"])
    /\ UNCHANGED <<di, cwd, file, calls>>

\* Calling iput(i) for a variable that is not used any more, then going to k.
Put(i, k) == [pc |-> "iput", put |-> i, k |-> k]

\* The first step of a lookup: path is relative to the root or to cwd.
Start(p, path) == IF Head(path) = "/" THEN ROOTINO ELSE cwd[p]
Rest(path) == IF Head(path) = "/" THEN Tail(path) ELSE path

\* Where a call goes when a lookup fails.
Failed(p) == IF th[p].old = 0 THEN "out" ELSE "bad"

\* One round of the loop of namex, or its end.
namex(p) ==
    LET i == th[p].ip  path == th[p].path IN
    /\ th[p].pc = "namex"
    /\ IF path = <<>>
       THEN /\ Go(p, IF th[p].parent THEN [ip |-> 0] @@ Put(i, Failed(p))
                                     ELSE [pc |-> th[p].call])
            /\ UNCHANGED <<di, ic, cwd, file, calls>>
       ELSE /\ CanLock(i)
            /\ LET next == di[i].ents[Head(path)] IN
               IF LockPanics(i) THEN Panic(p)
               ELSE /\ UNCHANGED <<di, cwd, file, calls>>
                    /\ IF Loaded(i).type = "dir" /\ th[p].parent /\ Len(path) = 1
                       THEN /\ Go(p, [pc |-> th[p].call, name |-> Head(path),
                                      dp |-> i, ip |-> 0, path |-> <<>>])
                            /\ ic' = [ic EXCEPT ![i] = Loaded(i)]
                       ELSE IF Loaded(i).type # "dir" \/ next = 0
                       THEN /\ Go(p, [ip |-> 0] @@ Put(i, Failed(p)))
                            /\ ic' = [ic EXCEPT ![i] = Loaded(i)]
                       ELSE /\ Go(p, [ip |-> next, path |-> Tail(path)] @@ Put(i, "namex"))
                            /\ ic' = iget([ic EXCEPT ![i] = Loaded(i)], next)

-----------------------------------------------------------------------------
(* sysfile.c *)

\* A system call up to the first step of its lookup.
begin(p, c) ==
    /\ th[p].pc = "out" /\ calls < MAXCALLS
    /\ calls' = calls + 1
    /\ IF c.call = "close"
       THEN /\ file[p] # 0
            /\ Go(p, Put(file[p], "out"))
            /\ file' = [file EXCEPT ![p] = 0]
            /\ UNCHANGED ic
       ELSE /\ Go(p, [pc |-> "namex", call |-> c.call, path |-> Rest(c.path), new |-> c.new,
                      parent |-> c.call \notin {"open", "openw", "link", "chdir"},
                      ip |-> Start(p, c.path)])
            /\ ic' = iget(ic, Start(p, c.path))
            /\ UNCHANGED file
    /\ UNCHANGED <<di, cwd>>

\* The end of sys_open, with a locked inode: a file for it if there is room.
OpenFile(p, i) ==
    IF file[p] = 0 THEN th' = [th EXCEPT ![p] = Idle] /\ file' = [file EXCEPT ![p] = i]
    ELSE Go(p, [ip |-> 0] @@ Put(i, "out")) /\ UNCHANGED file

\* sys_open without O_CREATE, and sys_chdir: what follows namei.
sys_open(p) ==
    LET i == th[p].ip IN
    /\ th[p].pc \in {"open", "openw"} /\ CanLock(i)
    /\ IF LockPanics(i) THEN Panic(p)
       ELSE /\ IF Loaded(i).type = "dir" /\ th[p].call = "openw"
               THEN Go(p, [ip |-> 0] @@ Put(i, "out")) /\ UNCHANGED file
               ELSE OpenFile(p, i)
            /\ ic' = [ic EXCEPT ![i] = Loaded(i)]
            /\ UNCHANGED <<di, cwd, calls>>

sys_chdir(p) ==
    LET i == th[p].ip IN
    \/ /\ th[p].pc = "chdir" /\ CanLock(i)
       /\ IF LockPanics(i) THEN Panic(p)
          ELSE /\ Go(p, IF Loaded(i).type = "dir" THEN Put(cwd[p], "chdir2")
                        ELSE [ip |-> 0] @@ Put(i, "out"))
               /\ ic' = [ic EXCEPT ![i] = Loaded(i)]
               /\ UNCHANGED <<di, cwd, file, calls>>
    \/ /\ th[p].pc = "chdir2"
       /\ cwd' = [cwd EXCEPT ![p] = i]
       /\ th' = [th EXCEPT ![p] = Idle]
       /\ UNCHANGED <<di, ic, file, calls>>

NewType(p) == CASE th[p].call = "creat" -> "file" [] th[p].call = "mkdir" -> "dir"
                [] th[p].call = "mknod" -> "dev"
FreeInum == {i \in Inum : di[i].type = "none"}
Least(S) == CHOOSE i \in S : \A j \in S : i <= j

\* create, when the name is new: ialloc, ilock and iupdate of the new inode (an
\* entry still in the cache is not read again), the links, and iunlock(dp).
\* With no free inode, ialloc's panic is where the behaviour ends ("full").
NewInode(p) ==
    LET dp == th[p].dp  d == Loaded(dp)  isdir == NewType(p) = "dir" IN
    IF FreeInum = {} THEN /\ Go(p, [pc |-> "full"])
                          /\ UNCHANGED <<di, ic>>
    ELSE LET i == Least(FreeInum)
             type == IF ic[i].ref > 0 /\ ic[i].valid THEN ic[i].type ELSE NewType(p)
             up == IF isdir THEN 1 ELSE 0 IN
         /\ CanLock(i)
         /\ di' = [di EXCEPT
                ![i] = [type |-> type, nlink |-> 1, ents |->
                        IF isdir THEN [NoEntries EXCEPT !["."] = i, ![".."] = dp]
                        ELSE NoEntries],
                ![dp] = [@ EXCEPT !.nlink = d.nlink + up, !.ents[th[p].name] = i]]
         /\ ic' = [iget([ic EXCEPT ![dp] = [d EXCEPT !.nlink = @ + up]], i)
                   EXCEPT ![i].lock = p, ![i].valid = TRUE,
                          ![i].type = type, ![i].nlink = 1]
         /\ Go(p, [ip |-> i, dp |-> 0] @@ Put(dp, "created"))

create(p) ==
    LET dp == th[p].dp  found == di[dp].ents[th[p].name]  i == th[p].ip IN
    \/ /\ th[p].pc \in {"creat", "mkdir", "mknod"} /\ CanLock(dp)
       /\ IF LockPanics(dp) THEN Panic(p)
          ELSE /\ IF found = 0 THEN NewInode(p)
                  ELSE /\ ic' = iget([ic EXCEPT ![dp] = Loaded(dp)], found)
                       /\ Go(p, [ip |-> found, dp |-> 0] @@ Put(dp, "exists"))
                       /\ UNCHANGED di
               /\ UNCHANGED <<cwd, file, calls>>
    \/ /\ th[p].pc = "exists" /\ CanLock(i)
       /\ IF LockPanics(i) THEN Panic(p)
          ELSE /\ IF NewType(p) = "file" /\ Loaded(i).type = "file" THEN OpenFile(p, i)
                  ELSE Go(p, [ip |-> 0] @@ Put(i, "out")) /\ UNCHANGED file
               /\ ic' = [ic EXCEPT ![i] = Loaded(i)]
               /\ UNCHANGED <<di, cwd, calls>>
    \/ /\ th[p].pc = "created"
       /\ IF NewType(p) = "file" THEN OpenFile(p, i)
          ELSE Go(p, [ip |-> 0] @@ Put(i, "out")) /\ UNCHANGED file
       /\ ic' = [ic EXCEPT ![i].lock = 0]
       /\ UNCHANGED <<di, cwd, calls>>

\* Faulty: the new name is made before the link is counted.
LinkUncounted(p) ==
    LET i == th[p].ip IN
    /\ th[p].pc = "link" /\ i # 0 /\ CanLock(i)
    /\ ic' = [ic EXCEPT ![i] = Loaded(i)]
    /\ Go(p, IF Loaded(i).type = "dir" THEN [ip |-> 0] @@ Put(i, "out")
             ELSE [pc |-> "linked", ip |-> 0, old |-> i])
    /\ UNCHANGED <<di, cwd, file, calls>>

\* sys_link, when the old name is found.
LinkOld(p) ==
    LET i == th[p].ip IN
    /\ th[p].pc = "link" /\ i # 0 /\ CanLock(i)
    /\ IF LockPanics(i) THEN Panic(p)
       ELSE /\ IF Loaded(i).type = "dir"
               THEN /\ ic' = [ic EXCEPT ![i] = Loaded(i)]
                    /\ Go(p, [ip |-> 0] @@ Put(i, "out"))
                    /\ UNCHANGED di
               ELSE /\ SetLinks(i, Loaded(i).nlink + 1)
                    /\ Go(p, [pc |-> "linked", ip |-> 0, old |-> i])
            /\ UNCHANGED <<cwd, file, calls>>

\* sys_link: nameiparent(new), and dirlink into the directory it returns.
LinkNew(p) ==
    LET dp == th[p].dp  found == di[dp].ents[th[p].name] IN
    \/ /\ th[p].pc = "linked"
       /\ ic' = iget(ic, Start(p, th[p].new))
       /\ Go(p, [pc |-> "namex", path |-> Rest(th[p].new), parent |-> TRUE,
                 ip |-> Start(p, th[p].new)])
       /\ UNCHANGED <<di, cwd, file, calls>>
    \/ /\ th[p].pc = "link" /\ dp # 0 /\ CanLock(dp)
       /\ IF LockPanics(dp) THEN Panic(p)
          ELSE /\ IF found # 0
                  THEN /\ ic' = iget([ic EXCEPT ![dp] = [Loaded(dp) EXCEPT !.lock = p]], found)
                       /\ Go(p, Put(found, "present"))
                       /\ UNCHANGED di
                  ELSE /\ di' = [di EXCEPT ![dp].ents[th[p].name] = th[p].old]
                       /\ ic' = [ic EXCEPT ![dp] = Loaded(dp)]
                       /\ Go(p, [dp |-> 0] @@ Put(dp, "made"))
               /\ UNCHANGED <<cwd, file, calls>>
    \/ /\ th[p].pc = "made"
       /\ Go(p, [old |-> 0] @@ Put(th[p].old, "out"))
       /\ UNCHANGED <<di, ic, cwd, file, calls>>

\* sys_link when it fails after the link is counted.
LinkBad(p) ==
    LET i == th[p].old IN
    \/ /\ th[p].pc = "present"
       /\ ic' = [ic EXCEPT ![th[p].dp].lock = 0]
       /\ Go(p, [dp |-> 0] @@ Put(th[p].dp, "bad"))
       /\ UNCHANGED <<di, cwd, file, calls>>
    \/ /\ th[p].pc = "bad" /\ CanLock(i)
       /\ SetLinks(i, Loaded(i).nlink - 1)
       /\ Go(p, [old |-> 0] @@ Put(i, "out"))
       /\ UNCHANGED <<cwd, file, calls>>

isdirempty(i) == \A n \in Name : di[i].ents[n] = 0

\* sys_unlink, up to where it has found the inode with dp locked.
UnlinkFind(p) ==
    LET dp == th[p].dp  found == di[dp].ents[th[p].name] IN
    /\ th[p].pc = "unlink" /\ CanLock(dp)
    /\ IF LockPanics(dp) THEN Panic(p)
       ELSE /\ IF th[p].name \in Dot \/ found = 0
               THEN /\ ic' = [ic EXCEPT ![dp] = Loaded(dp)]
                    /\ Go(p, [dp |-> 0] @@ Put(dp, "out"))
               ELSE /\ ic' = iget([ic EXCEPT ![dp] = [Loaded(dp) EXCEPT !.lock = p]], found)
                    /\ Go(p, [pc |-> "found", ip |-> found])
            /\ UNCHANGED <<di, cwd, file, calls>>

\* sys_unlink with ip locked as well: the entry goes, or the directory it
\* names is not empty.
UnlinkEntry(p) ==
    LET dp == th[p].dp  i == th[p].ip
        down == IF Loaded(i).type = "dir" THEN 1 ELSE 0 IN
    /\ th[p].pc = "found" /\ CanLock(i)
    /\ IF LockPanics(i) \/ Loaded(i).nlink < 1 THEN Panic(p)
       ELSE /\ IF Loaded(i).type = "dir" /\ ~isdirempty(i)
               THEN /\ ic' = [ic EXCEPT ![i] = Loaded(i)]
                    /\ Go(p, [ip |-> 0] @@ Put(i, "nonempty"))
                    /\ UNCHANGED di
               ELSE /\ di' = [di EXCEPT ![dp].ents[th[p].name] = 0,
                                        ![dp].nlink = ic[dp].nlink - down]
                    /\ ic' = [ic EXCEPT ![dp].nlink = @ - down, ![dp].lock = 0,
                                        ![i] = [Loaded(i) EXCEPT !.lock = p]]
                    /\ Go(p, [dp |-> 0] @@ Put(dp, "removed"))
            /\ UNCHANGED <<cwd, file, calls>>

UnlinkDone(p) ==
    \/ /\ th[p].pc = "removed"
       /\ SetLinks(th[p].ip, Loaded(th[p].ip).nlink - 1)
       /\ Go(p, [ip |-> 0] @@ Put(th[p].ip, "out"))
       /\ UNCHANGED <<cwd, file, calls>>
    \/ /\ th[p].pc = "nonempty"
       /\ ic' = [ic EXCEPT ![th[p].dp].lock = 0]
       /\ Go(p, [dp |-> 0] @@ Put(th[p].dp, "out"))
       /\ UNCHANGED <<di, cwd, file, calls>>

-----------------------------------------------------------------------------
(* A root directory and what it holds; every process starts in the root, as  *)
(* userinit leaves it and fork copies it.                                    *)
InitWith(disk) ==
    /\ di = disk
    /\ ic = [i \in Inum |-> [ref |-> IF i = ROOTINO THEN Cardinality(Proc) ELSE 0,
                             valid |-> FALSE, lock |-> 0, type |-> "none", nlink |-> 0]]
    /\ th = [p \in Proc |-> Idle]
    /\ cwd = [p \in Proc |-> ROOTINO]
    /\ file = [p \in Proc |-> 0]
    /\ calls = 0

Next ==
    \E p \in Proc :
        \/ \E c \in Call : begin(p, c)
        \/ namex(p) \/ iput(p) \/ iputFree(p) \/ iputDone(p)
        \/ sys_open(p) \/ sys_chdir(p) \/ create(p)
        \/ LinkOld(p) \/ LinkNew(p) \/ LinkBad(p)
        \/ UnlinkFind(p) \/ UnlinkEntry(p) \/ UnlinkDone(p)

-----------------------------------------------------------------------------
\* The pointers to i that processes hold.  During sys_chdir the reference of
\* the old cwd is the one that iput drops.
Held(i) ==
    {<<p, f>> \in Proc \X {"ip", "dp", "old", "put"} : th[p][f] = i}
    \cup {<<p, "cwd">> : p \in {q \in Proc : cwd[q] = i /\ "chdir2" \notin {th[q].pc, th[q].k}}}
    \cup {<<p, "file">> : p \in {q \in Proc : file[q] = i}}

\* Every path through the calls, the failing ones included, gives back the
\* references it took: ref is the number of pointers that are held.
RefCounts == \A i \in Inum : ic[i].ref = Cardinality(Held(i))

\* The inode cache is write-through, also for an inode that is freed by one
\* process and allocated by another one while its entry is still referenced.
CacheCoherent ==
    \A i \in Inum : ic[i].ref > 0 /\ ic[i].valid =>
        ic[i].type = di[i].type /\ ic[i].nlink = di[i].nlink

\* The names of i, and the directories in i, each with a ".." that counts.
Names(i) == {<<d, n>> \in Inum \X Name : di[d].type = "dir" /\ di[d].ents[n] = i}
Subdirs(i) == {n \in Name : di[i].type = "dir" /\ di[i].ents[n] # 0
                            /\ di[di[i].ents[n]].type = "dir"}

\* No name is left behind: what a directory entry names is allocated and has
\* at least as many links as names, so that no unlink in whatever order takes
\* the inode away while another name remains.
NamesCounted ==
    \A i \in Inum : Names(i) # {} =>
        di[i].type # "none" /\ di[i].nlink >= Cardinality(Names(i)) + Cardinality(Subdirs(i))

\* An open file and a current directory stay allocated after their last name
\* is removed.
HeldAllocated ==
    \A p \in Proc : /\ file[p] # 0 => di[file[p]].type # "none"
                    /\ th[p].pc = "out" => di[cwd[p]].type # "none"

\* With paths without "..", no panic of ilock or sys_unlink is reached: no
\* process locks an inode that another one has freed in the meantime.
NoPanic == \A p \in Proc : th[p].pc # "panic"

\* What iput promises: an inode without links and without references is free.
NoOrphans ==
    \A i \in Inum : ic[i].ref = 0 /\ di[i].type # "none" => di[i].nlink > 0

\* The inode whose lock p waits for.
Wanted(p) ==
    CASE th[p].pc = "iput" -> th[p].put
      [] th[p].pc \in {"namex", "open", "openw", "chdir", "exists", "found"} -> th[p].ip
      [] th[p].pc \in {"creat", "mkdir", "mknod", "unlink"} -> th[p].dp
      [] th[p].pc = "link" -> IF th[p].dp = 0 THEN th[p].ip ELSE th[p].dp
      [] th[p].pc = "bad" -> th[p].old
      [] OTHER -> 0

WaitsFor(p, q) == Wanted(p) # 0 /\ ic[Wanted(p)].lock = q

\* No process waits, directly or through another one, for a lock of its own.
NoCircularWait ==
    \A p, q \in Proc : ~(WaitsFor(p, q) /\ WaitsFor(q, p))
=============================================================================
