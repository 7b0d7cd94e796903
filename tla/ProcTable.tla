----------------------------- MODULE ProcTable -----------------------------
(***************************************************************************)
(* The life of processes (proc.c): fork with its failure paths, exit, wait *)
(* and kill, on the process table and the pages that kalloc has left.      *)
(*                                                                         *)
(* A step is a critical section of ptable.lock, or the code between two of *)
(* them.  RUNNABLE stands for RUNNING too: which of them run is up to the  *)
(* scheduler (module Sched).  A page table counts as one page.             *)
(***************************************************************************)
EXTENDS Naturals, FiniteSets

CONSTANTS
    NPROC,    \* slots of the process table
    PAGES,    \* pages free at boot, after init has got its own
    MAXPID,   \* bound on nextpid
    Targets   \* pids that processes pass to kill

ASSUME TableAssumption ==
    /\ NPROC \in Nat \ {0} /\ PAGES \in Nat /\ MAXPID \in Nat \ {0, 1}
    /\ Targets \subseteq Nat

Slot == 1 .. NPROC
initproc == 1

VARIABLES
    state, pid, parent, killed,  \* fields of struct proc; parent 0 is none
    kstack,   \* slots that have a kernel stack
    pgdir,    \* slots that have a page table
    pc,       \* where each process is
    child,    \* np of a fork in progress
    nextpid,
    free,     \* pages left
    victims   \* history: the pids passed to kill so far

vars == <<state, pid, parent, killed, kstack, pgdir, pc, child, nextpid, free,
          victims>>

TypeOK ==
    /\ state \in [Slot -> {"UNUSED", "EMBRYO", "RUNNABLE", "SLEEPING", "ZOMBIE"}]
    /\ pid \in [Slot -> Nat]
    /\ parent \in [Slot -> Slot \cup {0}]
    /\ killed \in [Slot -> BOOLEAN]
    /\ kstack \subseteq Slot
    /\ pgdir \subseteq Slot
    /\ pc \in [Slot -> {"none", "user", "call", "kalloc", "copyuvm", "run", "wait",
                        "exit"}]
    /\ child \in [Slot -> Slot \cup {0}]
    /\ nextpid \in Nat
    /\ free \in Nat
    /\ victims \subseteq Nat

\* The loops over ptable.proc stop at the first slot that fits.
First(S) == CHOOSE s \in S : \A t \in S : s <= t

\* trap found the process not killed and calls syscall; kill may come later.
syscall(p) ==
    /\ pc[p] = "user" /\ ~killed[p]
    /\ pc' = [pc EXCEPT ![p] = "call"]
    /\ UNCHANGED <<state, pid, parent, killed, kstack, pgdir, child, nextpid,
                   free, victims>>

Children(p) == {s \in Slot : parent[s] = p}
Zombies(p) == {s \in Children(p) : state[s] = "ZOMBIE"}

-----------------------------------------------------------------------------
(* fork *)

\* allocproc up to its release of ptable.lock.
allocproc(p) ==
    LET S == {s \in Slot : state[s] = "UNUSED"}
        np == First(S) IN
    /\ pc[p] = "call" /\ S # {}
    /\ nextpid <= MAXPID
    /\ state' = [state EXCEPT ![np] = "EMBRYO"]
    /\ pid' = [pid EXCEPT ![np] = nextpid]
    /\ nextpid' = nextpid + 1
    /\ child' = [child EXCEPT ![p] = np]
    /\ pc' = [pc EXCEPT ![p] = "kalloc"]
    /\ UNCHANGED <<parent, killed, kstack, pgdir, free, victims>>

\* No slot is UNUSED: fork returns -1.
ForkFails(p) ==
    /\ pc[p] = "call" /\ \A s \in Slot : state[s] # "UNUSED"
    /\ pc' = [pc EXCEPT ![p] = "user"]
    /\ UNCHANGED <<state, pid, parent, killed, kstack, pgdir, child, nextpid,
                   free, victims>>

\* The kernel stack, or fork fails and the slot is UNUSED again.
AllocStack(p) ==
    LET np == child[p] IN
    /\ pc[p] = "kalloc"
    /\ \/ /\ free > 0
          /\ free' = free - 1
          /\ kstack' = kstack \cup {np}
          /\ pc' = [pc EXCEPT ![p] = "copyuvm"]
          /\ UNCHANGED <<state, child>>
       \/ /\ free = 0
          /\ state' = [state EXCEPT ![np] = "UNUSED"]
          /\ pc' = [pc EXCEPT ![p] = "user"]
          /\ child' = [child EXCEPT ![p] = 0]
          /\ UNCHANGED <<free, kstack>>
    /\ UNCHANGED <<pid, parent, killed, pgdir, nextpid, victims>>

\* The page table and the rest of the child, or fork fails.
CopyProc(p) ==
    LET np == child[p] IN
    /\ pc[p] = "copyuvm"
    /\ \/ /\ free > 0
          /\ free' = free - 1
          /\ pgdir' = pgdir \cup {np}
          /\ parent' = [parent EXCEPT ![np] = p]
          /\ pc' = [pc EXCEPT ![p] = "run"]
          /\ UNCHANGED <<state, kstack, child>>
       \/ /\ free = 0
          /\ free' = free + 1
          /\ kstack' = kstack \ {np}
          /\ state' = [state EXCEPT ![np] = "UNUSED"]
          /\ pc' = [pc EXCEPT ![p] = "user"]
          /\ child' = [child EXCEPT ![p] = 0]
          /\ UNCHANGED <<pgdir, parent>>
    /\ UNCHANGED <<pid, killed, nextpid, victims>>

ForkDone(p) ==
    LET np == child[p] IN
    /\ pc[p] = "run"
    /\ state' = [state EXCEPT ![np] = "RUNNABLE"]
    /\ pc' = [pc EXCEPT ![p] = "user", ![np] = "user"]
    /\ child' = [child EXCEPT ![p] = 0]
    /\ UNCHANGED <<pid, parent, killed, kstack, pgdir, nextpid, free, victims>>

-----------------------------------------------------------------------------
(* exit *)

\* exit, called by the process or by trap because it is killed, up to where
\* it takes ptable.lock.
exit(p) ==
    /\ pc[p] = "call" \/ (pc[p] = "user" /\ killed[p])
    /\ p # initproc
    /\ pc' = [pc EXCEPT ![p] = "exit"]
    /\ UNCHANGED <<state, pid, parent, killed, kstack, pgdir, child, nextpid,
                   free, victims>>

\* wakeup1(q): q sleeps on its own address in wait.
Woken(st, q) == [st EXCEPT ![q] = IF @ = "SLEEPING" THEN "RUNNABLE" ELSE @]

\* Faulty: leaves its children with the ZOMBIE.
ExitAbandons(p) ==
    /\ pc[p] = "exit"
    /\ state' = [Woken(state, parent[p]) EXCEPT ![p] = "ZOMBIE"]
    /\ pc' = [pc EXCEPT ![p] = "none"]
    /\ UNCHANGED <<pid, parent, killed, kstack, pgdir, child, nextpid, free,
                   victims>>

ExitDone(p) ==
    LET woken == Woken(state, parent[p])
        orphans == Children(p) IN
    /\ pc[p] = "exit"
    /\ parent' = [s \in Slot |-> IF s \in orphans THEN initproc ELSE parent[s]]
    /\ state' = [IF Zombies(p) # {} THEN Woken(woken, initproc) ELSE woken
                 EXCEPT ![p] = "ZOMBIE"]
    /\ pc' = [pc EXCEPT ![p] = "none"]
    /\ UNCHANGED <<pid, killed, kstack, pgdir, child, nextpid, free, victims>>

-----------------------------------------------------------------------------
(* wait *)

InWait(p) == pc[p] \in {"call", "wait"} /\ state[p] = "RUNNABLE"

\* Faulty: goes on waiting for the other children.
WaitOn(p) ==
    LET q == First(Zombies(p)) IN
    /\ InWait(p) /\ Zombies(p) # {}
    /\ kstack' = kstack \ {q}
    /\ pgdir' = pgdir \ {q}
    /\ free' = free + 2
    /\ pid' = [pid EXCEPT ![q] = 0]
    /\ parent' = [parent EXCEPT ![q] = 0]
    /\ killed' = [killed EXCEPT ![q] = FALSE]
    /\ state' = [state EXCEPT ![q] = "UNUSED"]
    /\ pc' = [pc EXCEPT ![p] = "wait"]
    /\ UNCHANGED <<child, nextpid, victims>>

WaitReap(p) ==
    LET q == First(Zombies(p)) IN
    /\ InWait(p) /\ Zombies(p) # {}
    /\ kstack' = kstack \ {q}
    /\ pgdir' = pgdir \ {q}
    /\ free' = free + 2
    /\ pid' = [pid EXCEPT ![q] = 0]
    /\ parent' = [parent EXCEPT ![q] = 0]
    /\ killed' = [killed EXCEPT ![q] = FALSE]
    /\ state' = [state EXCEPT ![q] = "UNUSED"]
    /\ pc' = [pc EXCEPT ![p] = "user"]
    /\ UNCHANGED <<child, nextpid, victims>>

\* wait returns -1.
WaitFails(p) ==
    /\ InWait(p) /\ Zombies(p) = {}
    /\ Children(p) = {} \/ killed[p]
    /\ pc' = [pc EXCEPT ![p] = "user"]
    /\ UNCHANGED <<state, pid, parent, killed, kstack, pgdir, child, nextpid,
                   free, victims>>

WaitSleep(p) ==
    /\ InWait(p) /\ Zombies(p) = {}
    /\ Children(p) # {} /\ ~killed[p]
    /\ state' = [state EXCEPT ![p] = "SLEEPING"]
    /\ pc' = [pc EXCEPT ![p] = "wait"]
    /\ UNCHANGED <<pid, parent, killed, kstack, pgdir, child, nextpid, free,
                   victims>>

-----------------------------------------------------------------------------
\* kill(k), called by p.
kill(p, k) ==
    LET S == {s \in Slot : pid[s] = k}
        q == First(S) IN
    /\ pc[p] = "call"
    /\ pc' = [pc EXCEPT ![p] = "user"]
    /\ \/ /\ S # {}
          /\ killed' = [killed EXCEPT ![q] = TRUE]
          /\ state' = Woken(state, q)
       \/ S = {} /\ UNCHANGED <<killed, state>>
    /\ victims' = victims \cup {k}
    /\ UNCHANGED <<pid, parent, kstack, pgdir, child, nextpid, free>>

-----------------------------------------------------------------------------
\* The process of userinit is running.
Init ==
    /\ state = [s \in Slot |-> IF s = initproc THEN "RUNNABLE" ELSE "UNUSED"]
    /\ pid = [s \in Slot |-> IF s = initproc THEN 1 ELSE 0]
    /\ parent = [s \in Slot |-> 0]
    /\ killed = [s \in Slot |-> FALSE]
    /\ kstack = {initproc}
    /\ pgdir = {initproc}
    /\ pc = [s \in Slot |-> IF s = initproc THEN "user" ELSE "none"]
    /\ child = [s \in Slot |-> 0]
    /\ nextpid = 2
    /\ free = PAGES
    /\ victims = {}

Next ==
    \E p \in Slot :
        \/ syscall(p)
        \/ allocproc(p) \/ ForkFails(p) \/ AllocStack(p) \/ CopyProc(p) \/ ForkDone(p)
        \/ exit(p) \/ ExitDone(p)
        \/ WaitReap(p) \/ WaitFails(p) \/ WaitSleep(p)
        \/ \E k \in Targets : kill(p, k)

Spec == Init /\ [][Next]_vars

-----------------------------------------------------------------------------
(* Properties *)

Alive == {s \in Slot : state[s] \in {"RUNNABLE", "SLEEPING"}}

\* Every process that has been forked has a parent that is alive, so somebody
\* who can wait for it: exit hands its children to init before it is a ZOMBIE.
ParentsLive ==
    \A s \in Slot \ {initproc} :
        state[s] \in {"RUNNABLE", "SLEEPING", "ZOMBIE"} => parent[s] \in Alive

\* Nobody sleeps in wait who has a ZOMBIE child, no child at all, or has been
\* killed: exit and kill wake it under the ptable.lock that wait holds.
NoLostExit ==
    \A p \in Slot :
        state[p] = "SLEEPING" =>
            Zombies(p) = {} /\ Children(p) # {} /\ ~killed[p]

\* No two processes in use have one pid.
UniquePids ==
    \A s, t \in Slot :
        /\ state[s] # "UNUSED" /\ state[t] # "UNUSED"
        /\ pid[s] = pid[t]
        => s = t

\* No page is lost or freed twice, whichever way fork fails and whoever waits.
PagesBalance ==
    free + Cardinality(kstack) + Cardinality(pgdir) = PAGES + 2

\* Only the processes that were the target of a kill are marked killed.
KilledByPid ==
    \A s \in Slot :
        state[s] # "UNUSED" /\ killed[s] => pid[s] \in victims

-----------------------------------------------------------------------------
(* The inductive invariant *)

Forking(p) == pc[p] \in {"kalloc", "copyuvm", "run"}

\* Which places go with which states; a slot that is not in use has no parent.
StateInv ==
    /\ initproc \in Alive /\ pc[initproc] # "exit" /\ parent[initproc] = 0
    /\ \A s \in Slot :
          /\ pc[s] = "none" <=> s \notin Alive
          /\ state[s] = "SLEEPING" => pc[s] = "wait"
          /\ state[s] = "UNUSED" => parent[s] = 0
          /\ parent[s] # s
          /\ pid[s] < nextpid

\* A fork in progress owns its EMBRYO, which is nobody's child before it is
\* complete; every EMBRYO has one such owner.
ForkInv ==
    \A p \in Slot : Forking(p) =>
        /\ child[p] \in Slot /\ state[child[p]] = "EMBRYO"
        /\ parent[child[p]] = IF pc[p] = "run" THEN p ELSE 0

ForkApart ==
    \A p, q \in Slot : Forking(p) /\ Forking(q) /\ child[p] = child[q] => p = q

EmbryoInv ==
    \A s \in Slot : state[s] = "EMBRYO" =>
        \E p \in Slot : Forking(p) /\ child[p] = s

\* Who has which pages.
PageInv ==
    /\ \A s \in Slot :
          /\ state[s] = "UNUSED" => s \notin kstack /\ s \notin pgdir
          /\ s \in Alive \/ state[s] = "ZOMBIE" => s \in kstack /\ s \in pgdir
    /\ \A p \in Slot :
          /\ pc[p] = "kalloc" => child[p] \notin kstack
          /\ pc[p] \in {"copyuvm", "run"} => child[p] \in kstack
          /\ pc[p] \in {"kalloc", "copyuvm"} => child[p] \notin pgdir
          /\ pc[p] = "run" => child[p] \in pgdir

\* Together with the properties themselves: what every step preserves.
Inv ==
    /\ TypeOK /\ StateInv /\ ForkInv /\ ForkApart /\ EmbryoInv /\ PageInv
    /\ ParentsLive /\ NoLostExit /\ UniquePids /\ PagesBalance
============================================================================
