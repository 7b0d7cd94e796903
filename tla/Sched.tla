------------------------------- MODULE Sched -------------------------------
(***************************************************************************)
(* How kernel threads share the CPUs: the scheduler and sched() with the   *)
(* hand-over of ptable.lock (proc.c), spin locks that turn interrupts off  *)
(* (spinlock.c), sleep and wakeup, and a sleep lock on top (sleeplock.c).  *)
(* The timer interrupts a thread wherever interrupts are on.               *)
(*                                                                         *)
(* A step is the code between two operations on a spin lock.  A CPU that   *)
(* spins is one whose next step has to wait for the lock.                  *)
(***************************************************************************)
EXTENDS Naturals

CONSTANTS CPU,    \* the CPUs
          NPROC,  \* size of the process table
          None    \* no CPU, no process, no channel

Proc == 1 .. NPROC

ASSUME ProcAssumption == NPROC \in Nat \ {0}
ASSUME NoneAssumption == None \notin CPU /\ None \notin Proc

VARIABLES
    \* the process table
    state,   \* p->state
    chan,    \* p->chan: "lk" or None
    pc,      \* where the thread of p is, also while it is switched out
    intr,    \* where the timer interrupted it
    kintena, \* sched()'s local copy of intena
    \* the CPUs
    run,     \* c->proc; None while c executes scheduler()
    spc,     \* where scheduler() is on c
    scan,    \* its index in ptable.proc
    ncli,    \* c->ncli
    intena,  \* c->intena
    ief,     \* the interrupt flag of c
    \* the locks
    owner,   \* the CPU that holds each spin lock
    locked,  \* lk->locked of the sleep lock
    holder   \* lk->pid

procvars == <<state, chan, pc, intr, kintena>>
cpuvars == <<run, spc, scan, ncli, intena, ief>>
lockvars == <<owner, locked, holder>>
vars == <<procvars, cpuvars, lockvars>>

\* Where a thread spins, for which lock, and where it goes on with it.
Spin ==
    [acquiresleep |-> [lock |-> "lk", next |-> "test"],
     sleep        |-> [lock |-> "ptable", next |-> "sleep_release"],
     releasesleep |-> [lock |-> "lk", next |-> "clear"],
     wakeup       |-> [lock |-> "ptable", next |-> "wakeup1"],
     kill         |-> [lock |-> "ptable", next |-> "mark"],
     yield        |-> [lock |-> "ptable", next |-> "yield_sched"]]

Place == DOMAIN Spin \cup {Spin[s].next : s \in DOMAIN Spin} \cup
         {"forkret", "out", "take_release", "in", "sleep_sched", "slept",
          "reacquire", "release", "yielded"}

TypeOK ==
    /\ state \in [Proc -> {"RUNNABLE", "RUNNING", "SLEEPING"}]
    /\ chan \in [Proc -> {"lk", None}]
    /\ pc \in [Proc -> Place]
    /\ intr \in [Proc -> {"out", "in", "reacquire"}]
    /\ kintena \in [Proc -> BOOLEAN]
    /\ run \in [CPU -> Proc \cup {None}]
    /\ spc \in [CPU -> {"sti", "acquire", "spin", "loop", "proc"}]
    /\ scan \in [CPU -> 1 .. NPROC + 1]
    /\ ncli \in [CPU -> 0 .. 2]
    /\ intena \in [CPU -> BOOLEAN]
    /\ ief \in [CPU -> BOOLEAN]
    /\ owner \in [{"lk", "ptable"} -> CPU \cup {None}]
    /\ locked \in BOOLEAN
    /\ holder \in Proc \cup {None}

-----------------------------------------------------------------------------
(* spinlock.c *)

pushcli(c) ==
    /\ intena' = [intena EXCEPT ![c] = IF ncli[c] = 0 THEN ief[c] ELSE @]
    /\ ncli' = [ncli EXCEPT ![c] = @ + 1]
    /\ ief' = [ief EXCEPT ![c] = FALSE]

\* popcli by a thread whose c->intena is `on'.
popcli(c, on) ==
    /\ ncli' = [ncli EXCEPT ![c] = @ - 1]
    /\ ief' = [ief EXCEPT ![c] = ncli[c] = 1 /\ on]
    /\ intena' = [intena EXCEPT ![c] = on]

release(l) == owner' = [owner EXCEPT ![l] = None]

-----------------------------------------------------------------------------
(* Threads.  At(c, p, l): CPU c executes p, which is at l. *)

At(c, p, l) == spc[c] = "proc" /\ run[c] = p /\ pc[p] = l

\* acquire: interrupts go off before the CPU spins.
Call(c, p, from, to) ==
    /\ At(c, p, from)
    /\ pushcli(c)
    /\ pc' = [pc EXCEPT ![p] = to]

acquiresleep(c, p) ==
    /\ Call(c, p, "out", "acquiresleep")
    /\ UNCHANGED <<state, chan, intr, kintena, run, spc, scan, lockvars>>

releasesleep(c, p) ==
    /\ Call(c, p, "in", "releasesleep")
    /\ UNCHANGED <<state, chan, intr, kintena, run, spc, scan, lockvars>>

\* sleep() takes lk->lk again.
Reacquire(c, p) ==
    /\ Call(c, p, "reacquire", "acquiresleep")
    /\ UNCHANGED <<state, chan, intr, kintena, run, spc, scan, lockvars>>

kill(c, p) ==
    /\ Call(c, p, "out", "kill")
    /\ UNCHANGED <<state, chan, intr, kintena, run, spc, scan, lockvars>>

\* The xchg that ends acquire's loop.
Xchg(c, p) ==
    /\ pc[p] \in DOMAIN Spin /\ At(c, p, pc[p])
    /\ LET s == Spin[pc[p]] IN
          /\ owner[s.lock] = None
          /\ owner' = [owner EXCEPT ![s.lock] = c]
          /\ pc' = [pc EXCEPT ![p] = s.next]
    /\ UNCHANGED <<state, chan, intr, kintena, cpuvars, locked, holder>>

\* Faulty: does not test the lock again after sleep.
TakeAnyway(c, p) ==
    /\ At(c, p, "test")
    /\ locked' = TRUE
    /\ holder' = p
    /\ pc' = [pc EXCEPT ![p] = "take_release"]
    /\ UNCHANGED <<state, chan, intr, kintena, cpuvars, owner>>

\* acquiresleep finds the lock free.
Take(c, p) ==
    /\ At(c, p, "test") /\ ~locked
    /\ locked' = TRUE
    /\ holder' = p
    /\ pc' = [pc EXCEPT ![p] = "take_release"]
    /\ UNCHANGED <<state, chan, intr, kintena, cpuvars, owner>>

TakeRelease(c, p) ==
    /\ At(c, p, "take_release")
    /\ release("lk")
    /\ popcli(c, intena[c])
    /\ pc' = [pc EXCEPT ![p] = "in"]
    /\ UNCHANGED <<state, chan, intr, kintena, run, spc, scan, locked, holder>>

\* Faulty: lets go of lk->lk before it has ptable.lock.
SleepTooEarly(c, p) ==
    /\ locked
    /\ Call(c, p, "test", "sleep")
    /\ release("lk")
    /\ UNCHANGED <<state, chan, intr, kintena, run, spc, scan, locked, holder>>

\* acquiresleep finds it taken: sleep(lk, &lk->lk) acquires ptable.lock,
sleep(c, p) ==
    /\ locked
    /\ Call(c, p, "test", "sleep")
    /\ UNCHANGED <<state, chan, intr, kintena, run, spc, scan, lockvars>>

\* releases lk->lk,
SleepRelease(c, p) ==
    /\ At(c, p, "sleep_release")
    /\ release("lk")
    /\ popcli(c, intena[c])
    /\ pc' = [pc EXCEPT ![p] = "sleep_sched"]
    /\ UNCHANGED <<state, chan, intr, kintena, run, spc, scan, locked, holder>>

\* Faulty: the scheduler starts over after each process.
SchedFromStart(c, p, s, l) ==
    /\ state' = [state EXCEPT ![p] = s]
    /\ kintena' = [kintena EXCEPT ![p] = intena[c]]
    /\ pc' = [pc EXCEPT ![p] = l]
    /\ run' = [run EXCEPT ![c] = None]
    /\ spc' = [spc EXCEPT ![c] = "loop"]
    /\ scan' = [scan EXCEPT ![c] = 1]

\* sched: swtch to the scheduler of this CPU, still holding ptable.lock.
sched(c, p, s, l) ==
    /\ state' = [state EXCEPT ![p] = s]
    /\ kintena' = [kintena EXCEPT ![p] = intena[c]]
    /\ pc' = [pc EXCEPT ![p] = l]
    /\ run' = [run EXCEPT ![c] = None]
    /\ spc' = [spc EXCEPT ![c] = "loop"]
    /\ scan' = [scan EXCEPT ![c] = @ + 1]

\* goes to sleep,
SleepSched(c, p) ==
    /\ At(c, p, "sleep_sched")
    /\ chan' = [chan EXCEPT ![p] = "lk"]
    /\ sched(c, p, "SLEEPING", "slept")
    /\ UNCHANGED <<intr, ncli, intena, ief, lockvars>>

\* Faulty: sched does not restore c->intena.
SleptIntena(c, p) ==
    /\ At(c, p, "slept")
    /\ chan' = [chan EXCEPT ![p] = None]
    /\ release("ptable")
    /\ popcli(c, intena[c])
    /\ pc' = [pc EXCEPT ![p] = "reacquire"]
    /\ UNCHANGED <<state, intr, kintena, run, spc, scan, locked, holder>>

\* and when it runs again, tidies up and releases ptable.lock.
Slept(c, p) ==
    /\ At(c, p, "slept")
    /\ chan' = [chan EXCEPT ![p] = None]
    /\ release("ptable")
    /\ popcli(c, kintena[p])
    /\ pc' = [pc EXCEPT ![p] = "reacquire"]
    /\ UNCHANGED <<state, intr, kintena, run, spc, scan, locked, holder>>

\* releasesleep clears the lock and calls wakeup, which acquires ptable.lock,
Clear(c, p) ==
    /\ locked' = FALSE
    /\ holder' = None
    /\ Call(c, p, "clear", "wakeup")
    /\ UNCHANGED <<state, chan, intr, kintena, run, spc, scan, owner>>

\* Faulty: looks for another channel.
WakeNobody(c, p) ==
    /\ At(c, p, "wakeup1")
    /\ release("ptable")
    /\ popcli(c, intena[c])
    /\ pc' = [pc EXCEPT ![p] = "release"]
    /\ UNCHANGED <<state, chan, intr, kintena, run, spc, scan, locked, holder>>

\* makes the sleepers runnable and releases it.
wakeup1(c, p) ==
    /\ At(c, p, "wakeup1")
    /\ state' = [q \in Proc |-> IF state[q] = "SLEEPING" /\ chan[q] = "lk"
                                THEN "RUNNABLE" ELSE state[q]]
    /\ release("ptable")
    /\ popcli(c, intena[c])
    /\ pc' = [pc EXCEPT ![p] = "release"]
    /\ UNCHANGED <<chan, intr, kintena, run, spc, scan, locked, holder>>

Release(c, p) ==
    /\ At(c, p, "release")
    /\ release("lk")
    /\ popcli(c, intena[c])
    /\ pc' = [pc EXCEPT ![p] = "out"]
    /\ UNCHANGED <<state, chan, intr, kintena, run, spc, scan, locked, holder>>

\* kill under ptable.lock: a sleeper runs although nobody released the lock.
Mark(c, p, q) ==
    /\ At(c, p, "mark")
    /\ state' = [state EXCEPT ![q] = IF @ = "SLEEPING" THEN "RUNNABLE" ELSE @]
    /\ release("ptable")
    /\ popcli(c, intena[c])
    /\ pc' = [pc EXCEPT ![p] = "out"]
    /\ UNCHANGED <<chan, intr, kintena, run, spc, scan, locked, holder>>

\* The timer interrupt enters trap() with interrupts off; trap calls yield.
yield(c, p) ==
    /\ ief[c] /\ state[p] = "RUNNING"
    /\ At(c, p, pc[p])
    /\ intr' = [intr EXCEPT ![p] = pc[p]]
    /\ pc' = [pc EXCEPT ![p] = "yield"]
    /\ ief' = [ief EXCEPT ![c] = FALSE]
    /\ ncli' = [ncli EXCEPT ![c] = @ + 1]
    /\ intena' = [intena EXCEPT ![c] = IF ncli[c] = 0 THEN FALSE ELSE @]
    /\ UNCHANGED <<state, chan, kintena, run, spc, scan, lockvars>>

YieldSched(c, p) ==
    /\ At(c, p, "yield_sched")
    /\ sched(c, p, "RUNNABLE", "yielded")
    /\ UNCHANGED <<chan, intr, ncli, intena, ief, lockvars>>

\* yield releases ptable.lock and the iret turns interrupts on again.
Yielded(c, p) ==
    /\ At(c, p, "yielded")
    /\ release("ptable")
    /\ ncli' = [ncli EXCEPT ![c] = @ - 1]
    /\ intena' = [intena EXCEPT ![c] = kintena[p]]
    /\ ief' = [ief EXCEPT ![c] = TRUE]
    /\ pc' = [pc EXCEPT ![p] = intr[p]]
    /\ UNCHANGED <<state, chan, intr, kintena, run, spc, scan, locked, holder>>

\* Faulty: does not release ptable.lock.
ForkretHolding(c, p) ==
    /\ At(c, p, "forkret")
    /\ ncli' = [ncli EXCEPT ![c] = @ - 1]
    /\ ief' = [ief EXCEPT ![c] = TRUE]
    /\ pc' = [pc EXCEPT ![p] = "out"]
    /\ UNCHANGED <<state, chan, intr, kintena, run, spc, scan, intena, lockvars>>

\* A new thread releases ptable.lock for the scheduler; the iret of trapret
\* turns interrupts on.
forkret(c, p) ==
    /\ At(c, p, "forkret")
    /\ release("ptable")
    /\ ncli' = [ncli EXCEPT ![c] = @ - 1]
    /\ ief' = [ief EXCEPT ![c] = TRUE]
    /\ pc' = [pc EXCEPT ![p] = "out"]
    /\ UNCHANGED <<state, chan, intr, kintena, run, spc, scan, intena, locked,
                   holder>>

-----------------------------------------------------------------------------
(* scheduler() *)

Sti(c) ==
    /\ spc[c] = "sti"
    /\ ief' = [ief EXCEPT ![c] = TRUE]
    /\ spc' = [spc EXCEPT ![c] = "acquire"]
    /\ UNCHANGED <<procvars, run, scan, ncli, intena, lockvars>>

SchedPushcli(c) ==
    /\ spc[c] = "acquire"
    /\ pushcli(c)
    /\ spc' = [spc EXCEPT ![c] = "spin"]
    /\ UNCHANGED <<procvars, run, scan, lockvars>>

SchedXchg(c) ==
    /\ spc[c] = "spin"
    /\ owner["ptable"] = None
    /\ owner' = [owner EXCEPT !["ptable"] = c]
    /\ spc' = [spc EXCEPT ![c] = "loop"]
    /\ scan' = [scan EXCEPT ![c] = 1]
    /\ UNCHANGED <<procvars, run, ncli, intena, ief, locked, holder>>

Skip(c) ==
    /\ spc[c] = "loop"
    /\ scan[c] <= NPROC /\ state[scan[c]] # "RUNNABLE"
    /\ scan' = [scan EXCEPT ![c] = @ + 1]
    /\ UNCHANGED <<procvars, run, spc, ncli, intena, ief, lockvars>>

\* Faulty: leaves the process RUNNABLE.
SwitchUnmarked(c) ==
    /\ spc[c] = "loop"
    /\ scan[c] <= NPROC /\ state[scan[c]] = "RUNNABLE"
    /\ run' = [run EXCEPT ![c] = scan[c]]
    /\ spc' = [spc EXCEPT ![c] = "proc"]
    /\ UNCHANGED <<procvars, scan, ncli, intena, ief, lockvars>>

\* swtch to the chosen process, which will release ptable.lock.
Switch(c) ==
    /\ spc[c] = "loop"
    /\ scan[c] <= NPROC /\ state[scan[c]] = "RUNNABLE"
    /\ run' = [run EXCEPT ![c] = scan[c]]
    /\ state' = [state EXCEPT ![scan[c]] = "RUNNING"]
    /\ spc' = [spc EXCEPT ![c] = "proc"]
    /\ UNCHANGED <<chan, pc, intr, kintena, scan, ncli, intena, ief, lockvars>>

EndLoop(c) ==
    /\ spc[c] = "loop"
    /\ scan[c] > NPROC
    /\ release("ptable")
    /\ popcli(c, intena[c])
    /\ spc' = [spc EXCEPT ![c] = "sti"]
    /\ UNCHANGED <<procvars, run, scan, locked, holder>>

-----------------------------------------------------------------------------
\* Every process has been forked; interrupts are still off on all CPUs.
Init ==
    /\ state = [p \in Proc |-> "RUNNABLE"]
    /\ chan = [p \in Proc |-> None]
    /\ pc = [p \in Proc |-> "forkret"]
    /\ intr = [p \in Proc |-> "out"]
    /\ kintena = [p \in Proc |-> FALSE]
    /\ run = [c \in CPU |-> None]
    /\ spc = [c \in CPU |-> "sti"]
    /\ scan = [c \in CPU |-> 1]
    /\ ncli = [c \in CPU |-> 0]
    /\ intena = [c \in CPU |-> FALSE]
    /\ ief = [c \in CPU |-> FALSE]
    /\ owner = [l \in {"lk", "ptable"} |-> None]
    /\ locked = FALSE
    /\ holder = None

scheduler(c) ==
    Sti(c) \/ SchedPushcli(c) \/ Skip(c) \/ Switch(c) \/ EndLoop(c)

\* What a thread does without being made to wait or choosing to.
Thread(c, p) ==
    \/ releasesleep(c, p) \/ Reacquire(c, p) \/ Take(c, p)
    \/ TakeRelease(c, p) \/ sleep(c, p) \/ SleepRelease(c, p)
    \/ SleepSched(c, p) \/ Slept(c, p) \/ Clear(c, p) \/ wakeup1(c, p)
    \/ Release(c, p) \/ (\E q \in Proc : Mark(c, p, q))
    \/ YieldSched(c, p) \/ Yielded(c, p) \/ forkret(c, p)

Next ==
    \E c \in CPU :
        \/ scheduler(c)
        \/ SchedXchg(c)
        \/ \E p \in Proc :
              \/ acquiresleep(c, p) \/ kill(c, p) \/ yield(c, p)
              \/ Xchg(c, p) \/ Thread(c, p)

Spec == Init /\ [][Next]_vars

\* CPUs keep executing; a timer interrupt that is pending is delivered when
\* interrupts are on, and leaves a thread time for a step between two; a CPU
\* that spins for a lock that is released again and again gets it.
Fairness ==
    /\ \A c \in CPU : WF_vars(scheduler(c)) /\ SF_vars(SchedXchg(c))
    /\ \A p \in Proc : /\ WF_vars(\E c \in CPU : Thread(c, p))
                       /\ SF_vars(\E c \in CPU : yield(c, p))
                       /\ SF_vars(\E c \in CPU : releasesleep(c, p)
                                                \/ Reacquire(c, p))
                       /\ SF_vars(\E c \in CPU : Xchg(c, p))

FairSpec == Spec /\ Fairness

-----------------------------------------------------------------------------
(* Properties *)

\* The threads between the return of acquiresleep and releasesleep.
Inside ==
    {p \in Proc :
        \/ pc[p] \in {"take_release", "in", "releasesleep", "clear"}
        \/ pc[p] \in {"yield", "yield_sched", "yielded"} /\ intr[p] = "in"}

\* holdingsleep answers correctly: a thread is inside if and only if the lock
\* is locked with its pid.  So no two threads are inside, whatever the timer,
\* kill and the other CPUs do.
Exclusive == \A p \in Proc : p \in Inside <=> locked /\ holder = p

\* A process is RUNNING if and only if a CPU executes it, and never two CPUs
\* on one kernel stack: sched hands ptable.lock to the scheduler, so nobody
\* can resume a thread that has not switched away yet.
OneCPU ==
    /\ \A p \in Proc : state[p] = "RUNNING" <=> \E c \in CPU : run[c] = p
    /\ \A c, d \in CPU : run[c] = run[d] /\ run[c] # None => c = d

\* Whoever sleeps on the lock has somebody to wake it: the lock is taken, or
\* a releasesleep is on its way to wakeup1.
NoLostWakeup ==
    (\E p \in Proc : state[p] = "SLEEPING") =>
        locked \/ \E q \in Proc : pc[q] \in {"wakeup", "wakeup1"}

\* Interrupts are off on a CPU that holds a spin lock, so no handler can spin
\* for it there, and on again when a thread is back outside all of them,
\* though it may have moved to another CPU in between (sched's intena).
InterruptsMatch ==
    /\ \A l \in DOMAIN owner : owner[l] # None => ~ief[owner[l]]
    /\ \A c \in CPU, p \in Proc :
          At(c, p, pc[p]) /\ pc[p] \in {"out", "in", "reacquire"} =>
              ief[c] /\ ncli[c] = 0

\* Where CPU c is: in its thread or in scheduler().
Here(c) == IF spc[c] = "proc" THEN pc[run[c]] ELSE spc[c]

\* The places at which the CPU holds each of the spin locks.
WithLk == {"test", "take_release", "sleep", "sleep_release", "clear", "wakeup",
           "wakeup1", "release"}
WithPtable == {"sleep_release", "sleep_sched", "slept", "wakeup1", "mark",
               "yield_sched", "yielded", "forkret", "loop"}

\* Calls of pushcli that have not been popped, by place.
Twice == {"sleep", "sleep_release", "wakeup", "wakeup1"}
Once == {"acquiresleep", "test", "take_release", "sleep_sched", "slept",
         "releasesleep", "clear", "release", "kill", "mark", "yield",
         "yield_sched", "yielded", "forkret", "spin", "loop"}

\* The places between a pushcli with interrupts on and its popcli.
Interrupted == {"acquiresleep", "test", "take_release", "sleep",
                "sleep_release", "sleep_sched", "releasesleep", "clear",
                "wakeup", "wakeup1", "release", "kill", "mark"}

\* No panic of acquire ("acquire"), release ("release"), popcli ("popcli") or
\* sched ("sched ptable.lock", "sched locks", "sched interruptible").
NoPanic ==
    \A c \in CPU :
        /\ Here(c) \in DOMAIN Spin => owner[Spin[Here(c)].lock] # c
        /\ Here(c) = "spin" => owner["ptable"] # c
        /\ Here(c) \in WithLk => owner["lk"] = c
        /\ Here(c) \in WithPtable => owner["ptable"] = c
        /\ Here(c) \in WithLk \cup WithPtable => ncli[c] > 0 /\ ~ief[c]
        /\ Here(c) \in {"sleep_sched", "yield_sched"} => ncli[c] = 1

\* Threads and CPUs: a CPU in a thread is at the slot that its scheduler chose,
\* and a thread that no CPU executes is inside swtch, with ptable.lock handed on.
RunInv ==
    /\ OneCPU
    /\ \A c \in CPU : IF spc[c] = "proc" THEN run[c] = scan[c] /\ scan[c] \in Proc
                      ELSE run[c] = None
    /\ \A p \in Proc :
          /\ state[p] # "RUNNING" => pc[p] \in {"forkret", "slept", "yielded"}
          /\ state[p] = "SLEEPING" => pc[p] = "slept" /\ chan[p] = "lk"

\* Each spin lock is held by the CPU whose place says so.
LockInv ==
    \A c \in CPU : /\ owner["lk"] = c <=> Here(c) \in WithLk
                   /\ owner["ptable"] = c <=> Here(c) \in WithPtable

\* The nesting of pushcli, the interrupt flag and the flag to be restored.
CliInv ==
    /\ \A c \in CPU :
          /\ ncli[c] = IF Here(c) \in Twice THEN 2
                       ELSE IF Here(c) \in Once THEN 1 ELSE 0
          /\ Here(c) \in Twice \cup Once => ~ief[c]
          /\ Here(c) \in {"out", "in", "reacquire", "acquire"} => ief[c]
          /\ Here(c) \in Interrupted => intena[c]
    /\ \A p \in Proc : pc[p] = "slept" => kintena[p]

\* Whoever is on its way to sleep has seen the lock taken, and its holder has
\* not passed wakeup1.
SleepInv ==
    \A p \in Proc :
        /\ pc[p] \in {"sleep", "sleep_release"} => locked
        /\ pc[p] = "sleep_sched" \/ state[p] = "SLEEPING" =>
              locked \/ \E q \in Proc : pc[q] \in {"wakeup", "wakeup1"}

Inv == TypeOK /\ RunInv /\ LockInv /\ CliInv /\ Exclusive /\ SleepInv

\* Threads, CPUs, spin locks and interrupt flags are consistent, and no CPU
\* reaches a panic of spinlock.c or sched.
Sane == Inv /\ NoPanic

\* The scheduler passes over no RUNNABLE process for ever.
RunnableRuns ==
    \A p \in Proc : state[p] = "RUNNABLE" ~> state[p] = "RUNNING"

\* Whoever sleeps on the lock is woken, by releasesleep.
SleeperWoken ==
    \A p \in Proc : state[p] = "SLEEPING" ~> state[p] # "SLEEPING"
=============================================================================
