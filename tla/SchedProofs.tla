---------------------------- MODULE SchedProofs ----------------------------
(***************************************************************************)
(* The invariant of Sched, for any number of CPUs and processes: what the  *)
(* steps do to the CPUs, the spin locks and the sleep lock, and the        *)
(* theorems.  Every step lemma has one step per action of Next.            *)
(***************************************************************************)
EXTENDS Sched, TLAPS

\* A leaf that names no prover is tried with SMT, then with Zenon.
USE SMTT(30), ZenonT(30)

\* A step that takes CPU c from place l to place m and moves no other CPU.
Moves(c, l, m) ==
    /\ Here(c) = l
    /\ Here(c)' = m
    /\ \A d \in CPU \ {c} : Here(d)' = Here(d)

\* From where to where each step takes its CPU.
LEMMA Steps ==
  ASSUME TypeOK, RunInv, NEW c \in CPU
  PROVE  /\ \A p \in Proc :
               /\ acquiresleep(c, p) => Moves(c, "out", "acquiresleep")
               /\ kill(c, p) => Moves(c, "out", "kill")
               /\ yield(c, p) => Moves(c, pc[p], "yield")
               /\ Xchg(c, p) => Moves(c, pc[p], Spin[pc[p]].next)
               /\ releasesleep(c, p) => Moves(c, "in", "releasesleep")
               /\ Reacquire(c, p) => Moves(c, "reacquire", "acquiresleep")
               /\ Take(c, p) => Moves(c, "test", "take_release")
               /\ TakeRelease(c, p) => Moves(c, "take_release", "in")
               /\ sleep(c, p) => Moves(c, "test", "sleep")
               /\ SleepRelease(c, p) => Moves(c, "sleep_release", "sleep_sched")
               /\ SleepSched(c, p) => Moves(c, "sleep_sched", "loop")
               /\ Slept(c, p) => Moves(c, "slept", "reacquire")
               /\ Clear(c, p) => Moves(c, "clear", "wakeup")
               /\ wakeup1(c, p) => Moves(c, "wakeup1", "release")
               /\ Release(c, p) => Moves(c, "release", "out")
               /\ (\E q \in Proc : Mark(c, p, q)) => Moves(c, "mark", "out")
               /\ YieldSched(c, p) => Moves(c, "yield_sched", "loop")
               /\ Yielded(c, p) => Moves(c, "yielded", intr[p])
               /\ forkret(c, p) => Moves(c, "forkret", "out")
         /\ Sti(c) => Moves(c, "sti", "acquire")
         /\ SchedPushcli(c) => Moves(c, "acquire", "spin")
         /\ Skip(c) => Moves(c, "loop", "loop")
         /\ Switch(c) => Moves(c, "loop", pc[scan[c]])
         /\ EndLoop(c) => Moves(c, "loop", "sti")
         /\ SchedXchg(c) => Moves(c, "spin", "loop")
<1>1. /\ pc \in [Proc -> Place] /\ run \in [CPU -> Proc \cup {None}]
      /\ spc \in [CPU -> {"sti", "acquire", "spin", "loop", "proc"}]
  BY DEF TypeOK
<1>2. ASSUME NEW p \in Proc, NEW l, NEW m, At(c, p, l),
             pc' = [pc EXCEPT ![p] = m], UNCHANGED <<run, spc>>
      PROVE  Moves(c, l, m)
  BY <1>1, <1>2, NoneAssumption DEF At, Moves, Here, RunInv, OneCPU
<1>3. ASSUME NEW p \in Proc, NEW l, NEW m, NEW r, At(c, p, l), sched(c, p, r, m)
      PROVE  Moves(c, l, "loop")
  BY <1>1, <1>3, NoneAssumption DEF At, sched, Moves, Here, RunInv, OneCPU
<1>4. ASSUME NEW p \in Proc, acquiresleep(c, p)
      PROVE  Moves(c, "out", "acquiresleep")
  BY <1>4, <1>2, ZenonT(30) DEF acquiresleep, Call
<1>5. ASSUME NEW p \in Proc, kill(c, p)
      PROVE  Moves(c, "out", "kill")
  BY <1>5, <1>2, ZenonT(30) DEF kill, Call
<1>6. ASSUME NEW p \in Proc, yield(c, p)
      PROVE  Moves(c, pc[p], "yield")
  BY <1>6, <1>2, ZenonT(30) DEF yield
<1>7. ASSUME NEW p \in Proc, Xchg(c, p)
      PROVE  Moves(c, pc[p], Spin[pc[p]].next)
  BY <1>7, <1>2, ZenonT(30) DEF Xchg, cpuvars
<1>8. ASSUME NEW p \in Proc, releasesleep(c, p)
      PROVE  Moves(c, "in", "releasesleep")
  BY <1>8, <1>2, ZenonT(30) DEF releasesleep, Call
<1>9. ASSUME NEW p \in Proc, Reacquire(c, p)
      PROVE  Moves(c, "reacquire", "acquiresleep")
  BY <1>9, <1>2, ZenonT(30) DEF Reacquire, Call
<1>10. ASSUME NEW p \in Proc, Take(c, p)
       PROVE  Moves(c, "test", "take_release")
  BY <1>10, <1>2, ZenonT(30) DEF Take, cpuvars
<1>11. ASSUME NEW p \in Proc, TakeRelease(c, p)
       PROVE  Moves(c, "take_release", "in")
  BY <1>11, <1>2, ZenonT(30) DEF TakeRelease
<1>12. ASSUME NEW p \in Proc, sleep(c, p)
       PROVE  Moves(c, "test", "sleep")
  BY <1>12, <1>2, ZenonT(30) DEF sleep, Call
<1>13. ASSUME NEW p \in Proc, SleepRelease(c, p)
       PROVE  Moves(c, "sleep_release", "sleep_sched")
  BY <1>13, <1>2, ZenonT(30) DEF SleepRelease
<1>14. ASSUME NEW p \in Proc, SleepSched(c, p)
       PROVE  Moves(c, "sleep_sched", "loop")
  BY <1>14, <1>3, ZenonT(30) DEF SleepSched
<1>15. ASSUME NEW p \in Proc, Slept(c, p)
       PROVE  Moves(c, "slept", "reacquire")
  BY <1>15, <1>2, ZenonT(30) DEF Slept
<1>16. ASSUME NEW p \in Proc, Clear(c, p)
       PROVE  Moves(c, "clear", "wakeup")
  BY <1>16, <1>2, ZenonT(30) DEF Clear, Call
<1>17. ASSUME NEW p \in Proc, wakeup1(c, p)
       PROVE  Moves(c, "wakeup1", "release")
  BY <1>17, <1>2, ZenonT(30) DEF wakeup1
<1>18. ASSUME NEW p \in Proc, Release(c, p)
       PROVE  Moves(c, "release", "out")
  BY <1>18, <1>2, ZenonT(30) DEF Release
<1>19. ASSUME NEW p \in Proc, (\E q \in Proc : Mark(c, p, q))
       PROVE  Moves(c, "mark", "out")
  BY <1>19, <1>2, ZenonT(30) DEF Mark
<1>20. ASSUME NEW p \in Proc, YieldSched(c, p)
       PROVE  Moves(c, "yield_sched", "loop")
  BY <1>20, <1>3, ZenonT(30) DEF YieldSched
<1>21. ASSUME NEW p \in Proc, Yielded(c, p)
       PROVE  Moves(c, "yielded", intr[p])
  BY <1>21, <1>2, ZenonT(30) DEF Yielded
<1>22. ASSUME NEW p \in Proc, forkret(c, p)
       PROVE  Moves(c, "forkret", "out")
  BY <1>22, <1>2, ZenonT(30) DEF forkret
<1>23. Sti(c) => Moves(c, "sti", "acquire")
  BY <1>1, NoneAssumption DEF Sti, procvars, Moves, Here, RunInv
<1>24. SchedPushcli(c) => Moves(c, "acquire", "spin")
  BY <1>1, NoneAssumption DEF SchedPushcli, procvars, Moves, Here, RunInv
<1>25. Skip(c) => Moves(c, "loop", "loop")
  BY <1>1, NoneAssumption DEF Skip, procvars, Moves, Here, RunInv
<1>26. Switch(c) => Moves(c, "loop", pc[scan[c]])
  BY <1>1, NoneAssumption DEF Switch, procvars, Moves, Here, RunInv
<1>27. EndLoop(c) => Moves(c, "loop", "sti")
  BY <1>1, NoneAssumption DEF EndLoop, procvars, Moves, Here, RunInv
<1>28. SchedXchg(c) => Moves(c, "spin", "loop")
  BY <1>1, NoneAssumption DEF SchedXchg, procvars, Moves, Here, RunInv
<1> QED
  BY <1>4, <1>5, <1>6, <1>7, <1>8, <1>9, <1>10, <1>11, <1>12, <1>13, <1>14,
     <1>15, <1>16, <1>17, <1>18, <1>19, <1>20, <1>21, <1>22, <1>23, <1>24,
     <1>25, <1>26, <1>27, <1>28

\* Interrupts are on only outside all spin locks.
LEMMA OnWhere ==
  ASSUME TypeOK, CliInv, NEW c \in CPU, NEW p \in Proc, yield(c, p)
  PROVE  pc[p] \in {"out", "in", "reacquire"}
<1>1. pc[p] \in Place
  BY DEF TypeOK
<1>2. Here(c) = pc[p] /\ Here(c) \notin Twice \cup Once
  BY DEF yield, At, Here, CliInv
<1> QED
  BY <1>1, <1>2 DEF Place, Spin, Twice, Once

\* The scheduler chooses a thread that is inside swtch or was never run.
LEMMA Chosen ==
  ASSUME TypeOK, RunInv, NEW c \in CPU, Switch(c)
  PROVE  /\ scan[c] \in Proc
         /\ pc[scan[c]] \in {"forkret", "slept", "yielded"}
<1>1. scan[c] \in Proc
  BY ProcAssumption DEF TypeOK, Switch, Proc
<1> QED
  BY <1>1 DEF Switch, RunInv

\* What acquire needs to know of its callers.
LEMMA Spinning ==
  ASSUME NEW l \in DOMAIN Spin
  PROVE  LET m == Spin[l].next IN
         /\ m \in Place /\ Spin[l].lock \in {"lk", "ptable"}
         /\ l \in Twice <=> m \in Twice
         /\ l \in Once <=> m \in Once
         /\ m \in Interrupted => l \in Interrupted
         /\ m \notin {"out", "in", "reacquire", "acquire", "slept",
                      "sleep_sched", "sleep"}
         /\ m = "sleep_release" => l = "sleep"
         /\ l \in {"wakeup", "wakeup1"} => m = "wakeup1"
BY DEF Spin, Place, Twice, Once, Interrupted

\* acquire, release and the hand-over by swtch.
LEMMA LockStep ==
  ASSUME TypeOK, RunInv, CliInv, LockInv, [Next]_vars
  PROVE  LockInv'
<1>a. owner \in [{"lk", "ptable"} -> CPU \cup {None}]
  BY DEF TypeOK
<1> USE <1>a, NoneAssumption
<1> USE DEF lockvars, cpuvars, procvars, LockInv, WithLk, WithPtable
<1>1. ASSUME NEW c \in CPU, NEW p \in Proc, acquiresleep(c, p)
      PROVE  LockInv'
  <2>1. Moves(c, "out", "acquiresleep")
    BY <1>1, Steps, ZenonT(30)
  <2> QED
    BY <1>1, <2>1 DEF Moves, acquiresleep, Call, pushcli
<1>2. ASSUME NEW c \in CPU, NEW p \in Proc, kill(c, p)
      PROVE  LockInv'
  <2>1. Moves(c, "out", "kill")
    BY <1>2, Steps, ZenonT(30)
  <2> QED
    BY <1>2, <2>1 DEF Moves, kill, Call, pushcli
<1>3. ASSUME NEW c \in CPU, NEW p \in Proc, yield(c, p)
      PROVE  LockInv'
  <2>1. Moves(c, pc[p], "yield") /\ pc[p] \in {"out", "in", "reacquire"}
    BY <1>3, Steps, OnWhere, ZenonT(30)
  <2> QED
    BY <1>3, <2>1 DEF Moves, yield, lockvars
<1>4. ASSUME NEW c \in CPU, NEW p \in Proc, Xchg(c, p)
      PROVE  LockInv'
  <2>1. Moves(c, pc[p], Spin[pc[p]].next)
    BY <1>4, Steps, ZenonT(30)
  <2>2. /\ pc[p] \in DOMAIN Spin /\ owner[Spin[pc[p]].lock] = None
        /\ owner' = [owner EXCEPT ![Spin[pc[p]].lock] = c]
    BY <1>4 DEF Xchg
  <2> QED
    BY <2>1, <2>2 DEF Moves, Spin
<1>5. ASSUME NEW c \in CPU, NEW p \in Proc, releasesleep(c, p)
      PROVE  LockInv'
  <2>1. Moves(c, "in", "releasesleep")
    BY <1>5, Steps, ZenonT(30)
  <2> QED
    BY <1>5, <2>1 DEF Moves, releasesleep, Call, pushcli
<1>6. ASSUME NEW c \in CPU, NEW p \in Proc, Reacquire(c, p)
      PROVE  LockInv'
  <2>1. Moves(c, "reacquire", "acquiresleep")
    BY <1>6, Steps, ZenonT(30)
  <2> QED
    BY <1>6, <2>1 DEF Moves, Reacquire, Call, pushcli
<1>7. ASSUME NEW c \in CPU, NEW p \in Proc, Take(c, p)
      PROVE  LockInv'
  <2>1. Moves(c, "test", "take_release")
    BY <1>7, Steps, ZenonT(30)
  <2> QED
    BY <1>7, <2>1 DEF Moves, Take
<1>8. ASSUME NEW c \in CPU, NEW p \in Proc, TakeRelease(c, p)
      PROVE  LockInv'
  <2>1. Moves(c, "take_release", "in")
    BY <1>8, Steps, ZenonT(30)
  <2> QED
    BY <1>8, <2>1 DEF Moves, TakeRelease, release, popcli
<1>9. ASSUME NEW c \in CPU, NEW p \in Proc, sleep(c, p)
      PROVE  LockInv'
  <2>1. Moves(c, "test", "sleep")
    BY <1>9, Steps, ZenonT(30)
  <2> QED
    BY <1>9, <2>1 DEF Moves, sleep, Call, pushcli
<1>10. ASSUME NEW c \in CPU, NEW p \in Proc, SleepRelease(c, p)
      PROVE  LockInv'
  <2>1. Moves(c, "sleep_release", "sleep_sched")
    BY <1>10, Steps, ZenonT(30)
  <2> QED
    BY <1>10, <2>1 DEF Moves, SleepRelease, release, popcli
<1>11. ASSUME NEW c \in CPU, NEW p \in Proc, SleepSched(c, p)
      PROVE  LockInv'
  <2>1. Moves(c, "sleep_sched", "loop")
    BY <1>11, Steps, ZenonT(30)
  <2> QED
    BY <1>11, <2>1 DEF Moves, SleepSched, sched
<1>12. ASSUME NEW c \in CPU, NEW p \in Proc, Slept(c, p)
      PROVE  LockInv'
  <2>1. Moves(c, "slept", "reacquire")
    BY <1>12, Steps, ZenonT(30)
  <2> QED
    BY <1>12, <2>1 DEF Moves, Slept, release, popcli
<1>13. ASSUME NEW c \in CPU, NEW p \in Proc, Clear(c, p)
      PROVE  LockInv'
  <2>1. Moves(c, "clear", "wakeup")
    BY <1>13, Steps, ZenonT(30)
  <2> QED
    BY <1>13, <2>1 DEF Moves, Clear, Call, pushcli
<1>14. ASSUME NEW c \in CPU, NEW p \in Proc, wakeup1(c, p)
      PROVE  LockInv'
  <2>1. Moves(c, "wakeup1", "release")
    BY <1>14, Steps, ZenonT(30)
  <2> QED
    BY <1>14, <2>1 DEF Moves, wakeup1, release, popcli
<1>15. ASSUME NEW c \in CPU, NEW p \in Proc, Release(c, p)
      PROVE  LockInv'
  <2>1. Moves(c, "release", "out")
    BY <1>15, Steps, ZenonT(30)
  <2> QED
    BY <1>15, <2>1 DEF Moves, Release, release, popcli
<1>16. ASSUME NEW c \in CPU, NEW p \in Proc, NEW q \in Proc, Mark(c, p, q)
      PROVE  LockInv'
  <2>1. Moves(c, "mark", "out")
    BY <1>16, Steps, ZenonT(30)
  <2> QED
    BY <1>16, <2>1 DEF Moves, Mark, release, popcli
<1>17. ASSUME NEW c \in CPU, NEW p \in Proc, YieldSched(c, p)
      PROVE  LockInv'
  <2>1. Moves(c, "yield_sched", "loop")
    BY <1>17, Steps, ZenonT(30)
  <2> QED
    BY <1>17, <2>1 DEF Moves, YieldSched, sched
<1>18. ASSUME NEW c \in CPU, NEW p \in Proc, Yielded(c, p)
      PROVE  LockInv'
  <2>1. Moves(c, "yielded", intr[p]) /\ intr[p] \in {"out", "in", "reacquire"}
    BY <1>18, Steps DEF TypeOK
  <2> QED
    BY <1>18, <2>1 DEF Moves, Yielded, release
<1>19. ASSUME NEW c \in CPU, NEW p \in Proc, forkret(c, p)
      PROVE  LockInv'
  <2>1. Moves(c, "forkret", "out")
    BY <1>19, Steps, ZenonT(30)
  <2> QED
    BY <1>19, <2>1 DEF Moves, forkret, release
<1>20. ASSUME NEW c \in CPU, Sti(c)
      PROVE  LockInv'
  <2>1. Moves(c, "sti", "acquire")
    BY <1>20, Steps, ZenonT(30)
  <2> QED
    BY <1>20, <2>1 DEF Moves, Sti
<1>21. ASSUME NEW c \in CPU, SchedPushcli(c)
      PROVE  LockInv'
  <2>1. Moves(c, "acquire", "spin")
    BY <1>21, Steps, ZenonT(30)
  <2> QED
    BY <1>21, <2>1 DEF Moves, SchedPushcli, pushcli
<1>22. ASSUME NEW c \in CPU, Skip(c)
      PROVE  LockInv'
  <2>1. Moves(c, "loop", "loop")
    BY <1>22, Steps, ZenonT(30)
  <2> QED
    BY <1>22, <2>1 DEF Moves, Skip
<1>23. ASSUME NEW c \in CPU, Switch(c)
      PROVE  LockInv'
  <2>1. /\ Moves(c, "loop", pc[scan[c]])
        /\ pc[scan[c]] \in {"forkret", "slept", "yielded"}
    BY <1>23, Steps, Chosen, ZenonT(30)
  <2> QED
    BY <1>23, <2>1 DEF Moves, Switch, lockvars
<1>24. ASSUME NEW c \in CPU, EndLoop(c)
      PROVE  LockInv'
  <2>1. Moves(c, "loop", "sti")
    BY <1>24, Steps, ZenonT(30)
  <2> QED
    BY <1>24, <2>1 DEF Moves, EndLoop, release, popcli
<1>25. ASSUME NEW c \in CPU, SchedXchg(c)
      PROVE  LockInv'
  <2>1. Moves(c, "spin", "loop")
    BY <1>25, Steps, ZenonT(30)
  <2> QED
    BY <1>25, <2>1 DEF Moves, SchedXchg
<1>26. CASE UNCHANGED vars
  BY <1>26 DEF vars, Here
<1> QED
  BY <1>1, <1>2, <1>3, <1>4, <1>5, <1>6, <1>7, <1>8, <1>9, <1>10, <1>11,
     <1>12, <1>13, <1>14, <1>15, <1>16, <1>17, <1>18, <1>19, <1>20, <1>21,
     <1>22, <1>23, <1>24, <1>25, <1>26, ZenonT(60) DEF Next, Thread, scheduler

\* pushcli and popcli nest, and sched carries intena from CPU to CPU.
LEMMA CliStep ==
  ASSUME TypeOK, RunInv, CliInv, [Next]_vars
  PROVE  CliInv'
<1>a. /\ ncli \in [CPU -> 0 .. 2] /\ ief \in [CPU -> BOOLEAN]
      /\ intena \in [CPU -> BOOLEAN] /\ kintena \in [Proc -> BOOLEAN]
      /\ pc \in [Proc -> Place]
  BY DEF TypeOK
<1> USE <1>a
<1> USE DEF lockvars, cpuvars, procvars, CliInv, Twice, Once, Interrupted
<1>1. ASSUME NEW c \in CPU, NEW p \in Proc, acquiresleep(c, p)
      PROVE  CliInv'
  <2>1. Moves(c, "out", "acquiresleep")
    BY <1>1, Steps, ZenonT(30)
  <2> QED
    BY <1>1, <2>1 DEF Moves, acquiresleep, Call, pushcli
<1>2. ASSUME NEW c \in CPU, NEW p \in Proc, kill(c, p)
      PROVE  CliInv'
  <2>1. Moves(c, "out", "kill")
    BY <1>2, Steps, ZenonT(30)
  <2> QED
    BY <1>2, <2>1 DEF Moves, kill, Call, pushcli
<1>3. ASSUME NEW c \in CPU, NEW p \in Proc, yield(c, p)
      PROVE  CliInv'
  <2>1. Moves(c, pc[p], "yield") /\ pc[p] \in {"out", "in", "reacquire"}
    BY <1>3, Steps, OnWhere, ZenonT(30)
  <2> QED
    BY <1>3, <2>1 DEF Moves, yield
<1>4. ASSUME NEW c \in CPU, NEW p \in Proc, Xchg(c, p)
      PROVE  CliInv'
  <2>1. Moves(c, pc[p], Spin[pc[p]].next)
    BY <1>4, Steps, ZenonT(30)
  <2>2. /\ pc[p] \in DOMAIN Spin /\ pc' = [pc EXCEPT ![p] = Spin[pc[p]].next]
        /\ UNCHANGED <<ncli, ief, intena, kintena>>
    BY <1>4 DEF Xchg
  <2>3. Spin[pc[p]].next # "slept"
    BY <2>2, Spinning
  <2>4. \A q \in Proc : pc'[q] = "slept" => kintena'[q]
    BY <2>2, <2>3
  <2> QED
    BY <2>1, <2>2, <2>4, Spinning DEF Moves
<1>5. ASSUME NEW c \in CPU, NEW p \in Proc, releasesleep(c, p)
      PROVE  CliInv'
  <2>1. Moves(c, "in", "releasesleep")
    BY <1>5, Steps, ZenonT(30)
  <2> QED
    BY <1>5, <2>1 DEF Moves, releasesleep, Call, pushcli
<1>6. ASSUME NEW c \in CPU, NEW p \in Proc, Reacquire(c, p)
      PROVE  CliInv'
  <2>1. Moves(c, "reacquire", "acquiresleep")
    BY <1>6, Steps, ZenonT(30)
  <2> QED
    BY <1>6, <2>1 DEF Moves, Reacquire, Call, pushcli
<1>7. ASSUME NEW c \in CPU, NEW p \in Proc, Take(c, p)
      PROVE  CliInv'
  <2>1. Moves(c, "test", "take_release")
    BY <1>7, Steps, ZenonT(30)
  <2> QED
    BY <1>7, <2>1 DEF Moves, Take
<1>8. ASSUME NEW c \in CPU, NEW p \in Proc, TakeRelease(c, p)
      PROVE  CliInv'
  <2>1. Moves(c, "take_release", "in")
    BY <1>8, Steps, ZenonT(30)
  <2> QED
    BY <1>8, <2>1 DEF Moves, TakeRelease, release, popcli
<1>9. ASSUME NEW c \in CPU, NEW p \in Proc, sleep(c, p)
      PROVE  CliInv'
  <2>1. Moves(c, "test", "sleep")
    BY <1>9, Steps, ZenonT(30)
  <2> QED
    BY <1>9, <2>1 DEF Moves, sleep, Call, pushcli
<1>10. ASSUME NEW c \in CPU, NEW p \in Proc, SleepRelease(c, p)
      PROVE  CliInv'
  <2>1. Moves(c, "sleep_release", "sleep_sched")
    BY <1>10, Steps, ZenonT(30)
  <2> QED
    BY <1>10, <2>1 DEF Moves, SleepRelease, release, popcli
<1>11. ASSUME NEW c \in CPU, NEW p \in Proc, SleepSched(c, p)
      PROVE  CliInv'
  <2>1. Moves(c, "sleep_sched", "loop")
    BY <1>11, Steps, ZenonT(30)
  <2> QED
    BY <1>11, <2>1 DEF Moves, SleepSched, sched
<1>12. ASSUME NEW c \in CPU, NEW p \in Proc, Slept(c, p)
      PROVE  CliInv'
  <2>1. Moves(c, "slept", "reacquire")
    BY <1>12, Steps, ZenonT(30)
  <2>2. ncli[c] = 1 /\ kintena[p]
    BY <1>12, <2>1 DEF Moves, Slept, At
  <2>3. ief' = [ief EXCEPT ![c] = TRUE]
    BY <1>12, <2>2, ZenonT(30) DEF Slept, popcli
  <2>4. /\ UNCHANGED kintena /\ pc' = [pc EXCEPT ![p] = "reacquire"]
        /\ ncli' = [ncli EXCEPT ![c] = ncli[c] - 1]
    BY <1>12 DEF Slept, popcli
  <2>5. intena' = [intena EXCEPT ![c] = kintena[p]]
    BY <1>12 DEF Slept, popcli
  <2> QED
    BY <2>1, <2>2, <2>3, <2>4, <2>5 DEF Moves
<1>13. ASSUME NEW c \in CPU, NEW p \in Proc, Clear(c, p)
      PROVE  CliInv'
  <2>1. Moves(c, "clear", "wakeup")
    BY <1>13, Steps, ZenonT(30)
  <2> QED
    BY <1>13, <2>1 DEF Moves, Clear, Call, pushcli
<1>14. ASSUME NEW c \in CPU, NEW p \in Proc, wakeup1(c, p)
      PROVE  CliInv'
  <2>1. Moves(c, "wakeup1", "release")
    BY <1>14, Steps, ZenonT(30)
  <2> QED
    BY <1>14, <2>1 DEF Moves, wakeup1, release, popcli
<1>15. ASSUME NEW c \in CPU, NEW p \in Proc, Release(c, p)
      PROVE  CliInv'
  <2>1. Moves(c, "release", "out")
    BY <1>15, Steps, ZenonT(30)
  <2> QED
    BY <1>15, <2>1 DEF Moves, Release, release, popcli
<1>16. ASSUME NEW c \in CPU, NEW p \in Proc, NEW q \in Proc, Mark(c, p, q)
      PROVE  CliInv'
  <2>1. Moves(c, "mark", "out")
    BY <1>16, Steps, ZenonT(30)
  <2> QED
    BY <1>16, <2>1 DEF Moves, Mark, release, popcli
<1>17. ASSUME NEW c \in CPU, NEW p \in Proc, YieldSched(c, p)
      PROVE  CliInv'
  <2>1. Moves(c, "yield_sched", "loop")
    BY <1>17, Steps, ZenonT(30)
  <2> QED
    BY <1>17, <2>1 DEF Moves, YieldSched, sched
<1>18. ASSUME NEW c \in CPU, NEW p \in Proc, Yielded(c, p)
      PROVE  CliInv'
  <2>1. Moves(c, "yielded", intr[p]) /\ intr[p] \in {"out", "in", "reacquire"}
    BY <1>18, Steps DEF TypeOK
  <2> QED
    BY <1>18, <2>1 DEF Moves, Yielded
<1>19. ASSUME NEW c \in CPU, NEW p \in Proc, forkret(c, p)
      PROVE  CliInv'
  <2>1. Moves(c, "forkret", "out")
    BY <1>19, Steps, ZenonT(30)
  <2> QED
    BY <1>19, <2>1 DEF Moves, forkret, release
<1>20. ASSUME NEW c \in CPU, Sti(c)
      PROVE  CliInv'
  <2>1. Moves(c, "sti", "acquire")
    BY <1>20, Steps, ZenonT(30)
  <2> QED
    BY <1>20, <2>1 DEF Moves, Sti
<1>21. ASSUME NEW c \in CPU, SchedPushcli(c)
      PROVE  CliInv'
  <2>1. Moves(c, "acquire", "spin")
    BY <1>21, Steps, ZenonT(30)
  <2> QED
    BY <1>21, <2>1 DEF Moves, SchedPushcli, pushcli
<1>22. ASSUME NEW c \in CPU, Skip(c)
      PROVE  CliInv'
  <2>1. Moves(c, "loop", "loop")
    BY <1>22, Steps, ZenonT(30)
  <2> QED
    BY <1>22, <2>1 DEF Moves, Skip
<1>23. ASSUME NEW c \in CPU, Switch(c)
      PROVE  CliInv'
  <2>1. /\ Moves(c, "loop", pc[scan[c]])
        /\ pc[scan[c]] \in {"forkret", "slept", "yielded"}
    BY <1>23, Steps, Chosen, ZenonT(30)
  <2> QED
    BY <1>23, <2>1 DEF Moves, Switch
<1>24. ASSUME NEW c \in CPU, EndLoop(c)
      PROVE  CliInv'
  <2>1. Moves(c, "loop", "sti")
    BY <1>24, Steps, ZenonT(30)
  <2> QED
    BY <1>24, <2>1 DEF Moves, EndLoop, release, popcli
<1>25. ASSUME NEW c \in CPU, SchedXchg(c)
      PROVE  CliInv'
  <2>1. Moves(c, "spin", "loop")
    BY <1>25, Steps, ZenonT(30)
  <2> QED
    BY <1>25, <2>1 DEF Moves, SchedXchg
<1>26. CASE UNCHANGED vars
  <2>1. UNCHANGED <<ncli, ief, intena, kintena, pc>>
    BY <1>26 DEF vars
  <2>2. \A c \in CPU : Here(c)' = Here(c)
    BY <1>26 DEF vars, Here
  <2> QED
    BY <2>1, <2>2
<1> QED
  BY <1>1, <1>2, <1>3, <1>4, <1>5, <1>6, <1>7, <1>8, <1>9, <1>10, <1>11,
     <1>12, <1>13, <1>14, <1>15, <1>16, <1>17, <1>18, <1>19, <1>20, <1>21,
     <1>22, <1>23, <1>24, <1>25, <1>26, ZenonT(60) DEF Next, Thread, scheduler

\* swtch in both directions.
LEMMA RunStep ==
  ASSUME TypeOK, RunInv, CliInv, [Next]_vars
  PROVE  RunInv'
<1>a. /\ state \in [Proc -> {"RUNNABLE", "RUNNING", "SLEEPING"}]
      /\ chan \in [Proc -> {"lk", None}] /\ pc \in [Proc -> Place]
      /\ run \in [CPU -> Proc \cup {None}] /\ scan \in [CPU -> 1 .. NPROC + 1]
      /\ spc \in [CPU -> {"sti", "acquire", "spin", "loop", "proc"}]
  BY DEF TypeOK
<1> USE <1>a, NoneAssumption
<1> USE DEF lockvars, cpuvars, procvars, RunInv, OneCPU
<1>1. ASSUME NEW c \in CPU, NEW p \in Proc, acquiresleep(c, p)
      PROVE  RunInv'
  BY <1>1 DEF acquiresleep, Call, pushcli, At
<1>2. ASSUME NEW c \in CPU, NEW p \in Proc, kill(c, p)
      PROVE  RunInv'
  BY <1>2 DEF kill, Call, pushcli, At
<1>3. ASSUME NEW c \in CPU, NEW p \in Proc, yield(c, p)
      PROVE  RunInv'
  BY <1>3 DEF yield, At
<1>4. ASSUME NEW c \in CPU, NEW p \in Proc, Xchg(c, p)
      PROVE  RunInv'
  <2>1. /\ run[c] = p /\ pc' = [pc EXCEPT ![p] = Spin[pc[p]].next]
        /\ UNCHANGED <<state, chan, run, spc, scan>>
    BY <1>4 DEF Xchg, At
  <2>2. state[p] = "RUNNING"
    BY <2>1
  <2> QED
    BY <2>1, <2>2
<1>5. ASSUME NEW c \in CPU, NEW p \in Proc, releasesleep(c, p)
      PROVE  RunInv'
  BY <1>5 DEF releasesleep, Call, pushcli, At
<1>6. ASSUME NEW c \in CPU, NEW p \in Proc, Reacquire(c, p)
      PROVE  RunInv'
  BY <1>6 DEF Reacquire, Call, pushcli, At
<1>7. ASSUME NEW c \in CPU, NEW p \in Proc, Take(c, p)
      PROVE  RunInv'
  BY <1>7 DEF Take, At
<1>8. ASSUME NEW c \in CPU, NEW p \in Proc, TakeRelease(c, p)
      PROVE  RunInv'
  BY <1>8 DEF TakeRelease, release, popcli, At
<1>9. ASSUME NEW c \in CPU, NEW p \in Proc, sleep(c, p)
      PROVE  RunInv'
  BY <1>9 DEF sleep, Call, pushcli, At
<1>10. ASSUME NEW c \in CPU, NEW p \in Proc, SleepRelease(c, p)
      PROVE  RunInv'
  BY <1>10 DEF SleepRelease, release, popcli, At
<1>11. ASSUME NEW c \in CPU, NEW p \in Proc, SleepSched(c, p)
      PROVE  RunInv'
  BY <1>11 DEF SleepSched, sched, At
<1>12. ASSUME NEW c \in CPU, NEW p \in Proc, Slept(c, p)
      PROVE  RunInv'
  BY <1>12 DEF Slept, release, popcli, At
<1>13. ASSUME NEW c \in CPU, NEW p \in Proc, Clear(c, p)
      PROVE  RunInv'
  BY <1>13 DEF Clear, Call, pushcli, At
<1>14. ASSUME NEW c \in CPU, NEW p \in Proc, wakeup1(c, p)
      PROVE  RunInv'
  BY <1>14 DEF wakeup1, release, popcli, At
<1>15. ASSUME NEW c \in CPU, NEW p \in Proc, Release(c, p)
      PROVE  RunInv'
  BY <1>15 DEF Release, release, popcli, At
<1>16. ASSUME NEW c \in CPU, NEW p \in Proc, NEW q \in Proc, Mark(c, p, q)
      PROVE  RunInv'
  BY <1>16 DEF Mark, release, popcli, At
<1>17. ASSUME NEW c \in CPU, NEW p \in Proc, YieldSched(c, p)
      PROVE  RunInv'
  BY <1>17 DEF YieldSched, sched, At
<1>18. ASSUME NEW c \in CPU, NEW p \in Proc, Yielded(c, p)
      PROVE  RunInv'
  BY <1>18 DEF Yielded, release, At
<1>19. ASSUME NEW c \in CPU, NEW p \in Proc, forkret(c, p)
      PROVE  RunInv'
  BY <1>19 DEF forkret, release, At
<1>20. ASSUME NEW c \in CPU, Sti(c)
      PROVE  RunInv'
  BY <1>20 DEF Sti
<1>21. ASSUME NEW c \in CPU, SchedPushcli(c)
      PROVE  RunInv'
  BY <1>21 DEF SchedPushcli, pushcli
<1>22. ASSUME NEW c \in CPU, Skip(c)
      PROVE  RunInv'
  BY <1>22 DEF Skip
<1>23. ASSUME NEW c \in CPU, Switch(c)
      PROVE  RunInv'
  <2> DEFINE q == scan[c]
  <2>1. /\ q \in Proc /\ state[q] = "RUNNABLE" /\ spc[c] = "loop"
        /\ run' = [run EXCEPT ![c] = q] /\ spc' = [spc EXCEPT ![c] = "proc"]
        /\ state' = [state EXCEPT ![q] = "RUNNING"]
        /\ UNCHANGED <<chan, pc, scan>>
    BY <1>23, Chosen, ZenonT(30) DEF Switch
  <2>2. run[c] = None /\ \A d \in CPU : run[d] # q
    BY <2>1
  <2> HIDE DEF q
  <2>3. OneCPU'
    <3>1. \A p \in Proc : state'[p] = "RUNNING" <=> \E d \in CPU : run'[d] = p
      BY <2>1, <2>2
    <3>2. \A d, e \in CPU : run'[d] = run'[e] /\ run'[d] # None => d = e
      BY <2>1, <2>2
    <3> QED
      BY <3>1, <3>2
  <2>4. \A d \in CPU : IF spc'[d] = "proc"
                       THEN run'[d] = scan'[d] /\ scan'[d] \in Proc
                       ELSE run'[d] = None
    BY <2>1, <2>2 DEF q
  <2>5. \A p \in Proc :
         /\ state'[p] # "RUNNING" => pc'[p] \in {"forkret", "slept", "yielded"}
         /\ state'[p] = "SLEEPING" => pc'[p] = "slept" /\ chan'[p] = "lk"
    BY <2>1
  <2> QED
    BY <2>3, <2>4, <2>5
<1>24. ASSUME NEW c \in CPU, EndLoop(c)
      PROVE  RunInv'
  BY <1>24 DEF EndLoop, release, popcli
<1>25. ASSUME NEW c \in CPU, SchedXchg(c)
      PROVE  RunInv'
  BY <1>25 DEF SchedXchg
<1>26. CASE UNCHANGED vars
  BY <1>26 DEF vars, Here
<1> QED
  BY <1>1, <1>2, <1>3, <1>4, <1>5, <1>6, <1>7, <1>8, <1>9, <1>10, <1>11,
     <1>12, <1>13, <1>14, <1>15, <1>16, <1>17, <1>18, <1>19, <1>20, <1>21,
     <1>22, <1>23, <1>24, <1>25, <1>26, ZenonT(60) DEF Next, Thread, scheduler

-----------------------------------------------------------------------------
(* The sleep lock, and the theorems *)

\* The sleep lock is taken by whoever finds it free, and freed by its holder.
LEMMA ExclusiveStep ==
  ASSUME TypeOK, CliInv, Exclusive, [Next]_vars
  PROVE  Exclusive'
<1>a. pc \in [Proc -> Place] /\ intr \in [Proc -> {"out", "in", "reacquire"}]
  BY DEF TypeOK
<1> USE <1>a, NoneAssumption
<1> USE DEF lockvars, cpuvars, procvars, Exclusive, Inside
<1>1. ASSUME NEW c \in CPU, NEW p \in Proc, acquiresleep(c, p)
      PROVE  Exclusive'
  BY <1>1 DEF acquiresleep, Call, pushcli, At
<1>2. ASSUME NEW c \in CPU, NEW p \in Proc, kill(c, p)
      PROVE  Exclusive'
  BY <1>2 DEF kill, Call, pushcli, At
<1>3. ASSUME NEW c \in CPU, NEW p \in Proc, yield(c, p)
      PROVE  Exclusive'
  BY <1>3, OnWhere, ZenonT(30) DEF yield, At
<1>4. ASSUME NEW c \in CPU, NEW p \in Proc, Xchg(c, p)
      PROVE  Exclusive'
  BY <1>4 DEF Xchg, At, Spin
<1>5. ASSUME NEW c \in CPU, NEW p \in Proc, releasesleep(c, p)
      PROVE  Exclusive'
  BY <1>5 DEF releasesleep, Call, pushcli, At
<1>6. ASSUME NEW c \in CPU, NEW p \in Proc, Reacquire(c, p)
      PROVE  Exclusive'
  BY <1>6 DEF Reacquire, Call, pushcli, At
<1>7. ASSUME NEW c \in CPU, NEW p \in Proc, Take(c, p)
      PROVE  Exclusive'
  BY <1>7 DEF Take, At
<1>8. ASSUME NEW c \in CPU, NEW p \in Proc, TakeRelease(c, p)
      PROVE  Exclusive'
  BY <1>8 DEF TakeRelease, release, popcli, At
<1>9. ASSUME NEW c \in CPU, NEW p \in Proc, sleep(c, p)
      PROVE  Exclusive'
  BY <1>9 DEF sleep, Call, pushcli, At
<1>10. ASSUME NEW c \in CPU, NEW p \in Proc, SleepRelease(c, p)
      PROVE  Exclusive'
  BY <1>10 DEF SleepRelease, release, popcli, At
<1>11. ASSUME NEW c \in CPU, NEW p \in Proc, SleepSched(c, p)
      PROVE  Exclusive'
  BY <1>11 DEF SleepSched, sched, At
<1>12. ASSUME NEW c \in CPU, NEW p \in Proc, Slept(c, p)
      PROVE  Exclusive'
  BY <1>12 DEF Slept, release, popcli, At
<1>13. ASSUME NEW c \in CPU, NEW p \in Proc, Clear(c, p)
      PROVE  Exclusive'
  BY <1>13 DEF Clear, Call, pushcli, At
<1>14. ASSUME NEW c \in CPU, NEW p \in Proc, wakeup1(c, p)
      PROVE  Exclusive'
  BY <1>14 DEF wakeup1, release, popcli, At
<1>15. ASSUME NEW c \in CPU, NEW p \in Proc, Release(c, p)
      PROVE  Exclusive'
  BY <1>15 DEF Release, release, popcli, At
<1>16. ASSUME NEW c \in CPU, NEW p \in Proc, NEW q \in Proc, Mark(c, p, q)
      PROVE  Exclusive'
  BY <1>16 DEF Mark, release, popcli, At
<1>17. ASSUME NEW c \in CPU, NEW p \in Proc, YieldSched(c, p)
      PROVE  Exclusive'
  BY <1>17 DEF YieldSched, sched, At
<1>18. ASSUME NEW c \in CPU, NEW p \in Proc, Yielded(c, p)
      PROVE  Exclusive'
  BY <1>18 DEF Yielded, release, At
<1>19. ASSUME NEW c \in CPU, NEW p \in Proc, forkret(c, p)
      PROVE  Exclusive'
  BY <1>19 DEF forkret, release, At
<1>20. ASSUME NEW c \in CPU, Sti(c)
      PROVE  Exclusive'
  BY <1>20 DEF Sti
<1>21. ASSUME NEW c \in CPU, SchedPushcli(c)
      PROVE  Exclusive'
  BY <1>21 DEF SchedPushcli, pushcli
<1>22. ASSUME NEW c \in CPU, Skip(c)
      PROVE  Exclusive'
  BY <1>22 DEF Skip
<1>23. ASSUME NEW c \in CPU, Switch(c)
      PROVE  Exclusive'
  BY <1>23 DEF Switch
<1>24. ASSUME NEW c \in CPU, EndLoop(c)
      PROVE  Exclusive'
  BY <1>24 DEF EndLoop, release, popcli
<1>25. ASSUME NEW c \in CPU, SchedXchg(c)
      PROVE  Exclusive'
  BY <1>25 DEF SchedXchg
<1>26. CASE UNCHANGED vars
  BY <1>26 DEF vars, Here
<1> QED
  BY <1>1, <1>2, <1>3, <1>4, <1>5, <1>6, <1>7, <1>8, <1>9, <1>10, <1>11,
     <1>12, <1>13, <1>14, <1>15, <1>16, <1>17, <1>18, <1>19, <1>20, <1>21,
     <1>22, <1>23, <1>24, <1>25, <1>26, ZenonT(60) DEF Next, Thread, scheduler

\* Two threads are not in the critical section of one spin lock, unless
\* one of them has been switched out.
LEMMA Sole ==
  ASSUME TypeOK, RunInv, LockInv, NEW p \in Proc, NEW q \in Proc
  PROVE  /\ pc[p] \in WithLk /\ pc[q] \in WithLk => p = q
         /\ pc[p] = "sleep_sched" /\ pc[q] = "wakeup1" => FALSE
<1>1. ASSUME NEW r \in Proc, pc[r] \in WithLk \cup {"sleep_sched"}
      PROVE  \E c \in CPU : run[c] = r /\ Here(c) = pc[r]
  <2>1. state[r] = "RUNNING"
    BY <1>1 DEF RunInv, WithLk
  <2>2. PICK c \in CPU : run[c] = r
    BY <2>1 DEF RunInv, OneCPU
  <2>3. spc[c] = "proc"
    BY <2>2, NoneAssumption DEF RunInv
  <2> QED
    BY <2>2, <2>3 DEF Here
<1>2. pc[p] \in WithLk /\ pc[q] \in WithLk => p = q
  BY <1>1 DEF LockInv
<1>3. pc[p] = "sleep_sched" /\ pc[q] = "wakeup1" => FALSE
  <2> SUFFICES ASSUME pc[p] = "sleep_sched", pc[q] = "wakeup1" PROVE FALSE
    OBVIOUS
  <2>1. PICK c \in CPU : run[c] = p /\ Here(c) = "sleep_sched"
    BY <1>1
  <2>2. PICK d \in CPU : run[d] = q /\ Here(d) = "wakeup1"
    BY <1>1 DEF WithLk
  <2>3. owner["ptable"] = c /\ owner["ptable"] = d
    BY <2>1, <2>2 DEF LockInv, WithPtable
  <2> QED
    BY <2>1, <2>2, <2>3
<1> QED
  BY <1>2, <1>3

\* Nobody goes to sleep after the wakeup that was meant for it.
LEMMA SleepStep ==
  ASSUME TypeOK, RunInv, CliInv, LockInv, SleepInv, [Next]_vars
  PROVE  SleepInv'
<1>a. /\ state \in [Proc -> {"RUNNABLE", "RUNNING", "SLEEPING"}]
      /\ pc \in [Proc -> Place] /\ intr \in [Proc -> {"out", "in", "reacquire"}]
      /\ locked \in BOOLEAN
  BY DEF TypeOK
<1> USE <1>a
<1> USE DEF lockvars, cpuvars, procvars, SleepInv
<1>1. ASSUME NEW c \in CPU, NEW p \in Proc, acquiresleep(c, p)
      PROVE  SleepInv'
  BY <1>1 DEF acquiresleep, Call, pushcli, At
<1>2. ASSUME NEW c \in CPU, NEW p \in Proc, kill(c, p)
      PROVE  SleepInv'
  BY <1>2 DEF kill, Call, pushcli, At
<1>3. ASSUME NEW c \in CPU, NEW p \in Proc, yield(c, p)
      PROVE  SleepInv'
  BY <1>3, OnWhere, ZenonT(30) DEF yield, At
<1>4. ASSUME NEW c \in CPU, NEW p \in Proc, Xchg(c, p)
      PROVE  SleepInv'
  <2>1. /\ pc[p] \in DOMAIN Spin /\ pc' = [pc EXCEPT ![p] = Spin[pc[p]].next]
        /\ UNCHANGED <<state, locked>>
    BY <1>4 DEF Xchg
  <2>2. \A q \in Proc : pc[q] \in {"wakeup", "wakeup1"} =>
                       pc'[q] \in {"wakeup", "wakeup1"}
    BY <2>1, Spinning
  <2>3. \A q \in Proc : pc'[q] \in {"sleep", "sleep_release"} => locked'
    BY <2>1, Spinning
  <2>4. \A q \in Proc : pc'[q] = "sleep_sched" => pc[q] = "sleep_sched"
    BY <2>1, Spinning
  <2> QED
    BY <2>1, <2>2, <2>3, <2>4
<1>5. ASSUME NEW c \in CPU, NEW p \in Proc, releasesleep(c, p)
      PROVE  SleepInv'
  BY <1>5 DEF releasesleep, Call, pushcli, At
<1>6. ASSUME NEW c \in CPU, NEW p \in Proc, Reacquire(c, p)
      PROVE  SleepInv'
  BY <1>6 DEF Reacquire, Call, pushcli, At
<1>7. ASSUME NEW c \in CPU, NEW p \in Proc, Take(c, p)
      PROVE  SleepInv'
  BY <1>7 DEF Take, At
<1>8. ASSUME NEW c \in CPU, NEW p \in Proc, TakeRelease(c, p)
      PROVE  SleepInv'
  BY <1>8 DEF TakeRelease, release, popcli, At
<1>9. ASSUME NEW c \in CPU, NEW p \in Proc, sleep(c, p)
      PROVE  SleepInv'
  BY <1>9 DEF sleep, Call, pushcli, At
<1>10. ASSUME NEW c \in CPU, NEW p \in Proc, SleepRelease(c, p)
      PROVE  SleepInv'
  BY <1>10 DEF SleepRelease, release, popcli, At
<1>11. ASSUME NEW c \in CPU, NEW p \in Proc, SleepSched(c, p)
      PROVE  SleepInv'
  BY <1>11 DEF SleepSched, sched, At
<1>12. ASSUME NEW c \in CPU, NEW p \in Proc, Slept(c, p)
      PROVE  SleepInv'
  BY <1>12 DEF Slept, release, popcli, At
<1>13. ASSUME NEW c \in CPU, NEW p \in Proc, Clear(c, p)
      PROVE  SleepInv'
  <2>1. \A q \in Proc : pc'[q] \in {"sleep", "sleep_release"} => FALSE
    BY <1>13, Sole DEF Clear, Call, At, WithLk
  <2>2. pc'[p] = "wakeup"
    BY <1>13 DEF Clear, Call
  <2> QED
    BY <2>1, <2>2
<1>14. ASSUME NEW c \in CPU, NEW p \in Proc, wakeup1(c, p)
      PROVE  SleepInv'
  <2>1. \A q \in Proc : state'[q] # "SLEEPING" /\ pc[q] # "sleep_sched"
    BY <1>14, Sole DEF wakeup1, At, RunInv
  <2>2. UNCHANGED locked /\ pc' = [pc EXCEPT ![p] = "release"]
    BY <1>14 DEF wakeup1
  <2> QED
    BY <2>1, <2>2
<1>15. ASSUME NEW c \in CPU, NEW p \in Proc, Release(c, p)
      PROVE  SleepInv'
  BY <1>15 DEF Release, release, popcli, At
<1>16. ASSUME NEW c \in CPU, NEW p \in Proc, NEW q \in Proc, Mark(c, p, q)
      PROVE  SleepInv'
  BY <1>16 DEF Mark, release, popcli, At
<1>17. ASSUME NEW c \in CPU, NEW p \in Proc, YieldSched(c, p)
      PROVE  SleepInv'
  BY <1>17 DEF YieldSched, sched, At
<1>18. ASSUME NEW c \in CPU, NEW p \in Proc, Yielded(c, p)
      PROVE  SleepInv'
  BY <1>18 DEF Yielded, release, At
<1>19. ASSUME NEW c \in CPU, NEW p \in Proc, forkret(c, p)
      PROVE  SleepInv'
  BY <1>19 DEF forkret, release, At
<1>20. ASSUME NEW c \in CPU, Sti(c)
      PROVE  SleepInv'
  BY <1>20 DEF Sti
<1>21. ASSUME NEW c \in CPU, SchedPushcli(c)
      PROVE  SleepInv'
  BY <1>21 DEF SchedPushcli, pushcli
<1>22. ASSUME NEW c \in CPU, Skip(c)
      PROVE  SleepInv'
  BY <1>22 DEF Skip
<1>23. ASSUME NEW c \in CPU, Switch(c)
      PROVE  SleepInv'
  BY <1>23 DEF Switch
<1>24. ASSUME NEW c \in CPU, EndLoop(c)
      PROVE  SleepInv'
  BY <1>24 DEF EndLoop, release, popcli
<1>25. ASSUME NEW c \in CPU, SchedXchg(c)
      PROVE  SleepInv'
  BY <1>25 DEF SchedXchg
<1>26. CASE UNCHANGED vars
  BY <1>26 DEF vars, Here
<1> QED
  BY <1>1, <1>2, <1>3, <1>4, <1>5, <1>6, <1>7, <1>8, <1>9, <1>10, <1>11,
     <1>12, <1>13, <1>14, <1>15, <1>16, <1>17, <1>18, <1>19, <1>20, <1>21,
     <1>22, <1>23, <1>24, <1>25, <1>26, ZenonT(60) DEF Next, Thread, scheduler

\* The nesting of pushcli and the index of the scheduler stay in range.
LEMMA TypeStep ==
  ASSUME TypeOK, RunInv, CliInv, CliInv', [Next]_vars
  PROVE  TypeOK'
<1>a. \A c \in CPU : ncli'[c] \in 0 .. 2
  BY DEF CliInv
<1>b. {"acquiresleep", "sleep", "releasesleep", "wakeup", "kill", "yield",
       "forkret", "out", "take_release", "in", "sleep_sched", "slept",
       "reacquire", "release", "yielded"} \subseteq Place
  BY DEF Place, Spin
<1>c. ASSUME NEW c \in CPU, NEW p \in Proc, NEW l, At(c, p, l)
      PROVE  scan[c] + 1 \in 1 .. NPROC + 1
  BY <1>c, ProcAssumption DEF At, RunInv, Proc
<1> USE <1>a, <1>b, NoneAssumption
<1> USE DEF lockvars, cpuvars, procvars, TypeOK
<1>1. ASSUME NEW c \in CPU, NEW p \in Proc, acquiresleep(c, p)
      PROVE  TypeOK'
  BY <1>1 DEF acquiresleep, Call, pushcli, At
<1>2. ASSUME NEW c \in CPU, NEW p \in Proc, kill(c, p)
      PROVE  TypeOK'
  BY <1>2 DEF kill, Call, pushcli, At
<1>3. ASSUME NEW c \in CPU, NEW p \in Proc, yield(c, p)
      PROVE  TypeOK'
  BY <1>3, OnWhere, ZenonT(30) DEF yield, At
<1>4. ASSUME NEW c \in CPU, NEW p \in Proc, Xchg(c, p)
      PROVE  TypeOK'
  <2>1. pc[p] \in DOMAIN Spin
    BY <1>4 DEF Xchg
  <2>2. Spin[pc[p]].next \in Place /\ Spin[pc[p]].lock \in {"lk", "ptable"}
    BY <2>1, Spinning
  <2> QED
    BY <1>4, <2>2 DEF Xchg
<1>5. ASSUME NEW c \in CPU, NEW p \in Proc, releasesleep(c, p)
      PROVE  TypeOK'
  BY <1>5 DEF releasesleep, Call, pushcli, At
<1>6. ASSUME NEW c \in CPU, NEW p \in Proc, Reacquire(c, p)
      PROVE  TypeOK'
  BY <1>6 DEF Reacquire, Call, pushcli, At
<1>7. ASSUME NEW c \in CPU, NEW p \in Proc, Take(c, p)
      PROVE  TypeOK'
  BY <1>7 DEF Take, At
<1>8. ASSUME NEW c \in CPU, NEW p \in Proc, TakeRelease(c, p)
      PROVE  TypeOK'
  BY <1>8 DEF TakeRelease, release, popcli, At
<1>9. ASSUME NEW c \in CPU, NEW p \in Proc, sleep(c, p)
      PROVE  TypeOK'
  BY <1>9 DEF sleep, Call, pushcli, At
<1>10. ASSUME NEW c \in CPU, NEW p \in Proc, SleepRelease(c, p)
      PROVE  TypeOK'
  BY <1>10 DEF SleepRelease, release, popcli, At
<1>11. ASSUME NEW c \in CPU, NEW p \in Proc, SleepSched(c, p)
      PROVE  TypeOK'
  <2>1. [scan EXCEPT ![c] = scan[c] + 1] \in [CPU -> 1 .. NPROC + 1]
    BY <1>11, <1>c DEF SleepSched
  <2> QED
    BY <1>11, <2>1 DEF SleepSched, sched
<1>12. ASSUME NEW c \in CPU, NEW p \in Proc, Slept(c, p)
      PROVE  TypeOK'
  BY <1>12 DEF Slept, release, popcli, At
<1>13. ASSUME NEW c \in CPU, NEW p \in Proc, Clear(c, p)
      PROVE  TypeOK'
  BY <1>13, ZenonT(30) DEF Clear, Call, pushcli, At
<1>14. ASSUME NEW c \in CPU, NEW p \in Proc, wakeup1(c, p)
      PROVE  TypeOK'
  BY <1>14 DEF wakeup1, release, popcli, At
<1>15. ASSUME NEW c \in CPU, NEW p \in Proc, Release(c, p)
      PROVE  TypeOK'
  BY <1>15 DEF Release, release, popcli, At
<1>16. ASSUME NEW c \in CPU, NEW p \in Proc, NEW q \in Proc, Mark(c, p, q)
      PROVE  TypeOK'
  BY <1>16 DEF Mark, release, popcli, At
<1>17. ASSUME NEW c \in CPU, NEW p \in Proc, YieldSched(c, p)
      PROVE  TypeOK'
  <2>1. [scan EXCEPT ![c] = scan[c] + 1] \in [CPU -> 1 .. NPROC + 1]
    BY <1>17, <1>c DEF YieldSched
  <2> QED
    BY <1>17, <2>1 DEF YieldSched, sched
<1>18. ASSUME NEW c \in CPU, NEW p \in Proc, Yielded(c, p)
      PROVE  TypeOK'
  BY <1>18 DEF Yielded, release, At
<1>19. ASSUME NEW c \in CPU, NEW p \in Proc, forkret(c, p)
      PROVE  TypeOK'
  BY <1>19 DEF forkret, release, At
<1>20. ASSUME NEW c \in CPU, Sti(c)
      PROVE  TypeOK'
  BY <1>20 DEF Sti
<1>21. ASSUME NEW c \in CPU, SchedPushcli(c)
      PROVE  TypeOK'
  BY <1>21 DEF SchedPushcli, pushcli
<1>22. ASSUME NEW c \in CPU, Skip(c)
      PROVE  TypeOK'
  <2>1. scan[c] + 1 \in 1 .. NPROC + 1
    BY <1>22, ProcAssumption DEF Skip
  <2> QED
    BY <1>22, <2>1 DEF Skip
<1>23. ASSUME NEW c \in CPU, Switch(c)
      PROVE  TypeOK'
  BY <1>23, Chosen, ZenonT(30) DEF Switch
<1>24. ASSUME NEW c \in CPU, EndLoop(c)
      PROVE  TypeOK'
  BY <1>24 DEF EndLoop, release, popcli
<1>25. ASSUME NEW c \in CPU, SchedXchg(c)
      PROVE  TypeOK'
  <2>1. 1 \in 1 .. NPROC + 1
    BY ProcAssumption
  <2> QED
    BY <1>25, <2>1 DEF SchedXchg
<1>26. CASE UNCHANGED vars
  BY <1>26 DEF vars, Here
<1> QED
  BY <1>1, <1>2, <1>3, <1>4, <1>5, <1>6, <1>7, <1>8, <1>9, <1>10, <1>11,
     <1>12, <1>13, <1>14, <1>15, <1>16, <1>17, <1>18, <1>19, <1>20, <1>21,
     <1>22, <1>23, <1>24, <1>25, <1>26, ZenonT(60) DEF Next, Thread, scheduler

-----------------------------------------------------------------------------
(* Theorems *)

\* Inv is inductive: it holds when the CPUs enter scheduler(), and every step
\* of a thread, of a scheduler and of the timer preserves it.
THEOREM Invariance == Spec => []Inv
<1>1. Init => Inv
  <2> SUFFICES ASSUME Init PROVE Inv
    OBVIOUS
  <2>1. \A c \in CPU : Here(c) = "sti"
    BY ZenonT(30) DEF Init, Here
  <2>2. locked = FALSE
    BY DEF Init
  <2>3. TypeOK
    <3>1. /\ kintena \in [Proc -> BOOLEAN] /\ intena \in [CPU -> BOOLEAN]
          /\ ief \in [CPU -> BOOLEAN] /\ locked \in BOOLEAN
      BY ZenonT(30) DEF Init
    <3>2. "forkret" \in Place /\ 1 \in 1 .. NPROC + 1
      BY ProcAssumption DEF Place
    <3> QED
      BY <3>1, <3>2 DEF Init, TypeOK
  <2>4. RunInv
    BY NoneAssumption DEF Init, RunInv, OneCPU
  <2>5. LockInv
    BY <2>1, NoneAssumption, ZenonT(30) DEF Init, LockInv, WithLk, WithPtable
  <2>6. CliInv
    BY <2>1 DEF Init, CliInv, Twice, Once, Interrupted
  <2>7. Exclusive
    BY <2>2 DEF Init, Exclusive, Inside
  <2>8. SleepInv
    BY DEF Init, SleepInv
  <2> QED
    BY <2>3, <2>4, <2>5, <2>6, <2>7, <2>8 DEF Inv
<1>2. Inv /\ [Next]_vars => Inv'
  BY TypeStep, RunStep, LockStep, CliStep, ExclusiveStep, SleepStep DEF Inv
<1> QED
  BY <1>1, <1>2, PTL DEF Spec

\* acquire, release, popcli and sched never panic: every CPU holds the locks
\* that its place in the code needs, with interrupts off, and spins for no
\* lock that it holds.
THEOREM NeverPanics == Spec => []Sane
<1>1. Inv => NoPanic
  <2> SUFFICES ASSUME Inv, NEW c \in CPU
               PROVE  NoPanic!(c)
    BY ZenonT(30) DEF NoPanic
  <2>1. Here(c) \in DOMAIN Spin => owner[Spin[Here(c)].lock] # c
    BY DEF Inv, LockInv, Spin, WithLk, WithPtable
  <2>2. /\ Here(c) = "spin" => owner["ptable"] # c
        /\ Here(c) \in WithLk => owner["lk"] = c
        /\ Here(c) \in WithPtable => owner["ptable"] = c
    BY DEF Inv, LockInv, WithPtable
  <2>3. WithLk \cup WithPtable \subseteq Twice \cup Once
    BY DEF WithLk, WithPtable, Twice, Once
  <2>4. Here(c) \in WithLk \cup WithPtable => ncli[c] > 0 /\ ~ief[c]
    BY <2>3 DEF Inv, CliInv
  <2>5. Here(c) \in {"sleep_sched", "yield_sched"} => ncli[c] = 1
    BY DEF Inv, CliInv, Twice, Once
  <2> QED
    BY <2>1, <2>2, <2>4, <2>5
<1> QED
  BY <1>1, Invariance, PTL DEF Sane

\* The sleep lock excludes, for any number of CPUs and processes.
THEOREM SleepLockExcludes == Spec => []Exclusive
BY Invariance, PTL DEF Inv

\* No kernel stack is ever used by two CPUs.
THEOREM OneCPUPerThread == Spec => []OneCPU
BY Invariance, PTL DEF Inv, RunInv

\* No sleeper misses the wakeup of releasesleep.
THEOREM NoWakeupIsLost == Spec => []NoLostWakeup
<1>1. Inv => NoLostWakeup
  BY DEF Inv, SleepInv, NoLostWakeup
<1> QED
  BY <1>1, Invariance, PTL

\* Whoever holds a spin lock has interrupts off, and gets them back.
THEOREM InterruptsAreRestored == Spec => []InterruptsMatch
<1>1. Inv => InterruptsMatch
  <2> SUFFICES ASSUME Inv PROVE InterruptsMatch
    OBVIOUS
  <2>1. owner \in [{"lk", "ptable"} -> CPU \cup {None}]
    BY DEF Inv, TypeOK
  <2>2. WithLk \cup WithPtable \subseteq Twice \cup Once
    BY DEF WithLk, WithPtable, Twice, Once
  <2>3. \A l \in DOMAIN owner : owner[l] # None => ~ief[owner[l]]
    BY <2>1, <2>2 DEF Inv, LockInv, CliInv
  <2>4. ASSUME NEW c \in CPU, NEW p \in Proc, At(c, p, pc[p]),
               pc[p] \in {"out", "in", "reacquire"}
        PROVE  ief[c] /\ ncli[c] = 0
    BY <2>4 DEF At, Here, Inv, CliInv, Twice, Once
  <2> QED
    BY <2>3, <2>4 DEF InterruptsMatch
<1> QED
  BY <1>1, Invariance, PTL
=============================================================================
