------------------------------- MODULE Clock -------------------------------
(***************************************************************************)
(* ticks, which the timer interrupt of CPU 0 counts (trap.c), and          *)
(* sys_sleep (sysproc.c).  A critical section of tickslock is a step, but  *)
(* for the one that ends in sleep(): kill takes ptable.lock only, and may  *)
(* come between the test of killed and the sleep.                          *)
(***************************************************************************)
EXTENDS Integers

CONSTANTS
    Proc,
    CPU,     \* 0 and the others
    UMAX,    \* number of values of a uint, 2^32
    Counts   \* arguments of sleep, as ints

VARIABLES
    ticks,
    pc, ticks0, n, killed,
    elapsed, \* history: ticks since each process called sleep
    missed   \* history: ticks that found it asleep although it was killed

vars == <<ticks, pc, ticks0, n, killed, elapsed, missed>>

Uint(x) == x % UMAX

TypeOK ==
    /\ ticks \in 0 .. UMAX - 1
    /\ pc \in [Proc -> {"user", "sleep", "tested", "asleep", "slept", "failed"}]
    /\ ticks0 \in [Proc -> 0 .. UMAX - 1] /\ n \in [Proc -> Counts]
    /\ killed \in [Proc -> BOOLEAN] /\ elapsed \in [Proc -> 0 .. UMAX]
    /\ missed \in [Proc -> 0 .. UMAX]

Sleeping(p) == pc[p] \in {"sleep", "tested", "asleep"}

\* tickslock is held from the tests until sleep() lets go of it.
Locked == \E p \in Proc : pc[p] = "tested"

\* T_IRQ0 + IRQ_TIMER: every CPU yields, CPU 0 counts and wakes the sleepers.
\* Bound: a process that has been woken runs before the clock comes round.
trap(c) ==
    /\ \A p \in Proc : Sleeping(p) => elapsed[p] < UMAX - 1
    /\ c = 0 => ~Locked
    /\ IF c = 0
       THEN /\ ticks' = (ticks + 1) % UMAX
            /\ pc' = [p \in Proc |-> IF pc[p] = "asleep" THEN "sleep" ELSE pc[p]]
            /\ elapsed' = [p \in Proc |-> IF Sleeping(p) THEN elapsed[p] + 1
                                          ELSE elapsed[p]]
            /\ missed' = [p \in Proc |-> IF pc[p] = "asleep" /\ killed[p] THEN missed[p] + 1
                                         ELSE missed[p]]
       ELSE UNCHANGED <<ticks, pc, elapsed, missed>>
    /\ UNCHANGED <<ticks0, n, killed>>

sys_sleep(p, k) ==
    /\ pc[p] = "user" /\ ~Locked
    /\ pc' = [pc EXCEPT ![p] = "sleep"]
    /\ ticks0' = [ticks0 EXCEPT ![p] = ticks]
    /\ n' = [n EXCEPT ![p] = k]
    /\ elapsed' = [elapsed EXCEPT ![p] = 0]
    /\ UNCHANGED <<ticks, killed, missed>>

\* Faulty: compares points in time, not durations.
BeforeDeadline(p) == ticks < Uint(ticks0[p] + n[p])

\* ticks - ticks0 < n, where C makes n unsigned.
TooEarly(p) == Uint(ticks - ticks0[p]) < Uint(n[p])

\* The two tests of a turn of its loop, with tickslock.
SleepTurn(p) ==
    /\ pc[p] = "sleep" /\ ~Locked
    /\ pc' = [pc EXCEPT ![p] = IF ~TooEarly(p) THEN "slept"
                               ELSE IF killed[p] THEN "failed" ELSE "tested"]
    /\ UNCHANGED <<ticks, ticks0, n, killed, elapsed, missed>>

\* sleep: takes ptable.lock, lets go of tickslock, and sleeps.
sleep(p) ==
    /\ pc[p] = "tested"
    /\ pc' = [pc EXCEPT ![p] = "asleep"]
    /\ UNCHANGED <<ticks, ticks0, n, killed, elapsed, missed>>

kill(p) ==
    /\ ~killed[p]
    /\ killed' = [killed EXCEPT ![p] = TRUE]
    /\ pc' = [pc EXCEPT ![p] = IF @ = "asleep" THEN "sleep" ELSE @]
    /\ UNCHANGED <<ticks, ticks0, n, elapsed, missed>>

\* Back in the program, which may go on only if it is not killed.
Return(p) ==
    /\ pc[p] \in {"slept", "failed"} /\ ~killed[p]
    /\ pc' = [pc EXCEPT ![p] = "user"]
    /\ ticks0' = [ticks0 EXCEPT ![p] = 0]
    /\ n' = [n EXCEPT ![p] = 0]
    /\ elapsed' = [elapsed EXCEPT ![p] = 0]
    /\ UNCHANGED <<ticks, killed, missed>>

Init ==
    /\ ticks = 0
    /\ pc = [p \in Proc |-> "user"]
    /\ ticks0 = [p \in Proc |-> 0] /\ n = [p \in Proc |-> 0]
    /\ killed = [p \in Proc |-> FALSE] /\ elapsed = [p \in Proc |-> 0]
    /\ missed = [p \in Proc |-> 0]

Next ==
    \/ \E c \in CPU : trap(c)
    \/ \E p \in Proc : \/ \E k \in Counts : sys_sleep(p, k)
                       \/ SleepTurn(p) \/ sleep(p) \/ kill(p) \/ Return(p)

Spec == Init /\ [][Next]_vars

-----------------------------------------------------------------------------
(* Properties *)

\* sleep(n) returns 0 only when n ticks have gone by since it was called, also
\* when the counter wraps around meanwhile; a negative n is a long time.
SleptEnough == \A p \in Proc : pc[p] = "slept" => elapsed[p] >= Uint(n[p])

\* A killed process does not wait for the rest of its time: a kill that comes
\* between the test of killed and the sleep wakes nobody, but the next tick does,
\* and then the process leaves.
KilledSoon == \A p \in Proc : missed[p] <= 1
============================================================================
