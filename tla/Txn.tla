-------------------------------- MODULE Txn --------------------------------
(***************************************************************************)
(* What log.c promises the file system calls above it (log.c:9-30): the    *)
(* updates of a group of FS system calls reach the disk all together or    *)
(* not at all, and a commit is never taken while one of them is active.    *)
(*                                                                         *)
(* `mem' is the contents of the blocks as the calls see them, `durable'    *)
(* the contents a reboot would bring back, `active' the processes between  *)
(* their begin_op and their end_op.                                        *)
(***************************************************************************)
CONSTANTS Proc, Block, Val

VARIABLES mem, durable, active

vars == <<mem, durable, active>>

TypeOK ==
    /\ mem \in [Block -> Val]
    /\ durable \in [Block -> Val]
    /\ active \subseteq Proc

Init ==
    /\ mem \in [Block -> Val]
    /\ durable = mem
    /\ active = {}

Begin(p) ==
    /\ p \notin active
    /\ active' = active \cup {p}
    /\ UNCHANGED <<mem, durable>>

Write(p, b, v) ==
    /\ p \in active
    /\ mem' = [mem EXCEPT ![b] = v]
    /\ UNCHANGED <<durable, active>>

End(p) ==
    /\ p \in active
    /\ active' = active \ {p}
    /\ UNCHANGED <<mem, durable>>

\* The group becomes durable in one step, with no call half done.
Commit ==
    /\ active = {}
    /\ durable' = mem
    /\ UNCHANGED <<mem, active>>

\* A crash loses everything since the last commit, and nothing else.
Crash ==
    /\ mem' = durable
    /\ active' = {}
    /\ UNCHANGED durable

Next ==
    \/ \E p \in Proc : Begin(p) \/ End(p)
    \/ \E p \in Proc, b \in Block, v \in Val : Write(p, b, v)
    \/ Commit
    \/ Crash

Spec == Init /\ [][Next]_vars
=============================================================================
