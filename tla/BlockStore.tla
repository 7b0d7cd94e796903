----------------------------- MODULE BlockStore -----------------------------
(***************************************************************************)
(* What bread, bwrite and brelse (bio.c) promise their callers: a block is *)
(* in the hands of one process at a time, everybody who gets it sees what  *)
(* was put there last, and nothing else changes it.                        *)
(***************************************************************************)
CONSTANTS Proc, Block, Val, None

VARIABLES
    content,  \* [Block -> Val]
    holding   \* [Proc -> Block \cup {None}]

Init ==
    /\ content \in [Block -> Val]
    /\ holding = [p \in Proc |-> None]

Get(p, b) ==
    /\ holding[p] = None /\ \A q \in Proc : holding[q] # b
    /\ holding' = [holding EXCEPT ![p] = b]
    /\ UNCHANGED content

Put(p, v) ==
    /\ holding[p] # None
    /\ content' = [content EXCEPT ![holding[p]] = v]
    /\ UNCHANGED holding

Release(p) ==
    /\ holding[p] # None
    /\ holding' = [holding EXCEPT ![p] = None]
    /\ UNCHANGED content

Next ==
    \E p \in Proc : \/ \E b \in Block : Get(p, b)
                    \/ \E v \in Val : Put(p, v)
                    \/ Release(p)

vars == <<content, holding>>
Spec == Init /\ [][Next]_vars
=============================================================================
