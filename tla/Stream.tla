------------------------------- MODULE Stream -------------------------------
(***************************************************************************)
(* What a pipe promises: a bounded queue of bytes.  Every byte written is  *)
(* read once and in order, by one of the readers; a reader is told that    *)
(* the stream has ended only when it is empty and nobody can write to it.  *)
(***************************************************************************)
EXTENDS Naturals, Sequences

CONSTANTS Byte, Capacity, None, Eof

VARIABLES queue,      \* the bytes written and not yet read
          wopen,      \* the write end is open
          ropen,      \* the read end is open
          got         \* what a reader was given last

vars == <<queue, wopen, ropen, got>>

Init ==
    /\ queue = <<>>
    /\ wopen = TRUE
    /\ ropen = TRUE
    /\ got = None

Put(b) ==
    /\ wopen
    /\ Len(queue) < Capacity
    /\ queue' = Append(queue, b)
    /\ UNCHANGED <<wopen, ropen, got>>

Get ==
    /\ ropen
    /\ queue # <<>>
    /\ got' = Head(queue)
    /\ queue' = Tail(queue)
    /\ UNCHANGED <<wopen, ropen>>

End ==
    /\ ropen
    /\ queue = <<>> /\ ~wopen
    /\ got' = Eof
    /\ UNCHANGED <<queue, wopen, ropen>>

CloseWrite ==
    /\ wopen
    /\ wopen' = FALSE
    /\ UNCHANGED <<queue, ropen, got>>

CloseRead ==
    /\ ropen
    /\ ropen' = FALSE
    /\ UNCHANGED <<queue, wopen, got>>

Next ==
    \/ \E b \in Byte : Put(b)
    \/ Get
    \/ End
    \/ CloseWrite
    \/ CloseRead

Spec == Init /\ [][Next]_vars
=============================================================================
