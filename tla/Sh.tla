--------------------------------- MODULE Sh ---------------------------------
(***************************************************************************)
(* runcmd of sh.c: the processes that run a line, their descriptors, and   *)
(* what they wait for.  Process 1 is the shell.  A program runs until the  *)
(* end of its input when it reads from a pipe, and as long as it likes     *)
(* when it does not.  fork may fail; pids are not used again.              *)
(***************************************************************************)
EXTENDS Naturals, FiniteSets, ShParse

CONSTANTS
    Line,    \* the lines that are typed
    NPROC,   \* bound on the processes of a line
    NFILE    \* descriptors of a process

VARIABLES
    procs,   \* by pid; pc is where each process is in runcmd
    npipe,   \* pipes made so far
    failed   \* history: a fork failed

vars == <<procs, npipe, failed>>

Pid == 1 .. NPROC
Fd == 0 .. NFILE - 1

\* What a descriptor refers to: nothing, a file or the console, or an end of a pipe.
Closed == <<"none", 0>>
File == <<"file", 0>>
Rd(k) == <<"read", k>>
Wr(k) == <<"write", k>>

Stdio == [f \in Fd |-> IF f < 3 THEN File ELSE Closed]
AllClosed == [f \in Fd |-> Closed]
NoCmd == Fails.cmd
Unused == [pc |-> "unused", cmd |-> NoCmd, fd |-> AllClosed, parent |-> 0, back |-> FALSE,
           p |-> <<0, 0>>, waits |-> 0]

TypeOK ==
    /\ \A i \in Pid : /\ procs[i].fd \in [Fd -> {"none", "file", "read", "write"} \X Nat]
                      /\ procs[i].parent \in 0 .. NPROC
    /\ npipe \in Nat /\ failed \in BOOLEAN

Lowest(fd) == CHOOSE f \in Fd : fd[f] = Closed /\ \A g \in Fd : fd[g] = Closed => f <= g
Close(fd, f) == [fd EXCEPT ![f] = Closed]
Dup(fd, f) == [fd EXCEPT ![Lowest(fd)] = fd[f]]

\* exit: its children are now those of init, which reaps them.
Exited(P, i) ==
    [j \in Pid |->
        IF j = i THEN [P[j] EXCEPT !.pc = IF P[j].parent = 0 THEN "gone" ELSE "zombie",
                                   !.fd = AllClosed, !.cmd = NoCmd]
        ELSE IF P[j].parent # i THEN P[j]
        ELSE [P[j] EXCEPT !.parent = 0, !.pc = IF @ = "zombie" THEN "gone" ELSE @]]

Kid(i, k) == procs[i].cmd.kids[k]

\* fork1: a child at pc for command c, and the parent as me says; or panic.
Fork1(i, pc, c, me) ==
    LET New == {j \in Pid : procs[j].pc = "unused"}
        np == CHOOSE j \in New : \A l \in New : j <= l IN
    \/ /\ New # {}
       /\ procs' = [procs EXCEPT ![i] = me,
                        ![np] = [me EXCEPT !.pc = pc, !.cmd = c, !.parent = i,
                                           !.back = procs[i].cmd.type = "BACK", !.waits = 0]]
       /\ UNCHANGED <<npipe, failed>>
    \/ /\ failed' = TRUE
       /\ procs' = Exited(procs, i)
       /\ UNCHANGED npipe

At(i, type) == procs[i].pc = "run" /\ procs[i].cmd.type = type
Set(i, r) == procs' = [procs EXCEPT ![i] = r] /\ UNCHANGED <<npipe, failed>>
Exit(i) == procs' = Exited(procs, i) /\ UNCHANGED <<npipe, failed>>

\* The shell reads a line, for the child to parse, and forks.  cd runs in the
\* shell itself and leaves it at its prompt.
main(line) ==
    /\ procs[1].pc = "prompt" /\ procs[2].pc = "unused"
    /\ Set(1, [procs[1] EXCEPT !.pc = "main", !.cmd = parsecmd(line)])

MainForks ==
    /\ procs[1].pc = "main"
    /\ Fork1(1, "run", procs[1].cmd, [procs[1] EXCEPT !.pc = "wait", !.waits = 1, !.cmd = NoCmd])

\* EXEC: nothing to run, a program, or exec fails.  A line that does not parse
\* ends the child too.
RunExec(i) ==
    \/ At(i, "EXEC") /\ procs[i].cmd.args # <<>> /\ Set(i, [procs[i] EXCEPT !.pc = "program"])
    \/ (At(i, "EXEC") \/ At(i, "none")) /\ Exit(i)

\* REDIR: close, and open, which may fail.
RunRedir(i) ==
    LET fd == Close(procs[i].fd, procs[i].cmd.args[1]) IN
    /\ At(i, "REDIR")
    /\ \/ Set(i, [procs[i] EXCEPT !.fd = [fd EXCEPT ![Lowest(fd)] = File], !.cmd = Kid(i, 1)])
       \/ Exit(i)

RunList(i) ==
    /\ At(i, "LIST")
    /\ Fork1(i, "run", Kid(i, 1), [procs[i] EXCEPT !.pc = "wait", !.waits = 1])

\* PIPE: pipe, which may fail.
RunPipe(i) ==
    LET a == Lowest(procs[i].fd)
        fd1 == [procs[i].fd EXCEPT ![a] = Rd(npipe + 1)]
        b == Lowest(fd1) IN
    /\ At(i, "PIPE")
    /\ \/ /\ npipe' = npipe + 1
          /\ procs' = [procs EXCEPT ![i] = [@ EXCEPT !.fd = [fd1 EXCEPT ![b] = Wr(npipe + 1)],
                                                     !.p = <<a, b>>, !.pc = "left"]]
          /\ UNCHANGED failed
       \/ Exit(i)

\* The forks of PIPE.
PipeForks(i) ==
    \/ procs[i].pc = "left" /\ Fork1(i, "out", Kid(i, 1), [procs[i] EXCEPT !.pc = "right"])
    \/ procs[i].pc = "right" /\ Fork1(i, "in", Kid(i, 2), [procs[i] EXCEPT !.pc = "close"])

\* Faulty: the child keeps the write end of the pipe.
EndsLeaky(i) ==
    LET fd == procs[i].fd  p == procs[i].p IN
    \/ /\ procs[i].pc = "out"
       /\ Set(i, [procs[i] EXCEPT !.fd = Close(Close(Dup(Close(fd, 1), p[2]), p[1]), p[2]), !.pc = "run"])
    \/ /\ procs[i].pc = "in"
       /\ Set(i, [procs[i] EXCEPT !.fd = Close(Dup(Close(fd, 0), p[1]), p[1]), !.pc = "run"])
    \/ /\ procs[i].pc = "close"
       /\ Set(i, [procs[i] EXCEPT !.fd = Close(Close(fd, p[1]), p[2]), !.pc = "wait", !.waits = 2])

\* What the two children and the parent do with the ends of the pipe.
PipeEnds(i) ==
    LET fd == procs[i].fd  p == procs[i].p IN
    \/ /\ procs[i].pc = "out"
       /\ Set(i, [procs[i] EXCEPT !.fd = Close(Close(Dup(Close(fd, 1), p[2]), p[1]), p[2]), !.pc = "run"])
    \/ /\ procs[i].pc = "in"
       /\ Set(i, [procs[i] EXCEPT !.fd = Close(Close(Dup(Close(fd, 0), p[1]), p[1]), p[2]), !.pc = "run"])
    \/ /\ procs[i].pc = "close"
       /\ Set(i, [procs[i] EXCEPT !.fd = Close(Close(fd, p[1]), p[2]), !.pc = "wait", !.waits = 2])

\* BACK: the parent does not wait.
RunBack(i) ==
    \/ At(i, "BACK") /\ Fork1(i, "run", Kid(i, 1), [procs[i] EXCEPT !.pc = "exit"])
    \/ procs[i].pc = "exit" /\ Exit(i)

\* One of the waits, and what follows the last one.
Wait(i) ==
    /\ procs[i].pc = "wait"
    /\ \E j \in Pid :
        LET P == [procs EXCEPT ![j].pc = "gone", ![j].parent = 0, ![i].waits = @ - 1] IN
        /\ procs[j].pc = "zombie" /\ procs[j].parent = i
        /\ procs' = IF P[i].waits > 0 THEN P
                    ELSE IF i = 1 THEN [P EXCEPT ![1].pc = "prompt"]
                    ELSE IF procs[i].cmd.type = "LIST"
                    THEN [P EXCEPT ![i].cmd = Kid(i, 2), ![i].pc = "run"]
                    ELSE Exited(P, i)
    /\ UNCHANGED <<npipe, failed>>

\* The program ends.
Writers(k) == {j \in Pid : \E f \in Fd : procs[j].fd[f] = Wr(k)}
Program(i) ==
    LET in == procs[i].fd[0] IN
    /\ procs[i].pc = "program"
    /\ in[1] = "read" => Writers(in[2]) = {}
    /\ Exit(i)

Init ==
    /\ procs = [i \in Pid |-> IF i = 1 THEN [Unused EXCEPT !.pc = "prompt", !.fd = Stdio] ELSE Unused]
    /\ npipe = 0 /\ failed = FALSE

Steps(i) ==
    \/ RunExec(i) \/ RunRedir(i) \/ RunList(i) \/ RunPipe(i) \/ PipeForks(i)
    \/ PipeEnds(i) \/ RunBack(i) \/ Wait(i) \/ Program(i)

Next == MainForks \/ (\E t \in Line : main(t)) \/ (\E i \in Pid : Steps(i))

-----------------------------------------------------------------------------
\* A program starts with the descriptors 0, 1 and 2 and no other, so that no
\* process keeps an end of a pipe that it does not use.
OnlyStdio ==
    \A i \in Pid : procs[i].pc = "program" =>
        {f \in Fd : procs[i].fd[f] # Closed} = 0 .. 2

\* No command ends before one that it has started in the foreground: a list
\* goes on, and the prompt comes back, when all of the command has ended.
ForegroundFirst ==
    failed \/ \A i \in Pid : procs[i].pc \notin {"unused", "prompt", "main", "zombie", "gone"}
                             /\ procs[i].parent = 0 /\ i # 1 => procs[i].back
=============================================================================
