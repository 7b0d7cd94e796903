----------------------------- MODULE FileTable -----------------------------
(***************************************************************************)
(* Descriptors: ftable of file.c, fdalloc, sys_open, sys_dup, sys_close    *)
(* and sys_pipe of sysfile.c, pipealloc and pipeclose of pipe.c, and what  *)
(* fork and exit of proc.c do with the files of a process.                 *)
(*                                                                         *)
(* A step is a critical section of ftable.lock, or the code between two.   *)
(***************************************************************************)
EXTENDS Naturals, FiniteSets

CONSTANTS
    Proc,     \* slots of the process table; the least one runs at first
    NFILE, NOFILE,
    Calls,    \* [Proc -> the calls that it makes, of open, pipe, fork and exit]
    NPIPE     \* pages that kalloc has for pipes

VARIABLES
    ftable,  \* ref, type and the pipe of each file
    ofile,   \* proc->ofile; 0 is none
    alive,
    pipe,    \* readopen and writeopen of the pipes that there are
    th       \* the call of each process

vars == <<ftable, ofile, alive, pipe, th>>

File == 1 .. NFILE
Fd == 0 .. NOFILE - 1
Pipe == 1 .. NPIPE
NoFile == [ref |-> 0, type |-> "none", w |-> FALSE, pipe |-> 0]
NoPipe == [page |-> FALSE, readopen |-> FALSE, writeopen |-> FALSE]
Out == [pc |-> "out", op |-> "none", f |-> <<0, 0>>, np |-> 0, ff |-> NoFile]

Entry == [ref : Nat, type : {"none", "pipe", "inode"}, w : BOOLEAN, pipe : Pipe \cup {0}]
Pending == [pc : {"out", "filealloc", "kalloc", "fdalloc", "bad", "fork", "exit"},
         op : {"none", "open", "pipe", "fork", "exit"},
         f : [1 .. 2 -> File \cup {0}], np : Proc \cup {0}, ff : Entry]

TypeOK ==
    /\ ftable \in [File -> Entry]
    /\ ofile \in [Proc -> [Fd -> File \cup {0}]]
    /\ pipe \in [Pipe -> [page : BOOLEAN, readopen : BOOLEAN, writeopen : BOOLEAN]]
    /\ alive \subseteq Proc
    /\ th \in [Proc -> Pending]

Least(S) == CHOOSE x \in S : \A y \in S : x <= y
Go(p, f) == th' = [th EXCEPT ![p] = f]
To(p, pc) == Go(p, [th[p] EXCEPT !.pc = pc])
Return(p) == Go(p, Out)

FreeFiles == {f \in File : ftable[f].ref = 0}
FreeFds(p) == {fd \in Fd : ofile[p][fd] = 0}

\* The slots that allocproc finds UNUSED: those being made by fork are EMBRYO.
Unused == Proc \ (alive \cup {th[q].np : q \in Proc})

\* A call begins.
begin(p, op) ==
    /\ p \in alive /\ th[p] = Out
    /\ op = "fork" => Unused # {}
    /\ op = "exit" => alive # {p}
    /\ Go(p, [Out EXCEPT !.op = op, !.np = IF op = "fork" THEN Least(Unused) ELSE 0,
                         !.pc = IF op \in {"fork", "exit"} THEN op ELSE "filealloc"])
    /\ UNCHANGED <<ftable, ofile, alive, pipe>>

\* filealloc: for sys_open, or twice for pipealloc; f[k] is the file it is for.
filealloc(p) ==
    LET k == IF th[p].f[1] = 0 THEN 1 ELSE 2 IN
    /\ th[p].pc = "filealloc"
    /\ IF FreeFiles = {} THEN To(p, "bad") /\ UNCHANGED ftable
       ELSE /\ ftable' = [ftable EXCEPT ![Least(FreeFiles)].ref = 1]
            /\ Go(p, [th[p] EXCEPT !.f[k] = Least(FreeFiles),
                        !.pc = IF th[p].op = "pipe" THEN IF k = 1 THEN "filealloc" ELSE "kalloc"
                               ELSE "fdalloc"])
    /\ UNCHANGED <<ofile, alive, pipe>>

\* The rest of pipealloc, when there is a page.
pipealloc(p) ==
    LET Free == {k \in Pipe : ~pipe[k].page}  k == Least(Free)
        End(w) == [ref |-> 1, type |-> "pipe", w |-> w, pipe |-> k] IN
    /\ th[p].pc = "kalloc"
    /\ IF Free = {} THEN To(p, "bad") /\ UNCHANGED <<ftable, pipe>>
       ELSE /\ pipe' = [pipe EXCEPT ![k] = [page |-> TRUE, readopen |-> TRUE, writeopen |-> TRUE]]
            /\ ftable' = [ftable EXCEPT ![th[p].f[1]] = End(FALSE), ![th[p].f[2]] = End(TRUE)]
            /\ To(p, "fdalloc")
    /\ UNCHANGED <<ofile, alive>>

\* fdalloc for one file or for both of sys_pipe, and the end of sys_open, where
\* the file gets its inode.
fdalloc(p) ==
    LET files == IF th[p].op = "pipe" THEN 2 ELSE 1  f == th[p].f
        a == Least(FreeFds(p))  b == Least(FreeFds(p) \ {a}) IN
    /\ th[p].pc = "fdalloc"
    /\ IF Cardinality(FreeFds(p)) < files THEN To(p, "bad") /\ UNCHANGED <<ofile, ftable>>
       ELSE /\ ofile' = [ofile EXCEPT ![p] = IF files = 1 THEN [@ EXCEPT ![a] = f[1]]
                                             ELSE [@ EXCEPT ![a] = f[1], ![b] = f[2]]]
            /\ ftable' = IF files = 1 THEN [ftable EXCEPT ![f[1]].type = "inode"] ELSE ftable
            /\ Return(p)
    /\ UNCHANGED <<alive, pipe>>

\* An entry with one reference less.
Drop(e) == IF e.ref > 1 THEN [e EXCEPT !.ref = @ - 1] ELSE NoFile

\* Faulty: closes the end of the pipe with every descriptor.
CloseShared(p, f, after) ==
    /\ ftable[f].ref > 0
    /\ ftable' = [ftable EXCEPT ![f] = Drop(@)]
    /\ Go(p, IF ftable[f].type # "pipe" THEN after ELSE [after EXCEPT !.ff = ftable[f]])

\* fileclose up to its release of ftable.lock; after is how the caller goes on.
\* The iput of an inode's file is in module Fs.
fileclose(p, f, after) ==
    /\ ftable[f].ref > 0
    /\ ftable' = [ftable EXCEPT ![f] = Drop(@)]
    /\ Go(p, IF ftable[f].ref > 1 \/ ftable[f].type # "pipe" THEN after
             ELSE [after EXCEPT !.ff = ftable[f]])

\* The rest of fileclose: pipeclose, with the copy of the entry.
pipeclose(p) ==
    LET k == th[p].ff.pipe
        q == IF th[p].ff.w THEN [pipe[k] EXCEPT !.writeopen = FALSE]
             ELSE [pipe[k] EXCEPT !.readopen = FALSE] IN
    /\ th[p].ff # NoFile
    /\ pipe' = [pipe EXCEPT ![k] = IF q.readopen \/ q.writeopen THEN q ELSE NoPipe]
    /\ Go(p, [th[p] EXCEPT !.ff = NoFile])
    /\ UNCHANGED <<ftable, ofile, alive>>

\* A failing sys_open or sys_pipe gives back the files it has.
bad(p) ==
    LET k == IF th[p].f[1] # 0 THEN 1 ELSE 2 IN
    /\ th[p].pc = "bad" /\ th[p].ff = NoFile
    /\ IF th[p].f[k] = 0 THEN Return(p) /\ UNCHANGED ftable
       ELSE fileclose(p, th[p].f[k], [th[p] EXCEPT !.f[k] = 0])
    /\ UNCHANGED <<ofile, alive, pipe>>

\* sys_dup: fdalloc and filedup.
sys_dup(p, fd) ==
    LET f == ofile[p][fd] IN
    /\ p \in alive /\ th[p] = Out /\ f # 0 /\ FreeFds(p) # {}
    /\ ofile' = [ofile EXCEPT ![p][Least(FreeFds(p))] = f]
    /\ ftable' = [ftable EXCEPT ![f].ref = @ + 1]
    /\ UNCHANGED <<alive, pipe, th>>

sys_close(p, fd) ==
    /\ p \in alive /\ th[p] = Out /\ ofile[p][fd] # 0
    /\ ofile' = [ofile EXCEPT ![p][fd] = 0]
    /\ fileclose(p, ofile[p][fd], Out)
    /\ UNCHANGED <<alive, pipe>>

\* fork: filedup for the next descriptor that is open; the child runs when all
\* are done.
fork(p) ==
    LET np == th[p].np
        Rest == {fd \in Fd : ofile[p][fd] # 0 /\ ofile[np][fd] = 0}
        f == ofile[p][Least(Rest)] IN
    /\ th[p].pc = "fork"
    /\ IF Rest = {} THEN alive' = alive \cup {np} /\ Return(p) /\ UNCHANGED <<ofile, ftable>>
       ELSE /\ ofile' = [ofile EXCEPT ![np][Least(Rest)] = f]
            /\ ftable' = [ftable EXCEPT ![f].ref = @ + 1]
            /\ UNCHANGED <<alive, th>>
    /\ UNCHANGED pipe

\* exit: fileclose for the next descriptor that is open, which is cleared.
exit(p) ==
    LET Rest == Fd \ FreeFds(p)  fd == Least(Rest) IN
    /\ th[p].pc = "exit" /\ th[p].ff = NoFile
    /\ IF Rest = {} THEN alive' = alive \ {p} /\ Return(p) /\ UNCHANGED <<ofile, ftable>>
       ELSE /\ ofile' = [ofile EXCEPT ![p][fd] = 0]
            /\ fileclose(p, ofile[p][fd], th[p])
            /\ UNCHANGED alive
    /\ UNCHANGED pipe

Init ==
    /\ ftable = [f \in File |-> NoFile]
    /\ ofile = [p \in Proc |-> [fd \in Fd |-> 0]]
    /\ alive = {Least(Proc)}
    /\ pipe = [k \in Pipe |-> NoPipe]
    /\ th = [p \in Proc |-> Out]

Next ==
    \E p \in Proc :
        \/ \E op \in Calls[p] : begin(p, op)
        \/ filealloc(p) \/ pipealloc(p) \/ fdalloc(p) \/ pipeclose(p) \/ bad(p)
        \/ fork(p) \/ exit(p)
        \/ \E fd \in Fd : sys_dup(p, fd) \/ sys_close(p, fd)

Spec == Init /\ [][Next]_vars

-----------------------------------------------------------------------------
(* Properties *)

\* The descriptors of a process and, above them, the files that its call has.
Slot == 0 .. NOFILE + 1
Refers(p, i) == IF i < NOFILE THEN ofile[p][i] ELSE th[p].f[i - NOFILE + 1]
Holders(f) == {h \in Proc \X Slot : Refers(h[1], h[2]) = f}

\* The count of a file is the number of descriptors that refer to it and of
\* calls that are making one, whatever fails and however they interleave.
FilesCounted == \A f \in File : ftable[f].ref = Cardinality(Holders(f))

\* An end of a pipe is open as long as a file refers to it or is being closed,
\* and the page is freed with the last end: no reader waits for a writer that
\* is gone, and no page leaks.
Ends(k, w) == {f \in File : ftable[f].type = "pipe" /\ ftable[f].pipe = k
                            /\ ftable[f].w = w /\ ftable[f].ref > 0}
Closing(k, w) == {p \in Proc : th[p].ff.type = "pipe" /\ th[p].ff.pipe = k /\ th[p].ff.w = w}
PipesCounted ==
    \A k \in Pipe :
        /\ pipe[k].readopen <=> Ends(k, FALSE) # {} \/ Closing(k, FALSE) # {}
        /\ pipe[k].writeopen <=> Ends(k, TRUE) # {} \/ Closing(k, TRUE) # {}
        /\ pipe[k].page <=> pipe[k].readopen \/ pipe[k].writeopen

\* The reference count of a file (filealloc, filedup, fileclose) is the number
\* of descriptors and calls that refer to it, whatever fails in between; an end
\* of a pipe is open while a file refers to it, and the pipe is freed with its
\* last end (pipealloc, pipeclose), however fork, exit and close interleave.
TablesCounted == TypeOK /\ FilesCounted /\ PipesCounted

-----------------------------------------------------------------------------
(* The inductive invariant *)

\* What is not in use is as fileclose leaves it, and a pipe's file has a pipe.
FileInv ==
    \A f \in File : /\ ftable[f].ref = 0 => ftable[f] = NoFile
                    /\ ftable[f].type = "pipe" => ftable[f].pipe \in Pipe

\* The call has not yet given its files a type.
Untyped(t) == t.pc \in {"filealloc", "kalloc"} \/ (t.pc = "fdalloc" /\ t.op # "pipe")

\* Which files a call has at each place, and that it is the only one to refer
\* to them: they have no descriptor yet.
CallAt(p) ==
    LET t == th[p] IN
        /\ t.pc \in {"out", "fork", "exit"} => t.f[1] = 0 /\ t.f[2] = 0
        /\ t.pc = "filealloc" => t.f[2] = 0 /\ (t.f[1] # 0 => t.op = "pipe")
        /\ t.pc = "kalloc" => t.f[1] # 0 /\ t.f[2] # 0 /\ t.op = "pipe"
        /\ t.pc = "fdalloc" => t.f[1] # 0 /\ (t.f[2] # 0 <=> t.op = "pipe")
        /\ t.pc = "fork" => t.np \in Proc
        /\ t.f[1] = t.f[2] => t.f[1] = 0
        /\ \A i \in 1 .. 2 : t.f[i] # 0 =>
              /\ ftable[t.f[i]].ref = 1
              /\ Untyped(t) => ftable[t.f[i]].type = "none"
        /\ t.ff # NoFile => /\ t.pc \in {"out", "bad", "exit"}
                            /\ t.ff.type = "pipe" /\ t.ff.pipe \in Pipe
CallInv == \A p \in Proc : CallAt(p)

\* An end of a pipe has one file, or one process that is closing it.
EndInv ==
    \A k \in Pipe, w \in BOOLEAN :
        /\ \A f, g \in Ends(k, w) : f = g
        /\ \A p, q \in Closing(k, w) : p = q
        /\ Ends(k, w) = {} \/ Closing(k, w) = {}

IInv == TablesCounted /\ FileInv /\ CallInv /\ EndInv
=============================================================================
