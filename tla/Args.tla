-------------------------------- MODULE Args --------------------------------
(***************************************************************************)
(* How a system call reaches its arguments (syscall.c, sys_exec): unsigned *)
(* arithmetic on addresses of a process of size sz.  mem is what memory    *)
(* holds; an int is INT bytes and is told by its first one.                *)
(***************************************************************************)
EXTENDS Integers, Sequences

CONSTANTS
    WRAP,     \* 2^32
    INT,      \* sizeof(int)
    MAXARG    \* most arguments of exec

Failed == -1
Uint(x) == x % WRAP

fetchint(mem, sz, addr) ==
    IF addr >= sz \/ Uint(addr + INT) > sz THEN [ok |-> FALSE, val |-> 0]
    ELSE [ok |-> TRUE, val |-> mem[addr]]

\* The length of the string at addr.
fetchstr(mem, sz, addr) ==
    LET len[s \in addr .. sz] == IF s = sz THEN Failed ELSE IF mem[s] = 0 THEN s - addr ELSE len[s + 1] IN
    IF addr >= sz THEN Failed ELSE len[addr]

argint(mem, sz, esp, n) == fetchint(mem, sz, Uint(esp + INT + INT * n))

\* Faulty: takes the sum to be enough.
ArgptrSum(mem, sz, esp, n, size) ==
    LET a == argint(mem, sz, esp, n) IN
    IF ~a.ok \/ size < 0 \/ Uint(a.val + size) > sz THEN Failed ELSE a.val
argptr(mem, sz, esp, n, size) ==
    LET a == argint(mem, sz, esp, n) IN
    IF ~a.ok \/ size < 0 \/ a.val >= sz \/ Uint(a.val + size) > sz THEN Failed ELSE a.val

argstr(mem, sz, esp, n) ==
    LET a == argint(mem, sz, esp, n) IN IF a.ok THEN fetchstr(mem, sz, a.val) ELSE Failed

\* The loop of sys_exec: the addresses of the arguments, or what it failed of.
Bad == <<Failed>>

sys_exec(mem, sz, uargv) ==
    LET argv[i \in 0 .. MAXARG] ==
            LET w == fetchint(mem, sz, Uint(uargv + INT * i))
                next == argv[i + 1] IN
            IF i >= MAXARG \/ ~w.ok THEN Bad
            ELSE IF w.val = 0 THEN <<>>
            ELSE IF fetchstr(mem, sz, w.val) = Failed \/ next = Bad THEN Bad
            ELSE <<w.val>> \o next IN argv[0]

Inside(sz, a, n) == a >= 0 /\ a + n <= sz

\* No value of the stack pointer, of a pointer or of a size, wherever sums of
\* them wrap, makes the kernel take a buffer or a string for valid that does
\* not lie in the process; and one that does is taken.
ArgsInside(mem, sz, esp, size) ==
    LET p == argptr(mem, sz, esp, 0, size)  s == argstr(mem, sz, esp, 0)
        at == Uint(esp + INT)  i == argint(mem, sz, esp, 0) IN
    /\ i.ok = Inside(sz, at, INT)
    /\ p # Failed => Inside(sz, p, size)
    /\ i.ok /\ size >= 0 /\ i.val < sz /\ Inside(sz, i.val, size) => p = i.val
    /\ s # Failed => /\ Inside(sz, i.val, s + 1) /\ mem[i.val + s] = 0
                     /\ \A k \in 0 .. s - 1 : mem[i.val + k] # 0

\* The arguments of exec are strings of the process, and with the null pointer
\* that ends them they fit into argv.
ExecInside(mem, sz, uargv) ==
    LET argv == sys_exec(mem, sz, uargv) IN
    argv # Bad => /\ Len(argv) < MAXARG
                  /\ \A i \in DOMAIN argv : \E e \in argv[i] .. sz - 1 : mem[e] = 0
=============================================================================
