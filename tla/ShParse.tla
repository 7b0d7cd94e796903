------------------------------ MODULE ShParse ------------------------------
(***************************************************************************)
(* The parser of sh.c, and what the syntax means.  A line is a sequence t  *)
(* of tokens as gettoken returns them ("a" is a word, "+" is >>); a word   *)
(* is known by its position.  A parse function takes a position, and       *)
(* returns the one after what it has parsed and the command, or Fails.     *)
(***************************************************************************)
EXTENDS Naturals, Sequences, FiniteSets

LOCAL INSTANCE FiniteSetsExt
LOCAL INSTANCE SequencesExt

CONSTANT MAXARGS

\* struct cmd: args are the words of an EXEC, or the descriptor and the file of
\* a REDIR; kids are the commands below it.
Cmd(type, args, kids) == [type |-> type, args |-> args, kids |-> kids]
Parsed(i, cmd) == [ok |-> TRUE, i |-> i, cmd |-> cmd]
Fails == [ok |-> FALSE, i |-> 0, cmd |-> Cmd("none", <<>>, <<>>)]

Redir == {"<", ">", "+"}
peek(t, i, S) == i <= Len(t) /\ t[i] \in S

\* redircmd for one redirection <<operator, file>>, and for several in turn.
redircmd(cmd, r) == Cmd("REDIR", <<IF r[1] = "<" THEN 0 ELSE 1, r[2]>>, <<cmd>>)
Redirected(cmd, rs) == FoldLeft(redircmd, cmd, rs)

\* The redirections from position i on, after those in rs; 0 when one has no file.
RECURSIVE parseredirs(_, _, _)
parseredirs(t, i, rs) ==
    IF ~peek(t, i, Redir) THEN [i |-> i, rs |-> rs]
    ELSE IF ~peek(t, i + 1, {"a"}) THEN [i |-> 0, rs |-> rs]
    ELSE parseredirs(t, i + 2, Append(rs, <<t[i], i + 1>>))

RECURSIVE parseline(_, _)

parseblock(t, i) ==
    LET r == parseline(t, i + 1)  rd == parseredirs(t, r.i + 1, <<>>) IN
    IF ~r.ok \/ ~peek(t, r.i, {")"}) \/ rd.i = 0 THEN Fails
    ELSE Parsed(rd.i, Redirected(r.cmd, rd.rs))

\* The loop of parseexec, with the words and the redirections so far.
RECURSIVE Words(_, _, _)
Words(t, rd, argv) ==
    IF rd.i = 0 THEN Fails
    ELSE IF rd.i > Len(t) \/ peek(t, rd.i, {"|", ")", "&", ";"})
    THEN Parsed(rd.i, Redirected(Cmd("EXEC", argv, <<>>), rd.rs))
    ELSE IF t[rd.i] # "a" \/ Len(argv) + 1 >= MAXARGS THEN Fails
    ELSE Words(t, parseredirs(t, rd.i + 1, rd.rs), Append(argv, rd.i))

parseexec(t, i) ==
    IF peek(t, i, {"("}) THEN parseblock(t, i)
    ELSE Words(t, parseredirs(t, i, <<>>), <<>>)

\* Faulty: the rest of the pipe is taken for a line of its own.
PipeIntoLine(t, i) ==
    LET r == parseexec(t, i) IN
    IF ~r.ok \/ ~peek(t, r.i, {"|"}) THEN r
    ELSE LET s == parseline(t, r.i + 1) IN
         IF s.ok THEN Parsed(s.i, Cmd("PIPE", <<>>, <<r.cmd, s.cmd>>)) ELSE Fails

RECURSIVE parsepipe(_, _)
parsepipe(t, i) ==
    LET r == parseexec(t, i) IN
    IF ~r.ok \/ ~peek(t, r.i, {"|"}) THEN r
    ELSE LET s == parsepipe(t, r.i + 1) IN
         IF s.ok THEN Parsed(s.i, Cmd("PIPE", <<>>, <<r.cmd, s.cmd>>)) ELSE Fails

\* The loop of parseline over "&".
RECURSIVE Back(_, _)
Back(t, r) ==
    IF ~r.ok \/ ~peek(t, r.i, {"&"}) THEN r
    ELSE Back(t, Parsed(r.i + 1, Cmd("BACK", <<>>, <<r.cmd>>)))

parseline(t, i) ==
    LET r == Back(t, parsepipe(t, i)) IN
    IF ~r.ok \/ ~peek(t, r.i, {";"}) THEN r
    ELSE LET s == parseline(t, r.i + 1) IN
         IF s.ok THEN Parsed(s.i, Cmd("LIST", <<>>, <<r.cmd, s.cmd>>)) ELSE Fails

parsecmd(t) ==
    LET r == parseline(t, 1) IN IF r.ok /\ r.i = Len(t) + 1 THEN r.cmd ELSE Fails.cmd

-----------------------------------------------------------------------------
(* What a line means, by splitting it at its operators, the loosest first.   *)
(* u is a sequence of positions of t.                                        *)

Depth(t, u, k) ==
    Cardinality({l \in 1 .. k : t[u[l]] = "("}) - Cardinality({l \in 1 .. k : t[u[l]] = ")"})
\* The places of operator op in u that are in no block.
Outside(t, u, op) == {k \in 1 .. Len(u) : t[u[k]] = op /\ Depth(t, u, k) = 0
                        /\ \A l \in 1 .. k : Depth(t, u, l) >= 0}
Until(u, k) == SubSeq(u, 1, k - 1)
After(u, k) == SubSeq(u, k + 1, Len(u))

\* A command of words and redirections: the files are the words after them.
Files(t, u) == {k \in 2 .. Len(u) : t[u[k]] = "a" /\ t[u[k - 1]] \in Redir}
Simple(t, u, cmd) ==
    LET ops == {k \in 1 .. Len(u) : t[u[k]] \in Redir}
        order == SetToSortSeq(ops, <) IN
    IF \E k \in ops : k + 1 \notin Files(t, u) THEN Fails.cmd
    ELSE Redirected(cmd, [k \in 1 .. Len(order) |-> <<t[u[order[k]]], u[order[k] + 1]>>])

RECURSIVE MeansLine(_, _)
MeansExec(t, u) ==
    IF u # <<>> /\ t[u[1]] = "("
    THEN LET Closing == {k \in 1 .. Len(u) : Depth(t, u, k) = 0} IN
         IF Closing = {} THEN Fails.cmd
         ELSE LET k == Min(Closing)  rest == After(u, k) IN
              IF \E l \in 1 .. Len(rest) : t[rest[l]] \notin Redir \cup {"a"}
                     \/ (t[rest[l]] = "a" /\ l \notin Files(t, rest)) THEN Fails.cmd
              ELSE Simple(t, rest, MeansLine(t, SubSeq(u, 2, k - 1)))
    ELSE IF \E k \in 1 .. Len(u) : t[u[k]] \notin Redir \cup {"a"} THEN Fails.cmd
    ELSE LET args == {k \in 1 .. Len(u) : t[u[k]] = "a"} \ Files(t, u)
             order == SetToSortSeq(args, <) IN
         IF Cardinality(args) >= MAXARGS THEN Fails.cmd
         ELSE Simple(t, u, Cmd("EXEC", [k \in 1 .. Len(order) |-> u[order[k]]], <<>>))

RECURSIVE MeansPipe(_, _)
MeansPipe(t, u) ==
    LET P == Outside(t, u, "|") IN
    IF P = {} THEN MeansExec(t, u)
    ELSE Cmd("PIPE", <<>>, <<MeansExec(t, Until(u, Min(P))), MeansPipe(t, After(u, Min(P)))>>)

RECURSIVE MeansBack(_, _)
MeansBack(t, u) ==
    IF u # <<>> /\ t[Last(u)] = "&" THEN Cmd("BACK", <<>>, <<MeansBack(t, Front(u))>>)
    ELSE MeansPipe(t, u)

MeansLine(t, u) ==
    LET L == Outside(t, u, ";") IN
    IF L = {} THEN MeansBack(t, u)
    ELSE Cmd("LIST", <<>>, <<MeansBack(t, Until(u, Min(L))), MeansLine(t, After(u, Min(L)))>>)

\* A command with a part that fails, fails.
RECURSIVE Sound(_)
Sound(c) == c.type # "none" /\ \A k \in DOMAIN c.kids : Sound(c.kids[k])

\* The parser of one token of lookahead finds what the operators of the line
\* mean, and accepts no other line.
ParsesRight(t) ==
    LET m == MeansLine(t, [k \in 1 .. Len(t) |-> k]) IN
    parsecmd(t) = IF Sound(m) THEN m ELSE Fails.cmd
=============================================================================
