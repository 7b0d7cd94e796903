-------------------------------- MODULE Text --------------------------------
(***************************************************************************)
(* Printing and matching: printint and cprintf of console.c, printf.c, and *)
(* grep.c, each with what it is to compute.                                *)
(***************************************************************************)
EXTENDS Integers, Sequences, FiniteSets

LOCAL INSTANCE SequencesExt

CONSTANTS
    WIDTH,   \* bits of an int
    BUFLEN,  \* sizeof(buf) in printint
    GREPBUF  \* sizeof(buf) in grep.c

-----------------------------------------------------------------------------
(* printint.  A digit is its value, and '-' is Minus.                        *)

Minus == -1
Uint(x) == x % 2^WIDTH

Magnitude(xx, sgn) == IF sgn /\ xx < 0 THEN Uint(-xx) ELSE Uint(xx)

\* The loop that fills buf, last digit first.
RECURSIVE Digits(_, _)
Digits(x, b) == IF x \div b = 0 THEN <<x % b>> ELSE <<x % b>> \o Digits(x \div b, b)

printint(xx, b, sgn) ==
    LET buf == Digits(Magnitude(xx, sgn), b) IN
    Reverse(IF sgn /\ xx < 0 THEN Append(buf, Minus) ELSE buf)

\* The one of printf.c differs in the case of the digits only.
uprintint(xx, b, sgn) == printint(xx, b, sgn)

Value(d, b) == FoldLeft(LAMBDA v, x : v * b + x, 0, d)

\* Every int, the least one included, is printed with no needless digit and
\* reads back, and the digits fit into buf.
PrintsExactly(xx, b) ==
    LET d == printint(xx, b, TRUE)  u == uprintint(xx, b, FALSE) IN
    /\ xx = IF d[1] = Minus THEN -Value(Tail(d), b) ELSE Value(d, b)
    /\ Value(u, b) = Uint(xx) /\ (Len(u) > 1 => u[1] # 0)
    /\ Len(d) <= BUFLEN /\ Len(u) <= BUFLEN

-----------------------------------------------------------------------------
(* Formats: "d", "x" (or "p") and "s" take an argument, and in printf.c also *)
(* "c", which the kernel does not know; "q" is any other character.          *)
(* The output is a sequence of characters and of conversions of arguments.   *)

Conversions == {"d", "x", "s"}
Put(c) == <<"put", c, 0>>
Convert(c, ap) == <<"arg", c, ap>>

RECURSIVE cprintf(_, _, _)
cprintf(fmt, i, argp) ==
    IF i > Len(fmt) THEN <<>>
    ELSE IF fmt[i] # "%" THEN <<Put(fmt[i])>> \o cprintf(fmt, i + 1, argp)
    ELSE IF i = Len(fmt) THEN <<>>
    ELSE LET c == fmt[i + 1] IN
         IF c \in Conversions THEN <<Convert(c, argp)>> \o cprintf(fmt, i + 2, argp + 1)
         ELSE (IF c = "%" THEN <<Put("%")>> ELSE <<Put("%"), Put(c)>>) \o cprintf(fmt, i + 2, argp)

\* A round of the loop of printf.
printfStep(s, c) ==
    IF ~s.percent THEN IF c = "%" THEN [s EXCEPT !.percent = TRUE]
                       ELSE [s EXCEPT !.out = Append(@, Put(c))]
    ELSE IF c \in Conversions \cup {"c"}
    THEN [s EXCEPT !.percent = FALSE, !.out = Append(@, Convert(c, s.ap)), !.ap = @ + 1]
    ELSE [s EXCEPT !.percent = FALSE,
                   !.out = IF c = "%" THEN Append(@, Put("%")) ELSE @ \o <<Put("%"), Put(c)>>]
printf(fmt) == FoldLeft(printfStep, [percent |-> FALSE, out |-> <<>>, ap |-> 1], fmt).out

\* The printf of the kernel, which looks ahead, and the one of user programs,
\* which keeps a state, print the same and take the same arguments, for all
\* formats of the conversions that the comments on both name.
PrintersAgree(fmt) == "c" \notin Range(fmt) => cprintf(fmt, 1, 1) = printf(fmt)

-----------------------------------------------------------------------------
(* grep.c: the matcher.  A text is a sequence of characters.                 *)

First(s) == IF s = <<>> THEN "nul" ELSE Head(s)
Second(s) == IF Len(s) < 2 THEN "nul" ELSE s[2]

RECURSIVE matchhere(_, _)

matchstar(c, re, text) ==
    LET f[k \in 0 .. Len(text)] ==
            \/ matchhere(re, SubSeq(text, k + 1, Len(text)))
            \/ k < Len(text) /\ (text[k + 1] = c \/ c = ".") /\ f[k + 1] IN f[0]

matchhere(re, text) ==
    IF re = <<>> THEN TRUE
    ELSE IF Second(re) = "*" THEN matchstar(Head(re), SubSeq(re, 3, Len(re)), text)
    ELSE IF re = <<"$">> THEN text = <<>>
    ELSE text # <<>> /\ (Head(re) = "." \/ Head(re) = Head(text)) /\ matchhere(Tail(re), Tail(text))

match(re, text) ==
    IF First(re) = "^" THEN matchhere(Tail(re), text)
    ELSE \E k \in 0 .. Len(text) : matchhere(re, SubSeq(text, k + 1, Len(text)))

\* What a pattern means: items, each one character or any number of one, and
\* the ways to cut a part of the text into pieces for them.
RECURSIVE Items(_)
Items(re) ==
    IF re = <<>> THEN <<>>
    ELSE IF Second(re) = "*" THEN <<<<Head(re), "many">>>> \o Items(SubSeq(re, 3, Len(re)))
    ELSE <<<<Head(re), "one">>>> \o Items(Tail(re))
Cuts(n, a, b) == {c \in [0 .. n -> a .. b] : c[0] = a /\ c[n] = b /\ \A k \in 1 .. n : c[k - 1] <= c[k]}
Fits(item, piece) ==
    /\ item[2] = "one" => Len(piece) = 1
    /\ \A k \in DOMAIN piece : item[1] \in {".", piece[k]}
Matches(re, text) ==
    LET body == IF First(re) = "^" THEN Tail(re) ELSE re
        all == Items(body)
        anchored == all # <<>> /\ Last(all) = <<"$", "one">>
        items == IF anchored THEN Front(all) ELSE all IN
    \E a, b \in 0 .. Len(text) :
        /\ First(re) = "^" => a = 0
        /\ anchored => b = Len(text)
        /\ \E c \in Cuts(Len(items), a, b) : \A k \in 1 .. Len(items) :
               Fits(items[k], SubSeq(text, c[k - 1] + 1, c[k]))

\* The backtracking matcher finds a match exactly where there is one.
MatchesExactly(re, text) == match(re, text) = Matches(re, text)

-----------------------------------------------------------------------------
(* grep.c: the buffer.  A file is a sequence of characters; "n" is '\n'.     *)

\* The inner loop, on the full lines of buf.
Newlines(s) == {k \in DOMAIN s : s[k] = "n"}
RECURSIVE Printed(_, _)
Printed(re, s) ==
    IF Newlines(s) = {} THEN <<>>
    ELSE LET q == CHOOSE k \in Newlines(s) : \A l \in Newlines(s) : k <= l
             line == SubSeq(s, 1, q - 1) IN
         (IF match(re, line) THEN <<line>> ELSE <<>>) \o Printed(re, SubSeq(s, q + 1, Len(s)))

\* Faulty: starts every read with an empty buffer.
RemainsNot(s) == <<>>

\* What stays in the buffer: the start of a line, unless it is all there is.
Remains(s) ==
    IF Newlines(s) = {} THEN <<>>
    ELSE LET p == CHOOSE k \in Newlines(s) : \A l \in Newlines(s) : k >= l IN SubSeq(s, p + 1, Len(s))

\* grep, for reads that return as much as fits: those of a file.
RECURSIVE grep(_, _, _)
grep(re, buf, rest) ==
    LET room == GREPBUF - Len(buf) - 1  n == IF Len(rest) < room THEN Len(rest) ELSE room
        s == buf \o SubSeq(rest, 1, n) IN
    IF n = 0 THEN <<>> ELSE Printed(re, s) \o grep(re, Remains(s), SubSeq(rest, n + 1, Len(rest)))

\* The lines of a file, and whether each of them fits into the buffer.
Starts(s) == {1} \cup {k + 1 : k \in Newlines(s)}
FitsBuffer(s) == \A k \in Starts(s) : k + GREPBUF - 2 <= Len(s) => \E l \in k .. k + GREPBUF - 2 : s[l] = "n"

\* Whatever the reads cut apart, grep writes the complete lines that match and
\* no other, if no line is as long as its buffer.
GrepsExactly(re, s) == FitsBuffer(s) => grep(re, <<>>, s) = Printed(re, s)
=============================================================================
