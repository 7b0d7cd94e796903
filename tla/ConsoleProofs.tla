--------------------------- MODULE ConsoleProofs ----------------------------
(***************************************************************************)
(* Console keeps its invariant and implements Lines, for any processes and *)
(* characters, and any INPUT_BUF that divides the number of values of the  *)
(* counters.                                                               *)
(***************************************************************************)
EXTENDS Console, Integers, TLAPS

\* A leaf that names no prover is tried with SMT, then with Zenon.
USE SMTT(30), ZenonT(30)

\* What the constants stand for: 128 divides 2^32, and '\n' and C('D') are
\* characters.
Sizes ==
    /\ INPUT_BUF \in Nat \ {0} /\ UMAX \in Nat
    /\ INPUT_BUF < UMAX /\ UMAX % INPUT_BUF = 0
    /\ Newline \in Char /\ Eof \in Char /\ None \notin Proc
    /\ Counts \subseteq Nat

Uint == 0 .. UMAX - 1

-----------------------------------------------------------------------------
(* Unsigned arithmetic *)

\* Division with remainder.
LEMMA DivMod ==
  ASSUME NEW a \in Nat, NEW m \in Nat \ {0}
  PROVE  /\ a \div m \in Nat /\ a % m \in 0 .. m - 1
         /\ a = m * (a \div m) + (a % m)
BY Z3

\* A number below the modulus is its own remainder; one that overflowed once
\* has lost the modulus.
LEMMA Remainder ==
  ASSUME NEW a \in Nat, NEW m \in Nat \ {0}, a < 2 * m
  PROVE  a % m = IF a < m THEN a ELSE a - m
<1>1. a < m => a % m = a
  BY Z3
<1>2. a >= m => a % m = a - m
  BY Z3
<1> QED
  BY <1>1, <1>2

\* A positive multiple of the modulus is not below it.
LEMMA Times ==
  ASSUME NEW d \in Int, NEW m \in Nat \ {0}, d >= 1
  PROVE  m * d >= m
BY Z3

\* Quotient and remainder are unique.
LEMMA Unique ==
  ASSUME NEW m \in Nat \ {0}, NEW q \in Int, NEW y \in 0 .. m - 1,
         NEW s \in Int, NEW t \in 0 .. m - 1, m * q + y = m * s + t
  PROVE  y = t
<1>1. m * (q - s) = t - y /\ m * (s - q) = y - t
  BY Z3
<1>2. ~(q - s >= 1)
  BY <1>1, Times, Z3
<1>3. ~(s - q >= 1)
  BY <1>1, Times, Z3
<1> QED
  BY <1>1, <1>2, <1>3, Z3

\* Wrapping a counter around does not change its index into the ring.
LEMMA Multiple ==
  ASSUME NEW a \in Nat, NEW m \in Nat \ {0}, NEW u \in Nat, u % m = 0
  PROVE  (a + u) % m = a % m
<1> DEFINE q == a \div m  s == u \div m  t == (a + u) \div m
<1>1. a + u \in Nat
  OBVIOUS
<1>2. /\ q \in Nat /\ s \in Nat /\ t \in Nat
      /\ a % m \in 0 .. m - 1 /\ (a + u) % m \in 0 .. m - 1
  BY <1>1, DivMod, ZenonT(30)
<1>3. a = m * q + (a % m) /\ u = m * s + (u % m) /\ a + u = m * t + ((a + u) % m)
  BY <1>1, DivMod
<1> HIDE DEF q, s, t
<1>4. m * t + ((a + u) % m) = m * (q + s) + (a % m)
  BY <1>2, <1>3, Z3
<1>5. q + s \in Int /\ t \in Int
  BY <1>2
<1> QED
  BY <1>2, <1>4, <1>5, Unique, ZenonT(30)

\* Numbers less than the size of the ring apart have different places in it.
LEMMA Apart ==
  ASSUME NEW a \in Nat, NEW b \in Nat, NEW m \in Nat \ {0}, a < b, b < a + m
  PROVE  a % m # b % m
<1> DEFINE q == a \div m  s == b \div m
<1> SUFFICES ASSUME a % m = b % m PROVE FALSE
  OBVIOUS
<1>1. q \in Nat /\ s \in Nat
  BY DivMod, ZenonT(30)
<1>2. a = m * q + (a % m) /\ b = m * s + (b % m)
  BY DivMod
<1>3. b - a = m * (s - q)
  BY <1>1, <1>2, Z3
<1>4. CASE s - q >= 1
  BY <1>1, <1>3, <1>4, Times, Z3
<1>5. CASE s - q <= 0
  <2>1. m * (s - q) <= 0
    BY <1>1, <1>5, Z3
  <2> QED
    BY <2>1, <1>3, Z3
<1> QED
  BY <1>1, <1>4, <1>5, Z3

-----------------------------------------------------------------------------
(* Counters and the part of the ring between two of them *)

Part(f, a, b) == [k \in 1 .. Sub(b, a) |-> f[(a + k - 1) % INPUT_BUF]]

LEMMA SubIs ==
  ASSUME Sizes, NEW a \in Uint, NEW b \in Uint
  PROVE  /\ Sub(b, a) = IF a <= b THEN b - a ELSE b + UMAX - a
         /\ Sub(b, a) \in Uint /\ Sub(b, a) \in Nat
         /\ Sub(b, a) = 0 <=> a = b
<1> DEFINE x == b + UMAX - a
<1>1. UMAX \in Nat \ {0}
  BY DEF Sizes
<1>2. x \in Nat /\ x < 2 * UMAX /\ (x < UMAX <=> b < a) /\ x - UMAX = b - a
  BY <1>1 DEF Uint
<1> HIDE DEF x
<1>3. x % UMAX = IF x < UMAX THEN x ELSE x - UMAX
  BY <1>1, <1>2, Remainder, ZenonT(30)
<1>4. Sub(b, a) = x % UMAX
  BY DEF Sub, x
<1>5. Sub(b, a) = IF a <= b THEN b - a ELSE b + UMAX - a
  BY <1>1, <1>2, <1>3, <1>4 DEF Uint, x
<1> QED
  BY <1>1, <1>5 DEF Uint

LEMMA AddIs ==
  ASSUME Sizes, NEW a \in Uint, NEW k \in Uint
  PROVE  /\ Add(a, k) = IF a + k < UMAX THEN a + k ELSE a + k - UMAX
         /\ Add(a, k) \in Uint
<1> DEFINE x == a + k
<1>1. UMAX \in Nat \ {0} /\ x \in Nat /\ x < 2 * UMAX
  BY DEF Sizes, Uint
<1> HIDE DEF x
<1>2. x % UMAX = IF x < UMAX THEN x ELSE x - UMAX
  BY <1>1, Remainder, ZenonT(30)
<1>3. Add(a, k) = x % UMAX
  BY DEF Add, x
<1> QED
  BY <1>1, <1>2, <1>3 DEF x, Uint

\* A counter that is k ahead of another one, wrapped or not, has its place in
\* the ring k further.
LEMMA RingPlace ==
  ASSUME Sizes, NEW a \in Uint, NEW k \in Uint
  PROVE  /\ Add(a, k) % INPUT_BUF = (a + k) % INPUT_BUF
         /\ (a + k) % INPUT_BUF \in 0 .. INPUT_BUF - 1
<1>1. INPUT_BUF \in Nat \ {0} /\ UMAX \in Nat /\ a \in Nat /\ k \in Nat /\ a + k \in Nat
  BY DEF Sizes, Uint
<1>2. CASE a + k < UMAX
  BY <1>1, <1>2, AddIs, DivMod
<1>3. CASE ~(a + k < UMAX)
  <2>1. PICK x \in Nat : x = a + k - UMAX
    BY <1>1, <1>3
  <2>2. (x + UMAX) % INPUT_BUF = x % INPUT_BUF
    BY <1>1, <2>1, Multiple, ZenonT(30) DEF Sizes
  <2>3. x + UMAX = a + k /\ Add(a, k) = x
    BY <1>1, <1>3, <2>1, AddIs
  <2> QED
    BY <1>1, <2>2, <2>3, DivMod, ZenonT(30)
<1> QED
  BY <1>2, <1>3

LEMMA Ahead ==
  ASSUME Sizes, NEW a \in Uint, NEW b \in Uint
  PROVE  b % INPUT_BUF = (a + Sub(b, a)) % INPUT_BUF
<1>1. Sub(b, a) \in Uint
  BY SubIs
<1>2. Add(a, Sub(b, a)) = b
  <2>1. PICK k \in Uint : k = Sub(b, a)
    BY <1>1
  <2>2. k = IF a <= b THEN b - a ELSE b + UMAX - a
    BY <2>1, SubIs
  <2>3. Add(a, k) = IF a + k < UMAX THEN a + k ELSE a + k - UMAX
    BY AddIs
  <2>4. UMAX \in Nat
    BY DEF Sizes
  <2> QED
    BY <2>1, <2>2, <2>3, <2>4 DEF Uint
<1> QED
  BY <1>1, <1>2, RingPlace

\* Slice, in either state.
LEMMA SliceIs ==
  ASSUME Sizes, NEW f, NEW a \in Uint, NEW b \in Uint
  PROVE  [k \in 1 .. Sub(b, a) |-> f[Add(a, k - 1) % INPUT_BUF]] = Part(f, a, b)
<1>1. ASSUME NEW k \in 1 .. Sub(b, a)
      PROVE  f[Add(a, k - 1) % INPUT_BUF] = f[(a + k - 1) % INPUT_BUF]
  <2>1. k - 1 \in Uint /\ a + (k - 1) = a + k - 1
    BY SubIs DEF Uint, Sizes
  <2> QED
    BY <2>1, RingPlace
<1> QED
  BY <1>1, ZenonT(30) DEF Part

\* The places of a part that does not fill the ring differ from the next one.
LEMMA PartKept ==
  ASSUME Sizes, NEW f, NEW g, NEW a \in Uint, NEW b \in Uint, NEW x \in Uint,
         Sub(b, a) <= Sub(x, a), Sub(x, a) < INPUT_BUF,
         \A y \in 0 .. INPUT_BUF - 1 : y # x % INPUT_BUF => g[y] = f[y]
  PROVE  Part(g, a, b) = Part(f, a, b)
<1>1. ASSUME NEW k \in 1 .. Sub(b, a)
      PROVE  g[(a + k - 1) % INPUT_BUF] = f[(a + k - 1) % INPUT_BUF]
  <2>1. INPUT_BUF \in Nat \ {0} /\ a \in Nat /\ Sub(b, a) \in Nat /\ Sub(x, a) \in Nat
    BY SubIs DEF Sizes, Uint
  <2>2. /\ a + k - 1 \in Nat /\ a + Sub(x, a) \in Nat
        /\ a + k - 1 < a + Sub(x, a) /\ a + Sub(x, a) < a + k - 1 + INPUT_BUF
    BY <2>1
  <2>3. (a + k - 1) % INPUT_BUF # (a + Sub(x, a)) % INPUT_BUF
    BY <2>1, <2>2, Apart, ZenonT(30)
  <2>4. (a + k - 1) % INPUT_BUF # x % INPUT_BUF
    BY <2>3, Ahead
  <2>5. (a + k - 1) % INPUT_BUF \in 0 .. INPUT_BUF - 1
    BY <2>1, <2>2, DivMod
  <2> QED
    BY <2>4, <2>5
<1> QED
  BY <1>1, ZenonT(30) DEF Part

\* Two parts next to each other.
LEMMA PartJoin ==
  ASSUME Sizes, NEW f, NEW a \in Uint, NEW b \in Uint, NEW x \in Uint,
         Sub(b, a) + Sub(x, b) < UMAX
  PROVE  /\ Sub(x, a) = Sub(b, a) + Sub(x, b)
         /\ Part(f, a, x) = Part(f, a, b) \o Part(f, b, x)
<1>1. /\ Sub(b, a) \in Nat /\ Sub(x, b) \in Nat /\ a \in Nat /\ b \in Nat
      /\ INPUT_BUF \in Nat \ {0} /\ UMAX \in Nat
  BY SubIs DEF Uint, Sizes
<1>0. /\ Sub(b, a) = IF a <= b THEN b - a ELSE b + UMAX - a
      /\ Sub(x, b) = IF b <= x THEN x - b ELSE x + UMAX - b
      /\ Sub(x, a) = IF a <= x THEN x - a ELSE x + UMAX - a
  BY SubIs
<1>2. Sub(x, a) = Sub(b, a) + Sub(x, b)
  BY <1>0, <1>1 DEF Uint
<1>3. ASSUME NEW k \in 1 .. Sub(x, b)
      PROVE  f[(b + k - 1) % INPUT_BUF] = f[(a + (Sub(b, a) + k) - 1) % INPUT_BUF]
  <2>1. CASE a + Sub(b, a) = b
    <3>1. b + k - 1 = a + (Sub(b, a) + k) - 1
      BY <1>1, <2>1
    <3> QED
      BY <3>1
  <2>2. CASE a + Sub(b, a) = b + UMAX
    <3>1. PICK y \in Nat : y = b + k - 1
      BY <1>1
    <3>2. (y + UMAX) % INPUT_BUF = y % INPUT_BUF
      BY <1>1, <3>1, Multiple, ZenonT(30) DEF Sizes
    <3>3. y + UMAX = a + (Sub(b, a) + k) - 1
      BY <1>1, <2>2, <3>1
    <3> QED
      BY <3>1, <3>2, <3>3
  <2> QED
    BY <1>0, <1>1, <2>1, <2>2
<1> DEFINE At(k) == f[(a + k - 1) % INPUT_BUF]
           s == Sub(b, a)  t == Sub(x, b)
<1>4. Part(f, b, x) = [k \in 1 .. t |-> At(s + k)]
  BY <1>3, ZenonT(30) DEF Part
<1>5. Part(f, a, b) = [k \in 1 .. s |-> At(k)] /\ Part(f, a, x) = [k \in 1 .. s + t |-> At(k)]
  BY <1>2 DEF Part
<1>6. s \in Nat /\ t \in Nat
  BY <1>1
<1> HIDE DEF At, s, t
<1>7. [k \in 1 .. s + t |-> At(k)] = [k \in 1 .. s |-> At(k)] \o [k \in 1 .. t |-> At(s + k)]
  BY <1>6
<1> QED
  BY <1>2, <1>4, <1>5, <1>7, ZenonT(30)

LEMMA PartNone ==
  ASSUME Sizes, NEW f, NEW a \in Uint
  PROVE  Part(f, a, a) = <<>>
<1>1. Sub(a, a) = 0
  BY SubIs
<1> QED
  BY <1>1 DEF Part

\* The successor of a counter, and the part between the two.
LEMMA PartOne ==
  ASSUME Sizes, NEW f, NEW a \in Uint
  PROVE  /\ Add(a, 1) \in Uint /\ Sub(Add(a, 1), a) = 1
         /\ Part(f, a, Add(a, 1)) = <<f[a % INPUT_BUF]>>
<1>1. UMAX \in Nat /\ 1 \in Uint /\ a \in Nat /\ a < UMAX
  BY DEF Sizes, Uint
<1>2. PICK b \in Uint : b = Add(a, 1)
  BY <1>1, AddIs
<1>3. b = IF a + 1 < UMAX THEN a + 1 ELSE a + 1 - UMAX
  BY <1>1, <1>2, AddIs
<1>4. Sub(b, a) = IF a <= b THEN b - a ELSE b + UMAX - a
  BY SubIs
<1>5. Sub(b, a) = 1
  BY <1>1, <1>3, <1>4 DEF Uint
<1>6. a + 1 - 1 = a
  BY <1>1
<1>7. Part(f, a, b) = [k \in 1 .. 1 |-> f[(a + k - 1) % INPUT_BUF]]
  BY <1>5 DEF Part
<1> DEFINE At(k) == f[(a + k - 1) % INPUT_BUF]
<1>8. At(1) = f[a % INPUT_BUF] /\ Part(f, a, b) = [k \in 1 .. 1 |-> At(k)]
  BY <1>6, <1>7
<1> HIDE DEF At
<1>9. [k \in 1 .. 1 |-> At(k)] = <<At(1)>>
  OBVIOUS
<1> QED
  BY <1>2, <1>5, <1>8, <1>9

\* input.buf[input.e++ % INPUT_BUF] = c
LEMMA PartPut ==
  ASSUME Sizes, NEW f, NEW g, NEW a \in Uint, NEW b \in Uint, Sub(b, a) < INPUT_BUF,
         \A y \in 0 .. INPUT_BUF - 1 : y # b % INPUT_BUF => g[y] = f[y]
  PROVE  /\ Sub(Add(b, 1), a) = Sub(b, a) + 1
         /\ Part(g, a, Add(b, 1)) = Append(Part(f, a, b), g[b % INPUT_BUF])
<1> DEFINE c == g[b % INPUT_BUF]
<1>1. /\ INPUT_BUF \in Nat \ {0} /\ UMAX \in Nat /\ INPUT_BUF < UMAX
      /\ Sub(b, a) \in Nat /\ b \in Nat
  BY SubIs DEF Sizes, Uint
<1>4. Part(g, a, b) = Part(f, a, b)
  <2>1. Sub(b, a) <= Sub(b, a)
    BY <1>1
  <2> QED
    BY <2>1, PartKept, ZenonT(30)
<1>5. Add(b, 1) \in Uint /\ Sub(Add(b, 1), b) = 1 /\ Part(g, b, Add(b, 1)) = <<c>>
  BY PartOne
<1>6. Sub(b, a) + Sub(Add(b, 1), b) < UMAX
  BY <1>1, <1>5
<1>7. /\ Sub(Add(b, 1), a) = Sub(b, a) + Sub(Add(b, 1), b)
      /\ Part(g, a, Add(b, 1)) = Part(g, a, b) \o Part(g, b, Add(b, 1))
  BY <1>5, <1>6, PartJoin, ZenonT(30)
<1>8. PICK s : s = Part(f, a, b) /\ s \in Seq({f[k] : k \in Int})
  <2> DEFINE At(k) == f[(a + k - 1) % INPUT_BUF]
             S == {f[k] : k \in Int}
  <2>1. Part(f, a, b) = [k \in 1 .. Sub(b, a) |-> At(k)]
    BY DEF Part
  <2>2. \A k \in 1 .. Sub(b, a) : At(k) \in S
    <3>1. ASSUME NEW k \in 1 .. Sub(b, a)  PROVE (a + k - 1) % INPUT_BUF \in Int
      <4>1. a + k - 1 \in Nat
        BY <1>1 DEF Uint
      <4> QED
        BY <1>1, <4>1, DivMod
    <3> QED
      BY <3>1
  <2> HIDE DEF At, S
  <2>3. [k \in 1 .. Sub(b, a) |-> At(k)] \in Seq(S)
    BY <1>1, <2>2
  <2> QED
    BY <2>1, <2>3, ZenonT(30) DEF S
<1>9. s \o <<c>> = Append(s, c)
  BY <1>8
<1> QED
  BY <1>4, <1>5, <1>7, <1>8, <1>9, ZenonT(30)

\* c = input.buf[input.r++ % INPUT_BUF]
LEMMA PartGet ==
  ASSUME Sizes, NEW f, NEW a \in Uint, NEW b \in Uint, a # b
  PROVE  /\ Add(a, 1) \in Uint /\ Sub(b, Add(a, 1)) = Sub(b, a) - 1
         /\ Part(f, a, b) = <<f[a % INPUT_BUF]>> \o Part(f, Add(a, 1), b)
<1>1. UMAX \in Nat /\ a \in Nat /\ b \in Nat /\ 1 \in Uint /\ a < UMAX /\ b < UMAX
  BY DEF Sizes, Uint
<1>2. PICK x \in Uint : x = Add(a, 1)
  BY PartOne
<1>3. Sub(x, a) = 1 /\ Part(f, a, x) = <<f[a % INPUT_BUF]>>
  BY <1>2, PartOne
<1>4. x = IF a + 1 < UMAX THEN a + 1 ELSE a + 1 - UMAX
  BY <1>1, <1>2, AddIs
<1>5. /\ Sub(b, x) = IF x <= b THEN b - x ELSE b + UMAX - x
      /\ Sub(b, a) = IF a <= b THEN b - a ELSE b + UMAX - a
  BY SubIs
<1>6. Sub(b, x) = Sub(b, a) - 1 /\ Sub(x, a) + Sub(b, x) < UMAX
  BY <1>1, <1>3, <1>4, <1>5 DEF Uint
<1>7. Part(f, a, b) = Part(f, a, x) \o Part(f, x, b)
  BY <1>6, PartJoin, ZenonT(30)
<1> QED
  BY <1>2, <1>3, <1>6, <1>7

\* input.e--
LEMMA PartBack ==
  ASSUME Sizes, NEW f, NEW a \in Uint, NEW b \in Uint, a # b
  PROVE  /\ Sub(b, 1) \in Uint /\ Sub(Sub(b, 1), a) = Sub(b, a) - 1
         /\ Part(f, a, Sub(b, 1)) = [k \in 1 .. Sub(b, a) - 1 |-> Part(f, a, b)[k]]
<1>1. UMAX \in Nat /\ a \in Nat /\ b \in Nat /\ 1 \in Uint /\ a < UMAX /\ b < UMAX
  BY DEF Sizes, Uint
<1>2. PICK x \in Uint : x = Sub(b, 1)
  BY <1>1, SubIs
<1>3. x = IF 1 <= b THEN b - 1 ELSE b + UMAX - 1
  BY <1>1, <1>2, SubIs, ZenonT(30)
<1>4. /\ Sub(x, a) = IF a <= x THEN x - a ELSE x + UMAX - a
      /\ Sub(b, a) = IF a <= b THEN b - a ELSE b + UMAX - a
  BY SubIs
<1>5. Sub(x, a) = Sub(b, a) - 1 /\ Sub(b, a) \in Nat
  BY <1>1, <1>3, <1>4 DEF Uint
<1>6. ASSUME NEW k \in 1 .. Sub(b, a) - 1
      PROVE  f[(a + k - 1) % INPUT_BUF] = Part(f, a, b)[k]
  <2>1. k \in 1 .. Sub(b, a)
    BY <1>5
  <2> QED
    BY <2>1 DEF Part
<1> QED
  BY <1>2, <1>5, <1>6, ZenonT(30) DEF Part

\* input.e == input.r + INPUT_BUF
LEMMA FullIs ==
  ASSUME Sizes, NEW a \in Uint, NEW b \in Uint
  PROVE  b = Add(a, INPUT_BUF) <=> Sub(b, a) = INPUT_BUF
<1>1. UMAX \in Nat /\ INPUT_BUF \in Uint /\ a \in Nat /\ b \in Nat /\ a < UMAX /\ b < UMAX
  BY DEF Sizes, Uint
<1>2. Add(a, INPUT_BUF) = IF a + INPUT_BUF < UMAX THEN a + INPUT_BUF ELSE a + INPUT_BUF - UMAX
  BY <1>1, AddIs
<1>3. Sub(b, a) = IF a <= b THEN b - a ELSE b + UMAX - a
  BY SubIs
<1> QED
  BY <1>1, <1>2, <1>3 DEF Uint

-----------------------------------------------------------------------------
(* The two queues of Lines *)

LEMMA Types ==
  ASSUME Sizes, TypeOK
  PROVE  /\ r \in Uint /\ w \in Uint /\ e \in Uint
         /\ Sub(w, r) \in Nat /\ Sub(e, w) \in Nat /\ Sub(e, r) \in Nat
         /\ Slice(r, w) = Part(buf, r, w) /\ Slice(w, e) = Part(buf, w, e)
         /\ DOMAIN buf = 0 .. INPUT_BUF - 1
<1>1. r \in Uint /\ w \in Uint /\ e \in Uint
  BY DEF TypeOK, Uint
<1>2. Sub(w, r) \in Nat /\ Sub(e, w) \in Nat /\ Sub(e, r) \in Nat
  BY <1>1, SubIs
<1>3. Slice(r, w) = Part(buf, r, w) /\ Slice(w, e) = Part(buf, w, e)
  BY <1>1, SliceIs, ZenonT(30) DEF Slice
<1>4. DOMAIN buf = 0 .. INPUT_BUF - 1
  BY DEF TypeOK
<1> QED
  BY <1>1, <1>2, <1>3, <1>4

LEMMA NextSlices ==
  ASSUME Sizes, r' \in Uint, w' \in Uint, e' \in Uint
  PROVE  Slice(r, w)' = Part(buf', r', w') /\ Slice(w, e)' = Part(buf', w', e')
<1>1. /\ Slice(r, w)' = [k \in 1 .. Sub(w', r') |-> buf'[Add(r', k - 1) % INPUT_BUF]]
      /\ Slice(w, e)' = [k \in 1 .. Sub(e', w') |-> buf'[Add(w', k - 1) % INPUT_BUF]]
  BY DEF Slice, Sub, Add
<1> QED
  BY <1>1, SliceIs, ZenonT(30)

\* The counters tell how much there is.
LEMMA Lengths ==
  ASSUME Sizes, IInv
  PROVE  /\ Len(Slice(r, w)) = Sub(w, r) /\ Len(Slice(w, e)) = Sub(e, w)
         /\ Sub(e, r) = Sub(w, r) + Sub(e, w)
         /\ Sub(w, r) + Sub(e, w) <= INPUT_BUF
         /\ Sub(w, r) + Sub(e, w) < UMAX
<1>1. TypeOK /\ Sub(w, r) + Sub(e, w) <= INPUT_BUF
  BY DEF IInv, RingInv
<1>2. /\ r \in Uint /\ w \in Uint /\ e \in Uint
      /\ Sub(w, r) \in Nat /\ Sub(e, w) \in Nat
      /\ Slice(r, w) = Part(buf, r, w) /\ Slice(w, e) = Part(buf, w, e)
  BY <1>1, Types
<1>3. Sub(w, r) + Sub(e, w) < UMAX
  BY <1>1, <1>2 DEF Sizes
<1>4. Sub(e, r) = Sub(w, r) + Sub(e, w)
  BY <1>2, <1>3, PartJoin, ZenonT(30)
<1>5. Len(Part(buf, r, w)) = Sub(w, r) /\ Len(Part(buf, w, e)) = Sub(e, w)
  BY <1>2 DEF Part
<1> QED
  BY <1>1, <1>2, <1>3, <1>4, <1>5

\* Nothing happens to the queues as long as the input stays as it is.
LEMMA Kept ==
  ASSUME IInv, UNCHANGED inputvars
  PROVE  /\ RingInv' /\ UNCHANGED L!vars
         /\ buf' = buf /\ r' = r /\ w' = w /\ e' = e
<1>1. buf' = buf /\ r' = r /\ w' = w /\ e' = e
  BY DEF inputvars
<1>2. Slice(r, w)' = Slice(r, w) /\ Slice(w, e)' = Slice(w, e)
  BY <1>1 DEF Slice
<1>3. RingInv'
  BY <1>1, <1>2 DEF IInv, RingInv
<1> QED
  BY <1>1, <1>2, <1>3 DEF L!vars

-----------------------------------------------------------------------------
(* consoleintr *)

\* Sleepers wake up or nothing happens to the calls.
LEMMA CallsKept ==
  ASSUME Sizes, IInv, pc' = Wakeup \/ pc' = pc,
         UNCHANGED <<iplock, n, target, got, killed>>
  PROVE  OneLine' /\ CallInv' /\ InodeFree' /\ pc' \in [Proc -> Place]
<1>1. pc \in [Proc -> Place]
  BY DEF IInv, TypeOK
<1>2. pc' \in [Proc -> Place]
  BY <1>1 DEF Wakeup, Place
<1>3. \A p \in Proc : pc'[p] = pc[p] \/ (pc[p] = "asleep" /\ pc'[p] = "read")
  BY <1>1 DEF Wakeup
<1>4. OneLine'
  BY <1>3 DEF IInv, OneLine
<1>5. CallInv'
  BY <1>3 DEF IInv, CallInv
<1>6. InodeFree'
  BY <1>3 DEF IInv, InodeFree
<1> QED
  BY <1>2, <1>4, <1>5, <1>6

LEMMA TypeStep ==
  ASSUME Sizes, IInv, ~Locked, NEW c \in Char, TypeChar(c)
  PROVE  IInv' /\ L!Type(c)
<1> DEFINE s == Slice(r, w)  t == Slice(w, e)  commit == c \in {Newline, Eof} \/ e' = Add(r, INPUT_BUF)
<1>1. /\ TypeOK /\ s \in Seq(Char) /\ t \in Seq(Char \ {Newline, Eof})
      /\ e' = Add(e, 1) /\ r' = r
  BY DEF IInv, RingInv, TypeChar
<1>0. Sub(e, r) < INPUT_BUF /\ Sub(w, r) + Sub(e, w) <= INPUT_BUF
  BY DEF IInv, RingInv, TypeChar, Room
<1>2. /\ r \in Uint /\ w \in Uint /\ e \in Uint
      /\ Sub(w, r) \in Nat /\ Sub(e, w) \in Nat /\ Sub(e, r) \in Nat
      /\ s = Part(buf, r, w) /\ t = Part(buf, w, e) /\ DOMAIN buf = 0 .. INPUT_BUF - 1
  BY <1>1, Types
<1>3. /\ Len(s) = Sub(w, r) /\ Len(t) = Sub(e, w)
      /\ Sub(e, r) = Sub(w, r) + Sub(e, w)
  BY Lengths
<1>4. INPUT_BUF \in Nat \ {0} /\ UMAX \in Nat /\ INPUT_BUF < UMAX
  BY DEF Sizes
<1>5. e' \in Uint
  BY <1>1, <1>2, PartOne, ZenonT(30)
<1>6. /\ \A y \in 0 .. INPUT_BUF - 1 : y # e % INPUT_BUF => buf'[y] = buf[y]
      /\ buf'[e % INPUT_BUF] = c
      /\ buf' \in [0 .. INPUT_BUF - 1 -> Char \cup {None}]
  <2>1. e \in Nat /\ e % INPUT_BUF \in 0 .. INPUT_BUF - 1
    BY <1>2, <1>4, DivMod DEF Uint
  <2>2. buf \in [0 .. INPUT_BUF - 1 -> Char \cup {None}]
    BY <1>1 DEF TypeOK
  <2>3. buf' = [buf EXCEPT ![e % INPUT_BUF] = c]
    BY DEF TypeChar
  <2> QED
    BY <2>1, <2>2, <2>3
<1>7. Part(buf', r, w) = s
  <2>1. Sub(w, r) <= Sub(e, r)
    BY <1>2, <1>3
  <2> QED
    BY <1>0, <1>2, <1>6, <2>1, PartKept, ZenonT(30)
<1>8. Sub(e', w) = Sub(e, w) + 1 /\ Part(buf', w, e') = Append(t, c)
  <2>1. Sub(e, w) < INPUT_BUF
    BY <1>0, <1>2, <1>3, <1>4
  <2>2. /\ Sub(Add(e, 1), w) = Sub(e, w) + 1
        /\ Part(buf', w, Add(e, 1)) = Append(Part(buf, w, e), buf'[e % INPUT_BUF])
    BY <1>2, <1>6, <2>1, PartPut, ZenonT(30)
  <2> QED
    BY <1>1, <1>2, <1>6, <2>2
<1>9. Sub(e', r) = Sub(w, r) + Sub(e, w) + 1 /\ Part(buf', r, e') = s \o Append(t, c)
  <2>1. Sub(w, r) + Sub(e', w) < UMAX
    BY <1>0, <1>2, <1>3, <1>4, <1>8
  <2>2. /\ Sub(e', r) = Sub(w, r) + Sub(e', w)
        /\ Part(buf', r, e') = Part(buf', r, w) \o Part(buf', w, e')
    BY <1>2, <1>5, <2>1, PartJoin, ZenonT(30)
  <2>3. Sub(w, r) + (Sub(e, w) + 1) = Sub(w, r) + Sub(e, w) + 1
    BY <1>2
  <2> QED
    BY <1>7, <1>8, <2>2, <2>3
<1>10. commit <=> c \in {Newline, Eof} \/ Sub(w, r) + Sub(e, w) + 1 = INPUT_BUF
  BY <1>2, <1>5, <1>9, FullIs
<1>11. Len(s) + Len(t) < INPUT_BUF /\ Len(Append(t, c)) = Sub(e, w) + 1
       /\ Append(t, c) \in Seq(Char) /\ s \o Append(t, c) \in Seq(Char)
  <2>1. Len(s) + Len(t) < INPUT_BUF
    BY <1>0, <1>3
  <2>2. t \in Seq(Char)
    BY <1>1
  <2> QED
    BY <1>1, <1>3, <2>1, <2>2
<1>12. CASE commit
  <2>1. w' = e' /\ pc' = Wakeup /\ UNCHANGED <<iplock, n, target, got, killed>>
    BY <1>12 DEF TypeChar
  <2>2. w' \in Uint /\ Part(buf', w', e') = <<>> /\ Sub(e', w') = 0
    BY <1>5, <2>1, PartNone, SubIs
  <2>3. Slice(r, w)' = s \o Append(t, c) /\ Slice(w, e)' = <<>>
    BY <1>1, <1>2, <1>5, <1>9, <2>1, <2>2, NextSlices, ZenonT(30)
  <2>4. RingInv'
    <3>1. Sub(w, r)' = Sub(e', r) /\ Sub(e, w)' = 0
      BY <1>1, <2>1, <2>2 DEF Sub
    <3>2. Sub(e', r) + 0 <= INPUT_BUF
      BY <1>0, <1>2, <1>3, <1>4, <1>9
    <3>3. <<>> \in Seq(Char \ {Newline, Eof})
      OBVIOUS
    <3> QED
      BY <1>11, <2>3, <3>1, <3>2, <3>3 DEF RingInv
  <2>5. OneLine' /\ CallInv' /\ InodeFree' /\ pc' \in [Proc -> Place]
    BY <2>1, CallsKept
  <2>6. TypeOK'
    BY <1>1, <1>2, <1>5, <1>6, <2>1, <2>2, <2>5 DEF TypeOK, Uint
  <2>7. NoLostWakeup'
    BY <2>1 DEF NoLostWakeup, Wakeup, Locked
  <2>8. L!Type(c)
    BY <1>3, <1>10, <1>11, <1>12, <2>3 DEF L!Type
  <2> QED
    BY <2>4, <2>5, <2>6, <2>7, <2>8 DEF IInv
<1>13. CASE ~commit
  <2>1. w' = w /\ pc' = pc /\ UNCHANGED <<iplock, n, target, got, killed>>
    BY <1>13 DEF TypeChar
  <2>2. Slice(r, w)' = s /\ Slice(w, e)' = Append(t, c)
    BY <1>1, <1>2, <1>5, <1>7, <1>8, <2>1, NextSlices
  <2>3. Append(t, c) \in Seq(Char \ {Newline, Eof})
    BY <1>1, <1>13
  <2>4. RingInv'
    <3>1. Sub(w, r)' = Sub(w, r) /\ Sub(e, w)' = Sub(e', w)
      BY <1>1, <2>1 DEF Sub
    <3>2. Sub(w, r) + Sub(e', w) <= INPUT_BUF
      BY <1>0, <1>2, <1>3, <1>4, <1>8
    <3> QED
      BY <1>1, <2>2, <2>3, <3>1, <3>2 DEF RingInv
  <2>5. OneLine' /\ CallInv' /\ InodeFree' /\ pc' \in [Proc -> Place]
    BY <2>1, CallsKept
  <2>6. TypeOK'
    BY <1>1, <1>2, <1>5, <1>6, <2>1, <2>5 DEF TypeOK, Uint
  <2>7. NoLostWakeup'
    BY <1>1, <2>1 DEF IInv, NoLostWakeup
  <2>8. L!Type(c)
    BY <1>3, <1>10, <1>11, <1>13, <2>2 DEF L!Type
  <2> QED
    BY <2>4, <2>5, <2>6, <2>7, <2>8 DEF IInv
<1> QED
  BY <1>12, <1>13

\* Editing moves e back to a place not before w.
LEMMA EditStep ==
  ASSUME Sizes, IInv, e' \in Uint, Sub(e', w) <= Sub(e, w), Sub(e', w) \in Nat,
         Part(buf, w, e') = [k \in 1 .. Sub(e', w) |-> Slice(w, e)[k]],
         UNCHANGED <<buf, r, w, iplock, callvars, killed>>
  PROVE  /\ IInv' /\ Slice(r, w)' = Slice(r, w)
         /\ Slice(w, e)' = [k \in 1 .. Sub(e', w) |-> Slice(w, e)[k]]
<1> DEFINE t == Slice(w, e)  u == [k \in 1 .. Sub(e', w) |-> t[k]]
<1>1. /\ TypeOK /\ Slice(r, w) \in Seq(Char) /\ t \in Seq(Char \ {Newline, Eof})
      /\ Sub(w, r) + Sub(e, w) <= INPUT_BUF
  BY DEF IInv, RingInv
<1>2. /\ buf' = buf /\ r' = r /\ w' = w /\ pc' = pc
      /\ UNCHANGED <<iplock, n, target, got, killed>>
  BY DEF callvars
<1>3. /\ r \in Uint /\ w \in Uint /\ e \in Uint
      /\ Sub(w, r) \in Nat /\ Sub(e, w) \in Nat
      /\ Slice(r, w) = Part(buf, r, w) /\ t = Part(buf, w, e)
  BY <1>1, Types
<1>4. Len(t) = Sub(e, w)
  BY Lengths
<1>5. Slice(r, w)' = Slice(r, w) /\ Slice(w, e)' = u
  <2>1. Slice(r, w)' = Part(buf', r', w') /\ Slice(w, e)' = Part(buf', w', e')
    BY <1>2, <1>3, NextSlices
  <2> QED
    BY <1>2, <1>3, <2>1
<1>6. u \in Seq(Char \ {Newline, Eof})
  BY <1>1, <1>3, <1>4
<1>7. RingInv'
  <2>1. Sub(w, r)' = Sub(w, r) /\ Sub(e, w)' = Sub(e', w)
    BY <1>2 DEF Sub
  <2>2. INPUT_BUF \in Nat
    BY DEF Sizes
  <2>3. Sub(w, r) + Sub(e', w) <= INPUT_BUF
    BY <1>1, <1>3, <2>2
  <2> QED
    BY <1>1, <1>5, <1>6, <2>1, <2>3 DEF RingInv
<1>8. OneLine' /\ CallInv' /\ InodeFree'
  BY <1>2, CallsKept
<1>9. TypeOK'
  BY <1>1, <1>2 DEF TypeOK, Uint
<1>10. NoLostWakeup'
  BY <1>2 DEF IInv, NoLostWakeup
<1> QED
  BY <1>5, <1>7, <1>8, <1>9, <1>10 DEF IInv

LEMMA BackspaceStep ==
  ASSUME Sizes, IInv, Backspace
  PROVE  IInv' /\ L!Erase
<1> DEFINE t == Slice(w, e)
<1>1. TypeOK /\ t \in Seq(Char \ {Newline, Eof})
  BY DEF IInv, RingInv
<1>2. e # w /\ e' = Sub(e, 1) /\ UNCHANGED <<buf, r, w, iplock, callvars, killed>>
  BY DEF Backspace
<1>3. /\ w \in Uint /\ e \in Uint /\ Sub(e, w) \in Nat /\ t = Part(buf, w, e)
      /\ Len(t) = Sub(e, w)
  BY <1>1, Types, Lengths
<1>4. /\ e' \in Uint /\ Sub(e', w) = Sub(e, w) - 1
      /\ Part(buf, w, e') = [k \in 1 .. Sub(e, w) - 1 |-> t[k]]
  BY <1>2, <1>3, PartBack
<1>5. Sub(e, w) # 0
  BY <1>2, <1>3, SubIs
<1>6. Sub(e', w) <= Sub(e, w) /\ Sub(e', w) \in Nat
  BY <1>3, <1>4, <1>5
<1>7. /\ IInv' /\ Slice(r, w)' = Slice(r, w)
      /\ Slice(w, e)' = [k \in 1 .. Sub(e', w) |-> t[k]]
  BY <1>2, <1>4, <1>6, EditStep
<1>8. SubSeq(t, 1, Len(t) - 1) = [k \in 1 .. Len(t) - 1 |-> t[k]]
  BY <1>1
<1>9. t # <<>>
  BY <1>1, <1>3, <1>5
<1> QED
  BY <1>3, <1>4, <1>7, <1>8, <1>9 DEF L!Erase, L!Front

LEMMA KillLineStep ==
  ASSUME Sizes, IInv, KillLine
  PROVE  IInv' /\ L!EraseLine
<1> DEFINE t == Slice(w, e)
           stops == {k \in 0 .. Sub(e, w) :
                       k = Sub(e, w) \/ buf[Sub(e, k + 1) % INPUT_BUF] = Newline}
           stop == CHOOSE k \in stops : \A j \in stops : k <= j
<1>1. TypeOK /\ t \in Seq(Char \ {Newline, Eof})
  BY DEF IInv, RingInv
<1>2. e' = Sub(e, stop) /\ UNCHANGED <<buf, r, w, iplock, callvars, killed>>
  BY DEF KillLine
<1>3. /\ w \in Uint /\ e \in Uint /\ Sub(e, w) \in Nat /\ t = Part(buf, w, e)
      /\ Len(t) = Sub(e, w)
  BY <1>1, Types, Lengths
<1>4. ASSUME NEW k \in 0 .. Sub(e, w) - 1
      PROVE  buf[Sub(e, k + 1) % INPUT_BUF] # Newline
  <2>1. UMAX \in Nat /\ w \in Nat /\ e \in Nat /\ w < UMAX /\ e < UMAX
    BY <1>3 DEF Sizes, Uint
  <2>2. Sub(e, w) = IF w <= e THEN e - w ELSE e + UMAX - w
    BY <1>3, SubIs
  <2>3. PICK m \in Uint : m = k + 1
    BY <1>3, <2>1, <2>2 DEF Uint
  <2>4. PICK x \in Uint : x = Sub(e, m)
    BY <1>3, SubIs
  <2>5. /\ x = IF m <= e THEN e - m ELSE e + UMAX - m
        /\ Sub(x, w) = IF w <= x THEN x - w ELSE x + UMAX - w
    BY <1>3, <2>4, SubIs
  <2>6. Sub(x, w) = Sub(e, w) - k - 1
    BY <1>3, <2>1, <2>2, <2>3, <2>5 DEF Uint
  <2>7. PICK j \in 1 .. Sub(e, w) : j = Sub(e, w) - k
    BY <1>3
  <2>8. w + Sub(x, w) = w + j - 1
    BY <1>3, <2>1, <2>6, <2>7
  <2>9. x % INPUT_BUF = (w + Sub(x, w)) % INPUT_BUF
    BY <1>3, Ahead, ZenonT(30)
  <2>10. t[j] = buf[x % INPUT_BUF]
    BY <1>3, <2>7, <2>8, <2>9 DEF Part
  <2>11. t[j] # Newline
    BY <1>1, <1>3
  <2> QED
    BY <2>3, <2>4, <2>10, <2>11
<1>5. stop = Sub(e, w)
  <2>1. Sub(e, w) \in stops /\ \A k \in stops : k = Sub(e, w)
    BY <1>3, <1>4
  <2>2. Sub(e, w) <= Sub(e, w)
    BY <1>3
  <2> HIDE DEF stops
  <2>3. \E k \in stops : \A j \in stops : k <= j
    BY <2>1, <2>2
  <2>4. stop \in stops
    BY <2>3
  <2> QED
    BY <2>1, <2>4
<1> HIDE DEF stop
<1>6. e' = w
  <2>1. UMAX \in Nat /\ w \in Nat /\ e \in Nat /\ w < UMAX /\ e < UMAX
    BY <1>3 DEF Sizes, Uint
  <2>2. PICK m \in Uint : m = Sub(e, w)
    BY <1>3, SubIs
  <2>3. /\ m = IF w <= e THEN e - w ELSE e + UMAX - w
        /\ Sub(e, m) = IF m <= e THEN e - m ELSE e + UMAX - m
    BY <1>3, <2>2, SubIs
  <2>4. Sub(e, m) = w
    BY <2>1, <2>3 DEF Uint
  <2> QED
    BY <1>2, <1>5, <2>2, <2>4
<1>7. Sub(e', w) = 0 /\ Part(buf, w, e') = <<>>
  BY <1>3, <1>6, SubIs, PartNone
<1>8. [k \in 1 .. 0 |-> t[k]] = <<>>
  OBVIOUS
<1>9. e' \in Uint /\ Sub(e', w) <= Sub(e, w) /\ Sub(e', w) \in Nat
  BY <1>3, <1>6, <1>7
<1>10. /\ IInv' /\ Slice(r, w)' = Slice(r, w)
       /\ Slice(w, e)' = [k \in 1 .. Sub(e', w) |-> t[k]]
  BY <1>2, <1>7, <1>8, <1>9, EditStep
<1> QED
  BY <1>7, <1>8, <1>10 DEF L!EraseLine

-----------------------------------------------------------------------------
(* consoleread and consolewrite *)

\* A character leaves the queue.
LEMMA TakeStep ==
  ASSUME Sizes, IInv, r # w, r' = Add(r, 1), UNCHANGED <<buf, w, e>>
  PROVE  RingInv' /\ r' \in Uint /\ L!Take
<1> DEFINE s == Slice(r, w)  c == buf[r % INPUT_BUF]
<1>1. /\ TypeOK /\ s \in Seq(Char) /\ Slice(w, e) \in Seq(Char \ {Newline, Eof})
      /\ Sub(w, r) + Sub(e, w) <= INPUT_BUF
  BY DEF IInv, RingInv
<1>2. /\ r \in Uint /\ w \in Uint /\ e \in Uint
      /\ Sub(w, r) \in Nat /\ Sub(e, w) \in Nat
      /\ s = Part(buf, r, w) /\ Slice(w, e) = Part(buf, w, e) /\ Len(s) = Sub(w, r)
  BY <1>1, Types, Lengths
<1>3. /\ r' \in Uint /\ Sub(w, r') = Sub(w, r) - 1
      /\ s = <<c>> \o Part(buf, r', w)
  BY <1>2, PartGet, ZenonT(30)
<1>4. Sub(w, r) # 0
  BY <1>2, SubIs
<1>5. Slice(r, w)' = Part(buf, r', w) /\ Slice(w, e)' = Slice(w, e)
  BY <1>2, <1>3, NextSlices
<1>6. s # <<>> /\ Part(buf, r', w) = Tail(s) /\ Tail(s) \in Seq(Char)
  <2> DEFINE u == Part(buf, r', w)
             At(k) == s[k]
  <2>1. PICK z \in Nat : z = Sub(w, r) - 1
    BY <1>2, <1>4
  <2>2. PICK v : v = u /\ v = [k \in 1 .. z |-> v[k]]
    BY <1>3, <2>1, ZenonT(30) DEF Part
  <2>3. \A k \in 1 .. z : (<<c>> \o v)[k + 1] = v[k]
    BY <2>1, <2>2
  <2>4. u = [k \in 1 .. z |-> At(k + 1)]
    BY <1>3, <2>2, <2>3, ZenonT(30)
  <2>5. z + 1 = Sub(w, r) /\ s = [k \in 1 .. z + 1 |-> At(k)]
    BY <1>2, <2>1 DEF Part
  <2>6. \A k \in 1 .. z + 1 : At(k) \in Char
    BY <1>1, <1>2, <2>5
  <2> HIDE DEF At
  <2>7. Tail([k \in 1 .. z + 1 |-> At(k)]) = [k \in 1 .. z |-> At(k + 1)]
    BY <2>1
  <2>8. [k \in 1 .. z |-> At(k + 1)] \in Seq(Char)
    BY <2>1, <2>6
  <2>9. s # <<>>
    BY <1>2, <1>4
  <2> QED
    BY <2>4, <2>5, <2>7, <2>8, <2>9, ZenonT(30)
<1>7. RingInv'
  <2>1. Sub(w, r)' = Sub(w, r') /\ Sub(e, w)' = Sub(e, w)
    BY DEF Sub
  <2>2. INPUT_BUF \in Nat
    BY DEF Sizes
  <2>3. Sub(w, r') + Sub(e, w) <= INPUT_BUF
    BY <1>1, <1>2, <1>3, <2>2
  <2> QED
    BY <1>1, <1>5, <1>6, <2>1, <2>3 DEF RingInv
<1> QED
  BY <1>3, <1>5, <1>6, <1>7 DEF L!Take

\* The character at r is one of the queue.
LEMMA NextChar ==
  ASSUME Sizes, IInv, r # w
  PROVE  buf[r % INPUT_BUF] \in Char
<1>1. TypeOK /\ Slice(r, w) \in Seq(Char)
  BY DEF IInv, RingInv
<1>2. /\ r \in Uint /\ w \in Uint /\ Sub(w, r) \in Nat
      /\ Slice(r, w) = Part(buf, r, w) /\ Len(Slice(r, w)) = Sub(w, r)
  BY <1>1, Types, Lengths
<1>3. Sub(w, r) # 0
  BY <1>2, SubIs
<1>4. 1 \in 1 .. Sub(w, r) /\ r + 1 - 1 = r
  BY <1>2, <1>3 DEF Uint
<1>5. Slice(r, w)[1] = buf[r % INPUT_BUF]
  BY <1>2, <1>4 DEF Part
<1> QED
  BY <1>1, <1>2, <1>4, <1>5

LEMMA ReadCharStep ==
  ASSUME Sizes, IInv, NEW p \in Proc, ReadChar(p)
  PROVE  IInv' /\ [L!Take]_(L!vars)
<1> DEFINE c == buf[r % INPUT_BUF]
<1>1. /\ pc[p] = "read" /\ n[p] > 0 /\ r # w
      /\ UNCHANGED <<buf, w, e, iplock, target, killed>>
  BY DEF ReadChar
<1>2. /\ TypeOK /\ OneLine /\ CallInv /\ InodeFree
      /\ \A q \in Proc : pc[q] \notin {"tested", "asleep"}
  BY <1>1 DEF IInv, NoLostWakeup
<1>3. /\ pc \in [Proc -> Place]
      /\ n \in [Proc -> Nat] /\ got \in [Proc -> Seq(Char)]
      /\ target \in [Proc -> Counts \cup {0}]
  BY <1>2 DEF TypeOK
<1>4. c \in Char
  BY <1>1, NextChar
<1>5. RingInv' /\ r' \in Uint /\ [L!Take]_(L!vars)
  <2>1. CASE r' = r
    <3>1. UNCHANGED inputvars
      BY <1>1, <2>1 DEF inputvars
    <3> QED
      BY <1>2, <2>1, <3>1, Kept, Types
  <2>2. CASE r' = Add(r, 1)
    BY <1>1, <2>2, TakeStep
  <2> QED
    BY <2>1, <2>2 DEF ReadChar
<1>6. CASE c = Eof
  <2>1. pc' = [pc EXCEPT ![p] = "ilock"] /\ n' = n /\ got' = got
    BY <1>6 DEF ReadChar
  <2>2. OneLine'
    BY <1>1, <1>2, <1>3, <2>1 DEF OneLine
  <2>3. CallInv'
    BY <1>2, <1>3, <2>1 DEF CallInv
  <2>4. NoLostWakeup'
    BY <1>2, <1>3, <2>1 DEF NoLostWakeup
  <2>5. pc' \in [Proc -> Place] /\ InodeFree'
    BY <1>1, <1>2, <1>3, <2>1 DEF InodeFree, Place
  <2>6. TypeOK'
    BY <1>1, <1>2, <1>5, <2>1, <2>5 DEF TypeOK, Uint
  <2> QED
    BY <1>5, <2>2, <2>3, <2>4, <2>5, <2>6 DEF IInv
<1>7. CASE c # Eof
  <2>1. /\ got' = [got EXCEPT ![p] = Append(got[p], c)]
        /\ n' = [n EXCEPT ![p] = n[p] - 1]
        /\ pc' = [pc EXCEPT ![p] = IF c = Newline \/ n'[p] = 0 THEN "ilock" ELSE pc[p]]
    BY <1>7 DEF ReadChar
  <2>2. /\ n' \in [Proc -> Nat] /\ n'[p] = n[p] - 1
        /\ \A q \in Proc : q # p => n'[q] = n[q]
    BY <1>1, <1>3, <2>1
  <2>3. /\ got' \in [Proc -> Seq(Char)] /\ got'[p] = Append(got[p], c)
        /\ \A q \in Proc : q # p => got'[q] = got[q]
    BY <1>3, <1>4, <2>1
  <2>4. /\ pc' \in [Proc -> Place]
        /\ pc'[p] \in {"read", "ilock"} /\ (c = Newline => pc'[p] = "ilock")
        /\ \A q \in Proc : q # p => pc'[q] = pc[q]
    BY <1>1, <1>3, <2>1 DEF Place
  <2>5. OneLine'
    <3>1. Len(got[p]) = target[p] - n[p] /\ \A k \in DOMAIN got[p] : got[p][k] # Newline
      BY <1>1, <1>2 DEF OneLine
    <3>2. PICK s \in Seq(Char) : s = got[p]
      BY <1>3
    <3>3. /\ Len(Append(s, c)) = Len(s) + 1
          /\ \A k \in DOMAIN Append(s, c) :
                Append(s, c)[k] = Newline => k = Len(s) + 1 /\ c = Newline
      BY <3>1, <3>2
    <3>4. target[p] \in Int /\ n[p] \in Int /\ target'[p] = target[p]
      <4>1. target[p] \in Counts \cup {0} /\ n[p] \in Nat /\ target'[p] = target[p]
        BY <1>1, <1>3
      <4>2. Counts \subseteq Nat
        BY DEF Sizes
      <4>3. 0 \in Nat
        OBVIOUS
      <4>4. target[p] \in Nat
        BY <4>1, <4>2, <4>3, ZenonT(30)
      <4> QED
        BY <4>1, <4>4
    <3>5. Len(got'[p]) = target'[p] - n'[p]
      BY <2>2, <2>3, <3>1, <3>2, <3>3, <3>4
    <3>6. \A k \in DOMAIN got'[p] :
              got'[p][k] = Newline => k = Len(got'[p]) /\ pc'[p] = "ilock"
      BY <2>3, <2>4, <3>2, <3>3
    <3>7. ASSUME NEW q \in Proc, q # p
          PROVE  /\ Len(got'[q]) = target'[q] - n'[q]
                 /\ \A k \in DOMAIN got'[q] :
                       got'[q][k] = Newline => k = Len(got'[q]) /\ pc'[q] = "ilock"
      BY <1>1, <1>2, <2>2, <2>3, <2>4, <3>7, ZenonT(30) DEF OneLine
    <3> QED
      BY <3>5, <3>6, <3>7 DEF OneLine
  <2>6. CallInv'
    BY <1>2, <2>3, <2>4 DEF CallInv
  <2>7. NoLostWakeup'
    BY <1>2, <2>4 DEF NoLostWakeup
  <2>8. TypeOK'
    BY <1>1, <1>2, <1>5, <2>2, <2>3, <2>4 DEF TypeOK, Uint
  <2>9. InodeFree'
    BY <1>1, <1>2, <2>4 DEF InodeFree
  <2> QED
    BY <1>5, <2>5, <2>6, <2>7, <2>8, <2>9 DEF IInv
<1> QED
  BY <1>6, <1>7

\* The steps that leave the input alone.
CallSteps(p) ==
    \/ \E m \in Counts : Begin(p, m, "fileread")
    \/ Begin(p, 0, "filewrite")
    \/ ilock(p) \/ iunlock(p)
    \/ ReadWait(p) \/ sleep(p) \/ Write(p) \/ End(p) \/ Kill(p)

LEMMA CallStep ==
  ASSUME Sizes, IInv, NEW p \in Proc, CallSteps(p)
  PROVE  IInv' /\ UNCHANGED L!vars
<1>1. UNCHANGED inputvars
  BY DEF CallSteps, Begin, ilock, iunlock, ReadWait, sleep, Write, End, Kill
<1>2. /\ RingInv' /\ UNCHANGED L!vars /\ buf' = buf /\ r' = r /\ w' = w /\ e' = e
  BY <1>1, Kept
<1>3. TypeOK /\ OneLine /\ CallInv /\ NoLostWakeup /\ InodeFree
  BY DEF IInv
<1>4. /\ pc \in [Proc -> Place]
      /\ n \in [Proc -> Nat] /\ got \in [Proc -> Seq(Char)]
      /\ target \in [Proc -> Counts \cup {0}] /\ killed \in [Proc -> BOOLEAN]
      /\ iplock \in Proc \cup {None}
  BY <1>3 DEF TypeOK
<1>5. CASE \E m \in Counts \cup {0}, to \in {"fileread", "filewrite"} : Begin(p, m, to)
  <2>1. PICK m \in Counts \cup {0}, to \in {"fileread", "filewrite"} : Begin(p, m, to)
    BY <1>5
  <2>2. /\ pc[p] = "out" /\ pc' = [pc EXCEPT ![p] = to] /\ n' = [n EXCEPT ![p] = m]
        /\ target' = [target EXCEPT ![p] = m] /\ iplock' = iplock /\ got' = got
        /\ killed' = killed
    BY <2>1 DEF Begin
  <2>3. got[p] = <<>> /\ m \in Nat
    BY <1>3, <2>2 DEF CallInv, Sizes
  <2>4. TypeOK'
    BY <1>2, <1>3, <1>4, <2>2, <2>3 DEF TypeOK, Place
  <2>5. OneLine'
    BY <1>3, <1>4, <2>2, <2>3 DEF OneLine
  <2>6. CallInv'
    BY <1>3, <1>4, <2>2, <2>3 DEF CallInv
  <2>7. NoLostWakeup'
    BY <1>2, <1>3, <1>4, <2>2 DEF NoLostWakeup
  <2>8. InodeFree'
    BY <1>3, <1>4, <2>2 DEF InodeFree
  <2> QED
    BY <1>2, <2>4, <2>5, <2>6, <2>7, <2>8 DEF IInv
<1>6. CASE ilock(p) \/ iunlock(p) \/ ReadWait(p) \/ sleep(p) \/ Write(p) \/ Kill(p)
  <2>1. /\ UNCHANGED <<n, target, got>> /\ killed' \in [Proc -> BOOLEAN]
        /\ iplock' \in Proc \cup {None} /\ pc' \in [Proc -> Place]
        /\ \A q \in Proc : q # p => pc'[q] = pc[q]
        /\ pc[p] = "ilock" => pc'[p] = "ilock"
        /\ pc'[p] \in {"out", "fileread", "filewrite", "write"} =>
              pc[p] \in {"out", "fileread", "filewrite", "write"}
        /\ pc'[p] \in {"tested", "asleep"} => r = w
        /\ InodeFree'
    <3>1. CASE ilock(p)
      BY <1>3, <1>4, <3>1 DEF ilock, callvars, InodeFree, NoLostWakeup
    <3>2. CASE iunlock(p)
      BY <1>3, <1>4, <3>2 DEF iunlock, InodeFree, Place, Sizes
    <3>3. CASE ReadWait(p)
      BY <1>3, <1>4, <3>3 DEF ReadWait, InodeFree, Place
    <3>4. CASE sleep(p)
      BY <1>3, <1>4, <3>4 DEF sleep, InodeFree, NoLostWakeup, Place
    <3>5. CASE Write(p)
      BY <1>3, <1>4, <3>5 DEF Write, InodeFree, Place
    <3>6. CASE Kill(p)
      BY <1>3, <1>4, <3>6 DEF Kill, InodeFree, NoLostWakeup, Place
    <3> QED
      BY <1>6, <3>1, <3>2, <3>3, <3>4, <3>5, <3>6
  <2>2. TypeOK'
    BY <1>2, <1>3, <2>1 DEF TypeOK
  <2>3. OneLine'
    BY <1>3, <2>1 DEF OneLine
  <2>4. CallInv'
    BY <1>3, <2>1 DEF CallInv
  <2>5. NoLostWakeup'
    BY <1>2, <1>3, <2>1 DEF NoLostWakeup
  <2> QED
    BY <1>2, <2>1, <2>2, <2>3, <2>4, <2>5 DEF IInv
<1>7. CASE End(p)
  <2>1. /\ pc' = [pc EXCEPT ![p] = "out"] /\ n' = [n EXCEPT ![p] = 0]
        /\ target' = [target EXCEPT ![p] = 0] /\ got' = [got EXCEPT ![p] = <<>>]
        /\ iplock' = None /\ killed' = killed
    BY <1>7 DEF End
  <2>2. TypeOK'
    BY <1>2, <1>3, <1>4, <2>1 DEF TypeOK, Place
  <2>3. OneLine'
    BY <1>3, <1>4, <2>1 DEF OneLine
  <2>4. CallInv'
    BY <1>3, <1>4, <2>1 DEF CallInv
  <2>5. NoLostWakeup'
    BY <1>2, <1>3, <1>4, <2>1 DEF NoLostWakeup
  <2>6. InodeFree'
    BY <2>1 DEF InodeFree, Sizes
  <2> QED
    BY <1>2, <2>2, <2>3, <2>4, <2>5, <2>6 DEF IInv
<1> QED
  BY <1>5, <1>6, <1>7 DEF CallSteps

-----------------------------------------------------------------------------
(* Theorems *)

LEMMA InitInv ==
  ASSUME Sizes, Init
  PROVE  IInv /\ L!Init
<1>1. 0 \in Uint
  BY DEF Sizes, Uint
<1>2. r = 0 /\ w = 0 /\ e = 0
  BY DEF Init
<1>3. TypeOK
  <2>1. 0 .. UMAX - 1 = Uint
    BY DEF Uint
  <2>2. <<>> \in Seq(Char)
    OBVIOUS
  <2> QED
    BY <1>1, <1>2, <2>1, <2>2, ZenonT(30) DEF Init, TypeOK, Place
<1>4. Slice(r, w) = <<>> /\ Slice(w, e) = <<>> /\ Sub(w, r) = 0 /\ Sub(e, w) = 0
  <2>1. Slice(r, w) = Part(buf, r, w) /\ Slice(w, e) = Part(buf, w, e)
    BY <1>3, Types
  <2> QED
    BY <1>1, <1>2, <2>1, PartNone, SubIs
<1>5. RingInv
  <2>1. 0 + 0 <= INPUT_BUF
    BY DEF Sizes
  <2>2. <<>> \in Seq(Char) /\ <<>> \in Seq(Char \ {Newline, Eof})
    OBVIOUS
  <2> QED
    BY <1>4, <2>1, <2>2 DEF RingInv
<1>6. NoLostWakeup
  BY DEF Init, NoLostWakeup
<1>7. OneLine
  <2>1. ASSUME NEW p \in Proc  PROVE got[p] = <<>> /\ target[p] = 0 /\ n[p] = 0
    BY DEF Init
  <2>2. Len(<<>>) = 0 - 0 /\ DOMAIN <<>> = {}
    OBVIOUS
  <2> QED
    BY <2>1, <2>2, ZenonT(30) DEF OneLine
<1>8. CallInv
  BY DEF Init, CallInv
<1>9. InodeFree
  BY DEF Init, InodeFree, Sizes
<1> QED
  BY <1>3, <1>4, <1>5, <1>6, <1>7, <1>8, <1>9 DEF IInv, L!Init

LEMMA NextStep ==
  ASSUME Sizes, IInv, [Next]_vars
  PROVE  IInv' /\ [L!Next]_(L!vars)
<1>1. ASSUME ~Locked, NEW c \in Char, TypeChar(c)  PROVE IInv' /\ L!Next
  BY <1>1, TypeStep DEF L!Next
<1>2. CASE Backspace
  BY <1>2, BackspaceStep DEF L!Next
<1>3. CASE KillLine
  BY <1>3, KillLineStep DEF L!Next
<1>4. ASSUME NEW p \in Proc, ReadChar(p)  PROVE IInv' /\ [L!Next]_(L!vars)
  BY <1>4, ReadCharStep DEF L!Next
<1>5. ASSUME NEW p \in Proc, CallSteps(p)  PROVE IInv' /\ [L!Next]_(L!vars)
  BY <1>5, CallStep
<1>6. CASE UNCHANGED vars
  <2>1. UNCHANGED inputvars /\ UNCHANGED <<iplock, n, target, got, killed>> /\ pc' = pc
    BY <1>6 DEF vars, callvars
  <2>2. /\ RingInv' /\ UNCHANGED L!vars /\ buf' = buf /\ r' = r /\ w' = w /\ e' = e
    BY <2>1, Kept
  <2>3. OneLine' /\ CallInv' /\ InodeFree'
    BY <2>1, CallsKept
  <2>4. TypeOK'
    BY <2>1, <2>2 DEF IInv, TypeOK
  <2>5. NoLostWakeup'
    BY <2>1, <2>2 DEF IInv, NoLostWakeup
  <2> QED
    BY <2>2, <2>3, <2>4, <2>5 DEF IInv
<1> QED
  BY <1>1, <1>2, <1>3, <1>4, <1>5, <1>6 DEF Next, consoleintr, Turn, CallSteps

\* The inductive invariant of the console holds: what is typed and not read
\* fits into the ring, and the line being edited was not committed.
THEOREM ConsoleInvariant == ASSUME Sizes PROVE Spec => []IInv
<1>1. Init => IInv
  BY InitInv
<1>2. IInv /\ [Next]_vars => IInv'
  BY NextStep
<1> QED
  BY <1>1, <1>2, PTL DEF Spec

\* Nobody sleeps in consoleread while there is something to read, or with the
\* inode locked, and a read returns one line at most, however keys, readers,
\* writers and kills interleave.
THEOREM ConsoleIsSound == ASSUME Sizes PROVE Spec => [](NoLostWakeup /\ InodeFree /\ OneLine)
<1>1. IInv => NoLostWakeup /\ InodeFree /\ OneLine
  BY DEF IInv
<1> QED
  BY <1>1, ConsoleInvariant, PTL

\* consoleintr and consoleread implement a line editor in front of a queue,
\* while the counters wrap around and the ring is full.
THEOREM LinesRefined == ASSUME Sizes PROVE Spec => LinesSpec
<1>1. Init => L!Init
  BY InitInv
<1>2. IInv /\ [Next]_vars => [L!Next]_(L!vars)
  BY NextStep
<1>3. Spec => []IInv
  BY ConsoleInvariant
<1> QED
  BY <1>1, <1>2, <1>3, PTL DEF Spec, LinesSpec, L!Spec
=============================================================================
