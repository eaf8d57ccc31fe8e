------------------------- MODULE TransparencyProofs -------------------------
(***************************************************************************)
(* The transparency log, proved for trees of any size (Merkle, TwoLogs)    *)
(* and for any number of accounts, instances and checks (Witness).         *)
(*                                                                         *)
(* Merkle's functions are recursive.  That a recursion ends, and what it   *)
(* computes, is proved by least element: each function is first shown to   *)
(* exist, by induction on the size of a span or on a number, and from then *)
(* on only its equation is used.  The prover goes down the tree and the    *)
(* verifier up its levels by halving indices; that they meet is the part   *)
(* about nodes.  Then come the rows of a table, and the witness.           *)
(***************************************************************************)
EXTENDS Witness, TwoLogs, TLAPS, WellFoundedInduction, SequenceTheorems, FiniteSetTheorems

\* A set of naturals that is not empty has a least element: the one induction everything below uses.
LEMMA Least ==
  ASSUME NEW S, S \subseteq Nat, S # {}
  PROVE  \E n \in S : \A m \in S : n <= m
<1>1. IsWellFoundedOn(OpToRel(<, Nat), Nat)
  BY NatLessThanWellFounded
<1> DEFINE R == OpToRel(<, Nat)
<1>2. \A x, y \in Nat : x < y => <<x, y>> \in R
  BY DEF OpToRel
<1> HIDE DEF R
<1>3. PICK n \in S : \A y \in S : ~(<<y, n>> \in R)
  BY <1>1, WFMin DEF R
<1>4. ASSUME NEW m \in S PROVE n <= m
  <2>1. n \in Nat /\ m \in Nat
    OBVIOUS
  <2>2. ~(m < n)
    BY <1>2, <1>3, <2>1, Zenon
  <2> QED
    BY <2>1, <2>2
<1> QED
  BY <1>4

\* Induction as a statement about a set, which the provers can instantiate.
LEMMA Induct ==
  ASSUME NEW S, 0 \in S, \A n \in Nat : n \in S => n + 1 \in S
  PROVE  Nat \subseteq S
<1> SUFFICES ASSUME Nat \ S # {} PROVE FALSE
  OBVIOUS
<1>1. PICK n \in Nat \ S : \A m \in Nat \ S : n <= m
  BY Least, Zenon
<1> QED
  BY <1>1

----------------------------------------------------------------------------
(* Powers of two.                                                          *)
Doubling(S) == 1 \in S /\ \A q \in S : 2 * q \in S
\* The powers of two: the least set with 1 that is closed under doubling.
Pow2 == {p \in Nat : \A S \in SUBSET Nat : Doubling(S) => p \in S}

\* One is a power of two.
LEMMA PowerOne == 1 \in Pow2
BY DEF Pow2, Doubling

\* ... and so is twice a power of two.
LEMMA PowerDoubles ==
  ASSUME NEW p \in Pow2
  PROVE  2 * p \in Pow2
<1>1. p \in Nat /\ 2 * p \in Nat
  BY DEF Pow2
<1> QED
  BY <1>1 DEF Pow2, Doubling

\* Induction over the powers of two.
LEMMA PowerInduct ==
  ASSUME NEW S, 1 \in S, \A q \in Pow2 : q \in S => 2 * q \in S
  PROVE  Pow2 \subseteq S
<1> DEFINE U == Pow2 \cap S
<1>1. U \in SUBSET Nat /\ Doubling(U)
  BY PowerOne, PowerDoubles DEF Doubling, Pow2
<1>2. Pow2 \subseteq U
  BY <1>1, Zenon DEF Pow2
<1> QED
  BY <1>2

\* Powers of two are positive, and all but 1 are twice another.
LEMMA PowerShape ==
  /\ \A p \in Pow2 : p \in Nat /\ p >= 1
  /\ \A p \in Pow2 : p # 1 => \E q \in Pow2 : p = 2 * q
<1>1. Pow2 \subseteq {p \in Nat : p >= 1}
  <2> DEFINE U == {p \in Nat : p >= 1}
  <2>1. 1 \in U /\ \A q \in Pow2 : q \in U => 2 * q \in U
    OBVIOUS
  <2> HIDE DEF U
  <2>2. Pow2 \subseteq U
    BY <2>1, PowerInduct
  <2> QED
    BY <2>2 DEF U
<1>2. Pow2 \subseteq {p \in Nat : p # 1 => \E q \in Pow2 : p = 2 * q}
  <2> DEFINE U == {p \in Nat : p # 1 => \E q \in Pow2 : p = 2 * q}
  <2>1. 1 \in U /\ \A q \in Pow2 : q \in U => 2 * q \in U
    BY <1>1
  <2> HIDE DEF U
  <2>2. Pow2 \subseteq U
    BY <2>1, PowerInduct
  <2> QED
    BY <2>2 DEF U
<1> QED
  BY <1>1, <1>2

(* Between two powers of two there is a factor of two at least.            *)
LEMMA PowersApart ==
  ASSUME NEW p \in Pow2, NEW q \in Pow2, p < q
  PROVE  2 * p <= q
<1> DEFINE U == {r \in Nat : \A s \in Pow2 : s < r => 2 * s <= r}
<1>1. 1 \in U
  BY PowerShape
<1>2. ASSUME NEW r \in Pow2, r \in U PROVE 2 * r \in U
  <2>1. r \in Nat /\ r >= 1
    BY PowerShape
  <2>2. ASSUME NEW s \in Pow2, s < 2 * r PROVE 2 * s <= 2 * r
    <3>1. s \in Nat
      BY PowerShape
    <3>2. CASE s = 1
      BY <2>1, <3>2
    <3>3. CASE s # 1
      <4>1. PICK h \in Pow2 : s = 2 * h
        BY PowerShape, <3>3
      <4>2. h \in Nat /\ h < r
        BY <2>1, <2>2, <4>1, PowerShape
      <4>3. 2 * h <= r
        BY <1>2, <4>2
      <4> QED
        BY <2>1, <3>1, <4>1, <4>2, <4>3
    <3> QED
      BY <3>2, <3>3
  <2> QED
    BY <2>1, <2>2
<1> HIDE DEF U
<1>3. Pow2 \subseteq U
  BY <1>1, <1>2, PowerInduct
<1> QED
  BY <1>3 DEF U

(* So there is one power of two at most strictly below n and not below its half. *)
LEMMA PowerUnique ==
  ASSUME NEW p \in Pow2, NEW q \in Pow2, NEW n \in Nat,
         p < n, n <= 2 * p, q < n, n <= 2 * q
  PROVE  p = q
<1>1. p \in Nat /\ q \in Nat
  BY PowerShape
<1>2. ~(p < q)
  BY <1>1, PowersApart
<1>3. ~(q < p)
  BY <1>1, PowersApart
<1> QED
  BY <1>1, <1>2, <1>3

(***************************************************************************)
(* A recursive function is what its equation says once some function       *)
(* satisfies the equation: CHOOSE then takes one.  That one exists is      *)
(* proved by induction on a rank its calls lower.                          *)
(***************************************************************************)
DoubleBody(g, n, k) == IF 2 * k < n THEN g[2 * k] ELSE k

\* The doubling of split_point ends: the recursive function is defined for every size.
LEMMA DoubleExists ==
  ASSUME NEW n \in Nat
  PROVE  \E g : g = [k \in 1..n |-> DoubleBody(g, n, k)]
<1> DEFINE U == {j \in Nat : \E g : \A k \in 1..n : n - k < j => g[k] = DoubleBody(g, n, k)}
<1>1. 0 \in U
  OBVIOUS
<1>2. ASSUME NEW j \in Nat, j \in U PROVE j + 1 \in U
  <2>1. PICK g : \A k \in 1..n : n - k < j => g[k] = DoubleBody(g, n, k)
    BY <1>2
  <2> DEFINE h == [k \in 1..n |-> DoubleBody(g, n, k)]
  <2>2. ASSUME NEW k \in 1..n, n - k < j + 1 PROVE h[k] = DoubleBody(h, n, k)
    <3>1. h[k] = DoubleBody(g, n, k)
      OBVIOUS
    <3>2. CASE 2 * k < n
      <4>1. 2 * k \in 1..n /\ n - 2 * k < j
        BY <2>2, <3>2
      <4>2. h[2 * k] = g[2 * k]
        BY <2>1, <4>1
      <4> QED
        BY <3>1, <3>2, <4>2 DEF DoubleBody
    <3>3. CASE ~(2 * k < n)
      BY <3>1, <3>3 DEF DoubleBody
    <3> QED
      BY <3>2, <3>3
  <2> HIDE DEF h
  <2>3. \E f : \A k \in 1..n : n - k < j + 1 => f[k] = DoubleBody(f, n, k)
    BY <2>2, Zenon
  <2> QED
    BY <2>3
<1> HIDE DEF U
<1>3. n \in U
  BY <1>1, <1>2, Induct
<1>4. PICK g : \A k \in 1..n : n - k < n => g[k] = DoubleBody(g, n, k)
  BY <1>3 DEF U
<1> DEFINE h == [k \in 1..n |-> g[k]]
<1>5. ASSUME NEW k \in 1..n PROVE h[k] = DoubleBody(h, n, k)
  <2>1. n - k < n
    OBVIOUS
  <2>2. h[k] = DoubleBody(g, n, k)
    BY <1>4, <2>1
  <2>3. 2 * k < n => 2 * k \in 1..n
    OBVIOUS
  <2> QED
    BY <2>2, <2>3 DEF DoubleBody
<1>6. h = [k \in 1..n |-> DoubleBody(h, n, k)]
  BY <1>5
<1> QED
  BY <1>6, Zenon

(* SplitPoint is the power of two strictly below n and not below its half. *)
LEMMA SplitPointIs ==
  ASSUME NEW n \in Nat, n > 1
  PROVE  /\ SplitPoint(n) \in Pow2 /\ SplitPoint(n) \in Nat
         /\ 1 <= SplitPoint(n) /\ SplitPoint(n) < n /\ n <= 2 * SplitPoint(n)
<1> DEFINE double == CHOOSE g : g = [k \in 1..n |-> DoubleBody(g, n, k)]
<1>1. double = [k \in 1..n |-> DoubleBody(double, n, k)]
  BY DoubleExists, Zenon
<1>2. SplitPoint(n) = double[1]
  BY Zenon DEF SplitPoint, DoubleBody
<1> HIDE DEF double
<1>3. \A k \in 1..n : double[k] = IF 2 * k < n THEN double[2 * k] ELSE k
  BY <1>1 DEF DoubleBody
<1> DEFINE Right(x) == x \in Pow2 /\ x < n /\ n <= 2 * x
           U == {j \in Nat : \A k \in Pow2 : k < n /\ n - k <= j => Right(double[k])}
<1>4. 0 \in U
  BY PowerShape
<1>5. ASSUME NEW j \in Nat, j \in U PROVE j + 1 \in U
  <2>1. ASSUME NEW k \in Pow2, k < n, n - k <= j + 1 PROVE Right(double[k])
    <3>1. k \in Nat /\ k >= 1
      BY PowerShape
    <3>2. CASE 2 * k < n
      <4>1. 2 * k \in Pow2 /\ n - 2 * k <= j
        BY <2>1, <3>1, <3>2, PowerDoubles
      <4> QED
        BY <1>3, <1>5, <2>1, <3>1, <3>2, <4>1
    <3>3. CASE ~(2 * k < n)
      <4>1. double[k] = k
        BY <1>3, <2>1, <3>1, <3>3
      <4> QED
        BY <2>1, <3>1, <3>3, <4>1
    <3> QED
      BY <3>2, <3>3
  <2> QED
    BY <2>1
<1> HIDE DEF U
<1>6. n \in U
  BY <1>4, <1>5, Induct
<1>7. Right(double[1])
  BY <1>6, PowerOne DEF U
<1> QED
  BY <1>2, <1>7, PowerShape

(* Cut where a power of two is expected, the cut is there.                 *)
LEMMA SplitPointOf ==
  ASSUME NEW n \in Nat, NEW p \in Pow2, p < n, n <= 2 * p
  PROVE  SplitPoint(n) = p
<1>1. p \in Nat /\ p >= 1
  BY PowerShape
<1>2. n > 1
  BY <1>1
<1> QED
  BY <1>2, SplitPointIs, PowerUnique

(* The two halves of a span are spans, shorter than it and not empty.      *)
LEMMA SpanIs ==
  ASSUME NEW n \in Nat, NEW x \in Spans(n)
  PROVE  /\ x = <<x[1], x[2]>> /\ x[1] \in 0..n /\ x[2] \in 0..n
         /\ x[1] <= x[2] /\ Size(x) \in Nat /\ Size(x) <= n /\ Size(x) = x[2] - x[1]
<1>1. PICK a \in 0..n, b \in 0..n : x = <<a, b>>
  BY DEF Spans
<1>2. x[1] = a /\ x[2] = b
  BY <1>1
<1>3. a <= b
  BY <1>1, <1>2 DEF Spans
<1> QED
  BY <1>1, <1>2, <1>3 DEF Size

\* A pair of numbers in order is a span.
LEMMA SpanOf ==
  ASSUME NEW n \in Nat, NEW a \in 0..n, NEW b \in 0..n, a <= b
  PROVE  <<a, b>> \in Spans(n) /\ Size(<<a, b>>) = b - a
                               /\ <<a, b>>[1] = a /\ <<a, b>>[2] = b
BY DEF Spans, Size

\* What split_point cuts are two smaller spans, neither of them empty.
LEMMA Halves ==
  ASSUME NEW n \in Nat, NEW x \in Spans(n), Size(x) > 1
  PROVE  /\ Middle(x) \in 0..n /\ x[1] < Middle(x) /\ Middle(x) < x[2]
         /\ Middle(x) = x[1] + SplitPoint(Size(x))
         /\ LeftOf(x) = <<x[1], Middle(x)>> /\ RightOf(x) = <<Middle(x), x[2]>>
         /\ LeftOf(x) \in Spans(n) /\ RightOf(x) \in Spans(n)
         /\ Size(LeftOf(x)) = SplitPoint(Size(x))
         /\ Size(RightOf(x)) = Size(x) - SplitPoint(Size(x))
         /\ 0 < Size(LeftOf(x)) /\ Size(LeftOf(x)) < Size(x)
         /\ 0 < Size(RightOf(x)) /\ Size(RightOf(x)) < Size(x)
         /\ LeftOf(x)[1] = x[1] /\ LeftOf(x)[2] = Middle(x)
         /\ RightOf(x)[1] = Middle(x) /\ RightOf(x)[2] = x[2]
<1> DEFINE k == SplitPoint(Size(x))
<1>1. k \in Nat /\ 1 <= k /\ k < Size(x)
  BY SpanIs, SplitPointIs
<1>2. x[1] \in 0..n /\ x[2] \in 0..n /\ Size(x) = x[2] - x[1]
  BY SpanIs
<1>3. Middle(x) = x[1] + k
  BY DEF Middle
<1> HIDE DEF k
<1>4. Middle(x) \in 0..n /\ x[1] < Middle(x) /\ Middle(x) < x[2]
  BY <1>1, <1>2, <1>3
<1>5. LeftOf(x) = <<x[1], Middle(x)>> /\ RightOf(x) = <<Middle(x), x[2]>>
  BY DEF LeftOf, RightOf
<1>6. /\ LeftOf(x) \in Spans(n) /\ Size(LeftOf(x)) = Middle(x) - x[1]
      /\ LeftOf(x)[1] = x[1] /\ LeftOf(x)[2] = Middle(x)
  BY <1>2, <1>4, <1>5, SpanOf
<1>7. /\ RightOf(x) \in Spans(n) /\ Size(RightOf(x)) = x[2] - Middle(x)
      /\ RightOf(x)[1] = Middle(x) /\ RightOf(x)[2] = x[2]
  BY <1>2, <1>4, <1>5, SpanOf
<1>8. /\ Size(LeftOf(x)) = k /\ Size(RightOf(x)) = Size(x) - k
  BY <1>1, <1>2, <1>3, <1>6, <1>7
<1>9. /\ 0 < Size(LeftOf(x)) /\ Size(LeftOf(x)) < Size(x)
      /\ 0 < Size(RightOf(x)) /\ Size(RightOf(x)) < Size(x)
  BY <1>1, <1>2, <1>8
<1> QED
  BY <1>3, <1>4, <1>5, <1>6, <1>7, <1>8, <1>9 DEF k

----------------------------------------------------------------------------
\* One level of the recursion of root.
RootBody(g, leaves, x) ==
  IF Size(x) = 0 THEN EmptyRoot
  ELSE IF Size(x) = 1 THEN leaves[x[2]]
  ELSE NodeHash(g[LeftOf(x)], g[RightOf(x)])

\* The recursion of root ends for every span.
LEMMA RootExists ==
  ASSUME NEW leaves, NEW n \in Nat
  PROVE  \E g : g = [x \in Spans(n) |-> RootBody(g, leaves, x)]
<1> DEFINE U == {j \in Nat : \E g : \A x \in Spans(n) : Size(x) < j => g[x] = RootBody(g, leaves, x)}
<1>1. 0 \in U
  <2>1. \A x \in Spans(n) : ~(Size(x) < 0)
    BY SpanIs
  <2> QED
    BY <2>1
<1>2. ASSUME NEW j \in Nat, j \in U PROVE j + 1 \in U
  <2>1. PICK g : \A x \in Spans(n) : Size(x) < j => g[x] = RootBody(g, leaves, x)
    BY <1>2
  <2> DEFINE h == [x \in Spans(n) |-> RootBody(g, leaves, x)]
  <2>2. ASSUME NEW x \in Spans(n), Size(x) < j + 1 PROVE h[x] = RootBody(h, leaves, x)
    <3>1. h[x] = RootBody(g, leaves, x) /\ Size(x) \in Nat
      BY SpanIs
    <3>2. CASE Size(x) > 1
      <4>1. /\ LeftOf(x) \in Spans(n) /\ RightOf(x) \in Spans(n)
            /\ Size(LeftOf(x)) < j /\ Size(RightOf(x)) < j
        BY <2>2, <3>1, <3>2, Halves, SpanIs
      <4>2. h[LeftOf(x)] = g[LeftOf(x)] /\ h[RightOf(x)] = g[RightOf(x)]
        BY <2>1, <4>1
      <4> QED
        BY <3>1, <4>2, Zenon DEF RootBody
    <3>3. CASE ~(Size(x) > 1)
      <4>1. Size(x) = 0 \/ Size(x) = 1
        BY <3>1, <3>3
      <4> QED
        BY <3>1, <4>1, Zenon DEF RootBody
    <3> QED
      BY <3>2, <3>3
  <2> HIDE DEF h
  <2>3. \E f : \A x \in Spans(n) : Size(x) < j + 1 => f[x] = RootBody(f, leaves, x)
    BY <2>2, Zenon
  <2> QED
    BY <2>3
<1> HIDE DEF U
<1>3. n + 1 \in U
  BY <1>1, <1>2, Induct
<1>4. PICK g : \A x \in Spans(n) : Size(x) < n + 1 => g[x] = RootBody(g, leaves, x)
  BY <1>3 DEF U
<1> DEFINE h == [x \in Spans(n) |-> g[x]]
<1>5. ASSUME NEW x \in Spans(n) PROVE h[x] = RootBody(h, leaves, x)
  <2>1. Size(x) < n + 1 /\ Size(x) \in Nat
    BY SpanIs
  <2>2. h[x] = RootBody(g, leaves, x)
    BY <1>4, <2>1
  <2>3. CASE Size(x) > 1
    <3>1. LeftOf(x) \in Spans(n) /\ RightOf(x) \in Spans(n)
      BY <2>3, Halves
    <3>2. h[LeftOf(x)] = g[LeftOf(x)] /\ h[RightOf(x)] = g[RightOf(x)]
      BY <3>1
    <3> QED
      BY <2>2, <3>2, Zenon DEF RootBody
  <2>4. CASE ~(Size(x) > 1)
    <3>1. Size(x) = 0 \/ Size(x) = 1
      BY <2>1, <2>4
    <3> QED
      BY <2>2, <3>1, Zenon DEF RootBody
  <2> QED
    BY <2>3, <2>4
<1>6. h = [x \in Spans(n) |-> RootBody(h, leaves, x)]
  BY <1>5, Zenon
<1> QED
  BY <1>6, Zenon

\* The root of a span is what one level of the recursion says (merkle.rs, root).
LEMMA RootEquation ==
  ASSUME NEW leaves, Len(leaves) \in Nat, NEW x \in Spans(Len(leaves))
  PROVE  RootIn(leaves, x) = IF Size(x) = 0 THEN EmptyRoot
                             ELSE IF Size(x) = 1 THEN leaves[x[2]]
                             ELSE NodeHash(RootIn(leaves, LeftOf(x)), RootIn(leaves, RightOf(x)))
<1> DEFINE r == CHOOSE g : g = [y \in Spans(Len(leaves)) |-> RootBody(g, leaves, y)]
<1>1. r = [y \in Spans(Len(leaves)) |-> RootBody(r, leaves, y)]
  BY RootExists, Zenon
<1>2. \A y : RootIn(leaves, y) = r[y]
  BY Zenon DEF RootIn, RootBody
<1> HIDE DEF r
<1>3. r[x] = RootBody(r, leaves, x)
  BY <1>1, Zenon
<1> QED
  BY <1>2, <1>3, Zenon DEF RootBody

\* Induction on the size of a span.
LEMMA SpanInduct ==
  ASSUME NEW n \in Nat, NEW S,
         \A x \in Spans(n) : (\A y \in Spans(n) : Size(y) < Size(x) => y \in S) => x \in S
  PROVE  Spans(n) \subseteq S
<1> DEFINE U == {j \in Nat : \A x \in Spans(n) : Size(x) < j => x \in S}
<1>1. 0 \in U
  <2>1. \A x \in Spans(n) : ~(Size(x) < 0)
    BY SpanIs
  <2> QED
    BY <2>1
<1>2. ASSUME NEW j \in Nat, j \in U PROVE j + 1 \in U
  <2>1. ASSUME NEW x \in Spans(n), Size(x) < j + 1 PROVE x \in S
    <3>1. \A y \in Spans(n) : Size(y) < Size(x) => Size(y) < j
      BY <2>1, SpanIs
    <3> QED
      BY <1>2, <3>1
  <2> QED
    BY <2>1
<1> HIDE DEF U
<1>3. n + 1 \in U
  BY <1>1, <1>2, Induct
<1>4. \A x \in Spans(n) : Size(x) < n + 1
  BY SpanIs
<1> QED
  BY <1>3, <1>4 DEF U

(* The root over a span depends on the leaves of the span alone.           *)
LEMMA RootLocal ==
  ASSUME NEW one, NEW two, Len(one) \in Nat, Len(two) \in Nat,
         NEW x \in Spans(Len(one)) \cap Spans(Len(two)),
         \A i \in (x[1] + 1)..x[2] : one[i] = two[i]
  PROVE  RootIn(one, x) = RootIn(two, x)
<1> DEFINE n == Len(one)
           Same(y) == \A i \in (y[1] + 1)..y[2] : one[i] = two[i]
           U == {y \in Spans(n) : y \in Spans(Len(two)) /\ Same(y) => RootIn(one, y) = RootIn(two, y)}
<1>1. ASSUME NEW y \in Spans(n), \A z \in Spans(n) : Size(z) < Size(y) => z \in U,
             y \in Spans(Len(two)), Same(y)
      PROVE  RootIn(one, y) = RootIn(two, y)
  <2>1. Size(y) \in Nat /\ y[1] \in Nat /\ y[2] \in Nat /\ Size(y) = y[2] - y[1]
    BY SpanIs
  <2>2. CASE Size(y) > 1
    <3>1. /\ LeftOf(y) \in Spans(n) /\ RightOf(y) \in Spans(n)
          /\ LeftOf(y) \in Spans(Len(two)) /\ RightOf(y) \in Spans(Len(two))
          /\ Size(LeftOf(y)) < Size(y) /\ Size(RightOf(y)) < Size(y)
      BY <1>1, <2>2, Halves
    <3>2. Same(LeftOf(y)) /\ Same(RightOf(y))
      <4>1. /\ LeftOf(y)[1] = y[1] /\ LeftOf(y)[2] = Middle(y)
            /\ RightOf(y)[1] = Middle(y) /\ RightOf(y)[2] = y[2]
            /\ Middle(y) \in Nat /\ y[1] < Middle(y) /\ Middle(y) < y[2]
        BY <2>2, Halves
      <4> QED
        BY <1>1, <2>1, <4>1
    <3>3. RootIn(one, LeftOf(y)) = RootIn(two, LeftOf(y))
      BY <1>1, <3>1, <3>2
    <3>4. RootIn(one, RightOf(y)) = RootIn(two, RightOf(y))
      BY <1>1, <3>1, <3>2
    <3>5. RootIn(one, y) = NodeHash(RootIn(one, LeftOf(y)), RootIn(one, RightOf(y)))
      <4>1. Size(y) # 0 /\ Size(y) # 1
        BY <2>1, <2>2
      <4> QED
        BY <4>1, RootEquation, Zenon
    <3>6. RootIn(two, y) = NodeHash(RootIn(two, LeftOf(y)), RootIn(two, RightOf(y)))
      <4>1. Size(y) # 0 /\ Size(y) # 1
        BY <2>1, <2>2
      <4> QED
        BY <1>1, <4>1, RootEquation, Zenon
    <3> QED
      BY <3>3, <3>4, <3>5, <3>6
  <2>3. CASE Size(y) = 1
    <3>1. one[y[2]] = two[y[2]]
      <4>1. y[2] \in (y[1] + 1)..y[2]
        BY <2>1, <2>3
      <4> QED
        BY <1>1, <4>1
    <3>2. Size(y) # 0
      BY <2>3
    <3>3. RootIn(one, y) = one[y[2]]
      BY <2>3, <3>2, RootEquation, Zenon
    <3>4. RootIn(two, y) = two[y[2]]
      BY <1>1, <2>3, <3>2, RootEquation, Zenon
    <3> QED
      BY <3>1, <3>3, <3>4
  <2>4. CASE Size(y) = 0
    BY <1>1, <2>4, RootEquation, Zenon
  <2> QED
    BY <2>1, <2>2, <2>3, <2>4
<1> HIDE DEF U
<1>2. Spans(n) \subseteq U
  <2>1. \A y \in Spans(n) : (\A z \in Spans(n) : Size(z) < Size(y) => z \in U) => y \in U
    BY <1>1, Zenon DEF U
  <2> HIDE DEF Same
  <2> QED
    BY <2>1, SpanInduct, Zenon
<1> QED
  BY <1>2 DEF U

\* Hashes of nodes are not found twice: SHA-256 is taken to be injective.
LEMMA NodeHashInjective ==
  ASSUME NEW a, NEW b, NEW c, NEW d, NodeHash(a, b) = NodeHash(c, d)
  PROVE  a = c /\ b = d
BY DEF NodeHash

(* Equal roots over a span have equal leaves: no two trees share a root.   *)
LEMMA RootInjective ==
  ASSUME NEW one, NEW two, Len(one) \in Nat, Len(two) \in Nat,
         NEW x \in Spans(Len(one)) \cap Spans(Len(two)),
         RootIn(one, x) = RootIn(two, x)
  PROVE  \A i \in (x[1] + 1)..x[2] : one[i] = two[i]
<1> DEFINE n == Len(one)
           Same(y) == \A i \in (y[1] + 1)..y[2] : one[i] = two[i]
           U == {y \in Spans(n) : y \in Spans(Len(two)) /\ RootIn(one, y) = RootIn(two, y) => Same(y)}
<1>1. ASSUME NEW y \in Spans(n), \A z \in Spans(n) : Size(z) < Size(y) => z \in U,
             y \in Spans(Len(two)), RootIn(one, y) = RootIn(two, y)
      PROVE  Same(y)
  <2>1. Size(y) \in Nat /\ y[1] \in Nat /\ y[2] \in Nat /\ Size(y) = y[2] - y[1]
    BY SpanIs
  <2>2. CASE Size(y) > 1
    <3>1. /\ LeftOf(y) \in Spans(n) /\ RightOf(y) \in Spans(n)
          /\ LeftOf(y) \in Spans(Len(two)) /\ RightOf(y) \in Spans(Len(two))
          /\ Size(LeftOf(y)) < Size(y) /\ Size(RightOf(y)) < Size(y)
      BY <1>1, <2>2, Halves
    <3>5. RootIn(one, y) = NodeHash(RootIn(one, LeftOf(y)), RootIn(one, RightOf(y)))
      <4>1. Size(y) # 0 /\ Size(y) # 1
        BY <2>1, <2>2
      <4> QED
        BY <4>1, RootEquation, Zenon
    <3>6. RootIn(two, y) = NodeHash(RootIn(two, LeftOf(y)), RootIn(two, RightOf(y)))
      <4>1. Size(y) # 0 /\ Size(y) # 1
        BY <2>1, <2>2
      <4> QED
        BY <1>1, <4>1, RootEquation, Zenon
    <3>8. /\ RootIn(one, LeftOf(y)) = RootIn(two, LeftOf(y))
          /\ RootIn(one, RightOf(y)) = RootIn(two, RightOf(y))
      <4>1. NodeHash(RootIn(one, LeftOf(y)), RootIn(one, RightOf(y)))
              = NodeHash(RootIn(two, LeftOf(y)), RootIn(two, RightOf(y)))
        BY <1>1, <3>5, <3>6
      <4> QED
        BY <4>1, NodeHashInjective
    <3>9. Same(LeftOf(y)) /\ Same(RightOf(y))
      BY <1>1, <3>1, <3>8
    <3>10. /\ LeftOf(y)[1] = y[1] /\ LeftOf(y)[2] = Middle(y)
           /\ RightOf(y)[1] = Middle(y) /\ RightOf(y)[2] = y[2]
           /\ Middle(y) \in Nat /\ y[1] < Middle(y) /\ Middle(y) < y[2]
      BY <2>2, Halves
    <3> QED
      BY <2>1, <3>9, <3>10
  <2>3. CASE Size(y) = 1
    <3>2. Size(y) # 0
      BY <2>3
    <3>3. RootIn(one, y) = one[y[2]]
      BY <2>3, <3>2, RootEquation, Zenon
    <3>4. RootIn(two, y) = two[y[2]]
      BY <1>1, <2>3, <3>2, RootEquation, Zenon
    <3>5. one[y[2]] = two[y[2]]
      BY <1>1, <3>3, <3>4
    <3>6. \A i \in (y[1] + 1)..y[2] : i = y[2]
      BY <2>1, <2>3
    <3> QED
      BY <3>5, <3>6
  <2>4. CASE Size(y) = 0
    BY <2>1, <2>4
  <2> QED
    BY <2>1, <2>2, <2>3, <2>4
<1> HIDE DEF U
<1>2. Spans(n) \subseteq U
  <2>1. \A y \in Spans(n) : (\A z \in Spans(n) : Size(z) < Size(y) => z \in U) => y \in U
    BY <1>1, Zenon DEF U
  <2> HIDE DEF Same
  <2> QED
    BY <2>1, SpanInduct, Zenon
<1> QED
  BY <1>2 DEF U

\* What Append does to a sequence.
LEMMA Appended ==
  ASSUME NEW S, NEW s \in Seq(S), NEW e \in S
  PROVE  /\ Append(s, e) \in Seq(S) /\ Len(Append(s, e)) = Len(s) + 1
         /\ Len(s) \in Nat
         /\ \A k \in 1 .. Len(s) : Append(s, e)[k] = s[k]
         /\ Append(s, e)[Len(s) + 1] = e
<1>1. Len(s) \in Nat
  BY LenProperties
<1> QED
  BY <1>1, AppendProperties

(***************************************************************************)
(* A path goes down the spans that hold a leaf, and is written on the way  *)
(* back: the audit path, its directions and the proof of consistency.      *)
(***************************************************************************)
Toward(leaf, x) == IF leaf <= Middle(x) THEN LeftOf(x) ELSE RightOf(x)
Aside(leaf, x)  == IF leaf <= Middle(x) THEN RightOf(x) ELSE LeftOf(x)

\* Going down toward a leaf: the half that has it, which is smaller, and the half beside it.
LEMMA HoldingIs ==
  ASSUME NEW n \in Nat, NEW leaf \in Nat, NEW x \in Holding(leaf, n)
  PROVE  /\ x \in Spans(n) /\ x[1] < leaf /\ leaf <= x[2] /\ 0 < Size(x)
         /\ Size(x) = 1 => leaf = x[2]
         /\ Size(x) > 1 => /\ Toward(leaf, x) \in Holding(leaf, n)
                           /\ Aside(leaf, x) \in Spans(n)
                           /\ Size(Toward(leaf, x)) < Size(x)
<1>1. x \in Spans(n) /\ x[1] < leaf /\ leaf <= x[2]
  BY DEF Holding
<1>2. x[1] \in Nat /\ x[2] \in Nat /\ Size(x) = x[2] - x[1]
  BY <1>1, SpanIs
<1>3. 0 < Size(x) /\ (Size(x) = 1 => leaf = x[2])
  BY <1>1, <1>2
<1>4. ASSUME Size(x) > 1
      PROVE  /\ Toward(leaf, x) \in Holding(leaf, n)
             /\ Aside(leaf, x) \in Spans(n)
             /\ Size(Toward(leaf, x)) < Size(x)
  <2>1. /\ LeftOf(x) \in Spans(n) /\ RightOf(x) \in Spans(n)
        /\ LeftOf(x)[1] = x[1] /\ LeftOf(x)[2] = Middle(x)
        /\ RightOf(x)[1] = Middle(x) /\ RightOf(x)[2] = x[2]
        /\ Size(LeftOf(x)) < Size(x) /\ Size(RightOf(x)) < Size(x)
        /\ Middle(x) \in Nat
    BY <1>1, <1>4, Halves
  <2>2. CASE leaf <= Middle(x)
    <3>1. Toward(leaf, x) = LeftOf(x) /\ Aside(leaf, x) = RightOf(x)
      BY <2>2 DEF Toward, Aside
    <3> QED
      BY <1>1, <2>1, <2>2, <3>1 DEF Holding
  <2>3. CASE ~(leaf <= Middle(x))
    <3>1. Toward(leaf, x) = RightOf(x) /\ Aside(leaf, x) = LeftOf(x)
      BY <2>3 DEF Toward, Aside
    <3>2. Middle(x) < leaf
      BY <2>1, <2>3
    <3> QED
      BY <1>1, <2>1, <3>1, <3>2 DEF Holding
  <2> QED
    BY <2>2, <2>3
<1> QED
  BY <1>1, <1>3, <1>4

\* The recursion that inclusion_proof, directions and consistency_proof share: down toward a leaf until
\* the span is in Stop, one item appended for every level on the way back.
PathBody(g, Stop, base, next, item, x) ==
  IF x \in Stop THEN base[x] ELSE Append(g[next[x]], item[x])

Solves(g, D, Stop, base, next, item) ==
  g = [x \in D |-> PathBody(g, Stop, base, next, item, x)]

\* That recursion ends, whatever it appends.
LEMMA PathExists ==
  ASSUME NEW n \in Nat, NEW D, D \subseteq Spans(n), NEW Stop, NEW base, NEW next, NEW item,
         \A x \in D : x \notin Stop => next[x] \in D /\ Size(next[x]) < Size(x)
  PROVE  \E g : Solves(g, D, Stop, base, next, item)
<1> DEFINE Body(g, x) == PathBody(g, Stop, base, next, item, x)
           U == {j \in Nat : \E g : \A x \in D : Size(x) < j => g[x] = Body(g, x)}
<1>0. \A x \in D : Size(x) \in Nat /\ Size(x) <= n
  BY SpanIs
<1>1. 0 \in U
  <2>1. \A x \in D : ~(Size(x) < 0)
    BY <1>0
  <2> QED
    BY <2>1
<1>2. ASSUME NEW j \in Nat, j \in U PROVE j + 1 \in U
  <2>1. PICK g : \A x \in D : Size(x) < j => g[x] = Body(g, x)
    BY <1>2
  <2> DEFINE h == [x \in D |-> Body(g, x)]
  <2>2. ASSUME NEW x \in D, Size(x) < j + 1 PROVE h[x] = Body(h, x)
    <3>1. h[x] = Body(g, x)
      OBVIOUS
    <3>2. CASE x \notin Stop
      <4>1. next[x] \in D /\ Size(next[x]) < j
        BY <1>0, <2>2, <3>2
      <4>2. h[next[x]] = g[next[x]]
        BY <2>1, <4>1
      <4> QED
        BY <3>1, <4>2, Zenon DEF PathBody
    <3>3. CASE x \in Stop
      BY <3>1, <3>3, Zenon DEF PathBody
    <3> QED
      BY <3>2, <3>3
  <2> HIDE DEF h
  <2>3. \E f : \A x \in D : Size(x) < j + 1 => f[x] = Body(f, x)
    BY <2>2, Zenon
  <2> QED
    BY <2>3
<1> HIDE DEF U
<1>3. n + 1 \in U
  BY <1>1, <1>2, Induct
<1>4. PICK g : \A x \in D : Size(x) < n + 1 => g[x] = Body(g, x)
  BY <1>3 DEF U
<1> DEFINE h == [x \in D |-> g[x]]
<1>5. ASSUME NEW x \in D PROVE h[x] = Body(h, x)
  <2>1. Size(x) < n + 1
    BY <1>0
  <2>2. h[x] = Body(g, x)
    BY <1>4, <2>1
  <2>3. CASE x \notin Stop
    <3>1. h[next[x]] = g[next[x]]
      BY <2>3
    <3> QED
      BY <2>2, <3>1, Zenon DEF PathBody
  <2>4. CASE x \in Stop
    BY <2>2, <2>4, Zenon DEF PathBody
  <2> QED
    BY <2>3, <2>4
<1>6. h = [x \in D |-> Body(h, x)]
  BY <1>5, Zenon
<1> QED
  BY <1>6, Zenon DEF Solves

(* The audit path of a leaf, for every span that holds it.                 *)
AuditPath(p, leaves, leaf) ==
  \A x \in Holding(leaf, Len(leaves)) :
    p[x] = IF Size(x) = 1 THEN <<>> ELSE Append(p[Toward(leaf, x)], RootIn(leaves, Aside(leaf, x)))

\* inclusion_proof is an audit path.
LEMMA InclusionProofIs ==
  ASSUME NEW leaves, Len(leaves) \in Nat, NEW index \in Nat
  PROVE  \E p : /\ InclusionProof(leaves, index) = p[<<0, Len(leaves)>>]
                /\ AuditPath(p, leaves, index + 1)
<1> DEFINE leaf == index + 1
           D == Holding(leaf, Len(leaves))
           Stop == {x \in D : Size(x) = 1}
           base == [x \in D |-> <<>>]
           next == [x \in D |-> Toward(leaf, x)]
           item == [x \in D |-> RootIn(leaves, Aside(leaf, x))]
           Code(g, x) == IF Size(x) = 1 THEN <<>>
                         ELSE IF index < Middle(x) THEN Append(g[LeftOf(x)], RootIn(leaves, RightOf(x)))
                         ELSE Append(g[RightOf(x)], RootIn(leaves, LeftOf(x)))
           Path(g, x) == IF Size(x) = 1 THEN <<>>
                         ELSE Append(g[Toward(leaf, x)], RootIn(leaves, Aside(leaf, x)))
<1>1. D \subseteq Spans(Len(leaves))
  BY HoldingIs
<1>2. \A x \in D : x \notin Stop => next[x] \in D /\ Size(next[x]) < Size(x)
  <2>1. ASSUME NEW x \in D, x \notin Stop PROVE next[x] \in D /\ Size(next[x]) < Size(x)
    <3>1. Size(x) > 1
      <4>1. 0 < Size(x) /\ x \in Spans(Len(leaves))
        BY HoldingIs
      <4>2. Size(x) \in Nat
        BY <4>1, SpanIs
      <4> QED
        BY <2>1, <4>1, <4>2
    <3> QED
      BY <3>1, HoldingIs
  <2> QED
    BY <2>1
<1>4. ASSUME NEW g, NEW x \in D PROVE PathBody(g, Stop, base, next, item, x) = Path(g, x)
  BY DEF PathBody
<1>5. ASSUME NEW g, NEW x \in D PROVE Code(g, x) = Path(g, x)
  <2>1. Middle(x) \in Int \/ Size(x) = 1
    <3>1. 0 < Size(x) /\ x \in Spans(Len(leaves))
      BY HoldingIs
    <3>2. Size(x) \in Nat
      BY <3>1, SpanIs
    <3>3. Size(x) > 1 => Middle(x) \in 0..Len(leaves)
      BY <3>1, Halves
    <3> QED
      BY <3>1, <3>2, <3>3
  <2>2. CASE Size(x) = 1
    BY <2>2
  <2>3. CASE Size(x) # 1 /\ leaf <= Middle(x)
    <3>1. index < Middle(x)
      BY <2>1, <2>3
    <3> QED
      BY <2>3, <3>1 DEF Toward, Aside
  <2>4. CASE Size(x) # 1 /\ ~(leaf <= Middle(x))
    <3>1. ~(index < Middle(x))
      BY <2>1, <2>4
    <3> QED
      BY <2>4, <3>1 DEF Toward, Aside
  <2> QED
    BY <2>2, <2>3, <2>4
<1>7. \A g : \A x \in D : PathBody(g, Stop, base, next, item, x) = Code(g, x)
  BY <1>4, <1>5
<1> HIDE DEF Stop, base, next, item, D
<1>3. \E g : Solves(g, D, Stop, base, next, item)
  BY <1>1, <1>2, PathExists
<1> DEFINE p == CHOOSE g : g = [x \in D |-> Code(g, x)]
<1>6. PICK f : f = [x \in D |-> PathBody(f, Stop, base, next, item, x)]
  BY <1>3, Zenon DEF Solves
<1> HIDE DEF Path
<1>8. f = [x \in D |-> Code(f, x)]
  BY <1>6, <1>7, Zenon
<1>9. p = [x \in D |-> Code(p, x)]
  BY <1>8, Zenon
<1>10. InclusionProof(leaves, index) = p[<<0, Len(leaves)>>]
  BY Zenon DEF InclusionProof, D
<1> HIDE DEF p, Code, D
<1>11. \A x \in D : p[x] = Path(p, x)
  BY <1>5, <1>9, Zenon
<1>12. AuditPath(p, leaves, leaf)
  BY <1>11, Zenon DEF AuditPath, Path, D
<1> QED
  BY <1>10, <1>12, Zenon

(* The directions to a leaf, for every span that holds it.                 *)
Turns(d, leaf, n) ==
  \A x \in Holding(leaf, n) :
    d[x] = IF Size(x) = 1 THEN <<>>
           ELSE Append(d[Toward(leaf, x)], IF leaf <= Middle(x) THEN FALSE ELSE TRUE)

\* The directions end, and are one for each level.
LEMMA DirectionsIs ==
  ASSUME NEW n \in Nat, NEW index \in Nat
  PROVE  \E d : Directions(index, n) = d[<<0, n>>] /\ Turns(d, index + 1, n)
<1> DEFINE leaf == index + 1
           D == Holding(leaf, n)
           Stop == {x \in D : Size(x) = 1}
           base == [x \in D |-> <<>>]
           next == [x \in D |-> Toward(leaf, x)]
           item == [x \in D |-> IF leaf <= Middle(x) THEN FALSE ELSE TRUE]
           Code(g, x) == IF Size(x) = 1 THEN <<>>
                         ELSE IF index < Middle(x) THEN Append(g[LeftOf(x)], FALSE)
                         ELSE Append(g[RightOf(x)], TRUE)
           Path(g, x) == IF Size(x) = 1 THEN <<>>
                         ELSE Append(g[Toward(leaf, x)], IF leaf <= Middle(x) THEN FALSE ELSE TRUE)
<1>1. D \subseteq Spans(n)
  BY HoldingIs
<1>2. \A x \in D : x \notin Stop => next[x] \in D /\ Size(next[x]) < Size(x)
  <2>1. ASSUME NEW x \in D, x \notin Stop PROVE next[x] \in D /\ Size(next[x]) < Size(x)
    <3>1. Size(x) > 1
      <4>1. 0 < Size(x) /\ x \in Spans(n)
        BY HoldingIs
      <4>2. Size(x) \in Nat
        BY <4>1, SpanIs
      <4> QED
        BY <2>1, <4>1, <4>2
    <3> QED
      BY <3>1, HoldingIs
  <2> QED
    BY <2>1
<1>3. ASSUME NEW g, NEW x \in D PROVE PathBody(g, Stop, base, next, item, x) = Path(g, x)
  BY DEF PathBody
<1>4. ASSUME NEW g, NEW x \in D PROVE Code(g, x) = Path(g, x)
  <2>1. Middle(x) \in Int \/ Size(x) = 1
    <3>1. 0 < Size(x) /\ x \in Spans(n)
      BY HoldingIs
    <3>2. Size(x) \in Nat
      BY <3>1, SpanIs
    <3>3. Size(x) > 1 => Middle(x) \in 0..n
      BY <3>1, Halves
    <3> QED
      BY <3>1, <3>2, <3>3
  <2>2. CASE Size(x) = 1
    BY <2>2
  <2>3. CASE Size(x) # 1 /\ leaf <= Middle(x)
    <3>1. index < Middle(x)
      BY <2>1, <2>3
    <3> QED
      BY <2>3, <3>1 DEF Toward
  <2>4. CASE Size(x) # 1 /\ ~(leaf <= Middle(x))
    <3>1. ~(index < Middle(x))
      BY <2>1, <2>4
    <3> QED
      BY <2>4, <3>1 DEF Toward
  <2> QED
    BY <2>2, <2>3, <2>4
<1>5. \A g : \A x \in D : PathBody(g, Stop, base, next, item, x) = Code(g, x)
  BY <1>3, <1>4
<1> HIDE DEF Stop, base, next, item, D
<1>6. \E g : Solves(g, D, Stop, base, next, item)
  BY <1>1, <1>2, PathExists
<1> DEFINE p == CHOOSE g : g = [x \in D |-> Code(g, x)]
<1>7. PICK f : f = [x \in D |-> PathBody(f, Stop, base, next, item, x)]
  BY <1>6, Zenon DEF Solves
<1> HIDE DEF Path
<1>8. f = [x \in D |-> Code(f, x)]
  BY <1>5, <1>7, Zenon
<1>9. p = [x \in D |-> Code(p, x)]
  BY <1>8, Zenon
<1>10. Directions(index, n) = p[<<0, n>>]
  BY Zenon DEF Directions, D
<1> HIDE DEF p, Code, D
<1>11. \A x \in D : p[x] = Path(p, x)
  BY <1>4, <1>9, Zenon
<1>12. Turns(p, leaf, n)
  BY <1>11, Zenon DEF Turns, Path, D
<1> QED
  BY <1>10, <1>12, Zenon

(* The proof of consistency, for every span that holds the last old leaf.  *)
LinkPath(sub, leaves, from) ==
  \A x \in Holding(from, Len(leaves)) :
    sub[x] = IF from = x[2] THEN (IF x[1] = 0 THEN <<>> ELSE <<RootIn(leaves, x)>>)
             ELSE Append(sub[Toward(from, x)], RootIn(leaves, Aside(from, x)))

\* consistency_proof is a path to the last old leaf.
LEMMA ConsistencyProofIs ==
  ASSUME NEW leaves, Len(leaves) \in Nat, NEW from \in Nat, from # Len(leaves)
  PROVE  \E sub : /\ ConsistencyProof(leaves, from) = sub[<<0, Len(leaves)>>]
                  /\ LinkPath(sub, leaves, from)
<1> DEFINE D == Holding(from, Len(leaves))
           Stop == {x \in D : from = x[2]}
           base == [x \in D |-> IF x[1] = 0 THEN <<>> ELSE <<RootIn(leaves, x)>>]
           next == [x \in D |-> Toward(from, x)]
           item == [x \in D |-> RootIn(leaves, Aside(from, x))]
           Code(g, x) == IF from = x[2] THEN (IF x[1] = 0 THEN <<>> ELSE <<RootIn(leaves, x)>>)
                         ELSE IF from <= Middle(x) THEN Append(g[LeftOf(x)], RootIn(leaves, RightOf(x)))
                         ELSE Append(g[RightOf(x)], RootIn(leaves, LeftOf(x)))
           Path(g, x) == IF from = x[2] THEN (IF x[1] = 0 THEN <<>> ELSE <<RootIn(leaves, x)>>)
                         ELSE Append(g[Toward(from, x)], RootIn(leaves, Aside(from, x)))
<1>1. D \subseteq Spans(Len(leaves))
  BY HoldingIs
<1>2. \A x \in D : x \notin Stop => next[x] \in D /\ Size(next[x]) < Size(x)
  <2>1. ASSUME NEW x \in D, x \notin Stop PROVE next[x] \in D /\ Size(next[x]) < Size(x)
    <3>1. Size(x) > 1
      <4>1. 0 < Size(x) /\ x \in Spans(Len(leaves)) /\ (Size(x) = 1 => from = x[2])
        BY HoldingIs
      <4>2. Size(x) \in Nat
        BY <4>1, SpanIs
      <4> QED
        BY <2>1, <4>1, <4>2
    <3> QED
      BY <3>1, HoldingIs
  <2> QED
    BY <2>1
<1>3. ASSUME NEW g, NEW x \in D PROVE PathBody(g, Stop, base, next, item, x) = Path(g, x)
  BY DEF PathBody
<1>4. ASSUME NEW g, NEW x \in D PROVE Code(g, x) = Path(g, x)
  BY DEF Toward, Aside
<1>5. \A g : \A x \in D : PathBody(g, Stop, base, next, item, x) = Code(g, x)
  BY <1>3, <1>4
<1> HIDE DEF Stop, base, next, item, D
<1>6. \E g : Solves(g, D, Stop, base, next, item)
  BY <1>1, <1>2, PathExists
<1> DEFINE p == CHOOSE g : g = [x \in D |-> Code(g, x)]
<1>7. PICK f : f = [x \in D |-> PathBody(f, Stop, base, next, item, x)]
  BY <1>6, Zenon DEF Solves
<1> HIDE DEF Path
<1>8. f = [x \in D |-> Code(f, x)]
  BY <1>5, <1>7, Zenon
<1>9. p = [x \in D |-> Code(p, x)]
  BY <1>8, Zenon
<1>10. ConsistencyProof(leaves, from) = p[<<0, Len(leaves)>>]
  BY Zenon DEF ConsistencyProof, D
<1> HIDE DEF p, Code, D
<1>11. \A x \in D : p[x] = Path(p, x)
  BY <1>4, <1>9, Zenon
<1>12. LinkPath(p, leaves, from)
  BY <1>11, Zenon DEF LinkPath, Path, D
<1> QED
  BY <1>10, <1>12, Zenon

----------------------------------------------------------------------------
(* The climb along an audit path.                                          *)
ClimbBody(g, leaf, up, proof, k) ==
  IF k = 0 THEN leaf
  ELSE IF up[k] THEN NodeHash(proof[k], g[k - 1])
  ELSE NodeHash(g[k - 1], proof[k])

ClimbSolves(g, leaf, up, proof, n) == g = [k \in 0..n |-> ClimbBody(g, leaf, up, proof, k)]

\* The climb of the verifier ends.
LEMMA ClimbExists ==
  ASSUME NEW leaf, NEW up, NEW proof, NEW n \in Nat
  PROVE  \E g : ClimbSolves(g, leaf, up, proof, n)
<1> DEFINE Body(g, k) == ClimbBody(g, leaf, up, proof, k)
           U == {j \in Nat : \E g : \A k \in 0..n : k < j => g[k] = Body(g, k)}
<1>1. 0 \in U
  OBVIOUS
<1>2. ASSUME NEW j \in Nat, j \in U PROVE j + 1 \in U
  <2>1. PICK g : \A k \in 0..n : k < j => g[k] = Body(g, k)
    BY <1>2
  <2> DEFINE h == [k \in 0..n |-> Body(g, k)]
  <2>2. ASSUME NEW k \in 0..n, k < j + 1 PROVE h[k] = Body(h, k)
    <3>1. h[k] = Body(g, k)
      OBVIOUS
    <3>2. CASE k # 0
      <4>1. k - 1 \in 0..n /\ k - 1 < j
        BY <2>2, <3>2
      <4>2. h[k - 1] = g[k - 1]
        BY <2>1, <4>1
      <4> QED
        BY <3>1, <4>2, Zenon DEF ClimbBody
    <3>3. CASE k = 0
      BY <3>1, <3>3, Zenon DEF ClimbBody
    <3> QED
      BY <3>2, <3>3
  <2> HIDE DEF h
  <2>3. \E f : \A k \in 0..n : k < j + 1 => f[k] = Body(f, k)
    BY <2>2, Zenon
  <2> QED
    BY <2>3
<1> HIDE DEF U
<1>3. n + 1 \in U
  BY <1>1, <1>2, Induct
<1>4. PICK g : \A k \in 0..n : k < n + 1 => g[k] = Body(g, k)
  BY <1>3 DEF U
<1> DEFINE h == [k \in 0..n |-> g[k]]
<1>5. ASSUME NEW k \in 0..n PROVE h[k] = Body(h, k)
  <2>1. h[k] = Body(g, k)
    BY <1>4
  <2>2. CASE k # 0
    <3>1. k - 1 \in 0..n
      BY <2>2
    <3>2. h[k - 1] = g[k - 1]
      BY <3>1
    <3> QED
      BY <2>1, <3>2, Zenon DEF ClimbBody
  <2>3. CASE k = 0
    BY <2>1, <2>3, Zenon DEF ClimbBody
  <2> QED
    BY <2>2, <2>3
<1>6. h = [k \in 0..n |-> Body(h, k)]
  BY <1>5, Zenon
<1> QED
  BY <1>6, Zenon DEF ClimbSolves

\* Step by step, from the leaf's hash.
Climbs(c, up, proof, n) ==
  \A k \in 1..n : c[k] = IF up[k] THEN NodeHash(proof[k], c[k - 1]) ELSE NodeHash(c[k - 1], proof[k])

(* The verifier has climbed as c says.                                     *)
Climbed(c, leaf, index, size, proof, root) ==
  /\ c[0] = leaf /\ Climbs(c, Directions(index, size), proof, Len(proof))
  /\ VerifyInclusion(leaf, index, size, proof, root) <=>
       index < size /\ Len(Directions(index, size)) = Len(proof) /\ c[Len(proof)] = root

\* verify_inclusion accepts exactly when the climb ends at the root, after as many siblings as directions.
LEMMA VerifyInclusionIs ==
  ASSUME NEW leaf, NEW index, NEW size, NEW proof, NEW root, Len(proof) \in Nat
  PROVE  \E c : Climbed(c, leaf, index, size, proof, root)
<1> DEFINE up == Directions(index, size)
           c == CHOOSE g : g = [k \in 0..Len(proof) |-> ClimbBody(g, leaf, up, proof, k)]
<1>6. \E g : ClimbSolves(g, leaf, up, proof, Len(proof))
  BY ClimbExists
<1>1. c = [k \in 0..Len(proof) |-> ClimbBody(c, leaf, up, proof, k)]
  BY <1>6, Zenon DEF ClimbSolves
<1>2. VerifyInclusion(leaf, index, size, proof, root) <=>
        index < size /\ Len(up) = Len(proof) /\ c[Len(proof)] = root
  BY Zenon DEF VerifyInclusion, ClimbBody
<1> HIDE DEF c
<1>3. \A k \in 0..Len(proof) : c[k] = ClimbBody(c, leaf, up, proof, k)
  BY <1>1, Zenon
<1>4. c[0] = leaf
  BY <1>3 DEF ClimbBody
<1>5. Climbs(c, up, proof, Len(proof))
  BY <1>3 DEF ClimbBody, Climbs
<1> QED
  BY <1>2, <1>4, <1>5 DEF Climbed

\* The hashes of a tree.
Roots(leaves) == {RootIn(leaves, x) : x \in Spans(Len(leaves))}

(* A path and its directions are as long as each other.                    *)
LEMMA PathShape ==
  ASSUME NEW leaves, Len(leaves) \in Nat, NEW leaf \in Nat, NEW p, NEW d,
         AuditPath(p, leaves, leaf), Turns(d, leaf, Len(leaves))
  PROVE  \A x \in Holding(leaf, Len(leaves)) :
           p[x] \in Seq(Roots(leaves)) /\ d[x] \in Seq(BOOLEAN) /\ Len(p[x]) = Len(d[x])
<1> DEFINE n == Len(leaves)
           Good(x) == p[x] \in Seq(Roots(leaves)) /\ d[x] \in Seq(BOOLEAN) /\ Len(p[x]) = Len(d[x])
           U == {x \in Spans(n) : x \in Holding(leaf, n) => Good(x)}
<1>1. ASSUME NEW x \in Spans(n), \A y \in Spans(n) : Size(y) < Size(x) => y \in U, x \in Holding(leaf, n)
      PROVE  Good(x)
  <2>1. CASE Size(x) = 1
    <3>1. p[x] = <<>> /\ d[x] = <<>>
      BY <1>1, <2>1 DEF AuditPath, Turns
    <3> QED
      BY <3>1
  <2>2. CASE Size(x) # 1
    <3>0. Size(x) > 1
      BY <1>1, <2>2, HoldingIs, SpanIs
    <3> DEFINE y == Toward(leaf, x)
               r == RootIn(leaves, Aside(leaf, x))
               b == IF leaf <= Middle(x) THEN FALSE ELSE TRUE
    <3>1. y \in Holding(leaf, n) /\ Size(y) < Size(x) /\ y \in Spans(n) /\ Aside(leaf, x) \in Spans(n)
      BY <1>1, <3>0, HoldingIs
    <3>2. Good(y)
      BY <1>1, <3>1
    <3>3. p[x] = Append(p[y], r)
      BY <1>1, <2>2 DEF AuditPath
    <3>4. d[x] = Append(d[y], b)
      BY <1>1, <2>2 DEF Turns
    <3>5. r \in Roots(leaves) /\ b \in BOOLEAN
      BY <3>1 DEF Roots
    <3> HIDE DEF y, r, b
    <3>6. p[x] \in Seq(Roots(leaves)) /\ Len(p[x]) = Len(p[y]) + 1
      <4>1. p[y] \in Seq(Roots(leaves))
        BY <3>2
      <4>2. Append(p[y], r) \in Seq(Roots(leaves)) /\ Len(Append(p[y], r)) = Len(p[y]) + 1
        BY <4>1, <3>5, Appended
      <4> QED
        BY <3>3, <4>2
    <3>7. d[x] \in Seq(BOOLEAN) /\ Len(d[x]) = Len(d[y]) + 1
      <4>1. d[y] \in Seq(BOOLEAN)
        BY <3>2
      <4>2. Append(d[y], b) \in Seq(BOOLEAN) /\ Len(Append(d[y], b)) = Len(d[y]) + 1
        BY <4>1, <3>5, Appended
      <4> QED
        BY <3>4, <4>2
    <3> QED
      BY <3>2, <3>6, <3>7
  <2> QED
    BY <2>1, <2>2
<1> HIDE DEF U
<1>2. Spans(n) \subseteq U
  <2>1. \A x \in Spans(n) : (\A y \in Spans(n) : Size(y) < Size(x) => y \in U) => x \in U
    BY <1>1, Zenon DEF U
  <2> QED
    BY <2>1, SpanInduct, Zenon
<1> QED
  BY <1>2, HoldingIs DEF U

(* The last step of a climb.                                               *)
LEMMA ClimbsLast ==
  ASSUME NEW c, NEW d \in Seq(BOOLEAN), NEW b \in BOOLEAN, NEW q,
         Climbs(c, Append(d, b), q, Len(d) + 1)
  PROVE  /\ Climbs(c, d, q, Len(d))
         /\ c[Len(d) + 1] = IF b THEN NodeHash(q[Len(d) + 1], c[Len(d)])
                            ELSE NodeHash(c[Len(d)], q[Len(d) + 1])
<1>1. /\ Len(d) \in Nat /\ Append(d, b)[Len(d) + 1] = b
      /\ \A k \in 1..Len(d) : Append(d, b)[k] = d[k]
  BY Appended
<1> DEFINE s == Append(d, b)
           m == Len(d)
<1> HIDE DEF s, m
<1>2. /\ m \in Nat /\ s[m + 1] = b /\ \A k \in 1..m : s[k] = d[k]
      /\ \A k \in 1..(m + 1) : c[k] = IF s[k] THEN NodeHash(q[k], c[k - 1]) ELSE NodeHash(c[k - 1], q[k])
  BY <1>1, Zenon DEF s, m, Climbs
<1>3. \A k \in 1..m : c[k] = IF d[k] THEN NodeHash(q[k], c[k - 1]) ELSE NodeHash(c[k - 1], q[k])
  BY <1>2
<1>4. c[m + 1] = IF b THEN NodeHash(q[m + 1], c[m]) ELSE NodeHash(c[m], q[m + 1])
  <2>1. m + 1 \in 1..(m + 1) /\ (m + 1) - 1 = m
    BY <1>2
  <2>2. c[m + 1] = IF s[m + 1] THEN NodeHash(q[m + 1], c[(m + 1) - 1]) ELSE NodeHash(c[(m + 1) - 1], q[m + 1])
    BY <1>2, <2>1, Zenon
  <2> QED
    BY <1>2, <2>1, <2>2
<1> QED
  BY <1>3, <1>4 DEF Climbs, m

(* The root over a span, from the half that holds the leaf and the other.  *)
LEMMA RootToward ==
  ASSUME NEW leaves, Len(leaves) \in Nat, NEW leaf \in Nat,
         NEW x \in Holding(leaf, Len(leaves)), Size(x) > 1
  PROVE  RootIn(leaves, x) =
           IF leaf <= Middle(x)
             THEN NodeHash(RootIn(leaves, Toward(leaf, x)), RootIn(leaves, Aside(leaf, x)))
             ELSE NodeHash(RootIn(leaves, Aside(leaf, x)), RootIn(leaves, Toward(leaf, x)))
<1>1. x \in Spans(Len(leaves)) /\ Size(x) # 0 /\ Size(x) # 1
  BY HoldingIs
<1>2. RootIn(leaves, x) = NodeHash(RootIn(leaves, LeftOf(x)), RootIn(leaves, RightOf(x)))
  BY <1>1, RootEquation, Zenon
<1> QED
  BY <1>2 DEF Toward, Aside

\* Fed with the audit path, the climb rebuilds the root over every span on the way.
LEMMA ClimbReaches ==
  ASSUME NEW leaves, Len(leaves) \in Nat, NEW leaf \in Nat, NEW p, NEW d,
         AuditPath(p, leaves, leaf), Turns(d, leaf, Len(leaves))
  PROVE  \A x \in Holding(leaf, Len(leaves)) : \A c :
           c[0] = leaves[leaf] /\ Climbs(c, d[x], p[x], Len(p[x])) => c[Len(p[x])] = RootIn(leaves, x)
<1> DEFINE n == Len(leaves)
           Good(x) == \A c : c[0] = leaves[leaf] /\ Climbs(c, d[x], p[x], Len(p[x]))
                               => c[Len(p[x])] = RootIn(leaves, x)
           U == {x \in Spans(n) : x \in Holding(leaf, n) => Good(x)}
<1>1. ASSUME NEW x \in Spans(n), \A y \in Spans(n) : Size(y) < Size(x) => y \in U, x \in Holding(leaf, n),
             NEW c, c[0] = leaves[leaf], Climbs(c, d[x], p[x], Len(p[x]))
      PROVE  c[Len(p[x])] = RootIn(leaves, x)
  <2>1. CASE Size(x) = 1
    <3>1. p[x] = <<>> /\ leaf = x[2]
      BY <1>1, <2>1, HoldingIs DEF AuditPath
    <3>2. Len(p[x]) = 0
      BY <3>1
    <3>3. RootIn(leaves, x) = leaves[x[2]]
      <4>1. Size(x) # 0
        BY <2>1
      <4> QED
        BY <1>1, <2>1, <4>1, RootEquation, Zenon
    <3> QED
      BY <1>1, <3>1, <3>2, <3>3
  <2>2. CASE Size(x) # 1
    <3>0. Size(x) > 1
      BY <1>1, <2>2, HoldingIs, SpanIs
    <3> DEFINE y == Toward(leaf, x)
               r == RootIn(leaves, Aside(leaf, x))
               b == IF leaf <= Middle(x) THEN FALSE ELSE TRUE
               m == Len(p[y])
    <3>1. y \in Holding(leaf, n) /\ Size(y) < Size(x) /\ y \in Spans(n) /\ Aside(leaf, x) \in Spans(n)
      BY <1>1, <3>0, HoldingIs
    <3>2. p[y] \in Seq(Roots(leaves)) /\ d[y] \in Seq(BOOLEAN) /\ Len(p[y]) = Len(d[y])
      BY <3>1, PathShape
    <3>3. p[x] = Append(p[y], r)
      BY <1>1, <2>2 DEF AuditPath
    <3>4. d[x] = Append(d[y], b)
      BY <1>1, <2>2 DEF Turns
    <3>5. r \in Roots(leaves) /\ b \in BOOLEAN
      BY <3>1 DEF Roots
    <3>6. RootIn(leaves, x) = IF b THEN NodeHash(r, RootIn(leaves, y)) ELSE NodeHash(RootIn(leaves, y), r)
      BY <1>1, <3>0, RootToward
    <3> HIDE DEF y, r, b
    <3>7. m \in Nat /\ Len(p[x]) = m + 1 /\ p[x][m + 1] = r /\ \A k \in 1..m : p[x][k] = p[y][k]
      BY <3>2, <3>3, <3>5, Appended
    <3>8. /\ Climbs(c, d[y], p[x], m)
          /\ c[m + 1] = IF b THEN NodeHash(p[x][m + 1], c[m]) ELSE NodeHash(c[m], p[x][m + 1])
      <4>1. Climbs(c, Append(d[y], b), p[x], Len(d[y]) + 1)
        BY <1>1, <3>2, <3>4, <3>7
      <4> QED
        BY <3>2, <3>5, <4>1, ClimbsLast
    <3>9. Climbs(c, d[y], p[y], m)
      BY <3>7, <3>8 DEF Climbs
    <3>10. c[m] = RootIn(leaves, y)
      <4>1. Good(y)
        BY <1>1, <3>1
      <4> QED
        BY <1>1, <3>9, <4>1, Zenon
    <3> QED
      BY <3>6, <3>7, <3>8, <3>10
  <2> QED
    BY <2>1, <2>2
<1> HIDE DEF U
<1>2. Spans(n) \subseteq U
  <2>1. \A x \in Spans(n) : (\A y \in Spans(n) : Size(y) < Size(x) => y \in U) => x \in U
    BY <1>1, Zenon DEF U
  <2> QED
    BY <2>1, SpanInduct, Zenon
<1> QED
  BY <1>2, HoldingIs DEF U

\* Whatever it is fed, a climb that arrives at the root over a span began at the leaf of the span.
LEMMA ClimbCameFrom ==
  ASSUME NEW leaves, Len(leaves) \in Nat, NEW leaf \in Nat, NEW p, NEW d,
         AuditPath(p, leaves, leaf), Turns(d, leaf, Len(leaves))
  PROVE  \A x \in Holding(leaf, Len(leaves)) : \A c, q :
           Climbs(c, d[x], q, Len(d[x])) /\ c[Len(d[x])] = RootIn(leaves, x) => c[0] = leaves[leaf]
<1> DEFINE n == Len(leaves)
           Good(x) == \A c, q : Climbs(c, d[x], q, Len(d[x])) /\ c[Len(d[x])] = RootIn(leaves, x)
                                  => c[0] = leaves[leaf]
           U == {x \in Spans(n) : x \in Holding(leaf, n) => Good(x)}
<1>1. ASSUME NEW x \in Spans(n), \A y \in Spans(n) : Size(y) < Size(x) => y \in U, x \in Holding(leaf, n),
             NEW c, NEW q, Climbs(c, d[x], q, Len(d[x])), c[Len(d[x])] = RootIn(leaves, x)
      PROVE  c[0] = leaves[leaf]
  <2>1. CASE Size(x) = 1
    <3>1. d[x] = <<>> /\ leaf = x[2]
      BY <1>1, <2>1, HoldingIs DEF Turns
    <3>2. Len(d[x]) = 0
      BY <3>1
    <3>3. RootIn(leaves, x) = leaves[x[2]]
      <4>1. Size(x) # 0
        BY <2>1
      <4> QED
        BY <1>1, <2>1, <4>1, RootEquation, Zenon
    <3> QED
      BY <1>1, <3>1, <3>2, <3>3
  <2>2. CASE Size(x) # 1
    <3>0. Size(x) > 1
      BY <1>1, <2>2, HoldingIs, SpanIs
    <3> DEFINE y == Toward(leaf, x)
               r == RootIn(leaves, Aside(leaf, x))
               b == IF leaf <= Middle(x) THEN FALSE ELSE TRUE
               m == Len(d[y])
    <3>1. y \in Holding(leaf, n) /\ Size(y) < Size(x) /\ y \in Spans(n)
      BY <1>1, <3>0, HoldingIs
    <3>2. d[y] \in Seq(BOOLEAN)
      BY <3>1, PathShape
    <3>4. d[x] = Append(d[y], b) /\ b \in BOOLEAN
      BY <1>1, <2>2 DEF Turns
    <3>6. RootIn(leaves, x) = IF b THEN NodeHash(r, RootIn(leaves, y)) ELSE NodeHash(RootIn(leaves, y), r)
      BY <1>1, <3>0, RootToward
    <3> HIDE DEF y, r, b
    <3>7. m \in Nat /\ Len(d[x]) = m + 1
      BY <3>2, <3>4, Appended
    <3>8. /\ Climbs(c, d[y], q, m)
          /\ c[m + 1] = IF b THEN NodeHash(q[m + 1], c[m]) ELSE NodeHash(c[m], q[m + 1])
      <4> DEFINE e == d[y]
      <4>1. Climbs(c, Append(e, b), q, Len(e) + 1) /\ e \in Seq(BOOLEAN) /\ b \in BOOLEAN
        BY <1>1, <3>2, <3>4, <3>7
      <4> HIDE DEF e
      <4>2. /\ Climbs(c, e, q, Len(e))
            /\ c[Len(e) + 1] = IF b THEN NodeHash(q[Len(e) + 1], c[Len(e)])
                               ELSE NodeHash(c[Len(e)], q[Len(e) + 1])
        BY <4>1, ClimbsLast
      <4> QED
        BY <4>2 DEF e
    <3>9. c[m] = RootIn(leaves, y)
      <4>1. CASE b
        <5>1. NodeHash(q[m + 1], c[m]) = NodeHash(r, RootIn(leaves, y))
          BY <1>1, <3>6, <3>7, <3>8, <4>1
        <5> QED
          BY <5>1, NodeHashInjective
      <4>2. CASE ~b
        <5>1. NodeHash(c[m], q[m + 1]) = NodeHash(RootIn(leaves, y), r)
          BY <1>1, <3>6, <3>7, <3>8, <4>2
        <5> QED
          BY <5>1, NodeHashInjective
      <4> QED
        BY <4>1, <4>2
    <3>10. Good(y)
      BY <1>1, <3>1
    <3> QED
      BY <3>8, <3>9, <3>10, Zenon
  <2> QED
    BY <2>1, <2>2
<1> HIDE DEF U
<1>2. Spans(n) \subseteq U
  <2>1. \A x \in Spans(n) : (\A y \in Spans(n) : Size(y) < Size(x) => y \in U) => x \in U
    BY <1>1, Zenon DEF U
  <2> QED
    BY <2>1, SpanInduct, Zenon
<1> QED
  BY <1>2, HoldingIs DEF U

\* The whole tree holds each of its leaves.
LEMMA WholeHolds ==
  ASSUME NEW n \in Nat, NEW leaf \in 1..n
  PROVE  <<0, n>> \in Holding(leaf, n) /\ <<0, n>> \in Spans(n)
BY SpanOf DEF Holding

\* Completeness: for every tree and every index in it, verify_inclusion accepts the proof that
\* inclusion_proof makes, for the leaf that is there.
THEOREM InclusionComplete ==
  ASSUME NEW leaves, Len(leaves) \in Nat, NEW index \in Nat, index < Len(leaves)
  PROVE  VerifyInclusion(leaves[index + 1], index, Len(leaves),
                         InclusionProof(leaves, index), Root(leaves))
<1> DEFINE n == Len(leaves)
           top == <<0, n>>
<1>1. PICK p : InclusionProof(leaves, index) = p[top] /\ AuditPath(p, leaves, index + 1)
  BY InclusionProofIs
<1>2. PICK d : Directions(index, n) = d[top] /\ Turns(d, index + 1, n)
  BY DirectionsIs
<1>3. top \in Holding(index + 1, n)
  BY WholeHolds
<1> HIDE DEF top
<1>4. /\ p[top] \in Seq(Roots(leaves)) /\ d[top] \in Seq(BOOLEAN) /\ Len(p[top]) = Len(d[top])
  BY <1>1, <1>2, <1>3, PathShape
<1>5. Len(p[top]) \in Nat
  BY <1>4, LenProperties
<1>6. PICK c : Climbed(c, leaves[index + 1], index, n, InclusionProof(leaves, index), Root(leaves))
  <2>1. Len(InclusionProof(leaves, index)) \in Nat
    BY <1>1, <1>5
  <2> QED
    BY <2>1, VerifyInclusionIs
<1>7. c[Len(p[top])] = RootIn(leaves, top)
  BY <1>1, <1>2, <1>3, <1>6, ClimbReaches DEF Climbed
<1>8. Root(leaves) = RootIn(leaves, top)
  BY DEF Root, top
<1> QED
  BY <1>1, <1>2, <1>4, <1>6, <1>7, <1>8 DEF Climbed

\* Soundness: no proof at all, of the server's or of anybody's making, convinces verify_inclusion of a
\* leaf that is not at that index of the tree whose root it is given.
THEOREM InclusionSound ==
  ASSUME NEW leaves, Len(leaves) \in Nat, NEW index \in Nat,
         NEW leaf, NEW proof, Len(proof) \in Nat,
         VerifyInclusion(leaf, index, Len(leaves), proof, Root(leaves))
  PROVE  index < Len(leaves) /\ leaf = leaves[index + 1]
<1> DEFINE n == Len(leaves)
           top == <<0, n>>
           leafNo == index + 1
<1>1. PICK c : Climbed(c, leaf, index, n, proof, Root(leaves))
  BY VerifyInclusionIs
<1>2. /\ index < n /\ Len(Directions(index, n)) = Len(proof) /\ c[Len(proof)] = Root(leaves)
      /\ c[0] = leaf /\ Climbs(c, Directions(index, n), proof, Len(proof))
  BY <1>1 DEF Climbed
<1>3. PICK p : AuditPath(p, leaves, leafNo)
  BY InclusionProofIs
<1>4. PICK d : Directions(index, n) = d[top] /\ Turns(d, leafNo, n)
  BY DirectionsIs
<1>5. top \in Holding(leafNo, n) /\ leafNo \in Nat
  BY <1>2, WholeHolds
<1>6. Root(leaves) = RootIn(leaves, top)
  BY DEF Root, top
<1> HIDE DEF top, leafNo
<1>7. Climbs(c, d[top], proof, Len(d[top])) /\ c[Len(d[top])] = RootIn(leaves, top)
  BY <1>2, <1>4, <1>6
<1>8. c[0] = leaves[leafNo]
  <2>1. Turns(d, leafNo, Len(leaves)) /\ top \in Holding(leafNo, Len(leaves))
    BY <1>4, <1>5
  <2>2. \A x \in Holding(leafNo, Len(leaves)) : \A e, q :
          Climbs(e, d[x], q, Len(d[x])) /\ e[Len(d[x])] = RootIn(leaves, x) => e[0] = leaves[leafNo]
    BY <1>3, <1>5, <2>1, ClimbCameFrom
  <2> QED
    BY <1>7, <2>1, <2>2
<1> QED
  BY <1>2, <1>8 DEF leafNo

\* A proof of inclusion is a sequence.
LEMMA InclusionProofLen ==
  ASSUME NEW leaves, Len(leaves) \in Nat, NEW index \in Nat, index < Len(leaves)
  PROVE  Len(InclusionProof(leaves, index)) \in Nat
<1> DEFINE n == Len(leaves)
           top == <<0, n>>
<1>1. PICK p : InclusionProof(leaves, index) = p[top] /\ AuditPath(p, leaves, index + 1)
  BY InclusionProofIs
<1>2. PICK d : Directions(index, n) = d[top] /\ Turns(d, index + 1, n)
  BY DirectionsIs
<1>3. top \in Holding(index + 1, n)
  BY WholeHolds
<1> HIDE DEF top
<1>4. p[top] \in Seq(Roots(leaves))
  BY <1>1, <1>2, <1>3, PathShape
<1> QED
  BY <1>1, <1>4, LenProperties

\* The two logs are sequences of leaf hashes.
LogsTypeOK == ours \in Seq(Hashes) /\ theirs \in Seq(Hashes)

\* The two logs grow by hashes of entries, and by nothing else.
THEOREM LogsTypes == LogsSpec => []LogsTypeOK
<1>1. LogsInit => LogsTypeOK
  BY DEF LogsInit, LogsTypeOK
<1>2. LogsTypeOK /\ [LogsNext]_logs => LogsTypeOK'
  <2> SUFFICES ASSUME LogsTypeOK, [LogsNext]_logs PROVE LogsTypeOK'
    OBVIOUS
  <2>1. ASSUME NEW e \in Entries, AppendOurs(e) \/ AppendTheirs(e) PROVE LogsTypeOK'
    <3>1. LeafHash(e) \in Hashes
      BY DEF Hashes
    <3>2. Hashes' = Hashes
      BY DEF Hashes
    <3>3. Append(ours, LeafHash(e)) \in Seq(Hashes) /\ Append(theirs, LeafHash(e)) \in Seq(Hashes)
      BY <3>1, Appended DEF LogsTypeOK
    <3> QED
      BY <2>1, <3>2, <3>3 DEF LogsTypeOK, AppendOurs, AppendTheirs
  <2>2. CASE UNCHANGED logs
    BY <2>2 DEF logs, LogsTypeOK, Hashes
  <2> QED
    BY <2>1, <2>2 DEF LogsNext
<1> QED
  BY <1>1, <1>2, PTL DEF LogsSpec

\* Inclusion proofs are exact for every pair of logs, of any size (inclusion_proof and verify_inclusion).
THEOREM InclusionExact == LogsSpec => []InclusionIsExact
<1>1. LogsTypeOK => InclusionIsExact
  <2> SUFFICES ASSUME LogsTypeOK PROVE InclusionIsExact
    OBVIOUS
  <2>1. Len(ours) \in Nat /\ Len(theirs) \in Nat
    BY LenProperties DEF LogsTypeOK
  <2>2. ASSUME NEW i \in 1..Len(ours)
        PROVE  VerifyInclusion(ours[i], i - 1, Len(ours), InclusionProof(ours, i - 1), Root(ours))
    <3>1. i - 1 \in Nat /\ i - 1 < Len(ours) /\ (i - 1) + 1 = i
      BY <2>1
    <3>2. VerifyInclusion(ours[(i - 1) + 1], i - 1, Len(ours), InclusionProof(ours, i - 1), Root(ours))
      BY <2>1, <3>1, InclusionComplete
    <3> QED
      BY <3>1, <3>2
  <2>3. ASSUME NEW source \in {ours, theirs}, NEW i \in 1..Len(source), NEW j \in 1..Len(ours), NEW x \in Hashes,
               VerifyInclusion(x, j - 1, Len(ours), InclusionProof(source, i - 1), Root(ours))
        PROVE  x = ours[j]
    <3>1. j - 1 \in Nat /\ (j - 1) + 1 = j /\ i - 1 \in Nat /\ i - 1 < Len(source) /\ Len(source) \in Nat
      BY <2>1
    <3>2. Len(InclusionProof(source, i - 1)) \in Nat
      BY <3>1, InclusionProofLen
    <3>3. x = ours[(j - 1) + 1]
      BY <2>1, <2>3, <3>1, <3>2, InclusionSound
    <3> QED
      BY <3>1, <3>3
  <2> QED
    BY <2>2, <2>3 DEF InclusionIsExact
<1> QED
  BY <1>1, LogsTypes, PTL

----------------------------------------------------------------------------
(* Divisions by powers of two: what the shifts of the verifier compute.    *)
LEMMA DivOf ==
  ASSUME NEW f \in Nat, NEW p \in Nat, p > 0, NEW r \in Nat, r < p
  PROVE  (f * p + r) \div p = f
OBVIOUS

\* Halving an index is one level up.
LEMMA Half ==
  ASSUME NEW x \in Nat, NEW p \in Nat, p > 0
  PROVE  (x \div p) \div 2 = x \div (2 * p) /\ x \div p \in Nat
OBVIOUS

\* An order of leaves is kept one level up.
LEMMA Mono ==
  ASSUME NEW x \in Nat, NEW y \in Nat, x <= y, NEW p \in Nat, p > 0
  PROVE  (x \div p) <= (y \div p)
OBVIOUS

\* The first node of a level.
LEMMA Small ==
  ASSUME NEW x \in Nat, NEW p \in Nat, p > 0
  PROVE  x < p <=> x \div p = 0
OBVIOUS

\* Left nodes have even indices, right ones odd.
LEMMA OddOf ==
  ASSUME NEW f \in Nat
  PROVE  (2 * f + 1) % 2 = 1 /\ (2 * f) % 2 = 0 /\ (2*f+1) \div 2 = f /\ (2*f) \div 2 = f
OBVIOUS

\* A smaller power of two divides a larger one.
LEMMA Divides ==
  ASSUME NEW q \in Pow2, NEW h \in Pow2, q <= h
  PROVE  \E j \in Pow2 : h = j * q
<1> DEFINE U == {r \in Nat : \A s \in Pow2 : s <= r => \E j \in Pow2 : r = j * s}
<1>1. 1 \in U
  <2>1. \A s \in Pow2 : s <= 1 => s = 1
    BY PowerShape
  <2> QED
    BY <2>1, PowerOne
<1>2. ASSUME NEW r \in Pow2, r \in U PROVE 2 * r \in U
  <2>1. ASSUME NEW s \in Pow2, s <= 2 * r PROVE \E j \in Pow2 : 2 * r = j * s
    <3>1. r \in Nat /\ s \in Nat
      BY PowerShape
    <3>2. CASE s <= r
      <4>1. PICK j \in Pow2 : r = j * s
        BY <1>2, <3>2
      <4>2. j \in Nat /\ 2 * j \in Pow2 /\ 2 * r = (2 * j) * s
        BY <3>1, <4>1, PowerShape, PowerDoubles
      <4> QED
        BY <4>2
    <3>3. CASE ~(s <= r)
      <4>1. r < s
        BY <3>1, <3>3
      <4>2. 2 * r <= s
        BY <4>1, PowersApart
      <4>3. 2 * r = 1 * s
        BY <2>1, <3>1, <4>2
      <4> QED
        BY <4>3, PowerOne
    <3> QED
      BY <3>2, <3>3
  <2>2. 2 * r \in Nat
    BY PowerShape
  <2> QED
    BY <2>1, <2>2
<1> HIDE DEF U
<1>3. Pow2 \subseteq U
  BY <1>1, <1>2, PowerInduct
<1> QED
  BY <1>3 DEF U

(***************************************************************************)
(* The two loops that skip levels.                                         *)
(***************************************************************************)
SkipBody(g, S, x) == IF x \in S THEN g[Up(x)] ELSE x

SkipSolves(g, N, S) == g = [x \in (0..N) \X (0..N) |-> SkipBody(g, S, x)]

\* One level up, the indices are smaller.
LEMMA UpIs ==
  ASSUME NEW N \in Nat, NEW u \in 0..N, NEW v \in 0..N
  PROVE  /\ Up(<<u, v>>) = <<u \div 2, v \div 2>>
         /\ u \div 2 \in 0..N /\ v \div 2 \in 0..N /\ u \div 2 \in Nat /\ v \div 2 \in Nat
         /\ u > 0 => u \div 2 < u
<1>1. Up(<<u, v>>) = <<u \div 2, v \div 2>>
  BY DEF Up
<1>2. u \div 2 \in 0..N /\ v \div 2 \in 0..N /\ u \div 2 \in Nat /\ v \div 2 \in Nat
      /\ (u > 0 => u \div 2 < u)
  OBVIOUS
<1> QED
  BY <1>1, <1>2

\* A loop that goes up while its index is in S, positive, ends.
LEMMA SkipExists ==
  ASSUME NEW N \in Nat, NEW S, \A x \in S : x[1] > 0
  PROVE  \E g : SkipSolves(g, N, S)
<1> DEFINE D == (0..N) \X (0..N)
           Body(g, x) == SkipBody(g, S, x)
           U == {j \in Nat : \E g : \A x \in D : x[1] < j => g[x] = Body(g, x)}
<1>0. ASSUME NEW x \in D
      PROVE  x[1] \in Nat /\ x[1] <= N /\ Up(x) \in D /\ Up(x)[1] \in Nat /\ (x[1] > 0 => Up(x)[1] < x[1])
  <2>1. PICK u \in 0..N, v \in 0..N : x = <<u, v>>
    OBVIOUS
  <2> QED
    BY <2>1, UpIs
<1> HIDE DEF D
<1>1. 0 \in U
  BY <1>0
<1>2. ASSUME NEW j \in Nat, j \in U PROVE j + 1 \in U
  <2>1. PICK g : \A x \in D : x[1] < j => g[x] = Body(g, x)
    BY <1>2
  <2> DEFINE h == [x \in D |-> Body(g, x)]
  <2>2. ASSUME NEW x \in D, x[1] < j + 1 PROVE h[x] = Body(h, x)
    <3>1. h[x] = Body(g, x)
      OBVIOUS
    <3>2. CASE x \in S
      <4>1. Up(x) \in D /\ Up(x)[1] < j
        BY <1>0, <2>2, <3>2
      <4>2. h[Up(x)] = g[Up(x)]
        BY <2>1, <4>1
      <4> QED
        BY <3>1, <4>2, Zenon DEF SkipBody
    <3>3. CASE x \notin S
      BY <3>1, <3>3, Zenon DEF SkipBody
    <3> QED
      BY <3>2, <3>3
  <2> HIDE DEF h
  <2>3. \E f : \A x \in D : x[1] < j + 1 => f[x] = Body(f, x)
    BY <2>2, Zenon
  <2> QED
    BY <2>3
<1> HIDE DEF U
<1>3. N + 1 \in U
  BY <1>1, <1>2, Induct
<1>4. PICK g : \A x \in D : x[1] < N + 1 => g[x] = Body(g, x)
  BY <1>3 DEF U
<1> DEFINE h == [x \in D |-> g[x]]
<1>5. ASSUME NEW x \in D PROVE h[x] = Body(h, x)
  <2>1. h[x] = Body(g, x)
    BY <1>0, <1>4
  <2>2. CASE x \in S
    <3>1. h[Up(x)] = g[Up(x)]
      BY <1>0
    <3> QED
      BY <2>1, <3>1, Zenon DEF SkipBody
  <2>3. CASE x \notin S
    BY <2>1, <2>3, Zenon DEF SkipBody
  <2> QED
    BY <2>2, <2>3
<1>6. h = [x \in D |-> Body(h, x)]
  BY <1>5, Zenon
<1> QED
  BY <1>6, Zenon DEF SkipSolves, D

\* What the first loop of verify_consistency computes, level by level.
SkipsCommon(g, N) ==
  \A u, v \in 0..N : g[<<u, v>>] = IF u % 2 = 1 THEN g[<<u \div 2, v \div 2>>] ELSE <<u, v>>

\* The first loop of verify_consistency ends.
LEMMA SkipCommonIs ==
  ASSUME NEW from, NEW to \in Nat
  PROVE  \E g : SkipCommon(from, to) = g[<<from - 1, to - 1>>] /\ SkipsCommon(g, to)
<1> DEFINE D == (0..to) \X (0..to)
           S == {x \in D : x[1] % 2 = 1}
           Code(g, x) == IF x[1] % 2 = 1 THEN g[Up(x)] ELSE x
           s == CHOOSE g : g = [x \in D |-> Code(g, x)]
<1>1. \A x \in S : x[1] > 0
  BY SMT
<1>2. \A g : \A x \in D : SkipBody(g, S, x) = Code(g, x)
  BY DEF SkipBody
<1>3. SkipCommon(from, to) = s[<<from - 1, to - 1>>]
  BY Zenon DEF SkipCommon
<1> HIDE DEF S, D
<1>4. \E g : SkipSolves(g, to, S)
  BY <1>1, SkipExists
<1>5. PICK f : f = [x \in D |-> SkipBody(f, S, x)]
  BY <1>4, Zenon DEF SkipSolves, D
<1>6. f = [x \in D |-> Code(f, x)]
  BY <1>2, <1>5, Zenon
<1>7. s = [x \in D |-> Code(s, x)]
  BY <1>6, Zenon
<1> HIDE DEF s
<1>8. SkipsCommon(s, to)
  <2> SUFFICES ASSUME NEW u \in 0..to, NEW v \in 0..to
               PROVE  s[<<u, v>>] = IF u % 2 = 1 THEN s[<<u \div 2, v \div 2>>] ELSE <<u, v>>
    BY DEF SkipsCommon
  <2>1. <<u, v>> \in D /\ <<u, v>>[1] = u
    BY DEF D
  <2>2. s[<<u, v>>] = IF <<u, v>>[1] % 2 = 1 THEN s[Up(<<u, v>>)] ELSE <<u, v>>
    BY <1>7, <2>1, Zenon
  <2>3. Up(<<u, v>>) = <<u \div 2, v \div 2>>
    BY UpIs
  <2> QED
    BY <2>1, <2>2, <2>3, Zenon
<1> QED
  BY <1>3, <1>8

\* What its inner loop computes.
SkipsAlone(g, N) ==
  \A u, v \in 0..N : g[<<u, v>>] = IF u # 0 /\ u % 2 = 0 THEN g[<<u \div 2, v \div 2>>] ELSE <<u, v>>

\* Its inner loop ends.
LEMMA SkipAloneIs ==
  ASSUME NEW a, NEW b \in Nat
  PROVE  \E g : SkipAlone(<<a, b>>) = g[<<a, b>>] /\ SkipsAlone(g, b)
<1> DEFINE at == <<a, b>>
           D == (0..at[2]) \X (0..at[2])
           S == {x \in D : x[1] # 0 /\ x[1] % 2 = 0}
           Code(g, x) == IF x[1] # 0 /\ x[1] % 2 = 0 THEN g[Up(x)] ELSE x
           s == CHOOSE g : g = [x \in D |-> Code(g, x)]
<1>0. at[2] = b
  OBVIOUS
<1>1. \A x \in S : x[1] > 0
  BY SMT
<1>2. \A g : \A x \in D : SkipBody(g, S, x) = Code(g, x)
  BY DEF SkipBody
<1>3. SkipAlone(at) = s[at]
  BY Zenon DEF SkipAlone
<1>9. D = (0..b) \X (0..b)
  BY <1>0
<1> HIDE DEF S, D, at
<1>4. \E g : SkipSolves(g, b, S)
  BY <1>1, SkipExists
<1>5. PICK f : f = [x \in D |-> SkipBody(f, S, x)]
  BY <1>4, <1>9, Zenon DEF SkipSolves
<1>6. f = [x \in D |-> Code(f, x)]
  BY <1>2, <1>5, Zenon
<1>7. s = [x \in D |-> Code(s, x)]
  BY <1>6, Zenon
<1> HIDE DEF s
<1>8. SkipsAlone(s, b)
  <2> SUFFICES ASSUME NEW u \in 0..b, NEW v \in 0..b
               PROVE  s[<<u, v>>] = IF u # 0 /\ u % 2 = 0 THEN s[<<u \div 2, v \div 2>>] ELSE <<u, v>>
    BY DEF SkipsAlone
  <2>1. <<u, v>> \in D /\ <<u, v>>[1] = u
    BY <1>9
  <2>2. s[<<u, v>>] = IF <<u, v>>[1] # 0 /\ <<u, v>>[1] % 2 = 0 THEN s[Up(<<u, v>>)] ELSE <<u, v>>
    BY <1>7, <2>1, Zenon
  <2>3. Up(<<u, v>>) = <<u \div 2, v \div 2>>
    BY UpIs
  <2> QED
    BY <2>1, <2>2, <2>3, Zenon
<1> QED
  BY <1>3, <1>8 DEF at

\* A level further up has no more nodes.
LEMMA DivAnti ==
  ASSUME NEW x \in Nat, NEW p \in Nat, NEW q \in Nat, p > 0, p <= q
  PROVE  x \div q <= x \div p
<1> DEFINE u == x \div q
           r == x % q
<1>1. u \in Nat /\ r \in Nat /\ r < q /\ x = u * q + r
  OBVIOUS
<1>2. u * p <= u * q
  BY <1>1
<1>3. u * p <= x
  BY <1>1, <1>2
<1>4. (u * p) \div p = u
  <2>1. (u * p + 0) \div p = u
    BY <1>1, DivOf
  <2> QED
    BY <1>1, <2>1
<1>5. u * p \in Nat
  BY <1>1
<1> HIDE DEF u
<1>6. (u * p) \div p <= x \div p
  BY <1>3, <1>5, Mono
<1> QED
  BY <1>4, <1>6 DEF u

(* Where the old tree ends on a full node that is a left half, climbing    *)
(* the common levels stops at that node.                                   *)
LEMMA SkipCommonAt ==
  ASSUME NEW f \in Nat, f % 2 = 0, NEW p \in Pow2, NEW m \in Nat, m = f * p + p,
         NEW n \in Nat, m <= n
  PROVE  SkipCommon(m, n) = <<f, (n - 1) \div p>>
<1>0. p \in Nat /\ p > 0 /\ m - 1 \in Nat /\ n - 1 \in Nat /\ m > 0
  <2>1. p \in Nat /\ p > 0
    BY PowerShape
  <2>2. f * p \in Nat
    BY <2>1
  <2> QED
    BY <2>1, <2>2
<1>1. PICK g : SkipCommon(m, n) = g[<<m - 1, n - 1>>] /\ SkipsCommon(g, n)
  BY SkipCommonIs
<1> DEFINE U == {j \in Nat : \A q \in Pow2 : p = j * q =>
                    g[<<(m - 1) \div q, (n - 1) \div q>>] = <<f, (n - 1) \div p>>}
<1>2. ASSUME NEW q \in Pow2
      PROVE  /\ q \in Nat /\ q > 0 /\ (m - 1) \div q \in 0..n /\ (n - 1) \div q \in 0..n
             /\ ((m - 1) \div q) \div 2 = (m - 1) \div (2 * q)
             /\ ((n - 1) \div q) \div 2 = (n - 1) \div (2 * q)
  <2>1. q \in Nat /\ q > 0
    BY PowerShape
  <2>2. (m - 1) \div q \in Nat /\ (n - 1) \div q \in Nat
        /\ ((m - 1) \div q) \div 2 = (m - 1) \div (2 * q)
        /\ ((n - 1) \div q) \div 2 = (n - 1) \div (2 * q)
    BY <1>0, <2>1, Half
  <2>3. (m - 1) \div q <= (m - 1) \div 1 /\ (n - 1) \div q <= (n - 1) \div 1
    BY <1>0, <2>1, DivAnti
  <2>4. (m - 1) \div 1 = m - 1 /\ (n - 1) \div 1 = n - 1
    BY <1>0
  <2> QED
    BY <1>0, <2>1, <2>2, <2>3, <2>4
<1>3. 1 \in U
  <2>1. ASSUME NEW q \in Pow2, p = 1 * q
        PROVE  g[<<(m - 1) \div q, (n - 1) \div q>>] = <<f, (n - 1) \div p>>
    <3>1. q = p
      BY <1>0, <1>2, <2>1
    <3>2. (m - 1) \div p = f
      <4>1. m - 1 = f * p + (p - 1)
        BY <1>0
      <4> QED
        BY <1>0, <4>1, DivOf
    <3>3. g[<<f, (n - 1) \div p>>] = IF f % 2 = 1 THEN g[<<f \div 2, ((n - 1) \div p) \div 2>>]
                                      ELSE <<f, (n - 1) \div p>>
      BY <1>1, <1>2, <3>2, Zenon DEF SkipsCommon
    <3>4. f % 2 # 1
      OBVIOUS
    <3> QED
      BY <3>1, <3>2, <3>3, <3>4
  <2> QED
    BY <2>1
<1>4. ASSUME NEW j \in Pow2, j \in U PROVE 2 * j \in U
  <2>1. ASSUME NEW q \in Pow2, p = (2 * j) * q
        PROVE  g[<<(m - 1) \div q, (n - 1) \div q>>] = <<f, (n - 1) \div p>>
    <3>1. j \in Nat /\ j > 0 /\ 2 * q \in Pow2
      BY PowerShape, PowerDoubles
    <3>2. p = j * (2 * q)
      BY <1>2, <2>1, <3>1
    <3>3. g[<<(m - 1) \div (2 * q), (n - 1) \div (2 * q)>>] = <<f, (n - 1) \div p>>
      BY <1>4, <3>1, <3>2
    <3>4. (m - 1) \div q = 2 * (j * f + j - 1) + 1
      <4> DEFINE t == 2 * (j * f + j - 1) + 1
      <4>0. j * f \in Nat
        BY <3>1
      <4>1. t \in Nat
        BY <3>1, <4>0
      <4>2. m - 1 = t * q + (q - 1)
        BY <1>0, <1>2, <2>1, <3>1
      <4> DEFINE r == q - 1
      <4>3. r \in Nat /\ r < q
        BY <1>2
      <4> HIDE DEF t, r
      <4>4. (t * q + r) \div q = t
        BY <1>2, <4>1, <4>3, DivOf
      <4> QED
        BY <4>2, <4>4 DEF t, r
    <3>5. ((m - 1) \div q) % 2 = 1
      <4>1. j * f + j - 1 \in Nat
        <5>1. j * f \in Nat
          BY <3>1
        <5> QED
          BY <3>1, <5>1
      <4> QED
        BY <3>4, <4>1, OddOf
    <3>6. g[<<(m - 1) \div q, (n - 1) \div q>>] = g[<<((m - 1) \div q) \div 2, ((n - 1) \div q) \div 2>>]
      BY <1>1, <1>2, <3>5, Zenon DEF SkipsCommon
    <3> QED
      BY <1>2, <3>3, <3>6
  <2>2. 2 * j \in Nat
    BY PowerShape
  <2> QED
    BY <2>1, <2>2
<1> HIDE DEF U
<1>5. p \in U
  BY <1>3, <1>4, PowerInduct
<1>6. p = p * 1 /\ 1 \in Pow2
  BY <1>0, PowerOne
<1>7. g[<<(m - 1) \div 1, (n - 1) \div 1>>] = <<f, (n - 1) \div p>>
  BY <1>5, <1>6 DEF U
<1>8. (m - 1) \div 1 = m - 1 /\ (n - 1) \div 1 = n - 1
  BY <1>0
<1> QED
  BY <1>1, <1>7, <1>8

(* From a node that begins a right half of height h, the levels where it   *)
(* has no sibling are skipped up to that half.                             *)
LEMMA SkipAloneAt ==
  ASSUME NEW f \in Nat, NEW h \in Pow2, NEW q \in Pow2, q <= h,
         NEW a \in Nat, a = (2 * f + 1) * h, NEW s \in Nat, a <= s
  PROVE  SkipAlone(<<a \div q, s \div q>>) = <<2 * f + 1, s \div h>>
<1>0. h \in Nat /\ h > 0 /\ q \in Nat /\ q > 0 /\ s \div q \in Nat
  <2>1. h \in Nat /\ h > 0 /\ q \in Nat /\ q > 0
    BY PowerShape
  <2> QED
    BY <2>1, Half
<1> DEFINE b == s \div q
<1>1. PICK g : SkipAlone(<<a \div q, b>>) = g[<<a \div q, b>>] /\ SkipsAlone(g, b)
  BY <1>0, SkipAloneIs
<1> DEFINE U == {j \in Nat : \A r \in Pow2 : h = j * r /\ q <= r =>
                    g[<<a \div r, s \div r>>] = <<2 * f + 1, s \div h>>}
<1>2. ASSUME NEW r \in Pow2, q <= r
      PROVE  /\ r \in Nat /\ r > 0 /\ a \div r \in 0..b /\ s \div r \in 0..b
             /\ (a \div r) \div 2 = a \div (2 * r)
             /\ (s \div r) \div 2 = s \div (2 * r)
  <2>1. r \in Nat /\ r > 0
    BY PowerShape
  <2>2. a \div r \in Nat /\ s \div r \in Nat
        /\ (a \div r) \div 2 = a \div (2 * r)
        /\ (s \div r) \div 2 = s \div (2 * r)
    BY <2>1, Half
  <2>3. s \div r <= b
    BY <1>0, <1>2, <2>1, DivAnti
  <2>4. a \div r <= s \div r
    BY <2>1, Mono
  <2> QED
    BY <1>0, <2>1, <2>2, <2>3, <2>4
<1> HIDE DEF b
<1>3. 1 \in U
  <2>1. ASSUME NEW r \in Pow2, h = 1 * r, q <= r
        PROVE  g[<<a \div r, s \div r>>] = <<2 * f + 1, s \div h>>
    <3>1. r = h
      BY <1>0, <1>2, <2>1
    <3>2. a \div h = 2 * f + 1
      <4>1. a = (2 * f + 1) * h + 0 /\ 2 * f + 1 \in Nat
        BY <1>0
      <4> QED
        BY <1>0, <4>1, DivOf
    <3>3. (2 * f + 1) % 2 = 1
      BY OddOf
    <3>4. ~((a \div h) # 0 /\ (a \div h) % 2 = 0)
      BY <3>2, <3>3
    <3>5. g[<<a \div h, s \div h>>] = <<a \div h, s \div h>>
      BY <1>1, <1>2, <2>1, <3>1, <3>4, Zenon DEF SkipsAlone
    <3> QED
      BY <3>1, <3>2, <3>5
  <2> QED
    BY <2>1
<1>4. ASSUME NEW j \in Pow2, j \in U PROVE 2 * j \in U
  <2>1. ASSUME NEW r \in Pow2, h = (2 * j) * r, q <= r
        PROVE  g[<<a \div r, s \div r>>] = <<2 * f + 1, s \div h>>
    <3>1. j \in Nat /\ j > 0 /\ 2 * r \in Pow2 /\ r \in Nat
      BY PowerShape, PowerDoubles
    <3>2. h = j * (2 * r) /\ q <= 2 * r
      BY <1>0, <1>2, <2>1, <3>1
    <3>3. g[<<a \div (2 * r), s \div (2 * r)>>] = <<2 * f + 1, s \div h>>
      BY <1>4, <3>1, <3>2
    <3>4. a \div r = 2 * (j * (2 * f + 1))
      <4> DEFINE t == 2 * (j * (2 * f + 1))
      <4>1. t \in Nat
        BY <3>1
      <4>2. a = t * r + 0
        BY <1>0, <1>2, <2>1, <3>1
      <4> HIDE DEF t
      <4>3. (t * r + 0) \div r = t
        BY <1>2, <2>1, <4>1, DivOf
      <4> QED
        BY <4>2, <4>3 DEF t
    <3>5. a \div r # 0 /\ (a \div r) % 2 = 0
      <4>1. j * (2 * f + 1) \in Nat /\ j * (2 * f + 1) > 0
        BY <3>1
      <4> QED
        BY <3>4, <4>1, OddOf
    <3>6. g[<<a \div r, s \div r>>] = g[<<(a \div r) \div 2, (s \div r) \div 2>>]
      BY <1>1, <1>2, <2>1, <3>5, Zenon DEF SkipsAlone
    <3> QED
      BY <1>2, <2>1, <3>3, <3>6
  <2>2. 2 * j \in Nat
    BY PowerShape
  <2> QED
    BY <2>1, <2>2
<1> HIDE DEF U
<1>5. PICK j \in Pow2 : h = j * q
  BY Divides
<1>6. j \in U
  BY <1>3, <1>4, PowerInduct
<1> QED
  BY <1>0, <1>1, <1>5, <1>6 DEF U, b

(***************************************************************************)
(* The verifier of consistency: where it starts and how it walks.          *)
(***************************************************************************)
KnownStart(from, to) == SkipCommon(from, to)[1] = 0
RestOf(from, to, proof) == IF KnownStart(from, to) THEN proof ELSE Tail(proof)
SeedOf(from, oldRoot, to, proof) == IF KnownStart(from, to) THEN oldRoot ELSE Head(proof)
Start(from, to, seed) == [at |-> SkipCommon(from, to), old |-> seed, new |-> seed, ok |-> TRUE]

\* The walk of the verifier, one sibling to a step.
WalkBody(g, start, rest, k) == IF k = 0 THEN start ELSE Absorbed(g[k - 1], rest[k])

WalkSolves(g, start, rest, n) == g = [k \in 0..n |-> WalkBody(g, start, rest, k)]

\* The walk ends, whatever it is fed.
LEMMA WalkExists ==
  ASSUME NEW start, NEW rest, NEW n \in Nat
  PROVE  \E g : WalkSolves(g, start, rest, n)
<1> DEFINE Body(g, k) == WalkBody(g, start, rest, k)
           U == {j \in Nat : \E g : \A k \in 0..n : k < j => g[k] = Body(g, k)}
<1>1. 0 \in U
  OBVIOUS
<1>2. ASSUME NEW j \in Nat, j \in U PROVE j + 1 \in U
  <2>1. PICK g : \A k \in 0..n : k < j => g[k] = Body(g, k)
    BY <1>2
  <2> DEFINE h == [k \in 0..n |-> Body(g, k)]
  <2>2. ASSUME NEW k \in 0..n, k < j + 1 PROVE h[k] = Body(h, k)
    <3>1. h[k] = Body(g, k)
      OBVIOUS
    <3>2. CASE k # 0
      <4>1. k - 1 \in 0..n /\ k - 1 < j
        BY <2>2, <3>2
      <4>2. h[k - 1] = g[k - 1]
        BY <2>1, <4>1
      <4> QED
        BY <3>1, <4>2, Zenon DEF WalkBody
    <3>3. CASE k = 0
      BY <3>1, <3>3, Zenon DEF WalkBody
    <3> QED
      BY <3>2, <3>3
  <2> HIDE DEF h
  <2>3. \E f : \A k \in 0..n : k < j + 1 => f[k] = Body(f, k)
    BY <2>2, Zenon
  <2> QED
    BY <2>3
<1> HIDE DEF U
<1>3. n + 1 \in U
  BY <1>1, <1>2, Induct
<1>4. PICK g : \A k \in 0..n : k < n + 1 => g[k] = Body(g, k)
  BY <1>3 DEF U
<1> DEFINE h == [k \in 0..n |-> g[k]]
<1>5. ASSUME NEW k \in 0..n PROVE h[k] = Body(h, k)
  <2>1. h[k] = Body(g, k)
    BY <1>4
  <2>2. CASE k # 0
    <3>1. k - 1 \in 0..n
      BY <2>2
    <3>2. h[k - 1] = g[k - 1]
      BY <3>1
    <3> QED
      BY <2>1, <3>2, Zenon DEF WalkBody
  <2>3. CASE k = 0
    BY <2>1, <2>3, Zenon DEF WalkBody
  <2> QED
    BY <2>2, <2>3
<1>6. h = [k \in 0..n |-> Body(h, k)]
  BY <1>5, Zenon
<1> QED
  BY <1>6, Zenon DEF WalkSolves

Walks(w, rest, n) == \A k \in 1..n : w[k] = Absorbed(w[k - 1], rest[k])

\* How a walk must end for the proof to be accepted.
Ends(end, oldRoot, newRoot) == end.ok /\ end.at[2] = 0 /\ end.old = oldRoot /\ end.new = newRoot

Walked(w, from, oldRoot, to, newRoot, proof) ==
  /\ w[0] = Start(from, to, SeedOf(from, oldRoot, to, proof))
  /\ Walks(w, RestOf(from, to, proof), Len(RestOf(from, to, proof)))
  /\ VerifyConsistency(from, oldRoot, to, newRoot, proof) <=>
       /\ InRange(from, to) /\ (KnownStart(from, to) \/ proof # <<>>)
       /\ Ends(w[Len(RestOf(from, to, proof))], oldRoot, newRoot)

\* verify_consistency accepts exactly when the walk ends well.
LEMMA VerifyConsistencyIs ==
  ASSUME NEW from, NEW oldRoot, NEW to, NEW newRoot, NEW proof, from # to,
         Len(RestOf(from, to, proof)) \in Nat
  PROVE  \E w : Walked(w, from, oldRoot, to, newRoot, proof)
<1> DEFINE start == Start(from, to, SeedOf(from, oldRoot, to, proof))
           rest == RestOf(from, to, proof)
           w == CHOOSE g : g = [k \in 0..Len(rest) |-> WalkBody(g, start, rest, k)]
<1>1. VerifyConsistency(from, oldRoot, to, newRoot, proof) <=>
        /\ InRange(from, to) /\ (KnownStart(from, to) \/ proof # <<>>)
        /\ Ends(w[Len(rest)], oldRoot, newRoot)
  BY Zenon DEF VerifyConsistency, WalkBody, Start, SeedOf, RestOf, KnownStart, Ends
<1> HIDE DEF start, rest
<1>2. \E g : WalkSolves(g, start, rest, Len(rest))
  BY WalkExists DEF rest
<1>3. w = [k \in 0..Len(rest) |-> WalkBody(w, start, rest, k)]
  BY <1>2, Zenon DEF WalkSolves
<1> HIDE DEF w
<1>4. \A k \in 0..Len(rest) : w[k] = WalkBody(w, start, rest, k)
  BY <1>3, Zenon
<1>5. Len(rest) \in Nat
  BY DEF rest
<1>6. w[0] = start
  BY <1>4, <1>5 DEF WalkBody
<1>7. Walks(w, rest, Len(rest))
  BY <1>4, <1>5 DEF WalkBody, Walks
<1> QED
  BY <1>1, <1>6, <1>7, Zenon DEF Walked, start, rest

(***************************************************************************)
(* The spans the prover reaches in a tree of n leaves are its nodes: they  *)
(* begin at a multiple of a power of two p, and are either full (p leaves) *)
(* or the last of their level.                                             *)
(***************************************************************************)
Node(x, p, n) ==
  /\ p \in Pow2 /\ \E f \in Nat : x[1] = f * p
  /\ Size(x) <= p /\ p < 2 * Size(x)
  /\ x[2] = x[1] + p \/ x[2] = n

(* The indices of a node and of the last node of its level; the rule by    *)
(* which the verifier takes the next sibling, and where it goes then.      *)
At(x, p, n) == <<x[1] \div p, (n - 1) \div p>>
Joined(at)  == at[1] % 2 = 1 \/ at[1] = at[2]
NextAt(at)  == Up(IF Joined(at) THEN SkipAlone(at) ELSE at)

\* A node with more than one leaf has a child of half its width.
LEMMA NodeHalf ==
  ASSUME NEW n \in Nat, NEW x \in Spans(n), Size(x) > 1, NEW p, Node(x, p, n)
  PROVE  \E h \in Pow2 : p = 2 * h /\ h = SplitPoint(Size(x)) /\ h < Size(x)
<1>1. p \in Pow2 /\ p \in Nat /\ Size(x) \in Nat /\ Size(x) <= p /\ p < 2 * Size(x)
  BY SpanIs, PowerShape DEF Node
<1>2. PICK h \in Pow2 : p = 2 * h
  BY <1>1, PowerShape
<1>3. h \in Nat /\ h < Size(x) /\ Size(x) <= 2 * h
  BY <1>1, <1>2, PowerShape
<1>4. SplitPoint(Size(x)) = h
  BY <1>1, <1>3, SplitPointOf
<1> QED
  BY <1>2, <1>3, <1>4

(* From a left half that has a right one: its sibling is on the right.     *)
LEMMA StepLeft ==
  ASSUME NEW n \in Nat, NEW x \in Spans(n), Size(x) > 1, NEW p, Node(x, p, n)
  PROVE  \E h : /\ Node(LeftOf(x), h, n)
                /\ ~Joined(At(LeftOf(x), h, n)) /\ At(LeftOf(x), h, n)[2] # 0
                /\ NextAt(At(LeftOf(x), h, n)) = At(x, p, n)
                /\ (LeftOf(x)[1] \div h) % 2 = 0
<1>1. PICK h \in Pow2 : p = 2 * h /\ h = SplitPoint(Size(x)) /\ h < Size(x)
  BY NodeHalf
<1>2. h \in Nat /\ h > 0
  BY PowerShape
<1>3. /\ x[1] \in Nat /\ x[2] \in Nat /\ x[2] <= n /\ Size(x) = x[2] - x[1]
      /\ LeftOf(x)[1] = x[1] /\ LeftOf(x)[2] = x[1] + h /\ Size(LeftOf(x)) = h
      /\ LeftOf(x) \in Spans(n)
  BY <1>1, Halves, SpanIs
<1>4. PICK f \in Nat : x[1] = f * p
  BY DEF Node
<1>5. x[1] = (2 * f) * h + 0
  BY <1>1, <1>2, <1>4
<1>6. Node(LeftOf(x), h, n)
  <2>1. 2 * f \in Nat /\ LeftOf(x)[1] = (2 * f) * h
    BY <1>2, <1>3, <1>5
  <2>2. h <= h /\ h < 2 * h
    BY <1>2
  <2> QED
    BY <1>3, <2>1, <2>2 DEF Node
<1>7. x[1] \div h = 2 * f
  <2>1. 2 * f \in Nat
    OBVIOUS
  <2> QED
    BY <1>2, <1>5, <2>1, DivOf
<1>8. (n - 1) \div h >= 2 * f + 1 /\ (n - 1) \div h \in Nat
  <2>1. n - 1 \in Nat /\ (2 * f + 1) * h + 0 <= n - 1 /\ (2 * f + 1) * h + 0 \in Nat
    <3>1. (2 * f + 1) * h + 0 = x[1] + h
      BY <1>2, <1>5
    <3> QED
      BY <1>1, <1>2, <1>3, <3>1
  <2>2. ((2 * f + 1) * h + 0) \div h = 2 * f + 1
    <3>1. 2 * f + 1 \in Nat
      OBVIOUS
    <3> QED
      BY <1>2, <3>1, DivOf
  <2>3. ((2 * f + 1) * h + 0) \div h <= (n - 1) \div h
    <3> DEFINE y == (2 * f + 1) * h + 0
    <3>1. y \in Nat /\ y <= n - 1
      BY <2>1
    <3> HIDE DEF y
    <3>2. y \div h <= (n - 1) \div h
      BY <1>2, <2>1, <3>1, Mono
    <3> QED
      BY <3>2 DEF y
  <2>4. (n - 1) \div h \in Nat
    BY <1>2, <2>1, Half
  <2> QED
    BY <2>2, <2>3, <2>4
<1> DEFINE v == (n - 1) \div h
<1>9. At(LeftOf(x), h, n) = <<2 * f, v>>
  BY <1>3, <1>7 DEF At
<1>10. (2 * f) % 2 = 0 /\ (2 * f) \div 2 = f
  BY OddOf
<1>11. v \div 2 = (n - 1) \div p /\ x[1] \div p = f
  <2>1. n - 1 \in Nat
    BY <1>1, <1>2, <1>3
  <2>2. v \div 2 = (n - 1) \div p
    BY <1>1, <1>2, <2>1, Half
  <2>3. x[1] \div p = (x[1] \div h) \div 2
    BY <1>1, <1>2, <1>3, Half
  <2> QED
    BY <1>7, <1>10, <2>2, <2>3
<1> HIDE DEF v
<1>12. v \in Nat /\ v >= 2 * f + 1
  BY <1>8 DEF v
<1>13. ~Joined(<<2 * f, v>>) /\ <<2 * f, v>>[2] # 0
  BY <1>10, <1>12 DEF Joined
<1>14. NextAt(<<2 * f, v>>) = <<f, v \div 2>>
  BY <1>10, <1>13 DEF NextAt, Up
<1>15. At(x, p, n) = <<f, v \div 2>>
  BY <1>11 DEF At
<1> QED
  BY <1>3, <1>6, <1>7, <1>9, <1>10, <1>13, <1>14, <1>15

(* From a right half: its sibling is on the left, whether it is full, or   *)
(* the ragged end of the tree, whose levels without a sibling are skipped. *)
LEMMA StepRight ==
  ASSUME NEW n \in Nat, NEW x \in Spans(n), Size(x) > 1, NEW p, Node(x, p, n)
  PROVE  \E q : /\ Node(RightOf(x), q, n)
                /\ Joined(At(RightOf(x), q, n)) /\ At(RightOf(x), q, n)[2] # 0
                /\ NextAt(At(RightOf(x), q, n)) = At(x, p, n)
<1>1. PICK h \in Pow2 : p = 2 * h /\ h = SplitPoint(Size(x)) /\ h < Size(x)
  BY NodeHalf
<1>2. h \in Nat /\ h > 0
  BY PowerShape
<1> DEFINE a == x[1] + h
           s == Size(x) - h
<1>3. /\ x[1] \in Nat /\ x[2] \in Nat /\ x[2] <= n /\ Size(x) = x[2] - x[1] /\ Size(x) \in Nat
      /\ RightOf(x)[1] = a /\ RightOf(x)[2] = x[2] /\ Size(RightOf(x)) = s
  BY <1>1, Halves, SpanIs
<1>4. PICK f \in Nat : x[1] = f * p
  BY DEF Node
<1>5. a = (2 * f + 1) * h
  BY <1>1, <1>2, <1>4
<1>6. s \in Nat /\ 0 < s /\ s <= h /\ a \in Nat /\ x[2] = a + s /\ n - 1 \in Nat /\ a <= n - 1
  <2>1. Size(x) <= p
    BY DEF Node
  <2>2. a = x[1] + h /\ s = Size(x) - h
    OBVIOUS
  <2> HIDE DEF a, s
  <2> QED
    BY <1>1, <1>2, <1>3, <2>1, <2>2
<1>7. x[2] = x[1] + p \/ x[2] = n
  BY DEF Node
<1> HIDE DEF a, s
<1>8. PICK q \in Pow2 : s <= q /\ q < 2 * s
  <2>1. CASE s = 1
    BY <2>1, PowerOne
  <2>2. CASE s # 1
    <3>1. SplitPoint(s) \in Pow2 /\ SplitPoint(s) \in Nat /\ SplitPoint(s) < s /\ s <= 2 * SplitPoint(s)
      BY <1>6, <2>2, SplitPointIs
    <3>2. 2 * SplitPoint(s) \in Pow2 /\ s <= 2 * SplitPoint(s) /\ 2 * SplitPoint(s) < 2 * s
      BY <1>6, <3>1, PowerDoubles
    <3> QED
      BY <3>2
  <2> QED
    BY <2>1, <2>2
<1>9. q \in Nat /\ q > 0 /\ q <= h
  <2>1. q \in Nat /\ q > 0
    BY PowerShape
  <2>2. ~(h < q)
    <3>1. SUFFICES ASSUME h < q PROVE FALSE
      OBVIOUS
    <3>2. 2 * h <= q
      BY <3>1, PowersApart
    <3> QED
      BY <1>2, <1>6, <1>8, <2>1, <3>2
  <2> QED
    BY <1>2, <2>1, <2>2
<1>10. PICK j \in Pow2 : h = j * q
  BY <1>9, Divides
<1>11. j \in Nat /\ j > 0
  BY PowerShape
<1>12. Node(RightOf(x), q, n)
  <2>1. (2 * f + 1) * j \in Nat /\ a = ((2 * f + 1) * j) * q
    BY <1>2, <1>5, <1>9, <1>10, <1>11
  <2>2. x[2] = a + q \/ x[2] = n
    <3>1. CASE x[2] = x[1] + p
      <4>1. s = h
        BY <1>1, <1>2, <1>3, <1>6, <3>1 DEF a
      <4>2. q = h
        BY <1>2, <1>8, <1>9, <4>1
      <4> QED
        BY <1>6, <4>1, <4>2
    <3> QED
      BY <1>7, <3>1
  <2> QED
    BY <1>3, <1>6, <1>8, <2>1, <2>2 DEF Node
<1> DEFINE u == a \div q
           v == (n - 1) \div q
<1>13. At(RightOf(x), q, n) = <<u, v>>
  BY <1>3 DEF At
<1>14. u \in Nat /\ v \in Nat /\ u <= v /\ u > 0
  <2>1. u \in Nat /\ v \in Nat
    BY <1>6, <1>9, Half
  <2>2. u <= v
    BY <1>6, <1>9, Mono
  <2>3. ~(a < q)
    <3>1. a >= h
      <4>1. a = (2 * f) * h + h /\ (2 * f) * h \in Nat
        BY <1>2, <1>5
      <4> QED
        BY <1>2, <4>1
    <3> QED
      BY <1>2, <1>6, <1>9, <3>1
  <2>4. u # 0
    BY <1>6, <1>9, <2>3, Small
  <2> QED
    BY <2>1, <2>2, <2>4
<1>15. u % 2 = 1 \/ u = v
  <2>1. CASE q = h
    <3>1. u = 2 * f + 1
      <4>1. a = (2 * f + 1) * h + 0 /\ 2 * f + 1 \in Nat
        BY <1>2, <1>5
      <4> QED
        BY <1>2, <2>1, <4>1, DivOf
    <3> QED
      BY <3>1, OddOf
  <2>2. CASE q # h
    <3>1. x[2] = n
      <4>1. x[2] # x[1] + p
        <5>1. SUFFICES ASSUME x[2] = x[1] + p PROVE FALSE
          OBVIOUS
        <5>2. s = h
          BY <1>1, <1>2, <1>3, <1>6, <5>1 DEF a
        <5> QED
          BY <1>2, <1>8, <1>9, <2>2, <5>2
      <4> QED
        BY <1>7, <4>1
    <3> DEFINE c == (2 * f + 1) * j
               r == s - 1
    <3>2. c \in Nat /\ a = c * q + 0 /\ r \in Nat /\ r < q
      BY <1>2, <1>5, <1>6, <1>8, <1>9, <1>10, <1>11
    <3>6. r = s - 1
      OBVIOUS
    <3> HIDE DEF c, r
    <3>3. n - 1 = c * q + r
      <4>1. n - 1 = a + r
        BY <1>6, <3>1, <3>6
      <4> QED
        BY <1>6, <1>9, <3>2, <4>1
    <3>4. a \div q = c
      BY <1>9, <3>2, DivOf
    <3>5. (n - 1) \div q = c
      BY <1>9, <3>2, <3>3, DivOf
    <3> QED
      BY <3>4, <3>5
  <2> QED
    BY <2>1, <2>2
<1>16. SkipAlone(<<u, v>>) = <<2 * f + 1, (n - 1) \div h>>
  <2> DEFINE last == n - 1
  <2>1. last \in Nat /\ a <= last /\ a \in Nat /\ a = (2 * f + 1) * h /\ q <= h
    BY <1>5, <1>6, <1>9
  <2> HIDE DEF last
  <2>2. SkipAlone(<<a \div q, last \div q>>) = <<2 * f + 1, last \div h>>
    BY <2>1, SkipAloneAt
  <2> QED
    BY <2>2 DEF last
<1> HIDE DEF u, v
<1>17. Joined(<<u, v>>) /\ <<u, v>>[2] # 0
  BY <1>14, <1>15 DEF Joined
<1>18. NextAt(<<u, v>>) = <<f, (n - 1) \div p>>
  <2>1. Up(<<2 * f + 1, (n - 1) \div h>>) = <<(2 * f + 1) \div 2, ((n - 1) \div h) \div 2>>
    BY DEF Up
  <2>2. (2 * f + 1) \div 2 = f
    BY OddOf
  <2>3. ((n - 1) \div h) \div 2 = (n - 1) \div p
    BY <1>1, <1>2, <1>6, Half
  <2> QED
    BY <1>16, <1>17, <2>1, <2>2, <2>3 DEF NextAt
<1>19. At(x, p, n) = <<f, (n - 1) \div p>>
  <2>1. x[1] = f * p + 0 /\ p \in Nat /\ p > 0
    BY <1>1, <1>2, <1>4
  <2>2. x[1] \div p = f
    BY <2>1, DivOf
  <2> QED
    BY <2>2 DEF At
<1> QED
  BY <1>12, <1>13, <1>17, <1>18, <1>19

\* One sibling taken in: where the indices go, and which of the hashes are rebuilt.
LEMMA AbsorbedIs ==
  ASSUME NEW st, NEW sibling
  PROVE  /\ Absorbed(st, sibling).at = NextAt(st.at)
         /\ Joined(st.at) => /\ Absorbed(st, sibling).old = NodeHash(sibling, st.old)
                             /\ Absorbed(st, sibling).new = NodeHash(sibling, st.new)
         /\ ~Joined(st.at) => /\ Absorbed(st, sibling).old = st.old
                              /\ Absorbed(st, sibling).new = NodeHash(st.new, sibling)
         /\ Absorbed(st, sibling).ok <=> st.ok /\ st.at[2] # 0
BY DEF Absorbed, Joined, NextAt

(* The proof's first hash is the seed, unless the verifier knows it.       *)
Off(m, n) == IF KnownStart(m, n) THEN 0 ELSE 1

(* The node of the last old leaf is a left half: had it been a right one,  *)
(* the prover had stopped above.                                           *)
Lefty(x, p, m) == x[2] = m => (x[1] \div p) % 2 = 0

\* Where the prover stops, the verifier starts; it knows the hash when the node begins the tree.
LEMMA StopAt ==
  ASSUME NEW n \in Nat, NEW m \in Nat, m < n, NEW x \in Holding(m, n), x[2] = m,
         NEW p, Node(x, p, n), Lefty(x, p, m)
  PROVE  /\ SkipCommon(m, n) = At(x, p, n)
         /\ KnownStart(m, n) <=> x[1] = 0
<1>1. PICK f \in Nat : x[1] = f * p
  BY DEF Node
<1>2. p \in Pow2 /\ p \in Nat /\ p > 0 /\ m = x[1] + p
  BY PowerShape DEF Node
<1>3. x[1] \div p = f
  <2>1. x[1] = f * p + 0
    BY <1>1, <1>2
  <2> QED
    BY <1>2, <2>1, DivOf
<1>4. f % 2 = 0
  BY <1>3 DEF Lefty
<1>5. m = f * p + p
  BY <1>1, <1>2
<1>6. SkipCommon(m, n) = <<f, (n - 1) \div p>>
  <2>1. m <= n
    OBVIOUS
  <2> QED
    BY <1>2, <1>4, <1>5, <2>1, SkipCommonAt, Zenon
<1>7. f = 0 <=> x[1] = 0
  BY <1>1, <1>2
<1> QED
  BY <1>3, <1>6, <1>7 DEF At, KnownStart

(* One level of the prover's path, and of the verifier's.                  *)
LEMMA ChildNode ==
  ASSUME NEW n \in Nat, NEW m \in Nat, NEW x \in Holding(m, n), x[2] # m, NEW p, Node(x, p, n)
  PROVE  /\ Size(x) > 1 /\ Toward(m, x) \in Holding(m, n) /\ Aside(m, x) \in Spans(n)
         /\ Toward(m, x) \in Spans(n) /\ Size(Toward(m, x)) < Size(x)
         /\ \E q : /\ Node(Toward(m, x), q, n) /\ Lefty(Toward(m, x), q, m)
                   /\ At(Toward(m, x), q, n)[2] # 0
                   /\ NextAt(At(Toward(m, x), q, n)) = At(x, p, n)
                   /\ Joined(At(Toward(m, x), q, n)) <=> ~(m <= Middle(x))
<1>1. x \in Spans(n) /\ Size(x) > 1 /\ Size(x) \in Nat
  BY HoldingIs, SpanIs
<1>2. /\ Toward(m, x) \in Holding(m, n) /\ Aside(m, x) \in Spans(n)
      /\ Toward(m, x) \in Spans(n) /\ Size(Toward(m, x)) < Size(x)
  BY <1>1, HoldingIs
<1>3. CASE m <= Middle(x)
  <2>1. Toward(m, x) = LeftOf(x)
    BY <1>3 DEF Toward
  <2>2. PICK h : /\ Node(LeftOf(x), h, n)
                 /\ ~Joined(At(LeftOf(x), h, n)) /\ At(LeftOf(x), h, n)[2] # 0
                 /\ NextAt(At(LeftOf(x), h, n)) = At(x, p, n)
                 /\ (LeftOf(x)[1] \div h) % 2 = 0
    BY <1>1, StepLeft
  <2>3. Lefty(LeftOf(x), h, m)
    BY <2>2 DEF Lefty
  <2> QED
    BY <1>1, <1>2, <1>3, <2>1, <2>2, <2>3
<1>4. CASE ~(m <= Middle(x))
  <2>1. Toward(m, x) = RightOf(x)
    BY <1>4 DEF Toward
  <2>2. PICK q : /\ Node(RightOf(x), q, n)
                 /\ Joined(At(RightOf(x), q, n)) /\ At(RightOf(x), q, n)[2] # 0
                 /\ NextAt(At(RightOf(x), q, n)) = At(x, p, n)
    BY <1>1, StepRight
  <2>3. Lefty(RightOf(x), q, m)
    BY <1>1, Halves DEF Lefty
  <2> QED
    BY <1>1, <1>2, <1>4, <2>1, <2>2, <2>3
<1> QED
  BY <1>3, <1>4

(* The old root over a span, from the half that holds the last old leaf.   *)
LEMMA OldToward ==
  ASSUME NEW leaves, Len(leaves) \in Nat, NEW m \in Nat, NEW x \in Holding(m, Len(leaves)), Size(x) > 1
  PROVE  /\ m <= Middle(x) => RootIn(leaves, <<x[1], m>>) = RootIn(leaves, <<Toward(m, x)[1], m>>)
         /\ ~(m <= Middle(x)) =>
              RootIn(leaves, <<x[1], m>>)
                = NodeHash(RootIn(leaves, Aside(m, x)), RootIn(leaves, <<Toward(m, x)[1], m>>))
<1> DEFINE n == Len(leaves)
<1>1. /\ x \in Spans(n) /\ x[1] < m /\ m <= x[2] /\ Size(x) = x[2] - x[1] /\ Size(x) \in Nat
      /\ x[1] \in Nat /\ x[2] \in Nat /\ x[2] <= n
  BY HoldingIs, SpanIs
<1>2. /\ Middle(x) = x[1] + SplitPoint(Size(x))
      /\ LeftOf(x) = <<x[1], Middle(x)>> /\ RightOf(x) = <<Middle(x), x[2]>>
      /\ LeftOf(x)[1] = x[1] /\ RightOf(x)[1] = Middle(x) /\ Middle(x) \in Nat
  BY <1>1, Halves
<1>3. ASSUME m <= Middle(x)
      PROVE  RootIn(leaves, <<x[1], m>>) = RootIn(leaves, <<Toward(m, x)[1], m>>)
  BY <1>2, <1>3 DEF Toward
<1>4. ASSUME ~(m <= Middle(x))
      PROVE  RootIn(leaves, <<x[1], m>>)
                = NodeHash(RootIn(leaves, Aside(m, x)), RootIn(leaves, <<Toward(m, x)[1], m>>))
  <2> DEFINE y == <<x[1], m>>
  <2>1. y \in Spans(n) /\ Size(y) = m - x[1] /\ y[1] = x[1] /\ y[2] = m
    <3>1. x[1] \in 0..n /\ m \in 0..n /\ x[1] <= m
      BY <1>1
    <3> QED
      BY <3>1, SpanOf
  <2>2. SplitPoint(Size(y)) = SplitPoint(Size(x))
    <3> DEFINE k == SplitPoint(Size(x))
    <3>1. k \in Pow2 /\ k \in Nat /\ k < Size(x) /\ Size(x) <= 2 * k
      BY <1>1, SplitPointIs
    <3> DEFINE s == m - x[1]
    <3>2. s \in Nat /\ k < s /\ s <= 2 * k
      BY <1>1, <1>2, <1>4, <3>1
    <3> HIDE DEF k, s
    <3>3. SplitPoint(s) = k
      BY <3>1, <3>2, SplitPointOf
    <3> QED
      BY <2>1, <3>3 DEF s, k
  <2> HIDE DEF y
  <2>3. Size(y) > 1
    <3>1. SplitPoint(Size(x)) \in Nat /\ SplitPoint(Size(x)) >= 1
      BY <1>1, SplitPointIs
    <3> QED
      BY <1>1, <1>2, <1>4, <2>1, <3>1
  <2>4. Middle(y) = Middle(x) /\ LeftOf(y) = LeftOf(x) /\ RightOf(y) = <<Middle(x), m>>
    <3>1. Middle(y) = Middle(x)
      BY <2>1, <2>2 DEF Middle
    <3> QED
      BY <1>2, <2>1, <3>1 DEF LeftOf, RightOf
  <2>5. RootIn(leaves, y) = NodeHash(RootIn(leaves, LeftOf(y)), RootIn(leaves, RightOf(y)))
    <3>1. Size(y) # 0 /\ Size(y) # 1
      BY <2>3
    <3> QED
      BY <2>1, <3>1, RootEquation, Zenon
  <2> QED
    BY <1>2, <1>4, <2>4, <2>5 DEF Toward, Aside, y
<1> QED
  BY <1>3, <1>4

\* One level of the prover's path.
LEMMA LinkStep ==
  ASSUME NEW leaves, Len(leaves) \in Nat, NEW m \in Nat, NEW sub, LinkPath(sub, leaves, m),
         NEW x \in Holding(m, Len(leaves)), x[2] # m
  PROVE  /\ sub[x] = Append(sub[Toward(m, x)], RootIn(leaves, Aside(m, x)))
         /\ Aside(m, x) \in Spans(Len(leaves)) => RootIn(leaves, Aside(m, x)) \in Roots(leaves)
BY DEF LinkPath, Roots

\* The proof is a sequence of hashes of the tree, with the seed in it when it is needed.
LEMMA LinkShape ==
  ASSUME NEW leaves, Len(leaves) \in Nat, NEW m \in Nat, m < Len(leaves),
         NEW sub, LinkPath(sub, leaves, m)
  PROVE  \A x \in Holding(m, Len(leaves)) : \A p :
           Node(x, p, Len(leaves)) /\ Lefty(x, p, m) =>
             sub[x] \in Seq(Roots(leaves)) /\ Len(sub[x]) >= Off(m, Len(leaves))
<1> DEFINE n == Len(leaves)
           Good(x) == \A p : Node(x, p, n) /\ Lefty(x, p, m) =>
                        sub[x] \in Seq(Roots(leaves)) /\ Len(sub[x]) >= Off(m, n)
           U == {x \in Spans(n) : x \in Holding(m, n) => Good(x)}
<1>1. ASSUME NEW x \in Spans(n), \A y \in Spans(n) : Size(y) < Size(x) => y \in U, x \in Holding(m, n),
             NEW p, Node(x, p, n), Lefty(x, p, m)
      PROVE  sub[x] \in Seq(Roots(leaves)) /\ Len(sub[x]) >= Off(m, n)
  <2>1. CASE x[2] = m
    <3>1. KnownStart(m, n) <=> x[1] = 0
      BY <1>1, <2>1, StopAt
    <3>2. sub[x] = IF x[1] = 0 THEN <<>> ELSE <<RootIn(leaves, x)>>
      BY <1>1, <2>1 DEF LinkPath
    <3>3. RootIn(leaves, x) \in Roots(leaves)
      BY DEF Roots
    <3>4. CASE x[1] = 0
      <4>1. sub[x] = <<>> /\ Off(m, n) = 0
        BY <3>1, <3>2, <3>4 DEF Off
      <4> QED
        BY <4>1
    <3>5. CASE x[1] # 0
      <4>1. sub[x] = <<RootIn(leaves, x)>> /\ Off(m, n) = 1
        BY <3>1, <3>2, <3>5 DEF Off
      <4> QED
        BY <3>3, <4>1
    <3> QED
      BY <3>4, <3>5
  <2>2. CASE x[2] # m
    <3> DEFINE y == Toward(m, x)
               r == RootIn(leaves, Aside(m, x))
    <3>1. /\ y \in Holding(m, n) /\ Aside(m, x) \in Spans(n) /\ y \in Spans(n) /\ Size(y) < Size(x)
          /\ \E q : Node(y, q, n) /\ Lefty(y, q, m)
      BY <1>1, <2>2, ChildNode
    <3>2. sub[x] = Append(sub[y], r) /\ r \in Roots(leaves)
      BY <1>1, <2>2, <3>1, LinkStep
    <3>3. sub[y] \in Seq(Roots(leaves)) /\ Len(sub[y]) >= Off(m, n)
      BY <1>1, <3>1
    <3> HIDE DEF y, r
    <3>4. Len(sub[y]) \in Nat /\ sub[x] \in Seq(Roots(leaves)) /\ Len(sub[x]) = Len(sub[y]) + 1
      BY <3>2, <3>3, Appended
    <3>5. Off(m, n) \in Nat
      BY DEF Off
    <3> QED
      BY <3>3, <3>4, <3>5
  <2> QED
    BY <2>1, <2>2
<1> HIDE DEF U
<1>2. Spans(n) \subseteq U
  <2>1. \A x \in Spans(n) : (\A y \in Spans(n) : Size(y) < Size(x) => y \in U) => x \in U
    BY <1>1, Zenon DEF U
  <2> QED
    BY <2>1, SpanInduct, Zenon
<1> QED
  BY <1>2, HoldingIs DEF U

(* Walking takes the verifier's indices up the prover's nodes, one sibling *)
(* to a level, whatever the hashes are.                                    *)
Steps(sub, x, m, n) == Len(sub[x]) - Off(m, n)

\* The last step of a walk.
LEMMA WalkLast ==
  ASSUME NEW w, NEW rest, NEW k \in Nat, Walks(w, rest, k + 1)
  PROVE  Walks(w, rest, k) /\ w[k + 1] = Absorbed(w[k], rest[k + 1])
<1>1. k + 1 \in 1..(k + 1) /\ (k + 1) - 1 = k /\ \A j \in 1..k : j \in 1..(k + 1)
  OBVIOUS
<1>2. w[k + 1] = Absorbed(w[(k + 1) - 1], rest[k + 1])
  BY <1>1, Zenon DEF Walks
<1>3. Walks(w, rest, k)
  BY <1>1, Zenon DEF Walks
<1> QED
  BY <1>1, <1>2, <1>3

\* The walk up to a node is one step longer than the walk up to its child on the path.
LEMMA ChildStep ==
  ASSUME NEW leaves, Len(leaves) \in Nat, NEW m \in Nat, m < Len(leaves),
         NEW sub, LinkPath(sub, leaves, m),
         NEW x \in Holding(m, Len(leaves)), x[2] # m, NEW p, Node(x, p, Len(leaves))
  PROVE  /\ Steps(sub, Toward(m, x), m, Len(leaves)) \in Nat
         /\ Steps(sub, x, m, Len(leaves)) = Steps(sub, Toward(m, x), m, Len(leaves)) + 1
         /\ \A k \in 1..Len(sub[Toward(m, x)]) : sub[x][k] = sub[Toward(m, x)][k]
         /\ sub[x][Steps(sub, x, m, Len(leaves)) + Off(m, Len(leaves))] = RootIn(leaves, Aside(m, x))
<1> DEFINE n == Len(leaves)
           y == Toward(m, x)
           r == RootIn(leaves, Aside(m, x))
<1>1. /\ y \in Holding(m, n) /\ Aside(m, x) \in Spans(n)
      /\ \E q : Node(y, q, n) /\ Lefty(y, q, m)
  BY ChildNode
<1>2. sub[x] = Append(sub[y], r) /\ r \in Roots(leaves)
  BY <1>1, LinkStep
<1>3. sub[y] \in Seq(Roots(leaves)) /\ Len(sub[y]) >= Off(m, n)
  BY <1>1, LinkShape
<1> HIDE DEF y, r
<1>4. /\ Len(sub[y]) \in Nat /\ Len(sub[x]) = Len(sub[y]) + 1 /\ sub[x][Len(sub[y]) + 1] = r
      /\ \A k \in 1..Len(sub[y]) : sub[x][k] = sub[y][k]
  BY <1>2, <1>3, Appended
<1>5. Off(m, n) \in Nat
  BY DEF Off
<1>6. Steps(sub, y, m, n) \in Nat /\ Steps(sub, x, m, n) = Steps(sub, y, m, n) + 1
  <2> DEFINE a == Len(sub[y])
             b == Len(sub[x])
             o == Off(m, n)
  <2>1. a \in Nat /\ b = a + 1 /\ o \in Nat /\ a >= o
    BY <1>3, <1>4, <1>5
  <2>2. Steps(sub, y, m, n) = a - o /\ Steps(sub, x, m, n) = b - o
    BY DEF Steps
  <2> HIDE DEF a, b, o
  <2> QED
    BY <2>1, <2>2
<1>7. Steps(sub, x, m, n) + Off(m, n) = Len(sub[y]) + 1
  BY <1>4, <1>5 DEF Steps
<1> QED
  BY <1>4, <1>6, <1>7 DEF y, r

(* The parts of the induction step that every walk up the path shares.     *)
WalkAt(w, sub, x, p, m, n) ==
  /\ w[Steps(sub, x, m, n)].at = At(x, p, n)
  /\ \A k \in 0..(Steps(sub, x, m, n) - 1) : w[k].at[2] # 0

\* By induction on the span, every walk is at the prover's node after as many steps as the path has levels
\* below it, and never at the root before its end.
LEMMA PathAt ==
  ASSUME NEW leaves, Len(leaves) \in Nat, NEW m \in Nat, m < Len(leaves),
         NEW sub, LinkPath(sub, leaves, m)
  PROVE  \A x \in Holding(m, Len(leaves)) : \A p, w, rest :
           /\ Node(x, p, Len(leaves)) /\ Lefty(x, p, m)
           /\ w[0].at = SkipCommon(m, Len(leaves)) /\ Walks(w, rest, Steps(sub, x, m, Len(leaves)))
           => WalkAt(w, sub, x, p, m, Len(leaves))
<1> DEFINE n == Len(leaves)
           Hyp(x, p, w, rest) == /\ Node(x, p, n) /\ Lefty(x, p, m)
                                 /\ w[0].at = SkipCommon(m, n) /\ Walks(w, rest, Steps(sub, x, m, n))
           Good(x) == \A p, w, rest : Hyp(x, p, w, rest) => WalkAt(w, sub, x, p, m, n)
           U == {x \in Spans(n) : x \in Holding(m, n) => Good(x)}
<1>1. ASSUME NEW x \in Spans(n), \A y \in Spans(n) : Size(y) < Size(x) => y \in U, x \in Holding(m, n),
             NEW p, NEW w, NEW rest, Hyp(x, p, w, rest)
      PROVE  WalkAt(w, sub, x, p, m, n)
  <2>1. CASE x[2] = m
    <3>1. SkipCommon(m, n) = At(x, p, n) /\ (KnownStart(m, n) <=> x[1] = 0)
      BY <1>1, <2>1, StopAt
    <3>2. sub[x] = IF x[1] = 0 THEN <<>> ELSE <<RootIn(leaves, x)>>
      BY <1>1, <2>1 DEF LinkPath
    <3>3. Steps(sub, x, m, n) = 0
      BY <3>1, <3>2 DEF Steps, Off
    <3> QED
      BY <1>1, <3>1, <3>3 DEF WalkAt
  <2>2. CASE x[2] # m
    <3> DEFINE y == Toward(m, x)
               k == Steps(sub, y, m, n)
    <3>1. y \in Holding(m, n) /\ y \in Spans(n) /\ Size(y) < Size(x)
      BY <1>1, <2>2, ChildNode
    <3>2. PICK q : /\ Node(y, q, n) /\ Lefty(y, q, m) /\ At(y, q, n)[2] # 0
                   /\ NextAt(At(y, q, n)) = At(x, p, n)
      BY <1>1, <2>2, ChildNode
    <3>3. k \in Nat /\ Steps(sub, x, m, n) = k + 1
      BY <1>1, <2>2, ChildStep
    <3> HIDE DEF k
    <3>4. Walks(w, rest, k) /\ w[k + 1] = Absorbed(w[k], rest[k + 1])
      BY <1>1, <3>3, WalkLast
    <3>5. Good(y)
      BY <1>1, <3>1 DEF U
    <3>6. WalkAt(w, sub, y, q, m, n)
      BY <1>1, <3>2, <3>4, <3>5, Zenon DEF k
    <3>7. w[k].at = At(y, q, n) /\ \A j \in 0..(k - 1) : w[j].at[2] # 0
      BY <3>6 DEF WalkAt, k
    <3>8. w[k + 1].at = At(x, p, n)
      BY <3>2, <3>4, <3>7, AbsorbedIs
    <3>9. \A j \in 0..k : w[j].at[2] # 0
      BY <3>2, <3>3, <3>7
    <3> QED
      BY <3>3, <3>8, <3>9 DEF WalkAt
  <2> QED
    BY <2>1, <2>2
<1> HIDE DEF U, Hyp
<1>2. Spans(n) \subseteq U
  <2>1. \A x \in Spans(n) : (\A y \in Spans(n) : Size(y) < Size(x) => y \in U) => x \in U
    BY <1>1, Zenon DEF U
  <2> QED
    BY <2>1, SpanInduct, Zenon
<1>3. \A x \in Holding(m, n) : Good(x)
  BY <1>2, HoldingIs DEF U
<1> QED
  BY <1>3, Zenon DEF Hyp

(* Fed with the prover's hashes, the walk rebuilds both roots.             *)
Honest(sub, x, rest, seed, leaves, m, n) ==
  /\ \A k \in 1..Steps(sub, x, m, n) : rest[k] = sub[x][k + Off(m, n)]
  /\ seed = IF Off(m, n) = 0 THEN RootIn(leaves, <<0, m>>) ELSE sub[x][1]

Rebuilt(st, x, leaves, m) ==
  st.ok /\ st.old = RootIn(leaves, <<x[1], m>>) /\ st.new = RootIn(leaves, x)

\* What the prover appends for a level is fed at that level.
LEMMA HonestBelow ==
  ASSUME NEW leaves, Len(leaves) \in Nat, NEW m \in Nat, m < Len(leaves),
         NEW sub, LinkPath(sub, leaves, m),
         NEW x \in Holding(m, Len(leaves)), x[2] # m, NEW p, Node(x, p, Len(leaves)),
         NEW rest, NEW seed, Honest(sub, x, rest, seed, leaves, m, Len(leaves))
  PROVE  /\ Honest(sub, Toward(m, x), rest, seed, leaves, m, Len(leaves))
         /\ rest[Steps(sub, Toward(m, x), m, Len(leaves)) + 1] = RootIn(leaves, Aside(m, x))
<1> DEFINE n == Len(leaves)
           y == Toward(m, x)
           k == Steps(sub, y, m, n)
           o == Off(m, n)
<1>1. /\ k \in Nat /\ Steps(sub, x, m, n) = k + 1
      /\ \A j \in 1..Len(sub[y]) : sub[x][j] = sub[y][j]
      /\ sub[x][(k + 1) + o] = RootIn(leaves, Aside(m, x))
  BY ChildStep
<1>2. o \in {0, 1}
  BY DEF Off
<1>3. Len(sub[y]) = k + o /\ Len(sub[y]) \in Nat
  <2>1. y \in Holding(m, n) /\ \E q : Node(y, q, n) /\ Lefty(y, q, m)
    BY ChildNode
  <2>2. sub[y] \in Seq(Roots(leaves)) /\ Len(sub[y]) >= o
    BY <2>1, LinkShape
  <2>3. Len(sub[y]) \in Nat
    BY <2>2, LenProperties
  <2> QED
    BY <1>2, <2>3 DEF Steps
<1>4. \A j \in 1..(k + 1) : rest[j] = sub[x][j + o]
  BY <1>1 DEF Honest
<1> HIDE DEF k, o
<1>5. \A j \in 1..k : rest[j] = sub[y][j + o]
  <2> SUFFICES ASSUME NEW j \in 1..k PROVE rest[j] = sub[y][j + o]
    OBVIOUS
  <2>1. j \in 1..(k + 1) /\ j + o \in 1..Len(sub[y])
    BY <1>1, <1>2, <1>3
  <2> QED
    BY <1>1, <1>4, <2>1
<1>6. rest[k + 1] = RootIn(leaves, Aside(m, x))
  <2>1. k + 1 \in 1..(k + 1)
    BY <1>1
  <2> QED
    BY <1>1, <1>4, <2>1
<1>7. seed = IF o = 0 THEN RootIn(leaves, <<0, m>>) ELSE sub[y][1]
  <2>1. seed = IF o = 0 THEN RootIn(leaves, <<0, m>>) ELSE sub[x][1]
    BY DEF Honest, o
  <2>2. CASE o = 0
    BY <2>1, <2>2
  <2>3. CASE o = 1
    <3>1. 1 \in 1..Len(sub[y])
      BY <1>1, <1>3, <2>3
    <3> QED
      BY <1>1, <2>1, <2>3, <3>1
  <2> QED
    BY <1>2, <2>2, <2>3
<1> QED
  BY <1>5, <1>6, <1>7 DEF Honest, k, o

\* By induction on the span: an honest proof makes the walk rebuild the old and the new root over it.
LEMMA WalkRebuilds ==
  ASSUME NEW leaves, Len(leaves) \in Nat, NEW m \in Nat, m < Len(leaves),
         NEW sub, LinkPath(sub, leaves, m)
  PROVE  \A x \in Holding(m, Len(leaves)) : \A p, w, rest, seed :
           /\ Node(x, p, Len(leaves)) /\ Lefty(x, p, m)
           /\ w[0] = Start(m, Len(leaves), seed) /\ Walks(w, rest, Steps(sub, x, m, Len(leaves)))
           /\ Honest(sub, x, rest, seed, leaves, m, Len(leaves))
           => Rebuilt(w[Steps(sub, x, m, Len(leaves))], x, leaves, m)
<1> DEFINE n == Len(leaves)
           Hyp(x, p, w, rest, seed) ==
             /\ Node(x, p, n) /\ Lefty(x, p, m)
             /\ w[0] = Start(m, n, seed) /\ Walks(w, rest, Steps(sub, x, m, n))
             /\ Honest(sub, x, rest, seed, leaves, m, n)
           Good(x) == \A p, w, rest, seed :
                        Hyp(x, p, w, rest, seed) => Rebuilt(w[Steps(sub, x, m, n)], x, leaves, m)
           U == {x \in Spans(n) : x \in Holding(m, n) => Good(x)}
<1>1. ASSUME NEW x \in Spans(n), \A y \in Spans(n) : Size(y) < Size(x) => y \in U, x \in Holding(m, n),
             NEW p, NEW w, NEW rest, NEW seed, Hyp(x, p, w, rest, seed)
      PROVE  Rebuilt(w[Steps(sub, x, m, n)], x, leaves, m)
  <2>1. CASE x[2] = m
    <3>1. KnownStart(m, n) <=> x[1] = 0
      BY <1>1, <2>1, StopAt
    <3>2. sub[x] = IF x[1] = 0 THEN <<>> ELSE <<RootIn(leaves, x)>>
      BY <1>1, <2>1 DEF LinkPath
    <3>3. Steps(sub, x, m, n) = 0
      BY <3>1, <3>2 DEF Steps, Off
    <3>4. x = <<x[1], m>>
      BY <2>1, SpanIs
    <3>5. seed = IF Off(m, n) = 0 THEN RootIn(leaves, <<0, m>>) ELSE sub[x][1]
      BY <1>1 DEF Honest
    <3>6. seed = RootIn(leaves, x)
      <4>1. CASE x[1] = 0
        <5>1. Off(m, n) = 0 /\ x = <<0, m>>
          BY <3>1, <3>4, <4>1 DEF Off
        <5> QED
          BY <3>5, <5>1
      <4>2. CASE x[1] # 0
        <5>1. Off(m, n) = 1 /\ sub[x] = <<RootIn(leaves, x)>>
          BY <3>1, <3>2, <4>2 DEF Off
        <5> QED
          BY <3>5, <5>1
      <4> QED
        BY <4>1, <4>2
    <3>7. w[0].ok /\ w[0].old = seed /\ w[0].new = seed
      BY <1>1 DEF Start
    <3> QED
      BY <3>3, <3>4, <3>6, <3>7 DEF Rebuilt
  <2>2. CASE x[2] # m
    <3> DEFINE y == Toward(m, x)
               k == Steps(sub, y, m, n)
    <3>1. y \in Holding(m, n) /\ y \in Spans(n) /\ Size(y) < Size(x) /\ Size(x) > 1
      BY <1>1, <2>2, ChildNode
    <3>2. PICK q : /\ Node(y, q, n) /\ Lefty(y, q, m) /\ At(y, q, n)[2] # 0
                   /\ Joined(At(y, q, n)) <=> ~(m <= Middle(x))
      BY <1>1, <2>2, ChildNode
    <3>3. k \in Nat /\ Steps(sub, x, m, n) = k + 1
      BY <1>1, <2>2, ChildStep
    <3>4. Honest(sub, y, rest, seed, leaves, m, n) /\ rest[k + 1] = RootIn(leaves, Aside(m, x))
      BY <1>1, <2>2, HonestBelow
    <3> HIDE DEF k
    <3>5. Walks(w, rest, k) /\ w[k + 1] = Absorbed(w[k], rest[k + 1])
      BY <1>1, <3>3, WalkLast
    <3>6. Good(y)
      BY <1>1, <3>1 DEF U
    <3>7. Rebuilt(w[k], y, leaves, m)
      BY <1>1, <3>2, <3>4, <3>5, <3>6, Zenon DEF k
    <3>8. w[k].at = At(y, q, n)
      <4>1. w[0].at = SkipCommon(m, n)
        BY <1>1 DEF Start
      <4>2. WalkAt(w, sub, y, q, m, n)
        BY <3>1, <3>2, <3>5, <4>1, PathAt, Zenon DEF k
      <4> QED
        BY <4>2 DEF WalkAt, k
    <3> DEFINE a == RootIn(leaves, Aside(m, x))
    <3>9. w[k + 1].ok
      BY <3>2, <3>5, <3>7, <3>8, AbsorbedIs DEF Rebuilt
    <3>10. w[k + 1].old = RootIn(leaves, <<x[1], m>>) /\ w[k + 1].new = RootIn(leaves, x)
      <4>1. CASE m <= Middle(x)
        <5>1. w[k + 1].old = w[k].old /\ w[k + 1].new = NodeHash(w[k].new, a)
          BY <3>2, <3>4, <3>5, <3>8, <4>1, AbsorbedIs
        <5>2. RootIn(leaves, <<x[1], m>>) = RootIn(leaves, <<y[1], m>>)
          BY <1>1, <3>1, <4>1, OldToward
        <5>3. RootIn(leaves, x) = NodeHash(RootIn(leaves, y), a)
          BY <1>1, <3>1, <4>1, RootToward
        <5> QED
          BY <3>7, <5>1, <5>2, <5>3 DEF Rebuilt
      <4>2. CASE ~(m <= Middle(x))
        <5>1. w[k + 1].old = NodeHash(a, w[k].old) /\ w[k + 1].new = NodeHash(a, w[k].new)
          BY <3>2, <3>4, <3>5, <3>8, <4>2, AbsorbedIs
        <5>2. RootIn(leaves, <<x[1], m>>) = NodeHash(a, RootIn(leaves, <<y[1], m>>))
          BY <1>1, <3>1, <4>2, OldToward
        <5>3. RootIn(leaves, x) = NodeHash(a, RootIn(leaves, y))
          BY <1>1, <3>1, <4>2, RootToward
        <5> QED
          BY <3>7, <5>1, <5>2, <5>3 DEF Rebuilt
      <4> QED
        BY <4>1, <4>2
    <3> QED
      BY <3>3, <3>9, <3>10 DEF Rebuilt
  <2> QED
    BY <2>1, <2>2
<1> HIDE DEF U, Hyp
<1>2. Spans(n) \subseteq U
  <2>1. \A x \in Spans(n) : (\A y \in Spans(n) : Size(y) < Size(x) => y \in U) => x \in U
    BY <1>1, Zenon DEF U
  <2> QED
    BY <2>1, SpanInduct, Zenon
<1>3. \A x \in Holding(m, n) : Good(x)
  BY <1>2, HoldingIs DEF U
<1> QED
  BY <1>3, Zenon DEF Hyp

(* Whatever it is fed, a walk that arrives at the root over a node arrives *)
(* at the old root over it too: hashes are not found twice.                *)
LEMMA WalkCameFrom ==
  ASSUME NEW leaves, Len(leaves) \in Nat, NEW m \in Nat, m < Len(leaves),
         NEW sub, LinkPath(sub, leaves, m)
  PROVE  \A x \in Holding(m, Len(leaves)) : \A p, w, rest :
           /\ Node(x, p, Len(leaves)) /\ Lefty(x, p, m)
           /\ w[0].at = SkipCommon(m, Len(leaves)) /\ w[0].old = w[0].new
           /\ Walks(w, rest, Steps(sub, x, m, Len(leaves)))
           /\ w[Steps(sub, x, m, Len(leaves))].new = RootIn(leaves, x)
           => w[Steps(sub, x, m, Len(leaves))].old = RootIn(leaves, <<x[1], m>>)
<1> DEFINE n == Len(leaves)
           Hyp(x, p, w, rest) ==
             /\ Node(x, p, n) /\ Lefty(x, p, m)
             /\ w[0].at = SkipCommon(m, n) /\ w[0].old = w[0].new
             /\ Walks(w, rest, Steps(sub, x, m, n))
             /\ w[Steps(sub, x, m, n)].new = RootIn(leaves, x)
           Good(x) == \A p, w, rest : Hyp(x, p, w, rest)
                        => w[Steps(sub, x, m, n)].old = RootIn(leaves, <<x[1], m>>)
           U == {x \in Spans(n) : x \in Holding(m, n) => Good(x)}
<1>1. ASSUME NEW x \in Spans(n), \A y \in Spans(n) : Size(y) < Size(x) => y \in U, x \in Holding(m, n),
             NEW p, NEW w, NEW rest, Hyp(x, p, w, rest)
      PROVE  w[Steps(sub, x, m, n)].old = RootIn(leaves, <<x[1], m>>)
  <2>1. CASE x[2] = m
    <3>1. KnownStart(m, n) <=> x[1] = 0
      BY <1>1, <2>1, StopAt
    <3>2. sub[x] = IF x[1] = 0 THEN <<>> ELSE <<RootIn(leaves, x)>>
      BY <1>1, <2>1 DEF LinkPath
    <3>3. Steps(sub, x, m, n) = 0
      BY <3>1, <3>2 DEF Steps, Off
    <3>4. x = <<x[1], m>>
      BY <2>1, SpanIs
    <3> QED
      BY <1>1, <3>3, <3>4
  <2>2. CASE x[2] # m
    <3> DEFINE y == Toward(m, x)
               k == Steps(sub, y, m, n)
               a == RootIn(leaves, Aside(m, x))
    <3>1. y \in Holding(m, n) /\ y \in Spans(n) /\ Size(y) < Size(x) /\ Size(x) > 1
      BY <1>1, <2>2, ChildNode
    <3>2. PICK q : /\ Node(y, q, n) /\ Lefty(y, q, m)
                   /\ Joined(At(y, q, n)) <=> ~(m <= Middle(x))
      BY <1>1, <2>2, ChildNode
    <3>3. k \in Nat /\ Steps(sub, x, m, n) = k + 1
      BY <1>1, <2>2, ChildStep
    <3> HIDE DEF k
    <3>5. Walks(w, rest, k) /\ w[k + 1] = Absorbed(w[k], rest[k + 1])
      BY <1>1, <3>3, WalkLast
    <3>6. Good(y)
      BY <1>1, <3>1 DEF U
    <3>7. w[k].at = At(y, q, n)
      <4>2. WalkAt(w, sub, y, q, m, n)
        BY <1>1, <3>1, <3>2, <3>5, PathAt, Zenon DEF k
      <4> QED
        BY <4>2 DEF WalkAt, k
    <3>8. w[k + 1].new = RootIn(leaves, x)
      BY <1>1, <3>3
    <3>9. w[k].new = RootIn(leaves, y) => w[k].old = RootIn(leaves, <<y[1], m>>)
      BY <1>1, <3>2, <3>5, <3>6, Zenon DEF k
    <3>10. CASE m <= Middle(x)
      <4>1. w[k + 1].old = w[k].old /\ w[k + 1].new = NodeHash(w[k].new, rest[k + 1])
        BY <3>2, <3>5, <3>7, <3>10, AbsorbedIs
      <4>2. RootIn(leaves, <<x[1], m>>) = RootIn(leaves, <<y[1], m>>)
        BY <1>1, <3>1, <3>10, OldToward
      <4>3. RootIn(leaves, x) = NodeHash(RootIn(leaves, y), a)
        BY <1>1, <3>1, <3>10, RootToward
      <4>4. NodeHash(w[k].new, rest[k + 1]) = NodeHash(RootIn(leaves, y), a)
        BY <3>8, <4>1, <4>3
      <4>5. w[k].new = RootIn(leaves, y)
        BY <4>4 DEF NodeHash
      <4> QED
        BY <3>3, <3>9, <4>1, <4>2, <4>5
    <3>11. CASE ~(m <= Middle(x))
      <4>1. /\ w[k + 1].old = NodeHash(rest[k + 1], w[k].old)
            /\ w[k + 1].new = NodeHash(rest[k + 1], w[k].new)
        BY <3>2, <3>5, <3>7, <3>11, AbsorbedIs
      <4>2. RootIn(leaves, <<x[1], m>>) = NodeHash(a, RootIn(leaves, <<y[1], m>>))
        BY <1>1, <3>1, <3>11, OldToward
      <4>3. RootIn(leaves, x) = NodeHash(a, RootIn(leaves, y))
        BY <1>1, <3>1, <3>11, RootToward
      <4>4. NodeHash(rest[k + 1], w[k].new) = NodeHash(a, RootIn(leaves, y))
        BY <3>8, <4>1, <4>3
      <4>5. rest[k + 1] = a /\ w[k].new = RootIn(leaves, y)
        BY <4>4 DEF NodeHash
      <4> QED
        BY <3>3, <3>9, <4>1, <4>2, <4>5
    <3> QED
      BY <3>10, <3>11
  <2> QED
    BY <2>1, <2>2
<1> HIDE DEF U, Hyp
<1>2. Spans(n) \subseteq U
  <2>1. \A x \in Spans(n) : (\A y \in Spans(n) : Size(y) < Size(x) => y \in U) => x \in U
    BY <1>1, Zenon DEF U
  <2> QED
    BY <2>1, SpanInduct, Zenon
<1>3. \A x \in Holding(m, n) : Good(x)
  BY <1>2, HoldingIs DEF U
<1> QED
  BY <1>3, Zenon DEF Hyp

(* The whole tree is the last node of the path, above all others.          *)
LEMMA TopNode ==
  ASSUME NEW n \in Nat, NEW m \in Nat, 0 < m, m < n
  PROVE  /\ <<0, n>> \in Holding(m, n)
         /\ \E p : Node(<<0, n>>, p, n) /\ Lefty(<<0, n>>, p, m) /\ At(<<0, n>>, p, n)[2] = 0
<1> DEFINE top == <<0, n>>
           h == SplitPoint(n)
<1>1. top \in Holding(m, n) /\ top \in Spans(n)
  BY WholeHolds
<1>2. Size(top) = n /\ top[1] = 0 /\ top[2] = n
  BY SpanOf
<1>3. h \in Pow2 /\ h \in Nat /\ h < n /\ n <= 2 * h
  BY SplitPointIs
<1> HIDE DEF h, top
<1>4. 2 * h \in Pow2 /\ 2 * h \in Nat /\ n <= 2 * h /\ 2 * h < 2 * n /\ 2 * h > 0
  BY <1>3, PowerDoubles
<1> DEFINE p == 2 * h
<1>5. p \in Pow2 /\ p \in Nat /\ n <= p /\ p < 2 * n /\ p > 0
  BY <1>4
<1> HIDE DEF p
<1>6. Node(top, p, n)
  <2>1. 0 \in Nat /\ top[1] = 0 * p
    BY <1>2, <1>5
  <2> QED
    BY <1>2, <1>5, <2>1 DEF Node
<1>7. Lefty(top, p, m)
  BY <1>2 DEF Lefty
<1>8. At(top, p, n)[2] = 0
  <2>1. n - 1 \in Nat /\ n - 1 < p
    BY <1>5
  <2>2. (n - 1) \div p = 0
    BY <1>5, <2>1, Small
  <2> QED
    BY <2>2 DEF At
<1> QED
  BY <1>1, <1>6, <1>7, <1>8 DEF top

\* The proof without its seed.
LEMMA RestIs ==
  ASSUME NEW S, NEW proof \in Seq(S), NEW m, NEW n, Len(proof) >= Off(m, n)
  PROVE  /\ Len(RestOf(m, n, proof)) = Len(proof) - Off(m, n)
         /\ Len(RestOf(m, n, proof)) \in Nat
         /\ \A k \in 1..Len(RestOf(m, n, proof)) : RestOf(m, n, proof)[k] = proof[k + Off(m, n)]
         /\ Off(m, n) = 1 => Head(proof) = proof[1] /\ proof # <<>>
<1>1. Len(proof) \in Nat
  BY LenProperties
<1>2. CASE KnownStart(m, n)
  <2>1. Off(m, n) = 0 /\ RestOf(m, n, proof) = proof
    BY <1>2 DEF Off, RestOf
  <2> QED
    BY <1>1, <2>1
<1>3. CASE ~KnownStart(m, n)
  <2>1. Off(m, n) = 1 /\ RestOf(m, n, proof) = Tail(proof)
    BY <1>3 DEF Off, RestOf
  <2>2. proof # <<>>
    BY <1>1, <2>1
  <2>3. /\ Len(Tail(proof)) = Len(proof) - 1 /\ Len(Tail(proof)) \in Nat
        /\ \A k \in 1..Len(Tail(proof)) : Tail(proof)[k] = proof[k + 1]
    BY <1>1, <2>1
  <2>4. Head(proof) = proof[1]
    OBVIOUS
  <2> QED
    BY <2>1, <2>2, <2>3, <2>4
<1> QED
  BY <1>2, <1>3

\* Two walks that begin alike and are fed alike go alike.
LEMMA WalkUnique ==
  ASSUME NEW v, NEW w, NEW rest, NEW n \in Nat, v[0] = w[0], Walks(v, rest, n), Walks(w, rest, n)
  PROVE  v[n] = w[n]
<1> DEFINE U == {j \in Nat : j <= n => v[j] = w[j]}
<1>1. 0 \in U
  OBVIOUS
<1>2. ASSUME NEW j \in Nat, j \in U PROVE j + 1 \in U
  <2> SUFFICES ASSUME j + 1 <= n PROVE v[j + 1] = w[j + 1]
    OBVIOUS
  <2>1. j + 1 \in 1..n /\ (j + 1) - 1 = j /\ v[j] = w[j]
    BY <1>2
  <2>2. /\ v[j + 1] = Absorbed(v[(j + 1) - 1], rest[j + 1])
        /\ w[j + 1] = Absorbed(w[(j + 1) - 1], rest[j + 1])
    BY <2>1, Zenon DEF Walks
  <2> QED
    BY <2>1, <2>2
<1> HIDE DEF U
<1>3. n \in U
  BY <1>1, <1>2, Induct
<1> QED
  BY <1>3 DEF U

\* A walk contains shorter ones.
LEMMA WalkPrefix ==
  ASSUME NEW w, NEW rest, NEW n \in Nat, NEW k \in Nat, k <= n, Walks(w, rest, n)
  PROVE  Walks(w, rest, k)
BY DEF Walks

(* Once the indices are at the root, one sibling more is one too many.     *)
LEMMA WalkSpoilt ==
  ASSUME NEW w, NEW rest, NEW n \in Nat, Walks(w, rest, n), NEW k \in Nat, k < n, w[k].at[2] = 0
  PROVE  ~w[n].ok
<1> DEFINE U == {j \in Nat : k + 1 + j <= n => ~w[k + 1 + j].ok}
<1>1. 0 \in U
  <2>1. k + 1 \in 1..n /\ (k + 1) - 1 = k /\ k + 1 + 0 = k + 1
    OBVIOUS
  <2>2. w[k + 1] = Absorbed(w[(k + 1) - 1], rest[k + 1])
    BY <2>1, Zenon DEF Walks
  <2>3. ~w[k + 1].ok
    BY <2>1, <2>2, AbsorbedIs
  <2> QED
    BY <2>1, <2>3
<1>2. ASSUME NEW j \in Nat, j \in U PROVE j + 1 \in U
  <2> SUFFICES ASSUME k + 1 + (j + 1) <= n PROVE ~w[k + 1 + (j + 1)].ok
    OBVIOUS
  <2> DEFINE i == k + 1 + j
  <2>1. i \in Nat /\ i + 1 \in 1..n /\ (i + 1) - 1 = i /\ k + 1 + (j + 1) = i + 1 /\ ~w[i].ok
    BY <1>2
  <2> HIDE DEF i
  <2>2. w[i + 1] = Absorbed(w[(i + 1) - 1], rest[i + 1])
    BY <2>1, Zenon DEF Walks
  <2>3. ~w[i + 1].ok
    BY <2>1, <2>2, AbsorbedIs
  <2> QED
    BY <2>1, <2>3
<1> HIDE DEF U
<1>3. n - (k + 1) \in U
  <2>1. n - (k + 1) \in Nat
    OBVIOUS
  <2> QED
    BY <1>1, <1>2, <2>1, Induct
<1>4. k + 1 + (n - (k + 1)) = n
  OBVIOUS
<1> QED
  BY <1>3, <1>4 DEF U

(* A walk that ends well has taken one sibling for every level.            *)
LEMMA WalkLength ==
  ASSUME NEW leaves, Len(leaves) \in Nat, NEW m \in Nat, m < Len(leaves),
         NEW sub, LinkPath(sub, leaves, m),
         NEW x \in Holding(m, Len(leaves)), NEW p, Node(x, p, Len(leaves)), Lefty(x, p, m),
         At(x, p, Len(leaves))[2] = 0,
         NEW w, NEW rest, NEW r \in Nat, w[0].at = SkipCommon(m, Len(leaves)), Walks(w, rest, r),
         w[r].ok, w[r].at[2] = 0
  PROVE  r = Steps(sub, x, m, Len(leaves))
<1> DEFINE n == Len(leaves)
           k == Steps(sub, x, m, n)
<1>1. k \in Nat
  <2>1. sub[x] \in Seq(Roots(leaves)) /\ Len(sub[x]) >= Off(m, n)
    BY LinkShape
  <2>2. Len(sub[x]) \in Nat /\ Off(m, n) \in Nat
    BY <2>1, LenProperties DEF Off
  <2> DEFINE a == Len(sub[x])
             o == Off(m, n)
  <2>3. k = a - o
    BY DEF Steps
  <2> HIDE DEF a, o, k
  <2>4. a \in Nat /\ o \in Nat /\ a >= o
    BY <2>1, <2>2 DEF a, o
  <2> QED
    BY <2>3, <2>4
<1>2. ASSUME NEW v, v[0].at = SkipCommon(m, n), Walks(v, rest, k)
      PROVE  v[k].at[2] = 0 /\ \A j \in 0..(k - 1) : v[j].at[2] # 0
  <2>1. WalkAt(v, sub, x, p, m, n)
    BY <1>2, PathAt, Zenon
  <2> QED
    BY <2>1 DEF WalkAt
<1> HIDE DEF k
<1>3. ~(r < k)
  <2> SUFFICES ASSUME r < k PROVE FALSE
    OBVIOUS
  <2>1. PICK v : WalkSolves(v, w[0], rest, k)
    BY <1>1, WalkExists
  <2>2. \A j \in 0..k : v[j] = WalkBody(v, w[0], rest, j)
    BY <2>1, Zenon DEF WalkSolves
  <2>3. v[0] = w[0] /\ Walks(v, rest, k)
    BY <1>1, <2>2 DEF WalkBody, Walks
  <2>4. Walks(v, rest, r)
    BY <1>1, <2>3, WalkPrefix
  <2>5. v[r] = w[r]
    BY <2>3, <2>4, WalkUnique
  <2>6. r \in 0..(k - 1)
    BY <1>1
  <2> QED
    BY <1>2, <2>3, <2>5, <2>6
<1>4. ~(k < r)
  <2> SUFFICES ASSUME k < r PROVE FALSE
    OBVIOUS
  <2>1. Walks(w, rest, k)
    BY <1>1, WalkPrefix
  <2>2. w[k].at[2] = 0
    BY <1>2, <2>1
  <2> QED
    BY <1>1, <2>2, WalkSpoilt
<1> QED
  BY <1>1, <1>3, <1>4 DEF k

\* Completeness: for every tree and every earlier size, verify_consistency accepts the proof that
\* consistency_proof makes, against the root the tree had at that size.
THEOREM ConsistencyComplete ==
  ASSUME NEW leaves, Len(leaves) \in Nat, NEW m \in 1..Len(leaves)
  PROVE  VerifyConsistency(m, RootIn(leaves, <<0, m>>), Len(leaves), Root(leaves),
                           ConsistencyProof(leaves, m))
<1> DEFINE n == Len(leaves)
           old == RootIn(leaves, <<0, m>>)
           top == <<0, n>>
           proof == ConsistencyProof(leaves, m)
<1>1. InRange(m, n) /\ m \in Nat /\ Root(leaves) = RootIn(leaves, top)
  BY DEF InRange, Root
<1>2. CASE m = n
  <2>1. proof = <<>>
    BY <1>2 DEF ConsistencyProof
  <2> QED
    BY <1>1, <1>2, <2>1 DEF VerifyConsistency
<1>3. CASE m # n
  <2>1. m < n /\ 0 < m
    BY <1>1, <1>3
  <2>2. PICK sub : proof = sub[top] /\ LinkPath(sub, leaves, m)
    BY <1>1, <1>3, ConsistencyProofIs
  <2>3. PICK p : Node(top, p, n) /\ Lefty(top, p, m) /\ At(top, p, n)[2] = 0
    BY <1>1, <2>1, TopNode
  <2>4. top \in Holding(m, n)
    BY <1>1, <2>1, TopNode
  <2>5. top[1] = 0
    OBVIOUS
  <2> DEFINE rest == RestOf(m, n, proof)
             seed == SeedOf(m, old, n, proof)
             o == Off(m, n)
             r == Len(rest)
             k == Steps(sub, top, m, n)
  <2> HIDE DEF proof, old, top
  <2>6. proof \in Seq(Roots(leaves)) /\ Len(proof) >= o
    BY <1>1, <2>1, <2>2, <2>3, <2>4, LinkShape
  <2>7. /\ r = Len(proof) - o /\ r \in Nat /\ \A j \in 1..r : rest[j] = proof[j + o]
        /\ o = 1 => Head(proof) = proof[1] /\ proof # <<>>
    BY <2>6, RestIs
  <2>8. r = k
    BY <2>2, <2>7 DEF Steps
  <2>9. seed = IF o = 0 THEN RootIn(leaves, <<0, m>>) ELSE sub[top][1]
    <3>1. CASE KnownStart(m, n)
      <4>1. seed = old /\ o = 0
        BY <3>1 DEF SeedOf, Off
      <4> QED
        BY <4>1 DEF old
    <3>2. CASE ~KnownStart(m, n)
      <4>1. seed = Head(proof) /\ o = 1
        BY <3>2 DEF SeedOf, Off
      <4> QED
        BY <2>2, <2>7, <4>1
    <3> QED
      BY <3>1, <3>2
  <2>10. Honest(sub, top, rest, seed, leaves, m, n)
    <3>1. \A j \in 1..k : rest[j] = sub[top][j + o]
      BY <2>2, <2>7, <2>8
    <3> QED
      BY <2>9, <3>1 DEF Honest
  <2>11. KnownStart(m, n) \/ proof # <<>>
    BY <2>7 DEF Off
  <2>12. PICK w : Walked(w, m, old, n, Root(leaves), proof)
    BY <1>3, <2>7, VerifyConsistencyIs
  <2>13. w[0] = Start(m, n, seed) /\ Walks(w, rest, r)
    BY <2>12 DEF Walked
  <2>14. w[0].at = SkipCommon(m, n)
    BY <2>13 DEF Start
  <2> HIDE DEF rest, seed, o, r, k
  <2>15. Walks(w, rest, k)
    BY <2>8, <2>13
  <2>16. Rebuilt(w[k], top, leaves, m)
    BY <1>1, <2>1, <2>2, <2>3, <2>4, <2>10, <2>13, <2>15, WalkRebuilds, Zenon DEF k
  <2>17. w[k].at = At(top, p, n)
    <3>1. WalkAt(w, sub, top, p, m, n)
      BY <1>1, <2>1, <2>2, <2>3, <2>4, <2>14, <2>15, PathAt, Zenon DEF k
    <3> QED
      BY <3>1 DEF WalkAt, k
  <2>18. RootIn(leaves, <<top[1], m>>) = old
    BY <2>5 DEF old
  <2>19. Ends(w[r], old, Root(leaves))
    BY <1>1, <2>3, <2>8, <2>16, <2>17, <2>18 DEF Ends, Rebuilt
  <2>20. VerifyConsistency(m, old, n, Root(leaves), proof)
    BY <1>1, <2>11, <2>12, <2>19 DEF Walked, r, rest
  <2> QED
    BY <2>20 DEF old, proof
<1> QED
  BY <1>2, <1>3

\* Soundness: no proof at all makes verify_consistency accept another old root than the one of the new
\* tree's first leaves.  A fork is always found out, whoever wrote the proof.
THEOREM ConsistencySound ==
  ASSUME NEW leaves, Len(leaves) \in Nat, NEW m \in 1..Len(leaves),
         NEW oldRoot, NEW S, NEW proof \in Seq(S),
         VerifyConsistency(m, oldRoot, Len(leaves), Root(leaves), proof)
  PROVE  oldRoot = RootIn(leaves, <<0, m>>)
<1> DEFINE n == Len(leaves)
           top == <<0, n>>
<1>1. m \in Nat /\ Root(leaves) = RootIn(leaves, top)
  BY DEF Root
<1>2. CASE m = n
  BY <1>1, <1>2 DEF VerifyConsistency
<1>3. CASE m # n
  <2>1. m < n /\ 0 < m
    BY <1>1, <1>3
  <2>2. PICK sub : LinkPath(sub, leaves, m)
    BY <1>1, <1>3, ConsistencyProofIs
  <2>3. PICK p : Node(top, p, n) /\ Lefty(top, p, m) /\ At(top, p, n)[2] = 0
    BY <1>1, <2>1, TopNode
  <2>4. top \in Holding(m, n)
    BY <1>1, <2>1, TopNode
  <2>5. top[1] = 0
    OBVIOUS
  <2> DEFINE rest == RestOf(m, n, proof)
             seed == SeedOf(m, oldRoot, n, proof)
             r == Len(rest)
             k == Steps(sub, top, m, n)
  <2> HIDE DEF top
  <2>6. KnownStart(m, n) \/ proof # <<>>
    BY <1>3 DEF VerifyConsistency, KnownStart
  <2>7. Len(proof) >= Off(m, n)
    <3>1. Len(proof) \in Nat /\ (proof # <<>> => Len(proof) # 0)
      BY EmptySeq, LenProperties
    <3> QED
      BY <2>6, <3>1 DEF Off
  <2>8. r \in Nat
    BY <2>7, RestIs
  <2>9. PICK w : Walked(w, m, oldRoot, n, Root(leaves), proof)
    BY <1>3, <2>8, VerifyConsistencyIs
  <2>10. w[0] = Start(m, n, seed) /\ Walks(w, rest, r) /\ Ends(w[r], oldRoot, Root(leaves))
    BY <2>9 DEF Walked
  <2>11. w[0].at = SkipCommon(m, n) /\ w[0].old = w[0].new
    BY <2>10 DEF Start
  <2>12. w[r].ok /\ w[r].at[2] = 0 /\ w[r].old = oldRoot /\ w[r].new = RootIn(leaves, top)
    BY <1>1, <2>10 DEF Ends
  <2> HIDE DEF rest, seed, r, k
  <2>13. r = k
    BY <1>1, <2>1, <2>2, <2>3, <2>4, <2>8, <2>10, <2>11, <2>12, WalkLength DEF k
  <2>14. Walks(w, rest, k) /\ w[k].new = RootIn(leaves, top)
    BY <2>10, <2>12, <2>13
  <2>15. w[k].old = RootIn(leaves, <<top[1], m>>)
    BY <1>1, <2>1, <2>2, <2>3, <2>4, <2>11, <2>14, WalkCameFrom, Zenon DEF k
  <2> QED
    BY <2>5, <2>12, <2>13, <2>15
<1> QED
  BY <1>2, <1>3

\* A proof of consistency is a sequence of hashes.
LEMMA ConsistencyProofSeq ==
  ASSUME NEW leaves, Len(leaves) \in Nat, NEW m \in 1..Len(leaves)
  PROVE  ConsistencyProof(leaves, m) \in Seq(Roots(leaves))
<1> DEFINE n == Len(leaves)
           top == <<0, n>>
<1>1. CASE m = n
  BY <1>1 DEF ConsistencyProof
<1>2. CASE m # n
  <2>1. m < n /\ 0 < m /\ m \in Nat
    BY <1>2
  <2>2. PICK sub : ConsistencyProof(leaves, m) = sub[top] /\ LinkPath(sub, leaves, m)
    BY <1>2, <2>1, ConsistencyProofIs
  <2>3. PICK p : Node(top, p, n) /\ Lefty(top, p, m)
    BY <2>1, TopNode
  <2>4. top \in Holding(m, n)
    BY <2>1, TopNode
  <2> HIDE DEF top
  <2> QED
    BY <2>1, <2>2, <2>3, <2>4, LinkShape
<1> QED
  BY <1>1, <1>2

(* The root over the first m leaves is the root of the tree of them.       *)
LEMMA KnownIs ==
  ASSUME NEW S, NEW leaves \in Seq(S), NEW m \in 0..Len(leaves)
  PROVE  /\ SubSeq(leaves, 1, m) \in Seq(S) /\ Len(SubSeq(leaves, 1, m)) = m
         /\ \A i \in 1..m : SubSeq(leaves, 1, m)[i] = leaves[i]
         /\ Root(SubSeq(leaves, 1, m)) = RootIn(leaves, <<0, m>>)
<1> DEFINE part == SubSeq(leaves, 1, m)
<1>1. Len(leaves) \in Nat
  BY LenProperties
<1>2. part \in Seq(S) /\ Len(part) = m /\ \A i \in 1..m : part[i] = leaves[i]
  BY <1>1
<1>3. Root(part) = RootIn(part, <<0, m>>)
  BY <1>2 DEF Root
<1> HIDE DEF part
<1>4. RootIn(part, <<0, m>>) = RootIn(leaves, <<0, m>>)
  <2> DEFINE x == <<0, m>>
  <2>1. x \in Spans(Len(part)) \cap Spans(Len(leaves)) /\ x[1] = 0 /\ x[2] = m
    BY <1>1, <1>2, SpanOf
  <2> HIDE DEF x
  <2>2. \A i \in (x[1] + 1)..x[2] : part[i] = leaves[i]
    BY <1>2, <2>1
  <2>3. RootIn(part, x) = RootIn(leaves, x)
    BY <1>1, <1>2, <2>1, <2>2, RootLocal
  <2> QED
    BY <2>3 DEF x
<1> QED
  BY <1>2, <1>3, <1>4 DEF part

(* Two sequences with one root over their first m leaves begin alike.      *)
LEMMA RootsApart ==
  ASSUME NEW S, NEW one \in Seq(S), NEW two \in Seq(S),
         NEW m \in 0..Len(one), m <= Len(two),
         RootIn(one, <<0, m>>) = RootIn(two, <<0, m>>)
  PROVE  SubSeq(one, 1, m) = SubSeq(two, 1, m)
<1> DEFINE x == <<0, m>>
<1>1. Len(one) \in Nat /\ Len(two) \in Nat /\ m \in Nat
  BY LenProperties
<1>2. x \in Spans(Len(one)) \cap Spans(Len(two)) /\ x[1] = 0 /\ x[2] = m
  BY <1>1, SpanOf
<1> HIDE DEF x
<1>3. RootIn(one, x) = RootIn(two, x)
  BY DEF x
<1>4. \A i \in (x[1] + 1)..x[2] : one[i] = two[i]
  BY <1>1, <1>2, <1>3, RootInjective
<1>5. m \in 0..Len(two) /\ \A i \in 1..m : one[i] = two[i]
  BY <1>1, <1>2, <1>4
<1> DEFINE a == SubSeq(one, 1, m)
           b == SubSeq(two, 1, m)
<1>6. a \in Seq(S) /\ Len(a) = m /\ \A i \in 1..m : a[i] = one[i]
  BY KnownIs
<1>7. b \in Seq(S) /\ Len(b) = m /\ \A i \in 1..m : b[i] = two[i]
  BY <1>5, KnownIs
<1> HIDE DEF a, b
<1>8. a = b
  BY <1>5, <1>6, <1>7, SeqEqual
<1> QED
  BY <1>8 DEF a, b

\* Consistency proofs are exact for every pair of logs, of any size: the client's view is accepted if and
\* only if it is a prefix (consistency_proof and verify_consistency).
THEOREM ConsistencyExact == LogsSpec => []ConsistencyIsExact
<1>1. LogsTypeOK => ConsistencyIsExact
  <2> SUFFICES ASSUME LogsTypeOK, NEW m \in 1..Len(ours)
               PROVE  /\ VerifyConsistency(m, Known(ours, m), Len(ours), Root(ours), ConsistencyProof(ours, m))
                      /\ m <= Len(theirs) =>
                           /\ VerifyConsistency(m, Known(theirs, m), Len(ours), Root(ours), ConsistencyProof(ours, m))
                                => SubSeq(theirs, 1, m) = SubSeq(ours, 1, m)
                           /\ VerifyConsistency(m, Known(theirs, m), Len(ours), Root(ours), ConsistencyProof(theirs, m))
                                => SubSeq(theirs, 1, m) = SubSeq(ours, 1, m)
    BY DEF ConsistencyIsExact
  <2>1. Len(ours) \in Nat /\ Len(theirs) \in Nat /\ ours \in Seq(Hashes) /\ theirs \in Seq(Hashes)
    BY LenProperties DEF LogsTypeOK
  <2>2. Known(ours, m) = RootIn(ours, <<0, m>>)
    <3>1. m \in 0..Len(ours)
      BY <2>1
    <3> QED
      BY <2>1, <3>1, KnownIs DEF Known
  <2>3. VerifyConsistency(m, Known(ours, m), Len(ours), Root(ours), ConsistencyProof(ours, m))
    BY <2>1, <2>2, ConsistencyComplete
  <2>4. ASSUME m <= Len(theirs), NEW S, NEW proof \in Seq(S),
               VerifyConsistency(m, Known(theirs, m), Len(ours), Root(ours), proof)
        PROVE  SubSeq(theirs, 1, m) = SubSeq(ours, 1, m)
    <3>1. m \in 0..Len(theirs)
      BY <2>1, <2>4
    <3>2. Known(theirs, m) = RootIn(theirs, <<0, m>>)
      BY <2>1, <3>1, KnownIs DEF Known
    <3>3. Known(theirs, m) = RootIn(ours, <<0, m>>)
      BY <2>1, <2>4, ConsistencySound
    <3>4. m <= Len(ours) /\ RootIn(theirs, <<0, m>>) = RootIn(ours, <<0, m>>)
      BY <2>1, <3>2, <3>3
    <3> QED
      BY <2>1, <3>1, <3>4, RootsApart
  <2>5. ConsistencyProof(ours, m) \in Seq(Roots(ours))
    BY <2>1, ConsistencyProofSeq
  <2>6. m <= Len(theirs) => ConsistencyProof(theirs, m) \in Seq(Roots(theirs))
    BY <2>1, ConsistencyProofSeq
  <2> QED
    BY <2>3, <2>4, <2>5, <2>6
<1> QED
  BY <1>1, LogsTypes, PTL

(***************************************************************************)
(* Tables of rows: the rank of a row, and the leaves in their order.       *)
(***************************************************************************)
Ordered(t)  == /\ t \in Tree /\ IsFiniteSet(t)
               /\ \A e, f \in t : e.seq = f.seq => e = f
\* The rows before a row: how many they are is its index in the tree.
Below(e, t) == {f \in t : f.seq < e.seq}

\* The numbers of the rows of a table.
LEMMA RowSeq ==
  ASSUME NEW t, Ordered(t), NEW e \in t
  PROVE  e \in Row /\ e.seq \in 1..MaxRows /\ e.seq \in Nat /\ MaxRows \in Nat
BY KeyLogAssumption DEF Ordered, Tree, Row

\* Rows have a first one.
LEMMA RowMin ==
  ASSUME NEW t, Ordered(t), NEW s, s \subseteq t, s # {}
  PROVE  \E e \in s : \A f \in s : e.seq <= f.seq
<1> DEFINE S == {e.seq : e \in s}
<1>1. \A e \in s : e.seq \in Nat
  BY RowSeq
<1>2. S \subseteq Nat /\ S # {}
  BY <1>1
<1>3. PICK n \in S : \A m \in S : n <= m
  BY <1>2, Least
<1> QED
  BY <1>3

\* ... and a last one.
LEMMA RowMax ==
  ASSUME NEW t, Ordered(t), NEW s, s \subseteq t, s # {}
  PROVE  \E e \in s : IsLast(e, s)
<1> DEFINE S == {MaxRows - e.seq : e \in s}
<1>1. \A e \in s : e.seq \in 1..MaxRows /\ e.seq \in Nat /\ MaxRows \in Nat
  BY RowSeq
<1>2. S \subseteq Nat /\ S # {}
  BY <1>1
<1>3. PICK n \in S : \A m \in S : n <= m
  BY <1>2, Least
<1>4. PICK e \in s : n = MaxRows - e.seq
  BY <1>3
<1>5. ASSUME NEW f \in s PROVE f.seq <= e.seq
  <2>1. MaxRows - f.seq \in S
    OBVIOUS
  <2>2. MaxRows - e.seq <= MaxRows - f.seq
    BY <1>3, <1>4, <2>1
  <2> QED
    BY <1>1, <2>2
<1> QED
  BY <1>5 DEF IsLast

\* A row's rank is below the size of the table, and rows are ranked in their order.
LEMMA BelowIs ==
  ASSUME NEW t, Ordered(t), NEW e \in t
  PROVE  /\ IsFiniteSet(Below(e, t)) /\ Cardinality(Below(e, t)) \in Nat
         /\ Cardinality(Below(e, t)) < Cardinality(t) /\ Cardinality(t) \in Nat
         /\ \A f \in t : e.seq < f.seq => Cardinality(Below(e, t)) < Cardinality(Below(f, t))
<1>1. IsFiniteSet(t) /\ Cardinality(t) \in Nat
  BY FS_CardinalityType DEF Ordered
<1>2. ASSUME NEW s, s \subseteq t, Below(e, t) \subseteq s, e \in s
      PROVE  Cardinality(Below(e, t)) < Cardinality(s)
  <2>1. IsFiniteSet(s)
    BY <1>1, <1>2, FS_Subset
  <2>2. e \notin Below(e, t)
    BY RowSeq DEF Below
  <2>3. Below(e, t) # s
    BY <1>2, <2>2
  <2> DEFINE b == Below(e, t)
  <2>4. b \in SUBSET s
    BY <1>2
  <2> HIDE DEF b
  <2>5. IsFiniteSet(b) /\ Cardinality(b) <= Cardinality(s) /\ (Cardinality(s) = Cardinality(b) => s = b)
    BY <2>1, <2>4, FS_Subset
  <2>6. Cardinality(b) \in Nat /\ Cardinality(s) \in Nat
    BY <2>1, <2>5, FS_CardinalityType
  <2>7. s # b
    BY <2>3 DEF b
  <2> QED
    BY <2>5, <2>6, <2>7 DEF b
<1>3. Below(e, t) \in SUBSET t
  BY DEF Below
<1>4. IsFiniteSet(Below(e, t)) /\ Cardinality(Below(e, t)) \in Nat
  BY <1>1, <1>3, FS_Subset, FS_CardinalityType
<1>5. Cardinality(Below(e, t)) < Cardinality(t)
  BY <1>2, <1>3
<1>6. ASSUME NEW f \in t, e.seq < f.seq PROVE Cardinality(Below(e, t)) < Cardinality(Below(f, t))
  <2>1. Below(f, t) \subseteq t /\ e \in Below(f, t)
    BY <1>6 DEF Below
  <2>2. Below(e, t) \subseteq Below(f, t)
    <3>1. ASSUME NEW g \in t, g.seq < e.seq PROVE g.seq < f.seq
      BY <1>6, <3>1, RowSeq
    <3> QED
      BY <3>1 DEF Below
  <2> QED
    BY <1>2, <2>1, <2>2
<1> QED
  BY <1>1, <1>4, <1>5, <1>6

\* No two rows have the same rank.
LEMMA RankUnique ==
  ASSUME NEW t, Ordered(t), NEW e \in t, NEW f \in t,
         Cardinality(Below(e, t)) = Cardinality(Below(f, t))
  PROVE  e = f
<1>1. ~(e.seq < f.seq) /\ ~(f.seq < e.seq)
  BY BelowIs
<1>2. e.seq = f.seq
  BY <1>1, RowSeq
<1> QED
  BY <1>2 DEF Ordered

\* Every rank below the size of the table is the rank of a row.
LEMMA RankTaken ==
  ASSUME NEW t, Ordered(t), NEW n \in Nat, n < Cardinality(t)
  PROVE  \E e \in t : Cardinality(Below(e, t)) = n
<1>1. IsFiniteSet(t) /\ Cardinality(t) \in Nat
  BY FS_CardinalityType DEF Ordered
<1> DEFINE U == {j \in Nat : j < Cardinality(t) => \E e \in t : Cardinality(Below(e, t)) = j}
<1>2. 0 \in U
  <2> SUFFICES ASSUME 0 < Cardinality(t) PROVE \E e \in t : Cardinality(Below(e, t)) = 0
    OBVIOUS
  <2>1. t # {}
    BY FS_EmptySet
  <2>2. PICK e \in t : \A f \in t : e.seq <= f.seq
    BY <2>1, RowMin
  <2>3. Below(e, t) = {}
    <3>1. ASSUME NEW f \in t PROVE ~(f.seq < e.seq)
      BY <2>2, RowSeq
    <3> QED
      BY <3>1 DEF Below
  <2> QED
    BY <2>3, FS_EmptySet
<1>3. ASSUME NEW j \in Nat, j \in U PROVE j + 1 \in U
  <2> SUFFICES ASSUME j + 1 < Cardinality(t) PROVE \E e \in t : Cardinality(Below(e, t)) = j + 1
    OBVIOUS
  <2>1. PICK e \in t : Cardinality(Below(e, t)) = j
    BY <1>1, <1>3
  <2> DEFINE rest == {f \in t : e.seq < f.seq}
             upto == Below(e, t) \cup {e}
  <2>2. e \notin Below(e, t)
    BY RowSeq DEF Below
  <2>3. IsFiniteSet(upto) /\ Cardinality(upto) = j + 1
    BY <2>1, <2>2, BelowIs, FS_AddElement
  <2>4. rest # {}
    <3> SUFFICES ASSUME rest = {} PROVE FALSE
      OBVIOUS
    <3>1. ASSUME NEW f \in t PROVE f \in upto
      <4>1. ~(e.seq < f.seq)
        OBVIOUS
      <4>2. f.seq < e.seq \/ f.seq = e.seq
        BY <4>1, RowSeq
      <4> QED
        BY <4>2 DEF Below, Ordered
    <3>2. t = upto
      BY <3>1 DEF Below
    <3>3. Cardinality(t) = j + 1
      BY <2>3, <3>2, Zenon
    <3> QED
      BY <1>1, <3>3
  <2>5. PICK f \in rest : \A g \in rest : f.seq <= g.seq
    <3>1. rest \subseteq t
      OBVIOUS
    <3> HIDE DEF rest
    <3> QED
      BY <2>4, <3>1, RowMin
  <2>6. f \in t /\ e.seq < f.seq
    OBVIOUS
  <2>7. Below(f, t) = upto
    <3>1. ASSUME NEW g \in t PROVE g.seq < f.seq <=> g.seq < e.seq \/ g = e
      <4>1. e.seq < g.seq => f.seq <= g.seq
        BY <2>5
      <4>2. e.seq = g.seq => g = e
        BY DEF Ordered
      <4>3. e.seq \in Nat /\ f.seq \in Nat /\ g.seq \in Nat
        BY <2>6, RowSeq
      <4> QED
        BY <2>6, <4>1, <4>2, <4>3
    <3> QED
      BY <3>1 DEF Below
  <2> QED
    BY <2>3, <2>6, <2>7
<1> HIDE DEF U
<1>4. n \in U
  BY <1>2, <1>3, Induct
<1> QED
  BY <1>4 DEF U

(* The rows are numbered by their rank, from 1.                            *)
LEMMA NthIs ==
  ASSUME NEW t, Ordered(t), NEW n \in 1..SizeOf(t)
  PROVE  Nth(t, n) \in t /\ Cardinality(Below(Nth(t, n), t)) = n - 1
<1>1. n - 1 \in Nat /\ n - 1 < Cardinality(t)
  <2>1. Cardinality(t) \in Nat
    BY FS_CardinalityType DEF Ordered
  <2> QED
    BY <2>1 DEF SizeOf
<1>2. \E e \in t : Cardinality(Below(e, t)) = n - 1
  BY <1>1, RankTaken
<1> QED
  BY <1>2, Zenon DEF Nth, Below

\* The row of rank n is the one numbered n + 1.
LEMMA NthAt ==
  ASSUME NEW t, Ordered(t), NEW e \in t, NEW n \in Nat, Cardinality(Below(e, t)) = n
  PROVE  n + 1 \in 1..SizeOf(t) /\ Nth(t, n + 1) = e
<1>1. n + 1 \in 1..SizeOf(t) /\ (n + 1) - 1 = n
  BY BelowIs DEF SizeOf
<1>2. Nth(t, n + 1) \in t /\ Cardinality(Below(Nth(t, n + 1), t)) = n
  BY <1>1, NthIs
<1> QED
  BY <1>1, <1>2, RankUnique

\* The leaves of a table are the rows in their order.
LEMMA LeavesIs ==
  ASSUME NEW t, Ordered(t)
  PROVE  /\ SizeOf(t) \in Nat /\ Len(Leaves(t)) = SizeOf(t)
         /\ \A n \in 1..SizeOf(t) : Leaves(t)[n] = Leaf(Nth(t, n).account, Nth(t, n).key)
<1>1. SizeOf(t) \in Nat
  BY FS_CardinalityType DEF Ordered, SizeOf
<1> QED
  BY <1>1 DEF Leaves

(* A prefix of a table has the table's first leaves.                       *)
LEMMA PrefixIs ==
  ASSUME NEW t, Ordered(t), NEW s, Extends(s, t)
  PROVE  /\ Ordered(s) /\ SizeOf(s) <= SizeOf(t) /\ (SizeOf(s) = SizeOf(t) => s = t)
         /\ \A e \in s : Below(e, s) = Below(e, t)
         /\ \A n \in 1..SizeOf(s) : Leaves(s)[n] = Leaves(t)[n]
<1>1. s \subseteq t /\ \A e \in s, f \in t \ s : e.seq < f.seq
  BY DEF Extends
<1>2. IsFiniteSet(s) /\ SizeOf(s) <= SizeOf(t) /\ (SizeOf(s) = SizeOf(t) => s = t)
  BY <1>1, FS_Subset DEF Ordered, SizeOf
<1>3. Ordered(s)
  BY <1>1, <1>2 DEF Ordered, Tree
<1>4. ASSUME NEW e \in s PROVE Below(e, s) = Below(e, t)
  <2>1. ASSUME NEW f \in t, f.seq < e.seq PROVE f \in s
    BY <1>1, <2>1, RowSeq
  <2> QED
    BY <1>1, <2>1 DEF Below
<1>5. ASSUME NEW n \in 1..SizeOf(s) PROVE Leaves(s)[n] = Leaves(t)[n]
  <2> DEFINE e == Nth(s, n)
             r == n - 1
  <2>1. e \in s /\ Cardinality(Below(e, s)) = n - 1
    BY <1>3, NthIs
  <2>2. r \in Nat /\ r + 1 = n
    BY <1>3, LeavesIs
  <2> HIDE DEF e, r
  <2>3. Cardinality(Below(e, t)) = r /\ e \in t
    BY <1>1, <1>4, <2>1 DEF r
  <2>4. n \in 1..SizeOf(t) /\ Nth(t, n) = e
    BY <2>2, <2>3, NthAt
  <2> QED
    BY <1>3, <2>4, LeavesIs DEF e
<1> QED
  BY <1>2, <1>3, <1>4, <1>5

\* A table extends itself.
LEMMA ExtendsSelf ==
  ASSUME NEW t
  PROVE  Extends(t, t)
BY DEF Extends

\* What extends an extension extends the first.
LEMMA ExtendsOn ==
  ASSUME NEW s, NEW t, NEW u, Extends(s, t), Extends(t, u)
  PROVE  Extends(s, u)
<1>1. s \subseteq u
  BY DEF Extends
<1>2. ASSUME NEW e \in s, NEW f \in u \ s PROVE e.seq < f.seq
  <2>1. CASE f \in t
    BY <1>2, <2>1 DEF Extends
  <2>2. CASE f \notin t
    BY <1>2, <2>2 DEF Extends
  <2> QED
    BY <2>1, <2>2
<1> QED
  BY <1>1, <1>2 DEF Extends

(* A table that can be is never taken for no table.                        *)
LEMMA TableIsSome ==
  ASSUME NEW t, Ordered(t)
  PROVE  t # None
<1> DEFINE used == {e.seq : e \in t}
           f == [n \in used |-> CHOOSE e \in t : e.seq = n]
<1>1. used \in SUBSET (1..MaxRows)
  BY RowSeq
<1>2. \A e \in t : e.seq \in used /\ f[e.seq] = e
  <2> SUFFICES ASSUME NEW e \in t PROVE e.seq \in used /\ f[e.seq] = e
    OBVIOUS
  <2>1. \A g \in t : g.seq = e.seq => g = e
    BY DEF Ordered
  <2> QED
    BY <2>1
<1>3. \A n \in used : f[n] \in t
  BY <1>2
<1>4. f \in [used -> Row]
  <2>1. \A n \in used : f[n] \in Row
    BY <1>3 DEF Ordered, Tree
  <2> QED
    BY <2>1
<1>5. t = {f[n] : n \in DOMAIN f}
  <2>1. DOMAIN f = used
    OBVIOUS
  <2> HIDE DEF f, used
  <2> QED
    BY <1>2, <1>3, <2>1
<1> HIDE DEF f, used
<1>6. f \in UNION {[u -> Row] : u \in SUBSET (1..MaxRows)}
  BY <1>1, <1>4
<1>7. t \in Tables
  BY <1>5, <1>6 DEF Tables
<1> QED
  BY <1>7, WitnessAssumption

(* The fingerprint tells a prefix of the table from the table.             *)
LEMMA FingerprintIs ==
  ASSUME NEW t, Ordered(t)
  PROVE  /\ Fingerprint(t) \in Nat \X Nat
         /\ \A s : Extends(s, t) /\ Fingerprint(s) = Fingerprint(t) => s = t
<1>1. Cardinality(t) \in Nat
  BY FS_CardinalityType DEF Ordered
<1>2. t # {} => (CHOOSE e \in t : IsLast(e, t)).seq \in Nat
  <2> SUFFICES ASSUME t # {} PROVE (CHOOSE e \in t : IsLast(e, t)).seq \in Nat
    OBVIOUS
  <2>1. \E e \in t : IsLast(e, t)
    BY RowMax
  <2>2. (CHOOSE e \in t : IsLast(e, t)) \in t
    BY <2>1
  <2> DEFINE e == CHOOSE e \in t : IsLast(e, t)
  <2> HIDE DEF e
  <2>3. e \in t
    BY <2>2 DEF e
  <2>4. e.seq \in Nat
    BY <2>3, RowSeq
  <2> QED
    BY <2>4 DEF e
<1>3. Fingerprint(t) \in Nat \X Nat
  BY <1>1, <1>2 DEF Fingerprint
<1>4. ASSUME NEW s, Extends(s, t), Fingerprint(s) = Fingerprint(t) PROVE s = t
  <2>1. Cardinality(s) = Cardinality(t)
    BY <1>4 DEF Fingerprint
  <2> QED
    BY <1>4, <2>1, PrefixIs DEF SizeOf
<1> QED
  BY <1>3, <1>4

\* A row appended leaves the table in order.
LEMMA GrownOrdered ==
  ASSUME NEW t, Ordered(t), NEW row \in Row, Extends(t, t \cup {row})
  PROVE  Ordered(t \cup {row})
<1>1. IsFiniteSet(t \cup {row})
  BY FS_AddElement DEF Ordered
<1>2. t \cup {row} \in Tree
  BY DEF Ordered, Tree
<1>3. \A e \in t : row \notin t => e.seq < row.seq
  BY DEF Extends
<1>4. row.seq \in Nat /\ \A e \in t : e.seq \in Nat
  BY RowSeq, KeyLogAssumption DEF Row
<1>5. \A e, f \in t \cup {row} : e.seq = f.seq => e = f
  BY <1>3, <1>4 DEF Ordered
<1> QED
  BY <1>1, <1>2, <1>5 DEF Ordered

(* What the proof of inclusion shows of the row counted.                   *)
LEMMA LeafInjective ==
  ASSUME NEW a, NEW k, NEW b, NEW l, Leaf(a, k) = Leaf(b, l)
  PROVE  a = b /\ k = l
<1>1. [account |-> a, key |-> k] = [account |-> b, key |-> l]
  BY DEF Leaf, LeafHash
<1> QED
  BY <1>1

\* The proof log_proof makes for an index convinces a client of the row there, and of no other.
LEMMA IncludedIs ==
  ASSUME NEW t, Ordered(t), NEW index \in Nat, index < SizeOf(t), NEW a, NEW k
  PROVE  VerifyInclusion(Leaf(a, k), index, SizeOf(t), InclusionProof(Leaves(t), index), RootOf(t))
           <=> Nth(t, index + 1).account = a /\ Nth(t, index + 1).key = k
<1> DEFINE leaves == Leaves(t)
           e == Nth(t, index + 1)
<1>1. Len(leaves) = SizeOf(t) /\ Len(leaves) \in Nat
  BY LeavesIs
<1>2. leaves[index + 1] = Leaf(e.account, e.key)
  <2>1. index + 1 \in 1..SizeOf(t)
    BY <1>1
  <2> QED
    BY <2>1, LeavesIs
<1>3. RootOf(t) = Root(leaves)
  BY DEF RootOf
<1> HIDE DEF leaves, e
<1>4. VerifyInclusion(leaves[index + 1], index, Len(leaves), InclusionProof(leaves, index), Root(leaves))
  BY <1>1, InclusionComplete
<1>5. ASSUME VerifyInclusion(Leaf(a, k), index, Len(leaves), InclusionProof(leaves, index), Root(leaves))
      PROVE  e.account = a /\ e.key = k
  <2>1. Len(InclusionProof(leaves, index)) \in Nat
    BY <1>1, InclusionProofLen
  <2>2. Leaf(a, k) = leaves[index + 1]
    BY <1>1, <1>5, <2>1, InclusionSound
  <2>3. Leaf(a, k) = Leaf(e.account, e.key)
    BY <1>2, <2>2
  <2> QED
    BY <2>3, LeafInjective
<1> QED
  BY <1>1, <1>2, <1>3, <1>4, <1>5 DEF leaves, e

(* An honest proof links every prefix to the table.                        *)
LEMMA LinksHonestly ==
  ASSUME NEW t, Ordered(t), NEW s, Extends(s, t), InRange(SizeOf(s), SizeOf(t))
  PROVE  VerifyConsistency(SizeOf(s), RootOf(s), SizeOf(t), RootOf(t),
                           ConsistencyProof(Leaves(t), SizeOf(s)))
<1> DEFINE one == Leaves(s)
           two == Leaves(t)
           m == SizeOf(s)
           x == <<0, m>>
<1>1. /\ Ordered(s) /\ SizeOf(s) <= SizeOf(t)
      /\ \A n \in 1..SizeOf(s) : Leaves(s)[n] = Leaves(t)[n]
  BY PrefixIs
<1>2. /\ m \in Nat /\ Len(one) = m /\ Len(two) = SizeOf(t) /\ Len(two) \in Nat /\ m <= Len(two)
      /\ \A n \in 1..m : one[n] = two[n]
  BY <1>1, LeavesIs
<1>3. RootOf(s) = Root(one) /\ RootOf(t) = Root(two)
  BY DEF RootOf
<1>4. 0 < m
  BY DEF InRange
<1> HIDE DEF one, two, m
<1>5. Root(one) = RootIn(two, x)
  <2>1. Root(one) = RootIn(one, x)
    BY <1>2 DEF Root
  <2>2. x \in Spans(Len(one)) \cap Spans(Len(two)) /\ x[1] = 0 /\ x[2] = m
    BY <1>2, SpanOf
  <2> HIDE DEF x
  <2>3. \A i \in (x[1] + 1)..x[2] : one[i] = two[i]
    BY <1>2, <2>2
  <2>4. Len(one) \in Nat
    BY <1>2
  <2>5. RootIn(one, x) = RootIn(two, x)
    BY <1>2, <2>2, <2>3, <2>4, RootLocal
  <2> QED
    BY <2>1, <2>5
<1>6. m \in 1..Len(two)
  BY <1>2, <1>4
<1>7. VerifyConsistency(m, RootIn(two, <<0, m>>), Len(two), Root(two), ConsistencyProof(two, m))
  BY <1>2, <1>6, ConsistencyComplete
<1> QED
  BY <1>2, <1>3, <1>5, <1>7 DEF one, two, m

(***************************************************************************)
(* The witness.  What a check holds in each of its states: k is the check, *)
(* t the table, keys and lt the accounts' keys and the late ones.          *)
(***************************************************************************)
Shaped(k) ==
  /\ k \in Check
  /\ k.pc = "listed" => k.ask = "proof"
  /\ k.pc \in {"probe", "compare", "rebuild", "store"} => k.at \in Instances
  /\ k.pc \in {"store", "have", "latest"} => k.tree # None
  /\ k.ask = "head" => k.from # None /\ k.key = NoKey
  /\ k.ask = "proof" /\ k.pc # "idle" => k.account \in Accounts /\ k.key # NoKey
  /\ k.ask = "consistency" => k.from # None /\ k.head # None

\* Every tree a check holds is a prefix of the table.
Held(k, t) == \A s \in {k.from, k.tree, k.head} : s # None => Extends(s, t)

(* The latest row, read after the snapshot: no later row of the account is *)
(* in the snapshot's tree.                                                 *)
Shown(k, t) ==
  k.pc = "latest" =>
    /\ k.ask = "proof" /\ k.row \in t /\ k.row.account = k.account
    /\ \A f \in k.tree : f.account = k.account => f.seq <= k.row.seq

\* The head that is about to be accepted shows the key as the account's last.
Current(k) ==
  k.ask = "consistency" /\ k.key # NoKey =>
    \E e \in k.head : /\ e.account = k.account /\ e.key = k.key
                      /\ IsLast(e, {f \in k.head : f.account = e.account})

\* What a refusal may rest on.
Fair(k, lt) == k.pc = "refused" => k.moved \/ k.account \in lt

(* While the log does not grow, all that a check has read is up to date.   *)
Still(k, t, keys) ==
  /\ k.key # NoKey => k.key = keys[k.account]
  /\ k.pc = "compare" => k.probe = Fingerprint(t)
  /\ k.pc \in {"store", "have", "latest"} => k.tree = t
  /\ k.ask = "consistency" => k.head = t

Fits(k, t, keys, lt) ==
  /\ Shaped(k) /\ Held(k, t) /\ Shown(k, t) /\ Current(k) /\ Fair(k, lt)
  /\ ~k.moved => Still(k, t, keys)

(* The log: an account that nobody entered late has its key in its last row. *)
LastIsKey(t, keys, lt) ==
  \A a \in Accounts \ lt : \A e \in t :
    e.account = a /\ IsLast(e, {f \in t : f.account = a}) => e.key = keys[a]

LogOK == /\ key \in [Accounts -> Key0] /\ late \in SUBSET Accounts
         /\ Ordered(table) /\ LastIsKey(table, key, late)

\* A tree that is kept is a prefix of the table, or none.
View(s, t) == s \in Tree \cup {None} /\ (s # None => Extends(s, t))

\* The inductive invariant of Witness.
WitnessInv ==
  /\ LogOK
  /\ cache \in [Instances -> Tree \cup {None}] /\ \A i \in Instances : View(cache[i], table)
  /\ View(seen, table) /\ View(peer, table) /\ begun \in 0..MaxChecks
  /\ chk \in [Checks -> Check] /\ \A c \in Checks : Fits(chk[c], table, key, late)

\* A check that is over holds nothing.
LEMMA IdleFits ==
  ASSUME NEW t, NEW keys, NEW lt
  PROVE  Fits(IdleCheck, t, keys, lt)
<1>1. IdleCheck \in Check
  BY KeyLogAssumption DEF IdleCheck, Check, NoKey, Key0
<1>2. /\ IdleCheck.pc = "idle" /\ IdleCheck.ask = "proof" /\ IdleCheck.key = NoKey
      /\ IdleCheck.from = None /\ IdleCheck.tree = None /\ IdleCheck.head = None
  BY DEF IdleCheck
<1>3. Shaped(IdleCheck)
  BY <1>1, <1>2 DEF Shaped
<1>4. Held(IdleCheck, t)
  BY <1>2 DEF Held
<1> QED
  BY <1>2, <1>3, <1>4 DEF Fits, Shown, Current, Fair, Still

\* The log grows: what a check holds stays a prefix, and it is marked as moved.
LEMMA GrownFits ==
  ASSUME NEW k, NEW t, NEW u, NEW keys, NEW more, NEW lt, NEW mt,
         Fits(k, t, keys, lt), Extends(t, u), lt \subseteq mt
  PROVE  Fits([k EXCEPT !.moved = TRUE], u, more, mt)
<1> DEFINE j == [k EXCEPT !.moved = TRUE]
<1>1. k \in Check
  BY DEF Fits, Shaped
<1>2. /\ j \in Check /\ j.moved /\ j.pc = k.pc /\ j.ask = k.ask /\ j.account = k.account
      /\ j.key = k.key /\ j.at = k.at /\ j.from = k.from /\ j.tree = k.tree /\ j.head = k.head
      /\ j.row = k.row
  BY <1>1 DEF Check
<1> HIDE DEF j
<1>3. Shaped(j)
  BY <1>2 DEF Fits, Shaped
<1>4. Held(j, u)
  <2>1. ASSUME NEW s \in {k.from, k.tree, k.head}, s # None PROVE Extends(s, u)
    <3>1. Extends(s, t)
      BY <2>1 DEF Fits, Held
    <3> QED
      BY <3>1, ExtendsOn
  <2> QED
    BY <1>2, <2>1 DEF Held
<1>5. Shown(j, u)
  <2>1. t \subseteq u
    BY DEF Extends
  <2> QED
    BY <1>2, <2>1 DEF Fits, Shown
<1>6. Current(j)
  BY <1>2 DEF Fits, Current
<1>7. Fair(j, mt)
  BY <1>2 DEF Fits, Fair
<1> QED
  BY <1>2, <1>3, <1>4, <1>5, <1>6, <1>7 DEF Fits, j

(***************************************************************************)
(* The server's reads.                                                     *)
(***************************************************************************)
LEMMA ProbeFits ==
  ASSUME NEW k, NEW t, NEW keys, NEW lt, Fits(k, t, keys, lt), Ordered(t), k.pc = "probe"
  PROVE  Fits([k EXCEPT !.pc = "compare", !.probe = Fingerprint(t)], t, keys, lt)
<1> DEFINE f == Fingerprint(t)
           j == [k EXCEPT !.pc = "compare", !.probe = f]
<1>1. k \in Check /\ f \in Nat \X Nat
  BY FingerprintIs DEF Fits, Shaped
<1> HIDE DEF f
<1>2. /\ j \in Check /\ j.pc = "compare" /\ j.probe = f /\ j.moved = k.moved
      /\ j.ask = k.ask /\ j.account = k.account
      /\ j.key = k.key /\ j.at = k.at /\ j.from = k.from /\ j.tree = k.tree /\ j.head = k.head
  BY <1>1 DEF Check
<1> HIDE DEF j
<1>3. Shaped(j)
  BY <1>2 DEF Fits, Shaped
<1>4. Held(j, t) /\ Current(j)
  BY <1>2 DEF Fits, Held, Current
<1>5. ~j.moved => Still(j, t, keys)
  BY <1>2 DEF Fits, Still, f
<1> QED
  BY <1>2, <1>3, <1>4, <1>5 DEF Fits, Shown, Fair, j, f

(* A tree is at hand: the cached one, or the table as it is.               *)
LEMMA TreeFits ==
  ASSUME NEW k, NEW t, NEW keys, NEW lt, Fits(k, t, keys, lt), k.pc \in {"compare", "rebuild"},
         NEW tree \in Tree, tree # None, Extends(tree, t), ~k.moved => tree = t,
         NEW pc \in {"store", "have"}
  PROVE  Fits([k EXCEPT !.pc = pc, !.tree = tree], t, keys, lt)
<1> DEFINE j == [k EXCEPT !.pc = pc, !.tree = tree]
<1>1. k \in Check
  BY DEF Fits, Shaped
<1>2. /\ j \in Check /\ j.pc = pc /\ j.tree = tree /\ j.moved = k.moved
      /\ j.ask = k.ask /\ j.account = k.account
      /\ j.key = k.key /\ j.at = k.at /\ j.from = k.from /\ j.head = k.head
  BY <1>1 DEF Check
<1> HIDE DEF j
<1>3. Shaped(j)
  BY <1>2 DEF Fits, Shaped
<1>4. Held(j, t) /\ Current(j)
  BY <1>2 DEF Fits, Held, Current
<1>5. ~j.moved => Still(j, t, keys)
  BY <1>2 DEF Fits, Still
<1> QED
  BY <1>2, <1>3, <1>4, <1>5 DEF Fits, Shown, Fair, j

(* A change of pc that brings nothing else.                                *)
LEMMA MovesOn ==
  ASSUME NEW k, NEW t, NEW keys, NEW lt, Fits(k, t, keys, lt),
         NEW pc, \/ k.pc = "compare" /\ pc = "rebuild"
                 \/ k.pc = "store" /\ pc = "have"
                 \/ /\ k.pc # "idle" /\ pc = "refused"
                    /\ k.moved \/ k.account \in lt
  PROVE  Fits([k EXCEPT !.pc = pc], t, keys, lt)
<1> DEFINE j == [k EXCEPT !.pc = pc]
<1>1. k \in Check
  BY DEF Fits, Shaped
<1>2. /\ j \in Check /\ j.pc = pc /\ j.tree = k.tree /\ j.moved = k.moved
      /\ j.ask = k.ask /\ j.account = k.account
      /\ j.key = k.key /\ j.at = k.at /\ j.from = k.from /\ j.head = k.head
  BY <1>1 DEF Check
<1> HIDE DEF j
<1>3. Shaped(j)
  BY <1>2 DEF Fits, Shaped
<1>4. Held(j, t) /\ Current(j)
  BY <1>2 DEF Fits, Held, Current
<1>5. ~j.moved => Still(j, t, keys)
  BY <1>2 DEF Fits, Still
<1> QED
  BY <1>2, <1>3, <1>4, <1>5 DEF Fits, Shown, Fair, j

\* log_proof reads the account's latest row after the snapshot, so none of the tree's is later.
LEMMA LatestFits ==
  ASSUME NEW k, NEW t, NEW keys, NEW lt, Fits(k, t, keys, lt), Ordered(t),
         k.pc = "have", k.ask = "proof",
         NEW e \in t, e.account = k.account, \A f \in t : f.account = k.account => f.seq <= e.seq
  PROVE  Fits([k EXCEPT !.pc = "latest", !.row = e], t, keys, lt)
<1> DEFINE j == [k EXCEPT !.pc = "latest", !.row = e]
<1>1. k \in Check /\ e \in Row
  BY RowSeq DEF Fits, Shaped
<1>2. /\ j \in Check /\ j.pc = "latest" /\ j.tree = k.tree /\ j.moved = k.moved /\ j.row = e
      /\ j.ask = k.ask /\ j.account = k.account
      /\ j.key = k.key /\ j.at = k.at /\ j.from = k.from /\ j.head = k.head
  BY <1>1 DEF Check
<1> HIDE DEF j
<1>3. Shaped(j)
  BY <1>2 DEF Fits, Shaped
<1>4. Held(j, t) /\ Current(j)
  BY <1>2 DEF Fits, Held, Current
<1>5. ~j.moved => Still(j, t, keys)
  BY <1>2 DEF Fits, Still
<1>6. Shown(j, t)
  <2>1. k.tree \subseteq t
    BY DEF Fits, Shaped, Held, Extends
  <2> QED
    BY <1>2, <2>1 DEF Shown
<1> QED
  BY <1>2, <1>3, <1>4, <1>5, <1>6 DEF Fits, Fair, j

(***************************************************************************)
(* The client.                                                             *)
(***************************************************************************)
LEMMA ListFits ==
  ASSUME NEW t, NEW keys, NEW lt, NEW a \in Accounts, keys[a] \in Key0, keys[a] # NoKey
  PROVE  Fits([IdleCheck EXCEPT !.pc = "listed", !.account = a, !.key = keys[a]], t, keys, lt)
<1> DEFINE n == keys[a]
           j == [IdleCheck EXCEPT !.pc = "listed", !.account = a, !.key = n]
<1>1. IdleCheck \in Check
  BY IdleFits DEF Fits, Shaped
<1>2. /\ IdleCheck.ask = "proof" /\ IdleCheck.from = None /\ IdleCheck.tree = None
      /\ IdleCheck.head = None
  BY DEF IdleCheck
<1>3. /\ j \in Check /\ j.pc = "listed" /\ j.tree = None /\ j.ask = "proof" /\ j.account = a
      /\ j.key = n /\ j.from = None /\ j.head = None
  BY <1>1, <1>2 DEF Check
<1> HIDE DEF j
<1>4. Shaped(j)
  BY <1>3 DEF Shaped
<1>5. Held(j, t)
  BY <1>3 DEF Held
<1>6. Still(j, t, keys)
  BY <1>3 DEF Still
<1> QED
  BY <1>3, <1>4, <1>5, <1>6 DEF Fits, Shown, Fair, Current, j

\* witness.check takes the anchor as it is at the call.
LEMMA AskFits ==
  ASSUME NEW k, NEW t, NEW keys, NEW lt, Fits(k, t, keys, lt), k.pc = "listed",
         NEW i \in Instances, NEW from, View(from, t)
  PROVE  Fits([k EXCEPT !.pc = "probe", !.at = i, !.from = from], t, keys, lt)
<1> DEFINE j == [k EXCEPT !.pc = "probe", !.at = i, !.from = from]
<1>1. k \in Check
  BY DEF Fits, Shaped
<1>2. /\ j \in Check /\ j.pc = "probe" /\ j.tree = k.tree /\ j.moved = k.moved
      /\ j.ask = k.ask /\ j.account = k.account
      /\ j.key = k.key /\ j.at = i /\ j.from = from /\ j.head = k.head
  BY <1>1 DEF Check, View
<1> HIDE DEF j
<1>3. k.ask = "proof"
  BY DEF Fits, Shaped
<1>4. Shaped(j)
  BY <1>2, <1>3 DEF Fits, Shaped
<1>5. Held(j, t) /\ Current(j)
  BY <1>2, <1>3 DEF Fits, Held, Current, View
<1>6. ~j.moved => Still(j, t, keys)
  BY <1>2 DEF Fits, Still
<1> QED
  BY <1>2, <1>4, <1>5, <1>6 DEF Fits, Shown, Fair, j

\* A peer's head becomes the anchor of a gossip check.
LEMMA AskGossipFits ==
  ASSUME NEW t, NEW keys, NEW lt, NEW i \in Instances, NEW from, View(from, t), from # None
  PROVE  Fits([IdleCheck EXCEPT !.pc = "probe", !.ask = "head", !.at = i, !.from = from],
              t, keys, lt)
<1> DEFINE j == [IdleCheck EXCEPT !.pc = "probe", !.ask = "head", !.at = i, !.from = from]
<1>1. IdleCheck \in Check
  BY IdleFits DEF Fits, Shaped
<1>2. IdleCheck.key = NoKey /\ IdleCheck.tree = None /\ IdleCheck.head = None
  BY DEF IdleCheck
<1>3. /\ j \in Check /\ j.pc = "probe" /\ j.tree = None /\ j.ask = "head"
      /\ j.key = NoKey /\ j.at = i /\ j.from = from /\ j.head = None
  BY <1>1, <1>2 DEF Check, View
<1> HIDE DEF j
<1>4. Shaped(j)
  BY <1>3 DEF Shaped
<1>5. Held(j, t)
  BY <1>3 DEF Held, View
<1>6. Still(j, t, keys)
  BY <1>3 DEF Still
<1> QED
  BY <1>3, <1>4, <1>5, <1>6 DEF Fits, Shown, Fair, Current, j

(* The second request of a check carries the head of the first.            *)
LEMMA ExtendingFits ==
  ASSUME NEW k, NEW t, NEW keys, NEW lt, Fits(k, t, keys, lt),
         k.pc \in {"have", "latest"}, k.from # None, NEW i \in Instances,
         k.key # NoKey => \E e \in k.tree : /\ e.account = k.account /\ e.key = k.key
                              /\ IsLast(e, {f \in k.tree : f.account = e.account})
  PROVE  Fits([k EXCEPT !.pc = "probe", !.ask = "consistency", !.head = k.tree, !.at = i,
                        !.tree = None, !.row = None], t, keys, lt)
<1> DEFINE j == [k EXCEPT !.pc = "probe", !.ask = "consistency", !.head = k.tree, !.at = i,
                          !.tree = None, !.row = None]
<1>1. k \in Check /\ k.tree # None
  BY DEF Fits, Shaped
<1>2. /\ j \in Check /\ j.pc = "probe" /\ j.tree = None /\ j.moved = k.moved
      /\ j.ask = "consistency" /\ j.account = k.account
      /\ j.key = k.key /\ j.at = i /\ j.from = k.from /\ j.head = k.tree
  BY <1>1 DEF Check
<1> HIDE DEF j
<1>3. Shaped(j)
  BY <1>1, <1>2 DEF Shaped
<1>4. Held(j, t)
  BY <1>2 DEF Fits, Held
<1>5. Current(j)
  BY <1>2 DEF Current
<1>6. ~j.moved => Still(j, t, keys)
  BY <1>2 DEF Fits, Still
<1> QED
  BY <1>2, <1>3, <1>4, <1>5, <1>6 DEF Fits, Shown, Fair, j

(* A row counted within a prefix is the row of the prefix at that place.   *)
LEMMA NthInPrefix ==
  ASSUME NEW t, Ordered(t), NEW s, Extends(s, t), NEW row \in t,
         NEW n \in Nat, Cardinality(Below(row, t)) = n, n < SizeOf(s)
  PROVE  row \in s /\ Nth(s, n + 1) = row
<1> DEFINE e == Nth(s, n + 1)
<1>1. Ordered(s) /\ s \subseteq t
  BY PrefixIs DEF Extends
<1>2. n + 1 \in 1..SizeOf(s) /\ (n + 1) - 1 = n
  BY <1>1, LeavesIs
<1>3. e \in s /\ Cardinality(Below(e, s)) = n
  BY <1>1, <1>2, NthIs
<1> HIDE DEF e
<1>4. Cardinality(Below(e, t)) = n /\ e \in t
  BY <1>1, <1>3, PrefixIs
<1>5. e = row
  BY <1>4, RankUnique
<1> QED
  BY <1>3, <1>5 DEF e

(* What verifyAccount has seen when it takes the tree of the snapshot.     *)
LEMMA ProvedShows ==
  ASSUME NEW k, NEW t, NEW keys, NEW lt, Fits(k, t, keys, lt), Ordered(t), k.pc = "latest",
         NEW index, index = Cardinality(Below(k.row, t)), index < SizeOf(k.tree),
         VerifyInclusion(Leaf(k.account, k.key), index, SizeOf(k.tree),
                         InclusionProof(Leaves(k.tree), index), RootOf(k.tree))
  PROVE  \E e \in k.tree : /\ e.account = k.account /\ e.key = k.key
                           /\ IsLast(e, {f \in k.tree : f.account = e.account})
<1>1. /\ k.row \in t /\ k.row.account = k.account
      /\ \A f \in k.tree : f.account = k.account => f.seq <= k.row.seq
  BY DEF Fits, Shown
<1>2. Extends(k.tree, t)
  BY DEF Fits, Shaped, Held
<1>3. index \in Nat
  BY <1>1, BelowIs
<1>4. Ordered(k.tree)
  BY <1>2, PrefixIs
<1>5. k.row \in k.tree /\ Nth(k.tree, index + 1) = k.row
  BY <1>1, <1>2, <1>3, NthInPrefix
<1>6. k.row.account = k.account /\ k.row.key = k.key
  BY <1>3, <1>4, <1>5, IncludedIs
<1>7. IsLast(k.row, {f \in k.tree : f.account = k.row.account})
  BY <1>1, <1>6 DEF IsLast
<1> QED
  BY <1>5, <1>6, <1>7

(* ... and when it refuses: that the log has moved, or that the account    *)
(* was entered again, with a key it had.                                   *)
LEMMA ProvedRefuses ==
  ASSUME NEW k, NEW t, NEW keys, NEW lt, Fits(k, t, keys, lt), Ordered(t), LastIsKey(t, keys, lt),
         k.pc = "latest", NEW index, index = Cardinality(Below(k.row, t)), index < SizeOf(k.tree),
         \/ k.from # None /\ SizeOf(k.tree) < SizeOf(k.from)
         \/ ~VerifyInclusion(Leaf(k.account, k.key), index, SizeOf(k.tree),
                             InclusionProof(Leaves(k.tree), index), RootOf(k.tree))
         \/ k.key # k.row.key
  PROVE  k.moved \/ k.account \in lt
<1> SUFFICES ASSUME ~k.moved, k.account \notin lt PROVE FALSE
  OBVIOUS
<1>1. /\ k.ask = "proof" /\ k.row \in t /\ k.row.account = k.account
      /\ \A f \in k.tree : f.account = k.account => f.seq <= k.row.seq
  BY DEF Fits, Shown
<1>2. k.tree = t /\ k.account \in Accounts /\ k.key # NoKey /\ k.key = keys[k.account]
  BY <1>1 DEF Fits, Shaped, Still
<1>3. IsLast(k.row, {f \in t : f.account = k.account})
  BY <1>1, <1>2 DEF IsLast
<1>4. k.row.key = k.key
  BY <1>1, <1>2, <1>3 DEF LastIsKey
<1>5. k.from # None => ~(SizeOf(k.tree) < SizeOf(k.from))
  <2> SUFFICES ASSUME k.from # None PROVE ~(SizeOf(t) < SizeOf(k.from))
    BY <1>2
  <2>1. Extends(k.from, t)
    BY DEF Fits, Held
  <2>2. SizeOf(k.from) <= SizeOf(t) /\ Ordered(k.from)
    BY <2>1, PrefixIs
  <2>3. SizeOf(k.from) \in Nat /\ SizeOf(t) \in Nat
    BY <2>2, LeavesIs
  <2> QED
    BY <2>2, <2>3
<1>6. index \in Nat
  BY <1>1, BelowIs
<1>7. Nth(t, index + 1) = k.row
  BY <1>1, <1>6, NthAt
<1>8. VerifyInclusion(Leaf(k.account, k.key), index, SizeOf(t), InclusionProof(Leaves(t), index), RootOf(t))
  BY <1>1, <1>2, <1>4, <1>6, <1>7, IncludedIs
<1> QED
  BY <1>2, <1>4, <1>5, <1>8

(* Of a head the server has just given, nothing can be missing.            *)
LEMMA HeadRefuses ==
  ASSUME NEW k, NEW t, NEW keys, NEW lt, Fits(k, t, keys, lt), Ordered(t), k.pc = "have",
         k.ask = "head", SizeOf(k.from) > SizeOf(k.tree)
  PROVE  k.moved
<1> SUFFICES ASSUME ~k.moved PROVE FALSE
  OBVIOUS
<1>1. k.tree = t /\ k.from # None /\ Extends(k.from, t)
  BY DEF Fits, Shaped, Still, Held
<1>2. SizeOf(k.from) <= SizeOf(t) /\ Ordered(k.from)
  BY <1>1, PrefixIs
<1>3. SizeOf(k.from) \in Nat /\ SizeOf(t) \in Nat
  BY <1>2, LeavesIs
<1> QED
  BY <1>1, <1>2, <1>3

\* ... and a head and a proof of one and the same table link every prefix of it.
LEMMA LinkedRefuses ==
  ASSUME NEW k, NEW t, NEW keys, NEW lt, Fits(k, t, keys, lt), Ordered(t), k.pc = "have",
         k.ask = "consistency", InRange(SizeOf(k.from), SizeOf(k.tree)),
         ~VerifyConsistency(SizeOf(k.from), RootOf(k.from), SizeOf(k.head), RootOf(k.head),
                            ConsistencyProof(Leaves(k.tree), SizeOf(k.from)))
  PROVE  k.moved
<1> SUFFICES ASSUME ~k.moved PROVE FALSE
  OBVIOUS
<1>1. k.tree = t /\ k.head = t /\ k.from # None /\ Extends(k.from, t)
  BY DEF Fits, Shaped, Still, Held
<1> QED
  BY <1>1, LinksHonestly

(***************************************************************************)
(* The log grows.                                                          *)
(***************************************************************************)
LEMMA RowPublished ==
  ASSUME NEW t, Ordered(t), NEW keys, NEW lt, LastIsKey(t, keys, lt),
         NEW row \in Row, Extends(t, t \cup {row}), NEW more, NEW mt, lt \subseteq mt,
         \A b \in Accounts : b # row.account => more[b] = keys[b],
         row.account \in mt \/ (row.key = more[row.account]
                                /\ (row \notin t \/ ~\E e \in t : e.account = row.account))
  PROVE  LastIsKey(t \cup {row}, more, mt)
<1> DEFINE u == t \cup {row}
<1> SUFFICES ASSUME NEW a \in Accounts \ mt, NEW e \in u,
                    e.account = a, IsLast(e, {f \in u : f.account = a})
             PROVE  e.key = more[a]
  BY DEF LastIsKey
<1>1. CASE a = row.account
  <2>1. row.key = more[a] /\ (row \notin t \/ ~\E f \in t : f.account = a)
    BY <1>1
  <2>2. e = row
    <3>1. SUFFICES ASSUME e # row PROVE FALSE
      OBVIOUS
    <3>2. e \in t /\ row \notin t
      BY <2>1, <3>1
    <3>3. e.seq < row.seq
      BY <3>2 DEF Extends
    <3>4. row.seq <= e.seq
      BY <1>1 DEF IsLast
    <3>5. e.seq \in Nat /\ row.seq \in Nat
      BY <3>2, RowSeq, KeyLogAssumption DEF Row
    <3> QED
      BY <3>3, <3>4, <3>5
  <2> QED
    BY <2>1, <2>2
<1>2. CASE a # row.account
  <2>1. e \in t
    BY <1>2
  <2>2. {f \in u : f.account = a} = {f \in t : f.account = a}
    BY <1>2
  <2>3. e.key = keys[a]
    BY <2>1, <2>2 DEF LastIsKey
  <2> QED
    BY <1>2, <2>3
<1> QED
  BY <1>1, <1>2

\* An account is created or rotates: its key is the last row's.
LEMMA GrowKeeps ==
  ASSUME LogOK, NEW a \in Accounts, NEW n \in 1..MaxRows, Grow(a, n)
  PROVE  LogOK' /\ Extends(table, table') /\ late \subseteq late'
<1> DEFINE k == IF key[a] = NoKey THEN 1 ELSE 1 + Cardinality({e \in table : e.key > 1}) + 1
<1> HIDE DEF k
<1>1. k \in Keys /\ Publish([seq |-> n, account |-> a, key |-> k, by |-> key[a]]) /\ late' = late
  BY DEF Grow, k
<1> DEFINE row == [seq |-> n, account |-> a, key |-> k, by |-> key[a]]
<1>2. row \in Row /\ row.account = a /\ row.key = k
  BY <1>1 DEF LogOK, Row
<1> HIDE DEF row
<1>3. /\ row \notin table /\ Extends(table, table \cup {row}) /\ table' = table \cup {row}
      /\ key' = [key EXCEPT ![a] = k]
  BY <1>1, <1>2 DEF Publish, row
<1>4. Ordered(table')
  BY <1>2, <1>3, GrownOrdered DEF LogOK
<1>5. key' \in [Accounts -> Key0] /\ key'[a] = k /\ \A b \in Accounts : b # a => key'[b] = key[b]
  <2>1. k \in Key0
    BY <1>1, KeyLogAssumption DEF Keys, Key0
  <2> QED
    BY <1>3, <2>1 DEF LogOK
<1>6. LastIsKey(table', key', late')
  <2> DEFINE more == key'
  <2>1. /\ \A b \in Accounts : b # row.account => more[b] = key[b]
        /\ row.key = more[row.account]
    BY <1>2, <1>5
  <2> HIDE DEF more
  <2>2. LastIsKey(table \cup {row}, more, late)
    BY <1>2, <1>3, <2>1, RowPublished DEF LogOK
  <2> QED
    BY <1>1, <1>3, <2>2 DEF more
<1> QED
  BY <1>1, <1>3, <1>4, <1>5, <1>6 DEF LogOK

\* An account is back-filled: it enters with its key, or is one of the late.
LEMMA EnterKeeps ==
  ASSUME LogOK, NEW a \in Legacy, NEW n \in 1..MaxRows, NEW k \in Keys, Enter(a, n, k)
  PROVE  LogOK' /\ Extends(table, table') /\ late \subseteq late'
<1> DEFINE row == [seq |-> n, account |-> a, key |-> k, by |-> NoKey]
<1>1. a \in Accounts
  BY KeyLogAssumption
<1>2. row \in Row /\ row.account = a /\ row.key = k
  BY <1>1, KeyLogAssumption DEF Row, NoKey, Key0
<1>3. /\ Extends(table, table \cup {row}) /\ table' = table \cup {row} /\ key' = key
      /\ (RowsOf(a) = {} => k = key[a])
  BY <1>2 DEF Enter, CatchUp
<1>4. late' = IF RowsOf(a) = {} THEN late ELSE late \cup {a}
  BY DEF Enter
<1> HIDE DEF row
<1>5. Ordered(table')
  BY <1>2, <1>3, GrownOrdered DEF LogOK
<1>6. late' \in SUBSET Accounts /\ late \subseteq late'
  BY <1>1, <1>4 DEF LogOK
<1>7. LastIsKey(table', key', late')
  <2> DEFINE mt == late'
  <2>1. a \in mt \/ (row.key = key[a] /\ ~\E e \in table : e.account = a)
    BY <1>2, <1>3, <1>4 DEF RowsOf
  <2>2. late \subseteq mt
    BY <1>6
  <2> HIDE DEF mt
  <2>3. LastIsKey(table \cup {row}, key, mt)
    BY <1>2, <1>3, <2>1, <2>2, RowPublished DEF LogOK
  <2> QED
    BY <1>3, <2>3 DEF mt
<1> QED
  BY <1>3, <1>5, <1>6, <1>7 DEF LogOK

\* A view stays one when the table grows.
LEMMA ViewOn ==
  ASSUME NEW s, NEW t, NEW u, View(s, t), Extends(t, u)
  PROVE  View(s, u)
BY ExtendsOn DEF View

\* Growth keeps the invariant.
LEMMA GrowthKeeps ==
  ASSUME WitnessInv, LogOK', Extends(table, table'), late \subseteq late', Noticed,
         UNCHANGED <<cache, seen, peer, begun>>
  PROVE  WitnessInv'
<1>1. /\ \A i \in Instances : View(cache'[i], table')
      /\ View(seen', table') /\ View(peer', table')
  BY ViewOn DEF WitnessInv
<1>2. ASSUME NEW c \in Checks PROVE chk'[c] \in Check /\ Fits(chk'[c], table', key', late')
  <2>1. chk'[c] = [chk[c] EXCEPT !.moved = TRUE]
    BY <1>2 DEF Noticed
  <2>2. Fits(chk[c], table, key, late)
    BY DEF WitnessInv
  <2>3. Fits([chk[c] EXCEPT !.moved = TRUE], table', key', late')
    BY <2>2, GrownFits
  <2> QED
    BY <2>1, <2>3 DEF Fits, Shaped
<1>3. chk' \in [Checks -> Check]
  <2>1. chk' = [c \in Checks |-> [chk[c] EXCEPT !.moved = TRUE]]
    BY DEF Noticed
  <2>2. \A c \in Checks : [chk[c] EXCEPT !.moved = TRUE] \in Check
    BY <1>2, <2>1
  <2> QED
    BY <2>1, <2>2
<1> QED
  BY <1>1, <1>2, <1>3 DEF WitnessInv

(***************************************************************************)
(* A step of one check, the log as it was.                                 *)
(***************************************************************************)
LEMMA CheckKeeps ==
  ASSUME WitnessInv, NEW c \in Checks, NEW j, Fits(j, table, key, late), ToCheck(c, j),
         UNCHANGED log,
         cache' \in [Instances -> Tree \cup {None}], \A i \in Instances : View(cache'[i], table),
         View(seen', table), View(peer', table), begun' \in 0..MaxChecks
  PROVE  WitnessInv'
<1>1. key' = key /\ table' = table /\ late' = late
  BY DEF log
<1>2. LogOK'
  BY <1>1 DEF WitnessInv, LogOK
<1>3. j \in Check
  BY DEF Fits, Shaped
<1>4. chk' \in [Checks -> Check]
  BY <1>3 DEF ToCheck, WitnessInv
<1>5. ASSUME NEW d \in Checks PROVE Fits(chk'[d], table, key, late)
  BY DEF ToCheck, WitnessInv
<1> QED
  BY <1>1, <1>2, <1>4, <1>5 DEF WitnessInv

(* ... that changes nothing but the check, and possibly accepts a head.    *)
LEMMA OnlyCheckKeeps ==
  ASSUME WitnessInv, NEW c \in Checks, NEW j, Fits(j, table, key, late), ToCheck(c, j),
         UNCHANGED <<log, cache, peer, begun>>, View(seen', table)
  PROVE  WitnessInv'
<1>1. /\ cache' \in [Instances -> Tree \cup {None}] /\ \A i \in Instances : View(cache'[i], table)
      /\ View(peer', table) /\ begun' \in 0..MaxChecks
  BY DEF WitnessInv
<1> QED
  BY <1>1, CheckKeeps

\* The statements of a request keep the invariant: a certified cache is the table, as long as nothing moves.
LEMMA ReadsKeep ==
  ASSUME WitnessInv, NEW c \in Checks,
         \/ Probe(c) \/ Compare(c) \/ Rebuild(c) \/ Store(c) \/ Latest(c)
  PROVE  WitnessInv'
<1> DEFINE k == chk[c]
<1>1. /\ Fits(k, table, key, late) /\ Ordered(table) /\ View(seen, table)
      /\ cache \in [Instances -> Tree \cup {None}] /\ \A i \in Instances : View(cache[i], table)
  BY DEF WitnessInv, LogOK
<1> HIDE DEF k
<1>2. CASE Probe(c)
  <2> DEFINE j == [k EXCEPT !.pc = "compare", !.probe = Fingerprint(table)]
  <2>1. ToCheck(c, j) /\ k.pc = "probe" /\ UNCHANGED <<log, cache, seen, peer, begun>>
    BY <1>2 DEF Probe, k
  <2>2. Fits(j, table, key, late)
    BY <1>1, <2>1, ProbeFits
  <2> HIDE DEF j
  <2> QED
    BY <1>1, <2>1, <2>2, OnlyCheckKeeps
<1>3. CASE Compare(c)
  <2>1. k.pc = "compare" /\ UNCHANGED <<log, cache, seen, peer, begun>>
    BY <1>3 DEF Compare, k
  <2>2. CASE Certified(c)
    <3> DEFINE s == cache[k.at]
               j == [k EXCEPT !.pc = "have", !.tree = s]
    <3>1. ToCheck(c, j)
      BY <1>3, <2>2 DEF Compare, k
    <3>2. s # None /\ Fingerprint(s) = k.probe
      BY <2>2 DEF Certified, k
    <3>3. k.at \in Instances
      BY <1>1, <2>1 DEF Fits, Shaped
    <3>4. s \in Tree /\ Extends(s, table)
      BY <1>1, <3>2, <3>3 DEF View
    <3>5. ~k.moved => s = table
      <4>1. ~k.moved => k.probe = Fingerprint(table)
        BY <1>1, <2>1 DEF Fits, Still
      <4> QED
        BY <1>1, <3>2, <3>4, <4>1, FingerprintIs
    <3> HIDE DEF s
    <3>6. Fits(j, table, key, late)
      BY <1>1, <2>1, <3>2, <3>4, <3>5, TreeFits
    <3> HIDE DEF j
    <3> QED
      BY <1>1, <2>1, <3>1, <3>6, OnlyCheckKeeps
  <2>3. CASE ~Certified(c)
    <3> DEFINE j == [k EXCEPT !.pc = "rebuild"]
    <3>1. ToCheck(c, j)
      BY <1>3, <2>3 DEF Compare, k
    <3>2. Fits(j, table, key, late)
      BY <1>1, <2>1, MovesOn
    <3> HIDE DEF j
    <3> QED
      BY <1>1, <2>1, <3>1, <3>2, OnlyCheckKeeps
  <2> QED
    BY <2>2, <2>3
<1>4. CASE Rebuild(c)
  <2> DEFINE j == [k EXCEPT !.pc = "store", !.tree = table]
  <2>1. ToCheck(c, j) /\ k.pc = "rebuild" /\ UNCHANGED <<log, cache, seen, peer, begun>>
    BY <1>4 DEF Rebuild, k
  <2>2. Fits(j, table, key, late)
    <3>1. table \in Tree /\ table # None /\ Extends(table, table)
      BY <1>1, TableIsSome, ExtendsSelf DEF Ordered
    <3> QED
      BY <1>1, <2>1, <3>1, TreeFits
  <2> HIDE DEF j
  <2> QED
    BY <1>1, <2>1, <2>2, OnlyCheckKeeps
<1>5. CASE Store(c)
  <2> DEFINE j == [k EXCEPT !.pc = "have"]
  <2>1. /\ ToCheck(c, j) /\ k.pc = "store" /\ UNCHANGED <<log, seen, peer, begun>>
        /\ cache' = [cache EXCEPT ![k.at] = k.tree]
    BY <1>5 DEF Store, k
  <2>2. Fits(j, table, key, late)
    BY <1>1, <2>1, MovesOn
  <2> HIDE DEF j
  <2>3. View(k.tree, table)
    BY <1>1 DEF Fits, Shaped, Check, Held, View
  <2>4. cache' \in [Instances -> Tree \cup {None}] /\ \A i \in Instances : View(cache'[i], table)
    BY <1>1, <2>1, <2>3 DEF View
  <2>5. View(peer', table) /\ View(seen', table) /\ begun' \in 0..MaxChecks
    BY <2>1 DEF WitnessInv
  <2> QED
    BY <2>1, <2>2, <2>4, <2>5, CheckKeeps
<1>6. CASE Latest(c)
  <2>1. /\ k.pc = "have" /\ k.ask = "proof" /\ UNCHANGED <<log, cache, seen, peer, begun>>
    BY <1>6 DEF Latest, k
  <2>2. CASE \E e \in RowsOf(k.account) :
               /\ IsLatest(e, RowsOf(k.account))
               /\ ToCheck(c, [k EXCEPT !.pc = "latest", !.row = e])
    <3>1. PICK e \in RowsOf(k.account) :
               /\ IsLatest(e, RowsOf(k.account))
               /\ ToCheck(c, [k EXCEPT !.pc = "latest", !.row = e])
      BY <2>2
    <3> DEFINE j == [k EXCEPT !.pc = "latest", !.row = e]
    <3>2. e \in table /\ e.account = k.account /\ \A f \in table : f.account = k.account => f.seq <= e.seq
      BY <3>1 DEF RowsOf, IsLatest, IsLast
    <3>3. Fits(j, table, key, late)
      BY <1>1, <2>1, <3>2, LatestFits
    <3>4. ToCheck(c, j)
      BY <3>1
    <3> HIDE DEF j
    <3> QED
      BY <1>1, <2>1, <3>3, <3>4, OnlyCheckKeeps
  <2>3. CASE ToCheck(c, IdleCheck)
    BY <1>1, <2>1, <2>3, IdleFits, OnlyCheckKeeps
  <2> QED
    BY <1>6, <2>2, <2>3 DEF Latest, k
<1> QED
  BY <1>2, <1>3, <1>4, <1>5, <1>6

\* The beginnings of a check keep it.
LEMMA AsksKeep ==
  ASSUME WitnessInv, NEW c \in Checks,
         \/ \E a \in Accounts : List(c, a)
         \/ \E i \in Instances : Ask(c, i) \/ AskGossip(c, i)
  PROVE  WitnessInv'
<1> DEFINE k == chk[c]
<1>1. /\ Fits(k, table, key, late) /\ View(seen, table) /\ View(peer, table)
      /\ key \in [Accounts -> Key0] /\ begun \in 0..MaxChecks /\ MaxChecks \in Nat
      /\ cache \in [Instances -> Tree \cup {None}] /\ \A i \in Instances : View(cache[i], table)
  BY WitnessAssumption DEF WitnessInv, LogOK
<1> HIDE DEF k
<1>2. ASSUME begun < MaxChecks, begun' = begun + 1 PROVE begun' \in 0..MaxChecks
  BY <1>1, <1>2
<1>3. ASSUME NEW a \in Accounts, List(c, a) PROVE WitnessInv'
  <2> DEFINE j == [IdleCheck EXCEPT !.pc = "listed", !.account = a, !.key = key[a]]
  <2>1. /\ ToCheck(c, j) /\ key[a] # NoKey /\ begun < MaxChecks /\ begun' = begun + 1
        /\ UNCHANGED <<log, cache, seen, peer>>
    BY <1>3 DEF List
  <2>2. Fits(j, table, key, late)
    BY <1>1, <2>1, ListFits
  <2> HIDE DEF j
  <2>3. begun' \in 0..MaxChecks
    BY <1>2, <2>1
  <2> QED
    BY <1>1, <2>1, <2>2, <2>3, CheckKeeps
<1>4. ASSUME NEW i \in Instances, Ask(c, i) PROVE WitnessInv'
  <2> DEFINE j == [k EXCEPT !.pc = "probe", !.at = i, !.from = seen]
  <2>1. ToCheck(c, j) /\ k.pc = "listed" /\ UNCHANGED <<log, cache, seen, peer, begun>>
    BY <1>4 DEF Ask, k
  <2>2. Fits(j, table, key, late)
    BY <1>1, <2>1, AskFits
  <2> HIDE DEF j
  <2> QED
    BY <1>1, <2>1, <2>2, OnlyCheckKeeps
<1>5. ASSUME NEW i \in Instances, AskGossip(c, i) PROVE WitnessInv'
  <2> DEFINE j == [IdleCheck EXCEPT !.pc = "probe", !.ask = "head", !.at = i, !.from = peer]
  <2>1. /\ ToCheck(c, j) /\ peer # None /\ begun < MaxChecks /\ begun' = begun + 1
        /\ UNCHANGED <<log, cache, seen, peer>>
    BY <1>5 DEF AskGossip
  <2>2. Fits(j, table, key, late)
    BY <1>1, <2>1, AskGossipFits
  <2> HIDE DEF j
  <2>3. begun' \in 0..MaxChecks
    BY <1>2, <2>1
  <2> QED
    BY <1>1, <2>1, <2>2, <2>3, CheckKeeps
<1> QED
  BY <1>3, <1>4, <1>5

(* The ends of a request: the check is given up, refuses, accepts, or asks *)
(* the next thing.                                                         *)
LEMMA DeferKeeps ==
  ASSUME WitnessInv, NEW c \in Checks, ToCheck(c, IdleCheck),
         UNCHANGED <<log, cache, peer, begun>>, View(seen', table)
  PROVE  WitnessInv'
BY IdleFits, OnlyCheckKeeps

\* A refusal that rests on something keeps it.
LEMMA RefuseKeeps ==
  ASSUME WitnessInv, NEW c \in Checks, Refuse(c), UNCHANGED <<log, cache, peer, begun>>,
         chk[c].pc # "idle", chk[c].moved \/ chk[c].account \in late
  PROVE  WitnessInv'
<1> DEFINE k == chk[c]
           j == [k EXCEPT !.pc = "refused"]
<1>1. Fits(k, table, key, late) /\ View(seen, table)
  BY DEF WitnessInv
<1>2. ToCheck(c, j) /\ seen' = seen
  BY DEF Refuse
<1> HIDE DEF k
<1>3. k.pc # "idle" /\ (k.moved \/ k.account \in late)
  BY DEF k
<1>4. Fits(j, table, key, late)
  BY <1>1, <1>3, MovesOn
<1> HIDE DEF j
<1> QED
  BY <1>1, <1>2, <1>4, OnlyCheckKeeps

\* The second request, which carries the first one's head, keeps it.
LEMMA ExtendingKeeps ==
  ASSUME WitnessInv, NEW c \in Checks, NEW i \in Instances,
         ToCheck(c, Extending(c, chk[c].tree, i)), UNCHANGED <<log, cache, seen, peer, begun>>,
         chk[c].pc \in {"have", "latest"}, chk[c].from # None,
         chk[c].key # NoKey =>
           \E e \in chk[c].tree : /\ e.account = chk[c].account /\ e.key = chk[c].key
                                  /\ IsLast(e, {f \in chk[c].tree : f.account = e.account})
  PROVE  WitnessInv'
<1> DEFINE k == chk[c]
           j == [k EXCEPT !.pc = "probe", !.ask = "consistency", !.head = k.tree, !.at = i,
                          !.tree = None, !.row = None]
<1>1. Fits(k, table, key, late) /\ View(seen, table)
  BY DEF WitnessInv
<1>2. ToCheck(c, j)
  BY DEF Extending
<1> HIDE DEF k
<1>3. /\ k.pc \in {"have", "latest"} /\ k.from # None
      /\ k.key # NoKey => \E e \in k.tree : /\ e.account = k.account /\ e.key = k.key
                              /\ IsLast(e, {f \in k.tree : f.account = e.account})
  BY DEF k
<1>4. Fits(j, table, key, late)
  BY <1>1, <1>3, ExtendingFits
<1> HIDE DEF j
<1> QED
  BY <1>1, <1>2, <1>4, OnlyCheckKeeps

\* verifyAccount keeps it, whatever it decides.
LEMMA ProvedKeeps ==
  ASSUME WitnessInv, NEW c \in Checks, Proved(c)
  PROVE  WitnessInv'
<1> DEFINE k == chk[c]
           t == k.tree
           index == IndexOf(k.row)
           wrong == \/ k.from # None /\ SizeOf(t) < SizeOf(k.from)
                    \/ ~IncludedIn(c, index)
                    \/ k.key # k.row.key
<1>1. /\ Fits(k, table, key, late) /\ Ordered(table) /\ LastIsKey(table, key, late)
      /\ View(seen, table)
  BY DEF WitnessInv, LogOK
<1>2. k.pc = "latest" /\ UNCHANGED <<log, cache, peer, begun>>
  BY DEF Proved
<1>3. \/ index >= SizeOf(t) /\ Defer(c)
      \/ ~(index >= SizeOf(t)) /\ wrong /\ Refuse(c)
      \/ ~(index >= SizeOf(t)) /\ ~wrong /\ k.from = None /\ Accept(c, t)
      \/ /\ ~(index >= SizeOf(t)) /\ ~wrong /\ k.from # None
         /\ \E i \in Instances : ToCheck(c, Extending(c, t, i)) /\ UNCHANGED seen
  BY DEF Proved
<1>4. index = Cardinality(Below(k.row, table))
  BY DEF IndexOf, Below
<1>5. IncludedIn(c, index) <=>
        VerifyInclusion(Leaf(k.account, k.key), index, SizeOf(t), InclusionProof(Leaves(t), index), RootOf(t))
  BY DEF IncludedIn
<1>6. k.row \in table /\ t # None /\ Extends(t, table) /\ t \in Tree
  BY <1>1, <1>2 DEF Fits, Shaped, Shown, Held, Check
<1>7. index \in Nat /\ SizeOf(t) \in Nat
  <2>1. index \in Nat
    BY <1>1, <1>4, <1>6, BelowIs
  <2>2. Ordered(t)
    BY <1>1, <1>6, PrefixIs
  <2> QED
    BY <2>1, <2>2, LeavesIs
<1> HIDE DEF index
<1>8. CASE index >= SizeOf(t) /\ Defer(c)
  BY <1>1, <1>2, <1>8, DeferKeeps DEF Defer
<1>9. CASE ~(index >= SizeOf(t)) /\ wrong /\ Refuse(c)
  <2>1. index < SizeOf(t)
    BY <1>7, <1>9
  <2>2. \/ k.from # None /\ SizeOf(t) < SizeOf(k.from)
        \/ ~VerifyInclusion(Leaf(k.account, k.key), index, SizeOf(t), InclusionProof(Leaves(t), index), RootOf(t))
        \/ k.key # k.row.key
    BY <1>5, <1>9
  <2> HIDE DEF k
  <2>3. k.moved \/ k.account \in late
    BY <1>1, <1>2, <1>4, <2>1, <2>2, ProvedRefuses
  <2> QED
    BY <1>2, <1>9, <2>3, RefuseKeeps DEF k
<1>10. CASE ~(index >= SizeOf(t)) /\ ~wrong /\ k.from = None /\ Accept(c, t)
  <2>1. ToCheck(c, IdleCheck) /\ seen' = t
    BY <1>10 DEF Accept
  <2>2. View(t, table)
    BY <1>6 DEF View
  <2> QED
    BY <1>2, <2>1, <2>2, DeferKeeps
<1>11. CASE /\ ~(index >= SizeOf(t)) /\ ~wrong /\ k.from # None
            /\ \E i \in Instances : ToCheck(c, Extending(c, t, i)) /\ UNCHANGED seen
  <2>1. index < SizeOf(t) /\ k.from # None
    BY <1>7, <1>11
  <2>2. VerifyInclusion(Leaf(k.account, k.key), index, SizeOf(t), InclusionProof(Leaves(t), index), RootOf(t))
    BY <1>5, <1>11
  <2>3. PICK i \in Instances : ToCheck(c, Extending(c, t, i)) /\ UNCHANGED seen
    BY <1>11
  <2> HIDE DEF k
  <2>4. \E e \in k.tree : /\ e.account = k.account /\ e.key = k.key
                          /\ IsLast(e, {f \in k.tree : f.account = e.account})
    BY <1>1, <1>2, <1>4, <2>1, <2>2, ProvedShows
  <2> QED
    BY <1>2, <2>1, <2>3, <2>4, ExtendingKeeps DEF k
<1> QED
  BY <1>3, <1>8, <1>9, <1>10, <1>11

\* extendsView keeps it.
LEMMA HeadAnsweredKeeps ==
  ASSUME WitnessInv, NEW c \in Checks, HeadAnswered(c)
  PROVE  WitnessInv'
<1> DEFINE k == chk[c]
<1>1. Fits(k, table, key, late) /\ Ordered(table) /\ View(seen, table)
  BY DEF WitnessInv, LogOK
<1>2. k.pc = "have" /\ k.ask = "head" /\ UNCHANGED <<log, cache, peer, begun>>
  BY DEF HeadAnswered
<1>3. \/ SizeOf(k.from) > SizeOf(k.tree) /\ Refuse(c)
      \/ \E i \in Instances : ToCheck(c, Extending(c, k.tree, i)) /\ UNCHANGED seen
  BY DEF HeadAnswered
<1>4. CASE SizeOf(k.from) > SizeOf(k.tree) /\ Refuse(c)
  <2> HIDE DEF k
  <2>1. k.moved
    BY <1>1, <1>2, <1>4, HeadRefuses
  <2> QED
    BY <1>2, <1>4, <2>1, RefuseKeeps DEF k
<1>5. CASE \E i \in Instances : ToCheck(c, Extending(c, k.tree, i)) /\ UNCHANGED seen
  <2>1. k.key = NoKey /\ k.from # None
    BY <1>1, <1>2 DEF Fits, Shaped
  <2>2. PICK i \in Instances : ToCheck(c, Extending(c, k.tree, i)) /\ UNCHANGED seen
    BY <1>5
  <2> QED
    BY <1>2, <2>1, <2>2, ExtendingKeeps
<1> QED
  BY <1>3, <1>4, <1>5

\* verifyExtends keeps it.
LEMMA LinkedKeeps ==
  ASSUME WitnessInv, NEW c \in Checks, Linked(c)
  PROVE  WitnessInv'
<1> DEFINE k == chk[c]
<1>1. Fits(k, table, key, late) /\ Ordered(table) /\ View(seen, table)
  BY DEF WitnessInv, LogOK
<1>2. k.pc = "have" /\ k.ask = "consistency" /\ UNCHANGED <<log, cache, peer, begun>>
  BY DEF Linked
<1>3. \/ Defer(c)
      \/ InRange(SizeOf(k.from), SizeOf(k.tree)) /\ ~Links(c) /\ Refuse(c)
      \/ Accept(c, k.head)
  BY DEF Linked
<1>4. CASE Defer(c)
  BY <1>1, <1>2, <1>4, DeferKeeps DEF Defer
<1>5. CASE InRange(SizeOf(k.from), SizeOf(k.tree)) /\ ~Links(c) /\ Refuse(c)
  <2>1. ~VerifyConsistency(SizeOf(k.from), RootOf(k.from), SizeOf(k.head), RootOf(k.head),
                           ConsistencyProof(Leaves(k.tree), SizeOf(k.from)))
    BY <1>5 DEF Links
  <2> HIDE DEF k
  <2>2. k.moved
    BY <1>1, <1>2, <1>5, <2>1, LinkedRefuses
  <2> QED
    BY <1>2, <1>5, <2>2, RefuseKeeps DEF k
<1>6. CASE Accept(c, k.head)
  <2>1. ToCheck(c, IdleCheck) /\ seen' = k.head
    BY <1>6 DEF Accept
  <2>2. View(k.head, table)
    BY <1>1 DEF Fits, Shaped, Check, Held, View
  <2> QED
    BY <1>2, <2>1, <2>2, DeferKeeps
<1> QED
  BY <1>3, <1>4, <1>5, <1>6

\* A correspondent that accepts a head keeps it.
LEMMA PeerKeeps ==
  ASSUME WitnessInv, PeerSees
  PROVE  WitnessInv'
<1>1. View(table, table)
  BY ExtendsSelf DEF WitnessInv, LogOK, Ordered, View
<1>2. key' = key /\ table' = table /\ late' = late
  BY DEF PeerSees, log
<1>3. peer' = table /\ cache' = cache /\ chk' = chk /\ seen' = seen /\ begun' = begun
  BY DEF PeerSees
<1> QED
  BY <1>1, <1>2, <1>3 DEF WitnessInv, LogOK

\* The inductive invariant of Witness holds for every number of accounts, instances, checks and rows.
THEOREM WitnessInvariant == Spec => []WitnessInv
<1>1. Init => WitnessInv
  <2> SUFFICES ASSUME Init PROVE WitnessInv
    OBVIOUS
  <2>1. table = {} /\ late = {} /\ key = [a \in Accounts |-> IF a \in Legacy THEN 1 ELSE NoKey]
    BY DEF Init, LogInit
  <2>2. Ordered(table)
    BY <2>1, FS_EmptySet DEF Ordered, Tree
  <2>3. LogOK
    BY <2>1, <2>2, KeyLogAssumption DEF LogOK, LastIsKey, NoKey, Key0
  <2>4. IdleCheck \in Check /\ Fits(IdleCheck, table, key, late)
    BY IdleFits DEF Fits, Shaped
  <2>5. View(None, table)
    BY DEF View
  <2> QED
    BY <2>3, <2>4, <2>5, WitnessAssumption DEF Init, WitnessInv
<1>2. WitnessInv /\ [Next]_vars => WitnessInv'
  <2> SUFFICES ASSUME WitnessInv, [Next]_vars PROVE WitnessInv'
    OBVIOUS
  <2>1. ASSUME NEW a \in Accounts, NEW n \in 1..MaxRows, Grow(a, n) PROVE WitnessInv'
    <3>1. Noticed /\ UNCHANGED <<cache, seen, peer, begun>>
      BY <2>1 DEF Grow
    <3> QED
      BY <2>1, <3>1, GrowKeeps, GrowthKeeps DEF WitnessInv
  <2>2. ASSUME NEW a \in Legacy, NEW n \in 1..MaxRows, NEW k \in Keys, Enter(a, n, k) PROVE WitnessInv'
    <3>1. Noticed /\ UNCHANGED <<cache, seen, peer, begun>>
      BY <2>2 DEF Enter
    <3>2. LogOK
      BY DEF WitnessInv
    <3>3. LogOK' /\ Extends(table, table') /\ late \subseteq late'
      BY <2>2, <3>2, EnterKeeps
    <3> QED
      BY <3>1, <3>3, GrowthKeeps
  <2>3. ASSUME NEW c \in Checks, Read(c) PROVE WitnessInv'
    <3>1. CASE Probe(c) \/ Compare(c) \/ Rebuild(c) \/ Store(c) \/ Latest(c)
      BY <3>1, ReadsKeep
    <3>2. CASE \/ \E a \in Accounts : List(c, a)
               \/ \E i \in Instances : Ask(c, i) \/ AskGossip(c, i)
      BY <3>2, AsksKeep
    <3>3. CASE Lose(c)
      <4>1. View(seen', table)
        BY <3>3 DEF Lose, Defer, WitnessInv
      <4> QED
        BY <3>3, <4>1, DeferKeeps DEF Lose, Defer
    <3> QED
      BY <2>3, <3>1, <3>2, <3>3, ProvedKeeps, HeadAnsweredKeeps, LinkedKeeps DEF Read
  <2>4. CASE UNCHANGED vars
    BY <2>4 DEF vars, WitnessInv, LogOK
  <2> QED
    BY <2>1, <2>2, <2>3, <2>4, PeerKeeps DEF Next
<1> QED
  BY <1>1, <1>2, PTL DEF Spec

\* Types, and a proof of consistency is asked for with both views in hand (verifyExtends).
THEOREM WitnessTypes == Spec => []TypeOK
<1>1. WitnessInv => TypeOK
  BY DEF WitnessInv, LogOK, Ordered, View, Fits, Shaped, TypeOK
<1> QED
  BY <1>1, WitnessInvariant, PTL

\* The log is append-only as anybody sees it: every tree cached, served, accepted or gossiped is a prefix
\* of the table (log.rs, snapshot).
THEOREM AppendOnly == Spec => []TreesArePrefixes
<1>1. WitnessInv => TreesArePrefixes
  <2> SUFFICES ASSUME WitnessInv, NEW t \in TreesHeld PROVE Extends(t, table)
    BY DEF TreesArePrefixes
  <2>1. t # None
    BY DEF TreesHeld
  <2>2. CASE \E i \in Instances : t = cache[i]
    BY <2>1, <2>2 DEF WitnessInv, View
  <2>3. CASE t \in {seen, peer}
    BY <2>1, <2>3 DEF WitnessInv, View
  <2>4. CASE \E c \in Checks : t \in {chk[c].from, chk[c].tree, chk[c].head}
    BY <2>1, <2>4 DEF WitnessInv, Fits, Held
  <2> QED
    BY <2>2, <2>3, <2>4 DEF TreesHeld
<1> QED
  BY <1>1, WitnessInvariant, PTL

\* An honest server is accused only by a check during which the log grew, or of an account that was
\* back-filled late: no cache, instance, concurrent check or proof makes one fail by itself
\* (verifyAccount, extendsView, verifyExtends).
THEOREM NoFalseAlarm == Spec => []AlarmsNeedAGrowth
<1>1. WitnessInv => AlarmsNeedAGrowth
  BY DEF WitnessInv, Fits, Fair, AlarmsNeedAGrowth
<1> QED
  BY <1>1, WitnessInvariant, PTL

\* The head a check of an account is about to accept shows the key it was served as the last one the
\* account has there (verifyAccount).
THEOREM AcceptsCurrent == Spec => []AcceptedIsCurrent
<1>1. WitnessInv => AcceptedIsCurrent
  BY DEF WitnessInv, Fits, Current, AcceptedIsCurrent
<1> QED
  BY <1>1, WitnessInvariant, PTL

\* The strongest form of it for the client: if verify_consistency accepts any proof between two trees,
\* the first is the beginning of the second, leaf by leaf.
THEOREM NoForkConvinces ==
  ASSUME NEW S, NEW one \in Seq(S), NEW two \in Seq(S), NEW T, NEW proof \in Seq(T),
         VerifyConsistency(Len(one), Root(one), Len(two), Root(two), proof)
  PROVE  one = SubSeq(two, 1, Len(one))
<1> DEFINE m == Len(one)
<1>1. m \in Nat /\ Len(two) \in Nat
  BY LenProperties
<1>2. 0 < m /\ m <= Len(two)
  BY DEF VerifyConsistency, InRange
<1>3. Root(one) = RootIn(one, <<0, m>>)
  BY DEF Root
<1> HIDE DEF m
<1>4. m \in 1..Len(two) /\ VerifyConsistency(m, Root(one), Len(two), Root(two), proof)
  BY <1>1, <1>2 DEF m
<1>5. Root(one) = RootIn(two, <<0, m>>)
  BY <1>1, <1>4, ConsistencySound
<1>6. RootIn(one, <<0, m>>) = RootIn(two, <<0, m>>)
  BY <1>3, <1>5
<1>7. m \in 0..Len(one)
  BY <1>1 DEF m
<1>8. SubSeq(one, 1, m) = SubSeq(two, 1, m)
  BY <1>2, <1>6, <1>7, RootsApart
<1>9. SubSeq(one, 1, m) = one
  BY SubSeqFull DEF m
<1> QED
  BY <1>8, <1>9 DEF m

\* The log that the witness watches is a KeyLog, the one Accounts implements; a row entered twice is a stutter.
THEOREM WatchesKeyLog == Spec => LogSpec
<1>1. Init => LogInit
  BY DEF Init
<1>2. [Next]_vars => [LogNext]_<<key, table>>
  <2> SUFFICES ASSUME [Next]_vars PROVE [LogNext]_<<key, table>>
    OBVIOUS
  <2>1. ASSUME NEW a \in Accounts, NEW n \in 1..MaxRows, Grow(a, n) PROVE LogNext
    <3>1. PICK row : Publish(row)
      BY <2>1 DEF Grow
    <3>2. row \in table' \ table
      BY <3>1 DEF Publish
    <3> QED
      BY <3>1, <3>2 DEF LogNext
  <2>2. ASSUME NEW a \in Legacy, NEW n \in 1..MaxRows, NEW k \in Keys, Enter(a, n, k) PROVE LogNext
    <3> DEFINE row == [seq |-> n, account |-> a, key |-> k, by |-> NoKey]
               rows == {row}
               new == table' \ table
    <3>1. CatchUp(rows)
      BY <2>2 DEF Enter
    <3> HIDE DEF rows
    <3>2. /\ Extends(table, table \cup rows) /\ table' = table \cup rows /\ key' = key
          /\ \A e \in rows : e.by = NoKey /\ (RowsOf(e.account) = {} => e.key = key[e.account])
      BY <3>1 DEF CatchUp
    <3>3. new \subseteq rows /\ table \cup new = table \cup rows
      BY <3>2
    <3>4. CatchUp(new)
      <4> HIDE DEF new
      <4> QED
        BY <3>2, <3>3 DEF CatchUp
    <3> QED
      BY <3>4 DEF LogNext
  <2>3. ASSUME NEW c \in Checks, Read(c) PROVE UNCHANGED <<key, table>>
    BY <2>3 DEF Read, Probe, Compare, Rebuild, Store, Latest, List, Ask, AskGossip, Proved,
                HeadAnswered, Linked, Lose, log
  <2>4. CASE PeerSees
    BY <2>4 DEF PeerSees, log
  <2>5. CASE UNCHANGED vars
    BY <2>5 DEF vars
  <2> QED
    BY <2>1, <2>2, <2>3, <2>4, <2>5 DEF Next
<1> QED
  BY <1>1, <1>2, PTL DEF Spec, LogSpec
=============================================================================
