--------------------------- MODULE MatchingProofs ---------------------------
(***************************************************************************)
(* Facts that the proofs of the protocols of all metrics share: about the  *)
(* loops of Loops, the decomposition of intervals of PrefixDec, and the    *)
(* hash tables and the sockets of Matching.                                *)
(***************************************************************************)
EXTENDS Matching, PrefixDec, FiniteSetTheorems, WellFoundedInduction, TLAPS

-----------------------------------------------------------------------------
(* Induction, and functions defined by recursion. *)

\* A set of numbers that is not empty has a least element.
LEMMA LeastOf ==
  ASSUME NEW T, T \subseteq Nat, T # {}
  PROVE  \E x \in T : \A y \in T : x <= y
  <1> DEFINE R == OpToRel(<, Nat)
  <1>1. \A a, b \in Nat : a < b => <<a, b>> \in R
    BY DEF OpToRel
  <1>2. IsWellFoundedOn(R, Nat)
    BY NatLessThanWellFounded
  <1> HIDE DEF R
  <1>3. PICK x \in T : \A y \in T : ~(<<y, x>> \in R)
    BY <1>2, WFMin
  <1>4. \A y \in T : x \in Nat /\ y \in Nat /\ ~(y < x)
    BY <1>1, <1>3
  <1>5. \A y \in T : x <= y
    BY <1>4
  <1> QED BY <1>5

\* Induction, for a property that is membership of a set.
LEMMA SetInduction ==
  ASSUME NEW S, 0 \in S, \A n \in Nat : n \in S => n + 1 \in S
  PROVE  \A n \in Nat : n \in S
  <1> DEFINE T == Nat \ S
  <1>1. SUFFICES ASSUME T # {} PROVE FALSE
    OBVIOUS
  <1>2. PICK x \in T : \A y \in T : x <= y
    BY <1>1, LeastOf
  <1>3. x \in Nat /\ x # 0
    BY <1>2
  <1>4. x - 1 \in Nat /\ ~(x <= x - 1)
    BY <1>3
  <1>5. x - 1 \in S
    BY <1>2, <1>4
  <1>6. (x - 1) + 1 = x
    BY <1>3
  <1>7. x \in S
    BY <1>4, <1>5, <1>6
  <1> QED BY <1>2, <1>7

\* A recursion over the numbers up to n has a solution.
Solves(h, a, g, n) == h[0] = a /\ \A k \in 1 .. n : h[k] = g[<<k, h[k - 1]>>]

LEMMA RecursionTo ==
  ASSUME NEW V, NEW a \in V, NEW g \in [(Nat \X V) -> V], NEW n \in Nat
  PROVE  \E h \in [0 .. n -> V] : Solves(h, a, g, n)
  <1> DEFINE S == {m \in Nat : \E h \in [0 .. m -> V] : Solves(h, a, g, m)}
  <1>1. 0 \in S
    <2>1. [i \in 0 .. 0 |-> a] \in [0 .. 0 -> V]
      OBVIOUS
    <2>2. Solves([i \in 0 .. 0 |-> a], a, g, 0)
      BY DEF Solves
    <2> QED BY <2>1, <2>2
  <1>2. \A m \in Nat : m \in S => m + 1 \in S
    <2> SUFFICES ASSUME NEW m \in Nat, NEW h \in [0 .. m -> V], Solves(h, a, g, m)
                 PROVE  \E hh \in [0 .. m + 1 -> V] : Solves(hh, a, g, m + 1)
      OBVIOUS
    <2> DEFINE v == g[<<m + 1, h[m]>>]
               hh == [i \in 0 .. m + 1 |-> IF i = m + 1 THEN v ELSE h[i]]
    <2>1. h[m] \in V /\ <<m + 1, h[m]>> \in Nat \X V
      OBVIOUS
    <2>2. v \in V
      BY <2>1
    <2> HIDE DEF v
    <2>3. hh \in [0 .. m + 1 -> V]
      BY <2>2
    <2>4. hh[0] = a
      BY DEF Solves
    <2>5. ASSUME NEW k \in 1 .. m + 1 PROVE hh[k] = g[<<k, hh[k - 1]>>]
      <3>1. hh[k - 1] = h[k - 1]
        OBVIOUS
      <3>2. CASE k = m + 1
        <4>1. hh[k] = v /\ k - 1 = m
          BY <3>2
        <4> QED BY <4>1, <3>1, <3>2 DEF v
      <3>3. CASE k # m + 1
        <4>1. k \in 1 .. m /\ hh[k] = h[k]
          BY <3>3
        <4> QED BY <4>1, <3>1 DEF Solves
      <3> QED BY <3>2, <3>3
    <2> QED BY <2>3, <2>4, <2>5 DEF Solves
  <1> HIDE DEF S
  <1>3. n \in S
    BY <1>1, <1>2, SetInduction
  <1> QED BY <1>3 DEF S

\* Two solutions agree as far as both go.
LEMMA RecursionUnique ==
  ASSUME NEW a, NEW g, NEW n \in Nat, NEW h1, NEW h2, NEW n1 \in Nat, NEW n2 \in Nat,
         Solves(h1, a, g, n1), Solves(h2, a, g, n2), n <= n1, n <= n2
  PROVE  h1[n] = h2[n]
  <1> DEFINE S == {m \in Nat : m <= n => h1[m] = h2[m]}
  <1>1. 0 \in S
    BY DEF Solves
  <1>2. \A m \in Nat : m \in S => m + 1 \in S
    <2> SUFFICES ASSUME NEW m \in Nat, m <= n => h1[m] = h2[m], m + 1 <= n
                 PROVE  h1[m + 1] = h2[m + 1]
      OBVIOUS
    <2>1. m + 1 \in 1 .. n1 /\ m + 1 \in 1 .. n2 /\ (m + 1) - 1 = m /\ m <= n
      OBVIOUS
    <2>2. h1[m + 1] = g[<<m + 1, h1[m]>>] /\ h2[m + 1] = g[<<m + 1, h2[m]>>]
      BY <2>1 DEF Solves
    <2> QED BY <2>1, <2>2
  <1> HIDE DEF S
  <1>3. n \in S
    BY <1>1, <1>2, SetInduction
  <1> QED BY <1>3 DEF S

\* A recursion over all numbers has a solution.
SolvesAll(h, a, g) == h[0] = a /\ \A k \in Nat \ {0} : h[k] = g[<<k, h[k - 1]>>]

LEMMA RecursionAll ==
  ASSUME NEW V, NEW a \in V, NEW g \in [(Nat \X V) -> V]
  PROVE  \E h \in [Nat -> V] : SolvesAll(h, a, g)
  <1> DEFINE H(n) == CHOOSE h \in [0 .. n -> V] : Solves(h, a, g, n)
             hh == [n \in Nat |-> H(n)[n]]
  <1>1. \A n \in Nat : H(n) \in [0 .. n -> V] /\ Solves(H(n), a, g, n)
    BY RecursionTo
  <1> HIDE DEF H
  <1>2. hh \in [Nat -> V]
    BY <1>1
  <1>3. hh[0] = a
    BY <1>1 DEF Solves
  <1>4. ASSUME NEW k \in Nat \ {0} PROVE hh[k] = g[<<k, hh[k - 1]>>]
    <2>1. k \in 1 .. k /\ k - 1 \in Nat /\ k - 1 <= k
      OBVIOUS
    <2>2. H(k)[k] = g[<<k, H(k)[k - 1]>>]
      BY <1>1, <2>1 DEF Solves
    <2>3. H(k)[k - 1] = H(k - 1)[k - 1]
      <3>1. k \in Nat /\ k - 1 \in Nat /\ k - 1 <= k - 1
        OBVIOUS
      <3> QED BY <1>1, <2>1, <3>1, RecursionUnique
    <2> QED BY <2>1, <2>2, <2>3
  <1> QED BY <1>2, <1>3, <1>4 DEF SolvesAll

\* The defining equations of Pow.
LEMMA PowFacts ==
  ASSUME NEW b \in Int
  PROVE  /\ Pow(b, 0) = 1
         /\ \A n \in Nat : Pow(b, n) \in Int /\ Pow(b, n + 1) = b * Pow(b, n)
  <1> DEFINE Step == [x \in Nat \X Int |-> b * x[2]]
             Eq(p) == p = [k \in Nat |-> IF k = 0 THEN 1 ELSE b * p[k - 1]]
             pp == CHOOSE p : Eq(p)
  <1>1. Step \in [(Nat \X Int) -> Int]
    OBVIOUS
  <1>2. PICK h \in [Nat -> Int] : SolvesAll(h, 1, Step)
    <2> DEFINE W == Int
    <2>1. 1 \in W /\ Step \in [(Nat \X W) -> W]
      BY <1>1
    <2> HIDE DEF Step, W
    <2>2. \E h \in [Nat -> W] : SolvesAll(h, 1, Step)
      BY <2>1, RecursionAll
    <2> QED BY <2>2 DEF W
  <1>s. h[0] = 1 /\ \A k \in Nat \ {0} : h[k] = Step[<<k, h[k - 1]>>]
    BY <1>2 DEF SolvesAll
  <1>3. \A k \in Nat \ {0} : h[k] = b * h[k - 1]
    <2> SUFFICES ASSUME NEW k \in Nat \ {0} PROVE h[k] = b * h[k - 1]
      OBVIOUS
    <2>1. h[k - 1] \in Int /\ <<k, h[k - 1]>> \in Nat \X Int
      OBVIOUS
    <2> QED BY <1>s, <2>1
  <1>4. Eq(h)
    <2>1. \A k \in Nat : h[k] = IF k = 0 THEN 1 ELSE b * h[k - 1]
      BY <1>s, <1>3
    <2> QED BY <2>1
  <1>5. Eq(pp)
    <2> HIDE DEF Eq
    <2> QED BY <1>4
  <1>6. \A n : Pow(b, n) = pp[n]
    BY DEF Pow
  <1> HIDE DEF pp
  <1>7. pp[0] = 1 /\ \A n \in Nat : pp[n + 1] = b * pp[n]
    <2>1. \A n \in Nat : pp[n] = IF n = 0 THEN 1 ELSE b * pp[n - 1]
      BY <1>5
    <2>2. \A n \in Nat : n + 1 \in Nat /\ n + 1 # 0 /\ (n + 1) - 1 = n
      OBVIOUS
    <2> QED BY <2>1, <2>2
  <1>8. \A n \in Nat : pp[n] \in Int
    <2> DEFINE S == {n \in Nat : pp[n] \in Int}
    <2>1. 0 \in S /\ \A n \in Nat : n \in S => n + 1 \in S
      BY <1>7
    <2> HIDE DEF S
    <2>2. \A n \in Nat : n \in S
      BY <2>1, SetInduction
    <2> QED BY <2>2 DEF S
  <1> QED BY <1>6, <1>7, <1>8

\* The sums of a loop, one summand at a time.
LEMMA SumFacts ==
  ASSUME NEW i \in Nat, NEW n \in Nat, NEW f, \A k \in i .. n - 1 : f[k] \in Int
  PROVE  /\ i <= n => SumLoop(f, i, i) = 0
         /\ \A m \in 0 .. n : SumLoop(f, i, m) \in Int
         /\ \A m \in i .. n - 1 : SumLoop(f, i, m + 1) = SumLoop(f, i, m) + f[m]
  <1> DEFINE Step == [x \in Nat \X Int |-> IF x[1] \in i + 1 .. n THEN x[2] + f[x[1] - 1] ELSE 0]
             Eq(s, m) == s = [k \in 0 .. m |-> IF k <= i THEN 0 ELSE s[k - 1] + f[k - 1]]
             ss(m) == CHOOSE s : Eq(s, m)
  <1>1. Step \in [(Nat \X Int) -> Int]
    <2>1. \A k \in i + 1 .. n : k - 1 \in i .. n - 1
      OBVIOUS
    <2> QED BY <2>1
  <1>2. PICK h \in [Nat -> Int] : SolvesAll(h, 0, Step)
    <2> DEFINE W == Int
    <2>1. 0 \in W /\ Step \in [(Nat \X W) -> W]
      BY <1>1
    <2> HIDE DEF Step, W
    <2>2. \E h \in [Nat -> W] : SolvesAll(h, 0, Step)
      BY <2>1, RecursionAll
    <2> QED BY <2>2 DEF W
  <1>s. h[0] = 0 /\ \A k \in Nat \ {0} : h[k] = Step[<<k, h[k - 1]>>]
    BY <1>2 DEF SolvesAll
  <1>3. \A k \in 0 .. n : h[k] = IF k <= i THEN 0 ELSE h[k - 1] + f[k - 1]
    <2> SUFFICES ASSUME NEW k \in 0 .. n, k # 0
                 PROVE  h[k] = IF k <= i THEN 0 ELSE h[k - 1] + f[k - 1]
      BY <1>s
    <2>1. h[k - 1] \in Int /\ <<k, h[k - 1]>> \in Nat \X Int /\ k \in Nat \ {0}
      OBVIOUS
    <2>2. h[k] = IF k \in i + 1 .. n THEN h[k - 1] + f[k - 1] ELSE 0
      BY <1>s, <2>1
    <2>3. k \in i + 1 .. n <=> ~(k <= i)
      OBVIOUS
    <2> QED BY <2>2, <2>3
  <1>4. ASSUME NEW m \in 0 .. n PROVE SumLoop(f, i, m) = h[m]
    <2> DEFINE r == [k \in 0 .. m |-> h[k]]
    <2>1. Eq(r, m)
      <3>1. \A k \in 0 .. m : r[k] = IF k <= i THEN 0 ELSE r[k - 1] + f[k - 1]
        <4> SUFFICES ASSUME NEW k \in 0 .. m
                     PROVE  r[k] = IF k <= i THEN 0 ELSE r[k - 1] + f[k - 1]
          OBVIOUS
        <4>1. k \in 0 .. n /\ r[k] = h[k] /\ (~(k <= i) => r[k - 1] = h[k - 1])
          OBVIOUS
        <4> QED BY <1>3, <4>1
      <3> QED BY <3>1
    <2>2. Eq(ss(m), m)
      <3> HIDE DEF Eq
      <3> QED BY <2>1
    <2> HIDE DEF ss
    <2>3. \A k \in 0 .. m : ss(m)[k] = IF k <= i THEN 0 ELSE ss(m)[k - 1] + f[k - 1]
      BY <2>2
    <2> DEFINE S == {k \in Nat : k <= m => ss(m)[k] = h[k]}
    <2>4. 0 \in S
      BY <1>3, <2>3
    <2>5. ASSUME NEW k \in Nat, k \in S PROVE k + 1 \in S
      <3>1. SUFFICES ASSUME k + 1 <= m PROVE ss(m)[k + 1] = h[k + 1]
        OBVIOUS
      <3>2. k + 1 \in 0 .. m /\ k + 1 \in 0 .. n /\ (k + 1) - 1 = k /\ k <= m
        BY <3>1
      <3>3. ss(m)[k] = h[k]
        BY <2>5, <3>2
      <3>4. ss(m)[k + 1] = IF k + 1 <= i THEN 0 ELSE ss(m)[k] + f[k]
        BY <2>3, <3>2
      <3>5. h[k + 1] = IF k + 1 <= i THEN 0 ELSE h[k] + f[k]
        BY <1>3, <3>2
      <3> QED BY <3>3, <3>4, <3>5
    <2> HIDE DEF S
    <2>6. m \in S
      BY <2>4, <2>5, SetInduction
    <2>7. ss(m)[m] = h[m]
      BY <2>6 DEF S
    <2>8. SumLoop(f, i, m) = ss(m)[m]
      BY DEF SumLoop, ss
    <2> QED BY <2>7, <2>8
  <1>5. i <= n => SumLoop(f, i, i) = 0
    BY <1>3, <1>4
  <1>6. \A m \in 0 .. n : SumLoop(f, i, m) \in Int
    BY <1>4
  <1>7. ASSUME NEW m \in i .. n - 1 PROVE SumLoop(f, i, m + 1) = SumLoop(f, i, m) + f[m]
    <2>1. m \in 0 .. n /\ m + 1 \in 0 .. n /\ ~(m + 1 <= i) /\ (m + 1) - 1 = m
      OBVIOUS
    <2> QED BY <1>3, <1>4, <2>1
  <1> QED BY <1>5, <1>6, <1>7

-----------------------------------------------------------------------------
(* Powers of two and division. *)

LEMMA TwoToThe ==
  /\ Pow(2, 0) = 1
  /\ \A n \in Nat : Pow(2, n) \in Nat /\ Pow(2, n) > 0 /\ Pow(2, n + 1) = 2 * Pow(2, n)
  <1>1. /\ Pow(2, 0) = 1
        /\ \A n \in Nat : Pow(2, n) \in Int /\ Pow(2, n + 1) = 2 * Pow(2, n)
    BY PowFacts
  <1> DEFINE S == {n \in Nat : Pow(2, n) > 0}
  <1>2. 0 \in S
    BY <1>1
  <1>3. \A n \in Nat : n \in S => n + 1 \in S
    BY <1>1
  <1> HIDE DEF S
  <1>4. \A n \in Nat : n \in S
    BY <1>2, <1>3, SetInduction
  <1>5. \A n \in Nat : Pow(2, n) > 0
    BY <1>4 DEF S
  <1>6. \A n \in Nat : Pow(2, n) \in Nat
    BY <1>1, <1>5
  <1> QED BY <1>1, <1>5, <1>6

\* 2^n is a multiple of every smaller power.
LEMMA PowerSplits ==
  ASSUME NEW m \in Nat
  PROVE  \A k \in Nat : Pow(2, m + k) = Pow(2, m) * Pow(2, k)
  <1> DEFINE S == {k \in Nat : Pow(2, m + k) = Pow(2, m) * Pow(2, k)}
  <1>1. 0 \in S
    <2>1. Pow(2, m) \in Nat /\ m + 0 = m
      BY TwoToThe
    <2> QED BY <2>1, TwoToThe
  <1>2. ASSUME NEW k \in Nat, k \in S PROVE k + 1 \in S
    <2>1. m + (k + 1) = (m + k) + 1 /\ m + k \in Nat
      OBVIOUS
    <2>2. Pow(2, m + (k + 1)) = 2 * Pow(2, m + k)
      BY <2>1, TwoToThe
    <2>3. Pow(2, k + 1) = 2 * Pow(2, k) /\ Pow(2, k) \in Nat /\ Pow(2, m) \in Nat
      BY TwoToThe
    <2>4. Pow(2, m + k) = Pow(2, m) * Pow(2, k)
      BY <1>2
    <2>5. \A a, b \in Nat : 2 * (a * b) = a * (2 * b)
      OBVIOUS
    <2> QED BY <2>2, <2>3, <2>4, <2>5
  <1> HIDE DEF S
  <1>3. \A k \in Nat : k \in S
    BY <1>1, <1>2, SetInduction
  <1> QED BY <1>3 DEF S

\* Every number is below its power of two.
LEMMA BelowPower ==
  \A n \in Nat : n < Pow(2, n)
  <1> DEFINE S == {n \in Nat : n < Pow(2, n)}
  <1>1. 0 \in S
    BY TwoToThe
  <1>2. ASSUME NEW n \in Nat, n \in S PROVE n + 1 \in S
    <2>1. n < Pow(2, n) /\ Pow(2, n) \in Nat /\ Pow(2, n + 1) = 2 * Pow(2, n)
      BY <1>2, TwoToThe
    <2>2. n + 1 < Pow(2, n + 1)
      BY <2>1
    <2> QED BY <2>2
  <1> HIDE DEF S
  <1>3. \A n \in Nat : n \in S
    BY <1>1, <1>2, SetInduction
  <1> QED BY <1>3 DEF S

LEMMA DivBounds ==
  ASSUME NEW n \in Int, NEW c \in Nat, c > 0
  PROVE  n \div c \in Int /\ c * (n \div c) <= n /\ n < c * (n \div c) + c
  OBVIOUS

LEMMA DivUnique ==
  ASSUME NEW n \in Int, NEW c \in Nat, c > 0, NEW k \in Int, c * k <= n, n < c * k + c
  PROVE  n \div c = k
  OBVIOUS

LEMMA DivTwice ==
  ASSUME NEW n \in Int, NEW c \in Nat, c > 0
  PROVE  n \div (2 * c) = (n \div c) \div 2
  OBVIOUS

\* Numbers that agree above bit k agree above every higher one.
LEMMA AgreeAbove ==
  ASSUME NEW n \in Nat, NEW z \in Nat, NEW k \in Nat, n \div Pow(2, k) = z \div Pow(2, k)
  PROVE  \A j \in Nat : n \div Pow(2, k + j) = z \div Pow(2, k + j)
  <1> DEFINE S == {j \in Nat : n \div Pow(2, k + j) = z \div Pow(2, k + j)}
  <1>1. 0 \in S
    BY k + 0 = k
  <1>2. ASSUME NEW j \in Nat, j \in S PROVE k + (j + 1) \in Nat /\ j + 1 \in S
    <2>1. k + (j + 1) = (k + j) + 1 /\ k + j \in Nat
      OBVIOUS
    <2> DEFINE c == Pow(2, k + j)
    <2>2. Pow(2, k + (j + 1)) = 2 * c /\ c \in Nat /\ c > 0
      BY <2>1, TwoToThe
    <2>3. n \div c = z \div c
      BY <1>2
    <2> HIDE DEF c
    <2>4. n \div (2 * c) = z \div (2 * c)
      BY <2>2, <2>3, DivTwice
    <2> QED BY <2>2, <2>4
  <1> HIDE DEF S
  <1>3. \A j \in Nat : j \in S
    BY <1>1, <1>2, SetInduction
  <1> QED BY <1>3 DEF S

-----------------------------------------------------------------------------
(* The blocks of a number: one for every bit that is set. *)

\* The block of bit i - 1 of z holds n.
Takes(n, z, i) == BitOf(z, i - 1) = 1 /\ n \div Pow(2, i - 1) = 2 * (z \div Pow(2, i))

\* What that says of the digits of n and z.
LEMMA TakesDigits ==
  ASSUME NEW n \in Int, NEW z \in Nat, NEW i \in Nat \ {0}, Takes(n, z, i)
  PROVE  /\ n \in Nat /\ n < z
         /\ n \div Pow(2, i) = z \div Pow(2, i)
         /\ n \div Pow(2, i - 1) # z \div Pow(2, i - 1)
  <1> DEFINE c == Pow(2, i - 1)
             q == z \div Pow(2, i)
  <1>1. i - 1 \in Nat /\ (i - 1) + 1 = i
    OBVIOUS
  <1>2. c \in Nat /\ c > 0 /\ Pow(2, i) = 2 * c
    BY <1>1, TwoToThe
  <1>3. (z \div c) % 2 = 1 /\ n \div c = 2 * q
    BY DEF Takes, BitOf
  <1> HIDE DEF c
  <1>4. q = (z \div c) \div 2
    BY <1>2, DivTwice
  <1>5. z \div c \in Nat
    BY <1>2
  <1>6. z \div c = 2 * q + 1 /\ q \in Nat
    BY <1>3, <1>4, <1>5
  <1>7. n \div (2 * c) = (2 * q) \div 2
    BY <1>2, <1>3, DivTwice
  <1>8. (2 * q) \div 2 = q
    BY <1>6
  <1> HIDE DEF q
  <1>9. c * (2 * q) <= n /\ n < c * (2 * q) + c
    BY <1>2, <1>3, DivBounds
  <1>10. c * (2 * q + 1) <= z
    BY <1>2, <1>6, DivBounds
  <1>11. c * (2 * q) >= 0 /\ c * (2 * q + 1) = c * (2 * q) + c
    BY <1>2, <1>6
  <1>12. c * (2 * q) \in Int /\ c * (2 * q + 1) \in Int
    BY <1>2, <1>6
  <1> DEFINE e == c * (2 * q)
             f == c * (2 * q + 1)
  <1>13. e \in Int /\ f \in Int /\ e <= n /\ n < e + c /\ f <= z /\ e >= 0 /\ f = e + c
    BY <1>9, <1>10, <1>11, <1>12
  <1> HIDE DEF e, f
  <1>14. n >= 0 /\ n < z
    BY <1>2, <1>13
  <1>15. n \div Pow(2, i) = z \div Pow(2, i)
    BY <1>2, <1>7, <1>8 DEF q
  <1>16. n \div c # z \div c
    BY <1>3, <1>6
  <1> QED BY <1>14, <1>15, <1>16 DEF c

\* The blocks of z hold exactly the numbers below z.
LEMMA BlockFor ==
  ASSUME NEW w \in Nat, NEW z \in Nat, z < Pow(2, w), NEW n \in Nat, n < z
  PROVE  \E i \in 1 .. w : Takes(n, z, i)
  <1> DEFINE T == {k \in Nat : n \div Pow(2, k) = z \div Pow(2, k)}
  <1>1. w \in T
    <2>1. Pow(2, w) \in Nat /\ Pow(2, w) > 0
      BY TwoToThe
    <2> DEFINE c == Pow(2, w)
    <2>2. c \in Nat /\ z < c /\ n < c
      BY <2>1
    <2> HIDE DEF c
    <2>3. n \div c = 0 /\ z \div c = 0
      BY <2>2
    <2> QED BY <2>3 DEF c
  <1>2. PICK i \in T : \A j \in T : i <= j
    BY <1>1, LeastOf
  <1>3. i \in Nat /\ i <= w /\ n \div Pow(2, i) = z \div Pow(2, i)
    BY <1>1, <1>2
  <1>4. i # 0
    <2>1. n \div 1 = n /\ z \div 1 = z
      OBVIOUS
    <2> QED BY <1>3, <2>1, TwoToThe
  <1>5. i - 1 \in Nat /\ ~(i <= i - 1) /\ (i - 1) + 1 = i
    BY <1>3, <1>4
  <1>6. n \div Pow(2, i - 1) # z \div Pow(2, i - 1)
    BY <1>2, <1>5
  <1> DEFINE c == Pow(2, i - 1)
             dn == n \div c
             dz == z \div c
  <1>7. c \in Nat /\ c > 0 /\ Pow(2, i) = 2 * c
    BY <1>5, TwoToThe
  <1>8. dn # dz
    BY <1>6
  <1> HIDE DEF c
  <1>9. dn \div 2 = dz \div 2 /\ z \div Pow(2, i) = dz \div 2
    BY <1>3, <1>7, DivTwice
  <1>10. dn \in Nat /\ dz \in Nat /\ dn <= dz
    BY <1>7
  <1> HIDE DEF dn, dz
  <1>11. dz % 2 = 1 /\ dn = 2 * (dz \div 2)
    BY <1>8, <1>9, <1>10
  <1>12. Takes(n, z, i)
    BY <1>9, <1>11 DEF Takes, BitOf, dn, dz, c
  <1>13. i \in 1 .. w
    BY <1>3, <1>4
  <1> QED BY <1>12, <1>13

\* No number is in two blocks.
LEMMA OneBlock ==
  ASSUME NEW n \in Nat, NEW z \in Nat, NEW i \in Nat \ {0}, NEW j \in Nat \ {0},
         Takes(n, z, i), Takes(n, z, j)
  PROVE  i = j
  <1>1. ASSUME NEW k \in Nat \ {0}, NEW l \in Nat \ {0}, k < l, Takes(n, z, k), Takes(n, z, l)
        PROVE  FALSE
    <2>1. n \div Pow(2, k) = z \div Pow(2, k)
      BY <1>1, TakesDigits
    <2>2. n \div Pow(2, l - 1) # z \div Pow(2, l - 1)
      BY <1>1, TakesDigits
    <2>3. (l - 1) - k \in Nat /\ k + ((l - 1) - k) = l - 1
      BY <1>1
    <2>4. n \div Pow(2, k + ((l - 1) - k)) = z \div Pow(2, k + ((l - 1) - k))
      BY <2>1, <2>3, AgreeAbove
    <2> QED BY <2>2, <2>3, <2>4
  <1> QED BY <1>1

-----------------------------------------------------------------------------
(* decompose_improve. *)

\* The value v begins with the string p.
Holds(p, v) == v \div Pow(2, p.mu) = p.top

\* A value begins with one string of each level.
LEMMA HoldsPrefix ==
  ASSUME NEW v, NEW mu
  PROVE  /\ Holds(Prefix(v, mu), v)
         /\ \A p : p = Prefix(v, mu) => p.mu = mu /\ Holds(p, v)
  BY DEF Holds, Prefix

\* The bounds of a string.
LEMMA HoldsBounds ==
  ASSUME NEW p, p.mu \in Nat, p.top \in Int, NEW v \in Int
  PROVE  Holds(p, v) <=> low_bound(p) <= v /\ v <= up_bound(p)
  <1> DEFINE c == Pow(2, p.mu)
             k == p.top
  <1>1. c \in Nat /\ c > 0 /\ k \in Int
    BY TwoToThe
  <1>2. low_bound(p) = k * c /\ up_bound(p) = (k + 1) * c - 1
    BY DEF low_bound, up_bound
  <1>3. Holds(p, v) <=> v \div c = k
    BY DEF Holds
  <1> HIDE DEF c, k
  <1>4. c * k = k * c /\ (k + 1) * c = k * c + c /\ k * c \in Int
    BY <1>1
  <1>5. CASE v \div c = k
    <2>1. c * k <= v /\ v < c * k + c
      BY <1>1, <1>5, DivBounds
    <2> DEFINE e == k * c
    <2>2. e \in Int /\ e <= v /\ v < e + c
      BY <1>4, <2>1
    <2> HIDE DEF e
    <2>3. e <= v /\ v <= (e + c) - 1
      BY <1>1, <2>2
    <2> QED BY <1>2, <1>3, <1>4, <1>5, <2>3 DEF e
  <1>6. CASE low_bound(p) <= v /\ v <= up_bound(p)
    <2> DEFINE e == k * c
    <2>1. e \in Int /\ e <= v /\ v <= (e + c) - 1
      BY <1>2, <1>4, <1>6
    <2> HIDE DEF e
    <2>2. e <= v /\ v < e + c
      BY <1>1, <2>1
    <2>3. c * k <= v /\ v < c * k + c
      BY <1>4, <2>2 DEF e
    <2>4. v \div c = k
      BY <1>1, <2>3, DivUnique
    <2> QED BY <1>3, <1>6, <2>4
  <1> QED BY <1>3, <1>5, <1>6

\* The width of the interval: the bits of its length.
LEMMA WidthFacts ==
  ASSUME NEW t \in Nat \ {0}
  PROVE  Width(t) \in 1 .. t /\ Pow(2, Width(t) - 1) <= t /\ t < Pow(2, Width(t))
  <1> DEFINE T == {k \in Nat : t < Pow(2, k)}
             P(k) == Pow(2, k - 1) <= t /\ t < Pow(2, k)
  <1>1. t \in T
    BY BelowPower
  <1>2. PICK k \in T : \A j \in T : k <= j
    BY <1>1, LeastOf
  <1>3. k \in Nat /\ k <= t /\ t < Pow(2, k)
    BY <1>1, <1>2
  <1>4. k # 0
    BY <1>3, TwoToThe
  <1>5. k - 1 \in Nat /\ ~(k <= k - 1)
    BY <1>3, <1>4
  <1>6. ~(t < Pow(2, k - 1)) /\ Pow(2, k - 1) \in Nat
    BY <1>2, <1>5, TwoToThe
  <1>7. k \in 1 .. t /\ P(k)
    BY <1>3, <1>4, <1>6
  <1> HIDE DEF P
  <1>8. Width(t) = CHOOSE j \in 1 .. t : P(j)
    BY DEF Width, P
  <1>9. Width(t) \in 1 .. t /\ P(Width(t))
    BY <1>7, <1>8
  <1> QED BY <1>9 DEF P

\* A string to the right of a_prime, and one to the left.
LEMMA RightString ==
  ASSUME NEW i \in Nat \ {0}, NEW A \in Int, NEW a, a = A * Pow(2, i - 1),
         NEW z \in Nat, BitOf(z, i - 1) = 1, NEW v \in Int
  PROVE  LET p == Prefix(a + (z \div Pow(2, i)) * Pow(2, i), i - 1)
         IN  p.mu = i - 1 /\ p.top \in Int /\ (Holds(p, v) <=> Takes(v - a, z, i))
  <1> DEFINE c == Pow(2, i - 1)
             q == z \div Pow(2, i)
             p == Prefix(a + q * Pow(2, i), i - 1)
  <1>1. i - 1 \in Nat /\ (i - 1) + 1 = i
    OBVIOUS
  <1>2. c \in Nat /\ c > 0 /\ Pow(2, i) = 2 * c
    BY <1>1, TwoToThe
  <1>3. q \in Nat
    BY <1>2
  <1>4. p.mu = i - 1 /\ p.top = (a + q * (2 * c)) \div c
    BY <1>2 DEF Prefix
  <1>5. Holds(p, v) <=> v \div c = p.top
    BY <1>4 DEF Holds
  <1>6. Takes(v - a, z, i) <=> (v - a) \div c = 2 * q
    BY DEF Takes
  <1>7. a = A * c
    OBVIOUS
  <1> HIDE DEF c, q
  <1>8. (a + q * (2 * c)) \div c = A + 2 * q
    <2>1. a + q * (2 * c) = c * (A + 2 * q) /\ c * (A + 2 * q) \in Int /\ A + 2 * q \in Int
      BY <1>2, <1>3, <1>7
    <2> DEFINE e == c * (A + 2 * q)
    <2>2. e \in Int /\ e <= e /\ e < e + c
      BY <1>2, <2>1
    <2>3. e \div c = A + 2 * q
      BY <1>2, <2>1, <2>2, DivUnique
    <2> QED BY <2>1, <2>3
  <1>9. (v - a) \div c = (v \div c) - A
    <2> DEFINE k == v \div c
    <2>1. k \in Int /\ c * k <= v /\ v < c * k + c
      BY <1>2, DivBounds
    <2> HIDE DEF k
    <2>2. c * (k - A) = c * k - A * c /\ c * k \in Int /\ A * c \in Int
      BY <1>2, <2>1
    <2>3. c * (k - A) <= v - a /\ v - a < c * (k - A) + c
      BY <1>2, <1>7, <2>1, <2>2
    <2>4. v - a \in Int /\ k - A \in Int
      BY <1>7, <2>1, <2>2
    <2>5. (v - a) \div c = k - A
      BY <1>2, <2>3, <2>4, DivUnique
    <2> QED BY <2>5 DEF k
  <1>10. v \div c \in Int
    BY <1>2
  <1>11. (v \div c) - A = 2 * q <=> v \div c = A + 2 * q
    BY <1>3, <1>10
  <1> QED BY <1>3, <1>4, <1>5, <1>6, <1>8, <1>9, <1>11 DEF c, q

LEMMA LeftString ==
  ASSUME NEW i \in Nat \ {0}, NEW A \in Int, NEW a, a = A * Pow(2, i - 1),
         NEW z \in Nat, BitOf(z, i - 1) = 1, NEW v \in Int
  PROVE  LET p == Prefix(a - 1 - (z \div Pow(2, i)) * Pow(2, i), i - 1)
         IN  p.mu = i - 1 /\ p.top \in Int /\ (Holds(p, v) <=> Takes(a - 1 - v, z, i))
  <1> DEFINE c == Pow(2, i - 1)
             q == z \div Pow(2, i)
             p == Prefix(a - 1 - q * Pow(2, i), i - 1)
  <1>1. i - 1 \in Nat /\ (i - 1) + 1 = i
    OBVIOUS
  <1>2. c \in Nat /\ c > 0 /\ Pow(2, i) = 2 * c
    BY <1>1, TwoToThe
  <1>3. q \in Nat
    BY <1>2
  <1>4. p.mu = i - 1 /\ p.top = (a - 1 - q * (2 * c)) \div c
    BY <1>2 DEF Prefix
  <1>5. Holds(p, v) <=> v \div c = p.top
    BY <1>4 DEF Holds
  <1>6. Takes(a - 1 - v, z, i) <=> (a - 1 - v) \div c = 2 * q
    BY DEF Takes
  <1>7. a = A * c /\ a \in Int
    BY <1>2
  <1> HIDE DEF c, q
  <1>8. (a - 1 - q * (2 * c)) \div c = A - 2 * q - 1
    <2> DEFINE k == A - 2 * q - 1
    <2>1. k \in Int /\ c * k = a - q * (2 * c) - c /\ c * k \in Int /\ q * (2 * c) \in Int
      BY <1>2, <1>3, <1>7
    <2>2. c * k <= a - 1 - q * (2 * c) /\ a - 1 - q * (2 * c) < c * k + c
          /\ a - 1 - q * (2 * c) \in Int
      BY <1>2, <1>7, <2>1
    <2> QED BY <1>2, <2>1, <2>2, DivUnique
  <1>9. (a - 1 - v) \div c = A - 1 - (v \div c)
    <2> DEFINE k == v \div c
    <2>1. k \in Int /\ c * k <= v /\ v < c * k + c
      BY <1>2, DivBounds
    <2> HIDE DEF k
    <2>2. c * (A - 1 - k) = A * c - c - c * k /\ c * k \in Int /\ A * c \in Int
      BY <1>2, <2>1
    <2>3. c * (A - 1 - k) <= a - 1 - v /\ a - 1 - v < c * (A - 1 - k) + c
      BY <1>2, <1>7, <2>1, <2>2
    <2>4. a - 1 - v \in Int /\ A - 1 - k \in Int
      BY <1>7, <2>1
    <2>5. (a - 1 - v) \div c = A - 1 - k
      BY <1>2, <2>3, <2>4, DivUnique
    <2> QED BY <2>5 DEF k
  <1>10. v \div c \in Int
    BY <1>2
  <1>11. A - 1 - (v \div c) = 2 * q <=> v \div c = A - 2 * q - 1
    BY <1>3, <1>10
  <1> QED BY <1>3, <1>4, <1>5, <1>6, <1>8, <1>9, <1>11 DEF c, q

\* The first multiple of 2^(w-1) from min on.
LEMMA APrimeFacts ==
  ASSUME NEW min \in Nat, NEW w \in Nat \ {0}
  PROVE  LET c == Pow(2, w - 1)
             a == APrime(min, w)
         IN  /\ a \in Nat /\ min <= a /\ a <= min + c - 1
             /\ \A i \in 1 .. w : \E A \in Int : a = A * Pow(2, i - 1)
  <1> DEFINE c == Pow(2, w - 1)
             n == min + c - 1
             b == n \div c
             a == APrime(min, w)
  <1>1. w - 1 \in Nat
    OBVIOUS
  <1>2. c \in Nat /\ c > 0
    BY <1>1, TwoToThe
  <1>3. a = b * c
    BY DEF APrime
  <1>4. ASSUME NEW i \in 1 .. w PROVE \E A \in Int : a = A * Pow(2, i - 1)
    <2> DEFINE e == Pow(2, i - 1)
               f == Pow(2, w - i)
    <2>1. i - 1 \in Nat /\ w - i \in Nat /\ (i - 1) + (w - i) = w - 1
      OBVIOUS
    <2>a. Pow(2, (i - 1) + (w - i)) = e * f
      BY <2>1, PowerSplits
    <2>2. c = e * f /\ e \in Nat /\ f \in Nat
      BY <2>1, <2>a, TwoToThe
    <2>3. b \in Int
      BY <1>2
    <2> HIDE DEF e, f, c, b
    <2>4. b * (e * f) = (b * f) * e /\ b * f \in Int
      BY <2>2, <2>3
    <2>5. a = (b * f) * e
      BY <1>3, <2>2, <2>4
    <2> QED BY <2>4, <2>5 DEF e
  <1> HIDE DEF c
  <1>5. n \in Nat
    BY <1>2
  <1>6. b \in Int /\ c * b <= n /\ n < c * b + c /\ b \in Nat
    BY <1>2, <1>5, DivBounds
  <1> HIDE DEF b
  <1> DEFINE e == c * b
  <1>7. e \in Nat /\ e = b * c /\ e <= n /\ n < e + c
    BY <1>2, <1>6
  <1> HIDE DEF e
  <1>8. e <= min + c - 1 /\ min <= e
    BY <1>2, <1>7
  <1>9. a \in Nat /\ min <= a /\ a <= min + c - 1
    BY <1>3, <1>7, <1>8
  <1> QED BY <1>4, <1>9 DEF c

\* The blocks of decompose_improve are strings that hold the values of the
\* interval and no others, each value once.
LEMMA Decomposes ==
  ASSUME NEW min \in Nat, NEW max \in Nat, min <= max
  PROVE  /\ \A d \in decompose_improve(min, max) : d.pre.mu \in Nat /\ d.pre.top \in Int
         /\ \A d \in decompose_improve(min, max), v \in Int :
              Holds(d.pre, v) => v \in min .. max
         /\ \A v \in min .. max : \E d \in decompose_improve(min, max) : Holds(d.pre, v)
         /\ \A d, e \in decompose_improve(min, max), v \in Int :
              Holds(d.pre, v) /\ Holds(e.pre, v) => d.pre = e.pre
  <1> DEFINE Dec == decompose_improve(min, max)
  <1>1. CASE min = max
    <2>1. Dec = {[side |-> "x", pre |-> Prefix(min, 0)]}
      BY <1>1 DEF decompose_improve
    <2>2. \A d \in Dec : d.pre = [mu |-> 0, top |-> min \div 1]
      BY <2>1, TwoToThe DEF Prefix
    <2>3. min \div 1 = min /\ \A v \in Int : v \div 1 = v
      OBVIOUS
    <2>4. \A d \in Dec : d.pre.mu = 0 /\ d.pre.top = min
      BY <2>2, <2>3
    <2>5. \A d \in Dec, v \in Int : Holds(d.pre, v) <=> v = min
      BY <2>3, <2>4, TwoToThe DEF Holds
    <2>6. \E d \in Dec : TRUE
      BY <2>1
    <2> HIDE DEF Dec
    <2>7. \A v \in min .. max : v \in Int /\ v = min
      BY <1>1
    <2>8. \A v \in min .. max : \E d \in Dec : Holds(d.pre, v)
      BY <2>5, <2>6, <2>7
    <2>9. min \in min .. max
      OBVIOUS
    <2> QED BY <2>2, <2>4, <2>5, <2>8, <2>9 DEF Dec
  <1>2. CASE min # max
    <2> DEFINE t == max - min + 1
               w == Width(t)
               c == Pow(2, w - 1)
               a == APrime(min, w)
               x == max - a + 1
               y == a - min
               XP(i) == a + (x \div Pow(2, i)) * Pow(2, i)
               YP(i) == a - 1 - (y \div Pow(2, i)) * Pow(2, i)
               X == {k \in 1 .. w : BitOf(x, k - 1) = 1}
               Y == {k \in 1 .. w : BitOf(y, k - 1) = 1}
    <2>1. Dec = {[side |-> "x", pre |-> Prefix(XP(i), i - 1)] : i \in X}
                \cup {[side |-> "y", pre |-> Prefix(YP(i), i - 1)] : i \in Y}
      BY <1>2 DEF decompose_improve
    <2>2. t \in Nat \ {0}
      OBVIOUS
    <2>3. w \in Nat \ {0} /\ c \in Nat /\ c > 0 /\ c <= t /\ t < Pow(2, w)
          /\ Pow(2, w) \in Nat
      BY <2>2, WidthFacts, TwoToThe
    <2>4. /\ a \in Nat /\ min <= a /\ a <= min + c - 1
          /\ \A i \in 1 .. w : \E A \in Int : a = A * Pow(2, i - 1)
      BY <2>3, APrimeFacts
    <2> HIDE DEF a, w, c
    <2>5. a <= max
      BY <2>2, <2>3, <2>4
    <2>6. x \in Nat /\ y \in Nat /\ x < Pow(2, w) /\ y < Pow(2, w)
      BY <2>2, <2>3, <2>4, <2>5
    <2> HIDE DEF x, y
    <2>7. ASSUME NEW i \in X, NEW v \in Int
          PROVE  LET p == Prefix(XP(i), i - 1)
                 IN  p.mu = i - 1 /\ p.top \in Int /\ (Holds(p, v) <=> Takes(v - a, x, i))
      <3>1. i \in Nat \ {0} /\ i \in 1 .. w /\ BitOf(x, i - 1) = 1
        BY <2>3
      <3>2. PICK A \in Int : a = A * Pow(2, i - 1)
        BY <2>4, <3>1
      <3> QED BY <2>6, <3>1, <3>2, RightString
    <2>8. ASSUME NEW i \in Y, NEW v \in Int
          PROVE  LET p == Prefix(YP(i), i - 1)
                 IN  p.mu = i - 1 /\ p.top \in Int /\ (Holds(p, v) <=> Takes(a - 1 - v, y, i))
      <3>1. i \in Nat \ {0} /\ i \in 1 .. w /\ BitOf(y, i - 1) = 1
        BY <2>3
      <3>2. PICK A \in Int : a = A * Pow(2, i - 1)
        BY <2>4, <3>1
      <3> QED BY <2>6, <3>1, <3>2, LeftString
    <2>9. \A i \in X : i \in Nat \ {0} /\ i - 1 \in Nat
      BY <2>3
    <2>10. \A i \in Y : i \in Nat \ {0} /\ i - 1 \in Nat
      BY <2>3
    <2> DEFINE PX(i) == Prefix(XP(i), i - 1)
               PY(i) == Prefix(YP(i), i - 1)
    <2>11. /\ \A i \in X : PX(i).mu = i - 1 /\ PX(i).top \in Int
           /\ \A i \in X, v \in Int : Holds(PX(i), v) <=> Takes(v - a, x, i)
      BY <2>7
    <2>12. /\ \A i \in Y : PY(i).mu = i - 1 /\ PY(i).top \in Int
           /\ \A i \in Y, v \in Int : Holds(PY(i), v) <=> Takes(a - 1 - v, y, i)
      BY <2>8
    <2>13. \A d \in Dec : (\E i \in X : d.pre = PX(i)) \/ (\E i \in Y : d.pre = PY(i))
      BY <2>1
    <2>14. (\A i \in X : \E d \in Dec : d.pre = PX(i)) /\ (\A i \in Y : \E d \in Dec : d.pre = PY(i))
      <3>1. \A i \in X : [side |-> "x", pre |-> PX(i)] \in Dec
        BY <2>1
      <3>2. \A i \in Y : [side |-> "y", pre |-> PY(i)] \in Dec
        BY <2>1
      <3>3. \A q : [side |-> "x", pre |-> q].pre = q /\ [side |-> "y", pre |-> q].pre = q
        OBVIOUS
      <3> HIDE DEF PX, PY, Dec, X, Y
      <3> QED BY <3>1, <3>2, <3>3
    <2>16. \A i \in 1 .. w : \A n : (Takes(n, x, i) => i \in X) /\ (Takes(n, y, i) => i \in Y)
      BY DEF Takes
    <2> HIDE DEF PX, PY, Dec, X, Y
    <2>17. ASSUME NEW i \in X, NEW v \in Int, Holds(PX(i), v)
           PROVE  v \in min .. max /\ v >= a /\ Takes(v - a, x, i)
      <3>1. Takes(v - a, x, i) /\ v - a \in Int
        BY <2>4, <2>11, <2>17
      <3>2. v - a \in Nat /\ v - a < x
        BY <2>6, <2>9, <3>1, TakesDigits
      <3>3. v >= a /\ v <= max
        BY <2>4, <2>5, <3>2 DEF x
      <3> QED BY <2>4, <3>1, <3>3
    <2>18. ASSUME NEW i \in Y, NEW v \in Int, Holds(PY(i), v)
           PROVE  v \in min .. max /\ v < a /\ Takes(a - 1 - v, y, i)
      <3>1. Takes(a - 1 - v, y, i) /\ a - 1 - v \in Int
        BY <2>4, <2>12, <2>18
      <3>2. a - 1 - v \in Nat /\ a - 1 - v < y
        BY <2>6, <2>10, <3>1, TakesDigits
      <3>3. v < a /\ v >= min
        BY <2>4, <2>5, <3>2 DEF y
      <3>4. v <= max
        BY <2>4, <2>5, <3>3
      <3> QED BY <3>1, <3>3, <3>4
    <2>19. ASSUME NEW v \in min .. max PROVE \E d \in Dec : Holds(d.pre, v)
      <3>1. CASE v >= a
        <4>1. v - a \in Nat /\ v - a < x /\ v \in Int
          BY <2>4, <2>5, <3>1 DEF x
        <4>2. PICK i \in 1 .. w : Takes(v - a, x, i)
          BY <2>3, <2>6, <4>1, BlockFor
        <4>3. i \in X /\ Holds(PX(i), v)
          BY <2>11, <2>16, <4>1, <4>2
        <4> QED BY <2>14, <4>3
      <3>2. CASE v < a
        <4>1. a - 1 - v \in Nat /\ a - 1 - v < y /\ v \in Int
          BY <2>4, <3>2 DEF y
        <4>2. PICK i \in 1 .. w : Takes(a - 1 - v, y, i)
          BY <2>3, <2>6, <4>1, BlockFor
        <4>3. i \in Y /\ Holds(PY(i), v)
          BY <2>12, <2>16, <4>1, <4>2
        <4> QED BY <2>14, <4>3
      <3> QED BY <2>4, <3>1, <3>2
    <2>20. ASSUME NEW d \in Dec, NEW e \in Dec, NEW v \in Int, Holds(d.pre, v), Holds(e.pre, v)
           PROVE  d.pre = e.pre
      <3>1. ASSUME NEW i \in X, NEW j \in X, d.pre = PX(i), e.pre = PX(j) PROVE i = j
        <4>1. Takes(v - a, x, i) /\ Takes(v - a, x, j)
          BY <2>17, <2>20, <3>1
        <4>2. v - a \in Nat
          BY <2>4, <2>17, <2>20, <3>1
        <4> QED BY <2>6, <2>9, <4>1, <4>2, OneBlock
      <3>2. ASSUME NEW i \in Y, NEW j \in Y, d.pre = PY(i), e.pre = PY(j) PROVE i = j
        <4>1. Takes(a - 1 - v, y, i) /\ Takes(a - 1 - v, y, j)
          BY <2>18, <2>20, <3>2
        <4>2. v < a
          BY <2>18, <2>20, <3>2
        <4>3. a - 1 - v \in Nat
          BY <2>4, <4>2
        <4> QED BY <2>6, <2>10, <4>1, <4>3, OneBlock
      <3>3. ASSUME NEW i \in X, NEW j \in Y, d.pre = PX(i) \/ e.pre = PX(i), d.pre = PY(j) \/ e.pre = PY(j)
            PROVE  FALSE
        <4>1. v >= a /\ v < a
          BY <2>17, <2>18, <2>20, <3>3
        <4> QED BY <2>4, <4>1
      <3> QED BY <2>13, <3>1, <3>2, <3>3
    <2>21. \A d \in Dec : d.pre.mu \in Nat /\ d.pre.top \in Int
      BY <2>9, <2>10, <2>11, <2>12, <2>13
    <2>22. \A d \in Dec, v \in Int : Holds(d.pre, v) => v \in min .. max
      BY <2>13, <2>17, <2>18
    <2> QED BY <2>19, <2>20, <2>21, <2>22 DEF Dec
  <1> QED BY <1>1, <1>2

-----------------------------------------------------------------------------
(* set_dec and set_prefix. *)

\* Levels of a parameter table.
LevelSet(u) == u \subseteq Nat /\ 0 \in u

\* A block is brought to a level of the table that is not above its own.
LEMMA LevelFacts ==
  ASSUME NEW u, LevelSet(u), NEW mu \in Nat
  PROVE  Level(mu, u) \in u /\ Level(mu, u) \in Nat /\ Level(mu, u) <= mu
  <1>1. CASE mu \in u
    BY <1>1 DEF Level
  <1>2. CASE mu \notin u
    <2> DEFINE E == {e \in u : e < mu}
               T == {mu - e : e \in E}
               G(x) == \A y \in E : x >= y
    <2>0. u \subseteq Nat /\ 0 \in u /\ mu # 0
      BY <1>2 DEF LevelSet
    <2>z. 0 < mu
      BY <2>0
    <2>1. E \subseteq Nat /\ 0 \in E
      BY <2>0, <2>z
    <2>2. T \subseteq Nat /\ T # {}
      BY <2>1
    <2>3. PICK k \in T : \A j \in T : k <= j
      BY <2>2, LeastOf
    <2>4. PICK e \in E : k = mu - e
      BY <2>3
    <2>5. G(e)
      <3> SUFFICES ASSUME NEW y \in E PROVE e >= y
        OBVIOUS
      <3>1. mu - e <= mu - y
        BY <2>3, <2>4
      <3> QED BY <2>1, <3>1
    <2> DEFINE m == CHOOSE x \in E : G(x)
    <2>6. m \in E
      <3> HIDE DEF G, E
      <3> QED BY <2>4, <2>5
    <2>7. Max(E) = m
      BY DEF Max
    <2>8. \E e0 \in u : e0 < mu
      BY <2>1
    <2>9. Level(mu, u) = m
      BY <1>2, <2>7, <2>8 DEF Level, set_round
    <2>10. m \in u /\ m \in Nat /\ m < mu
      BY <2>1, <2>6
    <2> HIDE DEF m
    <2> QED BY <2>9, <2>10
  <1> QED BY <1>1, <1>2

LEMMA DivProduct ==
  ASSUME NEW n \in Int, NEW c \in Nat, c > 0, NEW e \in Nat, e > 0
  PROVE  n \div (c * e) = (n \div c) \div e
  <1> DEFINE k == n \div c
             l == k \div e
  <1>1. k \in Int /\ c * k <= n /\ n < c * k + c
    BY DivBounds
  <1>2. l \in Int /\ e * l <= k /\ k < e * l + e
    BY <1>1, DivBounds
  <1> HIDE DEF k, l
  <1>3. c * (e * l) <= c * k /\ c * k + c <= c * (e * l + e)
    <2>1. e * l \in Int /\ e * l + e \in Int /\ k + 1 <= e * l + e
      BY <1>1, <1>2
    <2>2. \A i, j \in Int : i <= j => c * i <= c * j
      OBVIOUS
    <2>3. c * (k + 1) = c * k + c
      BY <1>1
    <2>4. c * (k + 1) <= c * (e * l + e)
      BY <1>1, <2>1, <2>2
    <2>5. c * (e * l) <= c * k
      BY <1>1, <1>2, <2>1, <2>2
    <2> QED BY <2>3, <2>4, <2>5
  <1>4. c * (e * l) = (c * e) * l /\ c * (e * l + e) = (c * e) * l + c * e
        /\ c * e \in Nat /\ c * e > 0 /\ (c * e) * l \in Int
    BY <1>2
  <1>5. (c * e) * l <= n /\ n < (c * e) * l + c * e
    <2> DEFINE f == (c * e) * l
               g == c * e
               h == c * k
    <2>1. f \in Int /\ g \in Nat /\ h \in Int /\ f <= h /\ h + c <= f + g /\ h <= n /\ n < h + c
      BY <1>1, <1>3, <1>4
    <2> HIDE DEF f, g, h
    <2>2. f <= n /\ n < f + g
      BY <2>1
    <2> QED BY <2>2 DEF f, g
  <1>6. n \div (c * e) = l
    BY <1>2, <1>4, <1>5, DivUnique
  <1> QED BY <1>6 DEF k, l

\* The strings a block is split into hold the values of the block, one each.
LEMMA SplitFacts ==
  ASSUME NEW u, LevelSet(u), NEW q, q.mu \in Nat, q.top \in Int
  PROVE  /\ \A p \in Split(q, u) : p = [mu |-> Level(q.mu, u), top |-> p.top] /\ p.top \in Int
         /\ \A p \in Split(q, u), v \in Int : Holds(p, v) => Holds(q, v)
         /\ \A v \in Int : Holds(q, v) => Prefix(v, Level(q.mu, u)) \in Split(q, u)
  <1> DEFINE L == Level(q.mu, u)
             pad == q.mu - L
             c == Pow(2, L)
             e == Pow(2, pad)
             t == q.top
  <1>1. L \in Nat /\ pad \in Nat /\ L + pad = q.mu /\ t \in Int
    BY LevelFacts
  <1>2. c \in Nat /\ c > 0 /\ e \in Nat /\ e > 0
    BY <1>1, TwoToThe
  <1>3. Pow(2, L + pad) = c * e
    BY <1>1, PowerSplits
  <1>4. Split(q, u) = {[mu |-> L, top |-> t * e + b] : b \in 0 .. e - 1}
    BY DEF Split
  <1>5. \A v : Holds(q, v) <=> v \div (c * e) = t
    BY <1>1, <1>3 DEF Holds
  <1> HIDE DEF c, e, L, t
  <1>6. \A b \in 0 .. e - 1 : t * e + b \in Int /\ (t * e + b) \div e = t
    <2> SUFFICES ASSUME NEW b \in 0 .. e - 1
                 PROVE  t * e + b \in Int /\ (t * e + b) \div e = t
      OBVIOUS
    <2>1. e * t = t * e /\ t * e \in Int
      BY <1>1, <1>2
    <2>2. e * t <= t * e + b /\ t * e + b < e * t + e /\ t * e + b \in Int
      BY <1>2, <2>1
    <2> QED BY <1>1, <1>2, <2>2, DivUnique
  <1>7. \A p \in Split(q, u) : p.mu = L /\ p.top \in Int /\ p.top \div e = t /\ p = [mu |-> L, top |-> p.top]
    BY <1>4, <1>6
  <1>8. \A v \in Int : v \div (c * e) = (v \div c) \div e
    BY <1>2, DivProduct
  <1>9. ASSUME NEW p \in Split(q, u), NEW v \in Int, Holds(p, v) PROVE Holds(q, v)
    <2>1. v \div c = p.top
      BY <1>7, <1>9 DEF Holds, c
    <2> QED BY <1>5, <1>7, <1>8, <2>1
  <1>10. ASSUME NEW v \in Int, Holds(q, v) PROVE Prefix(v, L) \in Split(q, u)
    <2> DEFINE k == v \div c
    <2>1. k \in Int /\ k \div e = t
      BY <1>2, <1>5, <1>8, <1>10
    <2>2. Prefix(v, L) = [mu |-> L, top |-> k]
      BY DEF Prefix, c
    <2> HIDE DEF k
    <2>3. e * t <= k /\ k < e * t + e
      BY <1>2, <2>1, DivBounds
    <2>4. k - t * e \in 0 .. e - 1 /\ t * e + (k - t * e) = k
      <3>1. e * t = t * e /\ t * e \in Int
        BY <1>1, <1>2
      <3> DEFINE f == t * e
      <3>2. f \in Int /\ f <= k /\ k < f + e
        BY <2>3, <3>1
      <3> HIDE DEF f
      <3>3. k - f \in 0 .. e - 1 /\ f + (k - f) = k
        BY <1>2, <2>1, <3>2
      <3> QED BY <3>3 DEF f
    <2> QED BY <1>4, <2>2, <2>4
  <1> QED BY <1>7, <1>9, <1>10 DEF L

\* The strings of set_dec are strings of the levels inside the interval.
LEMMA StringsInside ==
  ASSUME NEW min \in Nat, NEW max \in Nat, min <= max, NEW u, LevelSet(u),
         NEW p \in set_dec(min, max, u)
  PROVE  /\ p.mu \in u /\ p.mu \in Nat /\ p.top \in Int /\ p = [mu |-> p.mu, top |-> p.top]
         /\ min <= low_bound(p) /\ up_bound(p) <= max
         /\ \A v \in Int : Holds(p, v) => v \in min .. max
  <1>1. PICK d \in decompose_improve(min, max) : p \in Split(d.pre, u)
    BY DEF set_dec
  <1>2. d.pre.mu \in Nat /\ d.pre.top \in Int
    BY Decomposes
  <1>3. p = [mu |-> Level(d.pre.mu, u), top |-> p.top] /\ p.top \in Int
    BY <1>1, <1>2, SplitFacts
  <1>4. p.mu = Level(d.pre.mu, u)
    BY <1>3
  <1>5. p.mu \in u /\ p.mu \in Nat /\ p = [mu |-> p.mu, top |-> p.top]
    BY <1>2, <1>3, <1>4, LevelFacts
  <1>6. \A v \in Int : Holds(p, v) => v \in min .. max
    BY <1>1, <1>2, SplitFacts, Decomposes
  <1>7. low_bound(p) \in Int /\ up_bound(p) \in Int /\ low_bound(p) <= up_bound(p)
    <2> DEFINE c == Pow(2, p.mu)
               k == p.top
    <2>1. c \in Nat /\ c > 0 /\ k \in Int
      BY <1>3, <1>5, TwoToThe
    <2>2. low_bound(p) = k * c /\ up_bound(p) = (k + 1) * c - 1
      BY DEF low_bound, up_bound
    <2> HIDE DEF c, k
    <2>3. k * c \in Int /\ (k + 1) * c = k * c + c
      BY <2>1
    <2> QED BY <2>1, <2>2, <2>3
  <1>8. Holds(p, low_bound(p)) /\ Holds(p, up_bound(p))
    <2>1. low_bound(p) <= low_bound(p) /\ up_bound(p) <= up_bound(p)
      BY <1>7
    <2> QED BY <1>3, <1>5, <1>7, <2>1, HoldsBounds
  <1>9. low_bound(p) \in min .. max /\ up_bound(p) \in min .. max
    BY <1>6, <1>7, <1>8
  <1> QED BY <1>3, <1>5, <1>6, <1>9

\* A value is in the interval exactly when one of its prefixes is a string
\* of the interval, and there is only one such prefix.
THEOREM OnePrefixInCommon ==
  ASSUME NEW min \in Nat, NEW max \in Nat, min <= max, NEW u, LevelSet(u), NEW v \in Int
  PROVE  /\ v \in min .. max <=> set_dec(min, max, u) \cap set_prefix(v, u) # {}
         /\ \A p, q \in set_dec(min, max, u) \cap set_prefix(v, u) : p = q
  <1> DEFINE Dec == decompose_improve(min, max)
  <1>1. \A p \in set_prefix(v, u) : p = Prefix(v, p.mu) /\ Holds(p, v)
    <2> SUFFICES ASSUME NEW mu \in u PROVE LET p == Prefix(v, mu) IN p = Prefix(v, p.mu) /\ Holds(p, v)
      BY DEF set_prefix
    <2> QED BY HoldsPrefix
  <1>2. ASSUME NEW p \in set_dec(min, max, u) \cap set_prefix(v, u) PROVE v \in min .. max
    BY <1>1, <1>2, StringsInside
  <1>3. ASSUME v \in min .. max PROVE set_dec(min, max, u) \cap set_prefix(v, u) # {}
    <2>1. PICK d \in Dec : Holds(d.pre, v)
      BY <1>3, Decomposes
    <2>2. d.pre.mu \in Nat /\ d.pre.top \in Int
      BY Decomposes
    <2> DEFINE L == Level(d.pre.mu, u)
    <2>3. Prefix(v, L) \in Split(d.pre, u)
      BY <2>1, <2>2, SplitFacts
    <2>4. L \in u
      BY <2>2, LevelFacts
    <2> QED BY <2>3, <2>4 DEF set_dec, set_prefix
  <1>4. ASSUME NEW p \in set_dec(min, max, u) \cap set_prefix(v, u),
               NEW q \in set_dec(min, max, u) \cap set_prefix(v, u)
        PROVE  p = q
    <2>1. PICK d \in Dec : p \in Split(d.pre, u)
      BY DEF set_dec
    <2>2. PICK e \in Dec : q \in Split(e.pre, u)
      BY DEF set_dec
    <2>3. d.pre.mu \in Nat /\ d.pre.top \in Int /\ e.pre.mu \in Nat /\ e.pre.top \in Int
      BY Decomposes
    <2>4. Holds(d.pre, v)
      BY <1>1, <2>1, <2>3, SplitFacts
    <2>5. Holds(e.pre, v)
      BY <1>1, <2>2, <2>3, SplitFacts
    <2>6. d.pre = e.pre
      <3>1. \A dd, ee \in Dec, w \in Int : Holds(dd.pre, w) /\ Holds(ee.pre, w) => dd.pre = ee.pre
        BY Decomposes
      <3> HIDE DEF Dec
      <3> QED BY <2>4, <2>5, <3>1
    <2>7. p = [mu |-> Level(d.pre.mu, u), top |-> p.top]
      BY <2>1, <2>3, SplitFacts
    <2>8. q = [mu |-> Level(e.pre.mu, u), top |-> q.top]
      BY <2>2, <2>3, SplitFacts
    <2>9. p.mu = q.mu
      BY <2>6, <2>7, <2>8
    <2> QED BY <1>1, <2>9
  <1> QED BY <1>2, <1>3, <1>4

-----------------------------------------------------------------------------
(* Sockets: short queues. *)

\* What the sockets do with queues of at most two messages.
LEMMA ShortQueues ==
  ASSUME NEW x, NEW y
  PROVE  /\ <<x>> # <<>> /\ <<x, y>> # <<>>
         /\ Append(<<>>, x) = <<x>> /\ <<>> \o <<x, y>> = <<x, y>>
         /\ Head(<<x>>) = x /\ Head(<<x, y>>) = x
         /\ Tail(<<x>>) = <<>> /\ Tail(<<x, y>>) = <<y>>
         /\ Len(<<>>) = 0 /\ Len(<<x>>) = 1 /\ Len(<<x, y>>) = 2
         /\ SubSeq(<<x, y>>, 3, 2) = <<>>
  OBVIOUS

-----------------------------------------------------------------------------
(* The hash tables. *)

\* The inputs have their types: what the fuzzy mapping and a successful
\* cuckoo insertion leave.
LEMMA InputTypes ==
  ASSUME InputInit
  PROVE  /\ ballsR \in [BallR -> [pt : Point, id : ID]]
         /\ ballsS \in [BallS -> [pt : Point, id : ID]]
         /\ locs \in [ID -> [HashIdx -> Bin]]
         /\ slot \in [BallS -> HashIdx]
         /\ \A p, q \in BallR : ballsR[p].id = ballsR[q].id => p = q
  BY RecvInputAssumption, SendInputAssumption, HashAssumption
     DEF InputInit, Placements, Distinct

\* The bin a sender ball is placed in.
BinOf(s) == Loc(ballsS[s].id, slot[s])

\* Sender balls and the bins that hold one correspond to each other.
LEMMA BallsAndBins ==
  ASSUME InputInit
  PROVE  /\ \A s \in BallS : BinOf(s) \in Bin /\ BallIn(BinOf(s)) = s /\ BallIn(BinOf(s)) # None
         /\ \A b \in Bin : BallIn(b) # None => BallIn(b) \in BallS /\ BinOf(BallIn(b)) = b
  <1>1. \A s, t \in BallS : BinOf(s) = BinOf(t) => s = t
    BY DEF InputInit, Placements, BinOf, Loc
  <1>2. \A s \in BallS : BinOf(s) \in Bin
    BY InputTypes DEF BinOf, Loc
  <1>3. ASSUME NEW b, NEW s \in BallS, BinOf(s) = b
        PROVE  BallIn(b) = s
    <2>1. BallIn(b) = CHOOSE t \in BallS : BinOf(t) = b
      BY <1>3 DEF BallIn, BinOf
    <2> QED BY <1>1, <1>3, <2>1
  <1>4. ASSUME NEW b \in Bin, BallIn(b) # None
        PROVE  BallIn(b) \in BallS /\ BinOf(BallIn(b)) = b
    BY <1>4 DEF BallIn, BinOf
  <1> QED
    BY <1>2, <1>3, <1>4, NoneAssumption

-----------------------------------------------------------------------------
(* What the matching protocols use of the decomposition. *)

\* KeysAssumption of LinfFpsi holds for RangeKeys(c) = set_dec(c - DELTA,
\* c + DELTA, u) and PointKeys(v) = set_prefix(v, u), the keys getList and
\* mp_ssFMat_linf take from utils/set_dec.cpp: the ball around c and the
\* prefixes of v have a key in common exactly when v is within DELTA of c,
\* and never more than one.
THEOREM RangeKeysMeet ==
  ASSUME NEW c \in Nat, NEW v \in Nat, c >= DELTA, NEW lv, LevelSet(lv)
  PROVE  LET keys == set_dec(c - DELTA, c + DELTA, lv) \cap set_prefix(v, lv)
         IN /\ keys # {} <=> Near(c, v)
            /\ \A p, q \in keys : p = q
  <1>1. DELTA \in Nat /\ c - DELTA \in Nat /\ c + DELTA \in Nat /\ c - DELTA <= c + DELTA
    BY CoordAssumption
  <1>2. v \in c - DELTA .. c + DELTA <=> Near(c, v)
    BY <1>1 DEF Near
  <1> DEFINE lo == c - DELTA
             hi == c + DELTA
             keys == set_dec(lo, hi, lv) \cap set_prefix(v, lv)
  <1>3. lo \in Nat /\ hi \in Nat /\ lo <= hi /\ v \in Int
    BY <1>1
  <1> HIDE DEF lo, hi
  <1>4. /\ v \in lo .. hi <=> keys # {}
        /\ \A p, q \in keys : p = q
    BY <1>3, OnePrefixInCommon
  <1> QED BY <1>2, <1>4 DEF lo, hi
=============================================================================
