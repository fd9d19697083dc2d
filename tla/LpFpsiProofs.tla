---------------------------- MODULE LpFpsiProofs ----------------------------
(***************************************************************************)
(* Proofs about LpFpsi for any number of dimensions, points, bins and hash *)
(* functions, every placement of the balls, every draw of the masks and    *)
(* every modulus that the sums of the powers stay below.                   *)
(***************************************************************************)
EXTENDS LpFpsi, MatchingProofs

-----------------------------------------------------------------------------
(* Sums over the dimensions. *)

LEMMA SumFromZero ==
  ASSUME NEW n \in Nat, NEW f, \A k \in 0 .. n - 1 : f[k] \in Int
  PROVE  /\ SumLoop(f, 0, 0) = 0
         /\ \A m \in 0 .. n : SumLoop(f, 0, m) \in Int
         /\ \A m \in 0 .. n - 1 : SumLoop(f, 0, m + 1) = SumLoop(f, 0, m) + f[m]
  <1>1. 0 \in Nat /\ 0 <= n
    OBVIOUS
  <1> QED BY <1>1, SumFacts

\* A sum of n numbers of 0 .. B is in 0 .. n * B.
LEMMA SumBounds ==
  ASSUME NEW n \in Nat, NEW B \in Nat, NEW f, \A k \in 0 .. n - 1 : f[k] \in 0 .. B
  PROVE  SumLoop(f, 0, n) \in 0 .. n * B
  <1> DEFINE S == {m \in Nat : m <= n => SumLoop(f, 0, m) \in 0 .. m * B}
  <1>1. /\ SumLoop(f, 0, 0) = 0
        /\ \A m \in 0 .. n - 1 : SumLoop(f, 0, m + 1) = SumLoop(f, 0, m) + f[m]
    <2>1. \A k \in 0 .. n - 1 : f[k] \in Int
      OBVIOUS
    <2> QED BY <2>1, SumFromZero
  <1>2. 0 \in S
    BY <1>1
  <1>3. ASSUME NEW m \in Nat, m \in S PROVE m + 1 \in S
    <2> SUFFICES ASSUME m + 1 <= n PROVE SumLoop(f, 0, m + 1) \in 0 .. (m + 1) * B
      OBVIOUS
    <2>1. m \in 0 .. n - 1 /\ m <= n
      OBVIOUS
    <2>2. SumLoop(f, 0, m) \in 0 .. m * B /\ f[m] \in 0 .. B
      BY <1>3, <2>1
    <2>3. SumLoop(f, 0, m + 1) = SumLoop(f, 0, m) + f[m] /\ (m + 1) * B = m * B + B /\ m * B \in Nat
      BY <1>1, <2>1
    <2> QED BY <2>2, <2>3
  <1> HIDE DEF S
  <1>4. n \in S
    BY <1>2, <1>3, SetInduction
  <1> QED BY <1>4 DEF S

\* Entry by entry g is f + p, or W less.
Drifts(f, g, p, n, W) ==
  \A k \in 0 .. n - 1 : /\ f[k] \in Int /\ g[k] \in Int /\ p[k] \in Int
                        /\ g[k] = f[k] + p[k] \/ g[k] = f[k] + p[k] - W

\* The sums then differ in the same way, and W stays when it occurs once.
LEMMA SumsDiffer ==
  ASSUME NEW n \in Nat, NEW W \in Nat, NEW f, NEW g, NEW p, Drifts(f, g, p, n, W)
  PROVE  /\ SumLoop(f, 0, n) \in Int /\ SumLoop(g, 0, n) \in Int /\ SumLoop(p, 0, n) \in Int
         /\ (\A k \in 0 .. n - 1 : g[k] = f[k] + p[k]) =>
              SumLoop(g, 0, n) = SumLoop(f, 0, n) + SumLoop(p, 0, n)
         /\ (\E k \in 0 .. n - 1 : g[k] # f[k] + p[k]) =>
              SumLoop(g, 0, n) <= SumLoop(f, 0, n) + SumLoop(p, 0, n) - W
  <1> DEFINE F(m) == SumLoop(f, 0, m)
             G(m) == SumLoop(g, 0, m)
             P(m) == SumLoop(p, 0, m)
             Good(m) == /\ G(m) <= F(m) + P(m)
                        /\ (\A k \in 0 .. m - 1 : g[k] = f[k] + p[k]) => G(m) = F(m) + P(m)
                        /\ (\E k \in 0 .. m - 1 : g[k] # f[k] + p[k]) => G(m) <= F(m) + P(m) - W
             S == {m \in Nat : m <= n => Good(m)}
  <1>1. /\ F(0) = 0 /\ \A m \in 0 .. n : F(m) \in Int
        /\ \A m \in 0 .. n - 1 : F(m + 1) = F(m) + f[m]
    <2>1. \A k \in 0 .. n - 1 : f[k] \in Int
      BY DEF Drifts
    <2> QED BY <2>1, SumFromZero
  <1>2. /\ G(0) = 0 /\ \A m \in 0 .. n : G(m) \in Int
        /\ \A m \in 0 .. n - 1 : G(m + 1) = G(m) + g[m]
    <2>1. \A k \in 0 .. n - 1 : g[k] \in Int
      BY DEF Drifts
    <2> QED BY <2>1, SumFromZero
  <1>3. /\ P(0) = 0 /\ \A m \in 0 .. n : P(m) \in Int
        /\ \A m \in 0 .. n - 1 : P(m + 1) = P(m) + p[m]
    <2>1. \A k \in 0 .. n - 1 : p[k] \in Int
      BY DEF Drifts
    <2> QED BY <2>1, SumFromZero
  <1> HIDE DEF F, G, P
  <1>4. 0 \in S
    BY <1>1, <1>2, <1>3
  <1>5. ASSUME NEW m \in Nat, m \in S PROVE m + 1 \in S
    <2> SUFFICES ASSUME m + 1 <= n PROVE Good(m + 1)
      OBVIOUS
    <2>1. m \in 0 .. n - 1 /\ m \in 0 .. n /\ Good(m)
      BY <1>5
    <2>2. /\ F(m) \in Int /\ G(m) \in Int /\ P(m) \in Int /\ f[m] \in Int /\ g[m] \in Int /\ p[m] \in Int
          /\ F(m + 1) = F(m) + f[m] /\ G(m + 1) = G(m) + g[m] /\ P(m + 1) = P(m) + p[m]
          /\ g[m] = f[m] + p[m] \/ g[m] = f[m] + p[m] - W
      BY <1>1, <1>2, <1>3, <2>1 DEF Drifts
    <2>3. \A k \in 0 .. m : k \in 0 .. m - 1 \/ k = m
      OBVIOUS
    <2>4. (m + 1) - 1 = m /\ \A k \in 0 .. m - 1 : k \in 0 .. m
      OBVIOUS
    <2>5. CASE \A k \in 0 .. m - 1 : g[k] = f[k] + p[k]
      <3>1. G(m) = F(m) + P(m)
        BY <2>1, <2>5
      <3>2. CASE g[m] = f[m] + p[m]
        <4>1. \A k \in 0 .. m : g[k] = f[k] + p[k]
          BY <2>3, <2>5, <3>2
        <4>2. G(m + 1) = F(m + 1) + P(m + 1)
          BY <2>2, <3>1, <3>2
        <4>3. F(m + 1) \in Int /\ P(m + 1) \in Int
          BY <2>2
        <4> QED BY <2>4, <4>1, <4>2, <4>3
      <3>3. CASE g[m] # f[m] + p[m]
        <4>1. G(m + 1) <= F(m + 1) + P(m + 1) - W /\ G(m + 1) <= F(m + 1) + P(m + 1)
          BY <2>2, <3>1, <3>3
        <4>2. ~\A k \in 0 .. m : g[k] = f[k] + p[k]
          BY <3>3
        <4> QED BY <2>4, <4>1, <4>2
      <3> QED BY <3>2, <3>3
    <2>6. CASE \E k \in 0 .. m - 1 : g[k] # f[k] + p[k]
      <3>1. G(m) <= F(m) + P(m) - W
        BY <2>1, <2>6
      <3>2. G(m + 1) <= F(m + 1) + P(m + 1) - W /\ G(m + 1) <= F(m + 1) + P(m + 1)
        BY <2>2, <3>1
      <3>3. ~\A k \in 0 .. m : g[k] = f[k] + p[k]
        BY <2>6, <2>4
      <3> QED BY <2>4, <3>2, <3>3
    <2> QED BY <2>5, <2>6
  <1> HIDE DEF S
  <1>6. n \in S
    BY <1>4, <1>5, SetInduction
  <1>7. Good(n)
    BY <1>6 DEF S
  <1> QED BY <1>1, <1>2, <1>3, <1>7 DEF F, G, P

-----------------------------------------------------------------------------
(* Arithmetic modulo M: what the u32 words of the parties stand for. *)

Cong(a, b) == \E k \in Int : a = b + k * M

LEMMA CongRules ==
  ASSUME NEW a \in Int, NEW b \in Int, NEW c \in Int, NEW d \in Int, Cong(a, b), Cong(c, d)
  PROVE  Cong(a + c, b + d) /\ Cong(a - c, b - d) /\ Cong(a * c, b * d)
  <1>0. M \in Int
    BY ModulusAssumption
  <1>1. PICK k \in Int : a = b + k * M
    BY DEF Cong
  <1>2. PICK l \in Int : c = d + l * M
    BY DEF Cong
  <1>3. a + c = (b + d) + (k + l) * M /\ a - c = (b - d) + (k - l) * M
    BY <1>0, <1>1, <1>2
  <1>4. a * c = b * d + (b * l + k * d + k * l * M) * M
    BY <1>0, <1>1, <1>2
  <1>5. k + l \in Int /\ k - l \in Int /\ b * l + k * d + k * l * M \in Int
    BY <1>0
  <1> QED BY <1>3, <1>4, <1>5 DEF Cong

LEMMA CongAdd ==
  ASSUME NEW a \in Int, NEW b \in Int, NEW c \in Int, NEW d \in Int, Cong(a, b), Cong(c, d)
  PROVE  a + c \in Int /\ b + d \in Int /\ Cong(a + c, b + d)
  BY CongRules

LEMMA CongSub ==
  ASSUME NEW a \in Int, NEW b \in Int, NEW c \in Int, NEW d \in Int, Cong(a, b), Cong(c, d)
  PROVE  a - c \in Int /\ b - d \in Int /\ Cong(a - c, b - d)
  BY CongRules

LEMMA CongMul ==
  ASSUME NEW a \in Int, NEW b \in Int, NEW c \in Int, NEW d \in Int, Cong(a, b), Cong(c, d)
  PROVE  a * c \in Int /\ b * d \in Int /\ Cong(a * c, b * d)
  BY CongRules

LEMMA CongSelf ==
  ASSUME NEW a \in Int
  PROVE  Cong(a, a)
  <1>1. a = a + 0 * M
    BY ModulusAssumption
  <1> QED BY <1>1 DEF Cong

LEMMA CongTrans ==
  ASSUME NEW a \in Int, NEW b \in Int, NEW c \in Int, Cong(a, b), Cong(b, c)
  PROVE  Cong(a, c)
  <1>1. PICK k \in Int : a = b + k * M
    BY DEF Cong
  <1>2. PICK l \in Int : b = c + l * M
    BY DEF Cong
  <1>3. a = c + (k + l) * M /\ k + l \in Int
    BY <1>1, <1>2, ModulusAssumption
  <1> QED BY <1>3 DEF Cong

\* u32 keeps the class and is in the range of a word.
LEMMA WordOf ==
  ASSUME NEW n \in Int
  PROVE  u32(n) \in 0 .. M - 1 /\ u32(n) \in Int /\ Cong(u32(n), n)
  <1>1. M \in Nat \ {0}
    BY ModulusAssumption
  <1>2. n % M \in 0 .. M - 1 /\ n = M * (n \div M) + (n % M) /\ n \div M \in Int
    BY <1>1
  <1>3. n % M = n + (-(n \div M)) * M /\ -(n \div M) \in Int
    BY <1>1, <1>2
  <1> QED BY <1>2, <1>3 DEF u32, Cong

\* A word is determined by its class.
LEMMA WordUnique ==
  ASSUME NEW n \in Int, NEW r \in 0 .. M - 1, Cong(n, r)
  PROVE  u32(n) = r
  <1>1. PICK k \in Int : n = r + k * M
    BY DEF Cong
  <1>2. PICK l \in Int : u32(n) = n + l * M
    BY WordOf DEF Cong
  <1> DEFINE j == k + l
             w == u32(n)
  <1>3. w = r + j * M /\ j \in Int /\ M \in Nat \ {0} /\ w \in 0 .. M - 1
    BY <1>1, <1>2, WordOf, ModulusAssumption
  <1> HIDE DEF j, w
  <1>4. CASE j = 0
    BY <1>3, <1>4 DEF w
  <1>5. CASE j >= 1
    <2>1. j * M >= M
      BY <1>3, <1>5
    <2> QED BY <1>3, <2>1
  <1>6. CASE j <= -1
    <2>1. j * M <= -M
      BY <1>3, <1>6
    <2> QED BY <1>3, <2>1
  <1> QED BY <1>3, <1>4, <1>5, <1>6

-----------------------------------------------------------------------------
(* The masked evaluation of the power of a distance. *)

LEMMA SmallPowers ==
  ASSUME NEW b \in Int
  PROVE  Pow(b, 1) = b /\ Pow(b, 2) = b * b
  <1>1. Pow(b, 0) = 1 /\ \A n \in Nat : Pow(b, n + 1) = b * Pow(b, n)
    BY PowFacts
  <1>2. Pow(b, 0 + 1) = b * 1
    BY <1>1
  <1>3. Pow(b, 1) = b
    BY <1>2
  <1>4. Pow(b, 1 + 1) = b * Pow(b, 1)
    BY <1>1
  <1> QED BY <1>3, <1>4

\* fast_pow is the power modulo M.
LEMMA FastPow ==
  ASSUME NEW b \in Int
  PROVE  /\ fast_pow(b, 1) \in 0 .. M - 1 /\ fast_pow(b, 1) \in Int /\ Cong(fast_pow(b, 1), b)
         /\ fast_pow(b, 2) \in 0 .. M - 1 /\ fast_pow(b, 2) \in Int /\ Cong(fast_pow(b, 2), b * b)
  <1>1. fast_pow(b, 1) = u32(b) /\ fast_pow(b, 2) = u32(b * b)
    BY SmallPowers DEF fast_pow
  <1>2. b * b \in Int
    OBVIOUS
  <1> QED BY <1>1, <1>2, WordOf

\* The only binomial coefficient the metrics need.
LEMMA CombinationTwo == combination(2, 1) = 2
  <1> DEFINE Eq(s) == s = [i \in 0 .. 1 |-> IF i = 0 THEN 1 ELSE (s[i - 1] * (2 - i + 1)) \div i]
             r == CHOOSE s : Eq(s)
             h == [i \in 0 .. 1 |-> IF i = 0 THEN 1 ELSE 2]
  <1>1. Eq(h)
    <2>1. h[0] = 1 /\ h[1] = 2
      OBVIOUS
    <2>2. (1 * (2 - 1 + 1)) \div 1 = 2
      OBVIOUS
    <2>3. \A i \in 0 .. 1 : i = 0 \/ i = 1
      OBVIOUS
    <2>4. \A i \in 0 .. 1 : h[i] = IF i = 0 THEN 1 ELSE (h[i - 1] * (2 - i + 1)) \div i
      BY <2>1, <2>2, <2>3
    <2> QED BY <2>4
  <1>2. Eq(r)
    <2> HIDE DEF Eq, h
    <2> QED BY <1>1
  <1> HIDE DEF r
  <1>3. r[0] = 1 /\ r[1] = (r[0] * (2 - 1 + 1)) \div 1
    BY <1>2
  <1>4. r[1] = 2
    BY <1>3
  <1>5. combination(2, 1) = r[1]
    BY DEF combination, r
  <1> QED BY <1>4, <1>5

\* The sums over the powers below METRIC: none for METRIC = 1, one term for
\* METRIC = 2.
LEMMA LowSums ==
  ASSUME NEW f
  PROVE  /\ METRIC = 1 => SumLoop(f, 1, METRIC) = 0
         /\ METRIC = 2 /\ f[1] \in Int => SumLoop(f, 1, METRIC) = f[1]
  <1>1. SumLoop(f, 1, 1) = 0
    <2>1. 1 \in Nat /\ \A k \in 1 .. 1 - 1 : f[k] \in Int
      OBVIOUS
    <2>2. 1 <= 1 => SumLoop(f, 1, 1) = 0
      BY <2>1, SumFacts
    <2> QED BY <2>2
  <1>2. ASSUME f[1] \in Int PROVE SumLoop(f, 1, 2) = f[1]
    <2>1. 1 \in Nat /\ 2 \in Nat /\ \A k \in 1 .. 2 - 1 : f[k] \in Int
      BY <1>2
    <2>2. \A m \in 1 .. 2 - 1 : SumLoop(f, 1, m + 1) = SumLoop(f, 1, m) + f[m]
      BY <2>1, SumFacts
    <2>3. SumLoop(f, 1, 1 + 1) = SumLoop(f, 1, 1) + f[1]
      BY <2>2
    <2> QED BY <1>1, <1>2, <2>3
  <1> QED BY <1>1, <1>2

\* METRIC = 1: one masked distance on each side.
LEMMA SharesLinear ==
  ASSUME METRIC = 1, NEW a \in [Power -> 0 .. M - 1], NEW dv, NEW bD, NEW mask \in 0 .. M - 1,
         NEW diff \in Int, NEW e \in Int
  PROVE  LET v == VHat(VCandidates(PrefixVals(a, diff), e, dv, bD, mask), a, CVole(a, bD, dv))
         IN v \in 0 .. M - 1 /\ Cong(v, mask - (diff + e))
  <1>0. 1 \in Power /\ Power = {1} /\ M \in Nat \ {0}
    BY ModulusAssumption DEF Power
  <1> DEFINE a1 == a[1]
             row == PrefixVals(a, diff)
             u1 == u32(a1 + fast_pow(diff, 1))
             uh == u32(u1 + fast_pow(e, 1))
             v1 == u32(mask - uh)
             vc == VCandidates(row, e, dv, bD, mask)
             vh == u32(a1 + v1)
  <1>1. a1 \in Int /\ mask \in Int
    BY <1>0
  <1>2. row[1] = u1
    BY <1>0 DEF PrefixVals
  <1>3. UHat(row, e, dv) = uh
    <2> DEFINE f == [s \in LowPower |-> MidVal(e, s) * row[s] - dv[s]]
    <2>1. SumLoop(f, 1, METRIC) = 0
      BY LowSums
    <2>2. UHat(row, e, dv) = u32(row[METRIC] + fast_pow(e, METRIC) + SumLoop(f, 1, METRIC))
      BY DEF UHat
    <2>3. UHat(row, e, dv) = u32(u1 + fast_pow(e, 1) + 0)
      BY <1>2, <2>1, <2>2
    <2>4. u1 \in Int /\ fast_pow(e, 1) \in Int
      BY <1>1, FastPow, WordOf
    <2>5. u1 + fast_pow(e, 1) + 0 = u1 + fast_pow(e, 1)
      BY <2>4
    <2> QED BY <2>3, <2>5
  <1>4. vc[1] = v1
    BY <1>0, <1>3 DEF VCandidates
  <1>5. VHat(vc, a, CVole(a, bD, dv)) = vh
    <2> DEFINE c == CVole(a, bD, dv)
               f == [s \in LowPower |-> vc[s] * a[s] - c[s]]
    <2>1. SumLoop(f, 1, METRIC) = 0
      BY LowSums
    <2>2. VHat(vc, a, c) = u32(a[METRIC] + vc[METRIC] + SumLoop(f, 1, METRIC))
      BY DEF VHat
    <2>3. VHat(vc, a, c) = u32(a1 + v1 + 0)
      BY <1>4, <2>1, <2>2
    <2>4. uh \in Int
      BY <1>1, FastPow, WordOf
    <2>5. v1 \in Int
      BY <1>1, <2>4, WordOf
    <2>6. a1 + v1 + 0 = a1 + v1
      BY <1>1, <2>5
    <2> QED BY <2>3, <2>6
  <1>6. u1 \in Int /\ Cong(u1, a1 + diff)
    <2>1. fast_pow(diff, 1) \in Int /\ Cong(fast_pow(diff, 1), diff)
      BY FastPow
    <2>2. Cong(a1 + fast_pow(diff, 1), a1 + diff)
      BY <1>1, <2>1, CongSelf, CongRules
    <2>3. a1 + fast_pow(diff, 1) \in Int /\ a1 + diff \in Int
      BY <1>1, <2>1
    <2> QED BY <2>2, <2>3, WordOf, CongTrans
  <1>7. uh \in Int /\ Cong(uh, a1 + diff + e)
    <2>1. fast_pow(e, 1) \in Int /\ Cong(fast_pow(e, 1), e)
      BY FastPow
    <2> HIDE DEF u1
    <2>0. a1 + diff \in Int
      BY <1>1
    <2>2. Cong(u1 + fast_pow(e, 1), (a1 + diff) + e)
      BY <1>6, <2>0, <2>1, CongRules
    <2>3. u1 + fast_pow(e, 1) \in Int /\ a1 + diff + e \in Int
      BY <1>1, <1>6, <2>1
    <2> QED BY <2>2, <2>3, WordOf, CongTrans
  <1> HIDE DEF uh
  <1>8. v1 \in Int /\ Cong(v1, mask - (a1 + diff + e))
    <2>0. a1 + diff + e \in Int /\ Cong(mask, mask)
      BY <1>1, CongSelf
    <2>1. Cong(mask - uh, mask - (a1 + diff + e))
      BY <1>1, <1>7, <2>0, CongRules
    <2>2. mask - uh \in Int /\ mask - (a1 + diff + e) \in Int
      BY <1>1, <1>7
    <2> QED BY <2>1, <2>2, WordOf, CongTrans
  <1> HIDE DEF v1
  <1>9. vh \in 0 .. M - 1 /\ Cong(vh, mask - (diff + e))
    <2>0. mask - (a1 + diff + e) \in Int /\ Cong(a1, a1)
      BY <1>1, CongSelf
    <2>1. Cong(a1 + v1, a1 + (mask - (a1 + diff + e)))
      BY <1>1, <1>8, <2>0, CongRules
    <2>2. a1 + v1 \in Int /\ a1 + (mask - (a1 + diff + e)) = mask - (diff + e) /\ mask - (diff + e) \in Int
      BY <1>1, <1>8
    <2>3. Cong(a1 + v1, mask - (diff + e))
      BY <2>1, <2>2
    <2> QED BY <2>2, <2>3, WordOf, CongTrans
  <1> QED BY <1>5, <1>9

\* A word computed from words stands for what is computed from their classes.
LEMMA WordClass ==
  ASSUME NEW n \in Int, NEW t \in Int, Cong(n, t)
  PROVE  u32(n) \in Int /\ u32(n) \in 0 .. M - 1 /\ Cong(u32(n), t)
  BY WordOf, CongTrans

\* METRIC = 2: the sender squares diff + e from the masked powers of diff,
\* and the VOLE correlation removes the mask of the mixed term.
LEMMA SharesSquare ==
  ASSUME METRIC = 2, NEW a \in [Power -> 0 .. M - 1], NEW dv \in [LowPower -> 0 .. M - 1],
         NEW bD \in 0 .. M - 1, NEW mask \in 0 .. M - 1, NEW diff \in Int, NEW e \in Int
  PROVE  LET v == VHat(VCandidates(PrefixVals(a, diff), e, dv, bD, mask), a, CVole(a, bD, dv))
         IN v \in 0 .. M - 1 /\ Cong(v, mask - (diff + e) * (diff + e))
  <1>0. 1 \in Power /\ 2 \in Power /\ 1 \in LowPower /\ M \in Nat \ {0} /\ 2 - 1 = 1
    BY ModulusAssumption DEF Power, LowPower
  <1> DEFINE a1 == a[1]
             a2 == a[2]
             d1 == dv[1]
             f1 == fast_pow(diff, 1)
             f2 == fast_pow(diff, 2)
             e1 == fast_pow(e, 1)
             e2 == fast_pow(e, 2)
             row == PrefixVals(a, diff)
             u1 == u32(a1 + f1)
             u2 == u32(a2 + f2)
             mid == u32(2 * e1)
             uh == u32(u2 + e2 + (mid * u1 - d1))
             vc == VCandidates(row, e, dv, bD, mask)
             c == CVole(a, bD, dv)
             v1 == u32(mid + bD)
             v2 == u32(mask - uh)
             c1 == u32(a1 * bD + d1)
             vh == u32(a2 + v2 + (v1 * a1 - c1))
             T1 == a1 + diff
             T2 == a2 + diff * diff
             Tm == 2 * e
             Tp == Tm * T1
             Tq == Tp - d1
             Th == T2 + e * e + Tq
             Tv == Tm + bD
             Tw == mask - Th
             Tc == a1 * bD + d1
             Tr == Tv * a1 - Tc
  <1>1. a1 \in Int /\ a2 \in Int /\ d1 \in Int /\ mask \in Int /\ bD \in Int
    BY <1>0
  <1>s. Cong(a1, a1) /\ Cong(a2, a2) /\ Cong(d1, d1) /\ Cong(mask, mask) /\ Cong(bD, bD) /\ Cong(2, 2)
    BY <1>1, CongSelf
  <1>2. /\ f1 \in Int /\ f2 \in Int /\ e1 \in Int /\ e2 \in Int
        /\ Cong(f1, diff) /\ Cong(f2, diff * diff) /\ Cong(e1, e) /\ Cong(e2, e * e)
    BY FastPow
  <1>3. row[1] = u1 /\ row[2] = u2
    BY <1>0 DEF PrefixVals
  <1>4. MidVal(e, 1) = mid
    BY <1>0, CombinationTwo DEF MidVal
  <1>5. T1 \in Int /\ T2 \in Int /\ Tm \in Int /\ diff * diff \in Int /\ e * e \in Int
    BY <1>1
  <1>6. Tp \in Int /\ Tq \in Int /\ Th \in Int /\ Tw \in Int
    <2> HIDE DEF T1, T2, Tm
    <2>1. Tp \in Int
      BY <1>5
    <2> HIDE DEF Tp
    <2> QED BY <1>1, <1>5, <2>1
  <1>7. Tv \in Int /\ Tc \in Int /\ Tr \in Int
    <2> HIDE DEF Tm
    <2>1. Tv \in Int /\ Tc \in Int
      BY <1>1, <1>5
    <2> HIDE DEF Tv, Tc
    <2> QED BY <1>1, <2>1
  <1> HIDE DEF a1, a2, d1, f1, f2, e1, e2, row
  <1>8. u1 \in Int /\ Cong(u1, T1)
    <2>1. Cong(a1 + f1, a1 + diff) /\ a1 + f1 \in Int
      BY <1>1, <1>s, <1>2, CongAdd
    <2> QED BY <1>5, <2>1, WordClass
  <1>9. u2 \in Int /\ Cong(u2, T2)
    <2>1. Cong(a2 + f2, a2 + diff * diff) /\ a2 + f2 \in Int
      BY <1>1, <1>s, <1>2, <1>5, CongAdd
    <2> QED BY <1>5, <2>1, WordClass
  <1>10. mid \in Int /\ Cong(mid, Tm)
    <2>1. Cong(2 * e1, 2 * e) /\ 2 * e1 \in Int
      BY <1>s, <1>2, CongMul
    <2> QED BY <1>5, <2>1, WordClass
  <1> HIDE DEF u1, u2, mid, T1, T2, Tm
  <1>11. mid * u1 - d1 \in Int /\ Cong(mid * u1 - d1, Tq)
    <2>1. mid * u1 \in Int /\ Cong(mid * u1, Tp)
      BY <1>5, <1>8, <1>10, CongMul DEF Tp
    <2> DEFINE mu == mid * u1
    <2> HIDE DEF Tp, mu
    <2>2. mu \in Int /\ Cong(mu, Tp)
      BY <2>1 DEF mu
    <2>3. mu - d1 \in Int /\ Cong(mu - d1, Tp - d1)
      BY <1>1, <1>s, <1>6, <2>2, CongSub
    <2> QED BY <2>3 DEF mu
  <1> DEFINE mm == mid * u1 - d1
  <1> HIDE DEF Tp, Tq, mm
  <1>12. uh \in Int /\ Cong(uh, Th)
    <2>1. mm \in Int /\ Cong(mm, Tq)
      BY <1>11 DEF mm
    <2>2. u2 + e2 \in Int /\ T2 + e * e \in Int /\ Cong(u2 + e2, T2 + e * e)
      BY <1>2, <1>5, <1>9, CongAdd
    <2> DEFINE up == u2 + e2
               tp == T2 + e * e
    <2> HIDE DEF up, tp
    <2>a. up \in Int /\ tp \in Int /\ Cong(up, tp)
      BY <2>2 DEF up, tp
    <2>b. up + mm \in Int /\ Cong(up + mm, tp + Tq)
      BY <1>6, <2>1, <2>a, CongAdd
    <2>3. (u2 + e2) + mm \in Int /\ Cong((u2 + e2) + mm, (T2 + e * e) + Tq)
      BY <2>b DEF up, tp
    <2>4. uh = u32(u2 + e2 + mm)
      BY DEF mm
    <2> HIDE DEF uh
    <2> QED BY <1>6, <2>3, <2>4, WordClass
  <1>13. UHat(row, e, dv) = uh
    <2> DEFINE f == [s \in LowPower |-> MidVal(e, s) * row[s] - dv[s]]
    <2>1. f[1] = mid * u1 - d1
      BY <1>0, <1>3, <1>4 DEF d1
    <2>2. SumLoop(f, 1, METRIC) = f[1]
      BY <1>11, <2>1, LowSums
    <2>3. UHat(row, e, dv) = u32(row[METRIC] + fast_pow(e, METRIC) + SumLoop(f, 1, METRIC))
      BY DEF UHat
    <2>4. row[METRIC] = u2 /\ fast_pow(e, METRIC) = e2
      BY <1>3 DEF e2
    <2> HIDE DEF f
    <2> QED BY <2>1, <2>2, <2>3, <2>4
  <1>14. vc[1] = v1 /\ vc[2] = v2
    BY <1>0, <1>4, <1>13 DEF VCandidates
  <1>15. c[1] = c1
    BY <1>0 DEF CVole, a1, d1
  <1> HIDE DEF uh, vc, c, Th
  <1>16. v1 \in Int /\ Cong(v1, Tv)
    <2>1. mid + bD \in Int /\ Cong(mid + bD, Tm + bD)
      BY <1>1, <1>s, <1>5, <1>10, CongAdd
    <2> QED BY <1>7, <2>1, WordClass
  <1>17. v2 \in Int /\ Cong(v2, Tw)
    <2>1. mask - uh \in Int /\ Cong(mask - uh, mask - Th)
      BY <1>1, <1>s, <1>6, <1>12, CongSub
    <2> QED BY <1>6, <2>1, WordClass
  <1>18. c1 \in Int /\ Cong(c1, Tc)
    BY <1>7, CongSelf, WordClass
  <1> HIDE DEF v1, v2, c1, Tv, Tw, Tc
  <1>19. v1 * a1 - c1 \in Int /\ Cong(v1 * a1 - c1, Tr)
    <2>1. v1 * a1 \in Int /\ Tv * a1 \in Int /\ Cong(v1 * a1, Tv * a1)
      BY <1>1, <1>s, <1>7, <1>16, CongMul
    <2> DEFINE va == v1 * a1
               ta == Tv * a1
    <2> HIDE DEF va, ta
    <2>2. va \in Int /\ ta \in Int /\ Cong(va, ta)
      BY <2>1 DEF va, ta
    <2>3. va - c1 \in Int /\ Cong(va - c1, ta - Tc)
      BY <1>7, <1>18, <2>2, CongSub
    <2> QED BY <2>3 DEF va, ta
  <1> DEFINE ww == v1 * a1 - c1
             goal == mask - (diff + e) * (diff + e)
  <1> HIDE DEF ww, Tr
  <1>20. vh \in 0 .. M - 1 /\ Cong(vh, a2 + Tw + Tr)
    <2>1. ww \in Int /\ Cong(ww, Tr)
      BY <1>19 DEF ww
    <2>2. a2 + v2 \in Int /\ a2 + Tw \in Int /\ Cong(a2 + v2, a2 + Tw)
      BY <1>1, <1>s, <1>6, <1>17, CongAdd
    <2> DEFINE vp == a2 + v2
               tp == a2 + Tw
    <2> HIDE DEF vp, tp
    <2>a. vp \in Int /\ tp \in Int /\ Cong(vp, tp)
      BY <2>2 DEF vp, tp
    <2>b. vp + ww \in Int /\ tp + Tr \in Int /\ Cong(vp + ww, tp + Tr)
      BY <1>7, <2>1, <2>a, CongAdd
    <2>3. (a2 + v2) + ww \in Int /\ (a2 + Tw) + Tr \in Int /\ Cong((a2 + v2) + ww, (a2 + Tw) + Tr)
      BY <2>b DEF vp, tp
    <2>4. vh = u32(a2 + v2 + ww)
      BY DEF ww
    <2> HIDE DEF vh
    <2> QED BY <2>3, <2>4, WordClass
  <1>21. VHat(vc, a, c) = vh
    <2> DEFINE f == [s \in LowPower |-> vc[s] * a[s] - c[s]]
    <2>1. f[1] = v1 * a1 - c1
      BY <1>0, <1>14, <1>15 DEF a1
    <2>2. SumLoop(f, 1, METRIC) = f[1]
      BY <1>19, <2>1, LowSums
    <2>3. VHat(vc, a, c) = u32(a[METRIC] + vc[METRIC] + SumLoop(f, 1, METRIC))
      BY DEF VHat
    <2>4. a[METRIC] = a2 /\ vc[METRIC] = v2
      BY <1>14 DEF a2
    <2> HIDE DEF f
    <2> QED BY <2>1, <2>2, <2>3, <2>4
  <1>22. a2 + Tw + Tr = goal
    <2>1. a2 + Tw + Tr = a2 + (mask - ((a2 + diff * diff) + e * e + ((2 * e) * (a1 + diff) - d1)))
                           + ((2 * e + bD) * a1 - (a1 * bD + d1))
      BY DEF Tw, Tr, Th, T2, Tq, Tp, Tm, T1, Tv, Tc
    <2>2. (diff + e) * (diff + e) = diff * diff + 2 * (diff * e) + e * e
      OBVIOUS
    <2>3. (2 * e) * (a1 + diff) = 2 * (e * a1) + 2 * (diff * e) /\ (2 * e + bD) * a1 = 2 * (e * a1) + a1 * bD
      BY <1>1
    <2> DEFINE x == diff * diff
               y == diff * e
               z == e * e
               w == e * a1
               t == a1 * bD
    <2>4. x \in Int /\ y \in Int /\ z \in Int /\ w \in Int /\ t \in Int
      BY <1>1
    <2>5. /\ a2 + Tw + Tr = a2 + (mask - ((a2 + x) + z + ((2 * w + 2 * y) - d1))) + ((2 * w + t) - (t + d1))
          /\ goal = mask - (x + 2 * y + z)
      BY <2>1, <2>2, <2>3
    <2> HIDE DEF x, y, z, w, t, goal
    <2> QED BY <1>1, <2>4, <2>5
  <1> QED BY <1>20, <1>21, <1>22 DEF vc, c, row

\* What mp_ssFMat_lp computes for a string: v_hat and the mask of the sender
\* are shares of the power of diff + e.
THEOREM PowerShares ==
  ASSUME NEW a \in [Power -> 0 .. M - 1], NEW dv \in [LowPower -> 0 .. M - 1],
         NEW bD \in 0 .. M - 1, NEW mask \in 0 .. M - 1, NEW diff \in Int, NEW e \in Int
  PROVE  LET v == VHat(VCandidates(PrefixVals(a, diff), e, dv, bD, mask), a, CVole(a, bD, dv))
         IN v \in 0 .. M - 1 /\ u32(v + Pow(diff + e, METRIC)) = mask
  <1> DEFINE v == VHat(VCandidates(PrefixVals(a, diff), e, dv, bD, mask), a, CVole(a, bD, dv))
             pw == Pow(diff + e, METRIC)
  <1>1. v \in 0 .. M - 1 /\ pw \in Int /\ Cong(v, mask - pw)
    <2>0. diff + e \in Int
      OBVIOUS
    <2>1. CASE METRIC = 1
      <3>1. pw = diff + e
        BY <2>0, <2>1, SmallPowers
      <3> QED BY <2>0, <2>1, <3>1, SharesLinear
    <2>2. CASE METRIC = 2
      <3>1. pw = (diff + e) * (diff + e)
        BY <2>0, <2>2, SmallPowers
      <3>2. pw \in Int
        BY <2>0, <3>1
      <3> QED BY <2>2, <3>1, <3>2, SharesSquare
    <2> QED BY <2>1, <2>2, LpMetricAssumption
  <1> HIDE DEF v, pw
  <1>2. v \in Int /\ mask - pw \in Int /\ mask \in Int
    BY <1>1
  <1>3. Cong(v + pw, (mask - pw) + pw) /\ v + pw \in Int
    BY <1>1, <1>2, CongSelf, CongAdd
  <1>4. (mask - pw) + pw = mask
    BY <1>1, <1>2
  <1>5. u32(v + pw) = mask
    BY <1>3, <1>4, WordUnique
  <1> QED BY <1>1, <1>5 DEF v, pw

\* The power of a distance up to DELTA.
LEMMA PowerBounds ==
  ASSUME NEW n \in 0 .. DELTA
  PROVE  Pow(DELTA, METRIC) \in Nat /\ Pow(n, METRIC) \in 0 .. Pow(DELTA, METRIC)
  <1>1. DELTA \in Nat /\ n \in Nat /\ n <= DELTA
    BY CoordAssumption
  <1>2. CASE METRIC = 1
    BY <1>1, <1>2, SmallPowers
  <1>3. CASE METRIC = 2
    <2>1. Pow(DELTA, METRIC) = DELTA * DELTA /\ Pow(n, METRIC) = n * n
      BY <1>1, <1>3, SmallPowers
    <2>2. n * n <= n * DELTA /\ n * DELTA <= DELTA * DELTA /\ n * n \in Nat
      BY <1>1
    <2> QED BY <1>1, <2>1, <2>2
  <1> QED BY <1>2, <1>3, LpMetricAssumption

-----------------------------------------------------------------------------
(* The strings of a coordinate. *)

LEMMA LevelSets == LevelSet(LevelsPlus) /\ LevelSet(Levels) /\ LevelSet(LevelsIf)
  BY LevelSetAssumption DEF LevelSet

\* |x - y|
Distance(x, y) == IF x > y THEN x - y ELSE y - x

\* A string of x that is a prefix of y: the two are close, and diff and e
\* are the two parts of their distance.
LEMMA StringMeans ==
  ASSUME NEW x \in Coord, NEW y \in Coord, NEW sg \in Sigma,
         NEW p \in Strings(sg, x) \cap Prefixes(sg, y)
  PROVE  /\ IF sg = 0 THEN y \in x - DELTA .. x ELSE y \in x + 1 .. x + DELTA
         /\ Diff(sg, x, p) \in Int /\ Gap(sg, y, p) \in Int
         /\ Diff(sg, x, p) + Gap(sg, y, p) = Distance(x, y)
  <1>0. x \in Nat /\ y \in Nat /\ y \in Int /\ DELTA \in Nat /\ DELTA > 0 /\ x >= DELTA
    BY CoordAssumption, LowCoordAssumption
  <1>1. CASE sg = 0
    <2> DEFINE lo == x - DELTA
    <2>1. lo \in Nat /\ lo <= x
      BY <1>0
    <2>2. p \in set_dec(lo, x, LevelsPlus) \cap set_prefix(y, LevelsPlus)
      BY <1>1 DEF Strings, Prefixes
    <2> HIDE DEF lo
    <2>3. y \in lo .. x
      BY <1>0, <2>1, <2>2, LevelSets, OnePrefixInCommon
    <2>4. p.mu \in Nat /\ p.top \in Int
      BY <1>0, <2>1, <2>2, LevelSets, StringsInside
    <2>5. up_bound(p) \in Int
      BY <2>4, TwoToThe DEF up_bound
    <2>6. Diff(sg, x, p) = x - up_bound(p) /\ Gap(sg, y, p) = up_bound(p) - y
      BY <1>1 DEF Diff, Gap
    <2>7. (x - up_bound(p)) + (up_bound(p) - y) = x - y /\ Distance(x, y) = x - y
      BY <1>0, <2>1, <2>3, <2>5 DEF Distance
    <2> QED BY <1>0, <1>1, <2>3, <2>5, <2>6, <2>7 DEF lo
  <1>2. CASE sg = 1
    <2> DEFINE lo == x + 1
               hi == x + DELTA
    <2>1. lo \in Nat /\ hi \in Nat /\ lo <= hi
      BY <1>0
    <2>2. p \in set_dec(lo, hi, Levels) \cap set_prefix(y, Levels)
      BY <1>2 DEF Strings, Prefixes
    <2>8. \A z \in lo .. hi : z > x
      BY <1>0
    <2> HIDE DEF lo, hi
    <2>3. y \in lo .. hi
      BY <1>0, <2>1, <2>2, LevelSets, OnePrefixInCommon
    <2>4. p.mu \in Nat /\ p.top \in Int
      BY <1>0, <2>1, <2>2, LevelSets, StringsInside
    <2>5. low_bound(p) \in Int
      BY <2>4, TwoToThe DEF low_bound
    <2>6. Diff(sg, x, p) = low_bound(p) - x /\ Gap(sg, y, p) = y - low_bound(p)
      BY <1>2 DEF Diff, Gap
    <2>7. (low_bound(p) - x) + (y - low_bound(p)) = y - x /\ Distance(x, y) = y - x
      BY <1>0, <2>3, <2>5, <2>8 DEF Distance
    <2> QED BY <1>0, <1>2, <2>3, <2>5, <2>6, <2>7 DEF lo, hi
  <1> QED BY <1>1, <1>2 DEF Sigma

\* Close values have a string in common.
LEMMA StringExists ==
  ASSUME NEW x \in Coord, NEW y \in Coord, Near(x, y)
  PROVE  \E sg \in Sigma : Strings(sg, x) \cap Prefixes(sg, y) # {}
  <1>0. x \in Nat /\ y \in Nat /\ y \in Int /\ DELTA \in Nat /\ DELTA > 0 /\ x >= DELTA
    BY CoordAssumption, LowCoordAssumption
  <1>1. CASE y <= x
    <2> DEFINE lo == x - DELTA
    <2>1. lo \in Nat /\ lo <= x /\ y \in lo .. x
      BY <1>0, <1>1 DEF Near
    <2> HIDE DEF lo
    <2>2. set_dec(lo, x, LevelsPlus) \cap set_prefix(y, LevelsPlus) # {}
      BY <1>0, <2>1, LevelSets, OnePrefixInCommon
    <2>3. Strings(0, x) \cap Prefixes(0, y) # {}
      BY <2>2 DEF Strings, Prefixes, lo
    <2> QED BY <2>3 DEF Sigma
  <1>2. CASE ~(y <= x)
    <2> DEFINE lo == x + 1
               hi == x + DELTA
    <2>1. lo \in Nat /\ hi \in Nat /\ lo <= hi /\ y \in lo .. hi
      BY <1>0, <1>2 DEF Near
    <2> HIDE DEF lo, hi
    <2>2. set_dec(lo, hi, Levels) \cap set_prefix(y, Levels) # {}
      BY <1>0, <2>1, LevelSets, OnePrefixInCommon
    <2>3. Strings(1, x) \cap Prefixes(1, y) # {}
      BY <2>2 DEF Strings, Prefixes, lo, hi
    <2> QED BY <2>3 DEF Sigma
  <1> QED BY <1>1, <1>2

\* Never two strings in common, on one side or on both.
LEMMA StringUnique ==
  ASSUME NEW x \in Coord, NEW y \in Coord, NEW sg \in Sigma, NEW tg \in Sigma,
         NEW p \in Strings(sg, x) \cap Prefixes(sg, y),
         NEW q \in Strings(tg, x) \cap Prefixes(tg, y)
  PROVE  sg = tg /\ p = q /\ Near(x, y)
  <1>0. x \in Nat /\ y \in Nat /\ y \in Int /\ DELTA \in Nat /\ DELTA > 0 /\ x >= DELTA
    BY CoordAssumption, LowCoordAssumption
  <1>1. /\ IF sg = 0 THEN y \in x - DELTA .. x ELSE y \in x + 1 .. x + DELTA
        /\ IF tg = 0 THEN y \in x - DELTA .. x ELSE y \in x + 1 .. x + DELTA
    BY StringMeans
  <1>2. sg = tg /\ Near(x, y)
    BY <1>0, <1>1 DEF Sigma, Near
  <1>3. CASE sg = 0
    <2> DEFINE lo == x - DELTA
    <2>1. lo \in Nat /\ lo <= x
      BY <1>0
    <2>2. /\ p \in set_dec(lo, x, LevelsPlus) \cap set_prefix(y, LevelsPlus)
          /\ q \in set_dec(lo, x, LevelsPlus) \cap set_prefix(y, LevelsPlus)
      BY <1>2, <1>3 DEF Strings, Prefixes
    <2> HIDE DEF lo
    <2>3. p = q
      BY <1>0, <2>1, <2>2, LevelSets, OnePrefixInCommon
    <2> QED BY <1>2, <2>3
  <1>4. CASE sg = 1
    <2> DEFINE lo == x + 1
               hi == x + DELTA
    <2>1. lo \in Nat /\ hi \in Nat /\ lo <= hi
      BY <1>0
    <2>2. /\ p \in set_dec(lo, hi, Levels) \cap set_prefix(y, Levels)
          /\ q \in set_dec(lo, hi, Levels) \cap set_prefix(y, Levels)
      BY <1>2, <1>4 DEF Strings, Prefixes
    <2> HIDE DEF lo, hi
    <2>3. p = q
      BY <1>0, <2>1, <2>2, LevelSets, OnePrefixInCommon
    <2> QED BY <1>2, <2>3
  <1> QED BY <1>3, <1>4 DEF Sigma

-----------------------------------------------------------------------------
(* The first OPPRF. *)

\* Coordinates of the balls of both parties.
LEMMA Coordinates ==
  ASSUME InputInit, NEW d \in Dim
  PROVE  /\ \A i \in BallR : ballsR[i].pt[d] \in Coord /\ ballsR[i].id \in ID
         /\ \A s \in BallS : ballsS[s].pt[d] \in Coord /\ ballsS[s].id \in ID
  BY InputTypes DEF Point

\* Query q of bin b of thread d has its key in the list of the receiver.
Programmed(d, q) == \E i \in List(d) : i.key = q.key

\* The row that programs query q of bin b is that of a string which a
\* receiver ball has in common with the ball in the bin.
HitBy(d, b, q, r, i, sg, p) ==
  LET s == BallIn(b)
  IN /\ s # None /\ ballsR[i].id = ballsS[s].id
     /\ p \in Strings(sg, ballsR[i].pt[d]) \cap Prefixes(sg, ballsS[s].pt[d])
     /\ q = [key |-> Key(p, ballsS[s].id, slot[s], b, sg), e |-> Gap(sg, ballsS[s].pt[d], p)]
     /\ r.a0 = A0(d, b) /\ r.row = PrefixVals(draw.a[d][b], Diff(sg, ballsR[i].pt[d], p))

LEMMA ProgrammedRow ==
  ASSUME InputInit, NEW d \in Dim, NEW b \in Bin, NEW q \in BinKeys(d, b),
         NEW r \in List(d), r.key = q.key
  PROVE  \E i \in BallR, sg \in Sigma : \E p : HitBy(d, b, q, r, i, sg, p)
  <1>1. PICK i \in BallR, k \in HashIdx, sg \in Sigma :
          \E p \in Strings(sg, ballsR[i].pt[d]) :
            r = LET c == Loc(ballsR[i].id, k)
                IN [key |-> Key(p, ballsR[i].id, k, c, sg), a0 |-> A0(d, c),
                    row |-> PrefixVals(draw.a[d][c], Diff(sg, ballsR[i].pt[d], p))]
    BY DEF List
  <1>2. PICK p \in Strings(sg, ballsR[i].pt[d]) :
          r = LET c == Loc(ballsR[i].id, k)
              IN [key |-> Key(p, ballsR[i].id, k, c, sg), a0 |-> A0(d, c),
                  row |-> PrefixVals(draw.a[d][c], Diff(sg, ballsR[i].pt[d], p))]
    BY <1>1
  <1> DEFINE c == Loc(ballsR[i].id, k)
  <1>3. /\ r.key = Key(p, ballsR[i].id, k, c, sg) /\ r.a0 = A0(d, c)
        /\ r.row = PrefixVals(draw.a[d][c], Diff(sg, ballsR[i].pt[d], p))
    BY <1>2
  <1> HIDE DEF c
  <1>4. BallIn(b) # None
    <2> SUFFICES ASSUME BallIn(b) = None PROVE FALSE
      OBVIOUS
    <2>1. q.key.id = None
      BY DEF BinKeys, Key
    <2>2. r.key.id = ballsR[i].id /\ ballsR[i].id \in ID
      BY <1>3, Coordinates DEF Key
    <2> QED BY <2>1, <2>2, NoneAssumption
  <1> DEFINE s == BallIn(b)
  <1>a. PICK tg \in Sigma : \E t \in Prefixes(tg, ballsS[s].pt[d]) :
          q = [key |-> Key(t, ballsS[s].id, slot[s], b, tg), e |-> Gap(tg, ballsS[s].pt[d], t)]
    BY <1>4 DEF BinKeys
  <1>5. PICK t \in Prefixes(tg, ballsS[s].pt[d]) :
          q = [key |-> Key(t, ballsS[s].id, slot[s], b, tg), e |-> Gap(tg, ballsS[s].pt[d], t)]
    BY <1>a
  <1>6. Key(p, ballsR[i].id, k, c, sg) = Key(t, ballsS[s].id, slot[s], b, tg)
    BY <1>3, <1>5
  <1>7. p = t /\ ballsR[i].id = ballsS[s].id /\ c = b /\ sg = tg
    BY <1>6 DEF Key
  <1> HIDE DEF s
  <1>8. HitBy(d, b, q, r, i, sg, p)
    BY <1>2, <1>3, <1>4, <1>5, <1>7 DEF HitBy, s
  <1> QED BY <1>8

\* A receiver ball close to the ball in bin b programs one of its queries.
LEMMA CloseIsProgrammed ==
  ASSUME InputInit, NEW d \in Dim, NEW b \in Bin, BallIn(b) # None,
         NEW i \in BallR, CloseIn(d, i, BallIn(b))
  PROVE  \E q \in BinKeys(d, b) : Programmed(d, q)
  <1> DEFINE s == BallIn(b)
             x == ballsR[i].pt[d]
             y == ballsS[s].pt[d]
  <1>1. s \in BallS /\ Loc(ballsS[s].id, slot[s]) = b /\ slot[s] \in HashIdx
    BY BallsAndBins, InputTypes DEF BinOf
  <1>2. ballsR[i].id = ballsS[s].id /\ Near(x, y) /\ x \in Coord /\ y \in Coord
    BY <1>1, Coordinates DEF CloseIn
  <1>3. PICK sg \in Sigma : Strings(sg, x) \cap Prefixes(sg, y) # {}
    BY <1>2, StringExists
  <1>4. PICK p : p \in Strings(sg, x) /\ p \in Prefixes(sg, y)
    BY <1>3
  <1> DEFINE q == [key |-> Key(p, ballsS[s].id, slot[s], b, sg), e |-> Gap(sg, y, p)]
             r == [key |-> Key(p, ballsR[i].id, slot[s], b, sg), a0 |-> A0(d, b),
                   row |-> PrefixVals(draw.a[d][b], Diff(sg, x, p))]
  <1>5. q \in BinKeys(d, b)
    BY <1>4 DEF BinKeys
  <1>6. Loc(ballsR[i].id, slot[s]) = b
    BY <1>1, <1>2
  <1>7. r \in List(d)
    <2> DEFINE E(j, k, g) ==
          {LET c == Loc(ballsR[j].id, k)
           IN [key |-> Key(m, ballsR[j].id, k, c, g), a0 |-> A0(d, c),
               row |-> PrefixVals(draw.a[d][c], Diff(g, ballsR[j].pt[d], m))] :
             m \in Strings(g, ballsR[j].pt[d])}
    <2>1. r \in E(i, slot[s], sg)
      BY <1>4, <1>6
    <2>2. List(d) = UNION {E(j, k, g) : j \in BallR, k \in HashIdx, g \in Sigma}
      BY DEF List
    <2> HIDE DEF E, r
    <2> QED BY <1>1, <2>1, <2>2
  <1>8. r.key = q.key
    BY <1>2
  <1> QED BY <1>5, <1>7, <1>8 DEF Programmed

\* At most one query of a bin is programmed.
LEMMA OneProgrammed ==
  ASSUME InputInit, NEW d \in Dim, NEW b \in Bin, NEW q \in BinKeys(d, b), NEW t \in BinKeys(d, b),
         Programmed(d, q), Programmed(d, t)
  PROVE  q = t
  <1>1. PICK r \in List(d) : r.key = q.key
    BY DEF Programmed
  <1>2. PICK w \in List(d) : w.key = t.key
    BY DEF Programmed
  <1>a. PICK i \in BallR, sg \in Sigma : \E p : HitBy(d, b, q, r, i, sg, p)
    BY <1>1, ProgrammedRow
  <1>3. PICK p : HitBy(d, b, q, r, i, sg, p)
    BY <1>a
  <1>b. PICK j \in BallR, tg \in Sigma : \E m : HitBy(d, b, t, w, j, tg, m)
    BY <1>2, ProgrammedRow
  <1>4. PICK m : HitBy(d, b, t, w, j, tg, m)
    BY <1>b
  <1> DEFINE s == BallIn(b)
             x == ballsR[i].pt[d]
             y == ballsS[s].pt[d]
  <1>5. s # None /\ ballsR[i].id = ballsS[s].id /\ ballsR[j].id = ballsS[s].id
    BY <1>3, <1>4 DEF HitBy
  <1>6. i = j /\ s \in BallS
    BY <1>5, InputTypes, BallsAndBins
  <1>7. x \in Coord /\ y \in Coord
    BY <1>6, Coordinates
  <1>8. p \in Strings(sg, x) \cap Prefixes(sg, y) /\ m \in Strings(tg, x) \cap Prefixes(tg, y)
    BY <1>3, <1>4, <1>6 DEF HitBy
  <1> HIDE DEF x, y
  <1>9. sg = tg /\ p = m
    BY <1>7, <1>8, StringUnique
  <1> QED BY <1>3, <1>4, <1>9 DEF HitBy

\* The answer for a query: the row of a close receiver ball, or a symbol of
\* the query and nothing else.
LEMMA AnswerForms ==
  ASSUME InputInit, NEW d \in Dim, NEW b \in Bin, NEW q \in BinKeys(d, b)
  PROVE  /\ Programmed(d, q) =>
              \E r \in List(d), i \in BallR, sg \in Sigma : \E p :
                /\ HitBy(d, b, q, r, i, sg, p)
                /\ Answer(d, List(d), q) = [e |-> q.e, a0 |-> A0(d, b), row |-> r.row]
         /\ ~Programmed(d, q) => Answer(d, List(d), q) = [e |-> q.e, a0 |-> Prf(d, q.key), row |-> None]
  <1>1. CASE Programmed(d, q)
    <2> DEFINE r == CHOOSE j \in List(d) : j.key = q.key
    <2>1. r \in List(d) /\ r.key = q.key
      BY <1>1 DEF Programmed
    <2>2. Answer(d, List(d), q) = [e |-> q.e, a0 |-> r.a0, row |-> r.row]
      BY <1>1 DEF Answer, Programmed
    <2> HIDE DEF r
    <2>a. PICK i \in BallR, sg \in Sigma : \E p : HitBy(d, b, q, r, i, sg, p)
      BY <2>1, ProgrammedRow
    <2>3. PICK p : HitBy(d, b, q, r, i, sg, p)
      BY <2>a
    <2>4. r.a0 = A0(d, b)
      BY <2>3 DEF HitBy
    <2> QED BY <1>1, <2>1, <2>2, <2>3, <2>4
  <1>2. CASE ~Programmed(d, q)
    BY <1>2 DEF Answer, Programmed
  <1> QED BY <1>1, <1>2

-----------------------------------------------------------------------------
(* The candidates and v_hat. *)

\* The words of a draw.
LEMMA DrawTypes ==
  ASSUME draw \in Draws, NEW d \in Dim, NEW b \in Bin
  PROVE  /\ draw.a[d][b] \in [Power -> 0 .. M - 1]
         /\ draw.d[d][b] \in [LowPower -> 0 .. M - 1]
         /\ draw.bDelta \in 0 .. M - 1
         /\ draw.mask[d][b] \in 0 .. M - 1
  BY DrawAssumption

\* A masked row is a row of words.
LEMMA RowType ==
  ASSUME NEW a \in [Power -> 0 .. M - 1], NEW diff \in Int
  PROVE  PrefixVals(a, diff) \in [Power -> 0 .. M - 1] /\ PrefixVals(a, diff) # None
  <1>1. ASSUME NEW s \in Power PROVE u32(a[s] + fast_pow(diff, s)) \in 0 .. M - 1
    <2>1. s \in Nat
      BY MetricAssumption DEF Power
    <2>2. Pow(diff, s) \in Int
      BY <2>1, PowFacts
    <2>3. fast_pow(diff, s) \in Int
      BY <2>2, WordOf DEF fast_pow
    <2>4. a[s] \in Int /\ a[s] + fast_pow(diff, s) \in Int
      BY <2>3, ModulusAssumption
    <2> QED BY <2>4, WordOf
  <1>2. PrefixVals(a, diff) \in [Power -> 0 .. M - 1]
    BY <1>1 DEF PrefixVals
  <1> QED BY <1>2, NoNumberAssumption

\* The value a candidate gets from answer i of bin b.
ValOf(d, b, i) ==
  IF i.row = None THEN None
  ELSE VCandidates(i.row, i.e, draw.d[d][b], draw.bDelta, draw.mask[d][b])

Cand(d) == Candidates(d, Answers(d))

LEMMA CandidateForms ==
  ASSUME NEW d \in Dim, NEW c
  PROVE  c \in Cand(d) <=>
           \E b \in Bin : \E q \in BinKeys(d, b) :
             LET i == Answer(d, List(d), q) IN c = [key |-> <<i.a0, b>>, val |-> ValOf(d, b, i)]
  <1> DEFINE C(b) == {[key |-> <<i.a0, b>>, val |-> ValOf(d, b, i)] : i \in Answers(d)[b]}
  <1>1. Cand(d) = UNION {C(b) : b \in Bin}
    BY DEF Cand, Candidates, ValOf
  <1>2. ASSUME NEW b \in Bin
        PROVE  c \in C(b) <=> \E q \in BinKeys(d, b) :
                 LET i == Answer(d, List(d), q) IN c = [key |-> <<i.a0, b>>, val |-> ValOf(d, b, i)]
    <2>1. Answers(d)[b] = {Answer(d, List(d), q) : q \in BinKeys(d, b)}
      BY DEF Answers
    <2> QED BY <2>1
  <1> HIDE DEF C
  <1> QED BY <1>1, <1>2

\* The candidates that the receiver's query of bin b meets.
Hits(d, b) == {i \in Cand(d) : i.key = <<A0(d, b), b>>}

\* Symbols of different kinds differ.
LEMMA Symbols ==
  ASSUME NEW d, NEW b, NEW q, NEW e, NEW c, NEW r
  PROVE  /\ A0(d, b) # Prf(e, q)
         /\ A0(d, b) = A0(e, c) => d = e /\ b = c
         /\ Prf(d, q) = Prf(e, r) => d = e /\ q = r
  BY DEF A0, Prf

\* What VHat makes of a hit: a word that is a share of the distance.
LEMMA HitValue ==
  ASSUME InputInit, draw \in Draws, NEW d \in Dim, NEW b \in Bin, NEW c \in Hits(d, b)
  PROVE  LET a == draw.a[d][b]
             w == VHat(c.val, a, CVole(a, draw.bDelta, draw.d[d][b]))
         IN /\ BallIn(b) # None /\ w \in 0 .. M - 1
            /\ \E i \in BallR : /\ CloseIn(d, i, BallIn(b))
                                /\ u32(w + DistPow(d, i, BallIn(b))) = draw.mask[d][b]
  <1>1. PICK bb \in Bin : \E q \in BinKeys(d, bb) :
          LET i == Answer(d, List(d), q) IN c = [key |-> <<i.a0, bb>>, val |-> ValOf(d, bb, i)]
    BY CandidateForms DEF Hits
  <1>2. PICK q \in BinKeys(d, bb) :
          LET i == Answer(d, List(d), q) IN c = [key |-> <<i.a0, bb>>, val |-> ValOf(d, bb, i)]
    BY <1>1
  <1> DEFINE ans == Answer(d, List(d), q)
  <1>3. c.key = <<ans.a0, bb>> /\ c.val = ValOf(d, bb, ans) /\ c.key = <<A0(d, b), b>>
    BY <1>2 DEF Hits
  <1>4. bb = b /\ ans.a0 = A0(d, b)
    BY <1>3
  <1>5. q \in BinKeys(d, b)
    BY <1>4
  <1>6. Programmed(d, q)
    <2> SUFFICES ASSUME ~Programmed(d, q) PROVE FALSE
      OBVIOUS
    <2>1. ans = [e |-> q.e, a0 |-> Prf(d, q.key), row |-> None]
      BY <1>5, AnswerForms
    <2>2. ans.a0 = Prf(d, q.key)
      BY <2>1
    <2> HIDE DEF ans
    <2> QED BY <1>4, <2>2, Symbols
  <1>7. PICK r \in List(d), i \in BallR, sg \in Sigma : \E p :
          HitBy(d, b, q, r, i, sg, p) /\ ans = [e |-> q.e, a0 |-> A0(d, b), row |-> r.row]
    BY <1>5, <1>6, AnswerForms
  <1>8. PICK p : HitBy(d, b, q, r, i, sg, p) /\ ans = [e |-> q.e, a0 |-> A0(d, b), row |-> r.row]
    BY <1>7
  <1>9. ans.e = q.e /\ ans.row = r.row
    BY <1>8
  <1> HIDE DEF ans
  <1> DEFINE s == BallIn(b)
             x == ballsR[i].pt[d]
             y == ballsS[s].pt[d]
             diff == Diff(sg, x, p)
             e == Gap(sg, y, p)
             a == draw.a[d][b]
  <1>10. /\ s # None /\ ballsR[i].id = ballsS[s].id /\ p \in Strings(sg, x) \cap Prefixes(sg, y)
         /\ q.e = e /\ r.row = PrefixVals(a, diff)
    BY <1>8 DEF HitBy
  <1>11. s \in BallS /\ x \in Coord /\ y \in Coord
    <2>1. s \in BallS
      BY <1>10, BallsAndBins
    <2> QED BY <2>1, Coordinates
  <1>12. diff \in Int /\ e \in Int /\ diff + e = Distance(x, y) /\ Near(x, y)
    <2> HIDE DEF x, y
    <2> QED BY <1>10, <1>11, StringMeans, StringUnique
  <1>13. CloseIn(d, i, s) /\ DistPow(d, i, s) = Pow(diff + e, METRIC)
    <2>1. DistPow(d, i, s) = Pow(Distance(x, y), METRIC)
      BY DEF DistPow, Distance
    <2> QED BY <1>10, <1>12, <2>1 DEF CloseIn
  <1>14. c.val = VCandidates(PrefixVals(a, diff), e, draw.d[d][b], draw.bDelta, draw.mask[d][b])
    <2>1. PrefixVals(a, diff) # None
      <3> HIDE DEF a, diff
      <3>1. a \in [Power -> 0 .. M - 1]
        BY DrawTypes DEF a
      <3> QED BY <1>12, <3>1, RowType
    <2> HIDE DEF a, diff, e
    <2> QED BY <1>3, <1>4, <1>9, <1>10, <2>1 DEF ValOf
  <1> DEFINE w == VHat(c.val, a, CVole(a, draw.bDelta, draw.d[d][b]))
  <1>15. w \in 0 .. M - 1 /\ u32(w + Pow(diff + e, METRIC)) = draw.mask[d][b]
    <2> DEFINE dv == draw.d[d][b]
               bD == draw.bDelta
               mask == draw.mask[d][b]
    <2>1. a \in [Power -> 0 .. M - 1] /\ dv \in [LowPower -> 0 .. M - 1] /\ bD \in 0 .. M - 1 /\ mask \in 0 .. M - 1
      BY DrawTypes
    <2>2. w = VHat(VCandidates(PrefixVals(a, diff), e, dv, bD, mask), a, CVole(a, bD, dv))
      BY <1>14
    <2> HIDE DEF w, a, dv, bD, mask, diff, e
    <2>3. w \in 0 .. M - 1 /\ u32(w + Pow(diff + e, METRIC)) = mask
      BY <1>12, <2>1, <2>2, PowerShares
    <2> QED BY <2>3 DEF mask
  <1> HIDE DEF w
  <1>16. u32(w + DistPow(d, i, s)) = draw.mask[d][b]
    BY <1>13, <1>15
  <1> QED BY <1>10, <1>13, <1>15, <1>16 DEF w

\* The receiver's query is met when a receiver ball is close to the ball.
LEMMA HitExists ==
  ASSUME InputInit, NEW d \in Dim, NEW b \in Bin, BallIn(b) # None,
         NEW i \in BallR, CloseIn(d, i, BallIn(b))
  PROVE  Hits(d, b) # {}
  <1>1. PICK q \in BinKeys(d, b) : Programmed(d, q)
    BY CloseIsProgrammed
  <1> DEFINE ans == Answer(d, List(d), q)
             c == [key |-> <<ans.a0, b>>, val |-> ValOf(d, b, ans)]
  <1>2. \E r \in List(d) : ans = [e |-> q.e, a0 |-> A0(d, b), row |-> r.row]
    BY <1>1, AnswerForms
  <1>3. ans.a0 = A0(d, b)
    BY <1>2
  <1>4. c \in Cand(d)
    BY CandidateForms
  <1>5. c.key = <<A0(d, b), b>>
    BY <1>3
  <1> QED BY <1>4, <1>5 DEF Hits

\* Receiver ball i is the only one with the identifier of sender ball s.
LEMMA OneReceiverBall ==
  ASSUME InputInit, NEW i \in BallR, NEW j \in BallR, NEW s, NEW d, NEW e,
         CloseIn(d, i, s), CloseIn(e, j, s)
  PROVE  i = j
  BY InputTypes DEF CloseIn

\* What thread d leaves for bin b: a share of the distance for a ball close
\* in this dimension, nothing related for any other bin.
LEMMA VHatFacts ==
  ASSUME InputInit, draw \in Draws, NEW d \in Dim, NEW b \in Bin
  PROVE  /\ BallIn(b) # None /\ (\E i \in BallR : CloseIn(d, i, BallIn(b))) =>
              /\ VHats(d)[b] \in 0 .. M - 1
              /\ \A i \in BallR : CloseIn(d, i, BallIn(b)) =>
                   u32(VHats(d)[b] + DistPow(d, i, BallIn(b))) = draw.mask[d][b]
         /\ ~(BallIn(b) # None /\ (\E i \in BallR : CloseIn(d, i, BallIn(b)))) => VHats(d)[b] = None
  <1> DEFINE a == draw.a[d][b]
             W(c) == VHat(c.val, a, CVole(a, draw.bDelta, draw.d[d][b]))
             c0 == CHOOSE i \in Hits(d, b) : TRUE
  <1>1. VHats(d)[b] = IF Hits(d, b) = {} THEN None ELSE W(c0)
    BY DEF VHats, VHatOf, Hits, Cand
  <1>2. Hits(d, b) # {} => c0 \in Hits(d, b)
    OBVIOUS
  <1>3. CASE BallIn(b) # None /\ \E i \in BallR : CloseIn(d, i, BallIn(b))
    <2>1. c0 \in Hits(d, b) /\ VHats(d)[b] = W(c0)
      BY <1>1, <1>2, <1>3, HitExists
    <2> HIDE DEF c0
    <2>2. /\ W(c0) \in 0 .. M - 1
          /\ \E i \in BallR : CloseIn(d, i, BallIn(b)) /\ u32(W(c0) + DistPow(d, i, BallIn(b))) = draw.mask[d][b]
      BY <2>1, HitValue
    <2> HIDE DEF W
    <2>3. PICK i \in BallR : CloseIn(d, i, BallIn(b)) /\ u32(W(c0) + DistPow(d, i, BallIn(b))) = draw.mask[d][b]
      BY <2>2
    <2>4. \A j \in BallR : CloseIn(d, j, BallIn(b)) => j = i
      BY <2>3, OneReceiverBall
    <2> QED BY <1>3, <2>1, <2>2, <2>3, <2>4
  <1>4. CASE ~(BallIn(b) # None /\ \E i \in BallR : CloseIn(d, i, BallIn(b)))
    <2>1. Hits(d, b) = {}
      BY <1>4, HitValue
    <2> QED BY <1>1, <1>4, <2>1
  <1> QED BY <1>3, <1>4

-----------------------------------------------------------------------------
(* The sums and the interval test of ssIFMat. *)

\* DELTA^METRIC fits a word, and so does its sum over the dimensions.
LEMMA ThresholdFacts ==
  /\ Threshold = Pow(DELTA, METRIC) /\ Threshold \in Nat
  /\ Threshold < M /\ DIM * Threshold < M
  <1> DEFINE T == Pow(DELTA, METRIC)
  <1>1. DELTA \in 0 .. DELTA
    BY CoordAssumption
  <1>2. T \in Nat
    BY <1>1, PowerBounds
  <1>3. DIM \in Nat \ {0} /\ M \in Nat /\ DIM * T < M
    BY DimAssumption, ModulusAssumption, RangeAssumption
  <1> HIDE DEF T
  <1>4. T <= DIM * T
    <2>1. DIM - 1 \in Nat
      BY <1>3
    <2>2. (DIM - 1) * T \in Nat /\ DIM * T = (DIM - 1) * T + T
      BY <1>2, <1>3, <2>1
    <2> QED BY <1>2, <2>2
  <1>5. DIM * T \in Nat
    BY <1>2, <1>3
  <1>6. T < M
    BY <1>2, <1>3, <1>4, <1>5
  <1>7. T \in 0 .. M - 1
    BY <1>2, <1>3, <1>6
  <1>8. u32(T) = T
    BY <1>2, <1>7, CongSelf, WordUnique
  <1>9. Threshold = T
    BY <1>8 DEF Threshold, fast_pow, T
  <1> QED BY <1>2, <1>3, <1>6, <1>9 DEF T

\* A sum of two words is a word, or one modulus too large.
LEMMA WordSum ==
  ASSUME NEW v \in 0 .. M - 1, NEW w \in 0 .. M - 1
  PROVE  u32(v + w) = IF v + w < M THEN v + w ELSE v + w - M
  <1>1. M \in Nat \ {0} /\ v \in Int /\ w \in Int /\ v + w \in Int /\ v + w - M \in Int
    BY ModulusAssumption
  <1>2. CASE v + w < M
    <2>1. v + w \in 0 .. M - 1
      BY <1>1, <1>2
    <2> QED BY <1>1, <1>2, <2>1, CongSelf, WordUnique
  <1>3. CASE ~(v + w < M)
    <2>1. v + w - M \in 0 .. M - 1
      BY <1>1, <1>3
    <2>2. v + w = (v + w - M) + 1 * M
      BY <1>1
    <2>3. Cong(v + w, v + w - M)
      BY <2>2 DEF Cong
    <2> QED BY <1>1, <1>3, <2>1, <2>3, WordUnique
  <1> QED BY <1>2, <1>3

\* The power of the distance of two close balls.
LEMMA DistPowBounds ==
  ASSUME InputInit, NEW d \in Dim, NEW i \in BallR, NEW s \in BallS, CloseIn(d, i, s)
  PROVE  DistPow(d, i, s) \in 0 .. Threshold /\ DistPow(d, i, s) \in 0 .. M - 1
  <1> DEFINE x == ballsR[i].pt[d]
             y == ballsS[s].pt[d]
  <1>1. x \in Nat /\ y \in Nat /\ DELTA \in Nat /\ Near(x, y)
    BY Coordinates, CoordAssumption DEF CloseIn
  <1>2. DistPow(d, i, s) = Pow(Distance(x, y), METRIC)
    BY DEF DistPow, Distance
  <1> HIDE DEF x, y
  <1>3. Distance(x, y) \in 0 .. DELTA
    BY <1>1 DEF Near, Distance
  <1>4. DistPow(d, i, s) \in 0 .. Threshold
    BY <1>2, <1>3, PowerBounds, ThresholdFacts
  <1>5. 0 .. Threshold \subseteq 0 .. M - 1
    BY ThresholdFacts, ModulusAssumption
  <1> QED BY <1>4, <1>5

\* The threads of every dimension have left their shares.
AllShares == \A d \in Dim : v_hat[d] = VHats(d)

\* The sum of the masks.
LEMMA USumType ==
  ASSUME draw \in Draws, NEW b \in Bin
  PROVE  USum(b) \in Nat
  <1> DEFINE g == [d \in Dim |-> draw.mask[d][b]]
             B == M - 1
  <1>1. B \in Nat /\ DIM \in Nat
    BY ModulusAssumption, DimAssumption
  <1>2. \A k \in 0 .. DIM - 1 : g[k] \in 0 .. B
    BY DrawTypes DEF Dim
  <1> HIDE DEF g, B
  <1>3. SumLoop(g, 0, DIM) \in 0 .. DIM * B
    BY <1>1, <1>2, SumBounds
  <1>4. SumLoop(g, 0, DIM) \in Nat
    BY <1>3
  <1> QED BY <1>4 DEF USum, g

\* A sum exists exactly for a bin whose ball is close in every dimension.
LEMMA VSumFacts ==
  ASSUME InputInit, draw \in Draws, AllShares, NEW b \in Bin
  PROVE  /\ VSum(b) # None <=> BallIn(b) # None /\ \E i \in BallR : \A d \in Dim : CloseIn(d, i, BallIn(b))
         /\ VSum(b) # None => /\ VSum(b) \in 0 .. DIM * (M - 1)
                              /\ VSum(b) = SumLoop([d \in Dim |-> v_hat[d][b]], 0, DIM)
                              /\ \A d \in Dim : v_hat[d][b] \in 0 .. M - 1
  <1> DEFINE Close(d) == BallIn(b) # None /\ \E i \in BallR : CloseIn(d, i, BallIn(b))
             f == [d \in Dim |-> v_hat[d][b]]
             B == M - 1
  <1>0. B \in Nat /\ DIM \in Nat \ {0} /\ 0 \in Dim
    BY ModulusAssumption, DimAssumption DEF Dim
  <1>1. \A d \in Dim : /\ Close(d) => v_hat[d][b] \in 0 .. M - 1
                       /\ ~Close(d) => v_hat[d][b] = None
    BY VHatFacts DEF AllShares
  <1>2. ASSUME \A d \in Dim : Close(d)
        PROVE  /\ BallIn(b) # None /\ \E i \in BallR : \A d \in Dim : CloseIn(d, i, BallIn(b))
               /\ VSum(b) # None
               /\ VSum(b) \in 0 .. DIM * (M - 1)
               /\ VSum(b) = SumLoop(f, 0, DIM)
               /\ \A d \in Dim : v_hat[d][b] \in 0 .. M - 1
    <2>1. PICK i \in BallR : CloseIn(0, i, BallIn(b))
      BY <1>0, <1>2
    <2>2. \A d \in Dim : CloseIn(d, i, BallIn(b))
      BY <1>2, <2>1, OneReceiverBall
    <2>3. \A d \in Dim : v_hat[d][b] \in 0 .. M - 1
      BY <1>1, <1>2
    <2>4. \A d \in Dim : v_hat[d][b] # None
      <3>1. \A n \in 0 .. M - 1 : n # None
        BY NoNumberAssumption
      <3> QED BY <2>3, <3>1
    <2>5. VSum(b) = SumLoop(f, 0, DIM)
      BY <2>4 DEF VSum
    <2>6. \A k \in 0 .. DIM - 1 : f[k] \in 0 .. B
      BY <2>3 DEF Dim
    <2> HIDE DEF f, B, Close
    <2>7. SumLoop(f, 0, DIM) \in 0 .. DIM * B
      BY <1>0, <2>6, SumBounds
    <2>8. VSum(b) \in Int /\ VSum(b) \in 0 .. DIM * (M - 1)
      BY <2>5, <2>7 DEF B
    <2>9. VSum(b) # None
      BY <2>8, NoNumberAssumption
    <2>10. BallIn(b) # None
      BY <1>0, <1>2 DEF Close
    <2> QED BY <2>2, <2>3, <2>5, <2>8, <2>9, <2>10
  <1>3. ASSUME ~\A d \in Dim : Close(d)
        PROVE  /\ VSum(b) = None
               /\ ~(BallIn(b) # None /\ \E i \in BallR : \A d \in Dim : CloseIn(d, i, BallIn(b)))
    <2>1. \E d \in Dim : v_hat[d][b] = None
      BY <1>1, <1>3
    <2> QED BY <1>3, <2>1 DEF VSum
  <1> HIDE DEF Close
  <1> QED BY <1>2, <1>3

\* The interval test on the sums, for a ball close in every dimension: it
\* succeeds exactly within the L_p distance when no share wrapped, and a
\* wrap makes the sender's sum the smaller one.
LEMMA SumTest ==
  ASSUME InputInit, draw \in Draws, AllShares, NEW b \in Bin, BallIn(b) # None,
         NEW i \in BallR, \A d \in Dim : CloseIn(d, i, BallIn(b))
  PROVE  USum(b) \in VSum(b) .. VSum(b) + Threshold <=> Within(i, BallIn(b)) /\ NoWrap(i, BallIn(b), b)
  <1> DEFINE s == BallIn(b)
             f == [d \in Dim |-> v_hat[d][b]]
             g == [d \in Dim |-> draw.mask[d][b]]
             p == [d \in Dim |-> DistPow(d, i, s)]
             F == SumLoop(f, 0, DIM)
             G == SumLoop(g, 0, DIM)
             P == SumLoop(p, 0, DIM)
             T == Threshold
  <1>0. DIM \in Nat /\ M \in Nat /\ Dim = 0 .. DIM - 1 /\ s \in BallS
    BY DimAssumption, ModulusAssumption, BallsAndBins DEF Dim
  <1>1. VSum(b) = F /\ \A d \in Dim : v_hat[d][b] \in 0 .. M - 1
    BY VSumFacts
  <1>2. USum(b) = G
    BY DEF USum
  <1>3. T \in Nat /\ T < M /\ DIM * T < M /\ T = Pow(DELTA, METRIC)
    BY ThresholdFacts
  <1>4. \A d \in Dim : p[d] \in 0 .. T /\ p[d] \in 0 .. M - 1
    BY <1>0, DistPowBounds
  <1>5. \A d \in Dim : g[d] = u32(f[d] + p[d]) /\ f[d] \in 0 .. M - 1
    BY <1>1, VHatFacts DEF AllShares
  <1>6. Within(i, s) <=> P <= T
    BY <1>3 DEF Within
  <1>7. NoWrap(i, s, b) <=> \A d \in Dim : g[d] >= p[d]
    BY DEF NoWrap
  <1> HIDE DEF s, f, g, p, T
  <1>8. \A d \in Dim : g[d] = IF f[d] + p[d] < M THEN f[d] + p[d] ELSE f[d] + p[d] - M
    BY <1>4, <1>5, WordSum
  <1>9. \A d \in Dim : /\ f[d] \in Int /\ g[d] \in Int /\ p[d] \in Int
                       /\ g[d] = f[d] + p[d] \/ g[d] = f[d] + p[d] - M
                       /\ g[d] >= p[d] <=> g[d] = f[d] + p[d]
    <2> SUFFICES ASSUME NEW d \in Dim
                 PROVE  /\ f[d] \in Int /\ g[d] \in Int /\ p[d] \in Int
                        /\ g[d] = f[d] + p[d] \/ g[d] = f[d] + p[d] - M
                        /\ g[d] >= p[d] <=> g[d] = f[d] + p[d]
      OBVIOUS
    <2>1. f[d] \in 0 .. M - 1 /\ p[d] \in 0 .. M - 1
      BY <1>4, <1>5
    <2>2. g[d] = IF f[d] + p[d] < M THEN f[d] + p[d] ELSE f[d] + p[d] - M
      BY <1>8
    <2> QED BY <1>0, <2>1, <2>2
  <1>10. /\ F \in Int /\ G \in Int /\ P \in Int
         /\ (\A d \in Dim : g[d] = f[d] + p[d]) => G = F + P
         /\ (\E d \in Dim : g[d] # f[d] + p[d]) => G <= F + P - M
    <2>1. Drifts(f, g, p, DIM, M)
      BY <1>0, <1>9 DEF Drifts
    <2>2. /\ F \in Int /\ G \in Int /\ P \in Int
          /\ (\A k \in 0 .. DIM - 1 : g[k] = f[k] + p[k]) => G = F + P
          /\ (\E k \in 0 .. DIM - 1 : g[k] # f[k] + p[k]) => G <= F + P - M
      BY <1>0, <2>1, SumsDiffer
    <2> QED BY <1>0, <2>2
  <1>11. P \in 0 .. DIM * T
    BY <1>0, <1>3, <1>4, SumBounds
  <1> HIDE DEF F, G, P
  <1>12. P < M /\ P >= 0
    BY <1>0, <1>3, <1>11
  <1>13. CASE \A d \in Dim : g[d] = f[d] + p[d]
    <2>1. G = F + P
      BY <1>10, <1>13
    <2>2. G \in F .. F + T <=> P <= T
      BY <1>3, <1>10, <1>12, <2>1
    <2>3. NoWrap(i, s, b)
      BY <1>7, <1>9, <1>13
    <2> QED BY <1>1, <1>2, <1>6, <2>2, <2>3 DEF s, T
  <1>14. CASE \E d \in Dim : g[d] # f[d] + p[d]
    <2>1. G <= F + P - M
      BY <1>10, <1>14
    <2>2. ~(G \in F .. F + T)
      BY <1>0, <1>3, <1>10, <1>12, <2>1
    <2>3. ~NoWrap(i, s, b)
      BY <1>7, <1>9, <1>14
    <2> QED BY <1>1, <1>2, <2>2, <2>3 DEF s, T
  <1> QED BY <1>13, <1>14

\* A prefix of the sender's sum is programmed for bin b exactly when it is a
\* string of the receiver's sum.
LEMMA IfListMember ==
  ASSUME NEW b \in Bin, NEW p
  PROVE  <<p, b>> \in IfList <=> VSum(b) # None /\ p \in IfStrings(VSum(b))
  <1> DEFINE L(c) == {<<q, c>> : q \in IfStrings(VSum(c))}
  <1>1. IfList = UNION {L(c) : c \in {e \in Bin : VSum(e) # None}}
    BY DEF IfList
  <1>2. \A c \in Bin : <<p, b>> \in L(c) <=> c = b /\ p \in IfStrings(VSum(c))
    OBVIOUS
  <1> HIDE DEF L
  <1> QED BY <1>1, <1>2

\* The strings of a sum v and the prefixes of a sum n meet exactly when n is
\* in the interval.
LEMMA IfMeets ==
  ASSUME NEW v \in Nat, NEW n \in Nat
  PROVE  n \in v .. v + Threshold <=> \E p \in IfPrefixes(n) : p \in IfStrings(v)
  <1> DEFINE hi == v + Threshold
  <1>1. hi \in Nat /\ v <= hi /\ n \in Int
    BY ThresholdFacts
  <1> HIDE DEF hi
  <1>2. n \in v .. hi <=> set_dec(v, hi, LevelsIf) \cap set_prefix(n, LevelsIf) # {}
    BY <1>1, LevelSets, OnePrefixInCommon
  <1> QED BY <1>2 DEF IfPrefixes, IfStrings, hi

\* t_ of bin b is the sender's t exactly when the interval test succeeds.
LEMMA IfSelected ==
  ASSUME NEW b \in Bin
  PROVE  IfSelect(IfAnswers, b) = IfT(b) <=>
           VSum(b) # None /\ \E p \in IfPrefixes(USum(b)) : p \in IfStrings(VSum(b))
  <1>1. ASSUME NEW c \in Bin, NEW p
        PROVE  IfAnswer(IfList, <<p, c>>) = IfA(b) <=> c = b /\ <<p, c>> \in IfList
    BY DEF IfAnswer, IfA, Prf
  <1>2. ASSUME NEW c \in Bin
        PROVE  IfA(b) \in IfAnswers[c] <=> \E p \in IfPrefixes(USum(c)) : IfAnswer(IfList, <<p, c>>) = IfA(b)
    BY DEF IfAnswers
  <1>3. ASSUME NEW c \in Bin, IfA(b) \in IfAnswers[c] PROVE c = b
    BY <1>1, <1>2, <1>3
  <1>4. IfA(b) \in IfAnswers[b] <=> VSum(b) # None /\ \E p \in IfPrefixes(USum(b)) : p \in IfStrings(VSum(b))
    BY <1>1, <1>2, IfListMember
  <1>5. CASE IfA(b) \in IfAnswers[b]
    <2>1. (CHOOSE c \in Bin : IfA(b) \in IfAnswers[c]) = b
      BY <1>3, <1>5
    <2>2. IfSelect(IfAnswers, b) = IfT(b)
      BY <1>5, <2>1 DEF IfSelect
    <2> QED BY <1>4, <1>5, <2>2
  <1>6. CASE IfA(b) \notin IfAnswers[b]
    <2>1. ~\E c \in Bin : IfA(b) \in IfAnswers[c]
      BY <1>3, <1>6
    <2>2. IfSelect(IfAnswers, b) = Prf(0, IfA(b))
      BY <2>1 DEF IfSelect
    <2>3. IfSelect(IfAnswers, b) # IfT(b)
      BY <2>2 DEF Prf, IfT
    <2> QED BY <1>4, <1>6, <2>3
  <1> QED BY <1>5, <1>6

\* What the equality test compares: equal exactly for a ball within the L_p
\* distance of a receiver ball with its identifier, without a wrap.
LEMMA IfMatch ==
  ASSUME InputInit, draw \in Draws, AllShares, NEW b \in Bin
  PROVE  IfSelect(IfAnswers, b) = IfT(b) <=>
           BallIn(b) # None /\ \E i \in BallR : Within(i, BallIn(b)) /\ NoWrap(i, BallIn(b), b)
  <1>1. CASE VSum(b) = None
    <2>1. IfSelect(IfAnswers, b) # IfT(b)
      BY <1>1, IfSelected
    <2>2. ~(BallIn(b) # None /\ \E i \in BallR : Within(i, BallIn(b)))
      BY <1>1, VSumFacts DEF Within
    <2> QED BY <2>1, <2>2
  <1>2. CASE VSum(b) # None
    <2>1. /\ BallIn(b) # None /\ \E i \in BallR : \A d \in Dim : CloseIn(d, i, BallIn(b))
          /\ VSum(b) \in 0 .. DIM * (M - 1)
      BY <1>2, VSumFacts
    <2>2. PICK i \in BallR : \A d \in Dim : CloseIn(d, i, BallIn(b))
      BY <2>1
    <2>3. \A j \in BallR : Within(j, BallIn(b)) => j = i
      <3>1. 0 \in Dim
        BY DimAssumption DEF Dim
      <3> QED BY <2>2, <3>1, OneReceiverBall DEF Within
    <2>4. VSum(b) \in Nat /\ USum(b) \in Nat
      BY <2>1, USumType
    <2>5. IfSelect(IfAnswers, b) = IfT(b) <=> USum(b) \in VSum(b) .. VSum(b) + Threshold
      BY <1>2, <2>4, IfSelected, IfMeets
    <2>6. USum(b) \in VSum(b) .. VSum(b) + Threshold <=> Within(i, BallIn(b)) /\ NoWrap(i, BallIn(b), b)
      BY <2>1, <2>2, SumTest
    <2> QED BY <2>1, <2>3, <2>5, <2>6
  <1> QED BY <1>1, <1>2

-----------------------------------------------------------------------------
(* Sizes. *)

\* A union of X sets of at most K members each.
LEMMA UnionBound ==
  ASSUME NEW X, IsFiniteSet(X), NEW K \in Nat, NEW S,
         \A x \in X : IsFiniteSet(S[x]) /\ Cardinality(S[x]) <= K
  PROVE  LET U == UNION {S[x] : x \in X}
         IN IsFiniteSet(U) /\ Cardinality(U) \in Nat /\ Cardinality(U) <= K * Cardinality(X)
  <1> DEFINE U == UNION {S[x] : x \in X}
             Enum(x) == CHOOSE f : f \in Bijection(1 .. Cardinality(S[x]), S[x])
             Y == (1 .. K) \X X
             Z == {y \in Y : y[1] <= Cardinality(S[y[2]])}
             g == [y \in Z |-> Enum(y[2])[y[1]]]
  <1>1. ASSUME NEW x \in X
        PROVE  /\ Cardinality(S[x]) \in Nat /\ Cardinality(S[x]) <= K
               /\ Enum(x) \in Bijection(1 .. Cardinality(S[x]), S[x])
    <2>1. IsFiniteSet(S[x]) /\ Cardinality(S[x]) <= K
      OBVIOUS
    <2>2. Cardinality(S[x]) \in Nat /\ Bijection(1 .. Cardinality(S[x]), S[x]) # {}
      BY <2>1, FS_CardinalityType DEF ExistsBijection
    <2> QED BY <2>1, <2>2
  <1>2. IsFiniteSet(1 .. K) /\ Cardinality(1 .. K) = K
    BY FS_Interval
  <1>3. IsFiniteSet(Y) /\ Cardinality(Y) = K * Cardinality(X)
    BY <1>2, FS_Product
  <1>4. IsFiniteSet(Z) /\ Cardinality(Z) <= Cardinality(Y)
    <2> HIDE DEF Y
    <2>1. Z \subseteq Y
      OBVIOUS
    <2> HIDE DEF Z
    <2> QED BY <1>3, <2>1, FS_Subset
  <1>5. g \in Surjection(Z, U)
    <2>1. ASSUME NEW y \in Z PROVE g[y] \in U
      <3>1. y[2] \in X /\ y[1] \in 1 .. Cardinality(S[y[2]])
        BY <1>1
      <3>2. Enum(y[2])[y[1]] \in S[y[2]]
        BY <1>1, <3>1 DEF Bijection, Injection
      <3>3. g[y] = Enum(y[2])[y[1]]
        OBVIOUS
      <3> HIDE DEF g, Z, Enum
      <3> QED BY <3>1, <3>2, <3>3
    <2>2. ASSUME NEW q \in U PROVE \E y \in Z : g[y] = q
      <3>1. PICK x \in X : q \in S[x]
        OBVIOUS
      <3>2. PICK m \in 1 .. Cardinality(S[x]) : Enum(x)[m] = q
        BY <1>1, <3>1 DEF Bijection, Surjection
      <3> DEFINE y == <<m, x>>
      <3>3. m \in 1 .. K /\ m <= Cardinality(S[x])
        <4>1. Cardinality(S[x]) \in Nat /\ Cardinality(S[x]) <= K
          BY <1>1
        <4> QED BY <4>1
      <3> HIDE DEF Enum
      <3>4. y \in Z
        BY <3>3
      <3>5. g[y] = q
        BY <3>2, <3>4
      <3> QED BY <3>4, <3>5
    <2> HIDE DEF Z, U
    <2> QED BY <2>1, <2>2 DEF Surjection
  <1> HIDE DEF Z, U, g
  <1>6. IsFiniteSet(U) /\ Cardinality(U) <= Cardinality(Z)
    BY <1>4, <1>5, FS_Surjection
  <1>7. Cardinality(U) \in Nat /\ Cardinality(Z) \in Nat /\ Cardinality(Y) \in Nat
    BY <1>3, <1>4, <1>6, FS_CardinalityType
  <1>8. Cardinality(U) <= Cardinality(Y)
    <2> HIDE DEF Y
    <2> QED BY <1>4, <1>6, <1>7
  <1>9. IsFiniteSet(U) /\ Cardinality(U) \in Nat /\ Cardinality(U) <= K * Cardinality(X)
    BY <1>3, <1>6, <1>7, <1>8
  <1> QED BY <1>9 DEF U

\* A union of X disjoint sets of K members each.
LEMMA UnionExact ==
  ASSUME NEW X, IsFiniteSet(X), NEW K \in Nat, NEW S,
         \A x \in X : IsFiniteSet(S[x]) /\ Cardinality(S[x]) = K,
         \A x, y \in X : x # y => S[x] \cap S[y] = {}
  PROVE  LET U == UNION {S[x] : x \in X}
         IN IsFiniteSet(U) /\ Cardinality(U) = K * Cardinality(X)
  <1> DEFINE U == UNION {S[x] : x \in X}
             Enum(x) == CHOOSE f : f \in Bijection(1 .. K, S[x])
             Y == (1 .. K) \X X
             g == [y \in Y |-> Enum(y[2])[y[1]]]
  <1>1. ASSUME NEW x \in X
        PROVE  Enum(x) \in Bijection(1 .. K, S[x])
    <2>1. IsFiniteSet(S[x]) /\ Cardinality(S[x]) = K
      OBVIOUS
    <2>2. Bijection(1 .. K, S[x]) # {}
      BY <2>1, FS_CardinalityType DEF ExistsBijection
    <2> QED BY <2>2
  <1>2. IsFiniteSet(1 .. K) /\ Cardinality(1 .. K) = K
    BY FS_Interval
  <1>3. IsFiniteSet(Y) /\ Cardinality(Y) = K * Cardinality(X)
    BY <1>2, FS_Product
  <1>4. ASSUME NEW x \in X
        PROVE  /\ \A m \in 1 .. K : Enum(x)[m] \in S[x]
               /\ \A m, n \in 1 .. K : Enum(x)[m] = Enum(x)[n] => m = n
               /\ \A q \in S[x] : \E m \in 1 .. K : Enum(x)[m] = q
    <2> DEFINE f == Enum(x)
               T == S[x]
               I == 1 .. K
    <2>1. f \in Bijection(I, T)
      BY <1>1
    <2> HIDE DEF f, T, I
    <2>2. f \in [I -> T] /\ (\A m, n \in I : f[m] = f[n] => m = n) /\ \A q \in T : \E m \in I : f[m] = q
      BY <2>1 DEF Bijection, Injection, Surjection, IsInjective
    <2>3. \A m \in I : f[m] \in T
      BY <2>2
    <2> QED BY <2>2, <2>3 DEF f, T, I
  <1>5. \A y \in Y : g[y] = Enum(y[2])[y[1]] /\ y[1] \in 1 .. K /\ y[2] \in X /\ y = <<y[1], y[2]>>
    OBVIOUS
  <1>6. \A m \in 1 .. K, x \in X : <<m, x>> \in Y /\ g[<<m, x>>] = Enum(x)[m]
    OBVIOUS
  <1>7. g = [y \in Y |-> g[y]]
    OBVIOUS
  <1> HIDE DEF Enum, g, Y
  <1>8. \A y \in Y : g[y] \in U
    BY <1>4, <1>5
  <1>9. \A y, z \in Y : g[y] = g[z] => y = z
    <2> SUFFICES ASSUME NEW y \in Y, NEW z \in Y, g[y] = g[z] PROVE y = z
      OBVIOUS
    <2>1. g[y] \in S[y[2]] /\ g[z] \in S[z[2]] /\ y[2] \in X /\ z[2] \in X
      BY <1>4, <1>5
    <2>2. y[2] = z[2]
      BY <2>1
    <2>3. y[1] = z[1]
      BY <1>4, <1>5, <2>2
    <2> QED BY <1>5, <2>2, <2>3
  <1>10. \A q \in U : \E y \in Y : g[y] = q
    <2> SUFFICES ASSUME NEW q \in U PROVE \E y \in Y : g[y] = q
      OBVIOUS
    <2>1. PICK x \in X : q \in S[x]
      OBVIOUS
    <2>2. PICK m \in 1 .. K : Enum(x)[m] = q
      BY <1>4, <2>1
    <2> QED BY <1>6, <2>2
  <1> HIDE DEF U
  <1>11. g \in Bijection(Y, U)
    BY <1>7, <1>8, <1>9, <1>10 DEF Bijection, Injection, Surjection, IsInjective
  <1>12. IsFiniteSet(U) /\ Cardinality(U) = K * Cardinality(X)
    BY <1>3, <1>11, FS_Bijection DEF ExistsBijection
  <1> QED BY <1>12 DEF U

\* A set that is the image of another one, without and with collisions.
LEMMA ImageBound ==
  ASSUME NEW A, IsFiniteSet(A), NEW B, NEW f,
         \A a \in A : f[a] \in B, \A b \in B : \E a \in A : f[a] = b
  PROVE  IsFiniteSet(B) /\ Cardinality(B) <= Cardinality(A)
  <1> DEFINE g == [a \in A |-> f[a]]
  <1>1. g \in Surjection(A, B)
    BY DEF Surjection
  <1> HIDE DEF g
  <1> QED BY <1>1, FS_Surjection

LEMMA ImageExact ==
  ASSUME NEW A, IsFiniteSet(A), NEW B, NEW f,
         \A a \in A : f[a] \in B, \A b \in B : \E a \in A : f[a] = b,
         \A a, c \in A : f[a] = f[c] => a = c
  PROVE  IsFiniteSet(B) /\ Cardinality(B) = Cardinality(A)
  <1> DEFINE g == [a \in A |-> f[a]]
  <1>1. g \in Bijection(A, B)
    BY DEF Bijection, Injection, Surjection, IsInjective
  <1> HIDE DEF g
  <1> QED BY <1>1, FS_Bijection DEF ExistsBijection

\* set_dec returns finitely many strings: none is longer than a level of the
\* table or reaches beyond the interval.
LEMMA FiniteDec ==
  ASSUME NEW min \in Nat, NEW max \in Nat, min <= max, NEW lv, LevelSet(lv), IsFiniteSet(lv)
  PROVE  IsFiniteSet(set_dec(min, max, lv))
  <1> DEFINE D == set_dec(min, max, lv)
             Y == lv \X (0 .. max)
             f == [y \in Y |-> [mu |-> y[1], top |-> y[2]]]
             B == {f[y] : y \in Y}
  <1>1. IsFiniteSet(0 .. max)
    BY FS_Interval
  <1>2. IsFiniteSet(Y)
    BY <1>1, FS_Product
  <1>3. ASSUME NEW p \in D PROVE p \in B
    <2>1. /\ p.mu \in lv /\ p.mu \in Nat /\ p.top \in Int /\ p = [mu |-> p.mu, top |-> p.top]
          /\ min <= low_bound(p) /\ up_bound(p) <= max
      BY StringsInside
    <2> DEFINE c == Pow(2, p.mu)
               t == p.top
    <2>2. c \in Nat /\ c > 0 /\ t \in Int
      BY <2>1, TwoToThe
    <2>3. 0 <= t * c /\ (t + 1) * c - 1 <= max
      <3>1. low_bound(p) = t * c /\ up_bound(p) = (t + 1) * c - 1
        BY DEF low_bound, up_bound
      <3>2. t * c \in Int
        BY <2>2
      <3> HIDE DEF t, c
      <3> QED BY <2>1, <3>1, <3>2
    <2> HIDE DEF c, t
    <2>4. t >= 0
      BY <2>2, <2>3
    <2>5. t <= max
      <3>1. (t + 1) * c >= (t + 1) * 1
        BY <2>2, <2>4
      <3>2. (t + 1) * c \in Int
        BY <2>2
      <3> DEFINE z == (t + 1) * c
      <3> HIDE DEF z
      <3> QED BY <2>2, <2>3, <3>1, <3>2 DEF z
    <2>6. <<p.mu, t>> \in Y
      BY <2>1, <2>2, <2>4, <2>5
    <2>7. f[<<p.mu, t>>] = p
      BY <2>1, <2>6 DEF t
    <2> QED BY <2>6, <2>7
  <1>4. IsFiniteSet(B)
    <2> HIDE DEF Y, f
    <2> QED BY <1>2, ImageBound
  <1>5. D \subseteq B
    BY <1>3
  <1> HIDE DEF D, B
  <1>6. IsFiniteSet(D)
    BY <1>4, <1>5, FS_Subset
  <1> QED BY <1>6 DEF D

LEMMA FiniteStrings ==
  ASSUME NEW x \in Coord, NEW sg \in Sigma
  PROVE  /\ IsFiniteSet(Strings(sg, x))
         /\ Cardinality(Strings(sg, x)) <= IF sg = 0 THEN CountPlus ELSE Count
  <1>0. x \in Nat /\ DELTA \in Nat /\ DELTA > 0 /\ x >= DELTA
    BY CoordAssumption, LowCoordAssumption
  <1>1. IsFiniteSet(LevelsPlus) /\ IsFiniteSet(Levels)
    BY LevelSetAssumption
  <1>2. CASE sg = 0
    <2> DEFINE lo == x - DELTA
    <2>1. lo \in Nat /\ lo <= x
      BY <1>0
    <2> HIDE DEF lo
    <2>2. IsFiniteSet(set_dec(lo, x, LevelsPlus))
      BY <1>0, <1>1, <2>1, LevelSets, FiniteDec
    <2> QED BY <1>2, <2>2, CountAssumption DEF Strings, lo
  <1>3. CASE sg = 1
    <2> DEFINE lo == x + 1
               hi == x + DELTA
    <2>1. lo \in Nat /\ hi \in Nat /\ lo <= hi
      BY <1>0
    <2> HIDE DEF lo, hi
    <2>2. IsFiniteSet(set_dec(lo, hi, Levels))
      BY <1>0, <1>1, <2>1, LevelSets, FiniteDec
    <2> QED BY <1>3, <2>2, CountAssumption DEF Strings, lo, hi
  <1> QED BY <1>2, <1>3 DEF Sigma

\* The sizes the parties announce are numbers.
LEMMA SizeTypes ==
  /\ Cardinality(Levels) \in Nat /\ Cardinality(LevelsPlus) \in Nat /\ Cardinality(LevelsIf) \in Nat
  /\ Cardinality(Bin) \in Nat /\ PrefixSizeEachBin \in Nat
  /\ OpprfSize \in Nat /\ KeysSize \in Nat /\ IfSize \in Nat /\ IfKeysSize \in Nat
  <1>1. /\ Cardinality(Levels) \in Nat /\ Cardinality(LevelsPlus) \in Nat
        /\ Cardinality(LevelsIf) \in Nat
    BY LevelSetAssumption, FS_CardinalityType
  <1>2. Cardinality(Bin) \in Nat /\ Cardinality(BallR) \in Nat /\ Cardinality(HashIdx) \in Nat
    BY FiniteAssumption, FS_CardinalityType
  <1>3. PrefixSizeEachBin \in Nat
    BY <1>1 DEF PrefixSizeEachBin
  <1>4. OpprfSize \in Nat
    <2> DEFINE c == CountPlus + Count
               r == Cardinality(BallR)
    <2>1. c \in Nat /\ r \in Nat
      BY <1>2, CountAssumption
    <2> HIDE DEF c, r
    <2>2. c * r \in Nat
      BY <2>1
    <2>3. (c * r) * Cardinality(HashIdx) \in Nat
      BY <1>2, <2>2
    <2> QED BY <2>3 DEF OpprfSize, c, r
  <1>5. KeysSize \in Nat
    BY <1>2, <1>3 DEF KeysSize
  <1>6. IfSize \in Nat /\ IfKeysSize \in Nat
    BY <1>1, <1>2, IfCountAssumption DEF IfSize, IfKeysSize
  <1> QED BY <1>1, <1>2, <1>3, <1>4, <1>5, <1>6

\* A list that fits is padded to the size announced.
LEMMA Padded ==
  ASSUME NEW n \in Nat, NEW m \in Nat, m <= n
  PROVE  Max({n, m}) = n
  <1>1. Max({n, m}) = CHOOSE x \in {n, m} : \A y \in {n, m} : x >= y
    BY DEF Max
  <1>2. \A x \in {n, m} : (\A y \in {n, m} : x >= y) => x = n
    OBVIOUS
  <1>3. n \in {n, m} /\ \A y \in {n, m} : n >= y
    OBVIOUS
  <1> QED BY <1>1, <1>2, <1>3

\* The prefixes of a value differ in their level.
LEMMA PrefixesCount ==
  ASSUME NEW y, NEW sg \in Sigma
  PROVE  IsFiniteSet(Prefixes(sg, y)) /\ Cardinality(Prefixes(sg, y)) = Cardinality(Levels)
  <1> DEFINE lv == IF sg = 0 THEN LevelsPlus ELSE Levels
             P == Prefixes(sg, y)
             f == [mu \in lv |-> Prefix(y, mu)]
  <1>1. IsFiniteSet(lv) /\ Cardinality(lv) = Cardinality(Levels)
    BY LevelSetAssumption, LevelsAssumption
  <1>2. P = {Prefix(y, mu) : mu \in lv}
    BY DEF Prefixes, set_prefix
  <1>3. \A mu \in lv : f[mu] = Prefix(y, mu) /\ Prefix(y, mu).mu = mu
    BY DEF Prefix
  <1> HIDE DEF lv, P, f
  <1>4. /\ \A mu \in lv : f[mu] \in P
        /\ \A p \in P : \E mu \in lv : f[mu] = p
        /\ \A mu, nu \in lv : f[mu] = f[nu] => mu = nu
    BY <1>2, <1>3
  <1>5. IsFiniteSet(P) /\ Cardinality(P) = Cardinality(lv)
    BY <1>1, <1>4, ImageExact
  <1> QED BY <1>1, <1>5 DEF P

\* Every query names its bin, and within a bin the key is the query.
LEMMA QueryKeys ==
  ASSUME NEW d \in Dim, NEW b \in Bin
  PROVE  /\ \A q \in BinKeys(d, b) : q.key.bin = b
         /\ \A q, t \in BinKeys(d, b) : q.key = t.key => q = t
  <1>1. CASE BallIn(b) = None
    BY <1>1 DEF BinKeys, Key
  <1>2. CASE BallIn(b) # None
    <2> DEFINE s == BallIn(b)
               y == ballsS[s].pt[d]
               Q(sg, p) == [key |-> Key(p, ballsS[s].id, slot[s], b, sg), e |-> Gap(sg, y, p)]
    <2>1. BinKeys(d, b) = UNION {{Q(sg, p) : p \in Prefixes(sg, y)} : sg \in Sigma}
      BY <1>2 DEF BinKeys
    <2>2. \A sg, p : /\ Q(sg, p).key.bin = b /\ Q(sg, p).key.side = sg /\ Q(sg, p).key.pre = p
      BY DEF Key
    <2> HIDE DEF Q
    <2>3. \A q \in BinKeys(d, b) : \E sg \in Sigma : \E p \in Prefixes(sg, y) : q = Q(sg, p)
      BY <2>1
    <2>4. \A q \in BinKeys(d, b) : q.key.bin = b /\ q = Q(q.key.side, q.key.pre)
      BY <2>2, <2>3
    <2> QED BY <2>4
  <1> QED BY <1>1, <1>2

\* Every bin has the same number of queries, holding a ball or not.
LEMMA BinKeysCount ==
  ASSUME NEW d \in Dim, NEW b \in Bin
  PROVE  IsFiniteSet(BinKeys(d, b)) /\ Cardinality(BinKeys(d, b)) = PrefixSizeEachBin
  <1> DEFINE K == BinKeys(d, b)
  <1>1. CASE BallIn(b) = None
    <2> DEFINE I == 1 .. 2 * Cardinality(Levels)
               f == [j \in I |-> [key |-> Key(j, None, None, b, None), e |-> 0]]
    <2>1. IsFiniteSet(I) /\ Cardinality(I) = 2 * Cardinality(Levels)
      <3> DEFINE n == 2 * Cardinality(Levels)
      <3>1. n \in Nat /\ 1 <= n + 1 /\ n - 1 + 1 = n
        BY SizeTypes
      <3> HIDE DEF n
      <3>2. IsFiniteSet(1 .. n) /\ Cardinality(1 .. n) = n
        BY <3>1, FS_Interval
      <3> QED BY <3>2 DEF n
    <2>2. K = {f[j] : j \in I}
      BY <1>1 DEF BinKeys
    <2>3. \A j \in I : f[j].key.pre = j
      BY DEF Key
    <2> HIDE DEF I, f, K
    <2>4. IsFiniteSet(K) /\ Cardinality(K) = Cardinality(I)
      <3>1. /\ \A j \in I : f[j] \in K
            /\ \A q \in K : \E j \in I : f[j] = q
            /\ \A j, k \in I : f[j] = f[k] => j = k
        BY <2>2, <2>3
      <3> QED BY <2>1, <3>1, ImageExact
    <2> QED BY <2>1, <2>4 DEF PrefixSizeEachBin, K
  <1>2. CASE BallIn(b) # None
    <2> DEFINE s == BallIn(b)
               y == ballsS[s].pt[d]
               n == Cardinality(Levels)
               Q(sg, p) == [key |-> Key(p, ballsS[s].id, slot[s], b, sg), e |-> Gap(sg, y, p)]
               S == [sg \in Sigma |-> {Q(sg, p) : p \in Prefixes(sg, y)}]
    <2>1. K = UNION {S[sg] : sg \in Sigma}
      BY <1>2 DEF BinKeys
    <2>2. \A sg, p : Q(sg, p).key.side = sg /\ Q(sg, p).key.pre = p
      BY DEF Key
    <2>3. ASSUME NEW sg \in Sigma PROVE IsFiniteSet(S[sg]) /\ Cardinality(S[sg]) = n
      <3> DEFINE P == Prefixes(sg, y)
                 f == [p \in P |-> Q(sg, p)]
                 T == S[sg]
      <3>1. IsFiniteSet(P) /\ Cardinality(P) = n
        BY PrefixesCount
      <3>2. T = {Q(sg, p) : p \in P}
        OBVIOUS
      <3>3. \A p \in P : f[p] = Q(sg, p)
        OBVIOUS
      <3> HIDE DEF Q, P, f, T, n
      <3>4. /\ \A p \in P : f[p] \in T
            /\ \A q \in T : \E p \in P : f[p] = q
            /\ \A p, q \in P : f[p] = f[q] => p = q
        BY <2>2, <3>2, <3>3
      <3>5. IsFiniteSet(T) /\ Cardinality(T) = Cardinality(P)
        BY <3>1, <3>4, ImageExact
      <3> QED BY <3>1, <3>5 DEF T
    <2>4. \A sg, tg \in Sigma : sg # tg => S[sg] \cap S[tg] = {}
      <3>1. \A sg \in Sigma : \A q \in S[sg] : q.key.side = sg
        <4> SUFFICES ASSUME NEW sg \in Sigma, NEW q \in S[sg] PROVE q.key.side = sg
          OBVIOUS
        <4>1. PICK p \in Prefixes(sg, y) : q = Q(sg, p)
          OBVIOUS
        <4> HIDE DEF Q
        <4> QED BY <2>2, <4>1
      <3> HIDE DEF S
      <3> QED BY <3>1
    <2>5. IsFiniteSet(Sigma) /\ Cardinality(Sigma) = 2
      <3>1. Sigma = 0 .. 1
        BY DEF Sigma
      <3>2. ASSUME NEW m \in Nat, m = 1 PROVE IsFiniteSet(0 .. m) /\ Cardinality(0 .. m) = 2
        <4>1. IsFiniteSet(0 .. m) /\ Cardinality(0 .. m) = m + 1
          BY FS_Interval
        <4> QED BY <3>2, <4>1
      <3> QED BY <3>1, <3>2
    <2>6. n \in Nat
      BY SizeTypes
    <2> HIDE DEF S, n
    <2> DEFINE U == UNION {S[sg] : sg \in Sigma}
    <2>7. IsFiniteSet(U) /\ Cardinality(U) = n * Cardinality(Sigma)
      BY <2>3, <2>4, <2>5, <2>6, UnionExact
    <2>8. n * Cardinality(Sigma) = 2 * n
      BY <2>5, <2>6
    <2> QED BY <2>1, <2>7, <2>8 DEF PrefixSizeEachBin, n
  <1> QED BY <1>1, <1>2

\* The queries of thread d.
Queries(d) == UNION {BinKeys(d, b) : b \in Bin}

\* keys_size is the number of queries, although it counts both lists of a bin
\* with one level set.
LEMMA QueriesCount ==
  ASSUME NEW d \in Dim
  PROVE  IsFiniteSet(Queries(d)) /\ Cardinality(Queries(d)) = KeysSize /\ QueryCount(d) = KeysSize
  <1> DEFINE n == PrefixSizeEachBin
             S == [b \in Bin |-> BinKeys(d, b)]
             U == UNION {S[b] : b \in Bin}
  <1>1. \A b \in Bin : IsFiniteSet(S[b]) /\ Cardinality(S[b]) = n
    BY BinKeysCount
  <1>2. \A b, c \in Bin : b # c => S[b] \cap S[c] = {}
    BY QueryKeys
  <1>3. U = Queries(d)
    BY DEF Queries
  <1>4. n \in Nat /\ IsFiniteSet(Bin)
    BY SizeTypes, FiniteAssumption
  <1> HIDE DEF n, S
  <1>5. IsFiniteSet(U) /\ Cardinality(U) = n * Cardinality(Bin)
    BY <1>1, <1>2, <1>4, UnionExact
  <1> HIDE DEF U
  <1> QED BY <1>3, <1>5 DEF KeysSize, QueryCount, Queries, n

\* The keys the sender programs are as many as its queries: two queries of
\* a bin that met a string of the receiver would be one, and the answers to
\* the others are their own.
LEMMA CandidateKeys ==
  ASSUME InputInit, NEW d \in Dim
  PROVE  Cardinality({c.key : c \in Cand(d)}) = KeysSize
  <1> DEFINE Q == Queries(d)
             K == {c.key : c \in Cand(d)}
             Ans(q) == Answer(d, List(d), q)
             f == [q \in Q |-> <<Ans(q).a0, q.key.bin>>]
  <1>1. ASSUME NEW b \in Bin, NEW q \in BinKeys(d, b)
        PROVE  q \in Q /\ q.key.bin = b /\ f[q] = <<Ans(q).a0, b>> /\ f[q] \in K
    <2>1. q \in Q
      BY DEF Queries
    <2>2. q.key.bin = b
      BY QueryKeys
    <2> DEFINE c == [key |-> <<Ans(q).a0, b>>, val |-> ValOf(d, b, Ans(q))]
    <2>3. c \in Cand(d)
      BY CandidateForms
    <2>4. c.key \in K
      BY <2>3
    <2>5. c.key = <<Ans(q).a0, b>>
      OBVIOUS
    <2>6. f[q] = <<Ans(q).a0, b>>
      BY <2>1, <2>2
    <2> HIDE DEF K, f, c
    <2> QED BY <2>1, <2>2, <2>4, <2>5, <2>6
  <1>2. ASSUME NEW k \in K PROVE \E q \in Q : f[q] = k
    <2>1. PICK c \in Cand(d) : k = c.key
      OBVIOUS
    <2>2. PICK b \in Bin : \E q \in BinKeys(d, b) :
            LET i == Answer(d, List(d), q) IN c = [key |-> <<i.a0, b>>, val |-> ValOf(d, b, i)]
      BY <2>1, CandidateForms
    <2>3. PICK q \in BinKeys(d, b) : c = [key |-> <<Ans(q).a0, b>>, val |-> ValOf(d, b, Ans(q))]
      BY <2>2
    <2>4. k = <<Ans(q).a0, b>>
      BY <2>1, <2>3
    <2> HIDE DEF K, f, Q
    <2> QED BY <1>1, <2>4
  <1>3. ASSUME NEW q \in Q, NEW t \in Q, f[q] = f[t] PROVE q = t
    <2>1. PICK b \in Bin : q \in BinKeys(d, b)
      BY DEF Queries
    <2>2. PICK c \in Bin : t \in BinKeys(d, c)
      BY DEF Queries
    <2>3. f[q] = <<Ans(q).a0, b>> /\ f[t] = <<Ans(t).a0, c>>
      BY <1>1, <2>1, <2>2
    <2> HIDE DEF f, Q, Ans
    <2>4. b = c /\ Ans(q).a0 = Ans(t).a0
      <3> DEFINE v == Ans(q).a0
                 w == Ans(t).a0
      <3>1. <<v, b>> = <<w, c>>
        BY <1>3, <2>3
      <3> HIDE DEF v, w
      <3>2. v = w /\ b = c
        BY <3>1
      <3> QED BY <3>2 DEF v, w
    <2> USE DEF Ans
    <2>5. t \in BinKeys(d, b)
      BY <2>2, <2>4
    <2>6. /\ Programmed(d, q) => Ans(q).a0 = A0(d, b)
          /\ ~Programmed(d, q) => Ans(q).a0 = Prf(d, q.key)
      <3>1. Programmed(d, q) => \E r \in List(d) : Ans(q) = [e |-> q.e, a0 |-> A0(d, b), row |-> r.row]
        BY <2>1, AnswerForms
      <3>2. ~Programmed(d, q) => Ans(q) = [e |-> q.e, a0 |-> Prf(d, q.key), row |-> None]
        BY <2>1, AnswerForms
      <3> HIDE DEF Ans
      <3> QED BY <3>1, <3>2
    <2>7. /\ Programmed(d, t) => Ans(t).a0 = A0(d, b)
          /\ ~Programmed(d, t) => Ans(t).a0 = Prf(d, t.key)
      <3>1. Programmed(d, t) => \E r \in List(d) : Ans(t) = [e |-> t.e, a0 |-> A0(d, b), row |-> r.row]
        BY <2>5, AnswerForms
      <3>2. ~Programmed(d, t) => Ans(t) = [e |-> t.e, a0 |-> Prf(d, t.key), row |-> None]
        BY <2>5, AnswerForms
      <3> HIDE DEF Ans
      <3> QED BY <3>1, <3>2
    <2> HIDE DEF Ans
    <2>8. CASE Programmed(d, q)
      <3>1. Programmed(d, t)
        BY <2>4, <2>6, <2>7, <2>8, Symbols
      <3> QED BY <2>1, <2>5, <2>8, <3>1, OneProgrammed
    <2>9. CASE ~Programmed(d, q)
      <3>1. ~Programmed(d, t)
        BY <2>4, <2>6, <2>7, <2>9, Symbols
      <3>2. q.key = t.key
        BY <2>4, <2>6, <2>7, <2>9, <3>1, Symbols
      <3> QED BY <2>1, <2>5, <3>2, QueryKeys
    <2> QED BY <2>8, <2>9
  <1>4. \A q \in Q : f[q] \in K
    <2> SUFFICES ASSUME NEW q \in Q PROVE f[q] \in K
      OBVIOUS
    <2>1. PICK b \in Bin : q \in BinKeys(d, b)
      BY DEF Queries
    <2> HIDE DEF f, K, Q
    <2> QED BY <1>1, <2>1
  <1>5. IsFiniteSet(Q) /\ Cardinality(Q) = KeysSize
    BY QueriesCount
  <1> HIDE DEF Q, K, f
  <1>6. Cardinality(K) = Cardinality(Q)
    BY <1>2, <1>3, <1>4, <1>5, ImageExact
  <1> QED BY <1>5, <1>6 DEF K

\* getList_lp fits into opprf_size: padding fills it up to that size.
LEMMA ListFits ==
  ASSUME InputInit, NEW d \in Dim
  PROVE  ListSize(d) = OpprfSize
  <1> DEFINE X == BallR \X HashIdx
             n == CountPlus + Count
             Row(i, k, sg, p) ==
               LET b == Loc(ballsR[i].id, k)
               IN [key |-> Key(p, ballsR[i].id, k, b, sg), a0 |-> A0(d, b),
                   row |-> PrefixVals(draw.a[d][b], Diff(sg, ballsR[i].pt[d], p))]
             L(i, k, sg) == {Row(i, k, sg, p) : p \in Strings(sg, ballsR[i].pt[d])}
             S == [x \in X |-> L(x[1], x[2], 0) \cup L(x[1], x[2], 1)]
             U == UNION {S[x] : x \in X}
  <1>1. List(d) = UNION {L(i, k, sg) : i \in BallR, k \in HashIdx, sg \in Sigma}
    BY DEF List
  <1>2. ASSUME NEW i \in BallR, NEW k \in HashIdx, NEW sg \in Sigma
        PROVE  /\ IsFiniteSet(L(i, k, sg)) /\ Cardinality(L(i, k, sg)) \in Nat
               /\ Cardinality(L(i, k, sg)) <= IF sg = 0 THEN CountPlus ELSE Count
    <2> DEFINE T == Strings(sg, ballsR[i].pt[d])
               B == L(i, k, sg)
               f == [p \in T |-> Row(i, k, sg, p)]
               m == IF sg = 0 THEN CountPlus ELSE Count
    <2>1. IsFiniteSet(T) /\ Cardinality(T) <= m
      BY Coordinates, FiniteStrings
    <2>2. B = {Row(i, k, sg, p) : p \in T} /\ \A p \in T : f[p] = Row(i, k, sg, p)
      OBVIOUS
    <2>3. m \in Nat
      BY CountAssumption
    <2> HIDE DEF T, B, f, m, Row
    <2>4. IsFiniteSet(B) /\ Cardinality(B) <= Cardinality(T)
      BY <2>1, <2>2, ImageBound
    <2>5. Cardinality(B) \in Nat /\ Cardinality(T) \in Nat
      BY <2>1, <2>4, FS_CardinalityType
    <2>6. Cardinality(B) <= m
      BY <2>1, <2>3, <2>4, <2>5
    <2> QED BY <2>4, <2>5, <2>6 DEF B, m
  <1> HIDE DEF L
  <1>3. ASSUME NEW x \in X PROVE IsFiniteSet(S[x]) /\ Cardinality(S[x]) <= n
    <2> DEFINE A == L(x[1], x[2], 0)
               B == L(x[1], x[2], 1)
    <2>0. x[1] \in BallR /\ x[2] \in HashIdx /\ 0 \in Sigma /\ 1 \in Sigma /\ S[x] = A \cup B
      BY DEF Sigma
    <2>1. /\ IsFiniteSet(A) /\ Cardinality(A) \in Nat /\ Cardinality(A) <= CountPlus
          /\ IsFiniteSet(B) /\ Cardinality(B) \in Nat /\ Cardinality(B) <= Count
      <3>1. 0 = 0 /\ ~(1 = 0)
        OBVIOUS
      <3> QED BY <1>2, <2>0, <3>1
    <2> HIDE DEF A, B, S
    <2>2. /\ IsFiniteSet(A \cup B)
          /\ Cardinality(A \cup B) = Cardinality(A) + Cardinality(B) - Cardinality(A \cap B)
          /\ IsFiniteSet(A \cap B)
      BY <2>1, FS_Union, FS_Intersection
    <2>3. Cardinality(A \cap B) \in Nat
      BY <2>2, FS_CardinalityType
    <2>4. Cardinality(A \cup B) <= n
      BY <2>1, <2>2, <2>3, CountAssumption
    <2> QED BY <2>0, <2>2, <2>4
  <1>4. U = List(d)
    <2> DEFINE E(i, k, sg, r) == r \in L(i, k, sg)
    <2>1. \A r : r \in List(d) <=> \E i \in BallR, k \in HashIdx, sg \in Sigma : E(i, k, sg, r)
      BY <1>1
    <2>2. ASSUME NEW r
          PROVE  r \in U <=> \E i \in BallR, k \in HashIdx : E(i, k, 0, r) \/ E(i, k, 1, r)
      <3>1. \A x \in X : /\ x[1] \in BallR /\ x[2] \in HashIdx
                         /\ r \in S[x] <=> E(x[1], x[2], 0, r) \/ E(x[1], x[2], 1, r)
        OBVIOUS
      <3>2. \A i \in BallR, k \in HashIdx :
              <<i, k>> \in X /\ (r \in S[<<i, k>>] <=> E(i, k, 0, r) \/ E(i, k, 1, r))
        OBVIOUS
      <3> HIDE DEF X, S, E
      <3> QED BY <3>1, <3>2
    <2> HIDE DEF U, E
    <2>3. \A r : r \in U <=> r \in List(d)
      BY <2>1, <2>2 DEF Sigma
    <2> QED BY <2>3
  <1>5. IsFiniteSet(X) /\ Cardinality(X) = Cardinality(BallR) * Cardinality(HashIdx)
    BY FiniteAssumption, FS_Product
  <1>6. n \in Nat
    BY CountAssumption
  <1>7. n * (Cardinality(BallR) * Cardinality(HashIdx)) = OpprfSize
    <2>1. Cardinality(BallR) \in Nat /\ Cardinality(HashIdx) \in Nat
      BY FiniteAssumption, FS_CardinalityType
    <2> HIDE DEF n
    <2>2. \A a, b, c \in Nat : a * (b * c) = (a * b) * c
      OBVIOUS
    <2>3. OpprfSize = (n * Cardinality(BallR)) * Cardinality(HashIdx)
      BY DEF OpprfSize, n
    <2> QED BY <1>6, <2>1, <2>2, <2>3
  <1> HIDE DEF X, S, n
  <1>8. IsFiniteSet(U) /\ Cardinality(U) \in Nat /\ Cardinality(U) <= n * Cardinality(X)
    BY <1>3, <1>5, <1>6, UnionBound
  <1> HIDE DEF U
  <1>9. Cardinality(List(d)) \in Nat /\ Cardinality(List(d)) <= OpprfSize
    BY <1>4, <1>5, <1>7, <1>8
  <1> QED BY <1>9, SizeTypes, Padded DEF ListSize

\* So does the list of ssIFMat_recv.
LEMMA IfListFits ==
  ASSUME InputInit, draw \in Draws, AllShares
  PROVE  IfListSize = IfSize
  <1> DEFINE X == {c \in Bin : VSum(c) # None}
             S == [b \in X |-> {<<p, b>> : p \in IfStrings(VSum(b))}]
             U == UNION {S[b] : b \in X}
  <1>1. U = IfList
    BY DEF IfList
  <1>2. IsFiniteSet(X) /\ Cardinality(X) <= Cardinality(Bin)
    BY FiniteAssumption, FS_Subset
  <1>3. ASSUME NEW b \in X PROVE IsFiniteSet(S[b]) /\ Cardinality(S[b]) <= CountIf
    <2> DEFINE v == VSum(b)
               T == IfStrings(v)
               B == S[b]
               f == [p \in T |-> <<p, b>>]
    <2>1. v \in 0 .. DIM * (M - 1)
      BY VSumFacts
    <2>2. IsFiniteSet(T) /\ Cardinality(T) <= CountIf
      <3> HIDE DEF v
      <3> DEFINE hi == v + Threshold
      <3>1. v \in Nat /\ hi \in Nat /\ v <= hi
        BY <2>1, ThresholdFacts
      <3>2. IsFiniteSet(LevelsIf)
        BY LevelSetAssumption
      <3> HIDE DEF hi
      <3>3. IsFiniteSet(set_dec(v, hi, LevelsIf))
        BY <3>1, <3>2, LevelSets, FiniteDec
      <3> QED BY <2>1, <3>3, IfCountAssumption DEF IfStrings, hi
    <2>3. B = {<<p, b>> : p \in T} /\ \A p \in T : f[p] = <<p, b>>
      OBVIOUS
    <2> HIDE DEF T, B, f
    <2>4. IsFiniteSet(B) /\ Cardinality(B) <= Cardinality(T)
      BY <2>2, <2>3, ImageBound
    <2>5. Cardinality(B) \in Nat /\ Cardinality(T) \in Nat /\ CountIf \in Nat
      BY <2>2, <2>4, FS_CardinalityType, IfCountAssumption
    <2>6. Cardinality(B) <= CountIf
      BY <2>2, <2>4, <2>5
    <2> QED BY <2>4, <2>6 DEF B
  <1> HIDE DEF X, S
  <1>4. IsFiniteSet(U) /\ Cardinality(U) \in Nat /\ Cardinality(U) <= CountIf * Cardinality(X)
    BY <1>2, <1>3, UnionBound, IfCountAssumption
  <1>5. CountIf * Cardinality(X) <= IfSize
    <2>1. CountIf \in Nat /\ Cardinality(X) \in Nat /\ Cardinality(Bin) \in Nat
      BY <1>2, IfCountAssumption, SizeTypes, FS_CardinalityType
    <2>2. \A a, b, c \in Nat : b <= c => a * b <= a * c
      OBVIOUS
    <2> QED BY <1>2, <2>1, <2>2 DEF IfSize
  <1> HIDE DEF U
  <1>6. Cardinality(U) <= IfSize
    <2>1. CountIf * Cardinality(X) \in Int /\ IfSize \in Nat
      BY <1>2, IfCountAssumption, SizeTypes, FS_CardinalityType
    <2> DEFINE z == CountIf * Cardinality(X)
    <2> HIDE DEF z
    <2> QED BY <1>4, <1>5, <2>1 DEF z
  <1> QED BY <1>1, <1>4, <1>6, SizeTypes, Padded DEF IfListSize

-----------------------------------------------------------------------------
(* The inductive invariant. *)

\* The inputs and the draws never change, the threads and the main threads
\* stay in step, and two match bits share the match.  The rest follows.
IndInv == InputInit /\ draw \in Draws /\ TypeOK /\ ThreadInv /\ MainInv /\ SharedMatch

\* What is computed from the inputs and the draws alone does not change.
LEMMA ConstFixed ==
  ASSUME InputInit, draw \in Draws, UNCHANGED const
  PROVE  /\ InputInit' /\ (draw \in Draws)'
         /\ \A b \in Bin : BallIn(b)' = BallIn(b) /\ USum(b)' = USum(b)
         /\ \A d \in Dim : /\ List(d)' = List(d) /\ Answers(d)' = Answers(d)
                           /\ Candidates(d, Answers(d))' = Candidates(d, Answers(d))
                           /\ VHats(d)' = VHats(d)
  <1>0. UNCHANGED inputs /\ draw' = draw
    BY DEF const
  <1>1. InputInit' /\ (draw \in Draws)'
    BY <1>0 DEF InputInit, inputs
  <1>2. \A b \in Bin : BallIn(b)' = BallIn(b)
    BY <1>0 DEF BallIn, Loc, inputs
  <1>3. \A b \in Bin : USum(b)' = USum(b)
    BY <1>0 DEF USum
  <1>4. \A d \in Dim : List(d)' = List(d)
    BY <1>0 DEF List, Loc, inputs
  <1>5. ASSUME NEW d \in Dim, NEW b \in Bin PROVE BinKeys(d, b)' = BinKeys(d, b)
    <2>1. ballsS' = ballsS /\ slot' = slot /\ BallIn(b)' = BallIn(b)
      BY <1>0, <1>2 DEF inputs
    <2>2. CASE BallIn(b) = None
      BY <2>1, <2>2 DEF BinKeys
    <2>3. CASE BallIn(b) # None
      BY <2>1, <2>3 DEF BinKeys
    <2> QED BY <2>2, <2>3
  <1>6. \A d \in Dim : Answers(d)' = Answers(d)
    BY <1>4, <1>5 DEF Answers
  <1>7. \A d \in Dim : Candidates(d, Answers(d))' = Candidates(d, Answers(d))
    BY <1>0, <1>6 DEF Candidates
  <1>8. \A d \in Dim : VHats(d)' = VHats(d)
    <2> SUFFICES ASSUME NEW d \in Dim PROVE VHats(d)' = VHats(d)
      OBVIOUS
    <2>1. ASSUME NEW b \in Bin
          PROVE  VHatOf(d, b, Candidates(d, Answers(d)))' = VHatOf(d, b, Candidates(d, Answers(d)))
      <3>1. Candidates(d, Answers(d))' = Candidates(d, Answers(d)) /\ draw' = draw
        BY <1>0, <1>7
      <3> QED BY <3>1 DEF VHatOf
    <2> QED BY <2>1 DEF VHats
  <1> QED BY <1>1, <1>2, <1>3, <1>4, <1>6, <1>7, <1>8

\* A bin matches what it matched.
LEMMA MatchFixed ==
  ASSUME InputInit, draw \in Draws, UNCHANGED const, NEW b \in Bin, NEW i \in BallR
  PROVE  /\ BallIn(b)' = BallIn(b)
         /\ Within(i, BallIn(b))' <=> Within(i, BallIn(b))
         /\ NoWrap(i, BallIn(b), b)' <=> NoWrap(i, BallIn(b), b)
  <1>0. UNCHANGED inputs /\ draw' = draw
    BY DEF const
  <1>1. BallIn(b)' = BallIn(b)
    BY ConstFixed
  <1>2. \A d \in Dim : DistPow(d, i, BallIn(b))' = DistPow(d, i, BallIn(b))
    BY <1>0, <1>1 DEF DistPow, inputs
  <1>3. \A d \in Dim : CloseIn(d, i, BallIn(b))' <=> CloseIn(d, i, BallIn(b))
    BY <1>0, <1>1 DEF CloseIn, inputs
  <1> QED BY <1>0, <1>1, <1>2, <1>3 DEF Within, NoWrap

\* ssIFMat works on what the dimension threads left.
LEMMA IfFixed ==
  ASSUME InputInit, draw \in Draws, UNCHANGED const, v_hat' = v_hat
  PROVE  IfList' = IfList /\ IfAnswers' = IfAnswers
  <1>1. \A b \in Bin : VSum(b)' = VSum(b)
    BY DEF VSum
  <1>2. IfList' = IfList
    BY <1>1 DEF IfList
  <1>3. \A b \in Bin : USum(b)' = USum(b)
    BY ConstFixed
  <1> QED BY <1>2, <1>3 DEF IfAnswers

\* v_hat[d] is a row of words and absent numbers.
LEMMA VHatType ==
  ASSUME InputInit, draw \in Draws, NEW d \in Dim
  PROVE  VHats(d) \in [Bin -> 0 .. M - 1 \cup {None}]
  <1>1. \A b \in Bin : VHats(d)[b] \in 0 .. M - 1 \cup {None}
    BY VHatFacts
  <1>2. VHats(d) = [b \in Bin |-> VHatOf(d, b, Candidates(d, Answers(d)))]
    BY DEF VHats
  <1> QED BY <1>1, <1>2

LEMMA InitIndInv == Init => IndInv
  <1> SUFFICES ASSUME Init PROVE IndInv
    OBVIOUS
  <1>1. InputInit /\ draw \in Draws
    BY DEF Init
  <1>2. TypeOK
    BY DEF Init, TypeOK
  <1>3. ThreadInv
    BY DEF Init, ThreadInv, ThreadPhase, ThreadState
  <1>4. MainInv
    <2>1. MainState({"join"}, {"join", "keys"}, <<>>, <<>>)
      BY DimAssumption DEF Init, MainState, Dim
    <2> QED BY <2>1 DEF Init, MainInv, MainPhase
  <1>5. SharedMatch
    BY DEF Init, SharedMatch
  <1> QED
    BY <1>1, <1>2, <1>3, <1>4, <1>5 DEF IndInv

\* Before the threads of dimension d are done the main thread of their party
\* waits, and the sender's main thread has at most joined.
LEMMA MainWaits ==
  ASSUME IndInv, NEW d \in Dim
  PROVE  /\ tR[d] # "done" => mR = "join" /\ mS \in {"join", "keys"}
         /\ tS[d] # "done" => tR[d] # "done" /\ mR = "join" /\ mS = "join"
  <1>1. tS[d] # "done" => tR[d] # "done"
    BY DEF IndInv, ThreadInv, ThreadPhase, ThreadState
  <1>2. tR[d] # "done" => mR = "join"
    BY DEF IndInv, MainInv
  <1>3. mR = "join" => mS \in {"join", "keys"}
    BY DEF IndInv, MainInv, MainPhase, MainState
  <1>4. tS[d] # "done" => mS = "join"
    BY DEF IndInv, MainInv
  <1> QED
    BY <1>1, <1>2, <1>3, <1>4

\* Thread d of a party does something on its own socket.
ThreadFrame(d) ==
  /\ UNCHANGED <<const, main>>
  /\ \A e \in Dim \ {d} :
       /\ tR'[e] = tR[e] /\ tS'[e] = tS[e] /\ toS'[e] = toS[e] /\ toR'[e] = toR[e]
       /\ otherR'[e] = otherR[e] /\ otherS'[e] = otherS[e] /\ u'[e] = u[e] /\ v_hat'[e] = v_hat[e]

\* Such a step leaves the other dimensions and, before the join, the main
\* threads in order.
LEMMA ThreadStep ==
  ASSUME IndInv, NEW d \in Dim, ThreadFrame(d), TypeOK',
         ThreadPhase(d)',
         tS'[d] # "keys" => otherS'[d] = OpprfSize,
         tR'[d] \notin {"list", "size"} => otherR'[d] = KeysSize,
         tS'[d] \in {"program", "done"} => u'[d] = Answers(d),
         tR'[d] = "done" => v_hat'[d] = VHats(d) /\ toS'[d] = <<>> /\ toR'[d] = <<>>,
         tR[d] # "done", mS = "join" \/ tS'[d] = "done"
  PROVE  IndInv'
  <1>0. UNCHANGED const /\ mR' = mR /\ mS' = mS /\ eeR' = eeR /\ eeS' = eeS
    BY DEF ThreadFrame, main
  <1>a. /\ InputInit' /\ (draw \in Draws)'
        /\ \A e \in Dim : /\ List(e)' = List(e) /\ Answers(e)' = Answers(e)
                          /\ Candidates(e, Answers(e))' = Candidates(e, Answers(e))
                          /\ VHats(e)' = VHats(e)
    BY <1>0, ConstFixed DEF IndInv
  <1>1. ThreadInv'
    <2>1. ASSUME NEW e \in Dim, e # d
          PROVE  /\ ThreadPhase(e)'
                 /\ tS'[e] # "keys" => otherS'[e] = OpprfSize
                 /\ tR'[e] \notin {"list", "size"} => otherR'[e] = KeysSize
                 /\ tS'[e] \in {"program", "done"} => u'[e] = Answers(e)
                 /\ tR'[e] = "done" => v_hat'[e] = VHats(e)
      <3>1. ThreadPhase(e)' <=> ThreadPhase(e)
        BY <1>a, <2>1 DEF ThreadFrame, ThreadPhase, ThreadState
      <3> QED
        BY <2>1, <3>1 DEF IndInv, ThreadInv, ThreadFrame
    <2> QED
      BY <1>a, <2>1 DEF ThreadInv
  <1>2. mR = "join" /\ mS \in {"join", "keys"} /\ eeR = <<>> /\ eeS = <<>>
    <2>1. mR = "join" /\ mS \in {"join", "keys"}
      BY MainWaits
    <2> QED BY <2>1 DEF IndInv, MainInv
  <1>3. MainInv'
    <2>1. MainState({"join"}, {"join", "keys"}, <<>>, <<>>)'
      <3>1. (tR[0] = "done" => toS[0] = <<>> /\ toR[0] = <<>>)
        BY <1>2 DEF IndInv, MainInv, MainPhase, MainState
      <3>2. 0 \in Dim
        BY DimAssumption DEF Dim
      <3>3. tR'[0] = "done" => toS'[0] = <<>> /\ toR'[0] = <<>>
        BY <3>1, <3>2 DEF ThreadFrame
      <3> QED BY <1>0, <1>2, <3>3 DEF MainState
    <2>2. mS' # "join" => \A e \in Dim : tS'[e] = "done"
      BY <1>0 DEF IndInv, MainInv, ThreadFrame
    <2>3. \A e \in Dim \ {0} : tR'[e] = "done" => toS'[e] = <<>> /\ toR'[e] = <<>>
      BY DEF IndInv, MainInv, ThreadFrame
    <2> QED BY <1>0, <1>2, <2>1, <2>2, <2>3 DEF MainInv, MainPhase
  <1>4. SharedMatch'
    BY <1>0, <1>2 DEF SharedMatch
  <1> QED
    BY <1>a, <1>1, <1>3, <1>4 DEF IndInv

\* send(opprf_size).
LEMMA R_ListKeeps ==
  ASSUME IndInv, NEW d \in Dim, R_List(d)
  PROVE  IndInv'
  <1> USE DEF IndInv, R_List
  <1>1. TypeOK' /\ ThreadFrame(d)
    BY DEF TypeOK, Send, ThreadFrame, main
  <1>2. tR[d] = "list" /\ tS[d] = "keys" /\ toS[d] = <<>> /\ toR[d] = <<>>
    BY DEF ThreadInv, ThreadPhase, ThreadState
  <1>3. ThreadState(d, "size", "keys", <<Msg("size", OpprfSize, None)>>, <<>>)'
    BY <1>2, ShortQueues DEF TypeOK, ThreadState, Send
  <1>4. mS = "join" /\ tR[d] # "done"
    BY <1>2, MainWaits
  <1> QED
    BY <1>1, <1>3, <1>4, ThreadStep DEF ThreadPhase, ThreadState

\* recv(opprf_size_other).
LEMMA R_SizeKeeps ==
  ASSUME IndInv, NEW d \in Dim, R_Size(d)
  PROVE  IndInv'
  <1> USE DEF IndInv, R_Size
  <1>1. /\ tS[d] = "eval" /\ toS[d] = <<>> /\ otherS[d] = OpprfSize
        /\ toR[d] = <<Msg("size", KeysSize, None), Msg("request", KeysSize, None)>>
    BY DEF ThreadInv, ThreadPhase, ThreadState, Has
  <1>2. Head(toR[d]).n = KeysSize
    BY <1>1, ShortQueues DEF Msg
  <1>3. KeysSize \in Nat
    BY SizeTypes
  <1>4. TypeOK' /\ ThreadFrame(d)
    BY <1>2, <1>3 DEF TypeOK, Pop, ThreadFrame, main
  <1>5. ThreadState(d, "program", "eval", <<>>, <<Msg("request", KeysSize, None)>>)'
    BY <1>1, ShortQueues DEF TypeOK, ThreadState, Pop
  <1>6. mS = "join" /\ tR[d] # "done"
    BY <1>1, MainWaits
  <1>7. otherR'[d] = KeysSize /\ otherS'[d] = OpprfSize
    BY <1>1, <1>2 DEF TypeOK
  <1> QED
    BY <1>4, <1>5, <1>6, <1>7, ThreadStep DEF ThreadPhase, ThreadState

\* The list is programmed, the own query requested.
LEMMA R_ProgramKeeps ==
  ASSUME IndInv, NEW d \in Dim, R_Program(d)
  PROVE  IndInv'
  <1> USE DEF IndInv, R_Program
  <1>1. /\ tS[d] = "eval" /\ toS[d] = <<>> /\ otherS[d] = OpprfSize /\ otherR[d] = KeysSize
        /\ toR[d] = <<Msg("request", KeysSize, None)>>
    BY DEF ThreadInv, ThreadPhase, ThreadState, Has
  <1>2. ListSize(d) = OpprfSize
    BY ListFits
  <1>3. TypeOK' /\ ThreadFrame(d)
    BY DEF TypeOK, Pop, ThreadFrame, main
  <1>4. /\ tR'[d] = "query" /\ tS'[d] = "eval" /\ toR'[d] = <<>>
        /\ toS'[d] = <<Msg("answer", OpprfSize, List(d)), Msg("request", Cardinality(Bin), None)>>
    BY <1>1, <1>2, ShortQueues DEF TypeOK, Pop
  <1>5. ThreadPhase(d)'
    BY <1>4, ConstFixed DEF ThreadPhase, ThreadState
  <1>6. mS = "join" /\ tR[d] # "done"
    BY <1>1, MainWaits
  <1>7. otherR'[d] = KeysSize /\ otherS'[d] = OpprfSize
    BY <1>1
  <1> QED
    BY <1>3, <1>4, <1>5, <1>6, <1>7, ThreadStep

\* v_hat of the dimension is computed.
LEMMA R_QueryKeeps ==
  ASSUME IndInv, NEW d \in Dim, R_Query(d)
  PROVE  IndInv'
  <1> USE DEF IndInv, R_Query
  <1>1. /\ tS[d] = "done" /\ toS[d] = <<>> /\ otherS[d] = OpprfSize /\ otherR[d] = KeysSize
        /\ toR[d] = <<Msg("answer", KeysSize, Candidates(d, Answers(d)))>> /\ u[d] = Answers(d)
    BY DEF ThreadInv, ThreadPhase, ThreadState, Has
  <1>2. Head(toR[d]).body = Candidates(d, Answers(d))
    BY <1>1, ShortQueues DEF Msg
  <1>3. v_hat' = [v_hat EXCEPT ![d] = VHats(d)]
    BY <1>2 DEF VHats
  <1>4. TypeOK' /\ ThreadFrame(d)
    BY <1>3, VHatType DEF TypeOK, Pop, ThreadFrame, main
  <1>5. /\ tR'[d] = "done" /\ tS'[d] = "done" /\ toR'[d] = <<>> /\ toS'[d] = <<>>
        /\ v_hat'[d] = VHats(d)
    BY <1>1, <1>3, ShortQueues DEF TypeOK, Pop
  <1>6. ThreadPhase(d)'
    BY <1>5 DEF ThreadPhase
  <1>7. otherR'[d] = KeysSize /\ otherS'[d] = OpprfSize /\ u'[d] = Answers(d)
    BY <1>1
  <1>8. tR[d] # "done"
    OBVIOUS
  <1> QED
    BY <1>4, <1>5, <1>6, <1>7, <1>8, ThreadStep

\* The sizes are exchanged, the keys of the bins requested.
LEMMA S_KeysKeeps ==
  ASSUME IndInv, NEW d \in Dim, S_Keys(d)
  PROVE  IndInv'
  <1> USE DEF IndInv, S_Keys
  <1>1. /\ tR[d] = "size" /\ toR[d] = <<>> /\ toS[d] = <<Msg("size", OpprfSize, None)>>
    BY DEF ThreadInv, ThreadPhase, ThreadState, Has
  <1>2. Head(toS[d]).n = OpprfSize
    BY <1>1, ShortQueues DEF Msg
  <1>3. OpprfSize \in Nat /\ QueryCount(d) = KeysSize
    BY SizeTypes, QueriesCount
  <1>4. TypeOK' /\ ThreadFrame(d)
    BY <1>2, <1>3 DEF TypeOK, Pop, ThreadFrame, main
  <1>5. ThreadState(d, "size", "eval", <<>>,
                    <<Msg("size", KeysSize, None), Msg("request", KeysSize, None)>>)'
    BY <1>1, <1>3, ShortQueues DEF TypeOK, ThreadState, Pop
  <1>6. mS = "join" /\ tR[d] # "done"
    BY MainWaits
  <1>7. otherS'[d] = OpprfSize
    BY <1>2 DEF TypeOK
  <1> QED
    BY <1>4, <1>5, <1>6, <1>7, ThreadStep DEF ThreadPhase, ThreadState

\* The answers for every bin arrive.
LEMMA S_EvalKeeps ==
  ASSUME IndInv, NEW d \in Dim, S_Eval(d)
  PROVE  IndInv'
  <1> USE DEF IndInv, S_Eval
  <1>1. /\ tR[d] = "query" /\ toR[d] = <<>> /\ otherS[d] = OpprfSize /\ otherR[d] = KeysSize
        /\ toS[d] = <<Msg("answer", OpprfSize, List(d)), Msg("request", Cardinality(Bin), None)>>
    BY DEF ThreadInv, ThreadPhase, ThreadState, Has
  <1>2. Head(toS[d]).body = List(d)
    BY <1>1, ShortQueues DEF Msg
  <1>3. TypeOK' /\ ThreadFrame(d)
    BY DEF TypeOK, Pop, ThreadFrame, main
  <1>4. ThreadState(d, "query", "program", <<Msg("request", Cardinality(Bin), None)>>, <<>>)'
    BY <1>1, ShortQueues DEF TypeOK, ThreadState, Pop
  <1>5. u'[d] = Answers(d)
    BY <1>2 DEF TypeOK, Answers
  <1>6. mS = "join" /\ tR[d] # "done"
    BY MainWaits
  <1>7. otherR'[d] = KeysSize /\ otherS'[d] = OpprfSize
    BY <1>1
  <1> QED
    BY <1>3, <1>4, <1>5, <1>6, <1>7, ThreadStep DEF ThreadPhase, ThreadState

\* The candidates are programmed.
LEMMA S_ProgramKeeps ==
  ASSUME IndInv, NEW d \in Dim, S_Program(d)
  PROVE  IndInv'
  <1> USE DEF IndInv, S_Program
  <1>1. /\ tR[d] = "query" /\ toR[d] = <<>> /\ otherS[d] = OpprfSize /\ otherR[d] = KeysSize
        /\ toS[d] = <<Msg("request", Cardinality(Bin), None)>> /\ u[d] = Answers(d)
    BY DEF ThreadInv, ThreadPhase, ThreadState, Has
  <1>2. TypeOK' /\ ThreadFrame(d)
    BY DEF TypeOK, Pop, Send, ThreadFrame, main
  <1>3. /\ tR'[d] = "query" /\ tS'[d] = "done" /\ toS'[d] = <<>>
        /\ toR'[d] = <<Msg("answer", KeysSize, Candidates(d, Answers(d)))>>
    BY <1>1, ShortQueues DEF TypeOK, Pop, Send
  <1>4. ThreadPhase(d)'
    BY <1>3, ConstFixed DEF ThreadPhase, ThreadState
  <1>5. mS = "join" /\ tR[d] # "done"
    BY MainWaits
  <1>6. otherR'[d] = KeysSize /\ otherS'[d] = OpprfSize /\ u'[d] = Answers(d)
    BY <1>1
  <1> QED
    BY <1>2, <1>3, <1>4, <1>5, <1>6, ThreadStep

-----------------------------------------------------------------------------
(* The main threads. *)

\* Socket 0 exists.
LEMMA SocketZero == 0 \in Dim
  BY DimAssumption DEF Dim

\* A step of a main thread leaves the threads of the dimensions in order.
LEMMA MainStep ==
  ASSUME IndInv, UNCHANGED <<const, threads>>,
         \A d \in Dim : tR[d] # "done" => toS'[d] = toS[d] /\ toR'[d] = toR[d]
  PROVE  /\ ThreadInv' /\ InputInit' /\ (draw \in Draws)'
         /\ IfList' = IfList /\ IfAnswers' = IfAnswers
  <1>0. /\ tR' = tR /\ tS' = tS /\ otherR' = otherR /\ otherS' = otherS /\ u' = u /\ v_hat' = v_hat
        /\ UNCHANGED const
    BY DEF threads
  <1>1. \A d \in Dim : /\ List(d)' = List(d) /\ Answers(d)' = Answers(d)
                       /\ Candidates(d, Answers(d))' = Candidates(d, Answers(d))
                       /\ VHats(d)' = VHats(d)
    BY <1>0, ConstFixed DEF IndInv
  <1>2. ASSUME NEW d \in Dim PROVE ThreadPhase(d)'
    <2>1. ThreadPhase(d)
      BY DEF IndInv, ThreadInv
    <2>2. CASE tR[d] = "done"
      BY <1>0, <2>1, <2>2 DEF ThreadPhase, ThreadState
    <2>3. CASE tR[d] # "done"
      BY <1>0, <1>1, <2>1, <2>3 DEF ThreadPhase, ThreadState
    <2> QED BY <2>2, <2>3
  <1>3. ThreadInv'
    BY <1>0, <1>1, <1>2 DEF IndInv, ThreadInv
  <1> QED
    BY <1>0, <1>3, ConstFixed, IfFixed DEF IndInv

\* What is left of SharedMatch when no share, input or draw changes.
LEMMA SharedMatchStays ==
  ASSUME IndInv, UNCHANGED <<const, eeR, eeS>>
  PROVE  SharedMatch'
  <1>1. \A b \in Bin, i \in BallR : /\ BallIn(b)' = BallIn(b)
                                    /\ Within(i, BallIn(b))' <=> Within(i, BallIn(b))
                                    /\ NoWrap(i, BallIn(b), b)' <=> NoWrap(i, BallIn(b), b)
    BY MatchFixed DEF IndInv
  <1>2. \A b \in Bin : BallIn(b)' = BallIn(b)
    BY ConstFixed DEF IndInv
  <1>3. SharedMatch
    BY DEF IndInv
  <1> QED
    BY <1>1, <1>2, <1>3 DEF SharedMatch

\* A step of a main thread after the receiver's join: the phase and what
\* the step has set decide.
LEMMA MainMove ==
  ASSUME IndInv, UNCHANGED <<const, threads>>, \A d \in Dim : tR[d] = "done",
         \A d \in Dim \ {0} : toS'[d] = toS[d] /\ toR'[d] = toR[d],
         TypeOK', MainPhase',
         mS' # "join" => \A d \in Dim : tS[d] = "done",
         mS' \notin {"join", "keys"} => ifOtherS' = IfSize,
         mR' \notin {"join", "size"} => ifOtherR' = IfKeysSize,
         mS' \in {"program", "peqt", "done"} => r_' = IfAnswers,
         mR' \in {"peqt", "done"} => t_' = [b \in Bin |-> IfSelect(IfAnswers, b)],
         IF mR' = "done" THEN eeR' \in [Bin -> Bit] ELSE eeR' = <<>>,
         IF mS' = "done" THEN eeS' \in [Bin -> Bit] ELSE eeS' = <<>>,
         SharedMatch'
  PROVE  IndInv'
  <1>1. /\ ThreadInv' /\ InputInit' /\ (draw \in Draws)'
        /\ IfList' = IfList /\ IfAnswers' = IfAnswers
    BY MainStep
  <1>2. tR' = tR /\ tS' = tS
    BY DEF threads
  <1>3. \A d \in Dim \ {0} : toS'[d] = <<>> /\ toR'[d] = <<>>
    BY DEF IndInv, MainInv
  <1>4. (t_ = LET answers == IfAnswers IN [b \in Bin |-> IfSelect(answers, b)])'
          <=> t_' = [b \in Bin |-> IfSelect(IfAnswers, b)]
    <2>1. ASSUME NEW b \in Bin PROVE IfSelect(IfAnswers, b)' = IfSelect(IfAnswers, b)
      BY <1>1 DEF IfSelect
    <2> QED BY <1>1, <2>1
  <1>5. MainInv'
    BY <1>1, <1>2, <1>3, <1>4 DEF MainInv
  <1> QED
    BY <1>1, <1>5 DEF IndInv

\* The join of the receiver's threads and send(opprf_size).
LEMMA R_JoinKeeps ==
  ASSUME IndInv, R_Join
  PROVE  IndInv'
  <1> USE DEF R_Join
  <1>1. \A d \in Dim : tR[d] = "done" /\ tS[d] = "done"
    BY DEF IndInv, ThreadInv, ThreadPhase, ThreadState
  <1>2. mS \in {"join", "keys"} /\ toS[0] = <<>> /\ toR[0] = <<>>
    BY <1>1, SocketZero DEF IndInv, MainInv, MainPhase, MainState
  <1>3. TypeOK'
    BY DEF IndInv, TypeOK, threads, Send
  <1>4. toS'[0] = <<Msg("size", IfSize, None)>> /\ \A d \in Dim \ {0} : toS'[d] = toS[d]
    BY <1>2, SocketZero, ShortQueues DEF Send, IndInv, TypeOK
  <1>5. MainState({"size"}, {"join", "keys"}, <<Msg("size", IfSize, None)>>, <<>>)'
    BY <1>2, <1>4 DEF MainState
  <1>6. SharedMatch'
    BY SharedMatchStays
  <1>7. eeR = <<>> /\ eeS = <<>>
    BY <1>2 DEF IndInv, MainInv
  <1> QED
    BY <1>1, <1>2, <1>3, <1>4, <1>5, <1>6, <1>7, MainMove DEF MainPhase

\* The join of the sender's threads.
LEMMA S_JoinKeeps ==
  ASSUME IndInv, S_Join
  PROVE  IndInv'
  <1> USE DEF S_Join
  <1>0. toS' = toS /\ toR' = toR /\ tR' = tR /\ tS' = tS /\ UNCHANGED <<const, threads, eeR, eeS>>
    BY DEF sockets, threads
  <1>1. ThreadInv' /\ InputInit' /\ (draw \in Draws)'
    BY <1>0, MainStep
  <1>2. TypeOK'
    BY DEF IndInv, TypeOK, threads, sockets
  <1>3. mR \in {"join", "size"}
    BY DEF IndInv, MainInv, MainPhase, MainState
  <1>4. MainPhase'
    BY <1>0 DEF IndInv, MainInv, MainPhase, MainState
  <1>5. MainInv'
    BY <1>0, <1>3, <1>4 DEF IndInv, MainInv
  <1>6. SharedMatch'
    BY <1>0, SharedMatchStays
  <1> QED
    BY <1>1, <1>2, <1>5, <1>6 DEF IndInv

\* Once the receiver has joined, all threads are done.
LEMMA Joined ==
  ASSUME IndInv, mR # "join"
  PROVE  \A d \in Dim : tR[d] = "done" /\ tS[d] = "done"
  BY DEF IndInv, MainInv, ThreadInv, ThreadPhase, ThreadState

\* recv(opprf_size_other).
LEMMA R_IfSizeKeeps ==
  ASSUME IndInv, R_IfSize
  PROVE  IndInv'
  <1> USE DEF R_IfSize
  <1>1. \A d \in Dim : tR[d] = "done" /\ tS[d] = "done"
    BY Joined
  <1>2. /\ mS = "eval" /\ toS[0] = <<>> /\ ifOtherS = IfSize
        /\ toR[0] = <<Msg("size", IfKeysSize, None), Msg("request", IfKeysSize, None)>>
        /\ eeR = <<>> /\ eeS = <<>>
    <2>1. /\ mS = "eval" /\ toS[0] = <<>>
          /\ toR[0] = <<Msg("size", IfKeysSize, None), Msg("request", IfKeysSize, None)>>
      BY <1>1, SocketZero DEF IndInv, MainInv, MainPhase, MainState, Has
    <2> QED BY <2>1 DEF IndInv, MainInv
  <1>3. ifOtherR' = IfKeysSize /\ IfKeysSize \in Nat
    BY <1>2, ShortQueues, SizeTypes DEF Msg
  <1>4. TypeOK'
    BY <1>3 DEF IndInv, TypeOK, threads, Pop
  <1>5. toR'[0] = <<Msg("request", IfKeysSize, None)>> /\ \A d \in Dim \ {0} : toR'[d] = toR[d]
    BY <1>2, SocketZero, ShortQueues DEF Pop, IndInv, TypeOK
  <1>6. MainState({"program"}, {"eval"}, <<>>, <<Msg("request", IfKeysSize, None)>>)'
    BY <1>2, <1>5 DEF MainState
  <1>7. SharedMatch'
    BY SharedMatchStays
  <1> QED
    BY <1>1, <1>2, <1>3, <1>4, <1>5, <1>6, <1>7, MainMove DEF MainPhase

\* The threads leave the shares v_hat that ssIFMat adds up.
LEMMA JoinedShares ==
  ASSUME IndInv, mR # "join"
  PROVE  AllShares
  BY Joined DEF IndInv, ThreadInv, AllShares

\* The list of the sums is programmed, the own query requested.
LEMMA R_IfProgramKeeps ==
  ASSUME IndInv, R_IfProgram
  PROVE  IndInv'
  <1> USE DEF R_IfProgram
  <1>1. \A d \in Dim : tR[d] = "done" /\ tS[d] = "done"
    BY Joined
  <1>2. /\ mS = "eval" /\ toS[0] = <<>> /\ ifOtherS = IfSize /\ ifOtherR = IfKeysSize
        /\ toR[0] = <<Msg("request", IfKeysSize, None)>> /\ eeR = <<>> /\ eeS = <<>>
    <2>1. mS = "eval" /\ toS[0] = <<>> /\ toR[0] = <<Msg("request", IfKeysSize, None)>>
      BY <1>1, SocketZero DEF IndInv, MainInv, MainPhase, MainState, Has
    <2> QED BY <2>1 DEF IndInv, MainInv
  <1>3. IfListSize = IfSize
    BY JoinedShares, IfListFits DEF IndInv
  <1>4. TypeOK'
    BY DEF IndInv, TypeOK, threads, Pop
  <1>5. /\ toR'[0] = <<>> /\ \A d \in Dim \ {0} : toR'[d] = toR[d] /\ toS'[d] = toS[d]
        /\ toS'[0] = <<Msg("answer", IfSize, IfList), Msg("request", Cardinality(Bin), None)>>
    BY <1>2, <1>3, SocketZero, ShortQueues DEF Pop, IndInv, TypeOK
  <1>6. MainState({"query"}, {"eval"},
          <<Msg("answer", IfSize, IfList), Msg("request", Cardinality(Bin), None)>>, <<>>)'
    <2>1. IfList' = IfList
      BY IfFixed DEF IndInv, threads
    <2> QED BY <1>2, <1>5, <2>1 DEF MainState
  <1>7. SharedMatch'
    BY SharedMatchStays
  <1> QED
    BY <1>1, <1>2, <1>4, <1>5, <1>6, <1>7, MainMove DEF MainPhase

\* t_ arrives.
LEMMA R_IfQueryKeeps ==
  ASSUME IndInv, R_IfQuery
  PROVE  IndInv'
  <1> USE DEF R_IfQuery
  <1>1. \A d \in Dim : tR[d] = "done" /\ tS[d] = "done"
    BY Joined
  <1>2. /\ mS = "peqt" /\ toS[0] = <<>> /\ ifOtherS = IfSize /\ ifOtherR = IfKeysSize
        /\ toR[0] = <<Msg("answer", IfKeysSize, IfAnswers)>> /\ r_ = IfAnswers
        /\ eeR = <<>> /\ eeS = <<>>
    <2>1. mS = "peqt" /\ toS[0] = <<>> /\ toR[0] = <<Msg("answer", IfKeysSize, IfAnswers)>>
      BY <1>1, SocketZero DEF IndInv, MainInv, MainPhase, MainState, Has
    <2> QED BY <2>1 DEF IndInv, MainInv
  <1>3. t_' = [b \in Bin |-> IfSelect(IfAnswers, b)]
    BY <1>2, ShortQueues DEF Msg
  <1>4. TypeOK'
    BY DEF IndInv, TypeOK, threads, Pop
  <1>5. toR'[0] = <<>> /\ \A d \in Dim \ {0} : toR'[d] = toR[d]
    BY <1>2, SocketZero, ShortQueues DEF Pop, IndInv, TypeOK
  <1>6. MainState({"peqt", "done"}, {"peqt", "done"}, <<>>, <<>>)'
    BY <1>2, <1>5 DEF MainState
  <1>7. SharedMatch'
    BY SharedMatchStays
  <1> QED
    BY <1>1, <1>2, <1>3, <1>4, <1>5, <1>6, <1>7, MainMove DEF MainPhase

\* A message on socket 0 for the sender's main thread comes from the
\* receiver's main thread.
LEMMA SenderReads ==
  ASSUME IndInv, mS # "join", Has(toS, 0)
  PROVE  mR # "join"
  <1>1. tS[0] = "done"
    BY SocketZero DEF IndInv, MainInv
  <1>2. tR[0] = "done"
    BY <1>1, SocketZero DEF IndInv, ThreadInv, ThreadPhase, ThreadState, Has
  <1> QED BY <1>2 DEF IndInv, MainInv, MainPhase, MainState, Has

\* The sizes of ssIFMat are exchanged, its keys requested.
LEMMA S_IfKeysKeeps ==
  ASSUME IndInv, S_IfKeys
  PROVE  IndInv'
  <1> USE DEF S_IfKeys
  <1>0. mR # "join"
    BY SenderReads
  <1>1. \A d \in Dim : tR[d] = "done" /\ tS[d] = "done"
    BY <1>0, Joined
  <1>2. /\ mR = "size" /\ toR[0] = <<>> /\ toS[0] = <<Msg("size", IfSize, None)>>
        /\ eeR = <<>> /\ eeS = <<>>
    <2>1. mR = "size" /\ toR[0] = <<>> /\ toS[0] = <<Msg("size", IfSize, None)>>
      BY <1>0, <1>1, SocketZero DEF IndInv, MainInv, MainPhase, MainState, Has
    <2> QED BY <2>1 DEF IndInv, MainInv
  <1>3. ifOtherS' = IfSize /\ IfSize \in Nat
    BY <1>2, ShortQueues, SizeTypes DEF Msg
  <1>4. TypeOK'
    BY <1>3 DEF IndInv, TypeOK, threads, Pop
  <1>5. /\ toS'[0] = <<>> /\ \A d \in Dim \ {0} : toR'[d] = toR[d] /\ toS'[d] = toS[d]
        /\ toR'[0] = <<Msg("size", IfKeysSize, None), Msg("request", IfKeysSize, None)>>
    BY <1>2, SocketZero, ShortQueues DEF Pop, IndInv, TypeOK
  <1>6. MainState({"size"}, {"eval"}, <<>>,
          <<Msg("size", IfKeysSize, None), Msg("request", IfKeysSize, None)>>)'
    BY <1>2, <1>5 DEF MainState
  <1>7. SharedMatch'
    BY SharedMatchStays
  <1> QED
    BY <1>1, <1>2, <1>3, <1>4, <1>5, <1>6, <1>7, MainMove DEF MainPhase

\* The answers of the first OPPRF arrive.
LEMMA S_IfEvalKeeps ==
  ASSUME IndInv, S_IfEval
  PROVE  IndInv'
  <1> USE DEF S_IfEval
  <1>0. mR # "join"
    BY SenderReads
  <1>1. \A d \in Dim : tR[d] = "done" /\ tS[d] = "done"
    BY <1>0, Joined
  <1>2. /\ mR = "query" /\ toR[0] = <<>> /\ ifOtherS = IfSize /\ ifOtherR = IfKeysSize
        /\ toS[0] = <<Msg("answer", IfSize, IfList), Msg("request", Cardinality(Bin), None)>>
        /\ eeR = <<>> /\ eeS = <<>>
    <2>1. /\ mR = "query" /\ toR[0] = <<>>
          /\ toS[0] = <<Msg("answer", IfSize, IfList), Msg("request", Cardinality(Bin), None)>>
      BY <1>0, <1>1, SocketZero DEF IndInv, MainInv, MainPhase, MainState, Has
    <2> QED BY <2>1 DEF IndInv, MainInv
  <1>3. r_' = IfAnswers
    <2>1. Head(toS[0]).body = IfList
      BY <1>2, ShortQueues DEF Msg
    <2> QED BY <2>1 DEF IfAnswers
  <1>4. TypeOK'
    BY DEF IndInv, TypeOK, threads, Pop
  <1>5. /\ toS'[0] = <<Msg("request", Cardinality(Bin), None)>>
        /\ \A d \in Dim \ {0} : toS'[d] = toS[d]
    BY <1>2, SocketZero, ShortQueues DEF Pop, IndInv, TypeOK
  <1>6. MainState({"query"}, {"program"}, <<Msg("request", Cardinality(Bin), None)>>, <<>>)'
    BY <1>2, <1>5 DEF MainState
  <1>7. SharedMatch'
    BY SharedMatchStays
  <1> QED
    BY <1>1, <1>2, <1>3, <1>4, <1>5, <1>6, <1>7, MainMove DEF MainPhase

\* The answers are programmed with t.
LEMMA S_IfProgramKeeps ==
  ASSUME IndInv, S_IfProgram
  PROVE  IndInv'
  <1> USE DEF S_IfProgram
  <1>0. mR # "join"
    BY SenderReads
  <1>1. \A d \in Dim : tR[d] = "done" /\ tS[d] = "done"
    BY <1>0, Joined
  <1>2. /\ mR = "query" /\ toR[0] = <<>> /\ ifOtherS = IfSize /\ ifOtherR = IfKeysSize
        /\ toS[0] = <<Msg("request", Cardinality(Bin), None)>> /\ r_ = IfAnswers
        /\ eeR = <<>> /\ eeS = <<>>
    <2>1. mR = "query" /\ toR[0] = <<>> /\ toS[0] = <<Msg("request", Cardinality(Bin), None)>>
      BY <1>0, <1>1, SocketZero DEF IndInv, MainInv, MainPhase, MainState, Has
    <2> QED BY <2>1 DEF IndInv, MainInv
  <1>4. TypeOK'
    BY DEF IndInv, TypeOK, threads, Pop, Send
  <1>5. /\ toS'[0] = <<>> /\ \A d \in Dim \ {0} : toR'[d] = toR[d] /\ toS'[d] = toS[d]
        /\ toR'[0] = <<Msg("answer", IfKeysSize, IfAnswers)>>
    BY <1>2, SocketZero, ShortQueues DEF Pop, Send, IndInv, TypeOK
  <1>6. MainState({"query"}, {"peqt"}, <<>>, <<Msg("answer", IfKeysSize, IfAnswers)>>)'
    <2>1. IfAnswers' = IfAnswers
      BY IfFixed DEF IndInv, threads
    <2> QED BY <1>2, <1>5, <2>1 DEF MainState
  <1>7. SharedMatch'
    BY SharedMatchStays
  <1> QED
    BY <1>1, <1>2, <1>4, <1>5, <1>6, <1>7, MainMove DEF MainPhase

\* Equal elements of the equality test are those of a matched bin.
LEMMA TestMatches ==
  ASSUME IndInv, mR \in {"peqt", "done"}, NEW b \in Bin
  PROVE  t_[b] = IfT(b) <=>
           /\ BallIn(b) # None
           /\ \E i \in BallR : Within(i, BallIn(b)) /\ NoWrap(i, BallIn(b), b)
  <1>1. t_[b] = IfSelect(IfAnswers, b)
    BY DEF IndInv, MainInv
  <1>2. AllShares
    BY JoinedShares
  <1>3. InputInit /\ draw \in Draws
    BY DEF IndInv
  <1> QED BY <1>1, <1>2, <1>3, IfMatch

\* Two match bits that share the outcome of the test share the match.
LEMMA SharedByTest ==
  ASSUME IndInv, mR \in {"peqt", "done"}, UNCHANGED const,
         \A b \in Bin : Xor(eeR'[b], eeS'[b]) = 1 <=> t_[b] = IfT(b)
  PROVE  SharedMatch'
  <1>1. \A b \in Bin, i \in BallR : /\ Within(i, BallIn(b))' <=> Within(i, BallIn(b))
                                    /\ NoWrap(i, BallIn(b), b)' <=> NoWrap(i, BallIn(b), b)
    BY MatchFixed DEF IndInv
  <1>2. \A b \in Bin : BallIn(b)' = BallIn(b)
    BY ConstFixed DEF IndInv
  <1>3. \A b \in Bin : Xor(eeR'[b], eeS'[b]) = 1 <=>
           /\ BallIn(b) # None
           /\ \E i \in BallR : Within(i, BallIn(b)) /\ NoWrap(i, BallIn(b), b)
    BY TestMatches
  <1> QED
    BY <1>1, <1>2, <1>3 DEF SharedMatch

\* The receiver's end of the equality test.
LEMMA R_PeqtKeeps ==
  ASSUME IndInv, R_Peqt
  PROVE  IndInv'
  <1> USE DEF R_Peqt, Equality!Output0, Equality!Shares, Equality!Bit, Bit
  <1>1. \A d \in Dim : tR[d] = "done" /\ tS[d] = "done"
    BY Joined
  <1>2. /\ toS[0] = <<>> /\ toR[0] = <<>> /\ ifOtherS = IfSize /\ ifOtherR = IfKeysSize
        /\ r_ = IfAnswers /\ t_ = [b \in Bin |-> IfSelect(IfAnswers, b)]
        /\ IF mS = "done" THEN eeS \in [Bin -> Bit] ELSE eeS = <<>>
    BY <1>1, SocketZero DEF IndInv, MainInv, MainPhase, MainState
  <1>3. eeR' \in [Bin -> Bit] /\ toS' = toS /\ toR' = toR
    BY DEF sockets
  <1>4. TypeOK'
    BY <1>3 DEF IndInv, TypeOK, threads
  <1>5. MainState({"peqt", "done"}, {"peqt", "done"}, <<>>, <<>>)'
    BY <1>2, <1>3 DEF MainState
  <1>6. SharedMatch'
    <2>1. CASE mS = "peqt"
      <3>1. eeS' = <<>>
        BY <1>2, <2>1
      <3> QED BY <3>1 DEF SharedMatch
    <2>2. CASE mS = "done"
      <3>1. eeS \in [Bin -> Bit]
        BY <1>2, <2>2
      <3>2. ASSUME NEW b \in Bin PROVE Xor(eeR'[b], eeS'[b]) = 1 <=> t_[b] = IfT(b)
        <4>1. eeS # <<>>
          BY <3>1
        <4> QED BY <4>1 DEF Equality!Opens, Equality!Xor, Xor
      <3> QED BY <3>2, SharedByTest
    <2> QED BY <2>1, <2>2
  <1> QED
    BY <1>1, <1>2, <1>3, <1>4, <1>5, <1>6, MainMove DEF MainPhase

\* The sender's end of the equality test.
LEMMA S_PeqtKeeps ==
  ASSUME IndInv, S_Peqt
  PROVE  IndInv'
  <1> USE DEF S_Peqt, Equality!Output1, Equality!Shares, Equality!Bit, Bit
  <1>1. \A d \in Dim : tR[d] = "done" /\ tS[d] = "done"
    BY Joined
  <1>2. /\ toS[0] = <<>> /\ toR[0] = <<>> /\ ifOtherS = IfSize /\ ifOtherR = IfKeysSize
        /\ r_ = IfAnswers /\ t_ = [b \in Bin |-> IfSelect(IfAnswers, b)]
        /\ IF mR = "done" THEN eeR \in [Bin -> Bit] ELSE eeR = <<>>
    BY <1>1, SocketZero DEF IndInv, MainInv, MainPhase, MainState
  <1>3. eeS' \in [Bin -> Bit] /\ toS' = toS /\ toR' = toR
    BY DEF sockets
  <1>4. TypeOK'
    BY <1>3 DEF IndInv, TypeOK, threads
  <1>5. MainState({"peqt", "done"}, {"peqt", "done"}, <<>>, <<>>)'
    BY <1>2, <1>3 DEF MainState
  <1>6. SharedMatch'
    <2>1. CASE mR = "peqt"
      <3>1. eeR' = <<>>
        BY <1>2, <2>1
      <3> QED BY <3>1 DEF SharedMatch
    <2>2. CASE mR = "done"
      <3>1. eeR \in [Bin -> Bit]
        BY <1>2, <2>2
      <3>2. ASSUME NEW b \in Bin PROVE Xor(eeR'[b], eeS'[b]) = 1 <=> t_[b] = IfT(b)
        <4>1. eeR # <<>>
          BY <3>1
        <4> QED BY <4>1 DEF Equality!Opens, Equality!Xor, Xor
      <3> QED BY <3>2, SharedByTest
    <2> QED BY <2>1, <2>2
  <1> QED
    BY <1>1, <1>2, <1>3, <1>4, <1>5, <1>6, MainMove DEF MainPhase

LEMMA StutterKeeps ==
  ASSUME IndInv, UNCHANGED vars
  PROVE  IndInv'
  <1>0. /\ UNCHANGED <<const, threads>> /\ UNCHANGED <<const, eeR, eeS>>
        /\ toS' = toS /\ toR' = toR /\ tR' = tR /\ tS' = tS
        /\ mR' = mR /\ mS' = mS /\ ifOtherR' = ifOtherR /\ ifOtherS' = ifOtherS
        /\ r_' = r_ /\ t_' = t_ /\ eeR' = eeR /\ eeS' = eeS
    BY DEF vars, threads, sockets, main
  <1>1. /\ ThreadInv' /\ InputInit' /\ (draw \in Draws)'
        /\ IfList' = IfList /\ IfAnswers' = IfAnswers
    BY <1>0, MainStep
  <1>2. TypeOK'
    BY <1>0 DEF IndInv, TypeOK, threads
  <1>3. MainPhase'
    BY <1>0, <1>1 DEF IndInv, MainInv, MainPhase, MainState
  <1>4. (t_ = LET answers == IfAnswers IN [b \in Bin |-> IfSelect(answers, b)])'
          <=> t_ = [b \in Bin |-> IfSelect(IfAnswers, b)]
    <2>1. ASSUME NEW b \in Bin PROVE IfSelect(IfAnswers, b)' = IfSelect(IfAnswers, b)
      BY <1>1 DEF IfSelect
    <2> QED BY <1>0, <1>1, <2>1
  <1>5. MainInv'
    BY <1>0, <1>1, <1>3, <1>4 DEF IndInv, MainInv
  <1>6. SharedMatch'
    BY <1>0, SharedMatchStays
  <1> QED
    BY <1>1, <1>2, <1>5, <1>6 DEF IndInv

-----------------------------------------------------------------------------
(* The theorems. *)

\* The inductive invariant holds in every behaviour, whatever the order in
\* which the threads of the two parties run.
THEOREM LpInductive == Spec => []IndInv
  <1>1. ASSUME IndInv, [Next]_vars PROVE IndInv'
    <2>1. ASSUME NEW d \in Dim, RecvThread(d) PROVE IndInv'
      BY <1>1, <2>1, R_ListKeeps, R_SizeKeeps, R_ProgramKeeps, R_QueryKeeps DEF RecvThread
    <2>2. ASSUME NEW d \in Dim, SendThread(d) PROVE IndInv'
      BY <1>1, <2>2, S_KeysKeeps, S_EvalKeeps, S_ProgramKeeps DEF SendThread
    <2>3. CASE RecvMain
      BY <1>1, <2>3, R_JoinKeeps, R_IfSizeKeeps, R_IfProgramKeeps, R_IfQueryKeeps, R_PeqtKeeps
         DEF RecvMain
    <2>4. CASE SendMain
      BY <1>1, <2>4, S_JoinKeeps, S_IfKeysKeeps, S_IfEvalKeeps, S_IfProgramKeeps, S_PeqtKeeps
         DEF SendMain
    <2>5. CASE UNCHANGED vars
      BY <1>1, <2>5, StutterKeeps
    <2> QED
      BY <1>1, <2>1, <2>2, <2>3, <2>4, <2>5 DEF Next, Terminated
  <1> QED
    BY <1>1, InitIndInv, PTL DEF Spec

\* The parties stay in step over their sockets, which dimension thread 0 and
\* ssIFMat share: what a reader takes is what it waits for and as large as
\* announced, and the keys of the second OPPRF are distinct.
THEOREM LpProtocol == Spec => []ProtocolInv
  <1>1. ASSUME IndInv PROVE DistinctCandidates
    <2> SUFFICES ASSUME NEW d \in Dim, tS[d] \in {"program", "done"}
                 PROVE  Cardinality({c.key : c \in Candidates(d, u[d])}) = KeysSize
      BY DEF DistinctCandidates
    <2>1. u[d] = Answers(d) /\ InputInit
      BY <1>1 DEF IndInv, ThreadInv
    <2>2. Candidates(d, u[d]) = Cand(d)
      BY <2>1 DEF Cand
    <2> QED BY <2>1, <2>2, CandidateKeys
  <1>2. ASSUME IndInv PROVE SizesAgree
    <2>1. ASSUME NEW d \in Dim
          PROVE  /\ tS[d] = "eval" /\ Has(toS, d) => Head(toS[d]).n = otherS[d]
                 /\ tR[d] \in {"program", "query"} /\ Has(toR, d) => Head(toR[d]).n = otherR[d]
      <3>1. /\ ThreadPhase(d)
            /\ tS[d] # "keys" => otherS[d] = OpprfSize
            /\ tR[d] \notin {"list", "size"} => otherR[d] = KeysSize
        BY <1>2 DEF IndInv, ThreadInv
      <3> QED BY <3>1, ShortQueues DEF ThreadPhase, ThreadState, Has, Msg
    <2>2. /\ mS = "eval" /\ Has(toS, 0) => Head(toS[0]).n = ifOtherS
          /\ mR \in {"program", "query"} /\ Has(toR, 0) => Head(toR[0]).n = ifOtherR
      <3>1. /\ MainPhase
            /\ mS \notin {"join", "keys"} => ifOtherS = IfSize
            /\ mR \notin {"join", "size"} => ifOtherR = IfKeysSize
        BY <1>2 DEF IndInv, MainInv
      <3>2. mR # "join" => tR[0] = "done"
        BY <1>2, SocketZero DEF IndInv, MainInv
      <3>3. mS = "eval" => mR # "join"
        BY <3>1 DEF MainPhase, MainState
      <3> QED BY <3>1, <3>2, <3>3, ShortQueues DEF MainPhase, MainState, Has, Msg
    <2> QED BY <2>1, <2>2 DEF SizesAgree
  <1>3. ASSUME IndInv PROVE ExpectedMessage
    <2>1. ASSUME NEW d \in Dim, Has(toR, d)
          PROVE  LET type == Head(toR[d]).type
                     at == IF tR[d] = "done" THEN mR ELSE tR[d]
                 IN /\ at = "size" => type = "size"
                    /\ at = "program" => type = "request"
                    /\ at = "query" => type = "answer"
                    /\ tR[d] = "done" => d = 0 /\ mR # "join"
      <3>1. ThreadPhase(d) /\ MainPhase
        BY <1>3 DEF IndInv, ThreadInv, MainInv
      <3>2. CASE tR[d] # "done"
        BY <2>1, <3>1, <3>2, ShortQueues DEF ThreadPhase, ThreadState, Has, Msg
      <3>3. CASE tR[d] = "done"
        <4>1. d = 0
          BY <1>3, <2>1, <3>3 DEF IndInv, MainInv, Has
        <4> QED BY <2>1, <3>1, <3>3, <4>1, ShortQueues DEF MainPhase, MainState, Has, Msg
      <3> QED BY <3>2, <3>3
    <2>2. ASSUME NEW d \in Dim, Has(toS, d)
          PROVE  LET type == Head(toS[d]).type
                     at == IF tS[d] = "done" THEN mS ELSE tS[d]
                 IN /\ at \in {"keys", "join"} => type = "size"
                    /\ at = "eval" => type = "answer"
                    /\ at = "program" => type = "request"
                    /\ tS[d] = "done" => d = 0
      <3>1. ThreadPhase(d) /\ MainPhase
        BY <1>3 DEF IndInv, ThreadInv, MainInv
      <3>2. CASE tR[d] # "done"
        BY <2>2, <3>1, <3>2, ShortQueues DEF ThreadPhase, ThreadState, Has, Msg
      <3>3. CASE tR[d] = "done"
        <4>1. d = 0
          BY <1>3, <2>2, <3>3 DEF IndInv, MainInv, Has
        <4>2. tS[d] = "done"
          BY <3>1, <3>3 DEF ThreadPhase, ThreadState
        <4> QED BY <2>2, <3>1, <3>3, <4>1, <4>2, ShortQueues DEF MainPhase, MainState, Has, Msg
      <3> QED BY <3>2, <3>3
    <2> QED BY <2>1, <2>2 DEF ExpectedMessage
  <1>4. IndInv => ProtocolInv
    BY <1>1, <1>2, <1>3 DEF ProtocolInv, IndInv
  <1> QED
    BY <1>4, LpInductive, PTL

\* The threads of a dimension leave shares of the distance to the power
\* METRIC, and the two match bits of a bin differ exactly when its ball is
\* within L_p distance DELTA of a receiver ball with its identifier and no
\* 32-bit share wrapped.
THEOREM LpMatch == Spec => []MatchInv
  <1>1. ASSUME IndInv PROVE DimensionShares
    <2> SUFFICES ASSUME NEW d \in Dim, tR[d] = "done", NEW b \in Bin
                 PROVE  IF BallIn(b) # None /\ \E i \in BallR : CloseIn(d, i, BallIn(b))
                        THEN \E i \in BallR :
                               /\ CloseIn(d, i, BallIn(b))
                               /\ v_hat[d][b] # None
                               /\ u32(v_hat[d][b] + DistPow(d, i, BallIn(b))) = draw.mask[d][b]
                        ELSE v_hat[d][b] = None
      BY DEF DimensionShares
    <2>1. v_hat[d] = VHats(d) /\ InputInit /\ draw \in Draws
      BY <1>1 DEF IndInv, ThreadInv
    <2>2. CASE BallIn(b) # None /\ \E i \in BallR : CloseIn(d, i, BallIn(b))
      <3>1. /\ VHats(d)[b] \in 0 .. M - 1
            /\ \A i \in BallR : CloseIn(d, i, BallIn(b)) =>
                 u32(VHats(d)[b] + DistPow(d, i, BallIn(b))) = draw.mask[d][b]
        BY <2>1, <2>2, VHatFacts
      <3>2. VHats(d)[b] # None
        BY <3>1, NoNumberAssumption
      <3> QED BY <2>1, <2>2, <3>1, <3>2
    <2>3. CASE ~(BallIn(b) # None /\ \E i \in BallR : CloseIn(d, i, BallIn(b)))
      BY <2>1, <2>3, VHatFacts
    <2> QED BY <2>2, <2>3
  <1>2. IndInv => MatchInv
    BY <1>1 DEF MatchInv, IndInv
  <1> QED
    BY <1>2, LpInductive, PTL
=============================================================================
