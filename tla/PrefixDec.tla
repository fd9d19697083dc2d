------------------------------ MODULE PrefixDec -----------------------------
(***************************************************************************)
(* Interval decomposition into binary prefixes (utils/set_dec.cpp) and the *)
(* parameter tables that size the OPPRFs (utils/params_selects.h).         *)
(*                                                                         *)
(* A prefix string of NUM_BITS - mu characters is modelled by the pair     *)
(* [mu, top]: top is the number its characters spell, and it stands for    *)
(* the 2^mu values [top * 2^mu, (top + 1) * 2^mu - 1].                     *)
(***************************************************************************)
EXTENDS Loops, FiniteSets, FiniteSetsExt

\* to_binary_string(value, NUM_BITS - mu): the first characters of the
\* binary representation, so the low mu bits are cut off.
Prefix(value, mu) == [mu |-> mu, top |-> value \div Pow(2, mu)]

\* low_bound and up_bound: fill the missing low bits with 0s, with 1s.
low_bound(p) == p.top * Pow(2, p.mu)
up_bound(p)  == (p.top + 1) * Pow(2, p.mu) - 1

\* bitset<NUM_BITS>(n)[i]
BitOf(n, i) == (n \div Pow(2, i)) % 2

\* static_cast<u64>(log2(t)) + 1, the bits needed to write t.
Width(t) == CHOOSE w \in 1 .. t : Pow(2, w - 1) <= t /\ t < Pow(2, w)

\* Mutant: rounded down instead of up.
APrimeDown(min, w) == (min \div Pow(2, w - 1)) * Pow(2, w - 1)

\* Step 1 of decompose_improve: the first multiple of 2^(w-1) from min on.
APrime(min, w) == ((min + Pow(2, w - 1) - 1) \div Pow(2, w - 1)) * Pow(2, w - 1)

\* decompose_improve for min <= max.  To the right of a_prime the loop over
\* the bits of x takes one block of 2^(i-1) values per set bit, from the
\* highest on; x_prime has then moved by the set bits above i.  To the left
\* the bits of y are taken downwards from a_prime - 1 in the same way.
\* The side is kept so that two entries of the vector never coincide here.
decompose_improve(min, max) ==
  IF min = max
  THEN {[side |-> "x", pre |-> Prefix(min, 0)]}
  ELSE LET w == Width(max - min + 1)
           a == APrime(min, w)
           x == max - a + 1
           y == a - min
           XPrime(i) == a + (x \div Pow(2, i)) * Pow(2, i)
           YPrime(i) == a - 1 - (y \div Pow(2, i)) * Pow(2, i)
       IN {[side |-> "x", pre |-> Prefix(XPrime(i), i - 1)] :
             i \in {k \in 1 .. w : BitOf(x, k - 1) = 1}}
          \cup
          {[side |-> "y", pre |-> Prefix(YPrime(i), i - 1)] :
             i \in {k \in 1 .. w : BitOf(y, k - 1) = 1}}

\* Mutant: always falls back to level 0.
set_round_zero(mu, u) == 0

\* set_round: the largest member of u below mu, 0 when there is none.
set_round(mu, u) ==
  IF \E e \in u : e < mu THEN Max({e \in u : e < mu}) ELSE 0

\* The level set_dec brings a block of level mu to.
Level(mu, u) == IF mu \in u THEN mu ELSE set_round(mu, u)

\* The strings dec + binary of set_dec: every completion by mu - mu_star
\* bits.
Split(p, u) ==
  LET pad == p.mu - Level(p.mu, u)
  IN {[mu |-> Level(p.mu, u), top |-> p.top * Pow(2, pad) + b] : b \in 0 .. Pow(2, pad) - 1}

\* set_dec as the set of its strings, and the length of the vector it
\* returns.
set_dec(min, max, u) == UNION {Split(d.pre, u) : d \in decompose_improve(min, max)}

set_dec_size(min, max, u) ==
  MapThenSumSet(LAMBDA d : Pow(2, d.pre.mu - Level(d.pre.mu, u)),
                decompose_improve(min, max))

\* Mutant: every prefix is one bit too short.
set_prefix_short(value, u) == {Prefix(value, mu + 1) : mu \in u}

\* set_prefix: one prefix of the value per level of u.
set_prefix(value, u) == {Prefix(value, mu) : mu \in u}

-----------------------------------------------------------------------------
(* params_selects.h: interval length t |-> the levels u and the number of *)
(* prefixes that the lists are padded to.                                 *)

Param(u, count) == [u |-> u, count |-> count]

LinfParamTable ==
  [t \in {21, 61, 121, 241, 501} |->
     CASE t = 21  -> Param({0, 1, 2, 3}, 6)
       [] t = 61  -> Param({0, 1, 2, 3, 4}, 9)
       [] t = 121 -> Param({0, 1, 2, 3, 4, 5}, 10)
       [] t = 241 -> Param({0, 1, 2, 3, 5, 6}, 13)
       [] t = 501 -> Param({0, 1, 2, 4, 5, 6}, 17)]

LpParamTable ==
  [t \in {10, 11, 30, 31, 60, 61, 120, 121, 250, 251} |->
     CASE t = 10  -> Param({0, 1}, 6)
       [] t = 11  -> Param({0, 2}, 5)
       [] t = 30  -> Param({0, 1, 2, 3}, 8)
       [] t = 31  -> Param({0, 1, 2, 3}, 6)
       [] t = 60  -> Param({0, 2, 3, 4}, 10)
       [] t = 61  -> Param({0, 2, 3, 4}, 11)
       [] t = 120 -> Param({0, 3, 4, 5}, 14)
       [] t = 121 -> Param({0, 2, 4, 5}, 14)
       [] t = 250 -> Param({0, 2, 4, 6}, 19)
       [] t = 251 -> Param({0, 2, 4, 6}, 17)]

\* mp_ssFMat_lp sizes its query list with twice the levels of the row DELTA,
\* although half of the queries use the levels of the row DELTA + 1.
ASSUME LpTableAssumption ==
  \A t \in {10, 30, 60, 120, 250} :
    Cardinality(LpParamTable[t].u) = Cardinality(LpParamTable[t + 1].u)

IfMatchParamTable ==
  [t \in {11, 31, 61, 121, 251, 101, 901, 3601, 14401, 62501} |->
     CASE t = 11    -> Param({0, 2}, 5)
       [] t = 31    -> Param({0, 1, 2, 3}, 6)
       [] t = 61    -> Param({0, 2, 3, 4}, 11)
       [] t = 121   -> Param({0, 2, 4, 5}, 14)
       [] t = 251   -> Param({0, 2, 4, 6}, 17)
       [] t = 101   -> Param({0, 2, 4, 6}, 14)
       [] t = 901   -> Param({0, 3, 6, 9}, 33)
       [] t = 3601  -> Param({0, 4, 8, 11}, 46)
       [] t = 14401 -> Param({0, 4, 8, 13}, 91)
       [] t = 62501 -> Param({0, 5, 10, 15}, 129)]
=============================================================================
