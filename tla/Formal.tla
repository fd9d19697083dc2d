------------------------------- MODULE Formal -------------------------------
(***************************************************************************)
(* Formal sums.  Blocks are elements of GF(2^128) of which only the        *)
(* independent draws matter: a block is the set of the monomials that      *)
(* occur in it, and XOR is the symmetric difference.                       *)
(***************************************************************************)
EXTENDS Integers, FiniteSets

\* (v \ w) \cup (w \ v); the pair is bound so that TLC evaluates v and w once.
Xor(v, w) == UNION {(p[1] \ p[2]) \cup (p[2] \ p[1]) : p \in {<<v, w>>}}

\* The sum of the values of f: the monomials that occur in an odd number of
\* them.  The pairs are bound so that TLC evaluates every value once.
XorAll(f) ==
  LET values == {<<i, f[i]>> : i \in DOMAIN f}
  IN {m \in UNION {v[2] : v \in values} : Cardinality({v \in values : m \in v[2]}) % 2 = 1}
=============================================================================
