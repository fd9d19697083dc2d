------------------------------- MODULE Loops --------------------------------
(***************************************************************************)
(* Powers and sums as the loops that compute them, a form that proofs by   *)
(* induction can use.                                                      *)
(***************************************************************************)
EXTENDS Integers

\* b to the n-th power.
Pow(b, n) ==
  LET p[k \in Nat] == IF k = 0 THEN 1 ELSE b * p[k - 1] IN p[n]

\* f[i] + ... + f[j - 1], the sum of a loop from i up to but not including j.
SumLoop(f, i, j) ==
  LET s[k \in 0 .. j] == IF k <= i THEN 0 ELSE s[k - 1] + f[k - 1] IN s[j]
=============================================================================
