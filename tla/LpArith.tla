------------------------------- MODULE LpArith -------------------------------
(***************************************************************************)
(* The masked evaluation of |x - y|^METRIC in mp_ssFMat_lp{,_sh}.          *)
(*                                                                         *)
(* For a string that covers the sender's value y the receiver knows diff   *)
(* and the sender e, the distances of x and of y to one end of the string, *)
(* so |x - y| = diff + e.  The receiver masks the powers of diff with      *)
(* a_vole and a_p, the sender evaluates the binomial formula on the masked *)
(* powers, and the VOLE correlation c = a * b_delta + d removes the mixed  *)
(* terms.  Everything is stored in u32, here modulo M.                     *)
(*                                                                         *)
(* A row of METRIC values has entry s for the power s.                     *)
(***************************************************************************)
EXTENDS Loops

CONSTANTS
  METRIC,    \* p of the L_p metric
  M          \* 2^32, the modulus of u32

ASSUME MetricAssumption == METRIC \in Nat \ {0}
ASSUME ModulusAssumption == M \in Nat \ {0}

Power == 1 .. METRIC

\* The powers below METRIC, each of which has a VOLE instance.
LowPower == 1 .. METRIC - 1

u32(n) == n % M

fast_pow(base, n) == u32(Pow(base, n))

\* The loop of combination: factor i multiplies by n - i and divides by i + 1.
combination(n, k) ==
  LET j == IF k > n - k THEN n - k ELSE k
      result[i \in 0 .. j] == IF i = 0 THEN 1 ELSE (result[i - 1] * (n - i + 1)) \div i
  IN IF k > n THEN 0 ELSE result[j]

\* Entry s of prefix_vals: a[s] is a_vole of the power s, and a_p for s = METRIC.
PrefixVals(a, diff) == [s \in Power |-> u32(a[s] + fast_pow(diff, s))]

\* Mutant: the binomial coefficient is left out.
MidValPlain(e, s) == fast_pow(e, METRIC - s)

\* mid_val of the power s.
MidVal(e, s) == u32(combination(METRIC, s) * fast_pow(e, METRIC - s))

\* u_hat_candidates for the row u received for a string; for METRIC = 1 the
\* sum is empty.
UHat(u, e, d) ==
  u32(u[METRIC] + fast_pow(e, METRIC)
      + SumLoop([s \in LowPower |-> MidVal(e, s) * u[s] - d[s]], 1, METRIC))

\* v_candidates: mid_val + b_delta for the low powers, and the mask minus
\* u_hat in the last column.
VCandidates(u, e, d, bDelta, mask) ==
  [s \in Power |-> IF s = METRIC THEN u32(mask - UHat(u, e, d))
                   ELSE u32(MidVal(e, s) + bDelta)]

\* v_hat_i of the receiver.
VHat(v, a, c) ==
  u32(a[METRIC] + v[METRIC] + SumLoop([s \in LowPower |-> v[s] * a[s] - c[s]], 1, METRIC))

\* c_vole, the receiver's output of the silent VOLE.
CVole(a, bDelta, d) == [s \in LowPower |-> u32(a[s] * bDelta + d[s])]
=============================================================================
