----------------------------- MODULE PeqtIdeal ------------------------------
(***************************************************************************)
(* What a batched private equality test promises, whatever protocol        *)
(* computes it: each party gets one bit per position, in either order, and *)
(* the XOR of the two bits of a position tells whether the two elements    *)
(* there are equal.  Neither party's bits alone are determined.            *)
(***************************************************************************)
EXTENDS Bits

CONSTANTS
  Row,        \* the positions of the batch
  Elements,   \* what the parties compare
  NoOutput    \* stands for "has not returned yet"

VARIABLES x, y, out0, out1

vars == <<x, y, out0, out1>>

Shares == [Row -> Bit]

\* The two outputs are a sharing of the equality of x and y.
Opens(s0, s1) == \A i \in Row : Xor(s0[i], s1[i]) = 1 <=> x[i] = y[i]

Init ==
  /\ x \in [Row -> Elements]
  /\ y \in [Row -> Elements]
  /\ out0 = NoOutput
  /\ out1 = NoOutput

Output0 ==
  /\ out0 = NoOutput
  /\ out0' \in Shares
  /\ out1 = NoOutput \/ Opens(out0', out1)
  /\ UNCHANGED <<x, y, out1>>

Output1 ==
  /\ out1 = NoOutput
  /\ out1' \in Shares
  /\ out0 = NoOutput \/ Opens(out0, out1')
  /\ UNCHANGED <<x, y, out0>>

Next == Output0 \/ Output1

Spec == Init /\ [][Next]_vars
=============================================================================
