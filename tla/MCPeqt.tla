------------------------------- MODULE MCPeqt -------------------------------
(***************************************************************************)
(* Small instances of Peqt for TLC.                                        *)
(***************************************************************************)
EXTENDS Peqt

T(a0, a1, b0, b1, c0, c1) ==
  [a0 |-> a0, a1 |-> a1, b0 |-> b0, b1 |-> b1, c0 |-> c0, c1 |-> c1]

\* Triples with product 1 and 0 in different sharings.
MCTriples2 == {T(1, 0, 0, 1, 0, 1), T(1, 1, 0, 1, 1, 1)}

Str(s) == [j \in Col |-> s[j + 1]]

\* Strings of 3 bits, which fold as 3, 2, 1 columns; they differ in one
\* column of a pair, or in the last column, which the odd level carries over.
MCInputs3 == {Str(<<0, 1, 1>>), Str(<<1, 1, 1>>), Str(<<0, 1, 0>>), Str(<<0, 0, 1>>)}
=============================================================================
