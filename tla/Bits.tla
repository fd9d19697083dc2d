-------------------------------- MODULE Bits --------------------------------
(***************************************************************************)
(* Single bits and the two gates the boolean sharing of the program uses.  *)
(* cryptoTools' BitVector elements are modelled by 0 and 1.                *)
(***************************************************************************)
EXTENDS Naturals

Bit == {0, 1}

\* The operator ^ on bools.
Xor(x, y) == IF x = y THEN 0 ELSE 1

\* The operator & on bools.
And(x, y) == IF x = 1 /\ y = 1 THEN 1 ELSE 0

=============================================================================
