----------------------------- MODULE MCLinfFpsi -----------------------------
(***************************************************************************)
(* Small instances of LinfFpsi.  The prefixes are those of set_dec and     *)
(* set_prefix with DELTA = 1 and the levels {0, 1}, for which an interval  *)
(* of 3 values has at most 2 strings.                                      *)
(***************************************************************************)
EXTENDS LinfFpsi

CONSTANTS r1, r2, s1, s2, i1, i2, i3

P == INSTANCE PrefixDec

Levels == {0, 1}
MCRangeKeys(c) == P!set_dec(c - 1, c + 1, Levels)
MCPointKeys(c) == P!set_prefix(c, Levels)

Pt(a, b) == [d \in {0, 1} |-> IF d = 0 THEN a ELSE b]
Ball(pt, id) == [pt |-> pt, id |-> id]

Recv(v, w) == [i \in {r1, r2} |-> IF i = r1 THEN v ELSE w]
Sendr(v, w) == [i \in {s1, s2} |-> IF i = s1 THEN v ELSE w]

\* Two separate points (cmp variant), and two identifiers of one point
\* (spatial hashing).
MCRecvInputs ==
  {Recv(Ball(Pt(2, 3), i1), Ball(Pt(4, 1), i2)),
   Recv(Ball(Pt(2, 3), i1), Ball(Pt(2, 3), i2))}

\* A first point that is close in both, in one or in no dimension to the
\* receiver's, a second one with the identifier of the other receiver ball
\* or with one the receiver does not have.
MCSendInputs ==
  {Sendr(Ball(p, i1), Ball(q, j)) :
     p \in {Pt(1, 4), Pt(3, 2), Pt(2, 1), Pt(4, 2), Pt(4, 1)},
     q \in {Pt(3, 2), Pt(2, 2), Pt(4, 3)},
     j \in {i2, i3}}

H(a0, a1, b0, b1, c0, c1) ==
  [id \in ID |-> [k \in HashIdx |->
     IF id = i1 THEN (IF k = 0 THEN a0 ELSE a1)
     ELSE IF id = i2 THEN (IF k = 0 THEN b0 ELSE b1)
     ELSE (IF k = 0 THEN c0 ELSE c1)]]

\* Identifiers that collide in one bin, in both, and one whose two hash
\* functions agree.
MCHashes == {H(0, 1, 1, 2, 0, 2), H(0, 1, 0, 1, 2, 1), H(1, 1, 1, 2, 2, 0)}
=============================================================================
