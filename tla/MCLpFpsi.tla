------------------------------- MODULE MCLpFpsi ------------------------------
(***************************************************************************)
(* Small instances of LpFpsi with DELTA = 2: the strings of three values   *)
(* below and of two values above a coordinate have the levels {0, 1}, and  *)
(* the interval of ssIFMat has the levels {0, 2}.                          *)
(***************************************************************************)
EXTENDS LpFpsi

CONSTANTS r1, r2, s1, s2, i1, i2, i3

Pt(a, b) == [d \in {0, 1} |-> IF d = 0 THEN a ELSE b]
Ball(pt, id) == [pt |-> pt, id |-> id]

Recv(v, w) == [i \in {r1, r2} |-> IF i = r1 THEN v ELSE w]
Sendr(v, w) == [i \in {s1, s2} |-> IF i = s1 THEN v ELSE w]

\* Two separate points (cmp variant), and two identifiers of one point
\* (spatial hashing).
MCRecvInputs ==
  {Recv(Ball(Pt(4, 5), i1), Ball(Pt(8, 3), i2)),
   Recv(Ball(Pt(4, 5), i1), Ball(Pt(4, 5), i2))}

\* A first point at every kind of distance from the receiver's: equal, at
\* the threshold, above it with both coordinates close, and close in one
\* coordinate only; a second point with the identifier of the other
\* receiver ball or with one the receiver does not have.
MCSendInputs ==
  {Sendr(Ball(p, i1), q) :
     p \in {Pt(4, 5), Pt(2, 5), Pt(5, 6), Pt(6, 6), Pt(7, 5)},
     q \in {Ball(Pt(8, 2), i2), Ball(Pt(3, 4), i2), Ball(Pt(3, 4), i3)}}

H(a0, a1, b0, b1, c0, c1) ==
  [id \in ID |-> [k \in HashIdx |->
     IF id = i1 THEN (IF k = 0 THEN a0 ELSE a1)
     ELSE IF id = i2 THEN (IF k = 0 THEN b0 ELSE b1)
     ELSE (IF k = 0 THEN c0 ELSE c1)]]

\* Identifiers that collide in one bin and in both, and one whose two hash
\* functions agree.
MCHashes == {H(0, 1, 0, 1, 2, 1), H(1, 1, 1, 2, 2, 0)}

\* The sender's masks: above every power of a distance, at the threshold,
\* and below it in one or in both dimensions.
MCMask(n, d, b) ==
  CASE n = 0 -> M - 1 - d - b
    [] n = 1 -> 4
    [] n = 2 -> IF d = 0 THEN 2 ELSE 9 + b
    [] n = 3 -> d

DrawsOf(S) ==
  {[a |-> [d \in Dim |-> [b \in Bin |-> [s \in Power |-> u32(5 * n + 3 * d + 7 * b + 11 * s)]]],
    d |-> [d \in Dim |-> [b \in Bin |-> [s \in LowPower |-> u32(13 * n + 5 * d + b)]]],
    bDelta |-> u32(3 + 4 * n),
    mask |-> [d \in Dim |-> [b \in Bin |-> MCMask(n, d, b)]]] : n \in S}

MCDraws == DrawsOf(0 .. 3)

\* Fewer inputs for the runs that need only some of the cases.
FewDraws == DrawsOf({0, 2})
FewHashes == {H(0, 1, 0, 1, 2, 1)}
=============================================================================
