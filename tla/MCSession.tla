----------------------------- MODULE MCSession ------------------------------
(***************************************************************************)
(* Runs of the program with two points of each party and two dimensions;   *)
(* Delta = 2, so that the ends of the blocks are hit.                      *)
(***************************************************************************)
EXTENDS Session

Pts(s) == [j \in 0 .. Len(s) - 1 |-> [i \in Dim |-> s[j + 1][i + 1]]]

\* The receiver's first point moves across the blocks of the sender's first
\* point; its second point shares a block in one dimension, or none.  Some
\* coordinates are ambiguous, some below 2 * Delta.
MCInputs ==
  {[R |-> Pts(<<<<a, 9>>, <<21, b>>>>), S |-> Pts(<<<<8, 10>>, <<c, 20>>>>)] :
     a \in 3 .. 14, b \in {9, 22}, c \in {21, 11}}

MCPoints == [R |-> Pts(<<<<8, 9>>, <<21, 22>>>>), S |-> Pts(<<<<8, 10>>, <<21, 20>>>>)]

MCCalls ==
  {[run |-> "fmap", fm |-> 1, metric |-> 0, size |-> 2, intersection |-> 1, pts |-> i] :
     i \in MCInputs} \cup
  {[run |-> "fmap", fm |-> f, metric |-> 0, size |-> 2, intersection |-> 1, pts |-> MCPoints] :
     f \in {0, 3}} \cup
  {[run |-> "psi", fm |-> f, metric |-> m, size |-> 2, intersection |-> 1, pts |-> MCPoints] :
     f \in 0 .. 2, m \in {0, 2, 3}} \cup
  {[run |-> "psi", fm |-> 0, metric |-> 0, size |-> 2, intersection |-> 3, pts |-> MCPoints]}

MCAllInputs == MCInputs \cup {MCPoints}
=============================================================================
