------------------------------- MODULE MCFmap -------------------------------
(***************************************************************************)
(* Small instances of Fmap: Delta = 1, so a cell holds two coordinates.    *)
(***************************************************************************)
EXTENDS Fmap

Pts(s) == [j \in 0 .. Len(s) - 1 |-> [i \in Dim |-> s[j + 1][i + 1]]]

\* Two dimensions, three points.  In the first dimension the receiver's points
\* lie anywhere in four cells, so that stretches are extended on both sides
\* and merged; the ends of the cells and the coordinates below Delta are
\* included.  In the second dimension they share a cell.
MCLine ==
  {[R |-> Pts(<<<<a, 2>>, <<b, 2>>, <<c, 3>>>>), S |-> Pts(<<<<d, 3>>, <<7, 2>>, <<4, 1>>>>)] :
     a, b, c \in 0 .. 8, d \in {0, 3}}

\* Points that share their cells in one dimension, in both, in none.
MCPlane ==
  {[R |-> Pts(<<<<a, 2>>, <<b, c>>, <<8, 9>>>>), S |-> Pts(<<<<d, 3>>, <<2, e>>, <<9, 9>>>>)] :
     a \in {2, 3}, b \in {2, 4, 7}, c \in {1, 2, 5, 6}, d \in {1, 3, 4}, e \in {1, 2, 6}}

MCInputs == MCLine \cup MCPlane

\* A merge: cells 1 and 3 first, then cell 2.
MCMerge ==
  {[R |-> Pts(<<<<3>>, <<6>>, <<4>>>>), S |-> Pts(<<<<s>>, <<12>>, <<16>>>>)] : s \in {3, 6}}
=============================================================================
