------------------------------- MODULE MCOprf -------------------------------
(***************************************************************************)
(* Vectors shorter than a piece, of one piece, and of a piece and a rest   *)
(* that is or is not a multiple of the lanes; queries that meet all, some  *)
(* or none of the programmed keys.                                         *)
(***************************************************************************)
EXTENDS Oprf

MCInstances ==
  {i \in [size : {3, 4, 6, 7}, values : {{0}, {0, 1}, {1, 3}}, X : {{0}, {1}, {0, 1}, {0, 2}},
          mal : BOOLEAN] : i.values \cup i.X \subseteq Key(i)}
=============================================================================
