---------------------------- MODULE MCTripleGen -----------------------------
(***************************************************************************)
(* Three triples in chunks of two: a full and a partial chunk.             *)
(***************************************************************************)
EXTENDS TripleGen

\* A message pair with XOR 1 and one with XOR 0.
MCMsgPairs == {<<0, 1>>, <<1, 1>>}
=============================================================================
