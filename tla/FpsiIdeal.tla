----------------------------- MODULE FpsiIdeal ------------------------------
(***************************************************************************)
(* The fuzzy private set intersection functionality the two-party protocol *)
(* is to realise: the receiver learns how many sender points are close to  *)
(* a receiver point that the fuzzy mapping gave the same identifier.       *)
(***************************************************************************)
EXTENDS Naturals, FiniteSets

CONSTANTS
  BallS,         \* the sender's points
  NoResult       \* the receiver has not finished

VARIABLES
  close,         \* the sender's points that are close to a receiver point
  result         \* intersection_idxs_tmp.size() once the receiver is done

vars == <<close, result>>

Init == close \in SUBSET BallS /\ result = NoResult

Deliver ==
  /\ result = NoResult
  /\ result' = Cardinality(close)
  /\ UNCHANGED close

Next == Deliver

Spec == Init /\ [][Next]_vars

\* With a party that always moves on when it can, the result arrives.
FairSpec == Spec /\ WF_vars(Next)
=============================================================================
