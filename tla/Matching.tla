------------------------------- MODULE Matching ------------------------------
(***************************************************************************)
(* What the fuzzy matching protocols of all metrics share: the inputs left *)
(* by the fuzzy mapping, the hash tables of step 2 of psi_online_{cmp,sh}, *)
(* and the sockets.                                                        *)
(*                                                                         *)
(* A receiver "ball" is an identifier of a receiver point: one per point   *)
(* in the cmp variant, one per neighbouring cell (BLK_CELLS of them) in    *)
(* the spatial-hash variant.  A sender ball is a sender point.             *)
(***************************************************************************)
EXTENDS Integers, Sequences, FiniteSets

CONSTANTS
  DIM,             \* number of dimensions, threads and sockets
  Coord,           \* coordinates
  DELTA,           \* distance threshold
  BallR, BallS,    \* the receiver's and the sender's balls
  ID,              \* identifiers given by the fuzzy mapping
  Bin,             \* bins 0 .. mNumBins-1 of the hash tables
  HashIdx,         \* the hash functions, 0 .. NUM_HASH_FUNC-1
  RecvInputs,      \* the receiver inputs considered: [BallR -> [pt, id]]
  SendInputs,      \* the sender inputs considered: [BallS -> [pt, id]]
  Hashes,          \* the hash functions considered: [ID -> [HashIdx -> Bin]]
  None             \* an absent ball, identifier, prefix or result

Dim == 0 .. DIM - 1
Point == [Dim -> Coord]
Near(c, v) == c - v <= DELTA /\ v - c <= DELTA

ASSUME DimAssumption == DIM \in Nat \ {0}
ASSUME CoordAssumption == Coord \subseteq Nat /\ DELTA \in Nat
ASSUME FiniteAssumption ==
  IsFiniteSet(BallR) /\ IsFiniteSet(BallS) /\ IsFiniteSet(Bin) /\ IsFiniteSet(HashIdx)
ASSUME NoneAssumption == None \notin ID /\ None \notin BallS
ASSUME RecvInputAssumption == RecvInputs \subseteq [BallR -> [pt : Point, id : ID]]
ASSUME SendInputAssumption == SendInputs \subseteq [BallS -> [pt : Point, id : ID]]
ASSUME HashAssumption == Hashes \subseteq [ID -> [HashIdx -> Bin]]

VARIABLES
  ballsR, ballsS,   \* inputs with the identifiers of the fuzzy mapping
  locs,             \* the hash functions of both tables
  slot              \* which hash function places each sender ball

inputs == <<ballsR, ballsS, locs, slot>>

-----------------------------------------------------------------------------
(* Step 2: the hash tables. *)

\* mLocations of the simple table and of the cuckoo table.
Loc(id, k) == locs[id][k]

\* A cuckoo insertion that succeeded (the stash has size 0): every ball sits
\* in the bin of one of its hash functions, no two in one bin.
Placements(balls, lc) ==
  {s \in [BallS -> HashIdx] :
     \A p, q \in BallS : lc[balls[p].id][s[p]] = lc[balls[q].id][s[q]] => p = q}

\* mBins[b] of the cuckoo table: the ball in bin b, None if it is empty.
BallIn(b) ==
  IF \E s \in BallS : Loc(ballsS[s].id, slot[s]) = b
  THEN CHOOSE s \in BallS : Loc(ballsS[s].id, slot[s]) = b
  ELSE None

\* The inputs the fuzzy mapping leaves: no two balls of a party share an
\* identifier.
Distinct(balls) == \A p, q \in DOMAIN balls : balls[p].id = balls[q].id => p = q

InputInit ==
  /\ ballsR \in {f \in RecvInputs : Distinct(f)}
  /\ ballsS \in {f \in SendInputs : Distinct(f)}
  /\ locs \in Hashes
  /\ slot \in Placements(ballsS, locs)

-----------------------------------------------------------------------------
(* The sockets, one per dimension, as a queue in each direction. *)

Msg(type, n, body) == [type |-> type, n |-> n, body |-> body]

Send(ch, d, m) == [ch EXCEPT ![d] = Append(@, m)]
Pop(ch, d) == [ch EXCEPT ![d] = Tail(@)]
Has(ch, d) == ch[d] # <<>>
=============================================================================
