------------------------------ MODULE Spatial -------------------------------
(***************************************************************************)
(* The points of a run and the spatial hash (utils/dist_util.cpp):         *)
(* sample_points draws the points of both parties and plants close pairs,  *)
(* cell and intersection give the grid cells whose hashes psi_offline_sh   *)
(* uses as identifiers.  Coordinates are u64, here modulo U64.             *)
(***************************************************************************)
EXTENDS Integers, FiniteSetsExt

CONSTANTS
  DIM,       \* the dimension
  DELTA,     \* the radius
  U64        \* 2^64, the modulus of u64

ASSUME GridAssumption == DIM \in Nat \ {0} /\ DELTA \in Nat \ {0} /\ U64 > 4 * DELTA + 1

Coord == 0 .. DIM - 1
Word64 == 0 .. U64 - 1
u64(n) == n % U64

-----------------------------------------------------------------------------
(* sample_points. *)

\* Mutant: the values start at 0.
DrawFromZero(r) == r % (U64 - 1 - 4 * DELTA)

\* A coordinate from the random word r.
DrawCoord(r) == (r % (U64 - 1 - 4 * DELTA)) + 2 * DELTA

\* The receiver's point, moved in dimension 0 by the random byte idx.
Planted(x, up, idx) ==
  [x EXCEPT ![0] = u64(IF up THEN @ + (idx % DELTA) ELSE @ - (idx % DELTA))]

-----------------------------------------------------------------------------
(* Cells. *)

SIDE_LEN == 2 * DELTA
BLK_CELLS == 2^DIM
DELTA_L2 == DELTA * DELTA

cell(p) == [j \in Coord |-> p[j] \div SIDE_LEN]

\* Mutant: the block is that of the point itself.
block_here(p) == cell(p)

block_(p) == cell([j \in Coord |-> u64(p[j] - DELTA)])

\* The cells a ball can reach: bit j of i chooses between two in dimension j.
intersection(p) ==
  [i \in 0 .. BLK_CELLS - 1 |->
     [j \in Coord |-> block_(p)[j] + ((i \div 2^j) % 2)]]

\* The metrics intersection accepts; it throws for any other.
ValidMetric == {0, 1, 2}

-----------------------------------------------------------------------------
(* Distances. *)

AbsDiff(a, b) == IF a > b THEN a - b ELSE b - a

l1_dist(p, q) == MapThenSumSet(LAMBDA j : AbsDiff(p[j], q[j]), Coord)
l2_dist(p, q) == MapThenSumSet(LAMBDA j : AbsDiff(p[j], q[j]) * AbsDiff(p[j], q[j]), Coord)
l_inf_dist(p, q) == Max({AbsDiff(p[j], q[j]) : j \in Coord})

\* Whether two points are within DELTA under a metric, with l2_dist squared.
CloseBy(metric, p, q) ==
  CASE metric = 0 -> l_inf_dist(p, q) <= DELTA
    [] metric = 1 -> l1_dist(p, q) <= DELTA
    [] metric = 2 -> l2_dist(p, q) <= DELTA_L2
=============================================================================
