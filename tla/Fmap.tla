-------------------------------- MODULE Fmap --------------------------------
(***************************************************************************)
(* The fuzzy mapping (cmp_fmap/fmap.cpp): FmapSender and FmapReceiver give *)
(* every point an identifier such that close points of the two parties get *)
(* the same one.                                                           *)
(*                                                                         *)
(* Each party first labels the cells around its points (getID), one        *)
(* dimension and one point after the other.  fuzzyMap then lets each party *)
(* decode the other's labels obliviously and multiplies both scalars in.   *)
(*                                                                         *)
(* Blocks are formal sums; a monomial is a draw with the scalars it has    *)
(* been multiplied by.                                                     *)
(***************************************************************************)
EXTENDS Formal, Sequences

CONSTANTS
  Delta,         \* mDelta
  DIM,           \* mDim
  SizeR, SizeS,  \* mRecverSize, mSenderSize
  Inputs         \* the inputs considered: [R |-> points, S |-> points]

Dim == 0 .. DIM - 1
Party == {"R", "S"}
Size(p) == IF p = "R" THEN SizeR ELSE SizeS
Idx(p) == 0 .. Size(p) - 1
Other(p) == IF p = "R" THEN "S" ELSE "R"

ASSUME DeltaAssumption == Delta \in Nat \ {0}
ASSUME SizeAssumption == DIM \in Nat \ {0} /\ SizeR \in Nat \ {0} /\ SizeS \in Nat \ {0}
\* Both callers pass PTS_NUM for both sizes; setUp sizes the OKVS of one
\* party by the number of points of the other.
ASSUME SameSizeAssumption == SizeR = SizeS
ASSUME InputsAssumption ==
  \A inp \in Inputs : \A p \in Party : inp[p] \in [Idx(p) -> [Dim -> Nat]]

VARIABLES
  pts,       \* inputs of both parties
  at,        \* the loop position <<i, j>> of each party's getID
  labels,    \* blocks_check of party p in dimension i: cell |-> label
  ids,       \* mIdentifiers
  pc,        \* where each party stands in fuzzyMap
  toS, toR,  \* the socket
  out        \* Identifiers, the result of fuzzyMap

vars == <<pts, at, labels, ids, pc, toS, toR, out>>

-----------------------------------------------------------------------------
(* Cells and blocks of one coordinate. *)

computeCell(x) == x \div (2 * Delta)

computeBlock(x) == IF x >= Delta THEN (x - Delta) \div (2 * Delta) ELSE 0

\* block1 and block0 of getID: the two blocks a ball around x can reach.
Block1(x) == computeCell(x)
Block0(x) == IF computeCell(x) # 0 THEN computeCell(x) - 1 ELSE 0

-----------------------------------------------------------------------------
(* Draws and products. *)

Term(t) == [by |-> {}, of |-> t]
Draw(t) == {Term(t)}

\* Draws: a label, an output of the PRF of p, OKVS noise, a share of the
\* OPRF of p, a VOLE mask of p and the two shares of its product with the
\* other party's scalar.
Label(p, i, j)    == <<"label", p, i, j>>
PrfOf(p, i, c)    == <<"prf", p, i, c>>
Noise(p, i, c)    == <<"okvs", p, i, c>>
OprfShare(p, i, j) == <<"oprf", p, i, j>>
Mask(p, n)        == <<"mask", p, n>>
MaskShare(p, q, n) == <<"share", p, q, n>>

\* setUp: the VOLE correlations, scalar of Other(p) times mask of p equals
\* the sum of the two shares.
VoleProduct(p, n) == Draw(MaskShare(p, "R", n)) \cup Draw(MaskShare(p, "S", n))

\* gf128Mul by the scalar of party q.
Mul(q, v) ==
  XorAll([m \in v |->
    IF m.of[1] = "mask" /\ m.of[2] = Other(q)
    THEN {[by |-> m.by, of |-> s.of] : s \in VoleProduct(m.of[2], m.of[3])}
    ELSE {[by |-> m.by \cup {q}, of |-> m.of]}])

-----------------------------------------------------------------------------
(* getID. *)

\* Mutant: only one cell is relabelled.
StretchOne(map, c, lab) == {c}

\* The cells from c upwards that are present with another label than lab.
Stretch(map, c, lab) ==
  {t \in DOMAIN map : t >= c /\ \A k \in c .. t : k \in DOMAIN map /\ map[k] # lab}

\* map with the cells of C (re)labelled lab.
Paint(map, C, lab) ==
  [t \in DOMAIN map \cup C |-> IF t \in C THEN lab ELSE map[t]]

\* Mutant: a fresh label for every point.
LabelOfNew(map, x, new) == new

\* The body of the loop over the points: the label of the point, and the
\* map it leaves.
LabelOf(map, x, new) ==
  IF Block0(x) \in DOMAIN map THEN map[Block0(x)]
  ELSE IF Block1(x) \in DOMAIN map THEN map[Block1(x)]
  ELSE new

MapAfter(map, x, new) ==
  LET lab == LabelOf(map, x, new)
  IN IF {Block0(x), Block1(x)} \subseteq DOMAIN map
     THEN Paint(map, Stretch(map, Block1(x), lab), lab)
     ELSE Paint(map, {Block0(x), Block1(x)}, lab)

\* One iteration of getID of party p.
GetID(p) ==
  /\ pc[p] = "getID"
  /\ LET i == at[p][1]
         j == at[p][2]
         x == pts[p][j][i]
     IN /\ ids' = [ids EXCEPT ![p][j] =
                     Xor(@, Draw(LabelOf(labels[p][i], x, Label(p, i, j))))]
        /\ labels' = [labels EXCEPT ![p][i] = MapAfter(@, x, Label(p, i, j))]
        /\ at' = [at EXCEPT ![p] = IF j + 1 < Size(p) THEN <<i, j + 1>> ELSE <<i + 1, 0>>]
        /\ pc' = [pc EXCEPT ![p] = IF j + 1 = Size(p) /\ i + 1 = DIM THEN "start" ELSE @]
  /\ UNCHANGED <<pts, toS, toR, out>>

-----------------------------------------------------------------------------
(* fuzzyMap.  The first SizeR VOLE instances serve the receiver's points,  *)
(* the last SizeS the sender's.                                            *)

Vole(p, j) == IF p = "R" THEN j ELSE j + SizeR

\* mAssignments solved into the OKVS, and its decoding at a block.
Okvs(p) ==
  [i \in Dim |-> [c \in DOMAIN labels[p][i] |->
     Xor(Draw(labels[p][i][c]), Draw(PrfOf(p, i, c)))]]

Decode(p, okvs, i, c) ==
  IF c \in DOMAIN okvs[i] THEN okvs[i][c] ELSE Draw(Noise(p, i, c))

\* The owner q of the labels serves party p = Other(q): the sum of its OPRF
\* shares for point j, masked.
ShareSum(p) ==
  LET q == Other(p)
  IN [j \in Idx(p) |->
        Xor(XorAll([i \in Dim |-> Draw(OprfShare(q, i, j))]),
            Draw(Mask(q, Vole(p, j))))]

\* encryID of party p, from the OKVS and the masked sums of q.
EncryID(p, okvs, sums) ==
  LET q == Other(p)
      Blk(i, j) == computeBlock(pts[p][j][i])
      Decoded(j) == XorAll([i \in Dim |-> Decode(q, okvs, i, Blk(i, j))])
      OwnShare(i, j) == Xor(Draw(OprfShare(q, i, j)), Draw(PrfOf(q, i, Blk(i, j))))
      Blind(j) ==
        Xor(Xor(Mul(p, sums[j]), Draw(MaskShare(q, p, Vole(p, j)))),
            XorAll([i \in Dim |-> Mul(p, OwnShare(i, j))]))
  IN [j \in Idx(p) |->
        Xor(Xor(Mul(p, Xor(Decoded(j), ids[p][j])), Blind(j)),
            Draw(Mask(p, Vole(p, j))))]

\* Mutant: the VOLE index of the helper's share has no offset.
ReencryptNoOffset(q, enc) ==
  LET p == Other(q)
  IN [j \in Idx(p) |->
        Xor(Mul(q, Xor(enc[j], Draw(MaskShare(q, q, j)))),
            Draw(MaskShare(p, q, Vole(p, j))))]

\* encryID_rec of the helper q: take its share of the mask product off,
\* multiply, and add its share of the other product.
Reencrypt(q, enc) ==
  LET p == Other(q)
  IN [j \in Idx(p) |->
        Xor(Mul(q, Xor(enc[j], Draw(MaskShare(q, q, Vole(p, j))))),
            Draw(MaskShare(p, q, Vole(p, j))))]

\* Mutant: every point gets the identifier of the first.
UnmaskFirst(p, masked) ==
  [j \in Idx(p) |-> Xor(masked[0], Draw(MaskShare(p, p, Vole(p, 0))))]

Unmask(p, masked) ==
  [j \in Idx(p) |-> Xor(masked[j], Draw(MaskShare(p, p, Vole(p, j))))]

Init ==
  /\ pts \in Inputs
  /\ at = [p \in Party |-> <<0, 0>>]
  /\ labels = [p \in Party |-> [i \in Dim |-> <<>>]]
  /\ ids = [p \in Party |-> [j \in Idx(p) |-> {}]]
  /\ pc = [p \in Party |-> "getID"]
  /\ toS = <<>> /\ toR = <<>>
  /\ out = [p \in Party |-> <<>>]

\* The sender sends its OKVS and the masked sums.
S_Serve ==
  /\ pc["S"] = "start"
  /\ toR' = toR \o <<Okvs("S"), ShareSum("R")>>
  /\ pc' = [pc EXCEPT !["S"] = "reencrypt"]
  /\ UNCHANGED <<pts, at, labels, ids, toS, out>>

\* The receiver decodes and sends its encrypted identifiers.
R_Encrypt ==
  /\ pc["R"] = "start"
  /\ Len(toR) >= 2
  /\ toS' = Append(toS, EncryID("R", toR[1], toR[2]))
  /\ toR' = SubSeq(toR, 3, Len(toR))
  /\ pc' = [pc EXCEPT !["R"] = "unmask"]
  /\ UNCHANGED <<pts, at, labels, ids, out>>

S_Reencrypt ==
  /\ pc["S"] = "reencrypt"
  /\ toS # <<>>
  /\ toR' = Append(toR, Reencrypt("S", Head(toS)))
  /\ toS' = Tail(toS)
  /\ pc' = [pc EXCEPT !["S"] = "encrypt"]
  /\ UNCHANGED <<pts, at, labels, ids, out>>

\* The receiver has its identifiers; it serves the sender.
R_Unmask ==
  /\ pc["R"] = "unmask"
  /\ toR # <<>>
  /\ out' = [out EXCEPT !["R"] = Unmask("R", Head(toR))]
  /\ toR' = Tail(toR)
  /\ toS' = toS \o <<Okvs("R"), ShareSum("S")>>
  /\ pc' = [pc EXCEPT !["R"] = "reencrypt"]
  /\ UNCHANGED <<pts, at, labels, ids>>

S_Encrypt ==
  /\ pc["S"] = "encrypt"
  /\ Len(toS) >= 2
  /\ toR' = Append(toR, EncryID("S", toS[1], toS[2]))
  /\ toS' = SubSeq(toS, 3, Len(toS))
  /\ pc' = [pc EXCEPT !["S"] = "unmask"]
  /\ UNCHANGED <<pts, at, labels, ids, out>>

\* Mutant: the receiver returns without its last message.
R_ReencryptLost ==
  /\ pc["R"] = "reencrypt"
  /\ toR # <<>>
  /\ toR' = Tail(toR)
  /\ pc' = [pc EXCEPT !["R"] = "done"]
  /\ UNCHANGED <<pts, at, labels, ids, toS, out>>

R_Reencrypt ==
  /\ pc["R"] = "reencrypt"
  /\ toR # <<>>
  /\ toS' = Append(toS, Reencrypt("R", Head(toR)))
  /\ toR' = Tail(toR)
  /\ pc' = [pc EXCEPT !["R"] = "done"]
  /\ UNCHANGED <<pts, at, labels, ids, out>>

S_Unmask ==
  /\ pc["S"] = "unmask"
  /\ toS # <<>>
  /\ out' = [out EXCEPT !["S"] = Unmask("S", Head(toS))]
  /\ toS' = Tail(toS)
  /\ pc' = [pc EXCEPT !["S"] = "done"]
  /\ UNCHANGED <<pts, at, labels, ids, toR>>

Finished == pc["R"] = "done" /\ pc["S"] = "done"

Terminated == Finished /\ UNCHANGED vars

RecvSteps == GetID("R") \/ R_Encrypt \/ R_Unmask \/ R_Reencrypt
SendSteps == GetID("S") \/ S_Serve \/ S_Reencrypt \/ S_Encrypt \/ S_Unmask

Next == RecvSteps \/ SendSteps \/ Terminated

Spec == Init /\ [][Next]_vars

\* cmp_fmap_online runs both sides to completion in their own threads.
FairSpec == Spec /\ WF_vars(RecvSteps) /\ WF_vars(SendSteps)

-----------------------------------------------------------------------------
(* Properties. *)

\* Types of the control state; labels name draws of the party itself.
TypeOK ==
  /\ pts \in Inputs
  /\ at \in [Party -> (0 .. DIM) \X Nat]
  /\ DOMAIN pc = Party
  /\ DOMAIN labels = Party /\ DOMAIN ids = Party /\ DOMAIN out = Party
  /\ \A p \in Party : DOMAIN labels[p] = Dim
  /\ \A p \in Party : \A i \in Dim : \A c \in DOMAIN labels[p][i] :
       c \in Nat /\ \E j \in Idx(p) : labels[p][i][c] = Label(p, i, j)
  /\ pc["R"] \in {"getID", "start", "unmask", "reencrypt", "done"}
  /\ pc["S"] \in {"getID", "start", "reencrypt", "encrypt", "unmask", "done"}

\* Point j of party p has been through the loop of dimension i.
Labelled(p, i, j) == i < at[p][1] \/ (i = at[p][1] /\ j < at[p][2])

\* The loop runs over all points of a dimension, then over the next one, and
\* ends after the last.
LoopInv ==
  \A p \in Party :
    /\ at[p][2] \in Idx(p)
    /\ pc[p] = "getID" <=> at[p][1] < DIM
    /\ at[p][1] = DIM => at[p][2] = 0
    /\ \A i \in Dim : IsFiniteSet(DOMAIN labels[p][i])

Near(x, y) == x - y <= Delta /\ y - x <= Delta

\* However the stretches of a dimension have been extended and merged, the
\* two blocks of every point seen so far carry one label: any coordinate in
\* the point's ball decodes to that label.
BallHasOneLabel ==
  \A p \in Party : \A i \in Dim : \A j \in Idx(p) : Labelled(p, i, j) =>
    LET x == pts[p][j][i]
        map == labels[p][i]
    IN \A y \in (IF x < Delta THEN 0 ELSE x - Delta) .. x + Delta :
         /\ computeBlock(y) \in DOMAIN map
         /\ map[computeBlock(y)] = map[Block1(x)]

\* The labelled cells always fit in blocksContainInputs and mAssignments,
\* the 2 * size * dim keys for which the OKVS is set up: idx never runs
\* past the end.
FitsOkvs ==
  \A p \in Party : \A i \in Dim :
    Cardinality(DOMAIN labels[p][i]) <=
      2 * Cardinality({j \in Idx(p) : Labelled(p, i, j)})

\* What getID keeps true of its map after every point, whatever the order of
\* the points.
LabelInv == TypeOK /\ LoopInv /\ BallHasOneLabel /\ FitsOkvs

\* The identifier of point j is made of the labels its cells have now.
Current(p, j) ==
  ids[p][j] = XorAll([i \in Dim |-> Draw(labels[p][i][Block1(pts[p][j][i])])])

\* The points of party p come in ascending order of their cells in every
\* dimension, so that a stretch is only ever extended upwards.
Ascending(p) ==
  \A i \in Dim : \A j, k \in Idx(p) :
    j < k => computeCell(pts[p][j][i]) <= computeCell(pts[p][k][i])

\* Without a merge no identifier goes out of date.
AscendingStaysCurrent ==
  \A p \in Party : pc[p] # "getID" /\ Ascending(p) => \A j \in Idx(p) : Current(p, j)

Close(j, k) == \A i \in Dim : Near(pts["R"][j][i], pts["S"][k][i])

\* Close points whose identifiers are up to date get the same result: the
\* masks of the two rounds cancel, each with its own VOLE instance.
CurrentIdsAgree ==
  Finished => \A j \in Idx("R"), k \in Idx("S") :
    Close(j, k) /\ Current("R", j) /\ Current("S", k) => out["R"][j] = out["S"][k]

\* The "Deciding check" kept as a comment in FmapSender::fuzzyMap: the labels
\* the sender decodes for its point, without the PRF values, sum up to the
\* identifier (rID) of the receiver's point close to it.
DecidingCheck ==
  pc["R"] # "getID" => \A j \in Idx("R"), k \in Idx("S") : Close(j, k) =>
    XorAll([i \in Dim |-> Draw(labels["R"][i][computeBlock(pts["S"][k][i])])]) = ids["R"][j]

\* A common result of a receiver and a sender point means that each lies in
\* the other's labelled cells in every dimension.
SameIdMeansLinked ==
  Finished => \A j \in Idx("R"), k \in Idx("S") :
    out["R"][j] = out["S"][k] =>
      \A i \in Dim : /\ computeBlock(pts["R"][j][i]) \in DOMAIN labels["S"][i]
                     /\ computeBlock(pts["S"][k][i]) \in DOMAIN labels["R"][i]

\* Neither side waits for ever.
Completes == <>Finished
=============================================================================
