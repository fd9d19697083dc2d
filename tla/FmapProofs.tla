----------------------------- MODULE FmapProofs -----------------------------
(***************************************************************************)
(* Proofs about Fmap: the labels of the cells and the identifiers that     *)
(* getID builds from them, the messages of fuzzyMap, and the identifiers   *)
(* both parties end with.  They hold for every threshold, number of        *)
(* dimensions and of points, and every input.                              *)
(***************************************************************************)
EXTENDS Fmap, FiniteSetTheorems, TLAPS

-----------------------------------------------------------------------------
(* Blocks of one coordinate. *)

\* The two blocks of a coordinate are neighbours, or both the first one.
LEMMA Blocks ==
  ASSUME NEW x \in Nat
  PROVE  /\ Block0(x) \in Nat /\ Block1(x) \in Nat
         /\ Block1(x) = Block0(x) + 1 \/ (Block0(x) = 0 /\ Block1(x) = 0)
  <1>1. Delta \in Nat /\ Delta > 0
    BY DeltaAssumption
  <1> QED BY <1>1 DEF Block0, Block1, computeCell

\* computeBlock of a coordinate in the ball around x is a block of x.
LEMMA BallBlocks ==
  ASSUME NEW x \in Nat, NEW y \in Nat, y <= x + Delta, x <= y + Delta
  PROVE  computeBlock(y) \in {Block0(x), Block1(x)}
  <1>1. Delta \in Nat /\ Delta > 0
    BY DeltaAssumption
  <1> QED BY <1>1 DEF computeBlock, Block0, Block1, computeCell

-----------------------------------------------------------------------------
(* One iteration of getID on the map of a dimension. *)

\* The cells b and c are in the map, with one label.
Joined(map, b, c) == b \in DOMAIN map /\ c \in DOMAIN map /\ map[b] = map[c]

\* The relabelled stretch has no cell with the label it gets, and goes on as
\* long as it can.
LEMMA StretchFacts ==
  ASSUME NEW map, DOMAIN map \subseteq Nat, NEW c \in Nat, NEW lab
  PROVE  /\ Stretch(map, c, lab) \subseteq DOMAIN map
         /\ \A t \in Stretch(map, c, lab) : t >= c /\ map[t] # lab
         /\ \A t \in DOMAIN map : t >= c /\ t + 1 \in Stretch(map, c, lab) => t \in Stretch(map, c, lab)
         /\ \A t \in Stretch(map, c, lab) :
              t + 1 \in DOMAIN map /\ map[t + 1] # lab => t + 1 \in Stretch(map, c, lab)
         /\ c \in DOMAIN map /\ map[c] # lab => c \in Stretch(map, c, lab)
  <1> DEFINE S == Stretch(map, c, lab)
  <1>1. \A t : t \in S <=> t \in DOMAIN map /\ t >= c /\ \A k \in c .. t : k \in DOMAIN map /\ map[k] # lab
    BY DEF Stretch
  <1>2. ASSUME NEW t \in S PROVE t >= c /\ map[t] # lab
    BY <1>1, <1>2
  <1>3. ASSUME NEW t \in DOMAIN map, t >= c, t + 1 \in S PROVE t \in S
    BY <1>1, <1>3
  <1>4. ASSUME NEW t \in S, t + 1 \in DOMAIN map, map[t + 1] # lab PROVE t + 1 \in S
    <2>1. \A k \in c .. t + 1 : k \in c .. t \/ k = t + 1
      BY <1>1
    <2> QED BY <1>1, <1>4, <2>1
  <1>5. ASSUME c \in DOMAIN map, map[c] # lab PROVE c \in S
    BY <1>1, <1>5
  <1> QED
    BY <1>1, <1>2, <1>3, <1>4, <1>5

\* The point's own two blocks get its label.
LEMMA OwnBlocksJoined ==
  ASSUME NEW map, DOMAIN map \subseteq Nat, NEW x \in Nat, NEW new
  PROVE  LET after == MapAfter(map, x, new)
         IN Joined(after, Block0(x), Block1(x)) /\ after[Block1(x)] = LabelOf(map, x, new)
  <1> DEFINE b0 == Block0(x)
             b1 == Block1(x)
             lab == LabelOf(map, x, new)
             after == MapAfter(map, x, new)
  <1>0. b0 \in Nat /\ b1 \in Nat /\ (b1 = b0 + 1 \/ b0 = b1)
    BY Blocks
  <1>1. CASE {b0, b1} \subseteq DOMAIN map
    <2> DEFINE S == Stretch(map, b1, lab)
    <2>1. after = Paint(map, S, lab) /\ lab = map[b0]
      BY <1>1 DEF MapAfter, LabelOf
    <2> HIDE DEF b0, b1, lab, after
    <2>2. S \subseteq DOMAIN map /\ (map[b1] # lab => b1 \in S) /\ \A t \in S : t >= b1 /\ map[t] # lab
      BY <1>0, <1>1, StretchFacts
    <2>3. b0 \notin S
      BY <1>0, <2>1, <2>2
    <2> HIDE DEF S
    <2>4. after[b0] = map[b0] /\ after[b1] = lab /\ b0 \in DOMAIN after /\ b1 \in DOMAIN after
      BY <1>1, <2>1, <2>2, <2>3 DEF Paint
    <2> QED BY <2>1, <2>4 DEF Joined, b0, b1, lab, after
  <1>2. CASE ~({b0, b1} \subseteq DOMAIN map)
    <2>1. after = Paint(map, {b0, b1}, lab)
      BY <1>2 DEF MapAfter
    <2> QED BY <2>1 DEF Joined, Paint
  <1> QED BY <1>1, <1>2

\* Two neighbouring cells with one label keep one, whether a stretch is
\* extended or two stretches are merged.
LEMMA NeighboursStayJoined ==
  ASSUME NEW map, DOMAIN map \subseteq Nat, NEW x \in Nat, NEW new,
         NEW a \in Nat, NEW c \in Nat, c = a + 1 \/ c = a, Joined(map, a, c)
  PROVE  Joined(MapAfter(map, x, new), a, c)
  <1> DEFINE b0 == Block0(x)
             b1 == Block1(x)
             lab == LabelOf(map, x, new)
             after == MapAfter(map, x, new)
  <1>0. b0 \in Nat /\ b1 \in Nat /\ (b1 = b0 + 1 \/ (b0 = 0 /\ b1 = 0))
    BY Blocks
  <1>1. CASE {b0, b1} \subseteq DOMAIN map
    <2> DEFINE S == Stretch(map, b1, lab)
    <2>1. after = Paint(map, S, lab) /\ lab = map[b0]
      BY <1>1 DEF MapAfter, LabelOf
    <2> HIDE DEF b0, b1, lab, after
    <2>2. /\ S \subseteq DOMAIN map
          /\ \A t \in S : t >= b1 /\ map[t] # lab
          /\ \A t \in DOMAIN map : t >= b1 /\ t + 1 \in S => t \in S
          /\ \A t \in S : t + 1 \in DOMAIN map /\ map[t + 1] # lab => t + 1 \in S
      BY <1>0, StretchFacts
    <2>3. a \in DOMAIN map /\ c \in DOMAIN map /\ map[a] = map[c]
      BY DEF Joined
    <2> HIDE DEF S
    <2>4. a \in S => c \in S
      BY <2>2, <2>3
    <2>5. c \in S => a \in S
      <3> SUFFICES ASSUME c \in S, a \notin S PROVE FALSE
        OBVIOUS
      <3>1. c = a + 1 /\ ~(a >= b1) /\ c >= b1
        BY <2>2, <2>3
      <3>2. a = b0
        BY <1>0, <3>1
      <3> QED BY <2>1, <2>2, <2>3, <3>2
    <2>6. after[a] = after[c] /\ a \in DOMAIN after /\ c \in DOMAIN after
      BY <2>1, <2>3, <2>4, <2>5 DEF Paint
    <2> QED BY <2>6 DEF Joined, after
  <1>2. CASE ~({b0, b1} \subseteq DOMAIN map)
    <2>1. after = Paint(map, {b0, b1}, lab)
      BY <1>2 DEF MapAfter
    <2>2. \A t \in DOMAIN map : t \in {b0, b1} => lab = map[t]
      BY <1>2 DEF LabelOf
    <2>3. a \in DOMAIN map /\ c \in DOMAIN map /\ map[a] = map[c]
      BY DEF Joined
    <2> HIDE DEF b0, b1, lab, after
    <2>4. \A t \in DOMAIN map : t \in DOMAIN after /\ after[t] = map[t]
      BY <2>1, <2>2 DEF Paint
    <2> QED BY <2>3, <2>4 DEF Joined, after
  <1> QED BY <1>1, <1>2

\* One element more.
LEMMA OneMore ==
  ASSUME NEW S, IsFiniteSet(S), NEW e
  PROVE  /\ IsFiniteSet(S \cup {e}) /\ Cardinality(S) \in Nat
         /\ Cardinality(S \cup {e}) \in Nat
         /\ Cardinality(S \cup {e}) <= Cardinality(S) + 1
  <1>1. Cardinality(S) \in Nat
    BY FS_CardinalityType
  <1>2. IsFiniteSet(S \cup {e})
    BY FS_AddElement
  <1>3. Cardinality(S \cup {e}) = Cardinality(S) \/ Cardinality(S \cup {e}) = Cardinality(S) + 1
    BY FS_AddElement
  <1> QED BY <1>1, <1>2, <1>3

\* Labels are old ones or the new one, on old cells or the point's own, of
\* which there are at most two.
LEMMA CellsAfter ==
  ASSUME NEW map, DOMAIN map \subseteq Nat, IsFiniteSet(DOMAIN map), NEW x \in Nat, NEW new
  PROVE  LET after == MapAfter(map, x, new)
         IN /\ DOMAIN after \subseteq DOMAIN map \cup {Block0(x), Block1(x)}
            /\ DOMAIN after \subseteq Nat /\ IsFiniteSet(DOMAIN after)
            /\ Cardinality(DOMAIN after) <= Cardinality(DOMAIN map) + 2
            /\ \A c \in DOMAIN after : after[c] = new \/ \E b \in DOMAIN map : after[c] = map[b]
  <1> DEFINE b0 == Block0(x)
             b1 == Block1(x)
             lab == LabelOf(map, x, new)
             after == MapAfter(map, x, new)
  <1>0. b0 \in Nat /\ b1 \in Nat
    BY Blocks
  <1>1. lab = new \/ \E b \in DOMAIN map : lab = map[b]
    BY DEF LabelOf
  <1>2. \E C : after = Paint(map, C, lab) /\ C \subseteq DOMAIN map \cup {b0, b1}
    <2>1. CASE {b0, b1} \subseteq DOMAIN map
      BY <1>0, <2>1, StretchFacts DEF MapAfter
    <2>2. CASE ~({b0, b1} \subseteq DOMAIN map)
      BY <2>2 DEF MapAfter
    <2> QED BY <2>1, <2>2
  <1> HIDE DEF lab, after, b0, b1
  <1>3. DOMAIN after \subseteq DOMAIN map \cup {b0, b1}
    BY <1>2 DEF Paint
  <1>4. \A c \in DOMAIN after : after[c] = new \/ \E b \in DOMAIN map : after[c] = map[b]
    BY <1>1, <1>2 DEF Paint
  <1> DEFINE E0 == DOMAIN map \cup {b0}
             E1 == E0 \cup {b1}
  <1>5. IsFiniteSet(E0) /\ Cardinality(E0) <= Cardinality(DOMAIN map) + 1
    BY OneMore
  <1> HIDE DEF E0
  <1>6. IsFiniteSet(E1) /\ Cardinality(E1) <= Cardinality(E0) + 1
    BY <1>5, OneMore
  <1>7. DOMAIN after \subseteq E1
    BY <1>3 DEF E0
  <1> HIDE DEF E1
  <1>8. IsFiniteSet(DOMAIN after) /\ Cardinality(DOMAIN after) <= Cardinality(E1)
    BY <1>6, <1>7, FS_Subset
  <1>9. /\ Cardinality(DOMAIN after) \in Nat /\ Cardinality(E1) \in Nat
        /\ Cardinality(E0) \in Nat /\ Cardinality(DOMAIN map) \in Nat
    BY <1>5, <1>6, <1>8, FS_CardinalityType
  <1>10. Cardinality(DOMAIN after) <= Cardinality(DOMAIN map) + 2
    BY <1>5, <1>6, <1>8, <1>9
  <1> QED
    BY <1>0, <1>3, <1>4, <1>8, <1>10 DEF after, b0, b1

-----------------------------------------------------------------------------
(* The inductive invariant. *)

\* The two blocks of a point seen carry one label: BallHasOneLabel in terms
\* of the blocks.
PairInv ==
  \A p \in Party : \A i \in Dim : \A j \in Idx(p) : Labelled(p, i, j) =>
    Joined(labels[p][i], Block0(pts[p][j][i]), Block1(pts[p][j][i]))

IndInv == TypeOK /\ LoopInv /\ PairInv /\ FitsOkvs

\* Coordinates are natural numbers.
LEMMA PointTypes ==
  ASSUME TypeOK, NEW p \in Party, NEW i \in Dim, NEW j \in Idx(p)
  PROVE  pts[p][j][i] \in Nat
  BY InputsAssumption DEF TypeOK

\* The sizes of the loops.
LEMMA LoopBounds ==
  /\ DIM \in Nat /\ DIM > 0
  /\ \A p \in Party : Size(p) \in Nat /\ Size(p) > 0
  /\ \A p \in Party : IsFiniteSet(Idx(p)) /\ 0 \in Idx(p)
  <1>1. \A p \in Party : Size(p) \in Nat /\ Size(p) > 0
    BY SizeAssumption DEF Size
  <1>2. ASSUME NEW p \in Party PROVE IsFiniteSet(Idx(p)) /\ 0 \in Idx(p)
    BY <1>1, FS_Interval DEF Idx
  <1> QED BY <1>1, <1>2, SizeAssumption

LEMMA InitIndInv == Init => IndInv
  <1> SUFFICES ASSUME Init PROVE IndInv
    OBVIOUS
  <1>1. \A p \in Party : \A i \in Dim : DOMAIN labels[p][i] = {} /\ \A j \in Idx(p) : ~Labelled(p, i, j)
    BY DEF Init, Labelled, Idx, Dim
  <1>2. TypeOK
    <2>1. at \in [Party -> (0 .. DIM) \X Nat]
      BY LoopBounds DEF Init
    <2>2. \A p \in Party : DOMAIN labels[p] = Dim
      BY DEF Init
    <2>3. DOMAIN pc = Party /\ DOMAIN labels = Party /\ DOMAIN ids = Party /\ DOMAIN out = Party
      BY DEF Init
    <2>4. pc["R"] = "getID" /\ pc["S"] = "getID" /\ pts \in Inputs
      BY DEF Init, Party
    <2> QED BY <1>1, <2>1, <2>2, <2>3, <2>4 DEF TypeOK
  <1>3. LoopInv
    BY <1>1, LoopBounds, FS_EmptySet DEF Init, LoopInv
  <1>4. PairInv
    BY <1>1 DEF PairInv
  <1>5. FitsOkvs
    <2> SUFFICES ASSUME NEW p \in Party, NEW i \in Dim
                 PROVE  Cardinality(DOMAIN labels[p][i]) <=
                          2 * Cardinality({j \in Idx(p) : Labelled(p, i, j)})
      BY DEF FitsOkvs
    <2>1. Cardinality(DOMAIN labels[p][i]) = 0
      BY <1>1, FS_EmptySet
    <2>2. Cardinality({j \in Idx(p) : Labelled(p, i, j)}) = 0
      <3>1. {j \in Idx(p) : Labelled(p, i, j)} = {}
        BY <1>1
      <3> QED BY <3>1, FS_EmptySet
    <2> QED BY <2>1, <2>2
  <1> QED
    BY <1>2, <1>3, <1>4, <1>5 DEF IndInv

\* An iteration of getID labels exactly the point it stands at.
LEMMA LabelledStep ==
  ASSUME IndInv, NEW p \in Party, GetID(p)
  PROVE  /\ at[p][1] \in Dim /\ at[p][2] \in Idx(p)
         /\ ~Labelled(p, at[p][1], at[p][2])
         /\ \A i \in Dim, j \in Idx(p) :
              Labelled(p, i, j)' <=> Labelled(p, i, j) \/ (i = at[p][1] /\ j = at[p][2])
         /\ \A q \in Party, i \in Dim : \A j \in Idx(q) :
              q # p => (Labelled(q, i, j)' <=> Labelled(q, i, j))
  <1> DEFINE a == at[p][1]
             b == at[p][2]
  <1>1. a \in Dim /\ b \in Idx(p)
    BY LoopBounds DEF IndInv, TypeOK, LoopInv, GetID, Dim
  <1>2. at'[p] = IF b + 1 < Size(p) THEN <<a, b + 1>> ELSE <<a + 1, 0>>
    BY DEF GetID, IndInv, TypeOK
  <1>3. \A q \in Party : q # p => at'[q] = at[q]
    BY DEF GetID, IndInv, TypeOK
  <1> HIDE DEF a, b
  <1>4. at'[p][1] = (IF b + 1 < Size(p) THEN a ELSE a + 1) /\ at'[p][2] = (IF b + 1 < Size(p) THEN b + 1 ELSE 0)
    BY <1>2
  <1>5. ASSUME NEW i \in Dim, NEW j \in Idx(p)
        PROVE  Labelled(p, i, j)' <=> Labelled(p, i, j) \/ (i = a /\ j = b)
    <2>1. Labelled(p, i, j) <=> i < a \/ (i = a /\ j < b)
      BY DEF Labelled, a, b
    <2>2. Labelled(p, i, j)' <=> i < at'[p][1] \/ (i = at'[p][1] /\ j < at'[p][2])
      BY DEF Labelled
    <2>3. i \in Nat /\ j \in Nat /\ a \in Nat /\ b \in Nat /\ j < Size(p) /\ b < Size(p) /\ Size(p) \in Nat
      BY <1>1, LoopBounds DEF Dim, Idx
    <2> QED BY <1>4, <2>1, <2>2, <2>3
  <1>6. ~Labelled(p, a, b)
    BY <1>1 DEF Labelled, a, b, Dim, Idx
  <1> QED
    BY <1>1, <1>3, <1>5, <1>6 DEF Labelled, a, b

\* One iteration of getID.
LEMMA GetIDKeeps ==
  ASSUME IndInv, NEW p \in Party, GetID(p)
  PROVE  IndInv'
  <1> DEFINE a == at[p][1]
             b == at[p][2]
             x == pts[p][b][a]
             new == Label(p, a, b)
             map == labels[p][a]
             after == MapAfter(map, x, new)
  <1>1. a \in Dim /\ b \in Idx(p) /\ x \in Nat
    BY LabelledStep, PointTypes DEF IndInv
  <1>2. DOMAIN map \subseteq Nat /\ IsFiniteSet(DOMAIN map)
    BY <1>1 DEF IndInv, TypeOK, LoopInv
  <1>3. labels'[p][a] = after
    BY <1>1 DEF GetID, IndInv, TypeOK
  <1>4. \A q \in Party, i \in Dim : q # p \/ i # a => labels'[q][i] = labels[q][i]
    BY <1>1 DEF GetID, IndInv, TypeOK
  <1>u. pts' = pts
    BY DEF GetID
  <1>l. /\ ~Labelled(p, a, b)
        /\ \A i \in Dim, j \in Idx(p) : Labelled(p, i, j)' <=> Labelled(p, i, j) \/ (i = a /\ j = b)
        /\ \A q \in Party, i \in Dim : \A j \in Idx(q) :
              q # p => (Labelled(q, i, j)' <=> Labelled(q, i, j))
    BY LabelledStep
  <1>f. /\ DOMAIN after \subseteq Nat /\ IsFiniteSet(DOMAIN after)
        /\ Cardinality(DOMAIN after) <= Cardinality(DOMAIN map) + 2
        /\ \A c \in DOMAIN after : after[c] = new \/ \E e \in DOMAIN map : after[c] = map[e]
    <2>1. x \in Nat
      BY <1>1
    <2> HIDE DEF map, x, new
    <2> QED BY <1>2, <2>1, CellsAfter
  <1>5. TypeOK'
    <2>1. /\ pts' \in Inputs /\ DOMAIN pc' = Party
          /\ DOMAIN labels' = Party /\ DOMAIN ids' = Party /\ DOMAIN out' = Party
          /\ \A q \in Party : DOMAIN labels'[q] = Dim
      BY DEF GetID, IndInv, TypeOK
    <2>2. at' \in [Party -> (0 .. DIM) \X Nat]
      BY <1>1, LoopBounds DEF GetID, IndInv, TypeOK, Dim, Idx
    <2>3. /\ pc'["R"] \in {"getID", "start", "unmask", "reencrypt", "done"}
          /\ pc'["S"] \in {"getID", "start", "reencrypt", "encrypt", "unmask", "done"}
      BY DEF GetID, IndInv, TypeOK, Party
    <2>4. ASSUME NEW q \in Party, NEW i \in Dim, NEW c \in DOMAIN labels'[q][i]
          PROVE  c \in Nat /\ \E j \in Idx(q) : labels'[q][i][c] = Label(q, i, j)
      <3>1. CASE q = p /\ i = a
        <4>1. \A e \in DOMAIN map : \E j \in Idx(p) : map[e] = Label(p, a, j)
          BY <1>1 DEF IndInv, TypeOK
        <4> HIDE DEF after, map
        <4> QED BY <1>1, <1>3, <1>f, <2>4, <3>1, <4>1
      <3>2. CASE ~(q = p /\ i = a)
        BY <1>4, <2>4, <3>2 DEF IndInv, TypeOK
      <3> QED BY <3>1, <3>2
    <2> QED BY <2>1, <2>2, <2>3, <2>4 DEF TypeOK
  <1>6. LoopInv'
    <2> SUFFICES ASSUME NEW q \in Party
                 PROVE  /\ at'[q][2] \in Idx(q)
                        /\ pc'[q] = "getID" <=> at'[q][1] < DIM
                        /\ at'[q][1] = DIM => at'[q][2] = 0
                        /\ \A i \in Dim : IsFiniteSet(DOMAIN labels'[q][i])
      BY DEF LoopInv
    <2>1. \A i \in Dim : IsFiniteSet(DOMAIN labels'[q][i])
      BY <1>3, <1>4, <1>f DEF IndInv, LoopInv
    <2>2. CASE q # p
      BY <2>1, <2>2 DEF GetID, IndInv, TypeOK, LoopInv
    <2>3. CASE q = p
      <3>1. /\ at'[p] = IF b + 1 < Size(p) THEN <<a, b + 1>> ELSE <<a + 1, 0>>
            /\ pc'[p] = IF b + 1 = Size(p) /\ a + 1 = DIM THEN "start" ELSE "getID"
        BY DEF GetID, IndInv, TypeOK
      <3>2. /\ a \in Nat /\ a < DIM /\ b \in Nat /\ b < Size(p) /\ DIM \in Nat
            /\ Size(p) \in Nat /\ Size(p) > 0
        BY <1>1, LoopBounds DEF Dim, Idx
      <3> HIDE DEF a, b
      <3>3. /\ at'[p][1] = IF b + 1 < Size(p) THEN a ELSE a + 1
            /\ at'[p][2] = IF b + 1 < Size(p) THEN b + 1 ELSE 0
        BY <3>1
      <3> QED BY <2>1, <2>3, <3>1, <3>2, <3>3 DEF Idx
    <2> QED BY <2>2, <2>3
  <1>7. PairInv'
    <2> SUFFICES ASSUME NEW q \in Party, NEW i \in Dim, NEW j \in Idx(q), Labelled(q, i, j)'
                 PROVE  Joined(labels'[q][i], Block0(pts[q][j][i]), Block1(pts[q][j][i]))
      BY <1>u DEF PairInv, Joined
    <2>1. CASE q = p /\ i = a /\ j = b
      BY <1>1, <1>2, <1>3, <2>1, OwnBlocksJoined
    <2>2. CASE q = p /\ i = a /\ j # b
      <3> DEFINE y == pts[p][j][a]
      <3>1. Joined(map, Block0(y), Block1(y))
        BY <1>l, <2>2 DEF IndInv, PairInv
      <3>2. y \in Nat
        BY <2>2, PointTypes DEF IndInv
      <3> HIDE DEF y, map, after, x
      <3>3. Joined(after, Block0(y), Block1(y))
        BY <1>1, <1>2, <3>1, <3>2, Blocks, NeighboursStayJoined DEF after
      <3> QED BY <1>3, <2>2, <3>3 DEF y
    <2>3. CASE ~(q = p /\ i = a)
      BY <1>4, <1>l, <2>3 DEF IndInv, PairInv
    <2> QED BY <2>1, <2>2, <2>3
  <1>8. FitsOkvs'
    <2> SUFFICES ASSUME NEW q \in Party, NEW i \in Dim
                 PROVE  Cardinality(DOMAIN labels'[q][i]) <=
                          2 * Cardinality({j \in Idx(q) : Labelled(q, i, j)'})
      BY DEF FitsOkvs
    <2> DEFINE old == {j \in Idx(q) : Labelled(q, i, j)}
               now == {j \in Idx(q) : Labelled(q, i, j)'}
    <2>1. Cardinality(DOMAIN labels[q][i]) <= 2 * Cardinality(old)
      BY DEF IndInv, FitsOkvs
    <2>2. CASE q = p /\ i = a
      <3>1. now = old \cup {b} /\ b \notin old
        BY <1>1, <1>l, <2>2
      <3>2. IsFiniteSet(old)
        BY LoopBounds, FS_Subset
      <3> HIDE DEF old, now, after, map, b
      <3>3. Cardinality(now) = Cardinality(old) + 1 /\ Cardinality(old) \in Nat
        BY <3>1, <3>2, FS_AddElement, FS_CardinalityType
      <3>4. Cardinality(DOMAIN map) \in Nat /\ Cardinality(DOMAIN after) \in Nat
        BY <1>2, <1>f, FS_CardinalityType
      <3>5. Cardinality(DOMAIN map) <= 2 * Cardinality(old)
        BY <2>1, <2>2 DEF map
      <3>6. Cardinality(DOMAIN after) <= 2 * Cardinality(now)
        BY <1>f, <3>3, <3>4, <3>5
      <3> QED BY <1>3, <2>2, <3>6 DEF now
    <2>3. CASE ~(q = p /\ i = a)
      <3>1. now = old
        BY <1>l, <2>3
      <3> QED BY <1>4, <2>1, <2>3, <3>1
    <2> QED BY <2>2, <2>3
  <1> QED
    BY <1>5, <1>6, <1>7, <1>8 DEF IndInv

\* The steps of fuzzyMap come after getID of the party and leave the labels.
LEMMA FuzzyMapKeeps ==
  ASSUME IndInv, UNCHANGED <<pts, at, labels, ids>>,
         \/ \E p \in Party : \E l : /\ pc[p] # "getID" /\ l # "getID"
                                   /\ pc' = [pc EXCEPT ![p] = l] /\ TypeOK'
         \/ UNCHANGED <<pc, out>>
  PROVE  IndInv'
  <1>1. TypeOK'
    BY DEF IndInv, TypeOK
  <1>2. \A p \in Party : pc'[p] = "getID" <=> pc[p] = "getID"
    BY DEF IndInv, TypeOK
  <1>3. LoopInv'
    BY <1>2 DEF IndInv, LoopInv
  <1>4. PairInv' /\ FitsOkvs'
    BY DEF IndInv, PairInv, FitsOkvs, Labelled
  <1> QED
    BY <1>1, <1>3, <1>4 DEF IndInv

-----------------------------------------------------------------------------
(* The theorems. *)

\* The inductive invariant holds for every input and every interleaving.
THEOREM FmapInductive == Spec => []IndInv
  <1>1. ASSUME IndInv, [Next]_vars PROVE IndInv'
    <2>1. ASSUME NEW p \in Party, GetID(p) PROVE IndInv'
      BY <1>1, <2>1, GetIDKeeps
    <2>2. ASSUME NEW p \in Party, NEW l, pc[p] # "getID", l # "getID",
                 UNCHANGED <<pts, at, labels, ids>>, pc' = [pc EXCEPT ![p] = l], DOMAIN out' = Party,
                 p = "R" => l \in {"unmask", "reencrypt", "done"},
                 p = "S" => l \in {"reencrypt", "encrypt", "unmask", "done"}
          PROVE  IndInv'
      <3>1. TypeOK'
        BY <1>1, <2>2 DEF IndInv, TypeOK, Party
      <3> QED BY <1>1, <2>2, <3>1, FuzzyMapKeeps
    <2>o. DOMAIN out = Party /\ "R" \in Party /\ "S" \in Party
      BY <1>1 DEF IndInv, TypeOK, Party
    <2>3. CASE R_Encrypt \/ R_Unmask \/ R_Reencrypt
      BY <2>2, <2>3, <2>o DEF R_Encrypt, R_Unmask, R_Reencrypt
    <2>4. CASE S_Serve \/ S_Reencrypt \/ S_Encrypt \/ S_Unmask
      BY <2>2, <2>4, <2>o DEF S_Serve, S_Reencrypt, S_Encrypt, S_Unmask
    <2>5. CASE UNCHANGED vars
      BY <1>1, <2>5, FuzzyMapKeeps DEF vars
    <2> QED
      BY <1>1, <2>1, <2>3, <2>4, <2>5, <2>o DEF Next, RecvSteps, SendSteps, Terminated
  <1> QED
    BY <1>1, InitIndInv, PTL DEF Spec

\* Every coordinate within Delta of a labelled point decodes to that point's
\* label, whatever stretches were merged since, and the labelled cells fit
\* the OKVS.
THEOREM FmapLabels == Spec => []LabelInv
  <1>1. ASSUME IndInv PROVE BallHasOneLabel
    <2> SUFFICES ASSUME NEW p \in Party, NEW i \in Dim, NEW j \in Idx(p), Labelled(p, i, j),
                        NEW y \in (IF pts[p][j][i] < Delta THEN 0 ELSE pts[p][j][i] - Delta)
                                  .. pts[p][j][i] + Delta
                 PROVE  /\ computeBlock(y) \in DOMAIN labels[p][i]
                        /\ labels[p][i][computeBlock(y)] = labels[p][i][Block1(pts[p][j][i])]
      BY DEF BallHasOneLabel
    <2>1. pts[p][j][i] \in Nat
      BY <1>1, PointTypes DEF IndInv
    <2>2. y \in Nat /\ y <= pts[p][j][i] + Delta /\ pts[p][j][i] <= y + Delta
      BY <2>1, DeltaAssumption
    <2>3. Joined(labels[p][i], Block0(pts[p][j][i]), Block1(pts[p][j][i]))
      BY <1>1 DEF IndInv, PairInv
    <2>4. computeBlock(y) \in {Block0(pts[p][j][i]), Block1(pts[p][j][i])}
      BY <2>1, <2>2, BallBlocks
    <2> QED BY <2>3, <2>4 DEF Joined
  <1>2. IndInv => LabelInv
    BY <1>1 DEF IndInv, LabelInv
  <1> QED
    BY <1>2, FmapInductive, PTL

-----------------------------------------------------------------------------
(* Points in ascending order. *)

\* A step changes no label of a cell that has one, if the points of the
\* party come in ascending order: identifiers computed from labels do not go
\* out of date (the merge is where they do).
KeepsLabels ==
  \A p \in Party : Ascending(p) =>
    \A i \in Dim : \A c \in DOMAIN labels[p][i] :
      c \in DOMAIN labels'[p][i] /\ labels'[p][i][c] = labels[p][i][c]

\* No cell lies above the cell of the last point.
TopInv ==
  \A p \in Party : Ascending(p) =>
    \A i \in Dim : \A c \in DOMAIN labels[p][i] :
      \E j \in Idx(p) : Labelled(p, i, j) /\ c <= Block1(pts[p][j][i])

\* Only a merge relabels, and a merge needs a cell with a label above the
\* point's own, or one that another point has joined to the lower cell.
LEMMA NoMerge ==
  ASSUME NEW map, DOMAIN map \subseteq Nat, NEW x \in Nat, NEW new,
         {Block0(x), Block1(x)} \subseteq DOMAIN map => map[Block0(x)] = map[Block1(x)],
         NEW c \in DOMAIN map
  PROVE  c \in DOMAIN MapAfter(map, x, new) /\ MapAfter(map, x, new)[c] = map[c]
  <1> DEFINE b0 == Block0(x)
             b1 == Block1(x)
             lab == LabelOf(map, x, new)
             after == MapAfter(map, x, new)
  <1>0. b0 \in Nat /\ b1 \in Nat
    BY Blocks
  <1>1. CASE {b0, b1} \subseteq DOMAIN map
    <2>1. after = Paint(map, Stretch(map, b1, lab), lab) /\ lab = map[b1]
      BY <1>1 DEF MapAfter, LabelOf
    <2>2. Stretch(map, b1, lab) = {}
      BY <1>0, <2>1 DEF Stretch
    <2> HIDE DEF b0, b1, lab, after
    <2>3. c \in DOMAIN after /\ after[c] = map[c]
      BY <2>1, <2>2 DEF Paint
    <2> QED BY <2>3 DEF after
  <1>2. CASE ~({b0, b1} \subseteq DOMAIN map)
    <2>1. after = Paint(map, {b0, b1}, lab)
      BY <1>2 DEF MapAfter
    <2>2. \A t \in DOMAIN map : t \in {b0, b1} => lab = map[t]
      BY <1>2 DEF LabelOf
    <2> HIDE DEF b0, b1, lab, after
    <2>3. c \in DOMAIN after /\ after[c] = map[c]
      BY <2>1, <2>2 DEF Paint
    <2> QED BY <2>3 DEF after
  <1> QED BY <1>1, <1>2

\* In ascending order the point at hand finds its two cells with one label,
\* or not both.
LEMMA AscendingNeverMerges ==
  ASSUME IndInv, TopInv, NEW p \in Party, GetID(p), Ascending(p)
  PROVE  LET map == labels[p][at[p][1]]
             x == pts[p][at[p][2]][at[p][1]]
         IN {Block0(x), Block1(x)} \subseteq DOMAIN map => map[Block0(x)] = map[Block1(x)]
  <1> DEFINE a == at[p][1]
             b == at[p][2]
             x == pts[p][b][a]
             map == labels[p][a]
  <1> SUFFICES ASSUME {Block0(x), Block1(x)} \subseteq DOMAIN map
               PROVE  map[Block0(x)] = map[Block1(x)]
    OBVIOUS
  <1>1. a \in Dim /\ b \in Idx(p) /\ x \in Nat
    BY LabelledStep, PointTypes DEF IndInv
  <1>2. PICK j \in Idx(p) : Labelled(p, a, j) /\ Block1(x) <= Block1(pts[p][j][a])
    BY <1>1 DEF TopInv
  <1> DEFINE y == pts[p][j][a]
  <1>3. y \in Nat /\ j < b
    BY <1>1, <1>2, PointTypes DEF IndInv, Labelled, Dim
  <1>4. Block1(y) <= Block1(x)
    BY <1>1, <1>3 DEF Ascending, Block1
  <1>5. Joined(map, Block0(y), Block1(y))
    BY <1>1, <1>2 DEF IndInv, PairInv
  <1>6. Block1(y) = Block1(x)
    <2> HIDE DEF x, y
    <2>1. Block1(x) \in Nat /\ Block1(y) \in Nat
      BY <1>1, <1>3, Blocks
    <2>2. Block1(x) <= Block1(y)
      BY <1>2 DEF y
    <2> QED BY <1>4, <2>1, <2>2
  <1>7. Block0(y) = Block0(x)
    BY <1>6 DEF Block0, Block1
  <1> QED
    BY <1>5, <1>6, <1>7 DEF Joined

\* An iteration of getID.
LEMMA AscendingGetID ==
  ASSUME IndInv, TopInv, NEW p \in Party, GetID(p)
  PROVE  KeepsLabels /\ TopInv'
  <1> DEFINE a == at[p][1]
             b == at[p][2]
             x == pts[p][b][a]
             new == Label(p, a, b)
             map == labels[p][a]
             after == MapAfter(map, x, new)
  <1>1. a \in Dim /\ b \in Idx(p) /\ x \in Nat
    BY LabelledStep, PointTypes DEF IndInv
  <1>2. DOMAIN map \subseteq Nat /\ IsFiniteSet(DOMAIN map)
    BY <1>1 DEF IndInv, TypeOK, LoopInv
  <1>3. labels'[p][a] = after
    BY <1>1 DEF GetID, IndInv, TypeOK
  <1>4. \A q \in Party, i \in Dim : q # p \/ i # a => labels'[q][i] = labels[q][i]
    BY <1>1 DEF GetID, IndInv, TypeOK
  <1>u. pts' = pts
    BY DEF GetID
  <1>5. ASSUME Ascending(p), NEW c \in DOMAIN map
        PROVE  c \in DOMAIN after /\ after[c] = map[c]
    <2>1. {Block0(x), Block1(x)} \subseteq DOMAIN map => map[Block0(x)] = map[Block1(x)]
      BY <1>5, AscendingNeverMerges
    <2> HIDE DEF map, x, new
    <2> QED BY <1>1, <1>2, <1>5, <2>1, NoMerge
  <1>6. KeepsLabels
    <2> SUFFICES ASSUME NEW q \in Party, Ascending(q), NEW i \in Dim, NEW c \in DOMAIN labels[q][i]
                 PROVE  c \in DOMAIN labels'[q][i] /\ labels'[q][i][c] = labels[q][i][c]
      BY DEF KeepsLabels
    <2>1. CASE q = p /\ i = a
      BY <1>3, <1>5, <2>1
    <2>2. CASE ~(q = p /\ i = a)
      BY <1>4, <2>2
    <2> QED BY <2>1, <2>2
  <1>7. TopInv'
    <2>1. \A q \in Party : Ascending(q)' <=> Ascending(q)
      BY <1>u DEF Ascending
    <2> SUFFICES ASSUME NEW q \in Party, Ascending(q), NEW i \in Dim, NEW c \in DOMAIN labels'[q][i]
                 PROVE  \E j \in Idx(q) : Labelled(q, i, j)' /\ c <= Block1(pts[q][j][i])
      BY <1>u, <2>1 DEF TopInv
    <2>2. \A j \in Idx(q) : Labelled(q, i, j) => Labelled(q, i, j)'
      BY LabelledStep
    <2>3. CASE c \in DOMAIN labels[q][i]
      BY <2>2, <2>3 DEF TopInv
    <2>4. CASE c \notin DOMAIN labels[q][i]
      <3>1. q = p /\ i = a
        BY <1>4, <2>4
      <3>2. c \in {Block0(x), Block1(x)}
        <4>1. DOMAIN after \subseteq DOMAIN map \cup {Block0(x), Block1(x)}
          BY <1>1, <1>2, CellsAfter
        <4> HIDE DEF after, map, x
        <4>2. c \in DOMAIN after /\ c \notin DOMAIN map
          BY <1>3, <2>4, <3>1 DEF map
        <4> QED BY <4>1, <4>2
      <3>3. c <= Block1(x)
        BY <1>1, <3>2, Blocks
      <3>4. \A j \in Idx(q) : j = b => Labelled(q, i, j)' /\ pts[q][j][i] = x
        BY <1>1, <3>1, LabelledStep
      <3> QED BY <1>1, <3>1, <3>3, <3>4
    <2> QED BY <2>3, <2>4
  <1> QED
    BY <1>6, <1>7

\* With the points of a party in ascending order getID never relabels a
\* cell, so what was added to an identifier stays the label of its cell.
THEOREM AscendingKeepsLabels == Spec => [][KeepsLabels]_vars
  <1>1. Init => TopInv
    BY DEF Init, TopInv
  <1>2. ASSUME IndInv, TopInv, [Next]_vars PROVE TopInv' /\ KeepsLabels
    <2>1. ASSUME NEW p \in Party, GetID(p) PROVE TopInv' /\ KeepsLabels
      BY <1>2, <2>1, AscendingGetID
    <2>2. ASSUME UNCHANGED <<pts, at, labels>> PROVE TopInv' /\ KeepsLabels
      BY <1>2, <2>2 DEF TopInv, KeepsLabels, Ascending, Labelled
    <2>3. "R" \in Party /\ "S" \in Party
      BY DEF Party
    <2>4. CASE R_Encrypt \/ R_Unmask \/ R_Reencrypt \/ S_Serve \/ S_Reencrypt \/ S_Encrypt \/ S_Unmask
      BY <2>2, <2>4 DEF R_Encrypt, R_Unmask, R_Reencrypt, S_Serve, S_Reencrypt, S_Encrypt, S_Unmask
    <2>5. CASE UNCHANGED vars
      BY <2>2, <2>5 DEF vars
    <2> QED
      BY <1>2, <2>1, <2>3, <2>4, <2>5 DEF Next, RecvSteps, SendSteps, Terminated
  <1> QED
    BY <1>1, <1>2, FmapInductive, PTL DEF Spec

-----------------------------------------------------------------------------
(* Formal sums. *)

\* The sum of two blocks.
LEMMA SumOfTwo ==
  ASSUME NEW v, NEW w
  PROVE  Xor(v, w) = (v \ w) \cup (w \ v)
  BY DEF Xor

\* A sum of blocks without a common monomial is their union.
LEMMA SumOfDisjoint ==
  ASSUME NEW f, \A i, k \in DOMAIN f : i # k => f[i] \cap f[k] = {}
  PROVE  XorAll(f) = UNION {f[i] : i \in DOMAIN f}
  <1> DEFINE values == {<<i, f[i]>> : i \in DOMAIN f}
             Occ(m) == {v \in values : m \in v[2]}
  <1>1. ASSUME NEW i \in DOMAIN f, NEW m \in f[i] PROVE Cardinality(Occ(m)) = 1
    <2>1. ASSUME NEW v \in Occ(m) PROVE v = <<i, f[i]>>
      <3>1. PICK k \in DOMAIN f : v = <<k, f[k]>>
        BY <2>1
      <3>2. m \in f[k]
        BY <2>1, <3>1
      <3>3. k = i
        BY <1>1, <3>2
      <3> QED BY <3>1, <3>3
    <2>2. <<i, f[i]>> \in Occ(m)
      BY <1>1
    <2> HIDE DEF values
    <2>3. Occ(m) = {<<i, f[i]>>}
      BY <2>1, <2>2
    <2> QED BY <2>3, FS_Singleton
  <1>2. UNION {v[2] : v \in values} = UNION {f[i] : i \in DOMAIN f}
    <2>1. ASSUME NEW v \in values PROVE \E i \in DOMAIN f : v[2] = f[i]
      BY <2>1
    <2>2. ASSUME NEW i \in DOMAIN f PROVE \E v \in values : v[2] = f[i]
      <3>1. <<i, f[i]>> \in values /\ <<i, f[i]>>[2] = f[i]
        BY <2>2
      <3> QED BY <3>1
    <2> HIDE DEF values
    <2> QED BY <2>1, <2>2
  <1>3. XorAll(f) = {m \in UNION {v[2] : v \in values} : Cardinality(Occ(m)) % 2 = 1}
    BY DEF XorAll
  <1>4. \A m \in UNION {f[i] : i \in DOMAIN f} : Cardinality(Occ(m)) % 2 = 1
    BY <1>1
  <1> HIDE DEF values, Occ
  <1> QED
    BY <1>2, <1>3, <1>4

-----------------------------------------------------------------------------
(* The identifiers of getID. *)

\* An identifier holds one label for each dimension at most, and only of the
\* dimensions its point has been through.
IdsInv ==
  \A p \in Party :
    /\ DOMAIN ids[p] = Idx(p)
    /\ \A j \in Idx(p) : \A m \in ids[p][j] :
         \E i \in Dim, l \in Idx(p) : Labelled(p, i, j) /\ m = Term(Label(p, i, l))

\* The labels that the cells of point j carry now.
LabelsOf(p, j, D) == {Term(labels[p][i][Block1(pts[p][j][i])]) : i \in D}

\* In ascending order they are the ones that were added.
CurrentInv ==
  \A p \in Party : Ascending(p) =>
    \A j \in Idx(p) : ids[p][j] = LabelsOf(p, j, {i \in Dim : Labelled(p, i, j)})

\* Labels of two dimensions differ, and so do their monomials.
LEMMA LabelsDiffer ==
  ASSUME NEW p, NEW i, NEW j, NEW q, NEW k, NEW l, Label(p, i, j) = Label(q, k, l)
  PROVE  p = q /\ i = k /\ j = l
  BY DEF Label

LEMMA TermsDiffer ==
  ASSUME NEW s, NEW t, Term(s) = Term(t)
  PROVE  s = t
  <1>1. Term(s).of = s /\ Term(t).of = t
    BY DEF Term
  <1> QED BY <1>1

\* What an iteration of getID does to the identifiers: the label that the
\* cell of the point has afterwards is added, and it was not there.
LEMMA IdsStep ==
  ASSUME IndInv, IdsInv, NEW p \in Party, GetID(p)
  PROVE  LET a == at[p][1]
             b == at[p][2]
             t == Term(labels'[p][a][Block1(pts[p][b][a])])
         IN /\ ids'[p][b] = ids[p][b] \cup {t}
            /\ t \notin ids[p][b]
            /\ \E l \in Idx(p) : t = Term(Label(p, a, l))
            /\ \A q \in Party : /\ DOMAIN ids'[q] = Idx(q)
                                /\ \A j \in Idx(q) : q # p \/ j # b => ids'[q][j] = ids[q][j]
  <1> DEFINE a == at[p][1]
             b == at[p][2]
             x == pts[p][b][a]
             new == Label(p, a, b)
             map == labels[p][a]
             lab == LabelOf(map, x, new)
  <1>1. a \in Dim /\ b \in Idx(p) /\ x \in Nat
    BY LabelledStep, PointTypes DEF IndInv
  <1>2. DOMAIN map \subseteq Nat /\ \A c \in DOMAIN map : \E l \in Idx(p) : map[c] = Label(p, a, l)
    BY <1>1 DEF IndInv, TypeOK
  <1>3. labels'[p][a] = MapAfter(map, x, new)
    BY <1>1 DEF GetID, IndInv, TypeOK
  <1>4. labels'[p][a][Block1(x)] = lab
    <2>1. x \in Nat
      BY <1>1
    <2> HIDE DEF map, x, new
    <2> QED BY <1>2, <1>3, <2>1, OwnBlocksJoined
  <1>5. PICK l \in Idx(p) : lab = Label(p, a, l)
    <2>1. lab = new \/ \E c \in DOMAIN map : lab = map[c]
      BY DEF LabelOf
    <2> QED BY <1>1, <1>2, <2>1
  <1>6. Term(lab) \notin ids[p][b]
    <2> SUFFICES ASSUME Term(lab) \in ids[p][b] PROVE FALSE
      OBVIOUS
    <2>1. PICK i \in Dim, k \in Idx(p) : Labelled(p, i, b) /\ Term(lab) = Term(Label(p, i, k))
      BY <1>1 DEF IdsInv
    <2>2. i = a
      BY <1>5, <2>1, TermsDiffer, LabelsDiffer
    <2> QED BY <2>1, <2>2, LabelledStep
  <1>7. /\ ids'[p][b] = Xor(ids[p][b], Draw(lab))
        /\ \A q \in Party : /\ DOMAIN ids'[q] = Idx(q)
                            /\ \A j \in Idx(q) : q # p \/ j # b => ids'[q][j] = ids[q][j]
    BY <1>1 DEF GetID, IndInv, TypeOK, IdsInv
  <1>8. ids'[p][b] = ids[p][b] \cup {Term(lab)}
    BY <1>6, <1>7, SumOfTwo DEF Draw
  <1> HIDE DEF lab
  <1> QED BY <1>4, <1>5, <1>6, <1>7, <1>8

LEMMA IdsGetID ==
  ASSUME IndInv, IdsInv, TopInv, CurrentInv, NEW p \in Party, GetID(p)
  PROVE  IdsInv' /\ CurrentInv'
  <1> DEFINE a == at[p][1]
             b == at[p][2]
             t == Term(labels'[p][a][Block1(pts[p][b][a])])
             L(q, j) == {i \in Dim : Labelled(q, i, j)}
             M(q, j) == {i \in Dim : Labelled(q, i, j)'}
  <1>1. /\ ids'[p][b] = ids[p][b] \cup {t}
        /\ \E l \in Idx(p) : t = Term(Label(p, a, l))
        /\ \A q \in Party : /\ DOMAIN ids'[q] = Idx(q)
                            /\ \A j \in Idx(q) : q # p \/ j # b => ids'[q][j] = ids[q][j]
    BY IdsStep
  <1>2. a \in Dim /\ b \in Idx(p) /\ pts' = pts
    BY LabelledStep DEF GetID
  <1>l. /\ ~Labelled(p, a, b)
        /\ \A i \in Dim, j \in Idx(p) : Labelled(p, i, j)' <=> Labelled(p, i, j) \/ (i = a /\ j = b)
        /\ \A q \in Party, i \in Dim : \A j \in Idx(q) :
              q # p => (Labelled(q, i, j)' <=> Labelled(q, i, j))
    BY LabelledStep
  <1>s. t \in ids'[p][b] /\ \A m \in ids'[p][b] : m \in ids[p][b] \/ m = t
    BY <1>1
  <1> HIDE DEF a, b, t
  <1>3. /\ \A q \in Party : \A j \in Idx(q) : q # p \/ j # b => M(q, j) = L(q, j)
        /\ \A j \in Idx(p) : j = b => M(p, j) = L(p, j) \cup {a}
    <2>1. ASSUME NEW q \in Party, NEW j \in Idx(q), q # p \/ j # b PROVE M(q, j) = L(q, j)
      <3>1. \A i \in Dim : Labelled(q, i, j)' <=> Labelled(q, i, j)
        BY <1>l, <2>1
      <3> QED BY <3>1
    <2>2. ASSUME NEW j \in Idx(p), j = b PROVE M(p, j) = L(p, j) \cup {a}
      <3>1. \A i \in Dim : Labelled(p, i, j)' <=> Labelled(p, i, j) \/ i = a
        BY <1>l, <2>2
      <3> QED BY <1>2, <3>1
    <2>3. \A j \in Idx(p) : j = b => M(p, j) = L(p, j) \cup {a}
      BY <2>2
    <2> QED BY <2>1, <2>3
  <1>4. IdsInv'
    <2> SUFFICES ASSUME NEW q \in Party, NEW j \in Idx(q), NEW m \in ids'[q][j]
                 PROVE  \E i \in Dim, l \in Idx(q) : Labelled(q, i, j)' /\ m = Term(Label(q, i, l))
      BY <1>1 DEF IdsInv
    <2>1. CASE m \in ids[q][j]
      <3>1. PICK i \in Dim, l \in Idx(q) : Labelled(q, i, j) /\ m = Term(Label(q, i, l))
        BY <2>1 DEF IdsInv
      <3>2. Labelled(q, i, j)'
        BY <1>l, <3>1
      <3> QED BY <3>1, <3>2
    <2>2. CASE m \notin ids[q][j]
      <3>1. q = p /\ j = b /\ m = t
        BY <1>1, <1>s, <2>2
      <3>2. \A i \in Dim : i = a => Labelled(q, i, j)'
        BY <1>2, <1>l, <3>1
      <3> QED BY <1>1, <1>2, <3>1, <3>2
    <2> QED BY <2>1, <2>2
  <1>5. CurrentInv'
    <2> SUFFICES ASSUME NEW q \in Party, Ascending(q), NEW j \in Idx(q)
                 PROVE  ids'[q][j] = {Term(labels'[q][i][Block1(pts[q][j][i])]) : i \in M(q, j)}
      BY <1>2 DEF CurrentInv, LabelsOf, Ascending
    <2>1. ids[q][j] = {Term(labels[q][i][Block1(pts[q][j][i])]) : i \in L(q, j)}
      BY DEF CurrentInv, LabelsOf
    <2>2. \A i \in L(q, j) : labels'[q][i][Block1(pts[q][j][i])] = labels[q][i][Block1(pts[q][j][i])]
      <3> SUFFICES ASSUME NEW i \in Dim, Labelled(q, i, j)
                   PROVE  labels'[q][i][Block1(pts[q][j][i])] = labels[q][i][Block1(pts[q][j][i])]
        OBVIOUS
      <3>1. Block1(pts[q][j][i]) \in DOMAIN labels[q][i]
        BY DEF IndInv, PairInv, Joined
      <3> QED BY <3>1, AscendingGetID DEF KeepsLabels
    <2>3. ids[q][j] = {Term(labels'[q][i][Block1(pts[q][j][i])]) : i \in L(q, j)}
      BY <2>1, <2>2
    <2>4. CASE q = p /\ j = b
      <3> DEFINE F(i) == Term(labels'[q][i][Block1(pts[q][j][i])])
      <3>1. F(a) = t
        BY <2>4 DEF a, b, t
      <3>2. {F(i) : i \in L(q, j) \cup {a}} = {F(i) : i \in L(q, j)} \cup {F(a)}
        OBVIOUS
      <3> HIDE DEF L, M, F
      <3>3. M(q, j) = L(q, j) \cup {a} /\ ids'[q][j] = ids[q][j] \cup {t}
        BY <1>1, <1>3, <2>4
      <3> QED BY <2>3, <3>1, <3>2, <3>3 DEF F
    <2>5. CASE q # p \/ j # b
      <3> HIDE DEF L, M
      <3> QED BY <1>1, <1>3, <2>3, <2>5
    <2> QED BY <2>4, <2>5
  <1> QED BY <1>4, <1>5

\* The identifiers follow the labels.
THEOREM FmapIds == Spec => [](IdsInv /\ TopInv /\ CurrentInv)
  <1>1. Init => IdsInv /\ TopInv /\ CurrentInv
    <2> SUFFICES ASSUME Init PROVE IdsInv /\ TopInv /\ CurrentInv
      OBVIOUS
    <2>1. \A p \in Party : \A i \in Dim, j \in Idx(p) : ~Labelled(p, i, j)
      BY DEF Init, Labelled, Idx, Dim
    <2>2. \A p \in Party : ids[p] = [j \in Idx(p) |-> {}]
      BY DEF Init
    <2>3. IdsInv /\ CurrentInv
      BY <2>1, <2>2 DEF IdsInv, CurrentInv, LabelsOf
    <2> QED BY <2>3 DEF Init, TopInv
  <1>2. ASSUME IndInv, IdsInv, TopInv, CurrentInv, [Next]_vars PROVE IdsInv' /\ TopInv' /\ CurrentInv'
    <2>1. ASSUME NEW p \in Party, GetID(p) PROVE IdsInv' /\ TopInv' /\ CurrentInv'
      BY <1>2, <2>1, AscendingGetID, IdsGetID
    <2>2. ASSUME UNCHANGED <<pts, at, labels, ids>> PROVE IdsInv' /\ TopInv' /\ CurrentInv'
      BY <1>2, <2>2 DEF IdsInv, TopInv, CurrentInv, LabelsOf, Ascending, Labelled
    <2>3. "R" \in Party /\ "S" \in Party
      BY DEF Party
    <2>4. CASE R_Encrypt \/ R_Unmask \/ R_Reencrypt \/ S_Serve \/ S_Reencrypt \/ S_Encrypt \/ S_Unmask
      BY <2>2, <2>4 DEF R_Encrypt, R_Unmask, R_Reencrypt, S_Serve, S_Reencrypt, S_Encrypt, S_Unmask
    <2>5. CASE UNCHANGED vars
      BY <2>2, <2>5 DEF vars
    <2> QED
      BY <1>2, <2>1, <2>3, <2>4, <2>5 DEF Next, RecvSteps, SendSteps, Terminated
  <1> QED
    BY <1>1, <1>2, FmapInductive, PTL DEF Spec

\* The sum over the dimensions in Current is the set of the labels.
LEMMA CurrentIsLabels ==
  ASSUME IndInv, NEW p \in Party, NEW j \in Idx(p), \A i \in Dim : Labelled(p, i, j)
  PROVE  Current(p, j) <=> ids[p][j] = LabelsOf(p, j, Dim)
  <1> DEFINE f == [i \in Dim |-> Draw(labels[p][i][Block1(pts[p][j][i])])]
  <1>1. ASSUME NEW i \in Dim PROVE \E l \in Idx(p) : labels[p][i][Block1(pts[p][j][i])] = Label(p, i, l)
    <2>1. Block1(pts[p][j][i]) \in DOMAIN labels[p][i]
      BY DEF IndInv, PairInv, Joined
    <2> QED BY <2>1 DEF IndInv, TypeOK
  <1>2. ASSUME NEW i \in Dim, NEW k \in Dim, i # k PROVE f[i] \cap f[k] = {}
    <2>1. labels[p][i][Block1(pts[p][j][i])] # labels[p][k][Block1(pts[p][j][k])]
      BY <1>1, <1>2, LabelsDiffer
    <2> QED BY <2>1, TermsDiffer DEF Draw
  <1>3. DOMAIN f = Dim
    OBVIOUS
  <1>4. UNION {f[i] : i \in Dim} = LabelsOf(p, j, Dim)
    BY DEF LabelsOf, Draw
  <1> HIDE DEF f
  <1>5. XorAll(f) = UNION {f[i] : i \in Dim}
    BY <1>2, <1>3, SumOfDisjoint
  <1> QED BY <1>4, <1>5 DEF Current, f

\* Every point has been through every dimension once getID has returned.
LEMMA AllLabelled ==
  ASSUME IndInv, NEW p \in Party, pc[p] # "getID", NEW i \in Dim, NEW j \in Idx(p)
  PROVE  Labelled(p, i, j)
  <1>1. at[p][1] = DIM
    <2>1. at[p][1] \in 0 .. DIM
      BY DEF IndInv, TypeOK
    <2>2. ~(at[p][1] < DIM)
      BY DEF IndInv, LoopInv
    <2> QED BY <2>1, <2>2, LoopBounds
  <1> QED BY <1>1, LoopBounds DEF Labelled, Dim

\* Without a merge no identifier goes out of date.
THEOREM FmapStaysCurrent == Spec => []AscendingStaysCurrent
  <1>1. ASSUME IndInv, CurrentInv PROVE AscendingStaysCurrent
    <2> SUFFICES ASSUME NEW p \in Party, pc[p] # "getID", Ascending(p), NEW j \in Idx(p)
                 PROVE  Current(p, j)
      BY DEF AscendingStaysCurrent
    <2>1. \A i \in Dim : Labelled(p, i, j)
      BY <1>1, AllLabelled
    <2>2. {i \in Dim : Labelled(p, i, j)} = Dim
      BY <2>1
    <2>3. ids[p][j] = LabelsOf(p, j, Dim)
      BY <1>1, <2>2 DEF CurrentInv
    <2> QED BY <1>1, <2>1, <2>3, CurrentIsLabels
  <1> QED
    BY <1>1, FmapIds, FmapInductive, PTL

-----------------------------------------------------------------------------
(* Products. *)

\* The draws of D, each multiplied by the scalars of B.
Lift(B, D) == {[by |-> B, of |-> t] : t \in D}

LEMMA LiftMember ==
  ASSUME NEW B, NEW D
  PROVE  /\ \A C, t : [by |-> C, of |-> t] \in Lift(B, D) <=> C = B /\ t \in D
         /\ \A m \in Lift(B, D) : m.by = B /\ m.of \in D /\ m = [by |-> B, of |-> m.of]
         /\ \A t : Draw(t) = Lift({}, {t}) /\ Term(t).by = {} /\ Term(t).of = t
  <1>1. ASSUME NEW C, NEW t, [by |-> C, of |-> t] \in Lift(B, D) PROVE C = B /\ t \in D
    <2>1. PICK s \in D : [by |-> C, of |-> t] = [by |-> B, of |-> s]
      BY <1>1 DEF Lift
    <2>2. [by |-> C, of |-> t].by = [by |-> B, of |-> s].by /\ [by |-> C, of |-> t].of = [by |-> B, of |-> s].of
      BY <2>1
    <2> QED BY <2>2
  <1>2. \A t \in D : [by |-> B, of |-> t] \in Lift(B, D)
    BY DEF Lift
  <1>3. \A m \in Lift(B, D) : m.by = B /\ m.of \in D /\ m = [by |-> B, of |-> m.of]
    BY DEF Lift
  <1>4. \A t : Draw(t) = Lift({}, {t}) /\ Term(t).by = {} /\ Term(t).of = t
    BY DEF Lift, Draw, Term
  <1> QED BY <1>1, <1>2, <1>3, <1>4

LEMMA LiftSum ==
  ASSUME NEW B, NEW D, NEW E
  PROVE  Xor(Lift(B, D), Lift(B, E)) = Lift(B, Xor(D, E))
  <1>1. \A m : m \in Lift(B, D) \ Lift(B, E) <=> m \in Lift(B, D \ E)
    BY DEF Lift
  <1>2. \A m : m \in Lift(B, E) \ Lift(B, D) <=> m \in Lift(B, E \ D)
    BY DEF Lift
  <1>3. Lift(B, (D \ E) \cup (E \ D)) = Lift(B, D \ E) \cup Lift(B, E \ D)
    BY DEF Lift
  <1> QED BY <1>1, <1>2, <1>3, SumOfTwo

LEMMA TwoSides ==
  ASSUME NEW p \in Party
  PROVE  /\ Other(p) \in Party /\ Other(p) # p /\ Other(Other(p)) = p
         /\ Party = {p, Other(p)} /\ Party = {"R", "S"}
  BY DEF Party, Other

\* Multiplying draws without a mask of the other party.
LEMMA MulPlain ==
  ASSUME NEW q, NEW B, NEW D, \A t \in D : ~(t[1] = "mask" /\ t[2] = Other(q))
  PROVE  Mul(q, Lift(B, D)) = Lift(B \cup {q}, D)
  <1> DEFINE v == Lift(B, D)
             f == [m \in v |->
                     IF m.of[1] = "mask" /\ m.of[2] = Other(q)
                     THEN {[by |-> m.by, of |-> s.of] : s \in VoleProduct(m.of[2], m.of[3])}
                     ELSE {[by |-> m.by \cup {q}, of |-> m.of]}]
  <1>1. ASSUME NEW m \in v PROVE f[m] = {[by |-> B \cup {q}, of |-> m.of]}
    <2>1. m.by = B /\ m.of \in D
      BY <1>1, LiftMember
    <2> QED BY <2>1
  <1>2. DOMAIN f = v
    OBVIOUS
  <1>3. Mul(q, v) = XorAll(f)
    BY DEF Mul
  <1> HIDE DEF f
  <1>4. ASSUME NEW m \in v, NEW n \in v, m # n PROVE f[m] \cap f[n] = {}
    <2>1. m.of # n.of
      BY <1>4, LiftMember
    <2>2. [by |-> B \cup {q}, of |-> m.of] # [by |-> B \cup {q}, of |-> n.of]
      <3>1. [by |-> B \cup {q}, of |-> m.of].of = m.of /\ [by |-> B \cup {q}, of |-> n.of].of = n.of
        OBVIOUS
      <3> QED BY <2>1, <3>1
    <2> QED BY <1>1, <2>2
  <1>5. XorAll(f) = UNION {f[m] : m \in v}
    BY <1>2, <1>4, SumOfDisjoint
  <1>6. UNION {f[m] : m \in v} = {[by |-> B \cup {q}, of |-> m.of] : m \in v}
    BY <1>1
  <1>7. {[by |-> B \cup {q}, of |-> m.of] : m \in v} = Lift(B \cup {q}, D)
    <2>1. \A m \in v : m.of \in D
      BY LiftMember
    <2>2. ASSUME NEW t \in D PROVE \E m \in v : m.of = t
      <3>1. [by |-> B, of |-> t] \in v /\ [by |-> B, of |-> t].of = t
        BY LiftMember
      <3> QED BY <3>1
    <2> HIDE DEF v
    <2> QED BY <2>1, <2>2 DEF Lift
  <1> QED BY <1>3, <1>5, <1>6, <1>7

\* With one mask of the other party: its VOLE instance replaces the product
\* by the two shares.
LEMMA MulMasked ==
  ASSUME NEW q \in Party, NEW B, NEW D, NEW n,
         \A t \in D : ~(t[1] = "mask" /\ t[2] = Other(q))
  PROVE  Mul(q, Lift(B, D) \cup {Term(Mask(Other(q), n))})
           = Lift(B \cup {q}, D) \cup VoleProduct(Other(q), n)
  <1> DEFINE v == Lift(B, D)
             k == Term(Mask(Other(q), n))
             w == v \cup {k}
             f == [m \in w |->
                     IF m.of[1] = "mask" /\ m.of[2] = Other(q)
                     THEN {[by |-> m.by, of |-> s.of] : s \in VoleProduct(m.of[2], m.of[3])}
                     ELSE {[by |-> m.by \cup {q}, of |-> m.of]}]
  <1>1. ASSUME NEW m \in v PROVE f[m] = {[by |-> B \cup {q}, of |-> m.of]} /\ m # k
    <2>1. m.by = B /\ m.of \in D
      BY <1>1, LiftMember
    <2>2. k.of[1] = "mask" /\ k.of[2] = Other(q)
      BY DEF Term, Mask
    <2> QED BY <2>1, <2>2
  <1>2. f[k] = VoleProduct(Other(q), n)
    <2>1. k.by = {} /\ k.of[1] = "mask" /\ k.of[2] = Other(q) /\ k.of[3] = n
      BY DEF Term, Mask
    <2>2. f[k] = {[by |-> {}, of |-> s.of] : s \in VoleProduct(Other(q), n)}
      BY <2>1
    <2>3. \A s \in VoleProduct(Other(q), n) : [by |-> {}, of |-> s.of] = s
      BY DEF VoleProduct, Draw, Term
    <2> QED BY <2>2, <2>3
  <1>3. DOMAIN f = w
    OBVIOUS
  <1>4. Mul(q, w) = XorAll(f)
    BY DEF Mul
  <1> HIDE DEF f
  <1>5. ASSUME NEW m \in v, NEW l \in v, m # l PROVE f[m] \cap f[l] = {}
    <2>1. m.of # l.of
      BY <1>5, LiftMember
    <2>2. [by |-> B \cup {q}, of |-> m.of] # [by |-> B \cup {q}, of |-> l.of]
      <3>1. [by |-> B \cup {q}, of |-> m.of].of = m.of /\ [by |-> B \cup {q}, of |-> l.of].of = l.of
        OBVIOUS
      <3> QED BY <2>1, <3>1
    <2>3. f[m] = {[by |-> B \cup {q}, of |-> m.of]} /\ f[l] = {[by |-> B \cup {q}, of |-> l.of]}
      BY <1>1, <1>5
    <2> QED BY <2>2, <2>3
  <1>6. ASSUME NEW m \in v PROVE f[m] \cap f[k] = {}
    <2>1. \A s \in VoleProduct(Other(q), n) : s.by = {}
      BY DEF VoleProduct, Draw, Term
    <2>2. [by |-> B \cup {q}, of |-> m.of].by = B \cup {q}
      OBVIOUS
    <2>3. [by |-> B \cup {q}, of |-> m.of] \notin VoleProduct(Other(q), n)
      BY <2>1, <2>2
    <2> QED BY <1>1, <1>2, <1>6, <2>3
  <1>7. \A m, l \in w : m # l => f[m] \cap f[l] = {}
    BY <1>5, <1>6
  <1>8. XorAll(f) = UNION {f[m] : m \in w}
    BY <1>3, <1>7, SumOfDisjoint
  <1>9. UNION {f[m] : m \in w} = {[by |-> B \cup {q}, of |-> m.of] : m \in v} \cup VoleProduct(Other(q), n)
    <2>1. UNION {f[m] : m \in w} = (UNION {f[m] : m \in v}) \cup f[k]
      OBVIOUS
    <2>2. UNION {f[m] : m \in v} = {[by |-> B \cup {q}, of |-> m.of] : m \in v}
      BY <1>1
    <2> QED BY <1>2, <2>1, <2>2
  <1>10. {[by |-> B \cup {q}, of |-> m.of] : m \in v} = Lift(B \cup {q}, D)
    <2>1. \A m \in v : m.of \in D
      BY LiftMember
    <2>2. ASSUME NEW t \in D PROVE \E m \in v : m.of = t
      <3>1. [by |-> B, of |-> t] \in v /\ [by |-> B, of |-> t].of = t
        BY LiftMember
      <3> QED BY <3>1
    <2> HIDE DEF v
    <2> QED BY <2>1, <2>2 DEF Lift
  <1> QED BY <1>4, <1>8, <1>9, <1>10

-----------------------------------------------------------------------------
(* The two rounds of fuzzyMap. *)

Blk(p, i, j) == computeBlock(pts[p][j][i])

\* What party p decodes in dimension i for its point j, without the PRF
\* value: the label of the cell, or noise.
Decoded(p, i, j) ==
  LET q == Other(p)
      c == Blk(p, i, j)
  IN IF c \in DOMAIN labels[q][i] THEN {labels[q][i][c]} ELSE {Noise(q, i, c), PrfOf(q, i, c)}

\* The draws of an identifier, and of the result of point j once all masks
\* and PRF values have cancelled.
Own(p, j) == {m.of : m \in ids[p][j]}
Plain(p, j) == Xor(UNION {Decoded(p, i, j) : i \in Dim}, Own(p, j))

\* Draws are told apart by their kind, their party and their indices.
LEMMA DrawsDiffer ==
  \A p, q, i, k, c, d :
    /\ Label(p, i, c) = <<"label", p, i, c>> /\ PrfOf(p, i, c) = <<"prf", p, i, c>>
    /\ Noise(p, i, c) = <<"okvs", p, i, c>> /\ OprfShare(p, i, c) = <<"oprf", p, i, c>>
    /\ Label(p, i, c)[1] = "label" /\ PrfOf(p, i, c)[1] = "prf" /\ Noise(p, i, c)[1] = "okvs"
    /\ OprfShare(p, i, c)[1] = "oprf"
    /\ Label(p, i, c)[2] = p /\ PrfOf(p, i, c)[2] = p /\ Noise(p, i, c)[2] = p
    /\ Label(p, i, c)[3] = i /\ PrfOf(p, i, c)[3] = i /\ Noise(p, i, c)[3] = i
    /\ OprfShare(p, i, c)[3] = i
  BY DEF Label, PrfOf, Noise, OprfShare

\* The masked sums.
LEMMA Sums ==
  ASSUME NEW p \in Party, NEW j \in Idx(p)
  PROVE  ShareSum(p)[j] = Lift({}, {OprfShare(Other(p), i, j) : i \in Dim})
                            \cup {Term(Mask(Other(p), Vole(p, j)))}
  <1> DEFINE q == Other(p)
             f == [i \in Dim |-> Draw(OprfShare(q, i, j))]
             O == {OprfShare(q, i, j) : i \in Dim}
             k == Term(Mask(q, Vole(p, j)))
  <1>1. DOMAIN f = Dim /\ \A i \in Dim : f[i] = {Term(OprfShare(q, i, j))}
    BY DEF Draw
  <1>2. ASSUME NEW i \in Dim, NEW l \in Dim, i # l PROVE f[i] \cap f[l] = {}
    <2>1. OprfShare(q, i, j) # OprfShare(q, l, j)
      BY <1>2, DrawsDiffer
    <2> QED BY <1>1, <2>1, TermsDiffer
  <1>3. ShareSum(p)[j] = Xor(XorAll(f), {k})
    BY DEF ShareSum, Draw
  <1>4. Lift({}, O) = UNION {f[i] : i \in Dim}
    BY DEF Lift, Draw, Term
  <1> HIDE DEF f
  <1>5. XorAll(f) = Lift({}, O)
    <2>1. DOMAIN f = Dim
      BY <1>1
    <2>2. XorAll(f) = UNION {f[i] : i \in Dim}
      BY <1>2, <2>1, SumOfDisjoint
    <2> QED BY <1>4, <2>2
  <1>6. k \notin Lift({}, O)
    <2>1. \A t \in O : t[1] = "oprf"
      BY DrawsDiffer
    <2>2. k.of[1] = "mask"
      BY DEF Term, Mask
    <2> QED BY <2>1, <2>2, LiftMember
  <1> HIDE DEF k, O
  <1>7. Xor(Lift({}, O), {k}) = Lift({}, O) \cup {k}
    BY <1>6, SumOfTwo
  <1> QED BY <1>3, <1>5, <1>7 DEF k, O

\* Each party's own shares of the OPRF, multiplied and added up.
LEMMA OwnShares ==
  ASSUME NEW p \in Party, NEW j \in Idx(p)
  PROVE  XorAll([i \in Dim |-> Mul(p, Xor(Draw(OprfShare(Other(p), i, j)),
                                         Draw(PrfOf(Other(p), i, Blk(p, i, j)))))])
           = Lift({p}, {OprfShare(Other(p), i, j) : i \in Dim}
                         \cup {PrfOf(Other(p), i, Blk(p, i, j)) : i \in Dim})
  <1> DEFINE q == Other(p)
             F(i) == OprfShare(q, i, j)
             P(i) == PrfOf(q, i, Blk(p, i, j))
             f == [i \in Dim |-> Mul(p, Xor(Draw(F(i)), Draw(P(i))))]
  <1>1. ASSUME NEW i \in Dim PROVE f[i] = Lift({p}, {F(i), P(i)})
    <2>1. F(i)[1] = "oprf" /\ P(i)[1] = "prf"
      BY DrawsDiffer
    <2> HIDE DEF F, P
    <2>2. Xor(Draw(F(i)), Draw(P(i))) = Lift({}, Xor({F(i)}, {P(i)}))
      BY LiftMember, LiftSum
    <2>3. Xor({F(i)}, {P(i)}) = {F(i), P(i)}
      BY <2>1, SumOfTwo
    <2>4. \A t \in {F(i), P(i)} : ~(t[1] = "mask" /\ t[2] = Other(p))
      BY <2>1
    <2>5. Mul(p, Lift({}, {F(i), P(i)})) = Lift({} \cup {p}, {F(i), P(i)})
      BY <2>4, MulPlain
    <2>6. {} \cup {p} = {p}
      OBVIOUS
    <2> QED BY <2>2, <2>3, <2>5, <2>6
  <1>2. DOMAIN f = Dim
    OBVIOUS
  <1>3. \A i \in Dim : F(i)[1] = "oprf" /\ P(i)[1] = "prf" /\ F(i)[3] = i /\ P(i)[3] = i
    BY DrawsDiffer
  <1> HIDE DEF f, F, P
  <1>4. ASSUME NEW i \in Dim, NEW l \in Dim, i # l PROVE f[i] \cap f[l] = {}
    <2>1. {F(i), P(i)} \cap {F(l), P(l)} = {}
      BY <1>3, <1>4
    <2>2. \A m \in Lift({p}, {F(i), P(i)}) : m.of \in {F(i), P(i)}
      BY LiftMember
    <2>3. \A m \in Lift({p}, {F(l), P(l)}) : m.of \in {F(l), P(l)}
      BY LiftMember
    <2>4. f[i] = Lift({p}, {F(i), P(i)}) /\ f[l] = Lift({p}, {F(l), P(l)})
      BY <1>1
    <2> QED BY <2>1, <2>2, <2>3, <2>4
  <1>5. XorAll(f) = UNION {f[i] : i \in Dim}
    BY <1>2, <1>4, SumOfDisjoint
  <1>6. UNION {f[i] : i \in Dim} = UNION {Lift({p}, {F(i), P(i)}) : i \in Dim}
    BY <1>1
  <1>7. UNION {Lift({p}, {F(i), P(i)}) : i \in Dim} = Lift({p}, {F(i) : i \in Dim} \cup {P(i) : i \in Dim})
    BY DEF Lift
  <1> QED BY <1>5, <1>6, <1>7 DEF f, F, P

\* The decoded labels still with their PRF values.
Masked(p, i, j) ==
  LET q == Other(p)
      c == Blk(p, i, j)
  IN IF c \in DOMAIN labels[q][i] THEN {labels[q][i][c], PrfOf(q, i, c)} ELSE {Noise(q, i, c)}

\* A label, a PRF value or noise of party q in dimension i.
DrawOf(t, q, i) == t[1] \in {"label", "prf", "okvs"} /\ t[2] = q /\ t[3] = i

\* What can be in them: draws of the other party and of the dimension.
LEMMA DecodedDraws ==
  ASSUME IndInv, NEW p \in Party, NEW j \in Idx(p), NEW i \in Dim
  PROVE  /\ \A t \in Masked(p, i, j) : DrawOf(t, Other(p), i)
         /\ \A t \in Decoded(p, i, j) : DrawOf(t, Other(p), i)
         /\ Xor(Masked(p, i, j), {PrfOf(Other(p), i, Blk(p, i, j))}) = Decoded(p, i, j)
  <1> DEFINE q == Other(p)
             c == Blk(p, i, j)
             F == PrfOf(q, i, c)
             Z == Noise(q, i, c)
             l == labels[q][i][c]
  <1>1. F[1] = "prf" /\ F[2] = q /\ F[3] = i /\ Z[1] = "okvs" /\ Z[2] = q /\ Z[3] = i
    BY DrawsDiffer
  <1>2. c \in DOMAIN labels[q][i] => l[1] = "label" /\ l[2] = q /\ l[3] = i
    <2>1. c \in DOMAIN labels[q][i] => \E k \in Idx(q) : l = Label(q, i, k)
      BY TwoSides DEF IndInv, TypeOK
    <2> QED BY <2>1, DrawsDiffer
  <1>3. /\ Masked(p, i, j) = IF c \in DOMAIN labels[q][i] THEN {l, F} ELSE {Z}
        /\ Decoded(p, i, j) = IF c \in DOMAIN labels[q][i] THEN {l} ELSE {Z, F}
    BY DEF Masked, Decoded
  <1> HIDE DEF F, Z, l, c, q
  <1>4. /\ c \in DOMAIN labels[q][i] => Xor({l, F}, {F}) = {l}
        /\ Xor({Z}, {F}) = {Z, F}
    BY <1>1, <1>2, SumOfTwo
  <1>5. /\ \A t \in Masked(p, i, j) : DrawOf(t, q, i)
        /\ \A t \in Decoded(p, i, j) : DrawOf(t, q, i)
    BY <1>1, <1>2, <1>3 DEF DrawOf
  <1>6. Xor(Masked(p, i, j), {F}) = Decoded(p, i, j)
    BY <1>3, <1>4
  <1> QED BY <1>5, <1>6 DEF F, c, q

\* The labels party p decodes for point j, added up.
LEMMA DecodedSum ==
  ASSUME IndInv, NEW p \in Party, NEW j \in Idx(p)
  PROVE  XorAll([i \in Dim |-> Decode(Other(p), Okvs(Other(p)), i, Blk(p, i, j))])
           = Lift({}, UNION {Masked(p, i, j) : i \in Dim})
  <1> DEFINE q == Other(p)
             f == [i \in Dim |-> Decode(q, Okvs(q), i, Blk(p, i, j))]
             M(i) == Masked(p, i, j)
  <1>1. ASSUME NEW i \in Dim PROVE f[i] = Lift({}, M(i))
    <2> DEFINE c == Blk(p, i, j)
               l == labels[q][i][c]
               F == PrfOf(q, i, c)
    <2>1. DOMAIN Okvs(q)[i] = DOMAIN labels[q][i]
      BY DEF Okvs
    <2>2. c \in DOMAIN labels[q][i] => Okvs(q)[i][c] = Xor(Draw(l), Draw(F))
      BY DEF Okvs
    <2>3. f[i] = IF c \in DOMAIN labels[q][i] THEN Xor(Draw(l), Draw(F)) ELSE Draw(Noise(q, i, c))
      BY <2>1, <2>2 DEF Decode
    <2>4. c \in DOMAIN labels[q][i] => l # F
      <3>1. c \in DOMAIN labels[q][i] => \E k \in Idx(q) : l = Label(q, i, k)
        BY TwoSides DEF IndInv, TypeOK
      <3> QED BY <3>1, DrawsDiffer
    <2>5. M(i) = IF c \in DOMAIN labels[q][i] THEN {l, F} ELSE {Noise(q, i, c)}
      BY DEF Masked
    <2> HIDE DEF c, l, F, M, f, q
    <2>6. c \in DOMAIN labels[q][i] => Xor({l}, {F}) = {l, F}
      BY <2>4, SumOfTwo
    <2>7. Xor(Draw(l), Draw(F)) = Lift({}, Xor({l}, {F}))
      BY LiftMember, LiftSum
    <2>8. Draw(Noise(q, i, c)) = Lift({}, {Noise(q, i, c)})
      BY LiftMember
    <2> QED BY <2>3, <2>5, <2>6, <2>7, <2>8
  <1>2. DOMAIN f = Dim
    OBVIOUS
  <1>3. ASSUME NEW i \in Dim, NEW t \in M(i) PROVE t[3] = i
    <2>1. t \in Masked(p, i, j)
      BY <1>3
    <2>2. DrawOf(t, Other(p), i)
      BY <2>1, DecodedDraws
    <2> QED BY <2>2 DEF DrawOf
  <1> HIDE DEF f, M
  <1>4. ASSUME NEW i \in Dim, NEW l \in Dim, i # l PROVE f[i] \cap f[l] = {}
    <2>1. M(i) \cap M(l) = {}
      BY <1>3, <1>4
    <2>2. \A m \in Lift({}, M(i)) : m.of \in M(i)
      BY LiftMember
    <2>3. \A m \in Lift({}, M(l)) : m.of \in M(l)
      BY LiftMember
    <2>4. f[i] = Lift({}, M(i)) /\ f[l] = Lift({}, M(l))
      BY <1>1
    <2> QED BY <2>1, <2>2, <2>3, <2>4
  <1>5. XorAll(f) = UNION {f[i] : i \in Dim}
    BY <1>2, <1>4, SumOfDisjoint
  <1>6. UNION {f[i] : i \in Dim} = UNION {Lift({}, M(i)) : i \in Dim}
    BY <1>1
  <1>7. UNION {Lift({}, M(i)) : i \in Dim} = Lift({}, UNION {M(i) : i \in Dim})
    BY DEF Lift
  <1> QED BY <1>5, <1>6, <1>7 DEF f, M

\* An identifier is a set of labels of its party.
LEMMA OwnDraws ==
  ASSUME IdsInv, NEW p \in Party, NEW j \in Idx(p)
  PROVE  /\ ids[p][j] = Lift({}, Own(p, j))
         /\ \A t \in Own(p, j) : t[1] = "label" /\ t[2] = p
  <1>1. ASSUME NEW m \in ids[p][j] PROVE m = [by |-> {}, of |-> m.of] /\ m.of[1] = "label" /\ m.of[2] = p
    <2>1. PICK i \in Dim, l \in Idx(p) : m = Term(Label(p, i, l))
      BY <1>1 DEF IdsInv
    <2>2. m = [by |-> {}, of |-> Label(p, i, l)]
      BY <2>1 DEF Term
    <2> QED BY <2>2, DrawsDiffer
  <1>2. \A t \in Own(p, j) : t[1] = "label" /\ t[2] = p
    BY <1>1 DEF Own
  <1>3. \A m \in ids[p][j] : m.of \in Own(p, j)
    BY DEF Own
  <1>4. \A m \in ids[p][j] : m \in Lift({}, Own(p, j))
    BY <1>1, <1>3 DEF Lift
  <1>5. ASSUME NEW m \in Lift({}, Own(p, j)) PROVE m \in ids[p][j]
    <2>1. m = [by |-> {}, of |-> m.of] /\ m.of \in Own(p, j)
      BY <1>5, LiftMember
    <2>2. PICK l \in ids[p][j] : m.of = l.of
      BY <2>1 DEF Own
    <2>3. l = [by |-> {}, of |-> l.of]
      BY <1>1
    <2> QED BY <2>1, <2>2, <2>3
  <1>6. ids[p][j] = Lift({}, Own(p, j))
    BY <1>4, <1>5
  <1> QED BY <1>2, <1>6

\* Taking off the PRF values leaves the plain result.
LEMMA PlainSum ==
  ASSUME IndInv, IdsInv, NEW p \in Party, NEW j \in Idx(p)
  PROVE  Xor(Xor(UNION {Masked(p, i, j) : i \in Dim}, Own(p, j)),
             {PrfOf(Other(p), i, Blk(p, i, j)) : i \in Dim}) = Plain(p, j)
  <1> DEFINE F(i) == PrfOf(Other(p), i, Blk(p, i, j))
             M(i) == Masked(p, i, j)
             E(i) == Decoded(p, i, j)
             UM == UNION {M(i) : i \in Dim}
             UE == UNION {E(i) : i \in Dim}
             UF == {F(i) : i \in Dim}
             W == Own(p, j)
  <1>1. \A i \in Dim : Xor(M(i), {F(i)}) = E(i)
    BY DecodedDraws
  <1>d. ASSUME NEW i \in Dim PROVE (\A t \in M(i) : t[3] = i) /\ (\A t \in E(i) : t[3] = i) /\ F(i)[3] = i
    <2>1. (\A t \in M(i) : DrawOf(t, Other(p), i)) /\ (\A t \in E(i) : DrawOf(t, Other(p), i))
      BY DecodedDraws
    <2>2. F(i)[3] = i
      BY DrawsDiffer
    <2> QED BY <2>1, <2>2 DEF DrawOf
  <1> HIDE DEF F, M, E
  <1>2. \A i \in Dim : \A t : t \in E(i) <=> (t \in M(i) /\ t # F(i)) \/ (t \notin M(i) /\ t = F(i))
    BY <1>1, SumOfTwo
  <1>3. \A t : t \in UE <=> (t \in UM /\ t \notin UF) \/ (t \notin UM /\ t \in UF)
    <2> SUFFICES ASSUME NEW t
                 PROVE  t \in UE <=> (t \in UM /\ t \notin UF) \/ (t \notin UM /\ t \in UF)
      OBVIOUS
    <2>1. CASE t[3] \in Dim
      <3> DEFINE i == t[3]
      <3>1. t \in UE <=> t \in E(i)
        BY <1>d, <2>1
      <3>2. t \in UM <=> t \in M(i)
        BY <1>d, <2>1
      <3>3. t \in UF <=> t = F(i)
        BY <1>d, <2>1
      <3> HIDE DEF i, UE, UM, UF
      <3> QED BY <1>2, <2>1, <3>1, <3>2, <3>3 DEF i
    <2>2. CASE t[3] \notin Dim
      <3>1. t \notin UE /\ t \notin UM /\ t \notin UF
        BY <1>d, <2>2
      <3> QED BY <3>1
    <2> QED BY <2>1, <2>2
  <1> HIDE DEF UM, UE, UF, W
  <1>4. Xor(Xor(UM, W), UF) = Xor(UE, W)
    BY <1>3, SumOfTwo
  <1> QED BY <1>4 DEF UM, UE, UF, W, M, E, F, Plain

\* The masks of one point are apart from each other and from any product.
LEMMA MasksDiffer ==
  ASSUME NEW p \in Party, NEW n, NEW D
  PROVE  LET q == Other(p)
         IN /\ VoleProduct(q, n) = {Term(MaskShare(q, p, n)), Term(MaskShare(q, q, n))}
            /\ Term(MaskShare(q, p, n)) # Term(MaskShare(q, q, n))
            /\ Term(Mask(p, n)) # Term(MaskShare(q, p, n)) /\ Term(Mask(p, n)) # Term(MaskShare(q, q, n))
            /\ \A B : B # {} => /\ Term(Mask(p, n)) \notin Lift(B, D)
                                /\ Term(MaskShare(q, p, n)) \notin Lift(B, D)
                                /\ Term(MaskShare(q, q, n)) \notin Lift(B, D)
  <1> DEFINE q == Other(p)
             kp == Term(MaskShare(q, p, n))
             kq == Term(MaskShare(q, q, n))
             mk == Term(Mask(p, n))
  <1>1. kp.by = {} /\ kq.by = {} /\ mk.by = {}
    BY DEF Term
  <1>2. kp.of[3] = p /\ kq.of[3] = q /\ kp.of[1] = "share" /\ kq.of[1] = "share" /\ mk.of[1] = "mask"
    BY DEF Term, MaskShare, Mask
  <1>3. kp # kq /\ mk # kp /\ mk # kq
    BY <1>2, TwoSides
  <1>4. VoleProduct(q, n) = {kp, kq}
    <2>1. VoleProduct(q, n) = {Term(MaskShare(q, "R", n))} \cup {Term(MaskShare(q, "S", n))}
      BY DEF VoleProduct, Draw
    <2>2. (p = "R" /\ q = "S") \/ (p = "S" /\ q = "R")
      BY DEF Party, Other
    <2> QED BY <2>1, <2>2
  <1>5. ASSUME NEW B, B # {} PROVE mk \notin Lift(B, D) /\ kp \notin Lift(B, D) /\ kq \notin Lift(B, D)
    BY <1>1, <1>5, LiftMember
  <1> QED BY <1>3, <1>4, <1>5

\* What party p sends to be reencrypted: its plain sum under its own scalar,
\* a share of the helper and its own mask.
LEMMA Encrypted ==
  ASSUME IndInv, IdsInv, NEW p \in Party, NEW j \in Idx(p)
  PROVE  LET q == Other(p)
             n == Vole(p, j)
         IN EncryID(p, Okvs(q), ShareSum(p))[j]
              = Lift({p}, Plain(p, j)) \cup {Term(MaskShare(q, q, n)), Term(Mask(p, n))}
  <1> DEFINE q == Other(p)
             n == Vole(p, j)
             O == {OprfShare(q, i, j) : i \in Dim}
             UF == {PrfOf(q, i, Blk(p, i, j)) : i \in Dim}
             UM == UNION {Masked(p, i, j) : i \in Dim}
             W == Own(p, j)
             kp == Term(MaskShare(q, p, n))
             kq == Term(MaskShare(q, q, n))
             mk == Term(Mask(p, n))
             dec == XorAll([i \in Dim |-> Decode(q, Okvs(q), i, Blk(p, i, j))])
             shares == XorAll([i \in Dim |-> Mul(p, Xor(Draw(OprfShare(q, i, j)), Draw(PrfOf(q, i, Blk(p, i, j)))))])
  <1>1. EncryID(p, Okvs(q), ShareSum(p))[j]
          = Xor(Xor(Mul(p, Xor(dec, ids[p][j])), Xor(Xor(Mul(p, ShareSum(p)[j]), {kp}), shares)), {mk})
    BY DEF EncryID, Draw, Blk
  <1>2. dec = Lift({}, UM) /\ ids[p][j] = Lift({}, W)
    BY DecodedSum, OwnDraws
  <1>3. shares = Lift({p}, O \cup UF)
    BY OwnShares
  <1>4. ShareSum(p)[j] = Lift({}, O) \cup {Term(Mask(q, n))}
    BY Sums
  <1>5. \A t \in O : t[1] = "oprf"
    BY DrawsDiffer
  <1>6. \A t \in UF : t[1] = "prf"
    BY DrawsDiffer
  <1>7. \A t \in Xor(UM, W) : t[1] # "mask"
    <2>1. ASSUME NEW t \in UM PROVE t[1] # "mask"
      <3>1. PICK i \in Dim : t \in Masked(p, i, j)
        BY <2>1
      <3>2. DrawOf(t, q, i)
        BY <3>1, DecodedDraws
      <3> QED BY <3>2 DEF DrawOf
    <2>2. \A t \in W : t[1] # "mask"
      <3>1. \A t \in W : t[1] = "label"
        BY OwnDraws
      <3> QED BY <3>1
    <2> HIDE DEF UM, W
    <2> QED BY <2>1, <2>2, SumOfTwo
  <1>8. /\ VoleProduct(q, n) = {kp, kq} /\ kp # kq /\ mk # kp /\ mk # kq
        /\ \A D : kp \notin Lift({p}, D) /\ kq \notin Lift({p}, D) /\ mk \notin Lift({p}, D)
    BY MasksDiffer
  <1>9. {} \cup {p} = {p}
    OBVIOUS
  <1>10. Xor(Xor(UM, W), UF) = Plain(p, j)
    BY PlainSum
  <1> HIDE DEF O, UF, UM, W, kp, kq, mk, dec, shares, q, n
  <1>11. Mul(p, Xor(dec, ids[p][j])) = Lift({p}, Xor(UM, W))
    <2>1. Xor(dec, ids[p][j]) = Lift({}, Xor(UM, W))
      BY <1>2, LiftSum
    <2>2. Mul(p, Lift({}, Xor(UM, W))) = Lift({} \cup {p}, Xor(UM, W))
      BY <1>7, MulPlain
    <2> QED BY <1>9, <2>1, <2>2
  <1>12. Mul(p, ShareSum(p)[j]) = Lift({p}, O) \cup {kp, kq}
    <2>1. \A t \in O : ~(t[1] = "mask" /\ t[2] = Other(p))
      BY <1>5
    <2>2. Mul(p, Lift({}, O) \cup {Term(Mask(Other(p), n))}) = Lift({} \cup {p}, O) \cup VoleProduct(Other(p), n)
      BY <2>1, MulMasked
    <2> QED BY <1>4, <1>8, <1>9, <2>2 DEF q
  <1> DEFINE a == Lift({p}, Xor(UM, W))
             o == Lift({p}, O)
             u == Lift({p}, UF)
  <1>13. Lift({p}, O \cup UF) = o \cup u
    BY DEF Lift
  <1>14. o \cap u = {}
    <2>1. O \cap UF = {}
      BY <1>5, <1>6
    <2> QED BY <2>1, LiftMember
  <1>15. Xor(a, u) = Lift({p}, Plain(p, j))
    BY <1>10, LiftSum
  <1>16. /\ kp \notin a /\ kq \notin a /\ mk \notin a /\ kp \notin o /\ kq \notin o /\ mk \notin o
         /\ kp \notin u /\ kq \notin u /\ mk \notin u
    BY <1>8
  <1> HIDE DEF a, o, u
  <1>17. Xor(o \cup {kp, kq}, {kp}) = o \cup {kq}
    BY <1>8, <1>16, SumOfTwo
  <1>18. Xor(o \cup {kq}, o \cup u) = u \cup {kq}
    BY <1>14, <1>16, SumOfTwo
  <1>19. Xor(a, u \cup {kq}) = Xor(a, u) \cup {kq}
    BY <1>16, SumOfTwo
  <1>20. Xor(Xor(a, u) \cup {kq}, {mk}) = Xor(a, u) \cup {kq, mk}
    BY <1>8, <1>16, SumOfTwo
  <1>21. EncryID(p, Okvs(q), ShareSum(p))[j] = Xor(Xor(a, Xor(Xor(o \cup {kp, kq}, {kp}), o \cup u)), {mk})
    BY <1>1, <1>3, <1>11, <1>12, <1>13 DEF a, o
  <1>22. EncryID(p, Okvs(q), ShareSum(p))[j] = Lift({p}, Plain(p, j)) \cup {kq, mk}
    BY <1>15, <1>17, <1>18, <1>19, <1>20, <1>21
  <1> QED BY <1>22 DEF q, n, kq, mk

\* The messages and the result of the round of party p.
EncOf(p) == EncryID(p, Okvs(Other(p)), ShareSum(p))
ReOf(p) == Reencrypt(Other(p), EncOf(p))
OutOf(p) == Unmask(p, ReOf(p))

\* No mask is left in the result: the plain sum under both scalars.
LEMMA OutIsPlain ==
  ASSUME IndInv, IdsInv, NEW p \in Party, NEW j \in Idx(p)
  PROVE  OutOf(p)[j] = Lift(Party, Plain(p, j))
  <1> DEFINE q == Other(p)
             n == Vole(p, j)
             X == Plain(p, j)
             kp == Term(MaskShare(q, p, n))
             kq == Term(MaskShare(q, q, n))
             mk == Term(Mask(p, n))
             lp == Term(MaskShare(p, p, n))
             lq == Term(MaskShare(p, q, n))
  <1>0. q \in Party /\ Other(q) = p /\ {p} \cup {q} = Party /\ Party # {}
    BY TwoSides
  <1>1. EncOf(p)[j] = Lift({p}, X) \cup {kq, mk}
    BY Encrypted DEF EncOf
  <1>2. OutOf(p)[j] = Xor(Xor(Mul(q, Xor(EncOf(p)[j], {kq})), {lq}), {lp})
    BY <1>0 DEF OutOf, ReOf, Unmask, Reencrypt, Draw
  <1>3. mk # kq /\ kq \notin Lift({p}, X)
    BY MasksDiffer
  <1>4. VoleProduct(p, n) = {lq, lp} /\ lq # lp /\ lq \notin Lift(Party, X) /\ lp \notin Lift(Party, X)
    <2>1. LET o == Other(q)
          IN /\ VoleProduct(o, n) = {Term(MaskShare(o, q, n)), Term(MaskShare(o, o, n))}
             /\ Term(MaskShare(o, q, n)) # Term(MaskShare(o, o, n))
             /\ \A B : B # {} => /\ Term(MaskShare(o, q, n)) \notin Lift(B, X)
                                 /\ Term(MaskShare(o, o, n)) \notin Lift(B, X)
      <3> HIDE DEF q, n, X
      <3> QED BY <1>0, MasksDiffer
    <2> QED BY <1>0, <2>1
  <1>5. \A t \in X : ~(t[1] = "mask" /\ t[2] = Other(q))
    <2>1. \A t \in UNION {Decoded(p, i, j) : i \in Dim} : t[1] # "mask"
      <3> SUFFICES ASSUME NEW i \in Dim, NEW t \in Decoded(p, i, j) PROVE t[1] # "mask"
        OBVIOUS
      <3>1. DrawOf(t, q, i)
        BY DecodedDraws
      <3> QED BY <3>1 DEF DrawOf
    <2>2. \A t \in Own(p, j) : t[1] # "mask"
      <3>1. \A t \in Own(p, j) : t[1] = "label"
        BY OwnDraws
      <3> QED BY <3>1
    <2> QED BY <2>1, <2>2, SumOfTwo DEF Plain
  <1> HIDE DEF q, n, X, kp, kq, mk, lp, lq
  <1>6. Xor(EncOf(p)[j], {kq}) = Lift({p}, X) \cup {mk}
    BY <1>1, <1>3, SumOfTwo
  <1>7. Mul(q, Lift({p}, X) \cup {mk}) = Lift(Party, X) \cup {lq, lp}
    <2> DEFINE B == {p}
    <2>0. q \in Party
      BY <1>0
    <2> HIDE DEF B
    <2>1. Mul(q, Lift(B, X) \cup {Term(Mask(Other(q), n))}) = Lift(B \cup {q}, X) \cup VoleProduct(Other(q), n)
      BY <1>5, <2>0, MulMasked
    <2> QED BY <1>0, <1>4, <2>1 DEF mk, B
  <1>8. Xor(Lift(Party, X) \cup {lq, lp}, {lq}) = Lift(Party, X) \cup {lp}
    BY <1>4, SumOfTwo
  <1>9. Xor(Lift(Party, X) \cup {lp}, {lp}) = Lift(Party, X)
    BY <1>4, SumOfTwo
  <1>10. OutOf(p)[j] = Lift(Party, X)
    BY <1>2, <1>6, <1>7, <1>8, <1>9
  <1> QED BY <1>10 DEF X

\* Short queues.
LEMMA Queues ==
  ASSUME NEW x, NEW y
  PROVE  /\ <<x>> # <<>> /\ <<x, y>> # <<>>
         /\ Append(<<>>, x) = <<x>> /\ <<>> \o <<x, y>> = <<x, y>>
         /\ Head(<<x>>) = x /\ Tail(<<x>>) = <<>>
         /\ Len(<<>>) = 0 /\ Len(<<x>>) = 1 /\ Len(<<x, y>>) = 2
         /\ <<x, y>>[1] = x /\ <<x, y>>[2] = y
         /\ SubSeq(<<x, y>>, 3, 2) = <<>>
  OBVIOUS

\* What is on its way, and what each party has, in every phase of fuzzyMap.
RoundInv ==
  /\ pc["S"] \in {"getID", "start"} =>
       pc["R"] \in {"getID", "start"} /\ toR = <<>> /\ toS = <<>>
  /\ pc["S"] = "reencrypt" =>
       \/ pc["R"] \in {"getID", "start"} /\ toR = <<Okvs("S"), ShareSum("R")>> /\ toS = <<>>
       \/ pc["R"] = "unmask" /\ toR = <<>> /\ toS = <<EncOf("R")>>
  /\ pc["S"] = "encrypt" =>
       \/ pc["R"] = "unmask" /\ toR = <<ReOf("R")>> /\ toS = <<>>
       \/ pc["R"] = "reencrypt" /\ toR = <<>> /\ toS = <<Okvs("R"), ShareSum("S")>>
  /\ pc["S"] = "unmask" =>
       \/ pc["R"] = "reencrypt" /\ toR = <<EncOf("S")>> /\ toS = <<>>
       \/ pc["R"] = "done" /\ toR = <<>> /\ toS = <<ReOf("S")>>
  /\ pc["S"] = "done" => pc["R"] = "done" /\ out["S"] = OutOf("S")
  /\ pc["R"] \in {"reencrypt", "done"} => out["R"] = OutOf("R")

\* Once getID is over nothing that the messages depend on changes.
LEMMA RoundFixed ==
  ASSUME UNCHANGED <<pts, labels, ids>>
  PROVE  \A p \in Party : /\ Okvs(p)' = Okvs(p) /\ ShareSum(p)' = ShareSum(p)
                          /\ EncOf(p)' = EncOf(p) /\ ReOf(p)' = ReOf(p) /\ OutOf(p)' = OutOf(p)
  <1>1. \A p : Okvs(p)' = Okvs(p) /\ ShareSum(p)' = ShareSum(p)
    BY DEF Okvs, ShareSum
  <1>2. \A p : EncOf(p)' = EncOf(p)
    BY <1>1 DEF EncOf, EncryID
  <1>3. \A p : ReOf(p)' = ReOf(p)
    BY <1>2 DEF ReOf, Reencrypt
  <1>4. \A p : OutOf(p)' = OutOf(p)
    BY <1>3 DEF OutOf, Unmask
  <1> QED BY <1>1, <1>2, <1>3, <1>4

LEMMA RoundGetID ==
  ASSUME IndInv, RoundInv, NEW p \in Party, GetID(p)
  PROVE  RoundInv'
  <1>1. pc[p] = "getID" /\ toS' = toS /\ toR' = toR /\ out' = out
    BY DEF GetID
  <1>2. /\ pc'[p] \in {"getID", "start"} /\ \A q \in Party : q # p => pc'[q] = pc[q]
        /\ DOMAIN pc = Party
    BY DEF GetID, IndInv, TypeOK
  <1>3. CASE p = "S"
    BY <1>1, <1>2, <1>3 DEF RoundInv, Party
  <1>4. CASE p = "R"
    <2>1. pc["S"] \in {"getID", "start", "reencrypt"} /\ pc'["S"] = pc["S"]
      BY <1>1, <1>2, <1>4 DEF RoundInv, IndInv, TypeOK, Party
    <2>2. labels'["S"] = labels["S"]
      BY <1>4 DEF GetID, IndInv, TypeOK, Party
    <2>3. Okvs("S")' = Okvs("S")
      BY <2>2 DEF Okvs
    <2>4. ShareSum("R")' = ShareSum("R")
      BY DEF ShareSum
    <2> QED BY <1>1, <1>2, <1>4, <2>1, <2>3, <2>4 DEF RoundInv
  <1> QED BY <1>3, <1>4 DEF Party

LEMMA RoundSteps ==
  ASSUME IndInv, RoundInv, RecvSteps \/ SendSteps, ~GetID("R"), ~GetID("S")
  PROVE  RoundInv'
  <1>0. "R" \in Party /\ "S" \in Party /\ Other("R") = "S" /\ Other("S") = "R" /\ DOMAIN pc = Party /\ DOMAIN out = Party
    BY DEF Party, Other, IndInv, TypeOK
  <1>1. UNCHANGED <<pts, labels, ids>>
    BY DEF RecvSteps, SendSteps, R_Encrypt, R_Unmask, R_Reencrypt, S_Serve, S_Reencrypt, S_Encrypt, S_Unmask
  <1>2. /\ Okvs("R")' = Okvs("R") /\ Okvs("S")' = Okvs("S")
        /\ ShareSum("R")' = ShareSum("R") /\ ShareSum("S")' = ShareSum("S")
        /\ EncOf("R")' = EncOf("R") /\ EncOf("S")' = EncOf("S")
        /\ ReOf("R")' = ReOf("R") /\ ReOf("S")' = ReOf("S")
        /\ OutOf("R")' = OutOf("R") /\ OutOf("S")' = OutOf("S")
    BY <1>0, <1>1, RoundFixed
  <1>3. CASE S_Serve
    <2>1. toR = <<>> /\ toS = <<>> /\ pc["R"] \in {"getID", "start"}
      BY <1>3 DEF RoundInv, S_Serve
    <2>2. toR' = <<Okvs("S"), ShareSum("R")>> /\ toS' = toS /\ pc'["S"] = "reencrypt" /\ pc'["R"] = pc["R"]
      BY <1>0, <1>3, <2>1, Queues DEF S_Serve
    <2> QED BY <1>2, <2>1, <2>2 DEF RoundInv
  <1>4. CASE R_Encrypt
    <2>1. pc["S"] = "reencrypt" /\ toR = <<Okvs("S"), ShareSum("R")>> /\ toS = <<>>
      <3>1. Len(toR) >= 2 /\ pc["R"] = "start"
        BY <1>4 DEF R_Encrypt
      <3>2. toR # <<>>
        BY <3>1, Queues
      <3> QED BY <3>1, <3>2 DEF RoundInv, IndInv, TypeOK
    <2>2. toS' = <<EncOf("R")>> /\ toR' = <<>> /\ pc'["R"] = "unmask" /\ pc'["S"] = pc["S"]
      BY <1>0, <1>4, <2>1, Queues DEF R_Encrypt, EncOf
    <2> QED BY <1>2, <2>1, <2>2 DEF RoundInv
  <1>5. CASE S_Reencrypt
    <2>1. pc["S"] = "reencrypt" /\ pc["R"] = "unmask" /\ toR = <<>> /\ toS = <<EncOf("R")>>
      BY <1>5 DEF RoundInv, S_Reencrypt
    <2>2. toR' = <<ReOf("R")>> /\ toS' = <<>> /\ pc'["S"] = "encrypt" /\ pc'["R"] = pc["R"]
      BY <1>0, <1>5, <2>1, Queues DEF S_Reencrypt, ReOf
    <2> QED BY <1>2, <2>1, <2>2 DEF RoundInv
  <1>6. CASE R_Unmask
    <2>1. pc["S"] = "encrypt" /\ pc["R"] = "unmask" /\ toR = <<ReOf("R")>> /\ toS = <<>>
      BY <1>6 DEF RoundInv, R_Unmask, IndInv, TypeOK
    <2>2. /\ toR' = <<>> /\ toS' = <<Okvs("R"), ShareSum("S")>> /\ pc'["R"] = "reencrypt" /\ pc'["S"] = pc["S"]
          /\ out'["R"] = OutOf("R")
      BY <1>0, <1>6, <2>1, Queues DEF R_Unmask, OutOf
    <2> QED BY <1>2, <2>1, <2>2 DEF RoundInv
  <1>7. CASE S_Encrypt
    <2>1. pc["S"] = "encrypt" /\ pc["R"] = "reencrypt" /\ toR = <<>> /\ toS = <<Okvs("R"), ShareSum("S")>>
      <3>1. Len(toS) >= 2 /\ pc["S"] = "encrypt"
        BY <1>7 DEF S_Encrypt
      <3>2. toS # <<>>
        BY <3>1, Queues
      <3> QED BY <3>1, <3>2 DEF RoundInv
    <2>2. toR' = <<EncOf("S")>> /\ toS' = <<>> /\ pc'["S"] = "unmask" /\ pc'["R"] = pc["R"] /\ out' = out
      BY <1>0, <1>7, <2>1, Queues DEF S_Encrypt, EncOf
    <2> QED BY <1>2, <2>1, <2>2 DEF RoundInv
  <1>8. CASE R_Reencrypt
    <2>1. pc["S"] = "unmask" /\ pc["R"] = "reencrypt" /\ toR = <<EncOf("S")>> /\ toS = <<>>
      BY <1>8 DEF RoundInv, R_Reencrypt, IndInv, TypeOK
    <2>2. toS' = <<ReOf("S")>> /\ toR' = <<>> /\ pc'["R"] = "done" /\ pc'["S"] = pc["S"] /\ out' = out
      BY <1>0, <1>8, <2>1, Queues DEF R_Reencrypt, ReOf
    <2> QED BY <1>2, <2>1, <2>2 DEF RoundInv
  <1>9. CASE S_Unmask
    <2>1. pc["S"] = "unmask" /\ pc["R"] = "done" /\ toR = <<>> /\ toS = <<ReOf("S")>>
      BY <1>9 DEF RoundInv, S_Unmask
    <2>2. toS' = <<>> /\ pc'["S"] = "done" /\ pc'["R"] = pc["R"] /\ out'["S"] = OutOf("S") /\ out'["R"] = out["R"]
      BY <1>0, <1>9, <2>1, Queues DEF S_Unmask, OutOf
    <2> QED BY <1>2, <2>1, <2>2 DEF RoundInv
  <1> QED
    BY <1>3, <1>4, <1>5, <1>6, <1>7, <1>8, <1>9 DEF RecvSteps, SendSteps

\* fuzzyMap runs its two rounds in step, whatever the interleaving.
THEOREM FmapRounds == Spec => []RoundInv
  <1>1. Init => RoundInv
    BY DEF Init, RoundInv, Party
  <1>2. ASSUME IndInv, RoundInv, [Next]_vars PROVE RoundInv'
    <2>0. "R" \in Party /\ "S" \in Party
      BY DEF Party
    <2>1. CASE GetID("R") \/ GetID("S")
      BY <1>2, <2>0, <2>1, RoundGetID
    <2>2. CASE (RecvSteps \/ SendSteps) /\ ~GetID("R") /\ ~GetID("S")
      BY <1>2, <2>2, RoundSteps
    <2>3. CASE UNCHANGED vars
      <3>1. UNCHANGED <<pts, labels, ids>> /\ UNCHANGED <<pc, toS, toR, out>>
        BY <2>3 DEF vars
      <3>2. /\ Okvs("R")' = Okvs("R") /\ Okvs("S")' = Okvs("S")
            /\ ShareSum("R")' = ShareSum("R") /\ ShareSum("S")' = ShareSum("S")
            /\ EncOf("R")' = EncOf("R") /\ EncOf("S")' = EncOf("S")
            /\ ReOf("R")' = ReOf("R") /\ ReOf("S")' = ReOf("S")
            /\ OutOf("R")' = OutOf("R") /\ OutOf("S")' = OutOf("S")
        BY <2>0, <3>1, RoundFixed
      <3> QED BY <1>2, <3>1, <3>2 DEF RoundInv
    <2> QED BY <1>2, <2>1, <2>2, <2>3 DEF Next, Terminated
  <1> QED
    BY <1>1, <1>2, FmapInductive, PTL DEF Spec

-----------------------------------------------------------------------------
(* What a common identifier means. *)

\* The labels of the cells of point j.
CellLabels(p, j) == {labels[p][i][Block1(pts[p][j][i])] : i \in Dim}

\* A point decodes the labels of the cells of a point close to it.
LEMMA ClosePlain ==
  ASSUME IndInv, NEW p \in Party, NEW j \in Idx(p), NEW k \in Idx(Other(p)),
         pc[p] # "getID", pc[Other(p)] # "getID", Current(p, j),
         \A i \in Dim : Near(pts[p][j][i], pts[Other(p)][k][i])
  PROVE  Plain(p, j) = Xor(CellLabels(Other(p), k), CellLabels(p, j))
  <1> DEFINE q == Other(p)
  <1>0. q \in Party
    BY TwoSides
  <1>1. ASSUME NEW i \in Dim PROVE Decoded(p, i, j) = {labels[q][i][Block1(pts[q][k][i])]}
    <2> DEFINE x == pts[p][j][i]
               y == pts[q][k][i]
    <2>1. x \in Nat /\ y \in Nat /\ Delta \in Nat
      BY <1>0, PointTypes, DeltaAssumption DEF IndInv
    <2>2. x - y <= Delta /\ y - x <= Delta
      BY DEF Near
    <2>3. x <= y + Delta /\ y <= x + Delta
      BY <2>1, <2>2
    <2>4. Labelled(q, i, k)
      BY <1>0, AllLabelled
    <2>5. Joined(labels[q][i], Block0(y), Block1(y))
      BY <1>0, <2>4 DEF IndInv, PairInv
    <2>6. computeBlock(x) \in {Block0(y), Block1(y)}
      BY <2>1, <2>3, BallBlocks
    <2>7. computeBlock(x) \in DOMAIN labels[q][i] /\ labels[q][i][computeBlock(x)] = labels[q][i][Block1(y)]
      BY <2>5, <2>6 DEF Joined
    <2> QED BY <2>7 DEF Decoded, Blk
  <1>2. UNION {Decoded(p, i, j) : i \in Dim} = CellLabels(q, k)
    BY <1>1 DEF CellLabels
  <1>3. Own(p, j) = CellLabels(p, j)
    <2>1. \A i \in Dim : Labelled(p, i, j)
      BY AllLabelled
    <2>2. ids[p][j] = LabelsOf(p, j, Dim)
      BY <2>1, CurrentIsLabels
    <2>3. \A t : Term(t).of = t
      BY DEF Term
    <2> QED BY <2>2, <2>3 DEF Own, LabelsOf, CellLabels
  <1> QED BY <1>2, <1>3 DEF Plain

\* What was multiplied by both scalars can be compared.
LEMMA SameLift ==
  ASSUME NEW B, NEW D, NEW E, Lift(B, D) = Lift(B, E)
  PROVE  D = E
  <1>1. \A t : t \in D <=> [by |-> B, of |-> t] \in Lift(B, D)
    BY LiftMember
  <1>2. \A t : t \in E <=> [by |-> B, of |-> t] \in Lift(B, E)
    BY LiftMember
  <1> QED BY <1>1, <1>2

\* The results are in place once both sides have finished.
LEMMA Results ==
  ASSUME IndInv, IdsInv, RoundInv, Finished, NEW p \in Party, NEW j \in Idx(p)
  PROVE  out[p][j] = Lift(Party, Plain(p, j)) /\ pc[p] # "getID"
  <1>1. out[p] = OutOf(p) /\ pc[p] = "done"
    BY DEF RoundInv, Finished, Party
  <1> QED BY <1>1, OutIsPlain

\* Close points with up to date identifiers get the same result, for every
\* number of points and dimensions.
THEOREM FmapIdsAgree == Spec => []CurrentIdsAgree
  <1>1. ASSUME IndInv, IdsInv, RoundInv PROVE CurrentIdsAgree
    <2> SUFFICES ASSUME Finished, NEW j \in Idx("R"), NEW k \in Idx("S"),
                        Close(j, k), Current("R", j), Current("S", k)
                 PROVE  out["R"][j] = out["S"][k]
      BY DEF CurrentIdsAgree
    <2>0. "R" \in Party /\ "S" \in Party /\ Other("R") = "S" /\ Other("S") = "R"
      BY DEF Party, Other
    <2>1. out["R"][j] = Lift(Party, Plain("R", j)) /\ pc["R"] # "getID"
      BY <1>1, <2>0, Results
    <2>2. out["S"][k] = Lift(Party, Plain("S", k)) /\ pc["S"] # "getID"
      BY <1>1, <2>0, Results
    <2>3. /\ \A i \in Dim : Near(pts["R"][j][i], pts["S"][k][i])
          /\ \A i \in Dim : Near(pts["S"][k][i], pts["R"][j][i])
      BY DEF Close, Near
    <2>4. Plain("R", j) = Xor(CellLabels("S", k), CellLabels("R", j))
      BY <1>1, <2>0, <2>1, <2>2, <2>3, ClosePlain
    <2>5. Plain("S", k) = Xor(CellLabels("R", j), CellLabels("S", k))
      BY <1>1, <2>0, <2>1, <2>2, <2>3, ClosePlain
    <2>6. Xor(CellLabels("S", k), CellLabels("R", j)) = Xor(CellLabels("R", j), CellLabels("S", k))
      BY SumOfTwo
    <2> QED BY <2>1, <2>2, <2>4, <2>5, <2>6
  <1> QED
    BY <1>1, FmapInductive, FmapIds, FmapRounds, PTL

\* Noise in a plain sum gives it away: no point of the other party has it.
LEMMA NoiseGivesAway ==
  ASSUME IndInv, IdsInv, NEW p \in Party, NEW j \in Idx(p), NEW k \in Idx(Other(p)),
         Plain(p, j) = Plain(Other(p), k), NEW i \in Dim
  PROVE  Blk(p, i, j) \in DOMAIN labels[Other(p)][i]
  <1> DEFINE q == Other(p)
             c == Blk(p, i, j)
             z == Noise(q, i, c)
  <1> SUFFICES ASSUME c \notin DOMAIN labels[q][i] PROVE FALSE
    OBVIOUS
  <1>0. q \in Party /\ Other(q) = p /\ q # p
    BY TwoSides
  <1>1. z[1] = "okvs" /\ z[2] = q
    BY DrawsDiffer
  <1>2. z \in Decoded(p, i, j)
    BY DEF Decoded
  <1>3. z \notin Own(p, j)
    <2>1. \A t \in Own(p, j) : t[1] = "label"
      BY OwnDraws
    <2> QED BY <1>1, <2>1
  <1>4. z \notin Own(q, k)
    <2>1. \A t \in Own(q, k) : t[1] = "label"
      BY <1>0, OwnDraws
    <2> QED BY <1>1, <2>1
  <1>5. ASSUME NEW l \in Dim PROVE z \notin Decoded(q, l, k)
    <2>1. \A t \in Decoded(q, l, k) : DrawOf(t, Other(q), l)
      BY <1>0, DecodedDraws
    <2>2. \A t \in Decoded(q, l, k) : t[2] = p
      BY <1>0, <2>1 DEF DrawOf
    <2> QED BY <1>0, <1>1, <2>2
  <1> HIDE DEF z
  <1>6. z \in Plain(p, j)
    BY <1>2, <1>3, SumOfTwo DEF Plain
  <1>7. z \notin Plain(q, k)
    BY <1>4, <1>5, SumOfTwo DEF Plain
  <1> QED BY <1>6, <1>7

\* A common result means that each point lies in the labelled cells of the
\* other party in every dimension.
THEOREM FmapLinked == Spec => []SameIdMeansLinked
  <1>1. ASSUME IndInv, IdsInv, RoundInv PROVE SameIdMeansLinked
    <2> SUFFICES ASSUME Finished, NEW j \in Idx("R"), NEW k \in Idx("S"),
                        out["R"][j] = out["S"][k], NEW i \in Dim
                 PROVE  /\ computeBlock(pts["R"][j][i]) \in DOMAIN labels["S"][i]
                        /\ computeBlock(pts["S"][k][i]) \in DOMAIN labels["R"][i]
      BY DEF SameIdMeansLinked
    <2>0. "R" \in Party /\ "S" \in Party /\ Other("R") = "S" /\ Other("S") = "R"
      BY DEF Party, Other
    <2>1. out["R"][j] = Lift(Party, Plain("R", j))
      BY <1>1, <2>0, Results
    <2>2. out["S"][k] = Lift(Party, Plain("S", k))
      BY <1>1, <2>0, Results
    <2>3. Plain("R", j) = Plain("S", k)
      BY <2>1, <2>2, SameLift
    <2>4. Blk("R", i, j) \in DOMAIN labels["S"][i]
      BY <1>1, <2>0, <2>3, NoiseGivesAway
    <2>5. Blk("S", i, k) \in DOMAIN labels["R"][i]
      BY <1>1, <2>0, <2>3, NoiseGivesAway
    <2> QED BY <2>4, <2>5 DEF Blk
  <1> QED
    BY <1>1, FmapInductive, FmapIds, FmapRounds, PTL

\* With the points of both parties in ascending order the fuzzy mapping does
\* what its callers use it for: close points get the same identifier.
AscendingIdsAgree ==
  Finished /\ Ascending("R") /\ Ascending("S") =>
    \A j \in Idx("R"), k \in Idx("S") : Close(j, k) => out["R"][j] = out["S"][k]

\* It follows from the two theorems on identifiers.
THEOREM FmapAscendingAgrees == Spec => []AscendingIdsAgree
  <1>1. CurrentIdsAgree /\ AscendingStaysCurrent => AscendingIdsAgree
    <2>1. "R" \in Party /\ "S" \in Party
      BY DEF Party
    <2> QED BY <2>1 DEF CurrentIdsAgree, AscendingStaysCurrent, AscendingIdsAgree, Finished
  <1> QED
    BY <1>1, FmapIdsAgree, FmapStaysCurrent, PTL
=============================================================================
