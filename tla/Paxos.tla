-------------------------------- MODULE Paxos -------------------------------
(***************************************************************************)
(* One bin of the oblivious key-value store (opprf/PaxosImpl.h): the rows  *)
(* of the keys, the triangulation that peels off light columns, and the    *)
(* back-substitution, with the dense columns taken as bits ("Binary") or   *)
(* as powers of a field element ("GF128").                                 *)
(*                                                                         *)
(* The hash of a key is a record: the three overlapping 64-bit windows its *)
(* row is built from, the block read as dense part, and the compression    *)
(* its bin is chosen by.  Keys are equal when their hashes are.            *)
(*                                                                         *)
(* The work on a bin is a record px; Baxos steps through it.  A throw is   *)
(* the field fail, "" while there is none.                                 *)
(***************************************************************************)
EXTENDS Field

CONSTANTS
  SparseSize,   \* mSparseSize
  Ssp,          \* the extra columns of the binary dense part, 40 there
  BatchSize     \* gPaxosBuildRowSize and batchSize, 32 there

Weight == 3
Col == 0 .. SparseSize - 1

ASSUME SparseAssumption == SparseSize \in Nat /\ SparseSize >= Weight
ASSUME BatchAssumption == BatchSize \in Nat \ {0} /\ Ssp \in Nat

\* PaxosParam::init: the dense columns for a gap of at most G rows.
DenseSize(dt, G) == G + (IF dt = "Binary" THEN Ssp ELSE 0)
Size(dt, G) == SparseSize + DenseSize(dt, G)

-----------------------------------------------------------------------------
(* Rows. *)

\* One value of doMod32: what is left after the quotient's multiple.
Mod32(v, modVal) == v - (v \div modVal) * modVal

\* The items that the loops handle BatchSize at a time.
Main(n) == (n \div BatchSize) * BatchSize

\* The smaller and the larger of the lanes a and b: a comparison gives a
\* mask, the mask selects.
Gt(x, y) == IF x > y THEN 1 ELSE 0
MinMax32(a, b) ==
  LET max == a * Gt(a, b) + b * (1 - Gt(a, b)) IN <<a + b - max, max>>

\* Mutant: max is not moved when b is.
buildRow32Stale(w) ==
  LET a == Mod32(w[1], SparseSize)
      b == Mod32(w[2], SparseSize - 1)
      c == Mod32(w[3], SparseSize - 2)
      mm == MinMax32(a, b)
      eq == IF mm[2] = b THEN 1 ELSE 0
      c1 == c + (1 - Gt(mm[1], c))
  IN <<a, b + eq, c1 + (1 - Gt(mm[2], c1))>>

\* A lane of the vectorised buildRow32: masks increment.
buildRow32(w) ==
  LET a == Mod32(w[1], SparseSize)
      b == Mod32(w[2], SparseSize - 1)
      c == Mod32(w[3], SparseSize - 2)
      mm == MinMax32(a, b)
      eq == IF mm[2] = b THEN 1 ELSE 0
      c1 == c + (1 - Gt(mm[1], c))
  IN <<a, b + eq, c1 + (1 - Gt(mm[2] + eq, c1))>>

\* The row of a single hash.
buildRow(w) ==
  LET a == w[1] % SparseSize
      b == w[2] % (SparseSize - 1)
      c == w[3] % (SparseSize - 2)
      min == Min({a, b})
      max == a + b - min
      b1 == IF max = b THEN b + 1 ELSE b
      max1 == IF max = b THEN max + 1 ELSE max
      c1 == IF c >= min THEN c + 1 ELSE c
  IN <<a, b1, IF c1 >= max1 THEN c1 + 1 ELSE c1>>

\* The row of item i of n.
RowOf(hash, i, n) == IF i < Main(n) THEN buildRow32(hash.win) ELSE buildRow(hash.win)

-----------------------------------------------------------------------------
(* Columns sorted by weight (WeightData). *)

\* The columns in lists by weight; init prepends them in ascending order.
WeightInit(weights) ==
  [w \in 0 .. Max({weights[c] : c \in Col} \cup {1}) |->
     SetToSortSeq({c \in Col : weights[c] = w}, >)]

popNode(px, c) == [px EXCEPT !.lists[px.weight[c]] = Remove(@, c)]
pushNode(px, c) == [px EXCEPT !.lists[px.weight[c]] = Cons(c, @)]

\* mWeightSets.size() > 1: trailing empty lists are dropped by popNode.
HasWeight(px) == \E w \in DOMAIN px.lists \ {0} : px.lists[w] # <<>>

getMinWeightNode(px) ==
  Head(px.lists[Min({w \in DOMAIN px.lists \ {0} : px.lists[w] # <<>>})])

-----------------------------------------------------------------------------
(* setInput: rows, columns and weights of the items of a bin. *)

\* The rows that have column c, in ascending order.
rebuildColumns(rows) ==
  LET has(i, c) == \E k \in 1 .. Weight : rows[i][k] = c
  IN [c \in Col |-> SetToSortSeq({i \in DOMAIN rows : has(i, c)}, <)]

setInput(hashes, X) ==
  LET n == Len(hashes)
      rows == [i \in 0 .. n - 1 |-> RowOf(hashes[i + 1], i, n)]
      cols == rebuildColumns(rows)
      weight == [c \in Col |-> Len(cols[c])]
  IN [rows |-> rows, dense |-> [i \in 0 .. n - 1 |-> hashes[i + 1].dense],
      X |-> [i \in 0 .. n - 1 |-> X[i + 1]],
      cols |-> cols, weight |-> weight, lists |-> WeightInit(weight),
      rowSet |-> {}, mainRows |-> <<>>, mainCols |-> <<>>, gapRows |-> <<>>, fail |-> ""]

-----------------------------------------------------------------------------
(* triangulate. *)

\* A column of a row that has just been set loses a row, unless it is fixed.
Decrement(x, c) ==
  LET px == x
      popped == [popNode(px, c) EXCEPT !.weight[c] = @ - 1]
  IN IF px.weight[c] = 0 THEN px ELSE pushNode(popped, c)

\* Mutant: the rows are compared, not the keys.
SetRowByRow(x, c, first, r) ==
  LET px == x
      px1 == FoldLeft(Decrement, [px EXCEPT !.rowSet = @ \cup {r}], px.rows[r])
  IN IF px.fail # "" THEN px
     ELSE IF first
     THEN [px1 EXCEPT !.mainCols = Append(@, c), !.mainRows = Append(@, r)]
     ELSE IF px.rows[Last(px.mainRows)] = px.rows[r]
     THEN [px1 EXCEPT !.fail = "duplicate"]
     ELSE [px1 EXCEPT !.gapRows = Append(@, <<r, Last(px.mainRows)>>)]

\* A row found in column c: on the diagonal if it is the first, else in the
\* gap, next to the row on the diagonal, which must not be the same key.
SetRow(x, c, first, r) ==
  LET px == x
      px1 == FoldLeft(Decrement, [px EXCEPT !.rowSet = @ \cup {r}], px.rows[r])
  IN IF px.fail # "" THEN px
     ELSE IF first
     THEN [px1 EXCEPT !.mainCols = Append(@, c), !.mainRows = Append(@, r)]
     ELSE IF px.dense[Last(px.mainRows)] = px.dense[r]
     THEN [px1 EXCEPT !.fail = "duplicate"]
     ELSE [px1 EXCEPT !.gapRows = Append(@, <<r, Last(px.mainRows)>>)]

\* Mutant: rows already set are not skipped.
TriangulateStepAll(px) ==
  LET c == getMinWeightNode(px)
      px0 == [popNode(px, c) EXCEPT !.weight[c] = 0]
      rows == px.cols[c]
  IN FoldLeftDomain(LAMBDA acc, k : SetRow(acc, c, k = 1, rows[k]),
                    px0, rows)

\* An iteration of the loop: the lightest column and its unset rows.
TriangulateStep(px) ==
  LET c == getMinWeightNode(px)
      px0 == [popNode(px, c) EXCEPT !.weight[c] = 0]
      rows == SelectSeq(px.cols[c], LAMBDA r : r \notin px.rowSet)
  IN IF rows = <<>> THEN [px0 EXCEPT !.fail = "empty"]
     ELSE FoldLeftDomain(LAMBDA acc, k : SetRow(acc, c, k = 1, rows[k]),
                         px0, rows)

-----------------------------------------------------------------------------
(* F * C^-1: the main rows that cancel a gap row on the columns of C. *)

\* colMapping and its inverse: rows and columns of C run backwards.
InC(px, c) == \E k \in DOMAIN px.mainCols : px.mainCols[k] = c
CIndex(px, c) == Len(px.mainCols) - (CHOOSE k \in DOMAIN px.mainCols : px.mainCols[k] = c)
CCols(px, r) == {CIndex(px, c) : c \in {d \in ToSet(px.rows[r]) : InC(px, d)}}

\* Cancel the highest column by the row of C with that index.
RECURSIVE Cancel(_, _)
Cancel(px, row) ==
  IF row = {} THEN <<>>
  ELSE LET HRow == px.mainRows[Len(px.mainRows) - Max(row)]
       IN <<HRow>> \o Cancel(px, SymDiff(row, CCols(px, HRow)))

getFCInv(px) ==
  [i \in DOMAIN px.gapRows |->
     LET gap == px.gapRows[i]
     IN IF px.rows[gap[1]] = px.rows[gap[2]] THEN <<gap[2]>>
        ELSE Cancel(px, CCols(px, gap[1]))]

\* x2' = x2 - F C^-1 x1 for gap row i, and the same for a dense coordinate.
Reduced(px, fcinv, i, f) ==
  Plus(f[px.gapRows[i][1]], SumSeq([k \in DOMAIN fcinv[i] |-> f[fcinv[i][k]]]))

-----------------------------------------------------------------------------
(* The dense part p2 of the output: solve E' p2 = x2'.  draw[k] is the     *)
(* k-th value taken from prng, rand says whether there is one.             *)

NoDense(why) == [fail |-> why, p2 |-> <<>>]

\* p2 = E'^-1 x2', the rest zero.
TimesInverse(inv, xx, dsize) ==
  IF ~inv.ok THEN NoDense("singular")
  ELSE [fail |-> "",
        p2 |-> [i \in 1 .. dsize |->
                  IF i <= Len(xx) THEN SumSeq([j \in DOMAIN xx |-> Mul(xx[j], inv.v[i][j])]) ELSE Zero]]

\* The gap rows as powers, random rows below them.
SolveGf128(px, dsize, size, fcinv, rand, draw) ==
  LET g == Len(px.gapRows)
      Row(i) == [k \in 1 .. size |-> Reduced(px, fcinv, i, [r \in DOMAIN px.dense |-> Powers(px.dense[r], size)[k]])]
  IN IF g > dsize THEN NoDense("gap")
     ELSE IF g = 0
     THEN [fail |-> "", p2 |-> [i \in 1 .. dsize |-> IF rand THEN draw[SparseSize + i] ELSE Zero]]
     ELSE TimesInverse(
            MatrixInv([i \in 1 .. size |->
              IF i <= g THEN Row(i) ELSE [k \in 1 .. size |-> draw[SparseSize + i * (size + 1) + k]]]),
            [i \in 1 .. size |->
              IF i <= g THEN Reduced(px, fcinv, i, px.X) ELSE draw[SparseSize + i * (size + 1)]],
            dsize)

\* DenseMtx::invert succeeds: no rows add up to zero on the chosen columns.
Invertible(E, cols) ==
  \A T \in SUBSET DOMAIN E : T # {} => \E c \in cols : SumOver(T, LAMBDA i : BitOf(E[i], c)) = 1

\* The gap columns solved for, the others as drawn.
SolveBits(E, gapCols, xx, random) ==
  LET solution == CHOOSE p \in [gapCols -> Elem] :
        \A i \in DOMAIN E : SumOver(gapCols, LAMBDA c : Mul(BitOf(E[i], c), p[c])) =
          Plus(xx[i], SumOver(DOMAIN random \ gapCols, LAMBDA c : Mul(BitOf(E[i], c), random[c])))
  IN [fail |-> "", p2 |-> [i \in 1 .. Cardinality(DOMAIN random) |->
                             (IF i - 1 \in gapCols THEN solution ELSE random)[i - 1]]]

\* getGapCols: some columns with an invertible E'.
ChooseGapCols(E, choices, xx, random) ==
  IF choices = {} THEN NoDense("singular")
  ELSE SolveBits(E, CHOOSE C \in choices : TRUE, xx, random)

WithGapCols(E, xx, random) ==
  ChooseGapCols(E, {C \in kSubset(Len(E), DOMAIN random) : Invertible(E, C)}, xx, random)

\* E' = E - F C^-1 B, a string of bits per gap row.
EPrime(px, fcinv) ==
  [i \in DOMAIN px.gapRows |-> Reduced(px, fcinv, i, px.dense)]

\* The dense columns that are not solved for.
RandomDense(dsize, rand, draw) ==
  [c \in 0 .. dsize - 1 |-> IF rand THEN draw[SparseSize + c] ELSE Zero]

SolveBinary(px, G, dsize, fcinv, rand, draw) ==
  IF Len(px.gapRows) > G THEN NoDense("gap")
  ELSE WithGapCols(EPrime(px, fcinv),
                   [i \in DOMAIN px.gapRows |-> Reduced(px, fcinv, i, px.X)],
                   RandomDense(dsize, rand, draw))

\* The choice by mDt.
SolveDense(px, dt, G, rand, draw) ==
  IF dt = "GF128"
  THEN SolveGf128(px, DenseSize(dt, G), IF rand THEN DenseSize(dt, G) ELSE Len(px.gapRows),
                  getFCInv(px), rand, draw)
  ELSE SolveBinary(px, G, DenseSize(dt, G), getFCInv(px), rand, draw)

-----------------------------------------------------------------------------
(* decode, and the back-substitution that makes it right. *)

\* P[row[0]] ^ P[row[1]] ^ P[row[2]].
SparseSum(P, row) == SumSeq([k \in 1 .. Weight |-> P[row[k]]])

\* The dense columns weighted by the powers of d, by the bits of d.
DenseGf128(d, p2) ==
  LET x == Powers(d, Len(p2)) IN SumSeq([i \in DOMAIN p2 |-> Mul(p2[i], x[i])])
DenseBinary(d, p2) == SumSeq([i \in DOMAIN p2 |-> Mul(p2[i], BitOf(d, i - 1))])
DensePart(dt, d, p2) == IF dt = "GF128" THEN DenseGf128(d, p2) ELSE DenseBinary(d, p2)

\* The dense columns of an output.
P2(P, dt, G) == [i \in 1 .. DenseSize(dt, G) |-> P[SparseSize + i - 1]]

\* decode32 for the items of a batch, decode1 for the rest: item i of n.
DecodeAt(P, dt, G, hash, i, n) ==
  Plus(SparseSum(P, RowOf(hash, i, n)), DensePart(dt, hash.dense, P2(P, dt, G)))

\* The column on the diagonal gets what its row still lacks.
BackfillRow(px, dt, p2, acc, k) ==
  LET r == px.mainRows[k]
  IN [acc EXCEPT ![px.mainCols[k]] =
        Plus(px.X[r], Plus(SparseSum(acc, px.rows[r]), DensePart(dt, px.dense[r], p2)))]

\* The main rows, the last one found first: its other columns are known.
backfill(px, dt, P, p2) ==
  FoldLeft(LAMBDA acc, k : BackfillRow(px, dt, p2, acc, k),
           P, Reverse([k \in DOMAIN px.mainRows |-> k]))

\* The free columns, the dense part, and then the main rows.
Fill(px, dt, G, free, dense) ==
  IF dense.fail # "" THEN [fail |-> dense.fail, P |-> <<>>]
  ELSE [fail |-> "",
        P |-> backfill(px, dt,
                [c \in 0 .. Size(dt, G) - 1 |->
                   IF c >= SparseSize THEN dense.p2[c - SparseSize + 1]
                   ELSE IF c \in DOMAIN free THEN free[c] ELSE Zero],
                dense.p2)]

\* encode after triangulate: the columns left in list 0 are free, zero or
\* random.
encode(px, dt, G, rand, draw) ==
  Fill(px, dt, G,
       [c \in ToSet(px.lists[0]) |-> IF rand THEN draw[c] ELSE Zero],
       SolveDense(px, dt, G, rand, draw))
=============================================================================
