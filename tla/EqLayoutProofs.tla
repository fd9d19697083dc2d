--------------------------- MODULE EqLayoutProofs ---------------------------
(***************************************************************************)
(* Proof that the in-place loop of EqLayout is correct for every number of *)
(* rows and every row length.                                              *)
(***************************************************************************)
EXTENDS EqLayout, TLAPS

\* A row of len columns has at most len new columns, and its last old column
\* exists.
LEMMA Halves ==
  ASSUME NEW l \in Nat \ {0}
  PROVE  /\ (l + 1) \div 2 \in 1 .. l
         /\ l \div 2 \in 0 .. (l + 1) \div 2
         /\ l <= 2 * ((l + 1) \div 2) /\ 2 * ((l + 1) \div 2) <= l + 1
         /\ 2 * (l \div 2) <= l /\ l - 1 <= 2 * (l \div 2)
OBVIOUS

\* Rows are laid out one after the other: a later row starts after the end
\* of an earlier one.
LEMMA RowOrder ==
  ASSUME NEW w \in Nat, NEW r \in Nat, NEW q \in Nat, r < q
  PROVE  r * w + w <= q * w
<1>1. (r + 1) * w <= q * w
  <2>1. q - (r + 1) \in Nat
    OBVIOUS
  <2>2. (q - (r + 1)) * w >= 0
    BY <2>1
  <2> QED
    BY <2>2
<1> QED
  BY <1>1

\* A row and a column of the layout are determined by their position.
LEMMA SamePlace ==
  ASSUME NEW w \in Nat, NEW r \in Nat, NEW q \in Nat,
         NEW k \in 0 .. w - 1, NEW h \in 0 .. w - 1,
         r * w + k = q * w + h
  PROVE  r = q /\ k = h
<1>1. CASE r < q
  BY <1>1, RowOrder
<1>2. CASE q < r
  BY <1>2, RowOrder
<1> QED
  BY <1>1, <1>2

\* A row never starts earlier in the wide layout than in the narrow one.
LEMMA Wider ==
  ASSUME NEW w \in Nat, NEW v \in Nat, NEW r \in Nat, v <= w
  PROVE  r * v <= r * w
<1>1. w - v \in Nat
  OBVIOUS
<1>2. r * (w - v) >= 0
  BY <1>1
<1> QED
  BY <1>2

\* Positions of old columns are positions of the vector.
LEMMA InVector ==
  ASSUME NEW w \in Nat, NEW r \in Nat, NEW q \in Nat, r < q, NEW k \in 0 .. w - 1
  PROVE  r * w + k \in 0 .. q * w - 1
<1>1. r * w + w <= q * w
  BY RowOrder
<1>2. r * w \in Nat /\ q * w \in Nat
  OBVIOUS
<1> QED
  BY <1>1, <1>2

\* The vector starts as the rows of old bits.
LEMMA InitLayout == Init => LayoutInv
<1> SUFFICES ASSUME Init PROVE LayoutInv
  OBVIOUS
<1>1. n \in Nat \ {0} /\ len \in Nat \ {0}
  BY BoundAssumption DEF Init
<1>2. \A q \in 0 .. n * len - 1 : flat[q] = Old(q)
  BY DEF Init
<1>3. DOMAIN flat = 0 .. n * len - 1
  BY DEF Init
<1>4. \A r \in 0 .. n - 1, k \in 0 .. NextLength - 1 :
        ~(r < i \/ (r = i /\ k < m))
  BY <1>1, Halves DEF Init, NextLength
<1> QED
  BY <1>1, <1>2, <1>3, <1>4 DEF Init, LayoutInv

\* One write moves the border between new columns and old bits by one.
LEMMA WriteLayout ==
  ASSUME LayoutInv, i < n, NEW v,
         v = Wanted(i, m),
         flat' = [flat EXCEPT ![i * NextLength + m] = v],
         n' = n, len' = len,
         \/ i' = i /\ m' = m + 1 /\ m + 1 < NextLength
         \/ i' = i + 1 /\ m' = 0 /\ m + 1 = NextLength
  PROVE  LayoutInv'
<1>1. /\ n \in Nat \ {0} /\ len \in Nat \ {0} /\ i \in 0 .. n /\ m \in Nat
      /\ 2 * m < len
      /\ DOMAIN flat = 0 .. n * len - 1
  BY DEF LayoutInv
<1> DEFINE w == NextLength
<1>2. w \in 1 .. len /\ m \in 0 .. w - 1 /\ SendLength' = SendLength /\ NextLength' = w
      /\ len <= 2 * w /\ 2 * w <= len + 1
  BY <1>1, Halves DEF NextLength, SendLength
<1> HIDE DEF w
<1>3. /\ DOMAIN flat' = 0 .. n * len - 1
      /\ \A p \in 0 .. n * len - 1 : flat'[p] = IF p = i * w + m THEN v ELSE flat[p]
  BY <1>1 DEF w
<1>4. \A r, k : Wanted(r, k)' = Wanted(r, k)
  BY <1>2 DEF Wanted, Old, AndOf
<1>5. ASSUME NEW r \in 0 .. n - 1, NEW k \in 0 .. w - 1,
             r < i' \/ (r = i' /\ k < m')
      PROVE  flat'[r * w + k] = Wanted(r, k)
  <2>1. r * w + k \in 0 .. n * len - 1
    <3>1. r * w <= r * len
      BY <1>1, <1>2, Wider
    <3>2. r * len + k \in 0 .. n * len - 1
      BY <1>1, <1>2, InVector
    <3>3. r * w \in Nat
      BY <1>2
    <3> QED
      BY <3>1, <3>2, <3>3, <1>1
  <2>2. CASE r = i /\ k = m
    BY <2>1, <2>2, <1>3
  <2>3. CASE ~(r = i /\ k = m)
    <3>1. r < i \/ (r = i /\ k < m)
      BY <1>5, <2>3, <1>1, <1>2 DEF w
    <3>2. flat[r * w + k] = Wanted(r, k)
      BY <3>1, <1>2 DEF LayoutInv, w
    <3>3. r * w + k # i * w + m
      BY <2>3, <1>1, <1>2, SamePlace
    <3> QED
      BY <3>2, <3>3, <2>1, <1>3
  <2> QED
    BY <2>2, <2>3
<1>6. i' * w + m' = i * w + m + 1
  <2>1. (i + 1) * w = i * w + w
    BY <1>1, <1>2
  <2> QED
    BY <2>1, <1>1, <1>2 DEF w
<1>7. ASSUME NEW q \in 0 .. n * len - 1, q >= i' * w + m'
      PROVE  flat'[q] = Old(q)
  <2>1. i * w \in Nat
    BY <1>1, <1>2
  <2>2. flat[q] = Old(q)
    BY <1>6, <1>7, <1>1, <2>1 DEF LayoutInv, w
  <2> QED
    BY <2>1, <2>2, <1>3, <1>6, <1>7, <1>1
<1>8. /\ i' \in 0 .. n /\ m' \in Nat
      /\ (i' < n => 2 * m' < len) /\ (i' = n => m' = 0)
  BY <1>1, <1>2 DEF w
<1>9. /\ \A r \in 0 .. n' - 1, k \in 0 .. NextLength' - 1 :
           (r < i' \/ (r = i' /\ k < m')) => flat'[r * NextLength' + k] = Wanted(r, k)'
      /\ \A q \in 0 .. n' * len' - 1 :
           q >= i' * NextLength' + m' => flat'[q] = Old(q)'
  BY <1>2, <1>4, <1>5, <1>7 DEF Old
<1> QED
  BY <1>1, <1>3, <1>8, <1>9 DEF LayoutInv

\* Both branches of the loop body are such a write.
LEMMA NextLayout == LayoutInv /\ [Next]_vars => LayoutInv'
<1> SUFFICES ASSUME LayoutInv, [Next]_vars PROVE LayoutInv'
  OBVIOUS
<1>1. /\ n \in Nat \ {0} /\ len \in Nat \ {0} /\ i \in 0 .. n /\ m \in Nat
      /\ (i < n => 2 * m < len)
  BY DEF LayoutInv
<1>2. /\ NextLength \in 1 .. len /\ SendLength \in 0 .. NextLength
      /\ len <= 2 * NextLength /\ 2 * NextLength <= len + 1
      /\ 2 * SendLength <= len /\ len - 1 <= 2 * SendLength
  BY <1>1, Halves DEF NextLength, SendLength
<1>3. CASE CopyLast
  <2>1. i \in 0 .. n - 1 /\ 2 * m = len - 1
    BY <1>3, <1>1 DEF CopyLast
  <2>2. NextLength = m + 1 /\ SendLength = m
    BY <2>1, <1>1, <1>2
  <2>3. i * len + 2 * m \in 0 .. n * len - 1
    BY <2>1, <1>1, InVector
  <2>4. i * NextLength + m <= i * len + 2 * m
    <3>1. i * NextLength <= i * len
      BY <1>1, <1>2, Wider
    <3>2. i * NextLength \in Nat /\ i * len \in Nat
      BY <1>1, <1>2
    <3> QED
      BY <3>1, <3>2, <1>1
  <2>5. flat[i * len + 2 * m] = Old(i * len + 2 * m)
    BY <2>3, <2>4 DEF LayoutInv
  <2>6. Wanted(i, m) = Old(i * len + 2 * m)
    <3>1. i * len + len - 1 = i * len + 2 * m
      BY <2>1, <1>1
    <3> QED
      BY <3>1, <2>2, <1>1 DEF Wanted
  <2>7. i' = i + 1 /\ m' = 0 /\ m + 1 = NextLength /\ i < n
    BY <2>2, <1>3 DEF CopyLast
  <2> QED
    BY <2>5, <2>6, <2>7, <1>3, WriteLayout DEF CopyLast
<1>4. CASE StoreAnd
  <2>1. AndOf(i, m) = Wanted(i, m) /\ i < n
    BY <1>4, <1>1, <1>2 DEF StoreAnd, Wanted
  <2>2. \/ i' = i /\ m' = m + 1 /\ m + 1 < NextLength
        \/ i' = i + 1 /\ m' = 0 /\ m + 1 = NextLength
    BY <1>4, <1>1, <1>2 DEF StoreAnd
  <2> QED
    BY <2>1, <2>2, <1>4, WriteLayout DEF StoreAnd
<1>5. CASE UNCHANGED vars
  BY <1>5 DEF vars, LayoutInv, NextLength, SendLength, Wanted, Old, AndOf
<1> QED
  BY <1>3, <1>4, <1>5 DEF Next, Terminated

\* LayoutInv is inductive: at every step of the loop the flat vector is new
\* columns up to the write position and untouched old bits from there on.
THEOREM EqLayoutInductive == Spec => []LayoutInv
BY InitLayout, NextLayout, PTL DEF Spec

\* For every number of rows and every row length the in-place loop of
\* eq0/eq1 leaves each row's new columns, the copied odd column included, at
\* their new place.
THEOREM EqLayoutCorrect == Spec => []InPlaceCorrect
<1>1. LayoutInv => InPlaceCorrect
  BY DEF LayoutInv, InPlaceCorrect, Finished
<1> QED
  BY <1>1, EqLayoutInductive, PTL
=============================================================================
