------------------------------ MODULE EqLayout ------------------------------
(***************************************************************************)
(* The second loop of a level of eq0 and eq1 (pis_new/equal.cpp) on the    *)
(* flat bit vector: the rows of curLength columns are compacted in place   *)
(* into rows of nextLength columns, while the last column of an odd row is *)
(* still read from the same vector.  Module Peqt states the level with one *)
(* row per element; this module shows that the flat loop computes that.    *)
(*                                                                         *)
(* Cells hold symbols: the old bit of a position, or the AND of a row's    *)
(* column pair (computed from the masked vectors, not from the flat  *)
(* one).                                                                   *)
(***************************************************************************)
EXTENDS Integers

CONSTANTS MaxN, MaxLength    \* largest batch and row length considered

ASSUME BoundAssumption == MaxN \in Nat \ {0} /\ MaxLength \in Nat \ {0}

VARIABLES
  n, len,   \* number of rows, curLength
  i, m,     \* the loop counters: row, and j / 2
  flat      \* res0 / res1

vars == <<n, len, i, m, flat>>

SendLength == len \div 2
NextLength == (len + 1) \div 2

Old(p) == <<"old", p>>
AndOf(r, k) == <<"and", r, k>>

Init ==
  /\ n \in 1 .. MaxN
  /\ len \in 1 .. MaxLength
  /\ i = 0 /\ m = 0
  /\ flat = [p \in 0 .. n * len - 1 |-> Old(p)]

\* Mutant: the old bit is looked up with the new row length.
CopyLastNarrow ==
  /\ i < n
  /\ 2 * m = len - 1
  /\ flat' = [flat EXCEPT ![i * NextLength + m] = flat[i * NextLength + 2 * m]]
  /\ i' = i + 1 /\ m' = 0
  /\ UNCHANGED <<n, len>>

\* j = curLength - 1: copy the last bit of the row.
CopyLast ==
  /\ i < n
  /\ 2 * m = len - 1
  /\ flat' = [flat EXCEPT ![i * NextLength + m] = flat[i * len + 2 * m]]
  /\ i' = i + 1 /\ m' = 0
  /\ UNCHANGED <<n, len>>

\* Mutant: rows keep their old length.
StoreAndWide ==
  /\ i < n
  /\ 2 * m < len - 1
  /\ flat' = [flat EXCEPT ![i * len + m] = AndOf(i, m)]
  /\ IF 2 * m + 2 < len
     THEN m' = m + 1 /\ i' = i
     ELSE m' = 0 /\ i' = i + 1
  /\ UNCHANGED <<n, len>>

\* Otherwise: store the AND of the pair.
StoreAnd ==
  /\ i < n
  /\ 2 * m < len - 1
  /\ flat' = [flat EXCEPT ![i * NextLength + m] = AndOf(i, m)]
  /\ IF 2 * m + 2 < len
     THEN m' = m + 1 /\ i' = i
     ELSE m' = 0 /\ i' = i + 1
  /\ UNCHANGED <<n, len>>

Finished == i = n

Terminated == Finished /\ UNCHANGED vars

Next == CopyLast \/ StoreAnd \/ Terminated

Spec == Init /\ [][Next]_vars

-----------------------------------------------------------------------------
(* Properties. *)

\* What Combine0 / Combine1 of Peqt put into column k of row r.
Wanted(r, k) == IF k < SendLength THEN AndOf(r, k) ELSE Old(r * len + len - 1)

\* After the loop every row holds its new columns at its new place: no
\* write ever hits a bit that a later row still has to copy.
InPlaceCorrect ==
  Finished => \A r \in 0 .. n - 1 : \A k \in 0 .. NextLength - 1 :
                flat[r * NextLength + k] = Wanted(r, k)

\* Types, the position reached, and the split of the vector at that
\* position: new columns before it, untouched old bits from there on.
LayoutInv ==
  /\ n \in Nat \ {0} /\ len \in Nat \ {0}
  /\ i \in 0 .. n /\ m \in Nat
  /\ (i < n => 2 * m < len) /\ (i = n => m = 0)
  /\ DOMAIN flat = 0 .. n * len - 1
  /\ \A r \in 0 .. n - 1, k \in 0 .. NextLength - 1 :
       (r < i \/ (r = i /\ k < m)) => flat[r * NextLength + k] = Wanted(r, k)
  /\ \A p \in 0 .. n * len - 1 : p >= i * NextLength + m => flat[p] = Old(p)
=============================================================================
