-------------------------------- MODULE Field -------------------------------
(***************************************************************************)
(* The arithmetic the OKVS is built on.  Blocks are elements of GF(2^128)  *)
(* and strings of 128 bits at once; here they are elements of GF(2^4) and  *)
(* strings of 4 bits, with the same two readings.                          *)
(***************************************************************************)
EXTENDS Naturals, Sequences, SequencesExt, FiniteSetsExt
LOCAL INSTANCE Bitwise

FieldBits == 4
Elem == 0 .. 2 ^ FieldBits - 1
Zero == 0
One == 1

\* operator^ on blocks, as a table.
XorTable == [x \in Elem |-> [y \in Elem |-> x ^^ y]]
Plus(x, y) == XorTable[x][y]

\* Powers of the generator x modulo x^4 + x + 1.
Exp == <<1, 2, 4, 8, 3, 6, 12, 11, 5, 10, 7, 14, 15, 13, 9>>
Log == [x \in Elem \ {Zero} |-> CHOOSE k \in 1 .. Len(Exp) : Exp[k] = x]

\* block::gf128Mul.
MulTable ==
  [x \in Elem |-> [y \in Elem |->
     IF x = Zero \/ y = Zero THEN Zero
     ELSE Exp[((Log[x] + Log[y] - 2) % Len(Exp)) + 1]]]
Mul(x, y) == MulTable[x][y]

\* Bit i of a block (BitIterator).
BitOf(x, i) == (x \div 2 ^ i) % 2

\* Sums over a finite set and over a sequence.
SumOver(S, f(_)) == FoldSet(LAMBDA e, acc : Plus(f(e), acc), Zero, S)
SumSeq(s) == FoldLeft(Plus, Zero, s)

\* d, d^2, ..., d^k as the running products x = x.gf128Mul(d).
Powers(d, k) ==
  FoldLeft(LAMBDA acc, i : Append(acc, Mul(acc[i - 1], d)), <<d>>,
           [i \in 1 .. k - 1 |-> i + 1])

-----------------------------------------------------------------------------

\* x squared k times.
Squared(x, k) == FoldLeft(LAMBDA acc, i : Mul(acc, acc), x, [i \in 1 .. k |-> i])

\* The addition chain of gf128Inv: with 2^r bits the loop runs for i < r and
\* ends with x^(2^(2^r) - 2).
ChainSteps == 2
FieldInv(x) ==
  LET step(acc, i) ==
        LET b == Squared(acc.a, 2 ^ i)
        IN [a |-> Mul(acc.a, b), result |-> IF i = 0 THEN b ELSE Mul(acc.result, b)]
  IN FoldLeft(step, [a |-> x, result |-> Zero], [i \in 1 .. ChainSteps |-> i - 1]).result

Swap(M, i, j) == [M EXCEPT ![i] = M[j], ![j] = M[i]]

\* The row to take for a zero on the diagonal: the next lower one that has a
\* ONE there; other non-zero entries are not taken.
PivotRow(M, i) ==
  LET found == {j \in i + 1 .. Len(M) : M[j][i] = One}
  IN IF M[i][i] = Zero /\ found # {} THEN Min(found) ELSE i

\* Row i of N times x, and that row taken c[j] times off every other row j.
Clear(N, i, x, c) ==
  [j \in DOMAIN N |-> [k \in DOMAIN N |->
     IF j = i THEN Mul(N[i][k], x) ELSE Plus(N[j][k], Mul(Mul(N[i][k], x), c[j]))]]

\* Column i of M becomes a unit column; V goes along.
Eliminate(M, V, i) ==
  IF M[i][i] = Zero THEN [ok |-> FALSE, m |-> M, v |-> V]
  ELSE [ok |-> TRUE,
        m |-> Clear(M, i, FieldInv(M[i][i]), [j \in DOMAIN M |-> M[j][i]]),
        v |-> Clear(V, i, FieldInv(M[i][i]), [j \in DOMAIN M |-> M[j][i]])]

EliminateStep(acc, i) ==
  IF ~acc.ok THEN acc
  ELSE Eliminate(Swap(acc.m, i, PivotRow(acc.m, i)), Swap(acc.v, i, PivotRow(acc.m, i)), i)

\* gf128Inv of a matrix by elimination; ok is FALSE if a pivot is missing
\* (the empty matrix).
MatrixInv(M) ==
  FoldLeft(EliminateStep,
           [ok |-> TRUE, m |-> M,
            v |-> [i \in DOMAIN M |-> [j \in DOMAIN M |-> IF i = j THEN One ELSE Zero]]],
           [i \in DOMAIN M |-> i])
=============================================================================
