----------------------------- MODULE PeqtProofs -----------------------------
(***************************************************************************)
(* Proofs about Peqt for every element length, batch size, input and       *)
(* choice of valid triples.                                                *)
(***************************************************************************)
EXTENDS Peqt, SequenceTheorems, TLAPS

-----------------------------------------------------------------------------
(* Bits. *)

\* The two gates return bits.
LEMMA GateType ==
  ASSUME NEW p, NEW q
  PROVE  Xor(p, q) \in Bit /\ And(p, q) \in Bit
  BY DEF Xor, And, Bit

\* Beaver's identity: from a valid triple and the opened d and e the two
\* formulas of eq0 and eq1 share the AND of the two shared bits.
LEMMA BeaverAnd ==
  ASSUME NEW t \in TripleShares,
         NEW p0 \in Bit, NEW p1 \in Bit, NEW q0 \in Bit, NEW q1 \in Bit
  PROVE  LET d == Xor(Xor(p0, t.a0), Xor(p1, t.a1))
             e == Xor(Xor(q0, t.b0), Xor(q1, t.b1))
         IN Xor(Beaver0(d, e, t), Beaver1(d, e, t))
              = And(Xor(p0, p1), Xor(q0, q1))
  <1>1. /\ t.a0 \in {0, 1} /\ t.a1 \in {0, 1} /\ t.b0 \in {0, 1}
        /\ t.b1 \in {0, 1} /\ t.c0 \in {0, 1} /\ t.c1 \in {0, 1}
    BY DEF TripleShares, Bit
  <1>2. And(Xor(t.a0, t.a1), Xor(t.b0, t.b1)) = Xor(t.c0, t.c1)
    BY DEF TripleShares
  <1> QED
    BY <1>1, <1>2, SMTT(60) DEF Beaver0, Beaver1, Xor, And, Bit

\* Opening commutes: party 1 computes d from (xa0, xa1) with its own value
\* second, party 0 with its own value first.
LEMMA XorComm ==
  ASSUME NEW p, NEW q
  PROVE  Xor(p, q) = Xor(q, p)
  BY DEF Xor

-----------------------------------------------------------------------------
(* Arithmetic of the levels and of the triple cursor. *)

\* A level of eq0 / eq1 splits curLength into the pairs it ANDs and the
\* columns it leaves.
LEMMA Halves ==
  ASSUME NEW len \in Nat, len >= 1
  PROVE  /\ SendLength(len) \in Nat
         /\ NextLength(len) \in Nat
         /\ 1 <= NextLength(len)
         /\ NextLength(len) <= len
         /\ SendLength(len) <= NextLength(len)
         /\ SendLength(len) + NextLength(len) = len
  BY DEF SendLength, NextLength

\* The triples of a level lie inside the generated ones.
LEMMA TripleInRange ==
  ASSUME NEW len \in 1 .. Length, NEW i \in Row, NEW m \in Nat,
         m < SendLength(len)
  PROVE  TripleAt(N * (Length - len), len, i, m) \in TripleIdx
  <1> DEFINE s == SendLength(len)
  <1>1. s \in Nat /\ s <= len /\ s + 1 <= len
    BY LengthAssumption DEF SendLength
  <1>2. N \in Nat /\ i \in Nat /\ i < N /\ Length \in Nat
    BY NAssumption, LengthAssumption DEF Row
  <1>3. i * s + m < N * s
    BY <1>1, <1>2
  <1>4. i * s + m \in Nat /\ N * s \in Nat
    BY <1>1, <1>2
  <1>5. N * (Length - len) + N * s <= N * Length
    <2>1. Length - len \in Nat /\ Length - len + s \in Nat
      BY <1>1, <1>2
    <2>2. N * (Length - len) + N * s = N * (Length - len + s)
      BY <1>1, <1>2, <2>1
    <2>3. Length - len + s <= Length
      BY <1>1, <1>2
    <2>4. N * (Length - len + s) <= N * Length
      BY <1>2, <2>1, <2>3
    <2> QED BY <2>2, <2>4
  <1>6. N * (Length - len) \in Nat /\ N * Length \in Nat
    BY <1>2
  <1> HIDE DEF s
  <1>7. N * (Length - len) + i * s + m \in 0 .. N * Length - 1
    BY <1>3, <1>4, <1>5, <1>6, <1>2, <1>1
  <1> QED
    BY <1>7 DEF TripleAt, TripleIdx, NumTriples, s

\* One level moves the start of the next level by N times the ANDs done.
LEMMA CursorStep ==
  ASSUME NEW len \in 1 .. Length
  PROVE  N * (Length - len) + N * SendLength(len) = N * (Length - NextLength(len))
  <1>1. SendLength(len) \in Nat /\ NextLength(len) \in Nat
        /\ SendLength(len) = len - NextLength(len)
    BY Halves, LengthAssumption
  <1>2. N \in Nat /\ Length \in Nat
    BY NAssumption, LengthAssumption
  <1> QED
    BY <1>1, <1>2

\* The start of a level is a cursor position inside the generated triples.
LEMMA CursorBound ==
  ASSUME NEW len \in 1 .. Length
  PROVE  N * (Length - len) \in 0 .. NumTriples
  <1>1. N \in Nat /\ Length \in Nat /\ Length - len \in Nat /\ Length - len <= Length
    BY NAssumption, LengthAssumption
  <1>2. N * (Length - len) \in Nat /\ N * Length \in Nat
    BY <1>1
  <1>3. N * (Length - len) <= N * Length
    BY <1>1
  <1> QED
    BY <1>2, <1>3 DEF NumTriples

\* Halving the columns pays for one level.
LEMMA LevelStep ==
  ASSUME NEW k \in 0 .. LengthLevel, k < LengthLevel,
         NEW len \in Nat, len <= 2^(LengthLevel - k)
  PROVE  NextLength(len) <= 2^(LengthLevel - (k + 1))
  <1> DEFINE r == LengthLevel - k
  <1>1. r \in 0 .. LengthLevel /\ r > 0 /\ r - 1 \in 0 .. LengthLevel
    BY LevelAssumption
  <1>2. 2^r = 2 * 2^(r - 1) /\ 2^(r - 1) \in Nat
    BY <1>1, PowerFacts
  <1>3. LengthLevel - (k + 1) = r - 1
    BY LevelAssumption
  <1>4. NextLength(len) <= 2^(r - 1)
    BY <1>2 DEF NextLength
  <1> QED
    BY <1>3, <1>4

-----------------------------------------------------------------------------
(* One level of the AND tree. *)

Rows == [Row -> [Col -> Bit]]

\* A column of the next level comes from columns of this one.
LEMMA Columns ==
  ASSUME NEW len \in 1 .. Length, NEW m \in Nat
  PROVE  /\ m < SendLength(len) => 2*m \in Col /\ 2*m + 1 \in Col
                                   /\ 2*m < len /\ 2*m + 1 < len
         /\ m < NextLength(len) => 2*m \in Col /\ 2*m < len
         /\ ~(m < SendLength(len)) /\ m < NextLength(len) => 2*m + 1 = len
  BY LengthAssumption DEF SendLength, NextLength, Col

\* The masked vectors xa and yb are bit vectors.
LEMMA MaskType ==
  ASSUME NEW r \in Rows, NEW len, NEW cur
  PROVE  Mask0(r, len, cur) \in Masks /\ Mask1(r, len, cur) \in Masks
  BY GateType DEF Mask0, Mask1, Masks, Rows, Bit

\* The second loop of a level leaves bits in every column.
LEMMA CombineType ==
  ASSUME NEW r \in Rows, NEW len \in 1 .. Length, NEW cur,
         NEW own, NEW other
  PROVE  /\ Combine0(r, len, cur, own, other) \in Rows
         /\ Combine1(r, len, cur, own, other) \in Rows
  <1>1. ASSUME NEW i \in Row, NEW m \in Col, m < NextLength(len)
        PROVE  r[i][2*m] \in Bit
    <2>1. 2*m \in Col
      BY <1>1, Columns DEF Col
    <2> QED BY <2>1 DEF Rows
  <1>2. \A d, e, t : Beaver0(d, e, t) \in Bit /\ Beaver1(d, e, t) \in Bit
    BY GateType DEF Beaver0, Beaver1
  <1>3. ASSUME NEW i \in Row, NEW m \in Col
        PROVE  r[i][m] \in Bit
    BY DEF Rows
  <1> QED
    BY <1>1, <1>2, <1>3 DEF Combine0, Combine1, Rows

\* A level replaces each pair of columns by a sharing of their AND and
\* keeps a last odd column, so it keeps "all columns open to one".
LEMMA LevelKeepsAnswer ==
  ASSUME triples \in [TripleIdx -> TripleShares],
         NEW r0 \in Rows, NEW r1 \in Rows,
         NEW len \in 1 .. Length, NEW i \in Row
  PROVE  LET st == N * (Length - len)
             m0 == Mask0(r0, len, st)
             m1 == Mask1(r1, len, st)
             c0 == Combine0(r0, len, st, m0, m1)
             c1 == Combine1(r1, len, st, m1, m0)
         IN (\A j \in 0 .. NextLength(len) - 1 : Xor(c0[i][j], c1[i][j]) = 1)
              <=> (\A j \in 0 .. len - 1 : Xor(r0[i][j], r1[i][j]) = 1)
  <1> DEFINE st == N * (Length - len)
             m0 == Mask0(r0, len, st)
             m1 == Mask1(r1, len, st)
             c0 == Combine0(r0, len, st, m0, m1)
             c1 == Combine1(r1, len, st, m1, m0)
  <1> HIDE DEF c0, c1, m0, m1
  <1>h. /\ SendLength(len) \in Nat /\ NextLength(len) \in Nat
        /\ 1 <= NextLength(len) /\ NextLength(len) <= len
        /\ SendLength(len) <= NextLength(len)
        /\ len \in Nat /\ len <= Length /\ Length \in Nat
    BY Halves, LengthAssumption
  <1>1. ASSUME NEW m \in Nat, m < SendLength(len)
        PROVE  Xor(c0[i][m], c1[i][m])
                 = And(Xor(r0[i][2*m], r1[i][2*m]), Xor(r0[i][2*m+1], r1[i][2*m+1]))
    <2> DEFINE t == triples[TripleAt(st, len, i, m)]
               d == Xor(Xor(r0[i][2*m], t.a0), Xor(r1[i][2*m], t.a1))
               e == Xor(Xor(r0[i][2*m+1], t.b0), Xor(r1[i][2*m+1], t.b1))
    <2>1. t \in TripleShares
      BY <1>1, TripleInRange
    <2>2. m \in Col /\ 2*m \in Col /\ 2*m + 1 \in Col
      BY <1>1, <1>h, Columns DEF Col
    <2>3. /\ r0[i][2*m] \in Bit /\ r1[i][2*m] \in Bit
          /\ r0[i][2*m+1] \in Bit /\ r1[i][2*m+1] \in Bit
      BY <2>2 DEF Rows
    <2>4. /\ m0.xa[i][m] = Xor(r0[i][2*m], t.a0)
          /\ m0.yb[i][m] = Xor(r0[i][2*m+1], t.b0)
          /\ m1.xa[i][m] = Xor(r1[i][2*m], t.a1)
          /\ m1.yb[i][m] = Xor(r1[i][2*m+1], t.b1)
      BY <1>1, <2>2 DEF Mask0, Mask1, m0, m1
    <2>5. /\ c0[i][m] = Beaver0(Xor(m0.xa[i][m], m1.xa[i][m]),
                                Xor(m0.yb[i][m], m1.yb[i][m]), t)
          /\ c1[i][m] = Beaver1(Xor(m1.xa[i][m], m0.xa[i][m]),
                                Xor(m1.yb[i][m], m0.yb[i][m]), t)
      BY <1>1, <2>2 DEF Combine0, Combine1, c0, c1
    <2>6. c0[i][m] = Beaver0(d, e, t) /\ c1[i][m] = Beaver1(d, e, t)
      BY <2>4, <2>5, XorComm
    <2>7. Xor(Beaver0(d, e, t), Beaver1(d, e, t))
            = And(Xor(r0[i][2*m], r1[i][2*m]), Xor(r0[i][2*m+1], r1[i][2*m+1]))
      <3> DEFINE p0 == r0[i][2*m]
                 p1 == r1[i][2*m]
                 q0 == r0[i][2*m+1]
                 q1 == r1[i][2*m+1]
      <3>1. p0 \in Bit /\ p1 \in Bit /\ q0 \in Bit /\ q1 \in Bit
        BY <2>3
      <3> HIDE DEF p0, p1, q0, q1, t
      <3>2. LET dd == Xor(Xor(p0, t.a0), Xor(p1, t.a1))
                ee == Xor(Xor(q0, t.b0), Xor(q1, t.b1))
            IN Xor(Beaver0(dd, ee, t), Beaver1(dd, ee, t)) = And(Xor(p0, p1), Xor(q0, q1))
        BY <2>1, <3>1, BeaverAnd
      <3> QED BY <3>2 DEF p0, p1, q0, q1
    <2> QED
      BY <2>6, <2>7
  <1>2. ASSUME NEW m \in Nat, ~(m < SendLength(len)), m < NextLength(len)
        PROVE  Xor(c0[i][m], c1[i][m]) = Xor(r0[i][2*m], r1[i][2*m])
    <2>1. m \in Col
      BY <1>2, <1>h DEF Col
    <2> QED
      BY <1>2, <2>1 DEF Combine0, Combine1, c0, c1
  <1>3. ASSUME \A j \in 0 .. len - 1 : Xor(r0[i][j], r1[i][j]) = 1,
               NEW j \in 0 .. NextLength(len) - 1
        PROVE  Xor(c0[i][j], c1[i][j]) = 1
    <2>0. j \in Nat /\ j < NextLength(len)
      BY <1>h
    <2>1. CASE j < SendLength(len)
      <3>1. 2*j \in 0 .. len - 1 /\ 2*j + 1 \in 0 .. len - 1
        BY <2>1, <2>0, <1>h, Columns
      <3> QED BY <1>1, <1>3, <2>0, <2>1, <3>1 DEF And
    <2>2. CASE ~(j < SendLength(len))
      <3>1. 2*j \in 0 .. len - 1
        BY <2>2, <2>0, <1>h, Columns
      <3> QED BY <1>2, <1>3, <2>0, <2>2, <3>1
    <2> QED BY <2>1, <2>2
  <1>4. ASSUME \A j \in 0 .. NextLength(len) - 1 : Xor(c0[i][j], c1[i][j]) = 1,
               NEW j \in 0 .. len - 1
        PROVE  Xor(r0[i][j], r1[i][j]) = 1
    <2> DEFINE m == j \div 2
    <2>1. m \in Nat /\ m < NextLength(len) /\ (j = 2*m \/ j = 2*m + 1)
      BY <1>h DEF NextLength
    <2> HIDE DEF m
    <2>2. Xor(c0[i][m], c1[i][m]) = 1
      BY <1>4, <2>1, <1>h
    <2>3. CASE m < SendLength(len)
      <3>1. /\ Xor(r0[i][2*m], r1[i][2*m]) = 1
            /\ Xor(r0[i][2*m+1], r1[i][2*m+1]) = 1
        BY <1>1, <2>1, <2>2, <2>3 DEF And
      <3> QED BY <2>1, <3>1
    <2>4. CASE ~(m < SendLength(len))
      <3>1. 2*m + 1 = len
        BY <2>1, <2>4, Columns
      <3>2. j = 2*m
        BY <2>1, <3>1, <1>h
      <3> QED BY <1>2, <2>1, <2>2, <2>4, <3>2
    <2> QED BY <2>3, <2>4
  <1>5. (\A j \in 0 .. NextLength(len) - 1 : Xor(c0[i][j], c1[i][j]) = 1)
          <=> (\A j \in 0 .. len - 1 : Xor(r0[i][j], r1[i][j]) = 1)
    BY <1>3, <1>4
  <1> QED
    BY <1>5 DEF c0, c1, m0, m1

-----------------------------------------------------------------------------
(* The inductive invariant. *)

\* Party 0's bits and party 1's complemented bits share the bitwise
\* equality, so the invariant holds when eq0 and eq1 start.
LEMMA InitIInv == Init => IInv
  <1> SUFFICES ASSUME Init PROVE IInv
    OBVIOUS
  <1> USE DEF Init
  <1>1. x \in Rows /\ y \in Rows
    BY InputAssumption DEF Rows
  <1>2. res0 \in Rows /\ res1 \in Rows
    BY <1>1, GateType DEF Rows, Complement
  <1>3. NoMask \in Masks
    BY DEF NoMask, Masks, Bit
  <1>4. 0 \in 0 .. NumTriples
    BY NAssumption, LengthAssumption DEF NumTriples
  <1>5. TypeOK
    BY <1>1, <1>2, <1>3, <1>4, TripleAssumption, LengthAssumption, LevelAssumption
       DEF TypeOK, Rows
  <1>6. CursorInv
    BY NAssumption, LengthAssumption DEF CursorInv, Start0, Start1
  <1>7. LevelInv
    BY LevelAssumption DEF LevelInv
  <1>8. MaskInv
    BY DEF MaskInv
  <1>9. Lockstep
    BY DEF Lockstep
  <1>10. SharingInv
    <2>1. /\ EffLen0 = Length /\ EffLen1 = Length
          /\ Eff0 = x /\ Eff1 = Complement(y)
      BY DEF EffLen0, EffLen1, Eff0, Eff1, Settled0
    <2>2. ASSUME NEW i \in Row
          PROVE  (\A j \in 0 .. Length - 1 : Xor(x[i][j], Complement(y)[i][j]) = 1)
                   <=> x[i] = y[i]
      <3>1. x[i] \in [Col -> Bit] /\ y[i] \in [Col -> Bit]
        BY <1>1 DEF Rows
      <3>2. \A j \in Col : Xor(x[i][j], Complement(y)[i][j]) = 1 <=> x[i][j] = y[i][j]
        BY <3>1 DEF Complement, Xor, Bit
      <3>3. (\A j \in Col : x[i][j] = y[i][j]) <=> x[i] = y[i]
        BY <3>1
      <3> QED BY <3>2, <3>3 DEF Col
    <2> QED BY <2>1, <2>2 DEF SharingInv
  <1> QED
    BY <1>5, <1>6, <1>7, <1>8, <1>9, <1>10 DEF IInv

\* Facts about a level that every action's case uses.
LEMMA LevelFacts ==
  ASSUME TypeOK
  PROVE  /\ res0 \in Rows /\ res1 \in Rows
         /\ N \in Nat /\ Length \in Nat
         /\ \A len \in 1 .. Length :
              /\ SendLength(len) \in Nat
              /\ N * SendLength(len) \in Nat
              /\ NextLength(len) \in 1 .. Length
  <1>1. N \in Nat /\ Length \in Nat
    BY NAssumption, LengthAssumption
  <1>2. ASSUME NEW len \in 1 .. Length
        PROVE  /\ SendLength(len) \in Nat
               /\ N * SendLength(len) \in Nat
               /\ NextLength(len) \in 1 .. Length
    <2>1. /\ SendLength(len) \in Nat
          /\ NextLength(len) \in 1 .. Length
      BY <1>1, Halves
    <2> QED BY <1>1, <2>1
  <1> QED
    BY <1>1, <1>2 DEF TypeOK, Rows

\* The two messages of a level form a sequence of messages.
LEMMA PairSeq ==
  ASSUME NEW S, NEW p \in S, NEW q \in S
  PROVE  <<p, q>> \in Seq(S)
  OBVIOUS

\* Receiving both messages of a level empties the socket.
LEMMA TwoReceived ==
  ASSUME NEW p, NEW q, NEW ch, ch = <<p, q>>
  PROVE  /\ Len(ch) = 2 /\ ch[1] = p /\ ch[2] = q /\ ch # <<>>
         /\ SubSeq(ch, 3, Len(ch)) = <<>>
  <1>1. Len(ch) = 2 /\ ch[1] = p /\ ch[2] = q /\ ch # <<>>
    OBVIOUS
  <1>2. SubSeq(ch, 3, 2) = <<>>
    BY SubSeqEmpty
  <1> QED
    BY <1>1, <1>2

\* eq0 masking and sending a level keeps the invariant.
LEMMA Send0Keeps == IInv /\ Send0 => IInv'
  <1> SUFFICES ASSUME IInv, Send0 PROVE IInv'
    OBVIOUS
  <1> USE DEF IInv, Send0
  <1>f. /\ res0 \in Rows /\ N \in Nat /\ Length \in Nat
        /\ SendLength(len0) \in Nat /\ N * SendLength(len0) \in Nat
        /\ NextLength(len0) \in 1 .. Length
        /\ cur0 \in Nat
    BY LevelFacts DEF TypeOK, NumTriples
  <1>m. own0' \in Masks /\ own0' = Mask0(res0, len0, cur0)
    BY <1>f, MaskType
  <1>c. Start0 = cur0 /\ Start0' = cur0
    BY <1>f DEF Start0
  <1>1. TypeOK'
    <2>1. cur0' \in 0 .. NumTriples
      BY <1>f, <1>c, CursorStep, CursorBound DEF CursorInv, TypeOK
    <2>2. ch01' \in Seq([Row -> [Col -> Bit]])
      BY <1>m DEF TypeOK, Masks
    <2> QED BY <1>m, <2>1, <2>2 DEF TypeOK
  <1>2. CursorInv'
    BY <1>c DEF CursorInv, Start1
  <1>3. LevelInv'
    BY DEF LevelInv
  <1>4. MaskInv'
    BY <1>c, <1>m DEF MaskInv, Mask0, Mask1, Start1
  <1>5. Lockstep'
    <2>1. ch01 = <<>> => ch01' = <<own0'.xa, own0'.yb>>
      OBVIOUS
    <2>2. pc1 # "done" \/ k1 = LengthLevel
      BY DEF MaskInv
    <2>3. k0 \in Nat /\ k1 \in Nat /\ LengthLevel \in Nat /\ k1 <= LengthLevel
      BY LevelAssumption DEF TypeOK
    <2>4. pc1 \in {"recv", "combine", "done"}
      BY DEF TypeOK
    <2>5. CASE k0 = k1 /\ pc1 # "combine" /\ ch01 = <<>> /\ ch10 = <<>>
      BY <2>1, <2>2, <2>3, <2>4, <2>5 DEF Lockstep
    <2>6. CASE k0 = k1 + 1 /\ pc1 = "combine" /\ ch01 = <<>> /\ ch10 = <<>>
      BY <2>1, <2>6 DEF Lockstep
    <2> QED BY <2>5, <2>6 DEF Lockstep
  <1>6. SharingInv'
    <2>1. ~Settled0 /\ ~Settled0'
      BY DEF Lockstep, Settled0
    <2>2. /\ Eff0' = Eff0 /\ Eff1' = Eff1
          /\ EffLen0' = EffLen0 /\ EffLen1' = EffLen1
      BY <2>1 DEF Eff0, Eff1, EffLen0, EffLen1, Start1, Combine1
    <2> QED BY <2>2 DEF SharingInv
  <1> QED
    BY <1>1, <1>2, <1>3, <1>4, <1>5, <1>6

\* eq0 combining a level with the answer of eq1 keeps the invariant: its
\* effective rows do not change.
LEMMA Finish0Keeps == IInv /\ Finish0 => IInv'
  <1> SUFFICES ASSUME IInv, Finish0 PROVE IInv'
    OBVIOUS
  <1> USE DEF IInv, Finish0
  <1>f. /\ res0 \in Rows /\ N \in Nat /\ Length \in Nat
        /\ SendLength(len0) \in Nat /\ N * SendLength(len0) \in Nat
        /\ NextLength(len0) \in 1 .. Length /\ len0 \in 1 .. Length
        /\ cur0 \in Nat /\ k0 < LengthLevel
    BY LevelFacts DEF TypeOK, NumTriples, MaskInv
  <1>c. Start0 = cur0 - N * SendLength(len0) /\ Start0' = cur0 /\ cur0' = cur0
    BY <1>f DEF Start0
  <1>n. ch10 = <<own1.xa, own1.yb>>
    BY DEF Lockstep
  <1>m. ch10' = <<>> /\ Settled0 /\ ~Settled0'
    BY <1>n, TwoReceived DEF Settled0
  <1>r. res0' = Eff0 /\ len0' = EffLen0
    BY <1>c, <1>m DEF Eff0, EffLen0
  <1>1. TypeOK'
    <2>1. res0' \in Rows
      BY <1>f, CombineType
    <2>2. k0' \in 0 .. LengthLevel
      BY <1>f, LevelAssumption DEF TypeOK
    <2>3. ch10' \in Seq([Row -> [Col -> Bit]])
      BY <1>m, EmptySeq
    <2> QED BY <1>f, <1>c, <2>1, <2>2, <2>3 DEF TypeOK, Rows
  <1>2. CursorInv'
    <2>1. Start0' = N * (Length - NextLength(len0))
      BY <1>f, <1>c, CursorStep DEF CursorInv
    <2> QED BY <2>1 DEF CursorInv, Start1
  <1>3. LevelInv'
    BY <1>f, LevelStep DEF LevelInv, TypeOK
  <1>4. MaskInv'
    BY DEF MaskInv, Mask1, Start1
  <1>5. Lockstep'
    BY <1>m DEF Lockstep, TypeOK
  <1>6. SharingInv'
    <2>2. /\ Eff0' = Eff0 /\ Eff1' = Eff1
          /\ EffLen0' = EffLen0 /\ EffLen1' = EffLen1
      BY <1>m, <1>r DEF Eff0, Eff1, EffLen0, EffLen1, Start1, Combine1
    <2> QED BY <2>2 DEF SharingInv
  <1> QED
    BY <1>1, <1>2, <1>3, <1>4, <1>5, <1>6

\* The return of eq0 keeps the invariant.
LEMMA Return0Keeps == IInv /\ Return0 => IInv'
  <1> SUFFICES ASSUME IInv, Return0 PROVE IInv'
    OBVIOUS
  <1> USE DEF IInv, Return0
  <1>c. Start0' = Start0 /\ ~Settled0 /\ ~Settled0'
    BY DEF Start0, Settled0
  <1>1. TypeOK'
    BY DEF TypeOK
  <1>2. CursorInv'
    BY <1>c DEF CursorInv, Start1
  <1>3. LevelInv'
    BY DEF LevelInv
  <1>4. MaskInv'
    BY <1>c DEF MaskInv, Mask1, Start1
  <1>5. Lockstep'
    BY DEF Lockstep
  <1>6. SharingInv'
    <2>2. /\ Eff0' = Eff0 /\ Eff1' = Eff1
          /\ EffLen0' = EffLen0 /\ EffLen1' = EffLen1
      BY <1>c DEF Eff0, Eff1, EffLen0, EffLen1, Start1, Combine1
    <2> QED BY <2>2 DEF SharingInv
  <1> QED
    BY <1>1, <1>2, <1>3, <1>4, <1>5, <1>6

\* The step that does the work: from here on both parties' effective rows
\* are those of the next level.
LEMMA Respond1Keeps == IInv /\ Respond1 => IInv'
  <1> SUFFICES ASSUME IInv, Respond1 PROVE IInv'
    OBVIOUS
  <1> USE DEF IInv, Respond1
  <1>f. /\ res0 \in Rows /\ res1 \in Rows /\ N \in Nat /\ Length \in Nat
        /\ SendLength(len1) \in Nat /\ N * SendLength(len1) \in Nat
        /\ NextLength(len1) \in 1 .. Length /\ len1 \in 1 .. Length
        /\ cur1 \in Nat /\ len0 \in 1 .. Length
    BY LevelFacts DEF TypeOK, NumTriples
  <1>p. /\ k0 = k1 /\ pc0 = "wait" /\ ch01 = <<own0.xa, own0.yb>> /\ ch10 = <<>>
    BY DEF Lockstep
  <1>n. ch01' = <<>> /\ other1' = own0
    <2>1. other1' = [xa |-> own0.xa, yb |-> own0.yb] /\ ch01' = <<>>
      BY <1>p, TwoReceived
    <2>2. own0 \in Masks
      BY DEF TypeOK
    <2> QED BY <2>1, <2>2 DEF Masks
  <1>m. own1' \in Masks /\ own1' = Mask1(res1, len1, cur1)
    BY <1>f, MaskType
  <1>o. ch10' = <<own1'.xa, own1'.yb>>
    BY <1>p
  <1>c. Start1 = cur1 /\ Start1' = cur1 /\ Start0' = Start0
    BY <1>f DEF Start1, Start0
  <1>l. /\ ~Settled0 /\ Settled0' /\ len0 = len1
        /\ Eff0 = res0 /\ Eff1 = res1
        /\ EffLen0 = len1 /\ EffLen1 = len1
    <2>1. ~Settled0 /\ Settled0'
      BY <1>p, <1>o DEF Settled0
    <2> QED BY <2>1 DEF SharingInv, EffLen0, EffLen1, Eff0, Eff1
  <1>1. TypeOK'
    <2>1. cur1' \in 0 .. NumTriples
      BY <1>f, <1>c, CursorStep, CursorBound DEF CursorInv, TypeOK
    <2>2. ch10' \in Seq([Row -> [Col -> Bit]])
      <3>1. own1'.xa \in [Row -> [Col -> Bit]] /\ own1'.yb \in [Row -> [Col -> Bit]]
        BY <1>m DEF Masks
      <3>2. <<own1'.xa, own1'.yb>> \in Seq([Row -> [Col -> Bit]])
        BY <3>1, PairSeq, Zenon
      <3> QED BY <1>o, <3>2, Zenon
    <2>3. ch01' \in Seq([Row -> [Col -> Bit]]) /\ other1' \in Masks
      BY <1>n, EmptySeq DEF TypeOK
    <2> QED BY <1>m, <2>1, <2>2, <2>3 DEF TypeOK
  <1>2. CursorInv'
    BY <1>c DEF CursorInv
  <1>3. LevelInv'
    BY DEF LevelInv
  <1>4. MaskInv'
    BY <1>c, <1>m DEF MaskInv, Mask0, Mask1
  <1>5. Lockstep'
    BY <1>p, <1>n, <1>o DEF Lockstep
  <1>6. SharingInv'
    <2> DEFINE st == N * (Length - len1)
               m0 == Mask0(res0, len1, st)
               m1 == Mask1(res1, len1, st)
               c0 == Combine0(res0, len1, st, m0, m1)
               c1 == Combine1(res1, len1, st, m1, m0)
    <2>1. Start0 = st /\ Start1 = st
      BY <1>l DEF CursorInv
    <2>2. own0 = m0 /\ own1' = m1
      BY <1>p, <1>l, <1>m, <1>c, <2>1 DEF MaskInv
    <2>3. [xa |-> ch10'[1], yb |-> ch10'[2]] = m1
      <3>1. ch10'[1] = own1'.xa /\ ch10'[2] = own1'.yb
        BY <1>o, TwoReceived
      <3>2. own1' = [xa |-> own1'.xa, yb |-> own1'.yb]
        BY <1>m DEF Masks
      <3> QED BY <3>1, <3>2, <2>2
    <2>4. Eff0' = c0
      <3>1. Eff0' = Combine0(res0, len0, Start0, own0, [xa |-> ch10'[1], yb |-> ch10'[2]])
        BY <1>l, <1>c DEF Eff0, Combine0
      <3> QED BY <3>1, <1>l, <2>1, <2>2, <2>3
    <2>5. Eff1' = c1
      <3>1. Eff1' = Combine1(res1, len1, cur1, own1', own0)
        BY <1>c, <1>n DEF Eff1, Combine1
      <3> QED BY <3>1, <1>c, <2>1, <2>2
    <2>6. EffLen0' = NextLength(len1) /\ EffLen1' = NextLength(len1)
      BY <1>l DEF EffLen0, EffLen1
    <2>7. ASSUME NEW i \in Row
          PROVE  (\A j \in 0 .. NextLength(len1) - 1 : Xor(c0[i][j], c1[i][j]) = 1)
                   <=> (\A j \in 0 .. len1 - 1 : Xor(res0[i][j], res1[i][j]) = 1)
      <3>1. triples \in [TripleIdx -> TripleShares]
        BY DEF TypeOK
      <3> QED BY <1>f, <3>1, LevelKeepsAnswer
    <2>8. ASSUME NEW i \in Row
          PROVE  (\A j \in 0 .. len1 - 1 : Xor(res0[i][j], res1[i][j]) = 1)
                   <=> x[i] = y[i]
      BY <1>l DEF SharingInv
    <2> HIDE DEF c0, c1
    <2> QED
      BY <2>4, <2>5, <2>6, <2>7, <2>8 DEF SharingInv
  <1> QED
    BY <1>1, <1>2, <1>3, <1>4, <1>5, <1>6

\* eq1 combining a level keeps the invariant: its effective rows do not
\* change.
LEMMA Finish1Keeps == IInv /\ Finish1 => IInv'
  <1> SUFFICES ASSUME IInv, Finish1 PROVE IInv'
    OBVIOUS
  <1> USE DEF IInv, Finish1
  <1>f. /\ res1 \in Rows /\ N \in Nat /\ Length \in Nat
        /\ SendLength(len1) \in Nat /\ N * SendLength(len1) \in Nat
        /\ NextLength(len1) \in 1 .. Length /\ len1 \in 1 .. Length
        /\ cur1 \in Nat /\ k1 < LengthLevel
    BY LevelFacts DEF TypeOK, NumTriples, MaskInv
  <1>c. Start1 = cur1 - N * SendLength(len1) /\ Start1' = cur1 /\ cur1' = cur1
    BY <1>f DEF Start1
  <1>r. res1' = Eff1 /\ len1' = EffLen1
    BY <1>c DEF Eff1, EffLen1
  <1>s. Settled0' = Settled0 /\ Start0' = Start0
    BY DEF Settled0, Start0
  <1>1. TypeOK'
    <2>1. res1' \in Rows
      BY <1>f, CombineType
    <2>2. k1' \in 0 .. LengthLevel
      BY <1>f, LevelAssumption DEF TypeOK
    <2> QED BY <1>f, <1>c, <2>1, <2>2 DEF TypeOK, Rows
  <1>2. CursorInv'
    <2>1. Start1' = N * (Length - NextLength(len1))
      BY <1>f, <1>c, CursorStep DEF CursorInv
    <2> QED BY <2>1, <1>s DEF CursorInv
  <1>3. LevelInv'
    BY <1>f, LevelStep DEF LevelInv, TypeOK
  <1>4. MaskInv'
    BY <1>s DEF MaskInv, Mask0
  <1>5. Lockstep'
    <2>1. k0 \in Nat /\ k1 \in Nat
      BY DEF TypeOK
    <2> QED BY <2>1 DEF Lockstep
  <1>6. SharingInv'
    <2>2. /\ Eff0' = Eff0 /\ Eff1' = Eff1
          /\ EffLen0' = EffLen0 /\ EffLen1' = EffLen1
      BY <1>r, <1>s DEF Eff0, Eff1, EffLen0, EffLen1, Combine0
    <2> QED BY <2>2 DEF SharingInv
  <1> QED
    BY <1>1, <1>2, <1>3, <1>4, <1>5, <1>6

\* The return of eq1 keeps the invariant.
LEMMA Return1Keeps == IInv /\ Return1 => IInv'
  <1> SUFFICES ASSUME IInv, Return1 PROVE IInv'
    OBVIOUS
  <1> USE DEF IInv, Return1
  <1>c. Start1' = Start1 /\ Start0' = Start0 /\ Settled0' = Settled0
    BY DEF Start1, Start0, Settled0
  <1>1. TypeOK'
    BY DEF TypeOK
  <1>2. CursorInv'
    BY <1>c DEF CursorInv
  <1>3. LevelInv'
    BY DEF LevelInv
  <1>4. MaskInv'
    BY <1>c DEF MaskInv, Mask0
  <1>5. Lockstep'
    <2>1. ~(k0 = k1 /\ pc0 = "wait")  \/ ch01 = <<>>
      <3>1. pc0 = "wait" => k0 < LengthLevel /\ k0 \in Nat /\ LengthLevel \in Nat
        BY LevelAssumption DEF MaskInv, TypeOK
      <3> QED BY <3>1
    <2> QED BY <2>1 DEF Lockstep
  <1>6. SharingInv'
    <2>2. /\ Eff0' = Eff0 /\ Eff1' = Eff1
          /\ EffLen0' = EffLen0 /\ EffLen1' = EffLen1
      BY <1>c DEF Eff0, Eff1, EffLen0, EffLen1, Combine0
    <2> QED BY <2>2 DEF SharingInv
  <1> QED
    BY <1>1, <1>2, <1>3, <1>4, <1>5, <1>6

\* A step that changes nothing keeps the invariant.
LEMMA StutterKeeps == IInv /\ UNCHANGED vars => IInv'
  <1> SUFFICES ASSUME IInv, UNCHANGED vars PROVE IInv'
    OBVIOUS
  <1> USE DEF IInv, vars
  <1>c. Start1' = Start1 /\ Start0' = Start0 /\ Settled0' = Settled0
    BY DEF Start1, Start0, Settled0
  <1>1. TypeOK'
    BY DEF TypeOK
  <1>2. CursorInv' /\ LevelInv'
    BY <1>c DEF CursorInv, LevelInv
  <1>3. MaskInv'
    BY <1>c DEF MaskInv, Mask0, Mask1
  <1>4. Lockstep'
    BY DEF Lockstep
  <1>5. SharingInv'
    <2>1. /\ Eff0' = Eff0 /\ Eff1' = Eff1
          /\ EffLen0' = EffLen0 /\ EffLen1' = EffLen1
      BY <1>c DEF Eff0, Eff1, EffLen0, EffLen1, Combine0, Combine1
    <2> QED BY <2>1 DEF SharingInv
  <1> QED
    BY <1>1, <1>2, <1>3, <1>4, <1>5

\* The inductive invariant holds in every reachable state.
THEOREM PeqtInductive == Spec => []IInv
  <1>1. Init => IInv
    BY InitIInv
  <1>2. IInv /\ [Next]_vars => IInv'
    BY Send0Keeps, Finish0Keeps, Return0Keeps, Respond1Keeps, Finish1Keeps,
       Return1Keeps, StutterKeeps DEF Next, Terminated
  <1> QED
    BY <1>1, <1>2, PTL DEF Spec

\* Type correctness of both parties, sockets included.
THEOREM PeqtTypes == Spec => []TypeOK
  <1>1. IInv => TypeOK
    BY DEF IInv
  <1> QED
    BY <1>1, PeqtInductive, PTL

\* With both coroutines at level LengthLevel a row is down to one column.
LEMMA LastLevel ==
  ASSUME IInv
  PROVE  /\ pc0 = "done" => len0 = 1
         /\ pc1 = "done" => len1 = 1
  <1>1. LengthLevel - LengthLevel = 0 /\ 2^0 = 1
    BY LevelAssumption, PowerFacts
  <1>2. len0 \in 1 .. Length /\ len1 \in 1 .. Length
    BY DEF IInv, TypeOK
  <1>3. ASSUME pc0 = "done" PROVE len0 = 1
    <2>1. len0 <= 2^0
      BY <1>1, <1>3 DEF IInv, MaskInv, LevelInv
    <2> QED BY <1>1, <1>2, <2>1
  <1>4. ASSUME pc1 = "done" PROVE len1 = 1
    <2>1. len1 <= 2^0
      BY <1>1, <1>4 DEF IInv, MaskInv, LevelInv
    <2> QED BY <1>1, <1>2, <2>1
  <1> QED
    BY <1>3, <1>4

\* No element length makes the level loop stop early (ReducedAtReturn).
THEOREM PeqtReduced == Spec => []ReducedAtReturn
  <1>1. IInv => ReducedAtReturn
    BY LastLevel DEF ReducedAtReturn
  <1> QED
    BY <1>1, PeqtInductive, PTL

\* Neither party reads a triple that was not generated, at any level.
THEOREM PeqtTriplesInRange == Spec => []TriplesInRange
  <1>1. ASSUME NEW len \in 1 .. Length
        PROVE  N * (Length - len) + N * SendLength(len) <= NumTriples
    <2>1. NextLength(len) \in 1 .. Length
      BY Halves, LengthAssumption
    <2>2. N * (Length - NextLength(len)) \in 0 .. NumTriples
      BY <2>1, CursorBound
    <2> QED BY <2>2, CursorStep DEF NumTriples
  <1>2. ASSUME IInv PROVE TriplesInRange
    <2>1. len0 \in 1 .. Length /\ len1 \in 1 .. Length
      BY <1>2 DEF IInv, TypeOK
    <2>2. Start0 = N * (Length - len0) /\ Start1 = N * (Length - len1)
      BY <1>2 DEF IInv, MaskInv, LevelInv, CursorInv
    <2> QED BY <1>1, <2>1, <2>2 DEF TriplesInRange
  <1> QED
    BY <1>2, PeqtInductive, PTL

\* The equality test is right for every batch, element length and choice
\* of valid triples, in every interleaving of the two parties.
THEOREM PeqtIsCorrect == Spec => []PeqtCorrect
  <1>1. IInv => PeqtCorrect
    <2> SUFFICES ASSUME IInv, Done PROVE \A i \in Row : Xor(res0[i][0], res1[i][0]) = 1 <=> x[i] = y[i]
      BY DEF PeqtCorrect
    <2>1. len0 = 1 /\ len1 = 1
      BY LastLevel DEF Done
    <2>2. EffLen0 = 1 /\ Eff0 = res0 /\ Eff1 = res1
      BY <2>1 DEF Done, EffLen0, Eff0, Eff1, Settled0
    <2>3. \A i \in Row : (\A j \in 0 .. 0 : Xor(res0[i][j], res1[i][j]) = 1) <=> x[i] = y[i]
      BY <2>2 DEF IInv, SharingInv
    <2> QED BY <2>3
  <1> QED
    BY <1>1, PeqtInductive, PTL

-----------------------------------------------------------------------------
(* Refinement. *)

\* The detailed protocol implements the ideal functionality: a party's
\* return is the ideal output, every other step is a stutter.
THEOREM PeqtImplements == Spec => ImplementsIdeal
  <1>1. Init => Ideal!Init
    BY DEF Init, Ideal!Init, Returned
  <1>t. IInv => res0 \in Rows /\ res1 \in Rows
    BY DEF IInv, TypeOK, Rows
  <1>2. ASSUME IInv, IInv', PeqtCorrect', [Next]_vars
        PROVE  [Ideal!Next]_(Ideal!vars)
    <2> DEFINE o0 == Returned(pc0, res0)
               o1 == Returned(pc1, res1)
    <2>t. res0 \in Rows /\ res1 \in Rows /\ 0 \in Col
      <3>1. res0 \in Rows /\ res1 \in Rows
        BY <1>2, <1>t
      <3>2. 0 \in Col
        BY LengthAssumption DEF Col
      <3> QED BY <3>1, <3>2
    <2>1. CASE Return0
      <3>1. o0 = <<>> /\ o0' = [i \in Row |-> res0[i][0]] /\ o1' = o1
            /\ x' = x /\ y' = y /\ pc1' = pc1 /\ res1' = res1 /\ res0' = res0
        BY <2>1 DEF Return0, Returned
      <3>2. o0' \in Ideal!Shares
        BY <3>1, <2>t DEF Rows, Bit, Ideal!Shares, Ideal!Bit
      <3>3. o1 = <<>> \/ Ideal!Opens(o0', o1)
        <4>1. CASE pc1 = "done"
          <5>1. \A i \in Row : Xor(res0[i][0], res1[i][0]) = 1 <=> x[i] = y[i]
            BY <1>2, <2>1, <4>1 DEF PeqtCorrect, Done, Return0
          <5> QED BY <5>1, <3>1, <4>1 DEF Xor, Ideal!Opens, Ideal!Xor, Returned
        <4>2. CASE pc1 # "done"
          BY <4>2 DEF Returned
        <4> QED BY <4>1, <4>2
      <3> QED
        BY <3>1, <3>2, <3>3 DEF Ideal!Next, Ideal!Output0
    <2>2. CASE Return1
      <3>1. o1 = <<>> /\ o1' = [i \in Row |-> res1[i][0]] /\ o0' = o0
            /\ x' = x /\ y' = y /\ pc0' = pc0 /\ res1' = res1 /\ res0' = res0
        BY <2>2 DEF Return1, Returned
      <3>2. o1' \in Ideal!Shares
        BY <3>1, <2>t DEF Rows, Bit, Ideal!Shares, Ideal!Bit
      <3>3. o0 = <<>> \/ Ideal!Opens(o0, o1')
        <4>1. CASE pc0 = "done"
          <5>1. \A i \in Row : Xor(res0[i][0], res1[i][0]) = 1 <=> x[i] = y[i]
            BY <1>2, <2>2, <4>1 DEF PeqtCorrect, Done, Return1
          <5> QED BY <5>1, <3>1, <4>1 DEF Xor, Ideal!Opens, Ideal!Xor, Returned
        <4>2. CASE pc0 # "done"
          BY <4>2 DEF Returned
        <4> QED BY <4>1, <4>2
      <3> QED
        BY <3>1, <3>2, <3>3 DEF Ideal!Next, Ideal!Output1
    <2>3. CASE Send0 \/ Finish0 \/ Respond1 \/ Finish1 \/ UNCHANGED vars
      <3>1. o0' = o0 /\ o1' = o1 /\ x' = x /\ y' = y
        BY <2>3 DEF Send0, Finish0, Respond1, Finish1, vars, Returned
      <3> QED BY <3>1 DEF Ideal!vars
    <2> QED
      BY <1>2, <2>1, <2>2, <2>3 DEF Next, Terminated
  <1> QED
    BY <1>1, <1>2, PeqtInductive, PeqtIsCorrect, PTL DEF Spec, ImplementsIdeal, Ideal!Spec
=============================================================================
