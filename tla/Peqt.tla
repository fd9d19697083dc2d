-------------------------------- MODULE Peqt --------------------------------
(***************************************************************************)
(* Batched private equality test (pis_new/batch_peqt.h, pis_new/equal.cpp, *)
(* pis_new/triple.h).                                                      *)
(*                                                                         *)
(* Party 0 (Batch_PEQT_recv, eq0) holds n elements of Length bits, party 1 *)
(* (Batch_PEQT_send, eq1) holds n elements and complements them.  The two  *)
(* bit vectors are an XOR sharing of the bitwise equality of the elements. *)
(* The parties AND neighbouring columns level by level, one Beaver triple  *)
(* per AND, until one column is left: an XOR sharing of "element i of      *)
(* party 0 equals element i of party 1".                                   *)
(*                                                                         *)
(* A party is cut into actions where its coroutine awaits the socket.  The *)
(* flat vector res[i * curLength + j] is modelled as res[i][j]; module     *)
(* EqLayout checks the in-place loop over the flat vector.                 *)
(***************************************************************************)
EXTENDS Bits, Integers, Sequences

CONSTANTS
  Length,        \* bit_length: bits per element, 64 or 128 in the program
  N,             \* number of elements on each side
  LengthLevel,   \* log2ceil(Length), computed by cryptoTools
  InputSet,      \* the elements considered: a set of Length-bit strings
  TripleSet      \* the triple sharings considered: a set of TripleShares

Col == 0 .. Length - 1
Row == 0 .. N - 1

\* A Beaver triple, XOR-shared between the parties:
\* (a0 ^ a1) & (b0 ^ b1) = c0 ^ c1.  This is what triple0/triple1 compute
\* from one OT in each direction (module TripleGen).
TripleShares ==
  {t \in [a0 : Bit, a1 : Bit, b0 : Bit, b1 : Bit, c0 : Bit, c1 : Bit] :
     And(Xor(t.a0, t.a1), Xor(t.b0, t.b1)) = Xor(t.c0, t.c1)}

ASSUME LengthAssumption == Length \in Nat \ {0}
ASSUME NAssumption      == N \in Nat \ {0}
ASSUME InputAssumption  == InputSet \subseteq [Col -> Bit]
ASSUME TripleAssumption == TripleSet \subseteq TripleShares

\* log2ceil: the smallest number of levels that 2^levels bits fit in; only
\* the upper bound matters for correctness.
ASSUME LevelAssumption  == LengthLevel \in Nat /\ Length <= 2^LengthLevel

\* The arithmetic of powers of two that the proof uses.
ASSUME PowerFacts ==
  /\ 2^0 = 1
  /\ \A k \in 0 .. LengthLevel : 2^k \in Nat
  /\ \A k \in 0 .. LengthLevel : k > 0 => 2^k = 2 * 2^(k - 1)

\* Mutant: one triple per pair of input bits.
NumTriplesHalf == N * (Length \div 2)

\* num_triples of Batch_PEQT_recv / Batch_PEQT_send.
NumTriples == N * Length

TripleIdx == 0 .. NumTriples - 1

VARIABLES
  x, y,          \* the parties' elements
  triples,       \* the triples, both shares of each
  pc0, pc1,      \* where each coroutine stands
  k0, k1,        \* loop counter of the level loop
  len0, len1,    \* curLength
  cur0, cur1,    \* Triples::curTriple
  res0, res1,    \* res0 / res1, column j of row i
  own0, own1,    \* the masked pair [xa, yb] the party computed at this level
  other1,        \* the masked pair party 1 received at this level
  ch01, ch10     \* the two directions of the socket, FIFO

vars == <<x, y, triples, pc0, pc1, k0, k1, len0, len1, cur0, cur1,
          res0, res1, own0, own1, other1, ch01, ch10>>

-----------------------------------------------------------------------------
(* The level computations. *)

SendLength(len) == len \div 2

NextLength(len) == (len + 1) \div 2

\* The triple that the AND of columns 2*m and 2*m+1 of row i uses when the
\* cursor stands at cur at the start of the level: the loops over i and j
\* call move(1) once per AND.
TripleAt(cur, len, i, m) == cur + i * SendLength(len) + m

\* xa and yb of the first loop of eq0 and eq1: the columns to be ANDed,
\* masked with the party's shares of a and b.
Mask0(res, len, cur) ==
  [xa |-> [i \in Row |-> [m \in Col |->
             IF m < SendLength(len)
             THEN Xor(res[i][2*m], triples[TripleAt(cur, len, i, m)].a0)
             ELSE 0]],
   yb |-> [i \in Row |-> [m \in Col |->
             IF m < SendLength(len)
             THEN Xor(res[i][2*m + 1], triples[TripleAt(cur, len, i, m)].b0)
             ELSE 0]]]

Mask1(res, len, cur) ==
  [xa |-> [i \in Row |-> [m \in Col |->
             IF m < SendLength(len)
             THEN Xor(res[i][2*m], triples[TripleAt(cur, len, i, m)].a1)
             ELSE 0]],
   yb |-> [i \in Row |-> [m \in Col |->
             IF m < SendLength(len)
             THEN Xor(res[i][2*m + 1], triples[TripleAt(cur, len, i, m)].b1)
             ELSE 0]]]

\* Mutant: party 0 forgets the d & e term.
Beaver0NoDE(d, e, t) == Xor(And(d, t.b0), Xor(And(e, t.a0), t.c0))

\* One Beaver AND from the opened d and e; party 0 alone adds d & e.
Beaver0(d, e, t) == Xor(Xor(And(d, e), And(d, t.b0)), Xor(And(e, t.a0), t.c0))
Beaver1(d, e, t) == Xor(And(d, t.b1), Xor(And(e, t.a1), t.c1))

\* The second loop of eq0 and eq1: AND the column pairs, copy a last odd
\* column.  Columns beyond the next length keep stale bits in the code and
\* are left as they are here.
Combine0(res, len, cur, own, other) ==
  [i \in Row |-> [m \in Col |->
     IF m < SendLength(len)
     THEN Beaver0(Xor(own.xa[i][m], other.xa[i][m]),
                  Xor(own.yb[i][m], other.yb[i][m]),
                  triples[TripleAt(cur, len, i, m)])
     ELSE IF m < NextLength(len) THEN res[i][2*m] ELSE res[i][m]]]

Combine1(res, len, cur, own, other) ==
  [i \in Row |-> [m \in Col |->
     IF m < SendLength(len)
     THEN Beaver1(Xor(own.xa[i][m], other.xa[i][m]),
                  Xor(own.yb[i][m], other.yb[i][m]),
                  triples[TripleAt(cur, len, i, m)])
     ELSE IF m < NextLength(len) THEN res[i][2*m] ELSE res[i][m]]]

\* Mutant: Batch_PEQT_send does not complement its bits.
ComplementNot(v) == v

\* input_bits = ~input_bits in Batch_PEQT_send.
Complement(v) == [i \in Row |-> [j \in Col |-> Xor(v[i][j], 1)]]

Masks == [xa : [Row -> [Col -> Bit]], yb : [Row -> [Col -> Bit]]]

NoMask == [xa |-> [i \in Row |-> [m \in Col |-> 0]],
           yb |-> [i \in Row |-> [m \in Col |-> 0]]]

-----------------------------------------------------------------------------
(* The two coroutines. *)

Init ==
  /\ x \in [Row -> InputSet]
  /\ y \in [Row -> InputSet]
  /\ triples \in [TripleIdx -> TripleSet]
  /\ pc0 = "send" /\ pc1 = "recv"
  /\ k0 = 0 /\ k1 = 0
  /\ len0 = Length /\ len1 = Length
  /\ cur0 = 0 /\ cur1 = 0
  /\ res0 = x
  /\ res1 = Complement(y)
  /\ own0 = NoMask /\ own1 = NoMask /\ other1 = NoMask
  /\ ch01 = <<>> /\ ch10 = <<>>

\* eq0 up to its first recv: mask, move the cursor past the level's
\* triples, send xa0 and yb0.
Send0 ==
  /\ pc0 = "send"
  /\ k0 < LengthLevel
  /\ LET msk == Mask0(res0, len0, cur0)
     IN /\ own0' = msk
        /\ ch01' = ch01 \o <<msk.xa, msk.yb>>
  /\ cur0' = cur0 + N * SendLength(len0)
  /\ pc0' = "wait"
  /\ UNCHANGED <<x, y, triples, pc1, k0, k1, len0, len1, cur1, res0, res1,
                 own1, other1, ch10>>

\* eq0 after xa1 and yb1 have arrived: move the cursor back, combine, and
\* go to the next level.
Finish0 ==
  /\ pc0 = "wait"
  /\ Len(ch10) >= 2
  /\ LET other == [xa |-> ch10[1], yb |-> ch10[2]]
         start == cur0 - N * SendLength(len0)
     IN /\ res0' = Combine0(res0, len0, start, own0, other)
        /\ cur0' = start + N * SendLength(len0)
  /\ ch10' = SubSeq(ch10, 3, Len(ch10))
  /\ len0' = NextLength(len0)
  /\ k0' = k0 + 1
  /\ pc0' = "send"
  /\ UNCHANGED <<x, y, triples, pc1, k1, len1, cur1, res1, own0, own1,
                 other1, ch01>>

\* Mutant: the level loop stops one level early.
Return0Early ==
  /\ pc0 = "send"
  /\ k0 = LengthLevel - 1
  /\ pc0' = "done"
  /\ UNCHANGED <<x, y, triples, pc1, k0, k1, len0, len1, cur0, cur1, res0,
                 res1, own0, own1, other1, ch01, ch10>>

\* eq0 returns: res0.resize(n).
Return0 ==
  /\ pc0 = "send"
  /\ k0 = LengthLevel
  /\ pc0' = "done"
  /\ UNCHANGED <<x, y, triples, pc1, k0, k1, len0, len1, cur0, cur1, res0,
                 res1, own0, own1, other1, ch01, ch10>>

\* Mutant: eq1 takes both messages but sends only the first of its own.
Respond1Half ==
  /\ pc1 = "recv"
  /\ k1 < LengthLevel
  /\ Len(ch01) >= 2
  /\ other1' = [xa |-> ch01[1], yb |-> ch01[2]]
  /\ ch01' = SubSeq(ch01, 3, Len(ch01))
  /\ own1' = Mask1(res1, len1, cur1)
  /\ ch10' = Append(ch10, Mask1(res1, len1, cur1).xa)
  /\ cur1' = cur1 + N * SendLength(len1)
  /\ pc1' = "combine"
  /\ UNCHANGED <<x, y, triples, pc0, k0, k1, len0, len1, cur0, res0, res1, own0>>

\* eq1 from its two recvs to its two sends.
Respond1 ==
  /\ pc1 = "recv"
  /\ k1 < LengthLevel
  /\ Len(ch01) >= 2
  /\ other1' = [xa |-> ch01[1], yb |-> ch01[2]]
  /\ ch01' = SubSeq(ch01, 3, Len(ch01))
  /\ LET msk == Mask1(res1, len1, cur1)
     IN /\ own1' = msk
        /\ ch10' = ch10 \o <<msk.xa, msk.yb>>
  /\ cur1' = cur1 + N * SendLength(len1)
  /\ pc1' = "combine"
  /\ UNCHANGED <<x, y, triples, pc0, k0, k1, len0, len1, cur0, res0, res1, own0>>

\* Mutant: eq1 does not move the cursor back before combining.
Finish1NoRewind ==
  /\ pc1 = "combine"
  /\ res1' = Combine1(res1, len1, cur1 - N * SendLength(len1), own1, other1)
  /\ cur1' = cur1 + N * SendLength(len1)
  /\ len1' = NextLength(len1)
  /\ k1' = k1 + 1
  /\ pc1' = "recv"
  /\ UNCHANGED <<x, y, triples, pc0, k0, len0, cur0, res0, own0, own1, other1,
                 ch01, ch10>>

\* eq1 after its sends: move the cursor back, combine, next level.
Finish1 ==
  /\ pc1 = "combine"
  /\ LET start == cur1 - N * SendLength(len1)
     IN /\ res1' = Combine1(res1, len1, start, own1, other1)
        /\ cur1' = start + N * SendLength(len1)
  /\ len1' = NextLength(len1)
  /\ k1' = k1 + 1
  /\ pc1' = "recv"
  /\ UNCHANGED <<x, y, triples, pc0, k0, len0, cur0, res0, own0, own1, other1,
                 ch01, ch10>>

\* eq1 returns: res1.resize(n).
Return1 ==
  /\ pc1 = "recv"
  /\ k1 = LengthLevel
  /\ pc1' = "done"
  /\ UNCHANGED <<x, y, triples, pc0, k0, k1, len0, len1, cur0, cur1, res0,
                 res1, own0, own1, other1, ch01, ch10>>

Done == pc0 = "done" /\ pc1 = "done"

Terminated == Done /\ UNCHANGED vars

Next ==
  \/ Send0 \/ Finish0 \/ Return0
  \/ Respond1 \/ Finish1 \/ Return1
  \/ Terminated

Spec == Init /\ [][Next]_vars

\* Each party runs its coroutine to completion with sync_wait in its own
\* thread: a party whose next step is possible eventually takes it.
FairSpec ==
  /\ Spec
  /\ WF_vars(Send0 \/ Finish0 \/ Return0)
  /\ WF_vars(Respond1 \/ Finish1 \/ Return1)

-----------------------------------------------------------------------------
(* Properties. *)

\* Types of all variables.
TypeOK ==
  /\ x \in [Row -> [Col -> Bit]]
  /\ y \in [Row -> [Col -> Bit]]
  /\ triples \in [TripleIdx -> TripleShares]
  /\ pc0 \in {"send", "wait", "done"}
  /\ pc1 \in {"recv", "combine", "done"}
  /\ k0 \in 0 .. LengthLevel
  /\ k1 \in 0 .. LengthLevel
  /\ len0 \in 1 .. Length
  /\ len1 \in 1 .. Length
  /\ cur0 \in 0 .. NumTriples
  /\ cur1 \in 0 .. NumTriples
  /\ res0 \in [Row -> [Col -> Bit]]
  /\ res1 \in [Row -> [Col -> Bit]]
  /\ own0 \in Masks
  /\ own1 \in Masks
  /\ other1 \in Masks
  /\ ch01 \in Seq([Row -> [Col -> Bit]])
  /\ ch10 \in Seq([Row -> [Col -> Bit]])

\* The cursor at the start of the level the party is in: what move(-n *
\* sendLength) will restore.
Start0 == IF pc0 = "wait" THEN cur0 - N * SendLength(len0) ELSE cur0
Start1 == IF pc1 = "combine" THEN cur1 - N * SendLength(len1) ELSE cur1

\* Each level takes up exactly where the previous one stopped, so no triple
\* serves two ANDs and none beyond the N * Length that were generated is
\* read, however the levels of the two parties interleave.
CursorInv ==
  /\ Start0 = N * (Length - len0)
  /\ Start1 = N * (Length - len1)

\* A party that is in a level reads triples inside the generated range.
TriplesInRange ==
  /\ k0 < LengthLevel => Start0 + N * SendLength(len0) <= NumTriples
  /\ k1 < LengthLevel => Start1 + N * SendLength(len1) <= NumTriples

\* At most one level's two messages are ever in flight in each direction,
\* and never in both directions: the alternation that lets both parties
\* pair message and level by position alone.
Lockstep ==
  \/ /\ k0 = k1 /\ pc0 # "wait" /\ pc1 # "combine"
     /\ ch01 = <<>> /\ ch10 = <<>>
  \/ /\ k0 = k1 /\ pc0 = "wait" /\ pc1 = "recv"
     /\ ch01 = <<own0.xa, own0.yb>> /\ ch10 = <<>>
  \/ /\ k0 = k1 /\ pc0 = "wait" /\ pc1 = "combine" /\ other1 = own0
     /\ ch01 = <<>> /\ ch10 = <<own1.xa, own1.yb>>
  \/ /\ k1 = k0 + 1 /\ pc0 = "wait" /\ pc1 # "combine"
     /\ ch01 = <<>> /\ ch10 = <<own1.xa, own1.yb>>
  \/ /\ k0 = k1 + 1 /\ pc0 # "wait" /\ pc1 = "combine"
     /\ ch01 = <<>> /\ ch10 = <<>>
  \/ /\ k0 = k1 + 1 /\ pc0 = "wait" /\ pc1 = "combine"
     /\ ch01 = <<own0.xa, own0.yb>> /\ ch10 = <<>>

\* What a party's row vector and length are once the answer that is already
\* on its way has been combined.
Settled0 == pc0 = "wait" /\ ch10 # <<>>
Eff0 == IF Settled0
        THEN Combine0(res0, len0, Start0, own0, [xa |-> ch10[1], yb |-> ch10[2]])
        ELSE res0
Eff1 == IF pc1 = "combine"
        THEN Combine1(res1, len1, Start1, own1, other1)
        ELSE res1
EffLen0 == IF Settled0 THEN NextLength(len0) ELSE len0
EffLen1 == IF pc1 = "combine" THEN NextLength(len1) ELSE len1

\* At every moment of every interleaving the live columns of a row, opened
\* between the two parties, are all ones exactly when the row's elements
\* are equal: each level of the AND tree keeps the answer.
SharingInv ==
  /\ EffLen0 = EffLen1
  /\ \A i \in Row :
       (\A j \in 0 .. EffLen0 - 1 : Xor(Eff0[i][j], Eff1[i][j]) = 1)
         <=> x[i] = y[i]

\* The level loop halves the columns fast enough: what is left fits in the
\* levels that remain.
LevelInv ==
  /\ len0 <= 2^(LengthLevel - k0)
  /\ len1 <= 2^(LengthLevel - k1)

\* The masks a party still needs are those of the level it is in.
MaskInv ==
  /\ pc0 = "wait" => own0 = Mask0(res0, len0, Start0) /\ k0 < LengthLevel
  /\ pc1 = "combine" => own1 = Mask1(res1, len1, Start1) /\ k1 < LengthLevel
  /\ pc0 = "done" => k0 = LengthLevel
  /\ pc1 = "done" => k1 = LengthLevel

\* The inductive invariant behind PeqtCorrect: the state of the level loops,
\* the messages in flight and the sharing, together.
IInv ==
  /\ TypeOK
  /\ CursorInv
  /\ LevelInv
  /\ MaskInv
  /\ Lockstep
  /\ SharingInv

\* When both parties have returned, the bits kept by resize(n) are a sharing
\* of the equality of the elements, position by position.
PeqtCorrect ==
  Done => \A i \in Row : Xor(res0[i][0], res1[i][0]) = 1 <=> x[i] = y[i]

\* A party returns only after its level loop has brought every row down to
\* one column; resize(n) would otherwise keep bits of the wrong rows.
ReducedAtReturn ==
  /\ pc0 = "done" => len0 = 1
  /\ pc1 = "done" => len1 = 1

\* The two coroutines never wait for each other for ever: both return.
Completes == <>Done

\* The protocol implements the ideal equality test: what a party has
\* returned is its column 0.
Returned(pc, res) ==
  IF pc = "done" THEN [i \in Row |-> res[i][0]] ELSE <<>>

Ideal == INSTANCE PeqtIdeal WITH
  Elements <- InputSet,
  NoOutput <- <<>>,
  out0 <- Returned(pc0, res0),
  out1 <- Returned(pc1, res1)

ImplementsIdeal == Ideal!Spec
=============================================================================
