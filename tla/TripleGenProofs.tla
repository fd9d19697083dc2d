-------------------------- MODULE TripleGenProofs ---------------------------
(***************************************************************************)
(* Proofs about TripleGen for every number of triples, chunk size and set  *)
(* of OT messages: the triples are valid whichever party is ahead.         *)
(***************************************************************************)
EXTENDS TripleGen, TLAPS

-----------------------------------------------------------------------------
(* Chunks and bytes. *)

\* A party and its peer.
LEMMA TwoParties ==
  ASSUME NEW p \in Party
  PROVE  /\ Other(p) \in Party /\ Other(p) # p /\ Other(Other(p)) = p
         /\ \A q \in Party : q = p \/ q = Other(p)
  BY DEF Party, Other

\* A chunk has at least one and at most otStep positions.
LEMMA ChunkSize ==
  ASSUME NEW k \in Nat, k < n
  PROVE  /\ CurStep(k) \in 1 .. otStep
         /\ k + CurStep(k) <= n
         /\ k + CurStep(k) = n \/ CurStep(k) = otStep
  BY SizeAssumption DEF CurStep

\* The chunk after a chunk that starts at a byte starts at a byte.
LEMMA NextAligned ==
  ASSUME NEW k \in Nat, k % ByteBits = 0
  PROVE  (k + otStep) % ByteBits = 0
  <1> DEFINE q == k \div ByteBits
             r == otStep \div ByteBits
  <1>1. q \in Nat /\ r \in Nat /\ k = ByteBits * q /\ otStep = ByteBits * r
    BY SizeAssumption, AlignedAssumption
  <1> HIDE DEF q, r
  <1>2. k + otStep = ByteBits * (q + r)
    BY <1>1, SizeAssumption
  <1> QED
    BY <1>1, <1>2, SizeAssumption

\* memcpy of a chunk starts at the chunk, covers it, and stays inside tmpb.
LEMMA CopyRange ==
  ASSUME NEW k \in Nat, k < n, k % ByteBits = 0
  PROVE  /\ CopyFrom(k) = k
         /\ CopyBits(k) \in Nat
         /\ CurStep(k) <= CopyBits(k)
         /\ CopyBits(k) <= otStep
  <1> DEFINE m == CurStep(k)
             q == (m + ByteBits - 1) \div ByteBits
             r == otStep \div ByteBits
  <1>1. m \in Nat /\ m <= otStep
    BY ChunkSize, SizeAssumption
  <1>2. k = ByteBits * (k \div ByteBits) /\ k \div ByteBits \in Nat
    BY SizeAssumption
  <1>3. r \in Nat /\ otStep = ByteBits * r
    BY SizeAssumption, AlignedAssumption
  <1> HIDE DEF m
  <1>4. /\ q \in Nat
        /\ ByteBits * q <= m + ByteBits - 1
        /\ m + ByteBits - 1 < ByteBits * q + ByteBits
    BY <1>1, SizeAssumption
  <1> HIDE DEF q, r
  <1>5. m <= ByteBits * q
    BY <1>1, <1>4, SizeAssumption
  <1>6. q <= r
    <2>1. ByteBits * q < ByteBits * r + ByteBits
      BY <1>1, <1>3, <1>4, SizeAssumption
    <2> QED BY <2>1, <1>3, <1>4, SizeAssumption
  <1>7. ByteBits * q <= ByteBits * r /\ ByteBits * q \in Nat
    BY <1>3, <1>4, <1>6, SizeAssumption
  <1>8. CopyFrom(k) = k
    BY <1>2, SizeAssumption DEF CopyFrom
  <1>9. CopyBits(k) = ByteBits * q
    BY <1>4, SizeAssumption DEF CopyBits, q, m
  <1> QED
    BY <1>3, <1>5, <1>7, <1>8, <1>9 DEF m

-----------------------------------------------------------------------------
(* The shares of one position. *)

\* The shares a party computes from its buffers are bits.
LEMMA ShareTypes ==
  ASSUME TypeOK, NEW p \in Party, NEW s \in Slot
  PROVE  ShareA(p, s) \in Bit /\ ShareC(p, s) \in Bit /\ tmpb[p][s] \in Bit
  BY DEF TypeOK, ShareA, ShareC, Xor, And, Bit

\* Two OTs in opposite directions give a multiplication triple.
LEMMA TwoOtsGiveTriple ==
  ASSUME TypeOK, NEW p \in Party, NEW s \in Slot,
         recvMsg[Other(p)][s] = sendMsg[p][s][tmpb[Other(p)][s] + 1],
         recvMsg[p][s] = sendMsg[Other(p)][s][tmpb[p][s] + 1]
  PROVE  And(Xor(ShareA(p, s), ShareA(Other(p), s)), Xor(tmpb[p][s], tmpb[Other(p)][s]))
           = Xor(ShareC(p, s), ShareC(Other(p), s))
  <1> DEFINE x == sendMsg[p][s]
             y == sendMsg[Other(p)][s]
             e == tmpb[p][s]
             f == tmpb[Other(p)][s]
  <1>1. /\ x[1] \in {0, 1} /\ x[2] \in {0, 1} /\ y[1] \in {0, 1} /\ y[2] \in {0, 1}
        /\ e \in {0, 1} /\ f \in {0, 1}
    BY TwoParties DEF TypeOK, Bit
  <1>2. recvMsg[Other(p)][s] = (IF f = 0 THEN x[1] ELSE x[2])
    BY <1>1
  <1>3. recvMsg[p][s] = (IF e = 0 THEN y[1] ELSE y[2])
    BY <1>1
  <1>4. /\ ShareA(p, s) = Xor(x[1], x[2]) /\ ShareA(Other(p), s) = Xor(y[1], y[2])
        /\ ShareC(p, s) = Xor(Xor(x[1], And(Xor(x[1], x[2]), e)), IF e = 0 THEN y[1] ELSE y[2])
        /\ ShareC(Other(p), s) =
             Xor(Xor(y[1], And(Xor(y[1], y[2]), f)), IF f = 0 THEN x[1] ELSE x[2])
    BY <1>2, <1>3 DEF ShareA, ShareC
  <1> HIDE DEF x, y, e, f
  <1> QED
    <2>1. And(Xor(Xor(x[1], x[2]), Xor(y[1], y[2])), Xor(e, f)) =
            Xor(Xor(Xor(x[1], And(Xor(x[1], x[2]), e)), IF e = 0 THEN y[1] ELSE y[2]),
                Xor(Xor(y[1], And(Xor(y[1], y[2]), f)), IF f = 0 THEN x[1] ELSE x[2]))
      BY <1>1, SMTT(60) DEF Xor, And
    <2> QED BY <1>4, <2>1 DEF e, f

-----------------------------------------------------------------------------
(* The invariant. *)

\* What is inductive: TripleInv with the validity of the stored triples.
IndInv == TripleInv /\ TriplesValid

\* SameChunk follows from the phases.
LEMMA PhasesPairChunks == TypeOK /\ PhaseInv => SameChunk
  <1> SUFFICES ASSUME TypeOK, PhaseInv, NEW p \in Party, pc[p] = "await", ~sent[p],
                      pc[Other(p)] = "await", ~got[Other(p)]
               PROVE  j[p] = j[Other(p)]
    BY DEF SameChunk
  <1>1. ~Ahead(p) /\ ~Ahead(Other(p))
    BY TwoParties DEF PhaseInv
  <1> QED
    BY <1>1 DEF PhaseInv, Level, Ahead, Party, Other

\* Nothing has been done at the start.
LEMMA InitIndInv == Init => IndInv
  <1> SUFFICES ASSUME Init PROVE IndInv
    OBVIOUS
  <1>1. TypeOK
    BY DEF Init, TypeOK, Bit
  <1>2. PhaseInv
    BY SizeAssumption DEF Init, PhaseInv, Level, Ahead, Party, Other
  <1>3. OtInv /\ AheadInv /\ TriplesValid
    BY SizeAssumption DEF Init, OtInv, AheadInv, TriplesValid, Ahead, Party, Other, Pos
  <1> QED
    BY <1>1, <1>2, <1>3, PhasesPairChunks DEF IndInv, TripleInv

\* What PhaseInv says of one party.
PhaseOf(p) ==
  /\ j[p] % ByteBits = 0
  /\ pc[p] = "await" => j[p] < n
  /\ pc[p] = "done" => j[p] >= n
  /\ Level(p) /\ pc[p] = "await" =>
       IF pc[Other(p)] = "await" THEN sent[p] = got[Other(p)] ELSE ~sent[p] /\ ~got[p]
  /\ Ahead(p) =>
       /\ pc[Other(p)] = "await" /\ sent[Other(p)] /\ got[Other(p)]
       /\ pc[p] = "await" => ~sent[p] /\ ~got[p]

LEMMA PhaseParts ==
  PhaseInv <=> (\A p \in Party : PhaseOf(p)) /\ (Level(0) \/ Ahead(0) \/ Ahead(1))
  BY DEF PhaseInv, PhaseOf

\* A party that starts a chunk keeps the two parties in step.
LEMMA StartChunkPhase ==
  ASSUME TypeOK, PhaseInv, NEW p \in Party, StartChunk(p)
  PROVE  PhaseInv'
  <1> DEFINE o == Other(p)
  <1>1. o \in Party /\ o # p /\ Other(o) = p /\ \A q \in Party : q = p \/ q = o
    BY TwoParties
  <1>2. /\ j' = j /\ pc[p] = "start" /\ j[p] < n
        /\ pc'[p] = "await" /\ sent'[p] = FALSE /\ got'[p] = FALSE
    BY DEF TypeOK, StartChunk
  <1>3. pc'[o] = pc[o] /\ sent'[o] = sent[o] /\ got'[o] = got[o]
    BY <1>1 DEF TypeOK, StartChunk
  <1>4. \A q \in Party : (Level(q)' <=> Level(q)) /\ (Ahead(q)' <=> Ahead(q))
    BY <1>2 DEF Level, Ahead
  <1>5. PhaseOf(p) /\ PhaseOf(o) /\ (Level(0) \/ Ahead(0) \/ Ahead(1))
    BY <1>1, PhaseParts
  <1>6. (Level(p) <=> Level(o)) /\ ~Ahead(o)
    <2>1. ~Ahead(o)
      BY <1>1, <1>2, <1>5 DEF PhaseOf
    <2> QED BY <1>1, <2>1 DEF Level
  <1>t. Level(o) /\ pc[o] = "await" => sent[o] = FALSE /\ got[o] = FALSE
    <2>1. Level(o) /\ pc[o] = "await" => ~sent[o] /\ ~got[o]
      BY <1>1, <1>2, <1>5 DEF PhaseOf
    <2>2. sent[o] \in BOOLEAN /\ got[o] \in BOOLEAN
      BY <1>1 DEF TypeOK
    <2> QED BY <2>1, <2>2
  <1> HIDE DEF o
  <1>7. PhaseOf(p)'
    <2>1. j'[p] % ByteBits = 0 /\ j'[p] < n /\ pc'[p] # "done"
      BY <1>2, <1>5 DEF PhaseOf
    <2>2. Level(p)' => IF pc'[o] = "await" THEN sent'[p] = got'[o] ELSE ~sent'[p] /\ ~got'[p]
      BY <1>2, <1>3, <1>4, <1>6, <1>t
    <2>3. Ahead(p)' => /\ pc'[o] = "await" /\ sent'[o] /\ got'[o]
                       /\ ~sent'[p] /\ ~got'[p]
      BY <1>2, <1>3, <1>4, <1>5 DEF PhaseOf, o
    <2> QED BY <2>1, <2>2, <2>3 DEF PhaseOf, o
  <1>8. PhaseOf(o)'
    <2>1. /\ j'[o] % ByteBits = 0
          /\ pc'[o] = "await" => j'[o] < n
          /\ pc'[o] = "done" => j'[o] >= n
      BY <1>2, <1>3, <1>5 DEF PhaseOf
    <2>2. Level(o)' /\ pc'[o] = "await" => sent'[o] = got'[p]
      BY <1>1, <1>2, <1>3, <1>4, <1>t
    <2>3. ~Ahead(o)'
      BY <1>1, <1>4, <1>6
    <2> QED BY <1>1, <1>2, <2>1, <2>2, <2>3 DEF PhaseOf
  <1>9. \A q \in Party : PhaseOf(q)'
    BY <1>1, <1>7, <1>8
  <1>10. Level(0)' \/ Ahead(0)' \/ Ahead(1)'
    BY <1>4, <1>5 DEF Party
  <1> QED
    BY <1>9, <1>10 DEF PhaseInv, PhaseOf

\* An OT completes one task of each of its two parties.
LEMMA OtPhase ==
  ASSUME TypeOK, PhaseInv, SameChunk, NEW p \in Party, Ot(p)
  PROVE  PhaseInv'
  <1> DEFINE o == Other(p)
  <1>1. o \in Party /\ o # p /\ Other(o) = p /\ \A q \in Party : q = p \/ q = o
    BY TwoParties
  <1>2. /\ j' = j /\ pc' = pc /\ pc[p] = "await" /\ pc[o] = "await" /\ ~sent[p] /\ ~got[o]
        /\ sent'[p] = TRUE /\ got'[o] = TRUE
    BY <1>1 DEF TypeOK, Ot
  <1>3. sent'[o] = sent[o] /\ got'[p] = got[p]
    BY <1>1 DEF TypeOK, Ot
  <1>4. \A q \in Party : (Level(q)' <=> Level(q)) /\ (Ahead(q)' <=> Ahead(q))
    BY <1>2 DEF Level, Ahead
  <1>5. PhaseOf(p) /\ PhaseOf(o) /\ (Level(0) \/ Ahead(0) \/ Ahead(1))
    BY <1>1, PhaseParts
  <1>6. Level(p) /\ Level(o)
    BY <1>1, <1>2 DEF Level, SameChunk
  <1>7. ~Ahead(p) /\ ~Ahead(o)
    <2>1. j[p] = j[o] /\ j[p] \in Nat /\ otStep \in Nat /\ otStep > 0
      BY <1>6, SizeAssumption DEF Level, TypeOK
    <2> QED BY <1>1, <2>1 DEF Ahead
  <1> HIDE DEF o
  <1>8. PhaseOf(p)'
    BY <1>1, <1>2, <1>3, <1>4, <1>5, <1>6, <1>7 DEF PhaseOf, o
  <1>9. PhaseOf(o)'
    BY <1>1, <1>2, <1>3, <1>4, <1>5, <1>6, <1>7 DEF PhaseOf, o
  <1>10. \A q \in Party : PhaseOf(q)'
    BY <1>1, <1>8, <1>9
  <1>11. Level(0)' \/ Ahead(0)' \/ Ahead(1)'
    BY <1>4, <1>5 DEF Party
  <1> QED
    BY <1>10, <1>11 DEF PhaseInv, PhaseOf

\* A new chunk starts with both OTs outstanding.
LEMMA StartChunkKeeps ==
  ASSUME IndInv, NEW p \in Party, StartChunk(p)
  PROVE  IndInv'
  <1> USE TwoParties DEF IndInv, TripleInv
  <1>1. TypeOK'
    BY DEF TypeOK, StartChunk
  <1>2. PhaseInv'
    BY StartChunkPhase
  <1>3. OtInv'
    BY DEF TypeOK, PhaseInv, OtInv, Level, StartChunk, Party, Other
  <1>4. AheadInv' /\ TriplesValid'
    BY DEF AheadInv, Ahead, InChunk, ShareA, ShareC, TriplesValid, StartChunk
  <1>5. SameChunk'
    BY <1>1, <1>2, PhasesPairChunks, PTL
  <1> QED
    BY <1>1, <1>2, <1>3, <1>4, <1>5

\* A party returns when it has stored all chunks.
LEMMA ReturnKeeps ==
  ASSUME IndInv, NEW p \in Party, Return(p)
  PROVE  IndInv'
  <1> USE TwoParties DEF IndInv, TripleInv
  <1>1. TypeOK'
    BY DEF TypeOK, Return
  <1>2. PhaseInv'
    BY SizeAssumption DEF TypeOK, PhaseInv, Level, Ahead, Party, Other, Return
  <1>3. OtInv'
    BY DEF TypeOK, OtInv, Level, Return, Party, Other
  <1>4. AheadInv' /\ TriplesValid'
    BY DEF AheadInv, Ahead, InChunk, ShareA, ShareC, TriplesValid, Return
  <1>5. SameChunk'
    BY <1>1, <1>2, PhasesPairChunks, PTL
  <1> QED
    BY <1>1, <1>2, <1>3, <1>4, <1>5

\* An OT happens only in a chunk both parties are in, and leaves the chosen
\* messages with the receiver.
LEMMA OtKeeps ==
  ASSUME IndInv, NEW p \in Party, Ot(p)
  PROVE  IndInv'
  <1> USE TwoParties DEF IndInv, TripleInv
  <1> DEFINE o == Other(p)
  <1>0. Level(p) /\ pc[p] = "await" /\ pc[o] = "await" /\ ~sent[p] /\ ~got[o]
    BY DEF Ot, SameChunk, Level
  <1>1. PICK m \in Buffers(j[p], MsgPairs, <<0, 0>>), ch \in Choices(j[o]) :
          /\ sendMsg' = [sendMsg EXCEPT ![p] = m]
          /\ tmpb' = [tmpb EXCEPT ![o] = ch]
          /\ recvMsg' = [recvMsg EXCEPT ![o] = [s \in Slot |-> m[s][ch[s] + 1]]]
    BY DEF Ot
  <1>2. m \in [Slot -> Bit \X Bit] /\ ch \in [Slot -> Bit]
    <2>1. MsgPairs \cup {<<0, 0>>} \subseteq Bit \X Bit /\ Bit \cup {0} \subseteq Bit
      BY MsgAssumption DEF Bit
    <2> QED BY <2>1 DEF Buffers, Choices
  <1>3. \A s \in Slot : m[s][ch[s] + 1] \in Bit
    BY <1>2 DEF Bit
  <1>4. TypeOK'
    BY <1>1, <1>2, <1>3 DEF TypeOK, Ot
  <1>5. PhaseInv'
    BY OtPhase
  <1>6. OtInv'
    <2>1. \A s \in Slot : recvMsg'[o][s] = sendMsg'[p][s][tmpb'[o][s] + 1]
      BY <1>1, <1>2 DEF TypeOK
    <2>2. ASSUME Level(o)', pc'[o] = "await", pc'[p] = "await", sent'[o]
          PROVE  \A s \in Slot : recvMsg'[p][s] = sendMsg'[o][s][tmpb'[p][s] + 1]
      <3>1. recvMsg'[p] = recvMsg[p] /\ sendMsg'[o] = sendMsg[o] /\ tmpb'[p] = tmpb[p] /\ sent[o]
        BY <1>1, <2>2 DEF TypeOK, Ot
      <3>2. Level(o)
        BY <1>0 DEF Level
      <3> QED BY <1>0, <3>1, <3>2 DEF OtInv
    <2> QED BY <2>1, <2>2 DEF OtInv
  <1>7. ~Ahead(p)' /\ ~Ahead(o)'
    BY <1>0, SizeAssumption DEF Ot, Ahead, Level, TypeOK
  <1>8. AheadInv'
    BY <1>7 DEF AheadInv
  <1>9. TriplesValid'
    BY DEF TriplesValid, Ot
  <1>10. SameChunk'
    BY <1>4, <1>5, PhasesPairChunks, PTL
  <1> QED
    BY <1>4, <1>5, <1>6, <1>8, <1>9, <1>10

\* What the bottom of the loop leaves at each position: the shares from the
\* buffers inside the chunk, nothing new below it.
LEMMA Stored ==
  ASSUME IndInv, NEW p \in Party, StoreChunk(p), NEW i \in Pos
  PROVE  /\ InChunk(p, i) =>
              /\ i - j[p] \in Slot
              /\ a'[p][i] = ShareA(p, i - j[p])
              /\ b'[p][i] = tmpb[p][i - j[p]]
              /\ c'[p][i] = ShareC(p, i - j[p])
         /\ i < j[p] => a'[p][i] = a[p][i] /\ b'[p][i] = b[p][i] /\ c'[p][i] = c[p][i]
         /\ b'[p][i] \in Bit
  <1>1. j[p] \in Nat /\ j[p] < n /\ j[p] % ByteBits = 0
    BY DEF IndInv, TripleInv, PhaseInv, TypeOK, StoreChunk
  <1>2. CurStep(j[p]) \in 1 .. otStep
    BY <1>1, ChunkSize
  <1>3. /\ CopyFrom(j[p]) = j[p] /\ CopyBits(j[p]) \in Nat
        /\ CurStep(j[p]) <= CopyBits(j[p]) /\ CopyBits(j[p]) <= otStep
    BY <1>1, CopyRange
  <1>4. /\ a'[p][i] = IF InChunk(p, i) THEN ShareA(p, i - j[p]) ELSE a[p][i]
        /\ c'[p][i] = IF InChunk(p, i) THEN ShareC(p, i - j[p]) ELSE c[p][i]
        /\ b'[p] = CopyB(p)
    BY DEF IndInv, TripleInv, TypeOK, StoreChunk
  <1>5. b'[p][i] = IF j[p] <= i /\ i < j[p] + CopyBits(j[p]) THEN tmpb[p][i - j[p]] ELSE b[p][i]
    BY <1>3, <1>4 DEF CopyB
  <1>6. i \in Nat
    BY DEF Pos
  <1>7. j[p] <= i /\ i < j[p] + CopyBits(j[p]) => i - j[p] \in Slot
    BY <1>1, <1>3, <1>6, SizeAssumption DEF Slot
  <1>8. InChunk(p, i) => j[p] <= i /\ i < j[p] + CopyBits(j[p])
    BY <1>1, <1>2, <1>3, <1>6 DEF InChunk
  <1>9. i < j[p] => ~(j[p] <= i) /\ ~InChunk(p, i)
    BY <1>1, <1>6 DEF InChunk
  <1>10. b'[p][i] \in Bit
    BY <1>5, <1>7 DEF IndInv, TripleInv, TypeOK
  <1> QED
    BY <1>4, <1>5, <1>7, <1>8, <1>9, <1>10

\* The first party to store a chunk leaves shares that fit the buffers of
\* the other; the second one completes the triples.
LEMMA StoreChunkKeeps ==
  ASSUME IndInv, NEW p \in Party, StoreChunk(p)
  PROVE  IndInv'
  <1> USE TwoParties DEF IndInv, TripleInv
  <1> DEFINE o == Other(p)
  <1>0. /\ pc[p] = "await" /\ sent[p] /\ got[p] /\ j[p] < n /\ j[p] \in Nat /\ j[o] \in Nat
        /\ j' = [j EXCEPT ![p] = j[p] + otStep] /\ otStep \in Nat \ {0}
        /\ a'[o] = a[o] /\ b'[o] = b[o] /\ c'[o] = c[o]
        /\ UNCHANGED <<tmpb, sendMsg, recvMsg, sent, got>>
    BY SizeAssumption DEF StoreChunk, PhaseInv, TypeOK
  <1>1. TypeOK'
    <2>1. \A i \in Pos : a'[p][i] \in Bit /\ c'[p][i] \in Bit
      <3> SUFFICES ASSUME NEW i \in Pos PROVE a'[p][i] \in Bit /\ c'[p][i] \in Bit
        OBVIOUS
      <3>1. CASE InChunk(p, i)
        BY <3>1, Stored, ShareTypes
      <3>2. CASE ~InChunk(p, i)
        BY <3>2 DEF StoreChunk, TypeOK
      <3> QED BY <3>1, <3>2
    <2>2. a'[p] \in [Pos -> Bit] /\ c'[p] \in [Pos -> Bit]
      BY <2>1 DEF StoreChunk, TypeOK
    <2>3. b'[p] \in [Pos -> Bit]
      BY Stored DEF StoreChunk, CopyB, TypeOK
    <2> QED
      BY <1>0, <2>2, <2>3 DEF StoreChunk, TypeOK
  <1>2. Level(p) \/ Ahead(o)
    BY <1>0 DEF PhaseInv, Level, Ahead, Party, Other
  <1>3. pc[o] = "await" /\ Level(p) => sent[o] /\ got[o]
    BY <1>0 DEF PhaseInv, Level
  <1>4. Level(p) => pc[o] = "await"
    BY <1>0 DEF PhaseInv, Level
  <1>5. (Level(p) => Ahead(p)') /\ (Ahead(o) => Level(p)')
    BY <1>0 DEF Level, Ahead, TypeOK
  <1>6. PhaseInv'
    <2>1. j'[p] % ByteBits = 0
      BY <1>0, NextAligned DEF PhaseInv, TypeOK
    <2>2. CASE Level(p)
      BY <1>0, <1>3, <1>4, <1>5, <2>1, <2>2
         DEF TypeOK, PhaseInv, Level, Ahead, Party, Other, StoreChunk
    <2>3. CASE Ahead(o)
      BY <1>0, <1>5, <2>1, <2>3
         DEF TypeOK, PhaseInv, Level, Ahead, Party, Other, StoreChunk
    <2> QED BY <1>2, <2>2, <2>3
  <1>7. OtInv'
    <2>1. pc'[p] = "start"
      BY DEF StoreChunk, TypeOK
    <2> QED BY <2>1 DEF OtInv
  <1>8. AheadInv'
    <2>1. CASE Level(p)
      <3> SUFFICES ASSUME NEW i \in Pos, InChunk(o, i)'
                   PROVE  And(Xor(a'[p][i], ShareA(o, i - j[o])), Xor(b'[p][i], tmpb[o][i - j[o]]))
                            = Xor(c'[p][i], ShareC(o, i - j[o]))
        <4>1. j'[o] = j[o] /\ j'[p] = j[p] + otStep /\ DOMAIN j = Party
          BY <1>0 DEF TypeOK
        <4>2. j[o] = j[p] /\ Other(o) = p
          BY <2>1 DEF Level
        <4>3. j[p] # j[p] + otStep + otStep
          BY <1>0
        <4>4. ~Ahead(o)'
          BY <1>0, <4>1, <4>2, <4>3 DEF Ahead
        <4> QED BY <1>0, <4>1, <4>4 DEF AheadInv, ShareA, ShareC
      <3>1. InChunk(p, i) /\ j[o] = j[p]
        BY <1>0, <2>1 DEF InChunk, Level, TypeOK
      <3>2. \A s \in Slot : /\ recvMsg[o][s] = sendMsg[p][s][tmpb[o][s] + 1]
                            /\ recvMsg[p][s] = sendMsg[o][s][tmpb[p][s] + 1]
        BY <1>0, <1>3, <1>4, <2>1 DEF OtInv, Level
      <3> QED
        BY <3>1, <3>2, Stored, TwoOtsGiveTriple
    <2>2. CASE Ahead(o)
      BY <1>0, <1>5, <2>2 DEF AheadInv, Level, Ahead
    <2> QED BY <1>2, <2>1, <2>2
  <1>9. TriplesValid'
    <2> SUFFICES ASSUME NEW i \in Pos, i < j'[p], i < j'[o]
                 PROVE  And(Xor(a'[p][i], a'[o][i]), Xor(b'[p][i], b'[o][i]))
                          = Xor(c'[p][i], c'[o][i])
      BY DEF TriplesValid, Party, Other, Xor
    <2>0. i \in Nat /\ i < n /\ j'[o] = j[o] /\ j'[p] = j[p] + otStep
      BY <1>0, SizeAssumption DEF Pos, TypeOK
    <2>1. CASE i < j[p]
      <3>1. And(Xor(a[p][i], a[o][i]), Xor(b[p][i], b[o][i])) = Xor(c[p][i], c[o][i])
        BY <2>0, <2>1 DEF TriplesValid, Party, Other, Xor
      <3> QED BY <1>0, <2>1, <3>1, Stored
    <2>2. CASE ~(i < j[p])
      <3>1. InChunk(p, i)
        BY <1>0, <2>0, <2>2, ChunkSize DEF InChunk
      <3>2. Ahead(o)
        BY <1>0, <1>2, <2>0, <2>2 DEF Level
      <3>3. And(Xor(a[o][i], ShareA(p, i - j[p])), Xor(b[o][i], tmpb[p][i - j[p]]))
              = Xor(c[o][i], ShareC(p, i - j[p]))
        BY <3>1, <3>2 DEF AheadInv
      <3>4. /\ a'[p][i] = ShareA(p, i - j[p]) /\ b'[p][i] = tmpb[p][i - j[p]]
            /\ c'[p][i] = ShareC(p, i - j[p])
        BY <3>1, Stored
      <3> QED BY <1>0, <3>3, <3>4 DEF Xor, And
    <2> QED BY <2>1, <2>2
  <1>10. SameChunk'
    BY <1>1, <1>6, PhasesPairChunks, PTL
  <1> QED
    BY <1>1, <1>6, <1>7, <1>8, <1>9, <1>10

\* A step that changes nothing keeps the invariant.
LEMMA StutterKeeps == IndInv /\ UNCHANGED vars => IndInv'
  BY DEF IndInv, TripleInv, vars, TypeOK, SameChunk, PhaseInv, OtInv, AheadInv, TriplesValid,
         Level, Ahead, InChunk, ShareA, ShareC

-----------------------------------------------------------------------------

\* The control state of the two parties never gets further apart than one
\* stored chunk, no OT pairs tasks of two chunks, and buffers and stored
\* shares always fit together.
THEOREM TripleGenInductive == Spec => [](TripleInv /\ TriplesValid)
  <1>1. Init => IndInv
    BY InitIndInv
  <1>2. IndInv /\ [Next]_vars => IndInv'
    BY StartChunkKeeps, StoreChunkKeeps, ReturnKeeps, OtKeeps, StutterKeeps
       DEF Next, PartyStep, Terminated
  <1>3. IndInv => TripleInv /\ TriplesValid
    BY DEF IndInv
  <1> QED
    BY <1>1, <1>2, <1>3, PTL DEF Spec

\* Every position that both parties have stored is a multiplication triple,
\* which is all the equality test needs of Triples.
THEOREM TriplesAlwaysValid == Spec => []TriplesValid
  BY TripleGenInductive, PTL
=============================================================================
