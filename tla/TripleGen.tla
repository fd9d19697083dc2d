----------------------------- MODULE TripleGen ------------------------------
(***************************************************************************)
(* Beaver triple generation (pis_new/triple.cpp, Triples::gen0/gen1): n    *)
(* random bit triples from one random OT in each direction, in chunks of   *)
(* otStep.                                                                 *)
(*                                                                         *)
(* Each party forks the socket twice; the k-th fork of one side is         *)
(* connected to the k-th fork of the other.  In every chunk a party starts *)
(* its OT-sender and its OT-receiver as eager tasks, awaits both, and      *)
(* stores its shares.  A party may be a chunk ahead of the other.          *)
(***************************************************************************)
EXTENDS Bits, Integers, FiniteSets

CONSTANTS
  n,          \* number of triples
  otStep,     \* chunk size, 2^24 in the program
  ByteBits,   \* bits copied at a time by memcpy, 8 in the program
  MsgPairs    \* the low bits of an OT's two random messages considered

Pos == 0 .. n - 1
Slot == 0 .. otStep - 1
Party == {0, 1}

ASSUME SizeAssumption ==
  n \in Nat \ {0} /\ otStep \in Nat \ {0} /\ ByteBits \in Nat \ {0}
ASSUME MsgAssumption == MsgPairs \subseteq Bit \X Bit

\* 2^24 is a whole number of bytes.
ASSUME AlignedAssumption == otStep % ByteBits = 0

VARIABLES
  j,          \* the chunk each party is in
  pc,         \* "start", "await", "done"
  a, b, c,    \* the shares of the party's triples
  tmpb,       \* the choice bits of the chunk
  sendMsg,    \* the two messages (their low bits) of the party as OT sender
  recvMsg,    \* the message (its low bit) of the party as OT receiver
  sent, got   \* which of the two OTs of the chunk the party has completed

vars == <<j, pc, a, b, c, tmpb, sendMsg, recvMsg, sent, got>>

Other(p) == 1 - p

CurStep(k) == IF otStep < n - k THEN otStep ELSE n - k

-----------------------------------------------------------------------------

\* Mutant: both parties fork in the same order.
SendForkSame(p) == 1

\* The order in which the parties fork: triple0 forks sendChl first,
\* triple1 recvChl.
SendFork(p) == IF p = 0 THEN 1 ELSE 2
RecvFork(p) == IF p = 0 THEN 2 ELSE 1

\* b.randomize in both functions; every bit is overwritten below.
Init ==
  /\ j = [p \in Party |-> 0]
  /\ pc = [p \in Party |-> "start"]
  /\ a = [p \in Party |-> [i \in Pos |-> 0]]
  /\ b \in [Party -> {[i \in Pos |-> r] : r \in Bit}]
  /\ c = [p \in Party |-> [i \in Pos |-> 0]]
  /\ tmpb = [p \in Party |-> [s \in Slot |-> 0]]
  /\ sendMsg = [p \in Party |-> [s \in Slot |-> <<0, 0>>]]
  /\ recvMsg = [p \in Party |-> [s \in Slot |-> 0]]
  /\ sent = [p \in Party |-> FALSE]
  /\ got = [p \in Party |-> FALSE]

\* The top of the loop: size the buffers and start both tasks.
StartChunk(p) ==
  /\ pc[p] = "start"
  /\ j[p] < n
  /\ pc' = [pc EXCEPT ![p] = "await"]
  /\ sent' = [sent EXCEPT ![p] = FALSE]
  /\ got' = [got EXCEPT ![p] = FALSE]
  /\ UNCHANGED <<j, a, b, c, tmpb, sendMsg, recvMsg>>

\* A buffer of the chunk at k: its slots beyond curStep do not exist.
Buffers(k, S, none) ==
  {f \in [Slot -> S \cup {none}] :
     \A s \in Slot : IF s < CurStep(k) THEN f[s] \in S ELSE f[s] = none}

\* The choice bits of a chunk.  The silent OT draws them; IKNP, which the
\* program selects (silent = false), takes the bits tmpb holds after resize.
\* Any bits are allowed here, which covers both.
Choices(k) == Buffers(k, Bit, 0)

\* The OT from p to the other party, once both have started their task on
\* the two ends of one fork: random messages for the sender, the chosen one
\* for the receiver.
Ot(p) ==
  /\ SendFork(p) = RecvFork(Other(p))
  /\ pc[p] = "await" /\ ~sent[p]
  /\ pc[Other(p)] = "await" /\ ~got[Other(p)]
  /\ \E m \in Buffers(j[p], MsgPairs, <<0, 0>>), ch \in Choices(j[Other(p)]) :
       /\ sendMsg' = [sendMsg EXCEPT ![p] = m]
       /\ tmpb' = [tmpb EXCEPT ![Other(p)] = ch]
       /\ recvMsg' = [recvMsg EXCEPT ![Other(p)] = [s \in Slot |-> m[s][ch[s] + 1]]]
  /\ sent' = [sent EXCEPT ![p] = TRUE]
  /\ got' = [got EXCEPT ![Other(p)] = TRUE]
  /\ UNCHANGED <<j, pc, a, b, c>>

\* x and z of the loop over the chunk.
ShareA(p, s) == Xor(sendMsg[p][s][1], sendMsg[p][s][2])
ShareC(p, s) == Xor(Xor(sendMsg[p][s][1], And(ShareA(p, s), tmpb[p][s])), recvMsg[p][s])

\* Mutant: the byte index is used as a bit index.
CopyFromByte(k) == k \div ByteBits

\* The positions of the bits that memcpy(b + (j >> 3), tmpb, (curStep + 7) >> 3)
\* writes, and what it writes there.
CopyFrom(k) == (k \div ByteBits) * ByteBits
CopyBits(k) == ((CurStep(k) + ByteBits - 1) \div ByteBits) * ByteBits
CopyB(p) ==
  [i \in Pos |-> IF CopyFrom(j[p]) <= i /\ i < CopyFrom(j[p]) + CopyBits(j[p])
                 THEN tmpb[p][i - CopyFrom(j[p])] ELSE b[p][i]]

InChunk(p, i) == j[p] <= i /\ i < j[p] + CurStep(j[p])

\* Mutant: the OT-receiver task is not awaited.
StoreChunkEarly(p) ==
  /\ pc[p] = "await"
  /\ sent[p]
  /\ a' = [a EXCEPT ![p] = [i \in Pos |-> IF InChunk(p, i) THEN ShareA(p, i - j[p]) ELSE @[i]]]
  /\ c' = [c EXCEPT ![p] = [i \in Pos |-> IF InChunk(p, i) THEN ShareC(p, i - j[p]) ELSE @[i]]]
  /\ b' = [b EXCEPT ![p] = CopyB(p)]
  /\ j' = [j EXCEPT ![p] = @ + otStep]
  /\ pc' = [pc EXCEPT ![p] = "start"]
  /\ UNCHANGED <<tmpb, sendMsg, recvMsg, sent, got>>

\* The bottom of the loop, after both awaits.
StoreChunk(p) ==
  /\ pc[p] = "await"
  /\ sent[p] /\ got[p]
  /\ a' = [a EXCEPT ![p] = [i \in Pos |-> IF InChunk(p, i) THEN ShareA(p, i - j[p]) ELSE @[i]]]
  /\ c' = [c EXCEPT ![p] = [i \in Pos |-> IF InChunk(p, i) THEN ShareC(p, i - j[p]) ELSE @[i]]]
  /\ b' = [b EXCEPT ![p] = CopyB(p)]
  /\ j' = [j EXCEPT ![p] = @ + otStep]
  /\ pc' = [pc EXCEPT ![p] = "start"]
  /\ UNCHANGED <<tmpb, sendMsg, recvMsg, sent, got>>

\* flush both forks and return.
Return(p) ==
  /\ pc[p] = "start"
  /\ j[p] >= n
  /\ pc' = [pc EXCEPT ![p] = "done"]
  /\ UNCHANGED <<j, a, b, c, tmpb, sendMsg, recvMsg, sent, got>>

Finished == \A p \in Party : pc[p] = "done"

Terminated == Finished /\ UNCHANGED vars

PartyStep(p) == StartChunk(p) \/ StoreChunk(p) \/ Return(p)

Next ==
  \/ \E p \in Party : PartyStep(p)
  \/ \E p \in Party : Ot(p)
  \/ Terminated

Spec == Init /\ [][Next]_vars

\* Eager tasks run as soon as their socket allows.
FairSpec ==
  /\ Spec
  /\ \A p \in Party : WF_vars(PartyStep(p))
  /\ \A p \in Party : WF_vars(Ot(p))

-----------------------------------------------------------------------------
(* Properties. *)

\* Types of all variables.
TypeOK ==
  /\ j \in [Party -> Nat]
  /\ pc \in [Party -> {"start", "await", "done"}]
  /\ a \in [Party -> [Pos -> Bit]]
  /\ b \in [Party -> [Pos -> Bit]]
  /\ c \in [Party -> [Pos -> Bit]]
  /\ tmpb \in [Party -> [Slot -> Bit]]
  /\ sendMsg \in [Party -> [Slot -> Bit \X Bit]]
  /\ recvMsg \in [Party -> [Slot -> Bit]]
  /\ sent \in [Party -> BOOLEAN]
  /\ got \in [Party -> BOOLEAN]

\* Every position that both parties have stored is a sharing of a triple
\* with (a0 ^ a1) & (b0 ^ b1) = c0 ^ c1, whichever party is ahead: what the
\* equality test assumes of Triples.
TriplesValid ==
  \A i \in Pos : (\A p \in Party : i < j[p]) =>
    And(Xor(a[0][i], a[1][i]), Xor(b[0][i], b[1][i])) = Xor(c[0][i], c[1][i])

\* Two tasks meet in an OT only when they belong to the same chunk, although
\* a party may have started its next chunk: sender and receiver agree on
\* the number of messages and on the positions they are for.
SameChunk ==
  \A p \in Party :
    pc[p] = "await" /\ ~sent[p] /\ pc[Other(p)] = "await" /\ ~got[Other(p)]
      => j[p] = j[Other(p)]

\* Party p is in the chunk of the other party, or one ahead of it.
Level(p) == j[p] = j[Other(p)]
Ahead(p) == j[p] = j[Other(p)] + otStep

\* How the two parties can stand to each other.  In one chunk the tasks of
\* both have completed the same OTs, and none while only one has started; a
\* party is ahead only of one that has both OTs behind it and its shares
\* still to store.
PhaseInv ==
  /\ \A p \in Party :
       /\ j[p] % ByteBits = 0
       /\ pc[p] = "await" => j[p] < n
       /\ pc[p] = "done" => j[p] >= n
       /\ Level(p) /\ pc[p] = "await" =>
            IF pc[Other(p)] = "await" THEN sent[p] = got[Other(p)] ELSE ~sent[p] /\ ~got[p]
       /\ Ahead(p) =>
            /\ pc[Other(p)] = "await" /\ sent[Other(p)] /\ got[Other(p)]
            /\ pc[p] = "await" => ~sent[p] /\ ~got[p]
  /\ Level(0) \/ Ahead(0) \/ Ahead(1)

\* What an OT has left behind until one of its parties stores the chunk.
OtInv ==
  \A p \in Party :
    Level(p) /\ pc[p] = "await" /\ pc[Other(p)] = "await" /\ sent[p] =>
      \A s \in Slot : recvMsg[Other(p)][s] = sendMsg[p][s][tmpb[Other(p)][s] + 1]

\* The shares that the party ahead has stored fit the ones that the other
\* party will compute from its buffers.
AheadInv ==
  \A p \in Party : Ahead(p) =>
    \A i \in Pos : InChunk(Other(p), i) =>
      LET s == i - j[Other(p)]
      IN And(Xor(a[p][i], ShareA(Other(p), s)), Xor(b[p][i], tmpb[Other(p)][s]))
           = Xor(c[p][i], ShareC(Other(p), s))

\* The control state stays in its types, no OT pairs tasks of two chunks,
\* and what is stored, in the buffers or still to come fits together; with
\* TriplesValid it is inductive.
TripleInv == TypeOK /\ SameChunk /\ PhaseInv /\ OtInv /\ AheadInv

\* Both parties return.
Completes == <>Finished
=============================================================================
