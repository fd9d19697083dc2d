------------------------------ MODULE LinfFpsi ------------------------------
(***************************************************************************)
(* The online phase after the fuzzy mapping, for the L-infinity metric:    *)
(* psi_online_{cmp,sh} steps 2 to 4 and mp_ssFMat_linf{,_sh} of            *)
(* fpsi_recv.cpp and fpsi_sender.cpp.                                      *)
(*                                                                         *)
(* Each party runs one thread per dimension; thread d talks to its peer    *)
(* over socket d only.  The threads are joined, and the main threads run   *)
(* the equality test and the oblivious transfer over socket 0.             *)
(*                                                                         *)
(* Random 128-bit blocks are symbols that are equal only if they are the   *)
(* same draw.  The OPPRF is its functionality (opprf/Opprf.cpp): the       *)
(* querying side gets the programmed value for a programmed key and the    *)
(* PRF value of the key for any other.  Its messages are kept as a request *)
(* and an answer, so that the two sides advance one after the other.       *)
(***************************************************************************)
EXTENDS Bits, Matching

CONSTANTS
  RangeKeys(_),    \* set_dec(c - DELTA, c + DELTA, u)
  PointKeys(_),    \* set_prefix(c, u)
  PrefixCount,     \* prefix_param.second
  PrefixSize       \* prefix_param.first.size()

\* What PrefixDec's runs establish of set_dec and set_prefix.
ASSUME KeysAssumption ==
  \A c, v \in Coord :
    /\ (RangeKeys(c) \cap PointKeys(v) # {}) <=> Near(c, v)
    /\ \A p, q \in RangeKeys(c) \cap PointKeys(v) : p = q
\* The entries of the parameter table: a point has one prefix per level, an
\* interval at most PrefixCount of them.
ASSUME PrefixAssumption ==
  /\ PrefixCount \in Nat /\ PrefixSize \in Nat
  /\ \A c \in Coord :
       /\ IsFiniteSet(RangeKeys(c)) /\ Cardinality(RangeKeys(c)) <= PrefixCount
       /\ IsFiniteSet(PointKeys(c)) /\ Cardinality(PointKeys(c)) = PrefixSize

VARIABLES
  tR, tS,           \* where each dimension thread stands
  otherR, otherS,   \* opprf_size_other of each thread
  toS, toR,         \* socket d, towards the sender and towards the receiver
  u,                \* u of sender thread d, per bin
  rr,               \* rr_vals[d] of the receiver, per bin
  mR, mS,           \* where the main threads stand
  eeR, eeS,         \* the shares of the match bit per bin
  found             \* intersection_idxs_tmp.size()

vars == <<ballsR, ballsS, locs, slot, tR, tS, otherR, otherS, toS, toR, u, rr,
          mR, mS, eeR, eeS, found>>

-----------------------------------------------------------------------------
(* Random blocks. *)

AVal(d, b) == <<"a", d, b>>      \* a_random[d * bins_num + b]
RVal(d, b) == <<"r", d, b>>      \* r_vals[d * bins_num + b]
Prf(d, q)  == <<"f", d, q>>      \* PRF output of an OPPRF of socket d

-----------------------------------------------------------------------------
(* Step 3: keys of the first OPPRF.  The hash of prefix, identifier, hash *)
(* index and bin is modelled by the four of them.                         *)

\* Mutant: the identifier is not hashed into the key.
KeyNoId(p, id, k, b) == [pre |-> p, id |-> None, k |-> k, bin |-> b]

Key(p, id, k, b) == [pre |-> p, id |-> id, k |-> k, bin |-> b]

\* getList of receiver thread d.
ListKeys(d) ==
  UNION {{Key(p, ballsR[i].id, k, Loc(ballsR[i].id, k)) :
            p \in RangeKeys(ballsR[i].pt[d]), k \in HashIdx} : i \in BallR}

\* opprf_size, and the length of the list after padding_keys, which does
\* not shorten a longer list.
OpprfSize == PrefixCount * Cardinality(BallR) * Cardinality(HashIdx)
ListSize(d) ==
  IF Cardinality(ListKeys(d)) < OpprfSize THEN OpprfSize ELSE Cardinality(ListKeys(d))

\* The keys of sender thread d for bin b; random blocks for an empty bin.
BinKeys(d, b) ==
  IF BallIn(b) = None
  THEN {Key(j, None, None, b) : j \in 1 .. PrefixSize}
  ELSE {Key(p, ballsS[BallIn(b)].id, slot[BallIn(b)], b) :
          p \in PointKeys(ballsS[BallIn(b)].pt[d])}

KeysSize == PrefixSize * Cardinality(Bin)

\* A key of the list is programmed with a_random of its bin.
Opprf1(d, list, q) == IF q \in list THEN AVal(d, q.bin) ELSE Prf(d, q)

\* The candidates u of bin b are programmed with r_vals of the bin.
Opprf2(d, uu, v) ==
  IF \E b \in Bin : v \in uu[b]
  THEN RVal(d, CHOOSE b \in Bin : v \in uu[b])
  ELSE Prf(d, v)

-----------------------------------------------------------------------------

Init ==
  /\ InputInit
  /\ tR = [d \in Dim |-> "list"] /\ tS = [d \in Dim |-> "keys"]
  /\ otherR = [d \in Dim |-> 0] /\ otherS = [d \in Dim |-> 0]
  /\ toS = [d \in Dim |-> <<>>] /\ toR = [d \in Dim |-> <<>>]
  /\ u = [d \in Dim |-> [b \in Bin |-> {}]]
  /\ rr = [d \in Dim |-> [b \in Bin |-> None]]
  /\ mR = "join" /\ mS = "join"
  /\ eeR = <<>> /\ eeS = <<>>
  /\ found = None

-----------------------------------------------------------------------------
(* Receiver thread of dimension d. *)

\* getList, padding, send(opprf_size).
R_List(d) ==
  /\ tR[d] = "list"
  /\ toS' = Send(toS, d, Msg("size", OpprfSize, None))
  /\ tR' = [tR EXCEPT ![d] = "size"]
  /\ UNCHANGED <<inputs, tS, otherR, otherS, toR, u, rr, mR, mS, eeR, eeS, found>>

\* recv(opprf_size_other).
R_Size(d) ==
  /\ tR[d] = "size"
  /\ Has(toR, d)
  /\ otherR' = [otherR EXCEPT ![d] = Head(toR[d]).n]
  /\ toR' = Pop(toR, d)
  /\ tR' = [tR EXCEPT ![d] = "program"]
  /\ UNCHANGED <<inputs, tS, otherS, toS, u, rr, mR, mS, eeR, eeS, found>>

\* RsOpprfSender::send with prefix_keys and prefix_vals, then the request of
\* RsOpprfReceiver::receive for the own a_random.
R_Program(d) ==
  /\ tR[d] = "program"
  /\ Has(toR, d)
  /\ toR' = Pop(toR, d)
  /\ toS' = [toS EXCEPT ![d] = @ \o <<Msg("answer", ListSize(d), ListKeys(d)),
                                      Msg("request", Cardinality(Bin), None)>>]
  /\ tR' = [tR EXCEPT ![d] = "query"]
  /\ UNCHANGED <<inputs, tS, otherR, otherS, u, rr, mR, mS, eeR, eeS, found>>

\* The end of RsOpprfReceiver::receive: rr_vals[d].
R_Query(d) ==
  /\ tR[d] = "query"
  /\ Has(toR, d)
  /\ rr' = [rr EXCEPT ![d] = [b \in Bin |-> Opprf2(d, Head(toR[d]).body, AVal(d, b))]]
  /\ toR' = Pop(toR, d)
  /\ tR' = [tR EXCEPT ![d] = "done"]
  /\ UNCHANGED <<inputs, tS, otherR, otherS, toS, u, mR, mS, eeR, eeS, found>>

-----------------------------------------------------------------------------
(* Sender thread of dimension d. *)

\* set_prefix for every bin, recv(opprf_size_other), send(keys_size), then
\* the request of RsOpprfReceiver::receive.
S_Keys(d) ==
  /\ tS[d] = "keys"
  /\ Has(toS, d)
  /\ otherS' = [otherS EXCEPT ![d] = Head(toS[d]).n]
  /\ toS' = Pop(toS, d)
  /\ toR' = [toR EXCEPT ![d] = @ \o <<Msg("size", KeysSize, None),
                                      Msg("request", KeysSize, None)>>]
  /\ tS' = [tS EXCEPT ![d] = "eval"]
  /\ UNCHANGED <<inputs, tR, otherR, u, rr, mR, mS, eeR, eeS, found>>

\* The end of RsOpprfReceiver::receive: the candidates u of every bin.
S_Eval(d) ==
  /\ tS[d] = "eval"
  /\ Has(toS, d)
  /\ u' = [u EXCEPT ![d] =
             [b \in Bin |-> {Opprf1(d, Head(toS[d]).body, q) : q \in BinKeys(d, b)}]]
  /\ toS' = Pop(toS, d)
  /\ tS' = [tS EXCEPT ![d] = "program"]
  /\ UNCHANGED <<inputs, tR, otherR, otherS, toR, rr, mR, mS, eeR, eeS, found>>

\* RsOpprfSender::send: every candidate of a bin is programmed with r_vals
\* of the bin.
S_Program(d) ==
  /\ tS[d] = "program"
  /\ Has(toS, d)
  /\ toS' = Pop(toS, d)
  /\ toR' = Send(toR, d, Msg("answer", KeysSize, u[d]))
  /\ tS' = [tS EXCEPT ![d] = "done"]
  /\ UNCHANGED <<inputs, tR, otherR, otherS, u, rr, mR, mS, eeR, eeS, found>>

-----------------------------------------------------------------------------
(* Main threads: join, equality test, oblivious transfer. *)

\* Mutant: the receiver's threads are not joined.
R_JoinNone ==
  /\ mR = "join"
  /\ mR' = "peqt"
  /\ UNCHANGED <<inputs, tR, tS, otherR, otherS, toS, toR, u, rr, mS, eeR, eeS, found>>

\* The join of the dimension threads.
R_Join ==
  /\ mR = "join"
  /\ \A d \in Dim : tR[d] = "done"
  /\ mR' = "peqt"
  /\ UNCHANGED <<inputs, tR, tS, otherR, otherS, toS, toR, u, rr, mS, eeR, eeS, found>>

S_Join ==
  /\ mS = "join"
  /\ \A d \in Dim : tS[d] = "done"
  /\ mS' = "peqt"
  /\ UNCHANGED <<inputs, tR, tS, otherR, otherS, toS, toR, u, rr, mR, eeR, eeS, found>>

\* rr_vals_sums and r_vals_sums: the XOR over the dimensions of blocks that
\* were drawn independently, written as the list of what is summed.
RSum(b) == [d \in Dim |-> rr[d][b]]
SSum(b) == [d \in Dim |-> RVal(d, b)]

\* Batch_PEQT over socket 0, by its functionality (module Peqt implements
\* it); a side returns only when the other has entered the test.
Equality == INSTANCE PeqtIdeal WITH
  Row <- Bin, Elements <- {}, NoOutput <- <<>>,
  x <- [b \in Bin |-> RSum(b)], y <- [b \in Bin |-> SSum(b)],
  out0 <- eeR, out1 <- eeS

R_Peqt ==
  /\ mR = "peqt"
  /\ mS # "join"
  /\ mR' = "choose"
  /\ UNCHANGED <<inputs, tR, tS, otherR, otherS, toS, toR, u, rr, mS, eeS, found>>
  /\ Equality!Output0

S_Peqt ==
  /\ mS = "peqt"
  /\ mR # "join"
  /\ mS' = "transfer"
  /\ UNCHANGED <<inputs, tR, tS, otherR, otherS, toS, toR, u, rr, mR, eeR, found>>
  /\ Equality!Output1

\* SilentOtExtReceiver::receive with the choice bits ee.
R_Choose ==
  /\ mR = "choose"
  /\ toS' = Send(toS, 0, Msg("choice", Cardinality(Bin), None))
  /\ mR' = "lookup"
  /\ UNCHANGED <<inputs, tR, tS, otherR, otherS, toR, u, rr, mS, eeR, eeS, found>>

\* Mutant: the identifier goes to the side of the own bit.
OtMessagesSwapped(b) ==
  IF BallIn(b) = None THEN <<None, None>>
  ELSE IF eeS[b] = 1 THEN <<None, ballsS[BallIn(b)].id>>
  ELSE <<ballsS[BallIn(b)].id, None>>

\* half_sendMsg_0 and half_sendMsg_1 of bin b without the OT pads: the
\* identifier goes to the side of the complement of the own bit.
OtMessages(b) ==
  IF BallIn(b) = None THEN <<None, None>>
  ELSE IF eeS[b] = 1 THEN <<ballsS[BallIn(b)].id, None>>
  ELSE <<None, ballsS[BallIn(b)].id>>

\* Mutant: the second half is never sent.
S_TransferHalf ==
  /\ mS = "transfer"
  /\ Has(toS, 0)
  /\ toS' = Pop(toS, 0)
  /\ toR' = Send(toR, 0, Msg("half0", Cardinality(Bin), [b \in Bin |-> OtMessages(b)[1]]))
  /\ mS' = "done"
  /\ UNCHANGED <<inputs, tR, tS, otherR, otherS, u, rr, mR, eeR, eeS, found>>

S_Transfer ==
  /\ mS = "transfer"
  /\ Has(toS, 0)
  /\ toS' = Pop(toS, 0)
  /\ toR' = [toR EXCEPT ![0] =
               @ \o <<Msg("half0", Cardinality(Bin), [b \in Bin |-> OtMessages(b)[1]]),
                      Msg("half1", Cardinality(Bin), [b \in Bin |-> OtMessages(b)[2]])>>]
  /\ mS' = "done"
  /\ UNCHANGED <<inputs, tR, tS, otherR, otherS, u, rr, mR, eeR, eeS, found>>

\* Mutant: the choice bit selects the other message.
RecvMsgInverted(b) == IF eeR[b] = 0 THEN toR[0][2].body[b] ELSE toR[0][1].body[b]

\* recvMsgs: the message the choice bit selects; a random block, modelled by
\* None, is in no table.  The lookup counts the identifiers it knows.
RecvMsg(b) == IF eeR[b] = 1 THEN toR[0][2].body[b] ELSE toR[0][1].body[b]

R_Lookup ==
  /\ mR = "lookup"
  /\ Len(toR[0]) >= 2
  /\ found' = Cardinality({b \in Bin : RecvMsg(b) \in {ballsR[i].id : i \in BallR}})
  /\ toR' = [toR EXCEPT ![0] = SubSeq(@, 3, Len(@))]
  /\ mR' = "done"
  /\ UNCHANGED <<inputs, tR, tS, otherR, otherS, toS, u, rr, mS, eeR, eeS>>

-----------------------------------------------------------------------------

Finished == mR = "done" /\ mS = "done"

Terminated == Finished /\ UNCHANGED vars

RecvThread(d) == R_List(d) \/ R_Size(d) \/ R_Program(d) \/ R_Query(d)
SendThread(d) == S_Keys(d) \/ S_Eval(d) \/ S_Program(d)
RecvMain == R_Join \/ R_Peqt \/ R_Choose \/ R_Lookup
SendMain == S_Join \/ S_Peqt \/ S_Transfer

Next ==
  \/ \E d \in Dim : RecvThread(d) \/ SendThread(d)
  \/ RecvMain
  \/ SendMain
  \/ Terminated

Spec == Init /\ [][Next]_vars

\* Every std::thread that can go on does.
FairSpec ==
  /\ Spec
  /\ \A d \in Dim : WF_vars(RecvThread(d)) /\ WF_vars(SendThread(d))
  /\ WF_vars(RecvMain)
  /\ WF_vars(SendMain)

-----------------------------------------------------------------------------
(* Properties. *)

\* Receiver ball i and sender ball s got one identifier and are close in
\* dimension d.
CloseIn(d, i, s) ==
  ballsR[i].id = ballsS[s].id /\ Near(ballsR[i].pt[d], ballsS[s].pt[d])

\* Sender ball s is in the fuzzy intersection.
Match(s) == \E i \in BallR : \A d \in Dim : CloseIn(d, i, s)

\* Types of the control state.
TypeOK ==
  /\ tR \in [Dim -> {"list", "size", "program", "query", "done"}]
  /\ tS \in [Dim -> {"keys", "eval", "program", "done"}]
  /\ mR \in {"join", "peqt", "choose", "lookup", "done"}
  /\ mS \in {"join", "peqt", "transfer", "done"}
  /\ otherR \in [Dim -> Nat] /\ otherS \in [Dim -> Nat]
  /\ DOMAIN toS = Dim /\ DOMAIN toR = Dim
  /\ DOMAIN u = Dim /\ DOMAIN rr = Dim
  /\ eeR \in [Bin -> Bit] \cup {<<>>} /\ eeS \in [Bin -> Bit] \cup {<<>>}
  /\ found \in Nat \cup {None}

\* The second OPPRF gives the receiver the sender's r_vals of a bin exactly
\* when the ball in that bin is close in this dimension: two balls of the
\* receiver in one bin, balls that only collide in the hash table and empty
\* bins never produce it.
DimensionMatch ==
  \A d \in Dim : tR[d] = "done" =>
    \A b \in Bin :
      rr[d][b] = RVal(d, b) <=>
        BallIn(b) # None /\ \E i \in BallR : CloseIn(d, i, BallIn(b))

\* The keys the sender programs are all different, within a bin and between
\* bins; the OKVS of RsOpprfSender::send has no solution for a key that
\* occurs twice.
DistinctCandidates ==
  \A d \in Dim : tS[d] \in {"program", "done"} =>
    /\ \A b \in Bin : Cardinality(u[d][b]) = PrefixSize
    /\ \A b, c \in Bin : b # c => u[d][b] \cap u[d][c] = {}

\* Each side of an OPPRF runs with the size the other side really uses: the
\* answer has the announced number of keys and the request the announced
\* number of queries.
SizesAgree ==
  \A d \in Dim :
    /\ tS[d] = "eval" /\ Has(toS, d) => Head(toS[d]).n = otherS[d]
    /\ tR[d] = "program" /\ Has(toR, d) => Head(toR[d]).n = otherR[d]
    /\ tR[d] = "query" /\ Has(toR, d) => Head(toR[d]).n = otherR[d]
    /\ tS[d] = "program" /\ Has(toS, d) => Head(toS[d]).n = Cardinality(Bin)

\* What a reader takes from its socket is the message it waits for, although
\* socket 0 carries a dimension thread, the equality test and the oblivious
\* transfer one after the other and each side may be a phase ahead.
ExpectedMessage ==
  /\ \A d \in Dim : Has(toR, d) =>
       LET type == Head(toR[d]).type
       IN /\ tR[d] = "size" => type = "size"
          /\ tR[d] = "program" => type = "request"
          /\ tR[d] = "query" => type = "answer"
          /\ tR[d] = "done" => mR = "lookup" /\ type = "half0"
  /\ \A d \in Dim : Has(toS, d) =>
       LET type == Head(toS[d]).type
       IN /\ tS[d] = "keys" => type = "size"
          /\ tS[d] = "eval" => type = "answer"
          /\ tS[d] = "program" => type = "request"
          /\ tS[d] = "done" => mS \in {"peqt", "transfer"} /\ type = "choice"

\* The answers sender thread d gets for the keys of its bins.
Candidates(d) ==
  [b \in Bin |-> {Opprf1(d, ListKeys(d), q) : q \in BinKeys(d, b)}]

\* Where thread d of the receiver and thread d of the sender can be, and
\* what their socket then holds in each direction.
ThreadState(d, r, s, towardsS, towardsR) ==
  tR[d] = r /\ tS[d] = s /\ toS[d] = towardsS /\ toR[d] = towardsR

ThreadPhase(d) ==
  \/ ThreadState(d, "list", "keys", <<>>, <<>>)
  \/ ThreadState(d, "size", "keys", <<Msg("size", OpprfSize, None)>>, <<>>)
  \/ ThreadState(d, "size", "eval", <<>>,
                 <<Msg("size", KeysSize, None), Msg("request", KeysSize, None)>>)
  \/ ThreadState(d, "program", "eval", <<>>, <<Msg("request", KeysSize, None)>>)
  \/ ThreadState(d, "query", "eval",
                 <<Msg("answer", OpprfSize, ListKeys(d)), Msg("request", Cardinality(Bin), None)>>,
                 <<>>)
  \/ ThreadState(d, "query", "program", <<Msg("request", Cardinality(Bin), None)>>, <<>>)
  \/ ThreadState(d, "query", "done", <<>>, <<Msg("answer", KeysSize, Candidates(d))>>)
  \/ tR[d] = "done" /\ tS[d] = "done"

\* The threads of a dimension stay in step, with the sizes announced.
ThreadInv ==
  \A d \in Dim :
    /\ ThreadPhase(d)
    /\ tS[d] # "keys" => otherS[d] = OpprfSize
    /\ tR[d] \notin {"list", "size"} => otherR[d] = KeysSize
    /\ tS[d] \in {"program", "done"} => u[d] = Candidates(d)
    /\ tR[d] = "done" => rr[d] = [b \in Bin |-> Opprf2(d, Candidates(d), AVal(d, b))]

\* What the oblivious transfer has on socket 0.
ChoiceSent == mR = "lookup" /\ mS # "done"
HalvesSent == mR = "lookup" /\ mS = "done"
Halves ==
  <<Msg("half0", Cardinality(Bin), [b \in Bin |-> OtMessages(b)[1]]),
    Msg("half1", Cardinality(Bin), [b \in Bin |-> OtMessages(b)[2]])>>

\* The main threads go on only after their dimension threads, at most one
\* phase apart, and use a socket that those have left empty.
MainInv ==
  /\ mR # "join" => \A d \in Dim : tR[d] = "done"
  /\ mS # "join" => \A d \in Dim : tS[d] = "done"
  /\ mR \notin {"join", "peqt"} => mS # "join" /\ eeR \in [Bin -> Bit]
  /\ mS \notin {"join", "peqt"} => mR # "join" /\ eeS \in [Bin -> Bit]
  /\ mR \in {"join", "peqt"} => eeR = <<>>
  /\ mS \in {"join", "peqt"} => eeS = <<>>
  /\ mS = "done" => mR \in {"lookup", "done"}
  /\ mR = "done" => mS = "done"
  /\ mR # "done" => found = None
  /\ \A d \in Dim : tR[d] = "done" =>
       /\ toS[d] = IF d = 0 /\ ChoiceSent THEN <<Msg("choice", Cardinality(Bin), None)>> ELSE <<>>
       /\ toR[d] = IF d = 0 /\ HalvesSent THEN Halves ELSE <<>>

\* What keeps the two parties in step over the sockets they share.
ProtocolInv ==
  TypeOK /\ ThreadInv /\ MainInv /\ DistinctCandidates /\ SizesAgree /\ ExpectedMessage

\* The two match bits of a bin differ exactly when the ball of the bin is in
\* the fuzzy intersection.
SharedMatch ==
  mR \notin {"join", "peqt"} /\ mS \notin {"join", "peqt"} =>
    \A b \in Bin :
      Xor(eeR[b], eeS[b]) = 1 <=> BallIn(b) # None /\ Match(BallIn(b))

\* A match in every dimension, and only that, becomes a match of the bin.
MatchInv == DimensionMatch /\ SharedMatch

\* The oblivious transfer hands the receiver an identifier only for a bin
\* whose ball is in the intersection.
OnlyMatchesRevealed ==
  mR = "lookup" /\ Len(toR[0]) = 2 =>
    \A b \in Bin : RecvMsg(b) # None => Match(BallIn(b))

\* Both parties finish, whatever the order in which the threads run.
Completes == <>Finished

\* The protocol implements the ideal functionality: the receiver's count is
\* the size of the fuzzy intersection, and it arrives.
Ideal == INSTANCE FpsiIdeal WITH
  NoResult <- None, close <- {s \in BallS : Match(s)}, result <- found

ImplementsIdeal == Ideal!FairSpec
=============================================================================
