-------------------------------- MODULE LpFpsi -------------------------------
(***************************************************************************)
(* The fuzzy matching for the metrics L_p: mp_ssFMat_lp{,_sh} and ssIFMat  *)
(* of fpsi_recv.cpp and fpsi_sender.cpp, up to the shares ee of the match  *)
(* bits.  The oblivious transfer that follows is the code that LinfFpsi    *)
(* models.                                                                 *)
(*                                                                         *)
(* Thread d of either party leaves two shares of |x - y|^METRIC modulo M   *)
(* for every bin: v_hat and the sender's mask.  The threads are joined,    *)
(* the shares are added up over the dimensions in 64-bit words, and        *)
(* ssIFMat tests over socket 0 whether the sums differ by at most          *)
(* DELTA^METRIC.                                                           *)
(*                                                                         *)
(* Random keys are symbols that are equal only if they are the same draw,  *)
(* and a number computed from an answer that was not programmed is None:   *)
(* it is in no relation to the other party's numbers.  The OPPRF is its    *)
(* functionality, its messages a request and an answer, as in LinfFpsi.    *)
(***************************************************************************)
EXTENDS Bits, Matching, PrefixDec, LpArith

CONSTANTS
  LevelsPlus, CountPlus,   \* LpParamTable for DELTA + 1
  Levels, Count,           \* LpParamTable for DELTA
  LevelsIf, CountIf,       \* IfMatchParamTable for Threshold + 1
  Draws                    \* the random draws considered

Threshold == fast_pow(DELTA, METRIC)

\* A draw: masks a[d][b][s] of the receiver (a_vole, and a_p for s = METRIC),
\* d_vole[d][b][s] and b_delta of the sender, and its masks[d][b].
ASSUME DrawAssumption ==
  \A w \in Draws :
    /\ w.a \in [Dim -> [Bin -> [Power -> 0 .. M - 1]]]
    /\ w.d \in [Dim -> [Bin -> [LowPower -> 0 .. M - 1]]]
    /\ w.bDelta \in 0 .. M - 1
    /\ w.mask \in [Dim -> [Bin -> 0 .. M - 1]]
\* prefix_size_each_bin of mp_ssFMat_lp counts both lists with one of the
\* two level sets (LpTableAssumption of PrefixDec for the real tables).
ASSUME LevelsAssumption == Cardinality(LevelsPlus) = Cardinality(Levels)
\* Every level set has level 0, the whole value.
ASSUME LevelSetAssumption ==
  \A lv \in {LevelsPlus, Levels, LevelsIf} : IsFiniteSet(lv) /\ lv \subseteq Nat /\ 0 \in lv
\* IfMatchParamTable has rows for DELTA and for DELTA^2 only.
ASSUME LpMetricAssumption == METRIC \in {1, 2}
\* A sum of the powers stays below the modulus: 2^32 against
\* DIM * 250^2 at most.
ASSUME RangeAssumption == DIM * Pow(DELTA, METRIC) < M
\* Points are sampled away from the ends of the word, and a radius is one of
\* the table: set_dec throws for x + 1 > x + DELTA.
ASSUME LowCoordAssumption == DELTA > 0 /\ \A c \in Coord : c >= DELTA
\* An absent number or row is none.
ASSUME NoNumberAssumption == None \notin Int /\ None \notin [Power -> 0 .. M - 1]

VARIABLES
  draw,             \* the random draws of this execution
  tR, tS,           \* where each dimension thread stands
  otherR, otherS,   \* opprf_size_other of each thread
  toS, toR,         \* socket d, towards the sender and towards the receiver
  u,                \* candidates of sender thread d, per bin
  v_hat,            \* v_hat(b, d) of the receiver
  mR, mS,           \* where the main threads stand
  ifOtherR, ifOtherS, \* opprf_size_other of ssIFMat
  r_,               \* answers of the first OPPRF of ssIFMat, per bin
  t_,               \* answers of its second OPPRF, per bin
  eeR, eeS          \* the shares of the match bit per bin

const == <<inputs, draw>>
sockets == <<toS, toR>>
threads == <<tR, tS, otherR, otherS, u, v_hat>>
main == <<mR, mS, ifOtherR, ifOtherS, r_, t_, eeR, eeS>>
vars == <<const, sockets, threads, main>>

-----------------------------------------------------------------------------
(* Keys and rows of the OPPRFs. *)

A0(d, b)   == <<"a0", d, b>>     \* a_random[bin * stride + 2 * dim]
IfA(b)     == <<"a", b>>         \* a_random[b] of ssIFMat_recv
IfT(b)     == <<"t", b>>         \* t[b] of ssIFMat_send
Prf(d, q)  == <<"f", d, q>>      \* PRF output of an OPPRF of socket d

Sigma == {0, 1}

\* x_0 and x_1: the strings below and above the receiver's value.
Strings(sg, x) ==
  IF sg = 0 THEN set_dec(x - DELTA, x, LevelsPlus) ELSE set_dec(x + 1, x + DELTA, Levels)

\* prefixs_0 and prefixs_1 of the sender's value.
Prefixes(sg, y) == set_prefix(y, IF sg = 0 THEN LevelsPlus ELSE Levels)

\* The counts of the tables are large enough (FitsTable of MCOperators for
\* the real ones).
ASSUME CountAssumption ==
  /\ CountPlus \in Nat /\ Count \in Nat
  /\ \A x \in Coord : /\ Cardinality(Strings(0, x)) <= CountPlus
                       /\ Cardinality(Strings(1, x)) <= Count

\* diff of the receiver and e of the sender: the distances to the end of
\* the string that faces the receiver's value.
Diff(sg, x, p) == IF sg = 0 THEN x - up_bound(p) ELSE low_bound(p) - x

\* Mutant: the end of the string that faces away.
GapFar(sg, y, p) == IF sg = 0 THEN y - low_bound(p) ELSE up_bound(p) - y

Gap(sg, y, p) == IF sg = 0 THEN up_bound(p) - y ELSE y - low_bound(p)

Key(p, id, k, b, sg) == [pre |-> p, id |-> id, k |-> k, bin |-> b, side |-> sg]

\* getList_lp of receiver thread d: keys with a0 and the masked powers.
List(d) ==
  UNION {{LET b == Loc(ballsR[i].id, k)
          IN [key |-> Key(p, ballsR[i].id, k, b, sg), a0 |-> A0(d, b),
              row |-> PrefixVals(draw.a[d][b], Diff(sg, ballsR[i].pt[d], p))] :
            p \in Strings(sg, ballsR[i].pt[d])} :
         i \in BallR, k \in HashIdx, sg \in Sigma}

OpprfSize == (CountPlus + Count) * Cardinality(BallR) * Cardinality(HashIdx)

\* The length of the list after padding, which does not shorten a longer one.
ListSize(d) == Max({OpprfSize, Cardinality(List(d))})

\* The queries of sender thread d for bin b, with e; random for an empty bin.
BinKeys(d, b) ==
  IF BallIn(b) = None
  THEN {[key |-> Key(j, None, None, b, None), e |-> 0] : j \in 1 .. 2 * Cardinality(Levels)}
  ELSE LET s == BallIn(b)
           y == ballsS[s].pt[d]
       IN UNION {{[key |-> Key(p, ballsS[s].id, slot[s], b, sg), e |-> Gap(sg, y, p)] :
                    p \in Prefixes(sg, y)} : sg \in Sigma}

\* Mutant: only one of the two lists is counted.
PrefixSizeOneSide == Cardinality(Levels)

\* keys_size, and the length of prefix_keys.
PrefixSizeEachBin == 2 * Cardinality(Levels)
KeysSize == PrefixSizeEachBin * Cardinality(Bin)
QueryCount(d) == Cardinality(UNION {BinKeys(d, b) : b \in Bin})

\* What the sender gets for a query: the programmed row, or nothing it can
\* use.
Answer(d, list, q) ==
  IF \E i \in list : i.key = q.key
  THEN LET i == CHOOSE j \in list : j.key = q.key
       IN [e |-> q.e, a0 |-> i.a0, row |-> i.row]
  ELSE [e |-> q.e, a0 |-> Prf(d, q.key), row |-> None]

\* v_candidates of sender thread d for the answers ud, with their keys, the
\* hash of u_0 and bin.
Candidates(d, ud) ==
  UNION {{[key |-> <<i.a0, b>>,
           val |-> IF i.row = None THEN None
                   ELSE VCandidates(i.row, i.e, draw.d[d][b], draw.bDelta, draw.mask[d][b])] :
            i \in ud[b]} : b \in Bin}

\* v_hat of the receiver for bin b from the candidates of the sender.
VHatOf(d, b, cand) ==
  LET hit == {i \in cand : i.key = <<A0(d, b), b>>}
      a == draw.a[d][b]
  IN IF hit = {} THEN None
     ELSE VHat((CHOOSE i \in hit : TRUE).val, a, CVole(a, draw.bDelta, draw.d[d][b]))

-----------------------------------------------------------------------------

Init ==
  /\ InputInit
  /\ draw \in Draws
  /\ tR = [d \in Dim |-> "list"] /\ tS = [d \in Dim |-> "keys"]
  /\ otherR = [d \in Dim |-> 0] /\ otherS = [d \in Dim |-> 0]
  /\ toS = [d \in Dim |-> <<>>] /\ toR = [d \in Dim |-> <<>>]
  /\ u = [d \in Dim |-> [b \in Bin |-> {}]]
  /\ v_hat = [d \in Dim |-> [b \in Bin |-> None]]
  /\ mR = "join" /\ mS = "join"
  /\ ifOtherR = 0 /\ ifOtherS = 0
  /\ r_ = [b \in Bin |-> {}] /\ t_ = [b \in Bin |-> None]
  /\ eeR = <<>> /\ eeS = <<>>

(* Receiver thread of dimension d. *)

\* getList_lp, padding, send(opprf_size).
R_List(d) ==
  /\ tR[d] = "list"
  /\ toS' = Send(toS, d, Msg("size", OpprfSize, None))
  /\ tR' = [tR EXCEPT ![d] = "size"]
  /\ UNCHANGED <<const, toR, tS, otherR, otherS, u, v_hat, main>>

\* recv(opprf_size_other).
R_Size(d) ==
  /\ tR[d] = "size"
  /\ Has(toR, d)
  /\ otherR' = [otherR EXCEPT ![d] = Head(toR[d]).n]
  /\ toR' = Pop(toR, d)
  /\ tR' = [tR EXCEPT ![d] = "program"]
  /\ UNCHANGED <<const, toS, tS, otherS, u, v_hat, main>>

\* RsOpprfSender::send, then the request of RsOpprfReceiver::receive for the
\* own a0.
R_Program(d) ==
  /\ tR[d] = "program"
  /\ Has(toR, d)
  /\ toR' = Pop(toR, d)
  /\ toS' = [toS EXCEPT ![d] = @ \o <<Msg("answer", ListSize(d), List(d)),
                                      Msg("request", Cardinality(Bin), None)>>]
  /\ tR' = [tR EXCEPT ![d] = "query"]
  /\ UNCHANGED <<const, tS, otherR, otherS, u, v_hat, main>>

\* The end of RsOpprfReceiver::receive and step 6: v_hat.
R_Query(d) ==
  /\ tR[d] = "query"
  /\ Has(toR, d)
  /\ v_hat' = [v_hat EXCEPT ![d] = [b \in Bin |-> VHatOf(d, b, Head(toR[d]).body)]]
  /\ toR' = Pop(toR, d)
  /\ tR' = [tR EXCEPT ![d] = "done"]
  /\ UNCHANGED <<const, toS, tS, otherR, otherS, u, main>>

(* Sender thread of dimension d. *)

\* set_prefix for every bin, recv(opprf_size_other), send(keys_size), then
\* the request of RsOpprfReceiver::receive.
S_Keys(d) ==
  /\ tS[d] = "keys"
  /\ Has(toS, d)
  /\ otherS' = [otherS EXCEPT ![d] = Head(toS[d]).n]
  /\ toS' = Pop(toS, d)
  /\ toR' = [toR EXCEPT ![d] = @ \o <<Msg("size", KeysSize, None),
                                      Msg("request", QueryCount(d), None)>>]
  /\ tS' = [tS EXCEPT ![d] = "eval"]
  /\ UNCHANGED <<const, tR, otherR, u, v_hat, main>>

\* The end of RsOpprfReceiver::receive: u.
S_Eval(d) ==
  /\ tS[d] = "eval"
  /\ Has(toS, d)
  /\ u' = [u EXCEPT ![d] =
             [b \in Bin |-> {Answer(d, Head(toS[d]).body, q) : q \in BinKeys(d, b)}]]
  /\ toS' = Pop(toS, d)
  /\ tS' = [tS EXCEPT ![d] = "program"]
  /\ UNCHANGED <<const, toR, tR, otherR, otherS, v_hat, main>>

\* u_hat and v of every candidate, RsOpprfSender::send.
S_Program(d) ==
  /\ tS[d] = "program"
  /\ Has(toS, d)
  /\ toS' = Pop(toS, d)
  /\ toR' = Send(toR, d, Msg("answer", KeysSize, Candidates(d, u[d])))
  /\ tS' = [tS EXCEPT ![d] = "done"]
  /\ UNCHANGED <<const, tR, otherR, otherS, u, v_hat, main>>

-----------------------------------------------------------------------------
(* Main threads: sums and ssIFMat over socket 0. *)

\* v_sums and u_sums are 64-bit sums of 32-bit words.
VSum(b) ==
  IF \E d \in Dim : v_hat[d][b] = None THEN None
  ELSE SumLoop([d \in Dim |-> v_hat[d][b]], 0, DIM)

USum(b) == SumLoop([d \in Dim |-> draw.mask[d][b]], 0, DIM)

\* set_dec of ssIFMat_recv for a sum v, set_prefix of ssIFMat_send.
IfStrings(v) == set_dec(v, v + Threshold, LevelsIf)
IfPrefixes(n) == set_prefix(n, LevelsIf)

ASSUME IfCountAssumption ==
  CountIf \in Nat /\ \A v \in 0 .. DIM * (M - 1) : Cardinality(IfStrings(v)) <= CountIf

\* The list of ssIFMat_recv.  The strings of a sum in no relation to the
\* sender's are left out: no query of the sender meets them.
IfList ==
  UNION {{<<p, b>> : p \in IfStrings(VSum(b))} : b \in {c \in Bin : VSum(c) # None}}

IfSize == CountIf * Cardinality(Bin)
IfListSize == Max({IfSize, Cardinality(IfList)})
IfKeysSize == Cardinality(LevelsIf) * Cardinality(Bin)

IfAnswer(list, q) == IF q \in list THEN IfA(q[2]) ELSE Prf(0, q)

\* t_[b]: the sender programmed every answer of a bin with t of the bin.
IfSelect(cand, b) ==
  IF \E c \in Bin : IfA(b) \in cand[c] THEN IfT(CHOOSE c \in Bin : IfA(b) \in cand[c])
  ELSE Prf(0, IfA(b))

\* The join of the dimension threads, v_sums, the list of ssIFMat_recv and
\* send(opprf_size).
R_Join ==
  /\ mR = "join"
  /\ \A d \in Dim : tR[d] = "done"
  /\ toS' = Send(toS, 0, Msg("size", IfSize, None))
  /\ mR' = "size"
  /\ UNCHANGED <<const, toR, threads, mS, ifOtherR, ifOtherS, r_, t_, eeR, eeS>>

R_IfSize ==
  /\ mR = "size"
  /\ Has(toR, 0)
  /\ ifOtherR' = Head(toR[0]).n
  /\ toR' = Pop(toR, 0)
  /\ mR' = "program"
  /\ UNCHANGED <<const, toS, threads, mS, ifOtherS, r_, t_, eeR, eeS>>

\* RsOpprfSender::send and the request for the own a_random.
R_IfProgram ==
  /\ mR = "program"
  /\ Has(toR, 0)
  /\ toR' = Pop(toR, 0)
  /\ toS' = [toS EXCEPT ![0] = @ \o <<Msg("answer", IfListSize, IfList),
                                      Msg("request", Cardinality(Bin), None)>>]
  /\ mR' = "query"
  /\ UNCHANGED <<const, threads, mS, ifOtherR, ifOtherS, r_, t_, eeR, eeS>>

R_IfQuery ==
  /\ mR = "query"
  /\ Has(toR, 0)
  /\ t_' = [b \in Bin |-> IfSelect(Head(toR[0]).body, b)]
  /\ toR' = Pop(toR, 0)
  /\ mR' = "peqt"
  /\ UNCHANGED <<const, toS, threads, mS, ifOtherR, ifOtherS, r_, eeR, eeS>>

\* The join of the dimension threads and u_sums.
S_Join ==
  /\ mS = "join"
  /\ \A d \in Dim : tS[d] = "done"
  /\ mS' = "keys"
  /\ UNCHANGED <<const, sockets, threads, mR, ifOtherR, ifOtherS, r_, t_, eeR, eeS>>

\* Mutant: the size is not sent back.
S_IfKeysSilent ==
  /\ mS = "keys"
  /\ Has(toS, 0)
  /\ ifOtherS' = Head(toS[0]).n
  /\ toS' = Pop(toS, 0)
  /\ toR' = Send(toR, 0, Msg("request", IfKeysSize, None))
  /\ mS' = "eval"
  /\ UNCHANGED <<const, threads, mR, ifOtherR, r_, t_, eeR, eeS>>

S_IfKeys ==
  /\ mS = "keys"
  /\ Has(toS, 0)
  /\ ifOtherS' = Head(toS[0]).n
  /\ toS' = Pop(toS, 0)
  /\ toR' = [toR EXCEPT ![0] = @ \o <<Msg("size", IfKeysSize, None),
                                      Msg("request", IfKeysSize, None)>>]
  /\ mS' = "eval"
  /\ UNCHANGED <<const, threads, mR, ifOtherR, r_, t_, eeR, eeS>>

S_IfEval ==
  /\ mS = "eval"
  /\ Has(toS, 0)
  /\ r_' = [b \in Bin |-> {IfAnswer(Head(toS[0]).body, <<p, b>>) : p \in IfPrefixes(USum(b))}]
  /\ toS' = Pop(toS, 0)
  /\ mS' = "program"
  /\ UNCHANGED <<const, toR, threads, mR, ifOtherR, ifOtherS, t_, eeR, eeS>>

S_IfProgram ==
  /\ mS = "program"
  /\ Has(toS, 0)
  /\ toS' = Pop(toS, 0)
  /\ toR' = Send(toR, 0, Msg("answer", IfKeysSize, r_))
  /\ mS' = "peqt"
  /\ UNCHANGED <<const, threads, mR, ifOtherR, ifOtherS, r_, t_, eeR, eeS>>

\* Batch_PEQT over socket 0, by its functionality (module Peqt implements
\* it); a side returns only when the other has entered the test.
Equality == INSTANCE PeqtIdeal WITH
  Row <- Bin, Elements <- {}, NoOutput <- <<>>,
  x <- t_, y <- [b \in Bin |-> IfT(b)], out0 <- eeR, out1 <- eeS

R_Peqt ==
  /\ mR = "peqt"
  /\ mS \in {"peqt", "done"}
  /\ mR' = "done"
  /\ UNCHANGED <<const, sockets, threads, mS, ifOtherR, ifOtherS, r_, t_, eeS>>
  /\ Equality!Output0

S_Peqt ==
  /\ mS = "peqt"
  /\ mR \in {"peqt", "done"}
  /\ mS' = "done"
  /\ UNCHANGED <<const, sockets, threads, mR, ifOtherR, ifOtherS, r_, t_, eeR>>
  /\ Equality!Output1

-----------------------------------------------------------------------------

Finished == mR = "done" /\ mS = "done"

Terminated == Finished /\ UNCHANGED vars

RecvThread(d) == R_List(d) \/ R_Size(d) \/ R_Program(d) \/ R_Query(d)
SendThread(d) == S_Keys(d) \/ S_Eval(d) \/ S_Program(d)
RecvMain == R_Join \/ R_IfSize \/ R_IfProgram \/ R_IfQuery \/ R_Peqt
SendMain == S_Join \/ S_IfKeys \/ S_IfEval \/ S_IfProgram \/ S_Peqt

Next ==
  \/ \E d \in Dim : RecvThread(d) \/ SendThread(d)
  \/ RecvMain
  \/ SendMain
  \/ Terminated

Spec == Init /\ [][Next]_vars

\* Every std::thread that can go on does.
FairSpec ==
  /\ Spec
  /\ \A d \in Dim : WF_vars(RecvThread(d)) /\ WF_vars(SendThread(d))
  /\ WF_vars(RecvMain)
  /\ WF_vars(SendMain)

-----------------------------------------------------------------------------
(* Properties. *)

\* Receiver ball i and sender ball s got one identifier and are close in
\* dimension d, and their distance there to the power METRIC.
CloseIn(d, i, s) ==
  ballsR[i].id = ballsS[s].id /\ Near(ballsR[i].pt[d], ballsS[s].pt[d])

DistPow(d, i, s) ==
  LET x == ballsR[i].pt[d]
      y == ballsS[s].pt[d]
  IN Pow(IF x > y THEN x - y ELSE y - x, METRIC)

\* Ball s is within L_p distance DELTA of ball i, which has its identifier.
Within(i, s) ==
  /\ \A d \in Dim : CloseIn(d, i, s)
  /\ SumLoop([d \in Dim |-> DistPow(d, i, s)], 0, DIM) <= Pow(DELTA, METRIC)

\* Sender ball s is in the fuzzy intersection.
Match(s) == \E i \in BallR : Within(i, s)

\* Types of the control state.
TypeOK ==
  /\ tR \in [Dim -> {"list", "size", "program", "query", "done"}]
  /\ tS \in [Dim -> {"keys", "eval", "program", "done"}]
  /\ mR \in {"join", "size", "program", "query", "peqt", "done"}
  /\ mS \in {"join", "keys", "eval", "program", "peqt", "done"}
  /\ otherR \in [Dim -> Nat] /\ otherS \in [Dim -> Nat]
  /\ ifOtherR \in Nat /\ ifOtherS \in Nat
  /\ v_hat \in [Dim -> [Bin -> 0 .. M - 1 \cup {None}]]
  /\ DOMAIN toS = Dim /\ DOMAIN toR = Dim /\ DOMAIN u = Dim
  /\ eeR \in [Bin -> Bit] \cup {<<>>} /\ eeS \in [Bin -> Bit] \cup {<<>>}

\* What the two threads of a dimension leave behind: shares of the distance
\* to the power METRIC for a bin whose ball is close in this dimension to the
\* receiver ball of the same identifier, and an unrelated number for every
\* other bin.
DimensionShares ==
  \A d \in Dim : tR[d] = "done" =>
    \A b \in Bin :
      IF BallIn(b) # None /\ \E i \in BallR : CloseIn(d, i, BallIn(b))
      THEN \E i \in BallR : /\ CloseIn(d, i, BallIn(b))
                            /\ v_hat[d][b] # None
                            /\ u32(v_hat[d][b] + DistPow(d, i, BallIn(b))) = draw.mask[d][b]
      ELSE v_hat[d][b] = None

\* The keys the sender programs are all different, in both lists of a bin
\* and between bins, as the OKVS of RsOpprfSender::send needs.
DistinctCandidates ==
  \A d \in Dim : tS[d] \in {"program", "done"} =>
    Cardinality({c.key : c \in Candidates(d, u[d])}) = KeysSize

\* Each side of an OPPRF runs with the size the other side really uses, in
\* the dimension threads and in ssIFMat, although the sender computes the
\* size of its two prefix lists from one parameter row.
SizesAgree ==
  /\ \A d \in Dim :
       /\ tS[d] = "eval" /\ Has(toS, d) => Head(toS[d]).n = otherS[d]
       /\ tR[d] \in {"program", "query"} /\ Has(toR, d) => Head(toR[d]).n = otherR[d]
  /\ mS = "eval" /\ Has(toS, 0) => Head(toS[0]).n = ifOtherS
  /\ mR \in {"program", "query"} /\ Has(toR, 0) => Head(toR[0]).n = ifOtherR

\* What a reader takes from its socket is the message it waits for, although
\* socket 0 carries dimension thread 0 and then ssIFMat, and each side may
\* be a phase ahead.
ExpectedMessage ==
  /\ \A d \in Dim : Has(toR, d) =>
       LET type == Head(toR[d]).type
           at == IF tR[d] = "done" THEN mR ELSE tR[d]
       IN /\ at = "size" => type = "size"
          /\ at = "program" => type = "request"
          /\ at = "query" => type = "answer"
          /\ tR[d] = "done" => d = 0 /\ mR # "join"
  /\ \A d \in Dim : Has(toS, d) =>
       LET type == Head(toS[d]).type
           at == IF tS[d] = "done" THEN mS ELSE tS[d]
       IN /\ at \in {"keys", "join"} => type = "size"
          /\ at = "eval" => type = "answer"
          /\ at = "program" => type = "request"
          /\ tS[d] = "done" => d = 0

\* The answers sender thread d gets for the queries of its bins.
Answers(d) ==
  LET list == List(d) IN [b \in Bin |-> {Answer(d, list, q) : q \in BinKeys(d, b)}]

\* v_hat of receiver thread d when it is done.
VHats(d) ==
  LET cand == Candidates(d, Answers(d)) IN [b \in Bin |-> VHatOf(d, b, cand)]

\* Where thread d of the receiver and thread d of the sender can be, and
\* what their socket then holds in each direction.
ThreadState(d, r, s, towardsS, towardsR) ==
  tR[d] = r /\ tS[d] = s /\ toS[d] = towardsS /\ toR[d] = towardsR

ThreadPhase(d) ==
  \/ ThreadState(d, "list", "keys", <<>>, <<>>)
  \/ ThreadState(d, "size", "keys", <<Msg("size", OpprfSize, None)>>, <<>>)
  \/ ThreadState(d, "size", "eval", <<>>,
                 <<Msg("size", KeysSize, None), Msg("request", KeysSize, None)>>)
  \/ ThreadState(d, "program", "eval", <<>>, <<Msg("request", KeysSize, None)>>)
  \/ ThreadState(d, "query", "eval",
                 <<Msg("answer", OpprfSize, List(d)), Msg("request", Cardinality(Bin), None)>>,
                 <<>>)
  \/ ThreadState(d, "query", "program", <<Msg("request", Cardinality(Bin), None)>>, <<>>)
  \/ ThreadState(d, "query", "done", <<>>,
                 <<Msg("answer", KeysSize, Candidates(d, Answers(d)))>>)
  \/ tR[d] = "done" /\ tS[d] = "done"

\* The threads of a dimension stay in step, with the sizes announced.
ThreadInv ==
  \A d \in Dim :
    /\ ThreadPhase(d)
    /\ tS[d] # "keys" => otherS[d] = OpprfSize
    /\ tR[d] \notin {"list", "size"} => otherR[d] = KeysSize
    /\ tS[d] \in {"program", "done"} => u[d] = Answers(d)
    /\ tR[d] = "done" => v_hat[d] = VHats(d)

\* The answers the sender gets in ssIFMat.
IfAnswers ==
  LET list == IfList
  IN [b \in Bin |-> {IfAnswer(list, <<p, b>>) : p \in IfPrefixes(USum(b))}]

\* Where the main threads can be, and what socket 0 then holds once the
\* threads of dimension 0 have left it.
MainState(r, s, towardsS, towardsR) ==
  mR \in r /\ mS \in s /\ (tR[0] = "done" => toS[0] = towardsS /\ toR[0] = towardsR)

MainPhase ==
  \/ MainState({"join"}, {"join", "keys"}, <<>>, <<>>)
  \/ MainState({"size"}, {"join", "keys"}, <<Msg("size", IfSize, None)>>, <<>>)
  \/ MainState({"size"}, {"eval"}, <<>>,
               <<Msg("size", IfKeysSize, None), Msg("request", IfKeysSize, None)>>)
  \/ MainState({"program"}, {"eval"}, <<>>, <<Msg("request", IfKeysSize, None)>>)
  \/ MainState({"query"}, {"eval"},
               <<Msg("answer", IfSize, IfList), Msg("request", Cardinality(Bin), None)>>, <<>>)
  \/ MainState({"query"}, {"program"}, <<Msg("request", Cardinality(Bin), None)>>, <<>>)
  \/ MainState({"query"}, {"peqt"}, <<>>, <<Msg("answer", IfKeysSize, IfAnswers)>>)
  \/ MainState({"peqt", "done"}, {"peqt", "done"}, <<>>, <<>>)

\* The main threads go on only after their dimension threads, in step with
\* each other, and use a socket that those have left empty.
MainInv ==
  /\ MainPhase
  /\ mR # "join" => \A d \in Dim : tR[d] = "done"
  /\ mS # "join" => \A d \in Dim : tS[d] = "done"
  /\ \A d \in Dim \ {0} : tR[d] = "done" => toS[d] = <<>> /\ toR[d] = <<>>
  /\ mS \notin {"join", "keys"} => ifOtherS = IfSize
  /\ mR \notin {"join", "size"} => ifOtherR = IfKeysSize
  /\ mS \in {"program", "peqt", "done"} => r_ = IfAnswers
  /\ mR \in {"peqt", "done"} =>
       t_ = LET answers == IfAnswers IN [b \in Bin |-> IfSelect(answers, b)]
  /\ IF mR = "done" THEN eeR \in [Bin -> Bit] ELSE eeR = <<>>
  /\ IF mS = "done" THEN eeS \in [Bin -> Bit] ELSE eeS = <<>>

\* What keeps the two parties in step over the sockets they share.
ProtocolInv ==
  TypeOK /\ ThreadInv /\ MainInv /\ DistinctCandidates /\ SizesAgree /\ ExpectedMessage

\* No share wrapped: in every dimension the sender's mask is at least the
\* distance that is subtracted from it.
NoWrap(i, s, b) == \A d \in Dim : draw.mask[d][b] >= DistPow(d, i, s)

\* The two match bits of a bin differ exactly when its ball is within L_p
\* distance DELTA of a receiver ball with its identifier and no 32-bit share
\* wrapped.  In particular a wrap never makes a match out of a miss.
SharedMatch ==
  eeR # <<>> /\ eeS # <<>> =>
    \A b \in Bin :
      Xor(eeR[b], eeS[b]) = 1 <=>
        /\ BallIn(b) # None
        /\ \E i \in BallR : Within(i, BallIn(b)) /\ NoWrap(i, BallIn(b), b)

\* The shares of every dimension add up to the match of the bin.
MatchInv == DimensionShares /\ SharedMatch

\* The match bits differ exactly for the balls of the fuzzy intersection:
\* what the protocol is for, whatever the masks are.
EveryMatchFound ==
  eeR # <<>> /\ eeS # <<>> =>
    \A b \in Bin :
      Xor(eeR[b], eeS[b]) = 1 <=> BallIn(b) # None /\ Match(BallIn(b))

\* Both parties finish, whatever the order in which the threads run.
Completes == <>Finished
=============================================================================
