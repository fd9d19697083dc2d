------------------------------- MODULE UFmap --------------------------------
(***************************************************************************)
(* The unbalanced fuzzy mapping (ufmap/ufmap.cpp): uFmapSender and         *)
(* uFmapReceiver.  Each party gives every block of its coordinates a       *)
(* random value; the other party looks up the two candidate blocks of each *)
(* of its coordinates, and the parties multiply both their scalars in.     *)
(*                                                                         *)
(* fuzzyMap runs the same exchange twice.  The owner of the encoded blocks *)
(* is the sender in the first direction and the receiver in the second,    *)
(* the other party is the client.                                          *)
(*                                                                         *)
(* A block is a pair of 64-bit halves, each a formal sum; a monomial is a  *)
(* draw with the scalars it has been multiplied by.                        *)
(***************************************************************************)
EXTENDS Formal, Sequences

CONSTANTS
  Delta,         \* mDelta
  DIM,           \* mDim
  SizeR, SizeS,  \* mRecverSize, mSenderSize
  Inputs         \* the inputs considered: [R |-> points, S |-> points]

Dim == 0 .. DIM - 1
Party == {"R", "S"}
Size(p) == IF p = "R" THEN SizeR ELSE SizeS
Idx(p) == 0 .. Size(p) - 1
Other(p) == IF p = "R" THEN "S" ELSE "R"

ASSUME DeltaAssumption == Delta \in Nat \ {0}
ASSUME SizeAssumption == DIM \in Nat \ {0} /\ SizeR \in Nat \ {0} /\ SizeS \in Nat \ {0}
ASSUME InputsAssumption ==
  \A inp \in Inputs : \A p \in Party : inp[p] \in [Idx(p) -> [Dim -> Nat]]

VARIABLES
  pts,      \* the inputs of both parties
  pc,       \* where each party stands in fuzzyMap
  inbox,    \* the socket: the messages on their way to a party
  decoded,  \* decoded of the client
  out       \* identifiers, the result

mapVars == <<pts, pc, inbox, decoded, out>>

-----------------------------------------------------------------------------
(* Blocks of a coordinate. *)

Width == 2 * Delta

canonicalBlock4Delta(x) == IF x >= Delta THEN (x - Delta) \div Width ELSE 0

\* Mutant: the second candidate lies above.
candidateBlocksUp(x) == <<x \div Width, x \div Width + 1>>

candidateBlocks(x) ==
  <<x \div Width, IF x >= Width THEN (x - Width) \div Width ELSE 0>>

-----------------------------------------------------------------------------
(* Draws and products. *)

Draw(t) == {[by |-> {}, of |-> t]}

\* A random block, and one whose high half is zero.
Full(t) == [hi |-> Draw(t), lo |-> Draw(t)]
Low(t) == [hi |-> {}, lo |-> Draw(t)]
XorBlk(v, w) == [hi |-> Xor(v.hi, w.hi), lo |-> Xor(v.lo, w.lo)]

\* The n-th VOLE of the direction whose owner is q, for point k of the
\* client: the scalar of its sender times C is the sum of A and D.
C(q, n, k) == <<"C", q, n, k>>
A(q, n, k) == Draw(<<"A", q, n, k>>)
D(q, n, k) == Draw(<<"D", q, n, k>>)
VoleSender(q, n) == IF n = 1 THEN Other(q) ELSE q

\* gf128Mul by mVoleDelta of party s.
Mul(s, v) ==
  XorAll([m \in v |->
    IF m.of[1] = "C" /\ VoleSender(m.of[2], m.of[3]) = s
    THEN {[by |-> m.by, of |-> <<h, m.of[2], m.of[3], m.of[4]>>] : h \in {"A", "D"}}
    ELSE {[by |-> m.by \cup {s}, of |-> m.of]}])

-----------------------------------------------------------------------------
(* getID: one value for every block that holds a point, their sums, and    *)
(* the encoding under the PRF of the owner.  The padding keys are random   *)
(* blocks, which no candidate hits.                                        *)

Labels(q, i) == {canonicalBlock4Delta(pts[q][k][i]) : k \in Idx(q)}
Value(q, i, c) == <<"value", q, i, c>>
prf(q, i, c) == Full(<<"prf", q, i, c>>)

ids(q, k) == XorAll([i \in Dim |-> Draw(Value(q, i, canonicalBlock4Delta(pts[q][k][i])))])

Encoding(q) ==
  [i \in Dim |-> [c \in Labels(q, i) |-> XorBlk(Low(Value(q, i, c)), prf(q, i, c))]]

\* The queries of client p: two candidates for every point and dimension.
Query(p) == Idx(p) \X Dim
Candidate(p, r, sigma) == candidateBlocks(pts[p][r[1]][r[2]])[sigma]

DecodeAt(q, table, i, c) ==
  IF c \in DOMAIN table[i] THEN table[i][c] ELSE Full(<<"okvs", q, i, c>>)

\* The two shares of the PRF value of a candidate, from the OPRF-so of owner q.
KeyShare(q, r, sigma) == Full(<<"oprf", q, r, sigma>>)
QueryShare(q, r, sigma) ==
  XorBlk(prf(q, r[2], Candidate(Other(q), r, sigma)), KeyShare(q, r, sigma))

makeAlignment(q) ==
  [r \in Query(Other(q)) |-> XorBlk(KeyShare(q, r, 1), KeyShare(q, r, 2))]

applyAlignment(shares, alignment) ==
  [r \in DOMAIN shares |-> [shares[r] EXCEPT ![2] = XorBlk(@, alignment[r])]]

\* programBopprf: the entries <<query, candidate>> with their keys and values.
ProgrammerShare(p, r) == Draw(<<"share", p, r>>)
Rho(p, shares, e) == XorBlk(decoded[p][e[1]][e[2]], shares[e[1]][e[2]])
ProgramKey(p, shares, e) == Rho(p, shares, e).hi
ProgramValue(p, shares, e) == Xor(Rho(p, shares, e).lo, ProgrammerShare(p, e[1]))
Entries(p) == Query(p) \X {1, 2}

\* A key that occurs twice leaves the OKVS of the OPPRF without a solution.
KeyTwice(p, shares) ==
  \E e, f \in Entries(p) : e # f /\ ProgramKey(p, shares, e) = ProgramKey(p, shares, f)

Program(p, shares) ==
  [key \in {ProgramKey(p, shares, e) : e \in Entries(p)} |->
     ProgramValue(p, shares, CHOOSE e \in Entries(p) : ProgramKey(p, shares, e) = key)]

\* bopprfOutput and recoverReceiverShares of owner q.
ReceiverShare(q, program, r) ==
  LET key == KeyShare(q, r, 1).hi
  IN Xor(IF key \in DOMAIN program THEN program[key] ELSE Draw(<<"opprf", q, r>>),
         KeyShare(q, r, 1).lo)

sumPointShares(shares, k) == XorAll([i \in Dim |-> shares[<<k, i>>]])

-----------------------------------------------------------------------------
(* fuzzyMap.  The sender is the owner first, the receiver the client.      *)

Running == \A p \in Party : pc[p] # "threw"

\* What a party does after its part as owner or as client.
AfterOwner(q) == IF q = "S" THEN "decode" ELSE "done"
AfterClient(p) == IF p = "S" THEN "done" ELSE "encode"

Goto(p, l) == pc' = [pc EXCEPT ![p] = l]

\* Party p reads the next n messages and sends the sequence msgs.
Exchange(p, n, msgs) ==
  /\ Len(inbox[p]) >= n
  /\ inbox' = [inbox EXCEPT ![p] = SubSeq(@, n + 1, Len(@)), ![Other(p)] = @ \o msgs]

\* A call whose first message only asks the other side to begin.
Token == <<>>

UInit ==
  /\ pts \in Inputs
  /\ pc = [p \in Party |-> IF p = "S" THEN "encode" ELSE "decode"]
  /\ inbox = [p \in Party |-> <<>>]
  /\ decoded = [p \in Party |-> <<>>]
  /\ out = [p \in Party |-> <<>>]

\* The owner sends the OKVS of every dimension.
O_Encode(q) ==
  /\ pc[q] = "encode"
  /\ Exchange(q, 0, <<Encoding(q)>>)
  /\ Goto(q, "oprfSo")
  /\ UNCHANGED <<pts, decoded, out>>

\* OPRF-so with the candidates of the client, then the alignment.
O_OprfSo(q) ==
  /\ pc[q] = "oprfSo"
  /\ Exchange(q, 1, <<[r \in Query(Other(q)) |-> [s \in {1, 2} |-> QueryShare(q, r, s)]],
                      makeAlignment(q)>>)
  /\ Goto(q, "query")
  /\ UNCHANGED <<pts, decoded, out>>

\* The bOPPRF, the first VOLE, u and the second VOLE.
O_Query(q) ==
  /\ pc[q] = "query"
  /\ Exchange(q, 2,
       <<[k \in Idx(Other(q)) |->
            Xor(Draw(C(q, 1, k)),
                sumPointShares([r \in Query(Other(q)) |-> ReceiverShare(q, inbox[q][1], r)], k))],
         Token>>)
  /\ Goto(q, "scale")
  /\ UNCHANGED <<pts, decoded, out>>

\* Mutant: the owner returns before it has sent w.
O_ScaleSilent(q) ==
  /\ pc[q] = "scale"
  /\ Exchange(q, 1, <<>>)
  /\ Goto(q, AfterOwner(q))
  /\ UNCHANGED <<pts, decoded, out>>

\* v multiplied by the scalar of the owner.
O_Scale(q) ==
  /\ pc[q] = "scale"
  /\ Exchange(q, 1, <<[k \in Idx(Other(q)) |->
                         Xor(Mul(q, Xor(inbox[q][1][k], A(q, 1, k))), D(q, 2, k))]>>)
  /\ Goto(q, AfterOwner(q))
  /\ UNCHANGED <<pts, decoded, out>>

\* The client decodes its candidates and enters the OPRF-so.
C_Decode(p) ==
  /\ pc[p] = "decode"
  /\ Exchange(p, 1, <<Token>>)
  /\ decoded' = [decoded EXCEPT ![p] =
       [r \in Query(p) |-> [s \in {1, 2} |->
          DecodeAt(Other(p), inbox[p][1], r[2], Candidate(p, r, s))]]]
  /\ Goto(p, "program")
  /\ UNCHANGED <<pts, out>>

\* The client programs the bOPPRF and enters the first VOLE.
C_Program(p) ==
  /\ pc[p] = "program"
  /\ Len(inbox[p]) >= 2
  /\ LET shares == applyAlignment(inbox[p][1], inbox[p][2])
     IN /\ ~KeyTwice(p, shares)
        /\ Exchange(p, 2, <<Program(p, shares), Token>>)
  /\ Goto(p, "terms")
  /\ UNCHANGED <<pts, decoded, out>>

\* Baxos::solve throws in the thread of the party, which ends the process.
C_Throw(p) ==
  /\ pc[p] = "program"
  /\ Len(inbox[p]) >= 2
  /\ KeyTwice(p, applyAlignment(inbox[p][1], inbox[p][2]))
  /\ Goto(p, "threw")
  /\ UNCHANGED <<pts, inbox, decoded, out>>

\* senderTerms, the second VOLE and v.
C_Terms(p) ==
  /\ pc[p] = "terms"
  /\ LET q == Other(p)
         Own(k) == Xor(sumPointShares([r \in Query(p) |-> ProgrammerShare(p, r)], k), ids(p, k))
     IN Exchange(p, 2, <<[k \in Idx(p) |->
          Xor(Draw(C(q, 2, k)),
              Xor(Mul(p, Xor(inbox[p][1][k], Own(k))), D(q, 1, k)))]>>)
  /\ Goto(p, "result")
  /\ UNCHANGED <<pts, decoded, out>>

\* The identifiers of the client.
C_Result(p) ==
  /\ pc[p] = "result"
  /\ Exchange(p, 1, <<>>)
  /\ out' = [out EXCEPT ![p] = [k \in Idx(p) |-> Xor(inbox[p][1][k], A(Other(p), 2, k))]]
  /\ Goto(p, AfterClient(p))
  /\ UNCHANGED <<pts, decoded>>

FuzzyMapStep(p) ==
  /\ Running
  /\ \/ O_Encode(p) \/ O_OprfSo(p) \/ O_Query(p) \/ O_Scale(p)
     \/ C_Decode(p) \/ C_Program(p) \/ C_Throw(p) \/ C_Terms(p) \/ C_Result(p)

Mapped == \A p \in Party : pc[p] = "done"

-----------------------------------------------------------------------------
(* Properties. *)

Distance(x, y) == IF x > y THEN x - y ELSE y - x

Within(d, j, k) == \A i \in Dim : Distance(pts["R"][j][i], pts["S"][k][i]) <= d

\* Close points of the two parties end with the same identifier, although
\* each has been looked up among the other's blocks and the masks of four
\* VOLEs went through it; points 2 * Delta apart in some dimension do not,
\* because each must find the other.
UFmapIdsAgree ==
  Mapped => \A j \in Idx("R"), k \in Idx("S") :
    /\ Within(Delta, j, k) => out["R"][j] = out["S"][k]
    /\ out["R"][j] = out["S"][k] => Within(2 * Delta - 1, j, k)

\* No coordinate of a party has two candidates in blocks of the other, nor
\* one candidate twice: what a client of the bOPPRF has to rely on.
Unambiguous ==
  \A p \in Party : \A r \in Query(p) :
    LET c == candidateBlocks(pts[p][r[1]][r[2]])
    IN c[1] # c[2] /\ ~({c[1], c[2]} \subseteq Labels(Other(p), r[2]))
=============================================================================
