-------------------------------- MODULE Oprf --------------------------------
(***************************************************************************)
(* The programmable OPRF (opprf/Opprf.cpp) with the VOLE based OPRF inside *)
(* it (opprf/Oprf.cpp).  "S" is RsOpprfSender with its RsOprfSender and    *)
(* programs keys; "R", RsOpprfReceiver with its RsOprfReceiver, queries.   *)
(*                                                                         *)
(* Blocks are formal sums whose monomials are sets of symbols: draws, hash *)
(* values, the scalar mD.  An OKVS is a vector of columns and a row of two *)
(* columns per key, its own and the last one, which all rows share.        *)
(***************************************************************************)
EXTENDS Formal, Sequences

CONSTANTS
  Chunk,      \* the largest piece of the vector that is sent, 1 << 28 there
  Lanes,      \* the elements an iteration of an unrolled loop handles, 8
  Instances   \* the calls considered

Key(i) == 0 .. i.size - 2

\* From 2 * Chunk elements on the loop of the receiver mixes up the rest of
\* the vector and the piece at hand; callers stay far below.
ASSUME ChunkAssumption == Lanes \in Nat \ {0} /\ Chunk \in Nat \ {0} /\ Chunk % Lanes = 0
ASSUME InstanceAssumption ==
  \A i \in Instances :
    /\ i.size \in 2 .. 2 * Chunk - 1
    /\ i.values \subseteq Key(i) /\ i.X \subseteq Key(i)
    /\ i.values # {} /\ i.X # {} /\ i.mal \in BOOLEAN

VARIABLES
  inst,      \* queries, programmed keys, size of the vector, mMalicious
  pc,        \* where each party stands
  toS, toR,  \* the socket
  vole,      \* whether the VOLE on the forked socket is complete
  B,         \* mB of the sender
  pos,       \* the elements of pp the sender has received
  mW,        \* of the sender
  p,         \* the vector of the receiver, masked in place
  pBegin,    \* where the span p begins now
  cBegin,    \* where the span c begins now
  Hws,       \* the commitment of the sender
  outputs,   \* of the receiver
  mP,        \* the second OKVS of the sender
  fail       \* a throw

senderVars == <<B, pos, mW, mP>>
recverVars == <<p, pBegin, cBegin, Hws, outputs>>
vars == <<inst, pc, toS, toR, vole, senderVars, recverVars, fail>>

Index == 0 .. inst.size - 1
LastCol == inst.size - 1
Zero == {}
Sym(s) == {{s}}

\* Draws and hash values: a + b = c * d.
D == <<"D">>
VoleA(i) == Sym(<<"A", i>>)
VoleC(i) == Sym(<<"C", i>>)
Ws == Sym(<<"ws">>)
Wr == Sym(<<"wr">>)
HashOf(x) == Sym(<<"h", x>>)
Val(x) == Sym(<<"val", x>>)

\* mD.gf128Mul.
TimesD(v) == {m \cup {D} : m \in v}

\* Baxos::solve and decode: free columns are zero or random, rest is the
\* value of the shared column.
solve(f, free) ==
  [c \in Index |-> IF c \in DOMAIN f THEN Xor(f[c], free[LastCol]) ELSE free[c]]
decode(P, x) == Xor(P[x], P[LastCol])

\* The vector that encodes the hashes of the queries.
Encoded == solve([x \in inst.values |-> HashOf(x)], [c \in Index |-> Zero])

-----------------------------------------------------------------------------

\* F(x) from the decoded block: hashed by itself, or keyed by it and w.
Prf(v, w, x) ==
  IF inst.mal THEN Sym(<<"F", Xor(v, w), x>>) ELSE Sym(<<"F", v>>)

\* Mutant: the hash of the key is not taken off.
EvalPlain(x) == Prf(decode(B, x), mW, x)

\* RsOprfSender::eval.
Eval(x) == Prf(Xor(decode(B, x), TimesD(HashOf(x))), mW, x)

\* RsOpprfSender::eval.
OpprfEval(x) == Xor(decode(mP, x), Eval(x))

Init ==
  /\ inst \in Instances
  /\ pc = [S |-> "start", R |-> "start"]
  /\ toS = <<>> /\ toR = <<>>
  /\ vole = FALSE
  /\ B = <<>> /\ pos = 0 /\ mW = Zero /\ mP = <<>>
  /\ p = <<>> /\ pBegin = 0 /\ cBegin = 0 /\ Hws = <<>>
  /\ outputs = [x \in inst.values |-> Zero]
  /\ fail = ""

Goto(q, l) == pc' = [pc EXCEPT ![q] = l]
Msg(t, b) == [type |-> t, body |-> b]

-----------------------------------------------------------------------------
(* The sender. *)

\* The seed of the second OKVS; then, in RsOprfSender::send, the commitment
\* and the fork for the VOLE.
S_Start ==
  /\ pc["S"] = "start"
  /\ toR' = toR \o <<Msg("seed", "opprf")>>
                \o (IF inst.mal THEN <<Msg("Hws", <<"H", Ws>>)>> ELSE <<>>)
  /\ Goto("S", "seed")
  /\ UNCHANGED <<inst, toS, vole, senderVars, recverVars, fail>>

S_Seed ==
  /\ pc["S"] = "seed" /\ toS # <<>>
  /\ toS' = Tail(toS)
  /\ Goto("S", "vole")
  /\ UNCHANGED <<inst, toR, vole, senderVars, recverVars, fail>>

S_Vole ==
  /\ pc["S"] = "vole" /\ vole
  /\ B' = [i \in Index |-> Xor(VoleA(i), TimesD(VoleC(i)))]
  /\ Goto("S", IF inst.mal THEN "wr" ELSE "chunks")
  /\ UNCHANGED <<inst, toS, toR, vole, pos, mW, mP, recverVars, fail>>

S_Wr ==
  /\ pc["S"] = "wr" /\ toS # <<>>
  /\ mW' = Xor(Head(toS).body, Ws)
  /\ toS' = Tail(toS)
  /\ toR' = Append(toR, Msg("ws", Ws))
  /\ Goto("S", "chunks")
  /\ UNCHANGED <<inst, vole, B, pos, mP, recverVars, fail>>

\* A piece of the vector is received into the next part of pp; a message of
\* another size is an error of the socket.
S_Chunk ==
  /\ pc["S"] = "chunks" /\ pos < inst.size /\ toS # <<>>
  /\ LET piece == Head(toS).body
         len == IF inst.size - pos < Chunk THEN inst.size - pos ELSE Chunk
     IN /\ fail' = IF Head(toS).type = "chunk" /\ Len(piece) = len THEN "" ELSE "size"
        /\ B' = [i \in Index |->
                   IF fail' = "" /\ i \in pos .. pos + len - 1
                   THEN Xor(B[i], TimesD(piece[i - pos + 1])) ELSE B[i]]
        /\ pos' = pos + len
  /\ toS' = Tail(toS)
  /\ UNCHANGED <<inst, pc, toR, vole, mW, mP, recverVars>>

\* Mutant: the OKVS is not sent.
S_ProgramSilent ==
  /\ pc["S"] = "chunks" /\ pos = inst.size
  /\ mP' = solve([x \in inst.X |-> Xor(Val(x), Eval(x))], [c \in Index |-> Sym(<<"rand", c>>)])
  /\ Goto("S", "done")
  /\ UNCHANGED <<inst, toS, toR, vole, B, pos, mW, recverVars, fail>>

\* oprfEval of the programmed keys, and the OKVS of the differences.
S_Program ==
  /\ pc["S"] = "chunks" /\ pos = inst.size
  /\ mP' = solve([x \in inst.X |-> Xor(Val(x), Eval(x))], [c \in Index |-> Sym(<<"rand", c>>)])
  /\ toR' = Append(toR, Msg("P", mP'))
  /\ Goto("S", "done")
  /\ UNCHANGED <<inst, toS, vole, B, pos, mW, recverVars, fail>>

-----------------------------------------------------------------------------
(* The receiver. *)

\* The seed of the second OKVS is read, the one of the first is sent.
R_Start ==
  /\ pc["R"] = "start" /\ toR # <<>>
  /\ toR' = Tail(toR)
  /\ toS' = Append(toS, Msg("seed", "oprf"))
  /\ Goto("R", IF inst.mal THEN "Hws" ELSE "solve")
  /\ UNCHANGED <<inst, vole, senderVars, recverVars, fail>>

R_Hws ==
  /\ pc["R"] = "Hws" /\ toR # <<>>
  /\ Hws' = Head(toR).body
  /\ toR' = Tail(toR)
  /\ Goto("R", "solve")
  /\ UNCHANGED <<inst, toS, vole, senderVars, p, pBegin, cBegin, outputs, fail>>

\* genVole of both sides, on the forked socket, while the main coroutines
\* go on.
GenVole ==
  /\ ~vole
  /\ pc["S"] \in {"seed", "vole"} /\ pc["R"] \in {"solve", "vole"}
  /\ vole' = TRUE
  /\ UNCHANGED <<inst, pc, toS, toR, senderVars, recverVars, fail>>

R_Solve ==
  /\ pc["R"] = "solve"
  /\ p' = Encoded
  /\ Goto("R", "vole")
  /\ UNCHANGED <<inst, toS, toR, vole, senderVars, pBegin, cBegin, Hws, outputs, fail>>

R_Vole ==
  /\ pc["R"] = "vole" /\ vole
  /\ toS' = IF inst.mal THEN Append(toS, Msg("wr", Wr)) ELSE toS
  /\ Goto("R", "chunks")
  /\ UNCHANGED <<inst, toR, vole, senderVars, recverVars, fail>>

\* Mutant: only whole iterations of the unrolled loop.
MaskedMain(len, rest) == 0 .. (len \div Lanes) * Lanes - 1

\* The offsets that the two loops mask: whole iterations up to main, then
\* from there to the size of what is left of p.
Masked(len, rest) == 0 .. (len \div Lanes) * Lanes - 1 \cup (len \div Lanes) * Lanes .. rest - 1

\* The piece that is sent: subP, unless p has the same size.
Piece(mem, len, begin) ==
  IF inst.size - begin # len THEN SubSeq(mem, pBegin + 1, pBegin + len) ELSE SubSeq(mem, begin + 1, inst.size)

\* A round of the loop over c: the next piece of p is masked in place and
\* sent; p itself is shortened unless the piece is all of it.
R_Chunk ==
  /\ pc["R"] = "chunks" /\ cBegin < inst.size
  /\ LET size == inst.size - pBegin
         len == IF size < Chunk THEN size ELSE Chunk
         begin == IF size # len THEN pBegin + len ELSE pBegin
         offsets == Masked(len, inst.size - begin)
     IN /\ p' = [i \in Index |->
                   IF i - pBegin \in offsets THEN Xor(p[i], VoleC(cBegin + i - pBegin)) ELSE p[i]]
        /\ toS' = Append(toS, Msg("chunk", Piece([k \in 1 .. inst.size |-> p'[k - 1]], len, begin)))
        /\ pBegin' = begin
        /\ cBegin' = cBegin + len
  /\ UNCHANGED <<inst, pc, toR, vole, senderVars, Hws, outputs, fail>>

\* Decode(x, a), hashed unless a key w is still to come.
R_Decode ==
  /\ pc["R"] = "chunks" /\ cBegin = inst.size
  /\ LET a(x) == decode([i \in Index |-> VoleA(i)], x)
     IN outputs' = [x \in inst.values |-> IF inst.mal THEN a(x) ELSE Prf(a(x), Zero, x)]
  /\ Goto("R", IF inst.mal THEN "ws" ELSE "P")
  /\ UNCHANGED <<inst, toS, toR, vole, senderVars, p, pBegin, cBegin, Hws, fail>>

\* The opening of the commitment.
R_Ws ==
  /\ pc["R"] = "ws" /\ toR # <<>>
  /\ LET ws == Head(toR).body
     IN /\ fail' = IF Hws = <<"H", ws>> THEN "" ELSE "commitment"
        /\ outputs' = [x \in inst.values |-> Prf(outputs[x], Xor(ws, Wr), x)]
  /\ toR' = Tail(toR)
  /\ Goto("R", "P")
  /\ UNCHANGED <<inst, toS, vole, senderVars, p, pBegin, cBegin, Hws>>

\* mAddToDecode: the differences are added to the OPRF values.
R_Add ==
  /\ pc["R"] = "P" /\ toR # <<>>
  /\ outputs' = [x \in inst.values |-> Xor(outputs[x], decode(Head(toR).body, x))]
  /\ toR' = Tail(toR)
  /\ Goto("R", "done")
  /\ UNCHANGED <<inst, toS, vole, senderVars, p, pBegin, cBegin, Hws, fail>>

-----------------------------------------------------------------------------

Finished == pc["S"] = "done" /\ pc["R"] = "done"

Terminated == (Finished \/ fail # "") /\ UNCHANGED vars

SendSteps == fail = "" /\ (S_Start \/ S_Seed \/ S_Vole \/ S_Wr \/ S_Chunk \/ S_Program)
RecvSteps == fail = "" /\ (R_Start \/ R_Hws \/ R_Solve \/ R_Vole \/ R_Chunk \/ R_Decode \/ R_Ws \/ R_Add)

Next == SendSteps \/ RecvSteps \/ GenVole \/ Terminated

Spec == Init /\ [][Next]_vars

\* The coroutines of both parties are driven by their threads, the VOLE by
\* the eager tasks.
FairSpec == Spec /\ WF_vars(SendSteps) /\ WF_vars(RecvSteps) /\ WF_vars(GenVole)

-----------------------------------------------------------------------------
(* Properties. *)

\* Types of the control state.
TypeOK ==
  /\ inst \in Instances
  /\ DOMAIN pc = {"S", "R"}
  /\ pc["S"] \in {"start", "seed", "vole", "wr", "chunks", "done"}
  /\ pc["R"] \in {"start", "Hws", "solve", "vole", "chunks", "ws", "P", "done"}
  /\ pc["S"] = "wr" \/ pc["R"] \in {"Hws", "ws"} => inst.mal

\* A malicious execution has one more message to the sender and two more to
\* the receiver.
Mal == IF inst.mal THEN 1 ELSE 0

\* Where piece n of the vector ends, and how many pieces end at i.
Cut(n) == IF n * Chunk < inst.size THEN n * Chunk ELSE inst.size
Pieces(i) == IF i = 0 THEN 0 ELSE IF i <= Chunk THEN 1 ELSE 2

\* All a party sends in an execution; piece n of the vector has every element
\* masked exactly once and by its own element of c.
PieceOf(n) ==
  [k \in 1 .. Cut(n) - Cut(n - 1) |->
     Xor(Encoded[Cut(n - 1) + k - 1], VoleC(Cut(n - 1) + k - 1))]
RecvScript ==
  [n \in 1 .. 3 + Mal |->
     IF n = 1 THEN Msg("seed", "oprf")
     ELSE IF n = 1 + Mal THEN Msg("wr", Wr) ELSE Msg("chunk", PieceOf(n - 1 - Mal))]
SendScript ==
  [n \in 1 .. 2 + 2 * Mal |->
     IF n = 1 THEN Msg("seed", "opprf")
     ELSE IF n = 2 + 2 * Mal THEN Msg("P", mP)
     ELSE IF n = 2 THEN Msg("Hws", <<"H", Ws>>) ELSE Msg("ws", Ws)]

\* How many messages a party has sent and taken where it stands.
RecvSent ==
  IF pc["R"] = "start" THEN 0
  ELSE IF pc["R"] \in {"Hws", "solve", "vole"} THEN 1 ELSE 1 + Mal + Pieces(cBegin)
SendGot ==
  IF pc["S"] \in {"start", "seed"} THEN 0
  ELSE IF pc["S"] \in {"vole", "wr"} THEN 1 ELSE 1 + Mal + Pieces(pos)
SendSent ==
  IF pc["S"] = "start" THEN 0
  ELSE IF pc["S"] = "chunks" THEN 1 + 2 * Mal ELSE IF pc["S"] = "done" THEN 2 + 2 * Mal ELSE 1 + Mal
RecvGot ==
  IF pc["R"] = "start" THEN 0
  ELSE IF pc["R"] = "Hws" THEN 1
  ELSE IF pc["R"] = "P" THEN 1 + 2 * Mal ELSE IF pc["R"] = "done" THEN 2 + 2 * Mal ELSE 1 + Mal

\* Entries g + 1 .. s of a script.
Window(script, g, s) == [k \in 1 .. s - g |-> script[g + k]]

\* The socket holds what one side has sent and the other has not taken, so a
\* reader finds the message it waits for.
SocketInv ==
  /\ SendGot <= RecvSent /\ toS = Window(RecvScript, SendGot, RecvSent)
  /\ RecvGot <= SendSent /\ toR = Window(SendScript, RecvGot, SendSent)

\* However the vector is cut into pieces, the sender's vector becomes
\* a + d * p element by element.
SenderInv ==
  /\ pos \in {Cut(0), Cut(1), Cut(2)}
  /\ pc["S"] \notin {"chunks", "done"} => pos = 0 /\ mW = Zero
  /\ pc["S"] \in {"wr", "chunks", "done"} =>
       B = [i \in Index |-> Xor(VoleA(i), TimesD(IF i < pos THEN Encoded[i] ELSE VoleC(i)))]
  /\ pc["S"] \in {"chunks", "done"} => mW = IF inst.mal THEN Xor(Wr, Ws) ELSE Zero
  /\ pc["S"] = "done" =>
       /\ pos = inst.size
       /\ mP = solve([x \in inst.X |-> Xor(Val(x), Eval(x))], [c \in Index |-> Sym(<<"rand", c>>)])

\* The receiver's OPRF value of a key.
RecvOprf(x) ==
  Prf(decode([i \in Index |-> VoleA(i)], x), IF inst.mal THEN Xor(Ws, Wr) ELSE Zero, x)

\* The receiver masks its vector in place, piece by piece.
RecverInv ==
  /\ cBegin \in {Cut(0), Cut(1), Cut(2)}
  /\ pBegin = IF cBegin = 0 \/ inst.size <= Chunk THEN 0 ELSE Chunk
  /\ pc["R"] \in {"start", "Hws", "solve", "vole"} => cBegin = 0
  /\ pc["R"] \notin {"start", "Hws", "solve"} =>
       p = [i \in Index |-> IF i < cBegin THEN Xor(Encoded[i], VoleC(i)) ELSE Encoded[i]]
  /\ pc["R"] \in {"ws", "P", "done"} => cBegin = inst.size
  /\ pc["R"] \notin {"start", "Hws"} /\ inst.mal => Hws = <<"H", Ws>>
  /\ pc["R"] = "ws" => outputs = [x \in inst.values |-> decode([i \in Index |-> VoleA(i)], x)]
  /\ pc["R"] = "P" => outputs = [x \in inst.values |-> RecvOprf(x)]
  /\ pc["R"] = "done" => outputs = [x \in inst.values |-> Xor(RecvOprf(x), decode(mP, x))]

\* The parties stay in step over the socket, their vectors are related
\* element by element, and no honest party ever throws.
ChunkInv == TypeOK /\ SocketInv /\ SenderInv /\ RecverInv /\ fail = ""

\* Both parties have the same function: what the receiver ends with is what
\* the sender would compute for that key, and the programmed value for the
\* programmed keys alone.
OutputsAgree ==
  Finished => \A x \in inst.values :
    /\ outputs[x] = OpprfEval(x)
    /\ \A y \in inst.X : outputs[x] = Val(y) <=> x = y

\* Both coroutines return.
Completes == <>Finished
=============================================================================
