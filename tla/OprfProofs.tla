----------------------------- MODULE OprfProofs -----------------------------
(***************************************************************************)
(* Proofs about the OPPRF of Oprf for every set of queries and programmed  *)
(* keys, every length of the vector below two pieces, every size of a      *)
(* piece and of an unrolled loop, semi-honest and malicious.               *)
(***************************************************************************)
EXTENDS Oprf, SequenceTheorems, TLAPS

-----------------------------------------------------------------------------
(* Formal sums. *)

\* XOR of blocks is the symmetric difference.
LEMMA XorIsDifference ==
  ASSUME NEW v, NEW w
  PROVE  Xor(v, w) = (v \ w) \cup (w \ v)
  BY DEF Xor

\* XOR on blocks is a commutative group of exponent two.
LEMMA XorLaws ==
  /\ \A v, w : Xor(v, w) = Xor(w, v)
  /\ \A v, w, z : Xor(Xor(v, w), z) = Xor(v, Xor(w, z))
  /\ \A v : Xor(v, v) = {} /\ Xor(v, {}) = v /\ Xor({}, v) = v
  /\ \A v, w : Xor(Xor(v, w), w) = v /\ Xor(v, Xor(v, w)) = w
  BY XorIsDifference

\* No monomial of the block contains mD.
Plain(v) == \A m \in v : D \notin m

\* Multiplication by mD distributes over the XOR of blocks without it.
LEMMA TimesDLinear ==
  ASSUME NEW v, NEW w, Plain(v), Plain(w)
  PROVE  TimesD(Xor(v, w)) = Xor(TimesD(v), TimesD(w))
  <1>1. \A m, n : D \notin m /\ D \notin n /\ m \cup {D} = n \cup {D} => m = n
    OBVIOUS
  <1>2. ASSUME NEW m \in v, m \notin w PROVE m \cup {D} \notin TimesD(w)
    BY <1>1, <1>2 DEF Plain, TimesD
  <1>3. ASSUME NEW m \in w, m \notin v PROVE m \cup {D} \notin TimesD(v)
    BY <1>1, <1>3 DEF Plain, TimesD
  <1>4. TimesD(Xor(v, w)) \subseteq Xor(TimesD(v), TimesD(w))
    BY <1>2, <1>3, XorIsDifference DEF TimesD
  <1>5. Xor(TimesD(v), TimesD(w)) \subseteq TimesD(Xor(v, w))
    BY XorIsDifference DEF TimesD
  <1> QED BY <1>4, <1>5

\* Draws and hash values do not contain mD.
LEMMA Symbols ==
  /\ \A x : Plain(HashOf(x)) /\ Plain(VoleC(x))
  /\ Plain(Zero) /\ TimesD(Zero) = Zero
  BY DEF Plain, HashOf, VoleC, Sym, D, Zero, TimesD

-----------------------------------------------------------------------------
(* The instance. *)

\* What the assumptions say of the call at hand.
LEMMA InstanceFacts ==
  ASSUME TypeOK
  PROVE  /\ Chunk \in Nat /\ Chunk > 0 /\ Lanes \in Nat /\ Lanes > 0
         /\ inst.size \in Nat /\ 2 <= inst.size /\ inst.size < 2 * Chunk
         /\ inst.values \subseteq 0 .. inst.size - 2 /\ inst.X \subseteq 0 .. inst.size - 2
         /\ inst.values \subseteq Index /\ inst.X \subseteq Index /\ LastCol \in Index
         /\ LastCol \notin inst.values /\ LastCol \notin inst.X
         /\ inst.mal \in BOOLEAN
  <1>1. Chunk \in Nat /\ Chunk > 0 /\ Lanes \in Nat /\ Lanes > 0
    BY ChunkAssumption
  <1>2. inst.size \in 2 .. 2 * Chunk - 1 /\ inst.values \subseteq Key(inst) /\ inst.X \subseteq Key(inst)
        /\ inst.mal \in BOOLEAN
    BY InstanceAssumption DEF TypeOK
  <1> QED BY <1>1, <1>2 DEF Key, Index, LastCol

\* The pieces of the vector: one, or a full one and a shorter rest.
LEMMA Cuts ==
  ASSUME TypeOK
  PROVE  /\ Cut(0) = 0 /\ Cut(2) = inst.size
         /\ Cut(1) = IF Chunk < inst.size THEN Chunk ELSE inst.size
         /\ Pieces(Cut(0)) = 0 /\ Pieces(Cut(1)) = 1
         /\ Chunk < inst.size => Pieces(Cut(2)) = 2
         /\ Chunk >= inst.size => Cut(2) = Cut(1)
  BY InstanceFacts DEF Cut, Pieces

\* The columns of the first OKVS.
LEMMA EncodedIs ==
  ASSUME TypeOK
  PROVE  /\ DOMAIN Encoded = Index
         /\ \A i \in Index : Encoded[i] = IF i \in inst.values THEN HashOf(i) ELSE Zero
         /\ \A i \in Index : Plain(Encoded[i])
  <1>1. \A i \in Index : Encoded[i] = IF i \in inst.values THEN Xor(HashOf(i), Zero) ELSE Zero
    BY InstanceFacts DEF Encoded, solve
  <1>2. \A x : Xor(HashOf(x), Zero) = HashOf(x)
    BY XorLaws DEF Zero
  <1>3. DOMAIN Encoded = Index
    BY DEF Encoded, solve
  <1> QED BY <1>1, <1>2, <1>3, Symbols

\* A received element takes the mask off: a + d c + d (p + c) = a + d p.
LEMMA MaskCancels ==
  ASSUME TypeOK, NEW i \in Index
  PROVE  Xor(Xor(VoleA(i), TimesD(VoleC(i))), TimesD(Xor(Encoded[i], VoleC(i))))
           = Xor(VoleA(i), TimesD(Encoded[i]))
  <1> DEFINE a == VoleA(i)
             c == TimesD(VoleC(i))
             e == TimesD(Encoded[i])
  <1>1. TimesD(Xor(Encoded[i], VoleC(i))) = Xor(e, c)
    BY EncodedIs, Symbols, TimesDLinear
  <1> HIDE DEF a, c, e
  <1>2. Xor(Xor(a, c), Xor(e, c)) = Xor(a, e)
    BY XorIsDifference
  <1> QED BY <1>1, <1>2 DEF a, c, e

-----------------------------------------------------------------------------
(* The socket. *)

\* Sending the next entry of a script and taking the oldest one move the
\* ends of the window.
LEMMA Windows ==
  ASSUME NEW f, NEW g \in Nat, NEW s \in Nat, g <= s
  PROVE  /\ Append(Window(f, g, s), f[s + 1]) = Window(f, g, s + 1)
         /\ Window(f, g, s) # <<>> <=> g < s
         /\ g < s => /\ Head(Window(f, g, s)) = f[g + 1]
                     /\ Tail(Window(f, g, s)) = Window(f, g + 1, s)
  <1> DEFINE S == {f[k] : k \in Nat}
             w == Window(f, g, s)
  <1>1. ASSUME NEW a \in Nat, NEW b \in Nat, a <= b
        PROVE  /\ Window(f, a, b) \in Seq(S) /\ Len(Window(f, a, b)) = b - a
               /\ \A k \in 1 .. b - a : Window(f, a, b)[k] = f[a + k]
    BY <1>1 DEF Window
  <1>2. w \in Seq(S) /\ Len(w) = s - g /\ \A k \in 1 .. s - g : w[k] = f[g + k]
    BY <1>1
  <1>3. Append(w, f[s + 1]) = Window(f, g, s + 1)
    <2> DEFINE v == Append(w, f[s + 1])
               z == Window(f, g, s + 1)
    <2>1. z \in Seq(S) /\ Len(z) = s + 1 - g /\ \A k \in 1 .. s + 1 - g : z[k] = f[g + k]
      <3> DEFINE e == s + 1
      <3>1. e \in Nat /\ g <= e /\ e - g = s + 1 - g
        OBVIOUS
      <3> HIDE DEF S, e
      <3>2. /\ Window(f, g, e) \in Seq(S) /\ Len(Window(f, g, e)) = e - g
            /\ \A k \in 1 .. e - g : Window(f, g, e)[k] = f[g + k]
        BY <1>1, <3>1
      <3>3. z = Window(f, g, e)
        BY DEF e
      <3> HIDE DEF z
      <3> QED BY <3>1, <3>2, <3>3
    <2>2. f[s + 1] \in S
      OBVIOUS
    <2> HIDE DEF w, z, S
    <2>3. /\ v \in Seq(S) /\ Len(v) = Len(w) + 1
          /\ \A k \in 1 .. Len(w) : v[k] = w[k]
          /\ v[Len(w) + 1] = f[s + 1]
      BY <1>2, <2>2, AppendProperties
    <2> HIDE DEF v
    <2>4. Len(v) = Len(z) /\ \A k \in 1 .. Len(v) : v[k] = z[k]
      <3>1. Len(v) = s + 1 - g /\ Len(w) = s - g
        BY <1>2, <2>3
      <3>2. ASSUME NEW k \in 1 .. s + 1 - g PROVE v[k] = z[k]
        <4>1. CASE k = s + 1 - g
          BY <2>1, <2>3, <3>1, <4>1
        <4>2. CASE k # s + 1 - g
          BY <1>2, <2>1, <2>3, <3>1, <4>2
        <4> QED BY <4>1, <4>2
      <3> QED BY <2>1, <3>1, <3>2
    <2>5. v = z
      BY <2>1, <2>3, <2>4, SeqEqual
    <2> QED BY <2>5 DEF v, w, z
  <1>4. w # <<>> <=> g < s
    BY <1>2
  <1>5. ASSUME g < s PROVE Head(w) = f[g + 1] /\ Tail(w) = Window(f, g + 1, s)
    <2> DEFINE z == Window(f, g + 1, s)
    <2>1. Head(w) = f[g + 1]
      BY <1>2, <1>5
    <2>2. z \in Seq(S) /\ Len(z) = s - (g + 1) /\ \A k \in 1 .. s - (g + 1) : z[k] = f[g + 1 + k]
      <3> DEFINE e == g + 1
      <3>1. e \in Nat /\ e <= s
        BY <1>5
      <3> HIDE DEF S, e
      <3>2. /\ Window(f, e, s) \in Seq(S) /\ Len(Window(f, e, s)) = s - e
            /\ \A k \in 1 .. s - e : Window(f, e, s)[k] = f[e + k]
        BY <1>1, <3>1
      <3> QED BY <3>2 DEF e
    <2>3. w # <<>>
      BY <1>4, <1>5
    <2> HIDE DEF w, z, S
    <2>4. /\ Tail(w) \in Seq(S) /\ Len(Tail(w)) = Len(w) - 1
          /\ \A k \in 1 .. Len(Tail(w)) : Tail(w)[k] = w[k + 1]
      BY <1>2, <2>3, HeadTailProperties
    <2>5. Len(Tail(w)) = Len(z) /\ \A k \in 1 .. Len(Tail(w)) : Tail(w)[k] = z[k]
      <3>1. Len(Tail(w)) = s - g - 1 /\ s - (g + 1) = s - g - 1
        BY <1>2, <2>4
      <3>2. ASSUME NEW k \in 1 .. s - g - 1 PROVE Tail(w)[k] = z[k]
        <4>1. Tail(w)[k] = w[k + 1] /\ k + 1 \in 1 .. s - g
          BY <2>4, <3>1
        <4>2. w[k + 1] = f[g + (k + 1)]
          BY <1>2, <4>1
        <4>3. z[k] = f[g + 1 + k] /\ g + 1 + k = g + (k + 1)
          BY <2>2, <3>1
        <4> QED BY <4>1, <4>2, <4>3
      <3> QED BY <2>2, <3>1, <3>2
    <2>6. Tail(w) = z
      BY <2>2, <2>4, <2>5, SeqEqual
    <2> QED BY <2>1, <2>6 DEF z
  <1> QED BY <1>3, <1>4, <1>5

\* Nothing has been sent that was not taken.
LEMMA EmptyWindow ==
  ASSUME NEW f, NEW g \in Nat
  PROVE  Window(f, g, g) = <<>>
  <1>1. g - g = 0
    OBVIOUS
  <1>2. Window(f, g, g) = [k \in 1 .. 0 |-> f[g + k]]
    BY <1>1 DEF Window
  <1> QED BY <1>2

\* A script may change outside the window.
LEMMA WindowAgrees ==
  ASSUME NEW f, NEW h, NEW g \in Nat, NEW s \in Nat, \A k \in g + 1 .. s : f[k] = h[k]
  PROVE  Window(f, g, s) = Window(h, g, s)
  BY DEF Window

\* Both counters of each direction are numbers.
LEMMA Counters ==
  ASSUME TypeOK
  PROVE  /\ Mal \in {0, 1} /\ (inst.mal <=> Mal = 1) /\ (~inst.mal <=> Mal = 0)
         /\ SendGot \in Nat /\ RecvSent \in Nat /\ SendSent \in Nat /\ RecvGot \in Nat
  <1>1. Mal \in {0, 1} /\ (inst.mal <=> Mal = 1) /\ (~inst.mal <=> Mal = 0)
    BY InstanceFacts DEF Mal
  <1>2. \A i : Pieces(i) \in {0, 1, 2}
    BY DEF Pieces
  <1> QED BY <1>1, <1>2 DEF SendGot, RecvSent, SendSent, RecvGot

\* Taking from a socket and putting something on it.
LEMMA SocketSteps ==
  ASSUME TypeOK, SocketInv
  PROVE  /\ Append(toS, RecvScript[RecvSent + 1]) = Window(RecvScript, SendGot, RecvSent + 1)
         /\ Append(toR, SendScript[SendSent + 1]) = Window(SendScript, RecvGot, SendSent + 1)
         /\ toS # <<>> => /\ SendGot + 1 <= RecvSent /\ Head(toS) = RecvScript[SendGot + 1]
                          /\ Tail(toS) = Window(RecvScript, SendGot + 1, RecvSent)
         /\ toR # <<>> => /\ RecvGot + 1 <= SendSent /\ Head(toR) = SendScript[RecvGot + 1]
                          /\ Tail(toR) = Window(SendScript, RecvGot + 1, SendSent)
  <1>1. /\ SendGot \in Nat /\ RecvSent \in Nat /\ SendSent \in Nat /\ RecvGot \in Nat
        /\ SendGot <= RecvSent /\ toS = Window(RecvScript, SendGot, RecvSent)
        /\ RecvGot <= SendSent /\ toR = Window(SendScript, RecvGot, SendSent)
    BY Counters DEF SocketInv
  <1>2. /\ Append(toS, RecvScript[RecvSent + 1]) = Window(RecvScript, SendGot, RecvSent + 1)
        /\ toS # <<>> => /\ SendGot + 1 <= RecvSent /\ Head(toS) = RecvScript[SendGot + 1]
                         /\ Tail(toS) = Window(RecvScript, SendGot + 1, RecvSent)
    <2> DEFINE f == RecvScript
               g == SendGot
               n == RecvSent
    <2> HIDE DEF f, g, n
    <2>1. g \in Nat /\ n \in Nat /\ g <= n /\ toS = Window(f, g, n)
      BY <1>1 DEF f, g, n
    <2>2. Append(toS, f[n + 1]) = Window(f, g, n + 1)
      BY <2>1, Windows
    <2>3. ASSUME toS # <<>>
          PROVE  g < n /\ Head(toS) = f[g + 1] /\ Tail(toS) = Window(f, g + 1, n)
      BY <2>1, <2>3, Windows
    <2>4. g < n => g + 1 <= n
      BY <2>1
    <2> QED BY <2>2, <2>3, <2>4 DEF f, g, n
  <1>3. /\ Append(toR, SendScript[SendSent + 1]) = Window(SendScript, RecvGot, SendSent + 1)
        /\ toR # <<>> => /\ RecvGot + 1 <= SendSent /\ Head(toR) = SendScript[RecvGot + 1]
                         /\ Tail(toR) = Window(SendScript, RecvGot + 1, SendSent)
    <2> DEFINE f == SendScript
               g == RecvGot
               n == SendSent
    <2> HIDE DEF f, g, n
    <2>1. g \in Nat /\ n \in Nat /\ g <= n /\ toR = Window(f, g, n)
      BY <1>1 DEF f, g, n
    <2>2. Append(toR, f[n + 1]) = Window(f, g, n + 1)
      BY <2>1, Windows
    <2>3. ASSUME toR # <<>>
          PROVE  g < n /\ Head(toR) = f[g + 1] /\ Tail(toR) = Window(f, g + 1, n)
      BY <2>1, <2>3, Windows
    <2>4. g < n => g + 1 <= n
      BY <2>1
    <2> QED BY <2>2, <2>3, <2>4 DEF f, g, n
  <1> QED BY <1>2, <1>3

\* What is computed from the instance alone does not change.
LEMMA InstFixed ==
  ASSUME inst' = inst
  PROVE  /\ Mal' = Mal /\ Index' = Index /\ LastCol' = LastCol /\ Encoded' = Encoded
         /\ \A n : Cut(n)' = Cut(n)
         /\ RecvScript' = RecvScript
         /\ mP' = mP => SendScript' = SendScript
         /\ \A x : RecvOprf(x)' = RecvOprf(x)
         /\ \A P, x : decode(P, x)' = decode(P, x)
  <1>1. Mal' = Mal /\ Index' = Index /\ LastCol' = LastCol
    BY DEF Mal, Index, LastCol
  <1>2. \A n : Cut(n)' = Cut(n)
    BY DEF Cut
  <1>3. Encoded' = Encoded
    BY <1>1 DEF Encoded, solve
  <1>4. \A n : PieceOf(n)' = PieceOf(n)
    BY <1>2, <1>3 DEF PieceOf, Cut
  <1>5. RecvScript' = RecvScript
    BY <1>1, <1>4 DEF RecvScript
  <1>6. mP' = mP => SendScript' = SendScript
    BY <1>1 DEF SendScript
  <1>7. \A P, x : decode(P, x)' = decode(P, x)
    BY <1>1 DEF decode
  <1>8. \A x : RecvOprf(x)' = RecvOprf(x)
    BY <1>1 DEF RecvOprf, Prf, decode
  <1> QED BY <1>1, <1>2, <1>3, <1>5, <1>6, <1>7, <1>8

\* The receiver's side is as it was after a step of the sender, and the
\* sender's after a step of the receiver.
LEMMA RecverStays ==
  ASSUME RecverInv, UNCHANGED <<inst, recverVars>>, pc'["R"] = pc["R"], pc["R"] = "done" => mP' = mP
  PROVE  RecverInv' /\ RecvSent' = RecvSent /\ RecvGot' = RecvGot
  <1>1. UNCHANGED <<p, pBegin, cBegin, Hws, outputs>>
    BY DEF recverVars
  <1>2. RecvSent' = RecvSent /\ RecvGot' = RecvGot
    BY <1>1, InstFixed DEF RecvSent, RecvGot, Pieces
  <1>3. pc["R"] = "done" => \A x : decode(mP, x)' = decode(mP, x)
    BY InstFixed DEF decode
  <1>4. \A x : decode([i \in Index |-> VoleA(i)], x)' = decode([i \in Index |-> VoleA(i)], x)
    BY InstFixed DEF decode
  <1> QED
    BY <1>1, <1>2, <1>3, <1>4, InstFixed DEF RecverInv

LEMMA SenderStays ==
  ASSUME SenderInv, UNCHANGED <<inst, senderVars>>, pc'["S"] = pc["S"]
  PROVE  SenderInv' /\ SendSent' = SendSent /\ SendGot' = SendGot
  <1>1. UNCHANGED <<B, pos, mW, mP>>
    BY DEF senderVars
  <1>2. SendSent' = SendSent /\ SendGot' = SendGot
    BY <1>1, InstFixed DEF SendSent, SendGot, Pieces
  <1>3. \A x : Eval(x)' = Eval(x)
    BY <1>1, InstFixed DEF Eval, Prf, decode
  <1>4. \A f, g : solve(f, g)' = solve(f, g)
    BY InstFixed DEF solve
  <1> QED
    BY <1>1, <1>2, <1>3, <1>4, InstFixed DEF SenderInv

\* Nothing has been sent or received.
LEMMA InitChunkInv == Init => ChunkInv
  <1> SUFFICES ASSUME Init PROVE ChunkInv
    OBVIOUS
  <1>1. TypeOK
    BY DEF Init, TypeOK
  <1>2. SocketInv
    <2>1. SendGot = 0 /\ RecvSent = 0 /\ SendSent = 0 /\ RecvGot = 0
      BY DEF Init, SendGot, RecvSent, SendSent, RecvGot
    <2>2. \A f : Window(f, 0, 0) = <<>>
      BY EmptyWindow
    <2>3. toS = <<>> /\ toR = <<>>
      BY DEF Init
    <2> QED BY <2>1, <2>2, <2>3 DEF SocketInv
  <1>3. SenderInv
    BY <1>1, Cuts DEF Init, SenderInv
  <1>4. RecverInv
    BY <1>1, Cuts DEF Init, RecverInv
  <1> QED
    BY <1>1, <1>2, <1>3, <1>4 DEF ChunkInv, Init

-----------------------------------------------------------------------------
(* The parts of the invariant. *)

\* What the two directions of the socket hold.
ToS == SendGot <= RecvSent /\ toS = Window(RecvScript, SendGot, RecvSent)
ToR == RecvGot <= SendSent /\ toR = Window(SendScript, RecvGot, SendSent)

\* The parts of ChunkInv, and the types of the counters.
LEMMA Parts ==
  ASSUME ChunkInv
  PROVE  /\ TypeOK /\ SocketInv /\ ToS /\ ToR /\ SenderInv /\ RecverInv /\ fail = ""
         /\ Mal \in {0, 1} /\ (inst.mal <=> Mal = 1) /\ (~inst.mal <=> Mal = 0)
         /\ SendGot \in Nat /\ RecvSent \in Nat /\ SendSent \in Nat /\ RecvGot \in Nat
  <1>1. TypeOK /\ SocketInv /\ SenderInv /\ RecverInv /\ fail = ""
    BY DEF ChunkInv
  <1>2. ToS /\ ToR
    BY <1>1 DEF SocketInv, ToS, ToR
  <1> QED BY <1>1, <1>2, Counters

\* The queue after the first messages.
LEMMA ConcatUnits ==
  ASSUME NEW a, NEW b
  PROVE  (<<>> \o <<a>>) \o <<>> = <<a>> /\ (<<>> \o <<a>>) \o <<b>> = <<a, b>>
  <1>1. <<>> \in Seq({a, b}) /\ <<a>> \in Seq({a, b})
    OBVIOUS
  <1>2. <<>> \o <<a>> = <<a>>
    BY <1>1, ConcatEmptySeq
  <1>3. <<a>> \o <<>> = <<a>>
    BY <1>1, ConcatEmptySeq
  <1>4. <<a>> \o <<b>> = <<a, b>>
    <2> DEFINE s == <<a>>
               t == <<b>>
               u == <<a, b>>
    <2>1. /\ s \in Seq({a, b}) /\ t \in Seq({a, b}) /\ u \in Seq({a, b})
          /\ Len(s) = 1 /\ Len(t) = 1 /\ Len(u) = 2 /\ s[1] = a /\ t[1] = b /\ u[1] = a /\ u[2] = b
      OBVIOUS
    <2> HIDE DEF s, t, u
    <2>2. /\ s \o t \in Seq({a, b}) /\ Len(s \o t) = 2
          /\ \A i \in 1 .. 2 : (s \o t)[i] = IF i <= 1 THEN s[i] ELSE t[i - 1]
      BY <2>1, ConcatProperties
    <2>3. (s \o t)[1] = a /\ (s \o t)[2] = b
      BY <2>1, <2>2
    <2>4. s \o t = u
      <3> DEFINE v == s \o t
      <3>1. v \in Seq({a, b}) /\ Len(v) = Len(u) /\ \A i \in 1 .. Len(v) : v[i] = u[i]
        BY <2>1, <2>2, <2>3
      <3> HIDE DEF v
      <3>2. v = u
        BY <2>1, <3>1, SeqEqual
      <3> QED BY <3>2 DEF v
    <2> QED BY <2>4 DEF s, t, u
  <1> QED BY <1>2, <1>3, <1>4

\* A direction that a step does not use, takes from, or puts a message on.
LEMMA ToSSteps ==
  ASSUME ChunkInv, inst' = inst
  PROVE  /\ toS' = toS /\ SendGot' = SendGot /\ RecvSent' = RecvSent => ToS'
         /\ toS # <<>> /\ toS' = Tail(toS) /\ SendGot' = SendGot + 1 /\ RecvSent' = RecvSent => ToS'
         /\ toS' = Append(toS, RecvScript[RecvSent + 1]) /\ SendGot' = SendGot /\ RecvSent' = RecvSent + 1
              => ToS'
         /\ toS # <<>> => SendGot + 1 <= RecvSent /\ Head(toS) = RecvScript[SendGot + 1]
  <1>1. RecvScript' = RecvScript
    BY InstFixed
  <1>2. TypeOK /\ SocketInv /\ ToS /\ SendGot \in Nat /\ RecvSent \in Nat
    BY Parts
  <1>3. /\ Append(toS, RecvScript[RecvSent + 1]) = Window(RecvScript, SendGot, RecvSent + 1)
        /\ toS # <<>> => /\ SendGot + 1 <= RecvSent /\ Head(toS) = RecvScript[SendGot + 1]
                         /\ Tail(toS) = Window(RecvScript, SendGot + 1, RecvSent)
    BY <1>2, SocketSteps
  <1>4. SendGot <= RecvSent /\ toS = Window(RecvScript, SendGot, RecvSent) /\ SendGot <= RecvSent + 1
    BY <1>2 DEF ToS
  <1> QED BY <1>1, <1>3, <1>4 DEF ToS

LEMMA ToRSteps ==
  ASSUME ChunkInv, inst' = inst
  PROVE  /\ mP' = mP /\ toR' = toR /\ RecvGot' = RecvGot /\ SendSent' = SendSent => ToR'
         /\ mP' = mP /\ toR # <<>> /\ toR' = Tail(toR) /\ RecvGot' = RecvGot + 1 /\ SendSent' = SendSent
              => ToR'
         /\ mP' = mP /\ toR' = Append(toR, SendScript[SendSent + 1]) /\ RecvGot' = RecvGot
              /\ SendSent' = SendSent + 1 => ToR'
         /\ toR # <<>> => RecvGot + 1 <= SendSent /\ Head(toR) = SendScript[RecvGot + 1]
  <1>1. mP' = mP => SendScript' = SendScript
    BY InstFixed
  <1>2. TypeOK /\ SocketInv /\ ToR /\ RecvGot \in Nat /\ SendSent \in Nat
    BY Parts
  <1>3. /\ Append(toR, SendScript[SendSent + 1]) = Window(SendScript, RecvGot, SendSent + 1)
        /\ toR # <<>> => /\ RecvGot + 1 <= SendSent /\ Head(toR) = SendScript[RecvGot + 1]
                         /\ Tail(toR) = Window(SendScript, RecvGot + 1, SendSent)
    BY <1>2, SocketSteps
  <1>4. RecvGot <= SendSent /\ toR = Window(SendScript, RecvGot, SendSent) /\ RecvGot <= SendSent + 1
    BY <1>2 DEF ToR
  <1> QED BY <1>1, <1>3, <1>4 DEF ToR

\* The entries of the scripts.
LEMMA Scripts ==
  ASSUME ChunkInv
  PROVE  /\ SendScript[1] = Msg("seed", "opprf") /\ RecvScript[1] = Msg("seed", "oprf")
         /\ inst.mal => /\ SendScript[2] = Msg("Hws", <<"H", Ws>>) /\ SendScript[3] = Msg("ws", Ws)
                        /\ RecvScript[2] = Msg("wr", Wr)
         /\ SendScript[2 + 2 * Mal] = Msg("P", mP)
         /\ \A n \in 1 .. 2 : RecvScript[1 + Mal + n] = Msg("chunk", PieceOf(n))
  <1> DEFINE m == Mal
  <1>1. m \in {0, 1} /\ (inst.mal <=> m = 1)
    BY Parts
  <1>2. SendScript = [n \in 1 .. 2 + 2 * m |->
          IF n = 1 THEN Msg("seed", "opprf")
          ELSE IF n = 2 + 2 * m THEN Msg("P", mP)
          ELSE IF n = 2 THEN Msg("Hws", <<"H", Ws>>) ELSE Msg("ws", Ws)]
    BY DEF SendScript
  <1>3. RecvScript = [n \in 1 .. 3 + m |->
          IF n = 1 THEN Msg("seed", "oprf")
          ELSE IF n = 1 + m THEN Msg("wr", Wr) ELSE Msg("chunk", PieceOf(n - 1 - m))]
    BY DEF RecvScript
  <1> HIDE DEF m
  <1>4. /\ SendScript[1] = Msg("seed", "opprf")
        /\ inst.mal => SendScript[2] = Msg("Hws", <<"H", Ws>>) /\ SendScript[3] = Msg("ws", Ws)
        /\ SendScript[2 + 2 * m] = Msg("P", mP)
    BY <1>1, <1>2
  <1>5. RecvScript[1] = Msg("seed", "oprf") /\ (inst.mal => RecvScript[2] = Msg("wr", Wr))
    BY <1>1, <1>3
  <1>6. ASSUME NEW n \in 1 .. 2 PROVE RecvScript[1 + m + n] = Msg("chunk", PieceOf(n))
    <2> DEFINE k == 1 + m + n
    <2>1. k - 1 - m = n /\ k \in 1 .. 3 + m /\ k # 1 /\ k # 1 + m
      BY <1>1
    <2> HIDE DEF k
    <2>2. RecvScript[k] = Msg("chunk", PieceOf(k - 1 - m))
      BY <1>3, <2>1
    <2>3. RecvScript[k] = Msg("chunk", PieceOf(n))
      BY <2>1, <2>2
    <2> QED BY <2>3 DEF k
  <1> QED BY <1>4, <1>5, <1>6 DEF m

-----------------------------------------------------------------------------
(* Steps of the sender. *)

\* The seed and the commitment are sent.
LEMMA S_StartKeeps ==
  ASSUME ChunkInv, S_Start
  PROVE  ChunkInv'
  <1>0. TypeOK /\ ToR /\ SenderInv /\ RecverInv /\ fail = "" /\ RecvGot \in Nat
    BY Parts
  <1>m. Mal \in {0, 1} /\ (inst.mal <=> Mal = 1)
    BY Parts
  <1>1. inst' = inst /\ pc' = [pc EXCEPT !["S"] = "seed"] /\ pc["S"] = "start" /\ toS' = toS
        /\ UNCHANGED <<senderVars, recverVars, fail>>
    BY DEF S_Start, Goto
  <1>2. TypeOK' /\ pc'["R"] = pc["R"] /\ pc'["S"] = "seed"
    BY <1>0, <1>1 DEF TypeOK
  <1>3. UNCHANGED <<B, pos, mW, mP>>
    BY <1>1 DEF senderVars
  <1>4. RecverInv' /\ RecvSent' = RecvSent /\ RecvGot' = RecvGot
    BY <1>0, <1>1, <1>2, <1>3, RecverStays
  <1>5. SenderInv'
    BY <1>0, <1>1, <1>2, <1>3, InstFixed DEF SenderInv
  <1>6. SendGot' = SendGot /\ SendSent = 0 /\ SendSent' = 1 + Mal
    BY <1>0, <1>1, <1>2, InstFixed DEF SendGot, SendSent
  <1>7. RecvGot = 0 /\ toR = <<>>
    <2>0. RecvGot <= SendSent
      BY <1>0 DEF ToR
    <2>1. RecvGot = 0
      <3> HIDE DEF RecvGot
      <3>1. \A n \in Nat : n <= 0 => n = 0
        OBVIOUS
      <3> QED BY <1>0, <1>6, <2>0, <3>1
    <2>2. toR = Window(SendScript, 0, 0)
      BY <1>0, <1>6, <2>1 DEF ToR
    <2> QED BY <2>1, <2>2, EmptyWindow
  <1>8. toR' = Window(SendScript, 0, 1 + Mal)
    <2> DEFINE f == SendScript
               a == Msg("seed", "opprf")
               b == Msg("Hws", <<"H", Ws>>)
    <2>1. f[1] = a /\ (inst.mal => f[2] = b)
      BY Scripts
    <2>2. toR' = IF inst.mal THEN (<<>> \o <<a>>) \o <<b>> ELSE (<<>> \o <<a>>) \o <<>>
      BY <1>7 DEF S_Start
    <2> HIDE DEF f, a, b
    <2>3. (<<>> \o <<a>>) \o <<>> = <<a>> /\ (<<>> \o <<a>>) \o <<b>> = <<a, b>>
      BY ConcatUnits
    <2>4. Window(f, 0, 1) = <<f[1]>> /\ Window(f, 0, 2) = <<f[1], f[2]>>
      BY DEF Window
    <2>5. CASE inst.mal
      <3>1. 1 + Mal = 2
        BY <1>m, <2>5
      <3> QED BY <2>1, <2>2, <2>3, <2>4, <2>5, <3>1 DEF f
    <2>6. CASE ~inst.mal
      <3>1. 1 + Mal = 1
        BY <1>m, <2>6
      <3> QED BY <2>1, <2>2, <2>3, <2>4, <2>6, <3>1 DEF f
    <2> QED BY <2>5, <2>6
  <1>9. ToR'
    <2>1. SendScript' = SendScript
      BY <1>1, <1>3, InstFixed
    <2>2. 0 <= 1 + Mal
      BY <1>m
    <2>3. RecvGot' = 0 /\ SendSent' = 1 + Mal
      BY <1>4, <1>6, <1>7
    <2> QED BY <1>8, <2>1, <2>2, <2>3 DEF ToR
  <1>10. ToS'
    BY <1>1, <1>4, <1>6, ToSSteps
  <1> QED
    BY <1>0, <1>1, <1>2, <1>4, <1>5, <1>9, <1>10 DEF ChunkInv, SocketInv, ToS, ToR

\* The seed of the first OKVS arrives.
LEMMA S_SeedKeeps ==
  ASSUME ChunkInv, S_Seed
  PROVE  ChunkInv'
  <1>0. TypeOK /\ SenderInv /\ RecverInv /\ fail = ""
    BY Parts
  <1>1. inst' = inst /\ pc' = [pc EXCEPT !["S"] = "vole"] /\ pc["S"] = "seed"
        /\ toS # <<>> /\ toS' = Tail(toS) /\ toR' = toR
        /\ UNCHANGED <<senderVars, recverVars, fail>>
    BY DEF S_Seed, Goto
  <1>2. TypeOK' /\ pc'["R"] = pc["R"] /\ pc'["S"] = "vole"
    BY <1>0, <1>1 DEF TypeOK
  <1>3. UNCHANGED <<B, pos, mW, mP>>
    BY <1>1 DEF senderVars
  <1>4. RecverInv' /\ RecvSent' = RecvSent /\ RecvGot' = RecvGot
    BY <1>0, <1>1, <1>2, <1>3, RecverStays
  <1>5. SenderInv'
    BY <1>0, <1>1, <1>2, <1>3, InstFixed DEF SenderInv
  <1>6. SendGot' = SendGot + 1 /\ SendSent' = SendSent
    <2>1. SendGot = 0 /\ SendGot' = 1
      BY <1>1, <1>2 DEF SendGot
    <2>2. SendSent' = SendSent
      BY <1>1, <1>2, InstFixed DEF SendSent
    <2> QED BY <2>1, <2>2
  <1>7. ToS' /\ ToR'
    BY <1>1, <1>3, <1>4, <1>6, ToSSteps, ToRSteps
  <1> QED
    BY <1>0, <1>1, <1>2, <1>4, <1>5, <1>7 DEF ChunkInv, SocketInv, ToS, ToR

\* The output of the VOLE.
LEMMA S_VoleKeeps ==
  ASSUME ChunkInv, S_Vole
  PROVE  ChunkInv'
  <1>0. TypeOK /\ SenderInv /\ RecverInv /\ fail = ""
    BY Parts
  <1>m. Mal \in {0, 1} /\ (inst.mal <=> Mal = 1)
    BY Parts
  <1>1. inst' = inst /\ pc' = [pc EXCEPT !["S"] = IF inst.mal THEN "wr" ELSE "chunks"]
        /\ pc["S"] = "vole" /\ toS' = toS /\ toR' = toR
        /\ UNCHANGED <<pos, mW, mP, recverVars, fail>>
    BY DEF S_Vole, Goto
  <1>2. TypeOK' /\ pc'["R"] = pc["R"] /\ pc'["S"] = IF inst.mal THEN "wr" ELSE "chunks"
    BY <1>0, <1>1 DEF TypeOK
  <1>3. pos = 0 /\ mW = Zero
    BY <1>0, <1>1 DEF SenderInv
  <1>4. RecverInv' /\ RecvSent' = RecvSent /\ RecvGot' = RecvGot
    BY <1>0, <1>1, <1>2, RecverStays
  <1>5. SenderInv'
    <2>0. inst.size \in Nat
      BY <1>0, InstanceFacts
    <2>1. \A i \in Index : ~(i < 0)
      BY <2>0 DEF Index
    <2>2. B' = [i \in Index |-> Xor(VoleA(i), TimesD(IF i < pos THEN Encoded[i] ELSE VoleC(i)))]
      BY <1>3, <2>1 DEF S_Vole
    <2>3. B' = [i \in Index' |-> Xor(VoleA(i), TimesD(IF i < pos' THEN Encoded'[i] ELSE VoleC(i)))]
      BY <1>1, <2>2, InstFixed
    <2>4. pos' \in {Cut(0)', Cut(1)', Cut(2)'}
      BY <1>0, <1>1, InstFixed DEF SenderInv
    <2> QED BY <1>1, <1>2, <1>3, <2>3, <2>4 DEF SenderInv
  <1>6. SendGot' = SendGot /\ SendSent' = SendSent
    <2>1. Mal' = Mal
      BY <1>1, InstFixed
    <2>2. Pieces(pos)' = 0
      BY <1>1, <1>3 DEF Pieces
    <2>3. CASE inst.mal
      BY <1>1, <1>2, <1>m, <2>1, <2>3 DEF SendGot, SendSent
    <2>4. CASE ~inst.mal
      <3>1. Mal = 0 /\ pc'["S"] = "chunks"
        BY <1>2, <1>m, <2>4
      <3> QED BY <1>1, <2>1, <2>2, <3>1 DEF SendGot, SendSent
    <2> QED BY <2>3, <2>4
  <1>7. ToS' /\ ToR'
    BY <1>1, <1>4, <1>6, ToSSteps, ToRSteps
  <1> QED
    BY <1>0, <1>1, <1>2, <1>4, <1>5, <1>7 DEF ChunkInv, SocketInv, ToS, ToR

\* The receiver's share of w arrives, the sender's is opened.
LEMMA S_WrKeeps ==
  ASSUME ChunkInv, S_Wr
  PROVE  ChunkInv'
  <1>0. TypeOK /\ SenderInv /\ RecverInv /\ fail = ""
    BY Parts
  <1>m. Mal \in {0, 1} /\ (inst.mal <=> Mal = 1)
    BY Parts
  <1>1. inst' = inst /\ pc' = [pc EXCEPT !["S"] = "chunks"]
        /\ pc["S"] = "wr" /\ toS # <<>> /\ toS' = Tail(toS) /\ toR' = Append(toR, Msg("ws", Ws))
        /\ UNCHANGED <<B, pos, mP, recverVars, fail>>
    BY DEF S_Wr, Goto
  <1>2. TypeOK' /\ pc'["R"] = pc["R"] /\ pc'["S"] = "chunks"
    BY <1>0, <1>1 DEF TypeOK
  <1>3. inst.mal /\ pos = 0
    BY <1>0, <1>1 DEF TypeOK, SenderInv
  <1>4. Mal = 1 /\ Mal' = 1
    BY <1>1, <1>3, <1>m, InstFixed
  <1>5. RecverInv' /\ RecvSent' = RecvSent /\ RecvGot' = RecvGot
    BY <1>0, <1>1, <1>2, RecverStays
  <1>6. SendGot = 1 /\ SendGot' = 2 /\ SendSent = 2 /\ SendSent' = 3
    <2>1. Pieces(pos)' = 0
      BY <1>1, <1>3 DEF Pieces
    <2>2. SendGot = 1 /\ SendGot' = 2
      BY <1>1, <1>2, <1>4, <2>1 DEF SendGot
    <2>3. SendSent = 2 /\ SendSent' = 3
      BY <1>1, <1>2, <1>4 DEF SendSent
    <2> QED BY <2>2, <2>3
  <1>7. Head(toS).body = Wr
    <2>1. Head(toS) = RecvScript[1 + 1]
      BY <1>1, <1>6, ToSSteps
    <2>2. RecvScript[2] = Msg("wr", Wr)
      BY <1>3, Scripts
    <2>3. Msg("wr", Wr).body = Wr
      BY DEF Msg
    <2> QED BY <2>1, <2>2, <2>3
  <1>8. SenderInv'
    <2>1. mW' = Xor(Wr, Ws)
      BY <1>7 DEF S_Wr
    <2>2. B' = [i \in Index' |-> Xor(VoleA(i), TimesD(IF i < pos' THEN Encoded'[i] ELSE VoleC(i)))]
      BY <1>0, <1>1, InstFixed DEF SenderInv
    <2>3. pos' \in {Cut(0)', Cut(1)', Cut(2)'}
      BY <1>0, <1>1, InstFixed DEF SenderInv
    <2> QED BY <1>1, <1>2, <1>3, <2>1, <2>2, <2>3 DEF SenderInv
  <1>9. ToS'
    BY <1>1, <1>5, <1>6, ToSSteps
  <1>10. ToR'
    <2>1. SendScript[SendSent + 1] = Msg("ws", Ws)
      BY <1>3, <1>6, Scripts
    <2> QED BY <1>1, <1>5, <1>6, <2>1, ToRSteps
  <1> QED
    BY <1>0, <1>1, <1>2, <1>5, <1>8, <1>9, <1>10 DEF ChunkInv, SocketInv, ToS, ToR

\* Where a party stands in the vector: before the first piece or the second.
LEMMA NextCut ==
  ASSUME TypeOK, NEW q \in {Cut(0), Cut(1), Cut(2)}, q < inst.size
  PROVE  \E n \in {0, 1} :
           /\ q = Cut(n) /\ Pieces(q) = n /\ Pieces(Cut(n + 1)) = n + 1 /\ q \in Nat /\ Cut(n + 1) \in Nat
           /\ Cut(n + 1) = q + (IF inst.size - q < Chunk THEN inst.size - q ELSE Chunk)
           /\ q < Cut(n + 1) /\ Cut(n + 1) <= inst.size /\ Cut(n + 1) \in {Cut(0), Cut(1), Cut(2)}
           /\ q = IF n = 0 \/ inst.size <= Chunk THEN 0 ELSE Chunk
  <1> DEFINE z == inst.size
             c1 == Cut(1)
             c2 == Cut(2)
  <1>1. Chunk \in Nat /\ Chunk > 0 /\ z \in Nat /\ 2 <= z /\ z < 2 * Chunk
    BY InstanceFacts
  <1>2. /\ Cut(0) = 0 /\ c2 = z /\ c1 = (IF Chunk < z THEN Chunk ELSE z)
        /\ Pieces(0) = 0 /\ Pieces(c1) = 1 /\ (Chunk < z => Pieces(c2) = 2)
    BY Cuts
  <1>3. q \in {0, c1, c2} /\ q < z
    BY <1>2
  <1> HIDE DEF z, c1, c2
  <1>4. CASE q = 0
    <2>1. /\ c1 = q + (IF z - q < Chunk THEN z - q ELSE Chunk) /\ q < c1 /\ c1 <= z /\ c1 \in Nat
      BY <1>1, <1>2, <1>4
    <2> WITNESS 0 \in {0, 1}
    <2>2. Cut(0 + 1) = c1
      BY DEF c1
    <2> QED BY <1>2, <1>4, <2>1, <2>2 DEF z, c1
  <1>5. CASE q # 0
    <2>1. /\ q = c1 /\ Chunk < z /\ q = Chunk /\ q \in Nat /\ c2 \in Nat /\ q < c2 /\ c2 <= z
          /\ c2 = q + (IF z - q < Chunk THEN z - q ELSE Chunk)
      BY <1>1, <1>2, <1>3, <1>5
    <2>2. ~(z <= Chunk)
      BY <1>1, <2>1
    <2> WITNESS 1 \in {0, 1}
    <2>3. Cut(1 + 1) = c2 /\ 1 + 1 = 2
      BY DEF c2
    <2> QED BY <1>2, <2>1, <2>2, <2>3 DEF z, c1, c2
  <1> QED BY <1>4, <1>5

\* A piece of the vector, element by element.
LEMMA PieceFacts ==
  ASSUME NEW n \in {0, 1}, Cut(n) \in Nat, Cut(n + 1) \in Nat, Cut(n) < Cut(n + 1)
  PROVE  /\ Len(PieceOf(n + 1)) = Cut(n + 1) - Cut(n)
         /\ \A i \in Cut(n) .. Cut(n + 1) - 1 :
              PieceOf(n + 1)[i - Cut(n) + 1] = Xor(Encoded[i], VoleC(i))
  <1> DEFINE a == Cut(n)
             b == Cut(n + 1)
             w == PieceOf(n + 1)
  <1>1. n + 1 - 1 = n
    OBVIOUS
  <1>2. w = [k \in 1 .. b - a |-> Xor(Encoded[a + k - 1], VoleC(a + k - 1))]
    BY <1>1 DEF PieceOf
  <1>3. a \in Nat /\ b \in Nat /\ a < b
    OBVIOUS
  <1> HIDE DEF a, b, w
  <1>4. Len(w) = b - a
    BY <1>2, <1>3
  <1>5. ASSUME NEW i \in a .. b - 1 PROVE w[i - a + 1] = Xor(Encoded[i], VoleC(i))
    <2> DEFINE k == i - a + 1
    <2>1. k \in 1 .. b - a /\ a + k - 1 = i
      BY <1>3
    <2> HIDE DEF k
    <2>2. w[k] = Xor(Encoded[a + k - 1], VoleC(a + k - 1))
      BY <1>2, <2>1
    <2>3. w[k] = Xor(Encoded[i], VoleC(i))
      BY <2>1, <2>2
    <2> QED BY <2>3 DEF k
  <1> QED BY <1>4, <1>5 DEF a, b, w

\* A piece arrives: it is the one that belongs at pos, of the length that is
\* expected, and takes the mask off every element it covers.
LEMMA S_ChunkKeeps ==
  ASSUME ChunkInv, S_Chunk
  PROVE  ChunkInv'
  <1>0. TypeOK /\ SenderInv /\ RecverInv /\ fail = ""
    BY Parts
  <1>m. Mal \in {0, 1}
    BY Parts
  <1> DEFINE z == inst.size
             len == IF z - pos < Chunk THEN z - pos ELSE Chunk
             piece == Head(toS).body
  <1>1. /\ inst' = inst /\ pc' = pc /\ toR' = toR /\ mP' = mP /\ mW' = mW /\ UNCHANGED recverVars
        /\ pc["S"] = "chunks" /\ pos < z /\ toS # <<>> /\ toS' = Tail(toS)
        /\ fail' = (IF Head(toS).type = "chunk" /\ Len(piece) = len THEN "" ELSE "size")
        /\ B' = [i \in Index |->
                   IF fail' = "" /\ i \in pos .. pos + len - 1
                   THEN Xor(B[i], TimesD(piece[i - pos + 1])) ELSE B[i]]
        /\ pos' = pos + len
    BY DEF S_Chunk
  <1>2. TypeOK' /\ pc'["R"] = pc["R"] /\ pc'["S"] = "chunks"
    BY <1>0, <1>1 DEF TypeOK
  <1>3. RecverInv' /\ RecvSent' = RecvSent /\ RecvGot' = RecvGot
    BY <1>0, <1>1, <1>2, RecverStays
  <1>4. pos \in {Cut(0), Cut(1), Cut(2)}
    BY <1>0 DEF SenderInv
  <1>5. PICK n \in {0, 1} :
          /\ pos = Cut(n) /\ Pieces(pos) = n /\ Pieces(Cut(n + 1)) = n + 1 /\ pos \in Nat
          /\ Cut(n + 1) \in Nat /\ Cut(n + 1) = pos + len
          /\ pos < Cut(n + 1) /\ Cut(n + 1) <= z /\ Cut(n + 1) \in {Cut(0), Cut(1), Cut(2)}
    BY <1>0, <1>1, <1>4, NextCut
  <1>6. pos' = Cut(n + 1) /\ len = Cut(n + 1) - Cut(n) /\ len \in Nat
    <2>1. z \in Nat /\ Chunk \in Nat
      BY <1>0, InstanceFacts
    <2>2. pos \in Nat /\ pos < z
      BY <1>1, <1>5
    <2> HIDE DEF z
    <2>3. len \in Nat
      BY <2>1, <2>2
    <2> HIDE DEF len
    <2>4. pos' = pos + len /\ Cut(n + 1) = pos + len /\ pos = Cut(n)
      BY <1>1, <1>5
    <2> DEFINE b == Cut(n + 1)
               a == Cut(n)
    <2>5. b = a + len /\ a \in Nat
      BY <2>2, <2>4
    <2> HIDE DEF a, b
    <2>6. len = b - a
      BY <2>3, <2>5
    <2> QED BY <2>3, <2>4, <2>6 DEF a, b
  <1> HIDE DEF len
  <1>7. SendGot = 1 + Mal + n /\ SendGot' = 1 + Mal + (n + 1) /\ SendSent' = SendSent
    <2>1. Mal' = Mal
      BY <1>1, InstFixed
    <2>2. Pieces(pos)' = n + 1
      BY <1>5, <1>6 DEF Pieces
    <2>3. SendGot = 1 + Mal + n
      BY <1>1, <1>5 DEF SendGot
    <2>4. SendGot' = 1 + Mal + (n + 1)
      BY <1>2, <2>1, <2>2 DEF SendGot
    <2>5. SendSent' = SendSent
      BY <1>1, <1>2, <2>1 DEF SendSent
    <2> QED BY <2>3, <2>4, <2>5
  <1>8. Head(toS) = Msg("chunk", PieceOf(n + 1))
    <2>1. Head(toS) = RecvScript[SendGot + 1]
      BY <1>1, ToSSteps
    <2>2. SendGot + 1 = 1 + Mal + (n + 1) /\ n + 1 \in 1 .. 2
      BY <1>m, <1>7
    <2>3. RecvScript[1 + Mal + (n + 1)] = Msg("chunk", PieceOf(n + 1))
      BY <2>2, Scripts
    <2> QED BY <2>1, <2>2, <2>3
  <1>9. Head(toS).type = "chunk" /\ piece = PieceOf(n + 1)
    BY <1>8 DEF Msg
  <1>10. /\ Len(piece) = len
         /\ \A i \in pos .. Cut(n + 1) - 1 : piece[i - pos + 1] = Xor(Encoded[i], VoleC(i))
    BY <1>5, <1>6, <1>9, PieceFacts
  <1> HIDE DEF piece
  <1>11. fail' = ""
    BY <1>1, <1>9, <1>10
  <1>12. SenderInv'
    <2>1. /\ B = [i \in Index |-> Xor(VoleA(i), TimesD(IF i < pos THEN Encoded[i] ELSE VoleC(i)))]
          /\ mW = IF inst.mal THEN Xor(Wr, Ws) ELSE Zero
      BY <1>0, <1>1 DEF SenderInv
    <2>2. \A i \in Index : i \in Int
      BY DEF Index
    <2>3. ASSUME NEW i \in Index
          PROVE  B'[i] = Xor(VoleA(i), TimesD(IF i < Cut(n + 1) THEN Encoded[i] ELSE VoleC(i)))
      <3> DEFINE b == Cut(n + 1)
      <3>1. /\ i \in Int /\ pos \in Nat /\ b \in Nat /\ b = pos + len /\ len \in Nat /\ pos < b
        BY <1>5, <1>6, <2>2
      <3>2. B[i] = Xor(VoleA(i), TimesD(IF i < pos THEN Encoded[i] ELSE VoleC(i)))
        BY <2>1
      <3>3. B'[i] = IF i \in pos .. pos + len - 1
                    THEN Xor(B[i], TimesD(piece[i - pos + 1])) ELSE B[i]
        BY <1>1, <1>11
      <3>4. CASE i \in pos .. b - 1
        <4>1. i \in pos .. pos + len - 1 /\ ~(i < pos) /\ i < b
          <5> HIDE DEF b
          <5> QED BY <3>1, <3>4
        <4>2. piece[i - pos + 1] = Xor(Encoded[i], VoleC(i))
          BY <1>10, <3>4
        <4>3. B'[i] = Xor(Xor(VoleA(i), TimesD(VoleC(i))), TimesD(Xor(Encoded[i], VoleC(i))))
          BY <3>2, <3>3, <4>1, <4>2
        <4>4. B'[i] = Xor(VoleA(i), TimesD(Encoded[i]))
          BY <1>0, <4>3, MaskCancels
        <4> QED BY <4>1, <4>4
      <3>5. CASE i \notin pos .. b - 1
        <4>1. i \notin pos .. pos + len - 1 /\ (i < pos <=> i < b)
          <5> HIDE DEF b
          <5> QED BY <3>1, <3>5
        <4> QED BY <3>2, <3>3, <4>1
      <3> QED BY <3>4, <3>5
    <2>4. B' = [i \in Index |-> Xor(VoleA(i), TimesD(IF i < Cut(n + 1) THEN Encoded[i] ELSE VoleC(i)))]
      <3>1. B' = [i \in Index |-> B'[i]]
        BY <1>1
      <3> QED BY <2>3, <3>1
    <2>5. B' = [i \in Index' |-> Xor(VoleA(i), TimesD(IF i < pos' THEN Encoded'[i] ELSE VoleC(i)))]
      BY <1>1, <1>6, <2>4, InstFixed
    <2>6. pos' \in {Cut(0)', Cut(1)', Cut(2)'}
      BY <1>1, <1>5, <1>6, InstFixed
    <2> QED BY <1>1, <1>2, <2>1, <2>5, <2>6 DEF SenderInv
  <1>13. ToS' /\ ToR'
    <2>1. SendGot' = SendGot + 1
      BY <1>m, <1>7
    <2> QED BY <1>1, <1>3, <1>7, <2>1, ToSSteps, ToRSteps
  <1> QED
    BY <1>2, <1>3, <1>11, <1>12, <1>13 DEF ChunkInv, SocketInv, ToS, ToR

\* The second OKVS is computed and sent; only the last entry of the script
\* mentions it.
LEMMA S_ProgramKeeps ==
  ASSUME ChunkInv, S_Program
  PROVE  ChunkInv'
  <1>0. TypeOK /\ ToR /\ SenderInv /\ RecverInv /\ fail = ""
    BY Parts
  <1>m. Mal \in {0, 1} /\ RecvGot \in Nat /\ SendSent \in Nat
    BY Parts
  <1>1. /\ inst' = inst /\ pc' = [pc EXCEPT !["S"] = "done"] /\ pc["S"] = "chunks" /\ pos = inst.size
        /\ mP' = solve([x \in inst.X |-> Xor(Val(x), Eval(x))], [c \in Index |-> Sym(<<"rand", c>>)])
        /\ toR' = Append(toR, Msg("P", mP'))
        /\ UNCHANGED <<toS, B, pos, mW, recverVars, fail>>
    BY DEF S_Program, Goto
  <1>2. TypeOK' /\ pc'["R"] = pc["R"] /\ pc'["S"] = "done"
    BY <1>0, <1>1 DEF TypeOK
  <1>3. SendSent = 1 + 2 * Mal /\ SendSent' = 2 + 2 * Mal /\ SendGot' = SendGot
    <2>1. Mal' = Mal
      BY <1>1, InstFixed
    <2>2. SendSent = 1 + 2 * Mal /\ SendSent' = 2 + 2 * Mal
      BY <1>1, <1>2, <2>1 DEF SendSent
    <2>3. SendGot' = SendGot
      BY <1>1, <1>2, <2>1 DEF SendGot, Pieces
    <2> QED BY <2>2, <2>3
  <1>4. pc["R"] # "done"
    <2>1. RecvGot <= SendSent
      BY <1>0 DEF ToR
    <2>2. pc["R"] = "done" => RecvGot = 2 + 2 * Mal
      BY DEF RecvGot
    <2> QED BY <1>m, <1>3, <2>1, <2>2
  <1>5. RecverInv' /\ RecvSent' = RecvSent /\ RecvGot' = RecvGot
    BY <1>0, <1>1, <1>2, <1>4, RecverStays
  <1>6. SenderInv'
    <2>1. \A x : Eval(x)' = Eval(x)
      BY <1>1, InstFixed DEF Eval, Prf, decode
    <2>2. \A f, g : solve(f, g)' = solve(f, g)
      BY <1>1, InstFixed DEF solve
    <2>3. mP' = solve([x \in inst.X |-> Xor(Val(x), Eval(x))], [c \in Index |-> Sym(<<"rand", c>>)])'
      BY <1>1, <2>1, <2>2, InstFixed
    <2>4. B' = [i \in Index' |-> Xor(VoleA(i), TimesD(IF i < pos' THEN Encoded'[i] ELSE VoleC(i)))]
      BY <1>0, <1>1, InstFixed DEF SenderInv
    <2>5. pos' \in {Cut(0)', Cut(1)', Cut(2)'}
      BY <1>0, <1>1, InstFixed DEF SenderInv
    <2>6. mW' = (IF inst'.mal THEN Xor(Wr, Ws) ELSE Zero) /\ pos' = inst'.size
      BY <1>0, <1>1 DEF SenderInv
    <2> QED BY <1>2, <2>3, <2>4, <2>5, <2>6 DEF SenderInv
  <1>7. ToS'
    BY <1>1, <1>3, <1>5, ToSSteps
  <1>8. ToR'
    <2> DEFINE f == SendScript
               h == SendScript'
               g == RecvGot
               n == SendSent
               m == Mal
    <2>1. toR = Window(f, g, n) /\ g \in Nat /\ n \in Nat /\ g <= n /\ n = 1 + 2 * m /\ m \in {0, 1}
      BY <1>0, <1>m, <1>3 DEF ToR
    <2>2. /\ f = [k \in 1 .. 2 + 2 * m |->
                    IF k = 1 THEN Msg("seed", "opprf")
                    ELSE IF k = 2 + 2 * m THEN Msg("P", mP)
                    ELSE IF k = 2 THEN Msg("Hws", <<"H", Ws>>) ELSE Msg("ws", Ws)]
          /\ h = [k \in 1 .. 2 + 2 * m |->
                    IF k = 1 THEN Msg("seed", "opprf")
                    ELSE IF k = 2 + 2 * m THEN Msg("P", mP')
                    ELSE IF k = 2 THEN Msg("Hws", <<"H", Ws>>) ELSE Msg("ws", Ws)]
      BY <1>1, InstFixed DEF SendScript
    <2>3. RecvGot' = g /\ SendSent' = n + 1 /\ toR' = Append(toR, Msg("P", mP'))
      BY <1>1, <1>3, <1>5, <1>m
    <2> HIDE DEF f, h, g, n, m
    <2>4. \A k \in g + 1 .. n : f[k] = h[k]
      <3> SUFFICES ASSUME NEW k \in g + 1 .. n PROVE f[k] = h[k]
        OBVIOUS
      <3>1. k \in 1 .. 2 + 2 * m /\ k # 2 + 2 * m
        BY <2>1
      <3> QED BY <2>2, <3>1
    <2>5. h[n + 1] = Msg("P", mP')
      <3>1. n + 1 \in 1 .. 2 + 2 * m /\ n + 1 = 2 + 2 * m /\ n + 1 # 1
        BY <2>1
      <3> QED BY <2>2, <3>1
    <2>6. toR = Window(h, g, n)
      <3>1. g \in Nat /\ n \in Nat /\ toR = Window(f, g, n)
        BY <2>1
      <3>2. Window(f, g, n) = Window(h, g, n)
        BY <3>1, <2>4, WindowAgrees
      <3> QED BY <3>1, <3>2
    <2>7. g \in Nat /\ n \in Nat /\ g <= n /\ g <= n + 1
      BY <2>1
    <2>8. Append(Window(h, g, n), h[n + 1]) = Window(h, g, n + 1)
      BY <2>7, Windows
    <2>9. g <= n + 1 /\ toR' = Window(h, g, n + 1)
      BY <2>3, <2>5, <2>6, <2>7, <2>8
    <2> QED BY <2>3, <2>9 DEF ToR, h
  <1> QED
    BY <1>0, <1>1, <1>2, <1>5, <1>6, <1>7, <1>8 DEF ChunkInv, SocketInv, ToS, ToR

-----------------------------------------------------------------------------
(* Steps of the receiver. *)

\* The seeds are exchanged.
LEMMA R_StartKeeps ==
  ASSUME ChunkInv, R_Start
  PROVE  ChunkInv'
  <1>0. TypeOK /\ SenderInv /\ RecverInv /\ fail = ""
    BY Parts
  <1>m. Mal \in {0, 1} /\ (inst.mal <=> Mal = 1)
    BY Parts
  <1>1. /\ inst' = inst /\ pc' = [pc EXCEPT !["R"] = IF inst.mal THEN "Hws" ELSE "solve"]
        /\ pc["R"] = "start" /\ toR # <<>> /\ toR' = Tail(toR) /\ toS' = Append(toS, Msg("seed", "oprf"))
        /\ UNCHANGED <<senderVars, recverVars, fail>>
    BY DEF R_Start, Goto
  <1>2. TypeOK' /\ pc'["S"] = pc["S"] /\ pc'["R"] = IF inst.mal THEN "Hws" ELSE "solve"
    BY <1>0, <1>1 DEF TypeOK
  <1>3. UNCHANGED <<p, pBegin, cBegin, Hws, outputs>> /\ mP' = mP
    BY <1>1 DEF recverVars, senderVars
  <1>4. SenderInv' /\ SendSent' = SendSent /\ SendGot' = SendGot
    BY <1>0, <1>1, <1>2, SenderStays
  <1>5. RecverInv'
    <2>1. /\ cBegin' \in {Cut(0)', Cut(1)', Cut(2)'} /\ cBegin' = 0
          /\ pBegin' = IF cBegin' = 0 \/ inst'.size <= Chunk THEN 0 ELSE Chunk
      BY <1>0, <1>1, <1>3, InstFixed DEF RecverInv
    <2>2. pc'["R"] \in {"Hws", "solve"} /\ (inst'.mal => pc'["R"] = "Hws")
      BY <1>1, <1>2
    <2> QED BY <2>1, <2>2 DEF RecverInv
  <1>6. RecvSent = 0 /\ RecvSent' = 1 /\ RecvGot = 0 /\ RecvGot' = 1
    <2>1. RecvSent = 0 /\ RecvGot = 0
      BY <1>1 DEF RecvSent, RecvGot
    <2>2. RecvSent' = 1
      BY <1>2 DEF RecvSent
    <2>3. CASE inst.mal
      BY <1>2, <2>1, <2>2, <2>3 DEF RecvGot
    <2>4. CASE ~inst.mal
      <3>1. Mal' = 0
        BY <1>1, <1>m, <2>4, InstFixed
      <3>2. RecvGot' = 1
        BY <1>2, <2>4, <3>1 DEF RecvGot
      <3> QED BY <2>1, <2>2, <3>2
    <2> QED BY <2>3, <2>4
  <1>7. ToS'
    <2>1. RecvScript[RecvSent + 1] = Msg("seed", "oprf")
      BY <1>6, Scripts
    <2> QED BY <1>1, <1>4, <1>6, <2>1, ToSSteps
  <1>8. ToR'
    BY <1>1, <1>3, <1>4, <1>6, ToRSteps
  <1> QED
    BY <1>0, <1>1, <1>2, <1>4, <1>5, <1>7, <1>8 DEF ChunkInv, SocketInv, ToS, ToR

\* The commitment arrives.
LEMMA R_HwsKeeps ==
  ASSUME ChunkInv, R_Hws
  PROVE  ChunkInv'
  <1>0. TypeOK /\ SenderInv /\ RecverInv /\ fail = ""
    BY Parts
  <1>m. Mal \in {0, 1} /\ (inst.mal <=> Mal = 1)
    BY Parts
  <1>1. /\ inst' = inst /\ pc' = [pc EXCEPT !["R"] = "solve"] /\ pc["R"] = "Hws"
        /\ toR # <<>> /\ toR' = Tail(toR) /\ toS' = toS /\ Hws' = Head(toR).body
        /\ UNCHANGED <<senderVars, p, pBegin, cBegin, outputs, fail>>
    BY DEF R_Hws, Goto
  <1>2. TypeOK' /\ pc'["S"] = pc["S"] /\ pc'["R"] = "solve"
    BY <1>0, <1>1 DEF TypeOK
  <1>3. mP' = mP
    BY <1>1 DEF senderVars
  <1>4. SenderInv' /\ SendSent' = SendSent /\ SendGot' = SendGot
    BY <1>0, <1>1, <1>2, SenderStays
  <1>5. inst.mal
    BY <1>0, <1>1 DEF TypeOK
  <1>6. Mal = 1 /\ Mal' = 1
    BY <1>1, <1>m, <1>5, InstFixed
  <1>7. RecvSent' = RecvSent /\ RecvGot = 1 /\ RecvGot' = 2
    <2>1. RecvSent' = RecvSent
      BY <1>1, <1>2 DEF RecvSent
    <2>2. RecvGot = 1 /\ RecvGot' = 2
      BY <1>1, <1>2, <1>6 DEF RecvGot
    <2> QED BY <2>1, <2>2
  <1>8. Hws' = <<"H", Ws>>
    <2>1. Head(toR) = SendScript[1 + 1]
      BY <1>1, <1>7, ToRSteps
    <2>2. SendScript[2] = Msg("Hws", <<"H", Ws>>)
      BY <1>5, Scripts
    <2>3. Msg("Hws", <<"H", Ws>>).body = <<"H", Ws>>
      BY DEF Msg
    <2> QED BY <1>1, <2>1, <2>2, <2>3
  <1>9. RecverInv'
    BY <1>0, <1>1, <1>2, <1>8, InstFixed DEF RecverInv
  <1>10. ToS' /\ ToR'
    BY <1>1, <1>3, <1>4, <1>7, ToSSteps, ToRSteps
  <1> QED
    BY <1>0, <1>1, <1>2, <1>4, <1>9, <1>10 DEF ChunkInv, SocketInv, ToS, ToR

\* The first OKVS is computed.
LEMMA R_SolveKeeps ==
  ASSUME ChunkInv, R_Solve
  PROVE  ChunkInv'
  <1>0. TypeOK /\ SenderInv /\ RecverInv /\ fail = ""
    BY Parts
  <1>1. /\ inst' = inst /\ pc' = [pc EXCEPT !["R"] = "vole"] /\ pc["R"] = "solve"
        /\ toR' = toR /\ toS' = toS /\ p' = Encoded
        /\ UNCHANGED <<senderVars, pBegin, cBegin, Hws, outputs, fail>>
    BY DEF R_Solve, Goto
  <1>2. TypeOK' /\ pc'["S"] = pc["S"] /\ pc'["R"] = "vole"
    BY <1>0, <1>1 DEF TypeOK
  <1>3. mP' = mP
    BY <1>1 DEF senderVars
  <1>4. SenderInv' /\ SendSent' = SendSent /\ SendGot' = SendGot
    BY <1>0, <1>1, <1>2, SenderStays
  <1>5. RecvSent' = RecvSent /\ RecvGot' = RecvGot
    BY <1>1, <1>2, InstFixed DEF RecvSent, RecvGot
  <1>6. RecverInv'
    <2>0. inst.size \in Nat
      BY <1>0, InstanceFacts
    <2>1. \A i \in Index : ~(i < 0)
      BY <2>0 DEF Index
    <2>2. Encoded = [i \in Index |-> Encoded[i]]
      BY DEF Encoded, solve
    <2>3. cBegin = 0
      BY <1>0, <1>1 DEF RecverInv
    <2>4. p' = [i \in Index |-> IF i < cBegin THEN Xor(Encoded[i], VoleC(i)) ELSE Encoded[i]]
      BY <1>1, <2>1, <2>2, <2>3
    <2>5. p' = [i \in Index' |-> IF i < cBegin' THEN Xor(Encoded'[i], VoleC(i)) ELSE Encoded'[i]]
      BY <1>1, <2>4, InstFixed
    <2>6. /\ cBegin' \in {Cut(0)', Cut(1)', Cut(2)'} /\ cBegin' = 0
          /\ pBegin' = IF cBegin' = 0 \/ inst'.size <= Chunk THEN 0 ELSE Chunk
      BY <1>0, <1>1, <2>3, InstFixed DEF RecverInv
    <2>7. inst'.mal => Hws' = <<"H", Ws>>
      BY <1>0, <1>1 DEF RecverInv
    <2> QED BY <1>2, <2>5, <2>6, <2>7 DEF RecverInv
  <1>7. ToS' /\ ToR'
    BY <1>1, <1>3, <1>4, <1>5, ToSSteps, ToRSteps
  <1> QED
    BY <1>0, <1>1, <1>2, <1>4, <1>6, <1>7 DEF ChunkInv, SocketInv, ToS, ToR

\* The VOLE is complete; the receiver opens its share of w.
LEMMA R_VoleKeeps ==
  ASSUME ChunkInv, R_Vole
  PROVE  ChunkInv'
  <1>0. TypeOK /\ SenderInv /\ RecverInv /\ fail = ""
    BY Parts
  <1>m. Mal \in {0, 1} /\ (inst.mal <=> Mal = 1)
    BY Parts
  <1>1. /\ inst' = inst /\ pc' = [pc EXCEPT !["R"] = "chunks"] /\ pc["R"] = "vole"
        /\ toR' = toR /\ toS' = (IF inst.mal THEN Append(toS, Msg("wr", Wr)) ELSE toS)
        /\ UNCHANGED <<senderVars, recverVars, fail>>
    BY DEF R_Vole, Goto
  <1>2. TypeOK' /\ pc'["S"] = pc["S"] /\ pc'["R"] = "chunks"
    BY <1>0, <1>1 DEF TypeOK
  <1>3. UNCHANGED <<p, pBegin, cBegin, Hws, outputs>> /\ mP' = mP
    BY <1>1 DEF recverVars, senderVars
  <1>4. SenderInv' /\ SendSent' = SendSent /\ SendGot' = SendGot
    BY <1>0, <1>1, <1>2, SenderStays
  <1>5. cBegin = 0
    BY <1>0, <1>1 DEF RecverInv
  <1>6. RecvSent = 1 /\ RecvSent' = 1 + Mal /\ RecvGot' = RecvGot
    <2>1. Pieces(cBegin)' = 0 /\ Mal' = Mal
      BY <1>1, <1>3, <1>5, InstFixed DEF Pieces
    <2>2. RecvSent = 1 /\ RecvGot' = RecvGot
      BY <1>1, <1>2, <2>1 DEF RecvSent, RecvGot
    <2>3. RecvSent' = 1 + Mal + 0
      BY <1>2, <2>1 DEF RecvSent
    <2>4. 1 + Mal + 0 = 1 + Mal
      BY <1>m
    <2> QED BY <2>2, <2>3, <2>4
  <1>7. RecverInv'
    BY <1>0, <1>1, <1>2, <1>3, <1>5, InstFixed DEF RecverInv
  <1>8. ToS'
    <2>1. CASE inst.mal
      <3>1. RecvSent' = RecvSent + 1 /\ RecvScript[RecvSent + 1] = Msg("wr", Wr)
        BY <1>m, <1>6, <2>1, Scripts
      <3> QED BY <1>1, <1>4, <2>1, <3>1, ToSSteps
    <2>2. CASE ~inst.mal
      <3>1. RecvSent' = RecvSent
        BY <1>m, <1>6, <2>2
      <3> QED BY <1>1, <1>4, <2>2, <3>1, ToSSteps
    <2> QED BY <2>1, <2>2
  <1>9. ToR'
    BY <1>1, <1>3, <1>4, <1>6, ToRSteps
  <1> QED
    BY <1>0, <1>1, <1>2, <1>4, <1>7, <1>8, <1>9 DEF ChunkInv, SocketInv, ToS, ToR

\* The two loops together mask a whole piece, and nothing beyond it.
LEMMA MaskedWhole ==
  ASSUME NEW len \in Nat, NEW rest \in Nat,
         len = rest \/ (len % Lanes = 0 /\ rest <= len)
  PROVE  Masked(len, rest) = 0 .. len - 1
  <1> DEFINE main == (len \div Lanes) * Lanes
  <1>1. Lanes \in Nat /\ Lanes > 0
    BY ChunkAssumption
  <1>2. len \div Lanes \in Nat /\ len % Lanes \in Nat /\ len = Lanes * (len \div Lanes) + (len % Lanes)
    BY <1>1
  <1>3. Lanes * (len \div Lanes) = main /\ main \in Nat
    BY <1>1, <1>2
  <1> HIDE DEF main
  <1>4. main <= len /\ (len % Lanes = 0 => main = len)
    BY <1>2, <1>3
  <1>5. Masked(len, rest) = 0 .. main - 1 \cup main .. rest - 1
    BY DEF Masked, main
  <1>6. CASE len = rest
    BY <1>3, <1>4, <1>5, <1>6
  <1>7. CASE len % Lanes = 0 /\ rest <= len
    BY <1>3, <1>4, <1>5, <1>7
  <1> QED BY <1>6, <1>7

\* What the round that sends piece n + 1 works on.
LEMMA Round ==
  ASSUME TypeOK, cBegin < inst.size, NEW n \in {0, 1},
         cBegin \in Nat,
         cBegin = IF n = 0 \/ inst.size <= Chunk THEN 0 ELSE Chunk,
         n = 0 => cBegin = 0,
         pBegin = IF cBegin = 0 \/ inst.size <= Chunk THEN 0 ELSE Chunk,
         NEW len, len = IF inst.size - pBegin < Chunk THEN inst.size - pBegin ELSE Chunk,
         NEW begin, begin = IF inst.size - pBegin # len THEN pBegin + len ELSE pBegin
  PROVE  /\ pBegin = cBegin /\ len \in Nat /\ begin \in Nat /\ len > 0 /\ cBegin + len <= inst.size
         /\ Masked(len, inst.size - begin) = 0 .. len - 1
         /\ inst.size - begin # len => begin = pBegin + len
         /\ inst.size - begin = len => pBegin = begin /\ pBegin + len = inst.size
         /\ begin = IF cBegin + len = 0 \/ inst.size <= Chunk THEN 0 ELSE Chunk
  <1> DEFINE z == inst.size
  <1>1. Chunk \in Nat /\ Chunk > 0 /\ z \in Nat /\ 2 <= z /\ z < 2 * Chunk /\ Chunk % Lanes = 0
    BY InstanceFacts, ChunkAssumption
  <1>2. /\ cBegin < z /\ cBegin \in Nat /\ cBegin \in {0, Chunk}
        /\ pBegin = IF cBegin = 0 \/ z <= Chunk THEN 0 ELSE Chunk
        /\ len = IF z - pBegin < Chunk THEN z - pBegin ELSE Chunk
        /\ begin = IF z - pBegin # len THEN pBegin + len ELSE pBegin
    OBVIOUS
  <1> HIDE DEF z
  <1>3. pBegin = cBegin
    BY <1>1, <1>2
  <1>4. len \in Nat /\ len > 0 /\ begin \in Nat /\ cBegin + len <= z
    BY <1>1, <1>2, <1>3
  <1>5. z - begin \in Nat /\ (len = z - begin \/ (len = Chunk /\ z - begin <= len))
    BY <1>1, <1>2, <1>3
  <1>6. Masked(len, z - begin) = 0 .. len - 1
    BY <1>1, <1>4, <1>5, MaskedWhole
  <1>7. /\ z - begin # len => begin = pBegin + len
        /\ z - begin = len => pBegin = begin /\ pBegin + len = z
        /\ begin = IF cBegin + len = 0 \/ z <= Chunk THEN 0 ELSE Chunk
    BY <1>1, <1>2, <1>3, <1>4
  <1> QED BY <1>3, <1>4, <1>6, <1>7 DEF z

\* A piece is masked in place and sent.
LEMMA R_ChunkKeeps ==
  ASSUME ChunkInv, R_Chunk
  PROVE  ChunkInv'
  <1>0. TypeOK /\ SenderInv /\ RecverInv /\ fail = ""
    BY Parts
  <1>m. Mal \in {0, 1}
    BY Parts
  <1> DEFINE z == inst.size
             size == z - pBegin
             len == IF size < Chunk THEN size ELSE Chunk
             begin == IF size # len THEN pBegin + len ELSE pBegin
             mem == [k \in 1 .. z |-> p'[k - 1]]
  <1>1. /\ inst' = inst /\ pc' = pc /\ toR' = toR /\ UNCHANGED <<senderVars, Hws, outputs, fail>>
        /\ pc["R"] = "chunks" /\ cBegin < z
        /\ p' = [i \in Index |->
                   IF i - pBegin \in Masked(len, z - begin)
                   THEN Xor(p[i], VoleC(cBegin + i - pBegin)) ELSE p[i]]
        /\ toS' = Append(toS, Msg("chunk", Piece(mem, len, begin)))
        /\ pBegin' = begin
        /\ cBegin' = cBegin + len
    BY DEF R_Chunk
  <1>2. TypeOK' /\ pc'["S"] = pc["S"] /\ pc'["R"] = "chunks"
    BY <1>0, <1>1 DEF TypeOK
  <1>3. mP' = mP
    BY <1>1 DEF senderVars
  <1>4. SenderInv' /\ SendSent' = SendSent /\ SendGot' = SendGot
    BY <1>0, <1>1, <1>2, SenderStays
  <1>5. /\ cBegin \in {Cut(0), Cut(1), Cut(2)}
        /\ pBegin = IF cBegin = 0 \/ inst.size <= Chunk THEN 0 ELSE Chunk
        /\ p = [i \in Index |-> IF i < cBegin THEN Xor(Encoded[i], VoleC(i)) ELSE Encoded[i]]
        /\ inst.mal => Hws = <<"H", Ws>>
    BY <1>0, <1>1 DEF RecverInv
  <1>6. PICK n \in {0, 1} :
          /\ cBegin = Cut(n) /\ Pieces(cBegin) = n /\ Pieces(Cut(n + 1)) = n + 1 /\ cBegin \in Nat
          /\ Cut(n + 1) \in Nat
          /\ Cut(n + 1) = cBegin + (IF z - cBegin < Chunk THEN z - cBegin ELSE Chunk)
          /\ cBegin < Cut(n + 1) /\ Cut(n + 1) <= z /\ Cut(n + 1) \in {Cut(0), Cut(1), Cut(2)}
          /\ cBegin = IF n = 0 \/ z <= Chunk THEN 0 ELSE Chunk
    BY <1>0, <1>1, <1>5, NextCut
  <1>7. /\ pBegin = cBegin /\ len \in Nat /\ begin \in Nat /\ len > 0 /\ cBegin + len <= z
        /\ Masked(len, z - begin) = 0 .. len - 1
        /\ z - begin # len => begin = pBegin + len
        /\ z - begin = len => pBegin = begin /\ pBegin + len = z
        /\ begin = IF cBegin + len = 0 \/ z <= Chunk THEN 0 ELSE Chunk
    <2>1. cBegin < inst.size /\ cBegin \in Nat /\ n \in {0, 1}
      BY <1>1, <1>6
    <2>2. cBegin = IF n = 0 \/ inst.size <= Chunk THEN 0 ELSE Chunk
      BY <1>6
    <2>3. n = 0 => cBegin = 0
      BY <2>2
    <2>4. pBegin = IF cBegin = 0 \/ inst.size <= Chunk THEN 0 ELSE Chunk
      BY <1>5
    <2>5. /\ len = IF inst.size - pBegin < Chunk THEN inst.size - pBegin ELSE Chunk
          /\ begin = IF inst.size - pBegin # len THEN pBegin + len ELSE pBegin
      OBVIOUS
    <2> HIDE DEF len, begin
    <2> QED BY <1>0, <2>1, <2>2, <2>3, <2>4, <2>5, Round
  <1>8. Cut(n + 1) = cBegin + len
    BY <1>6, <1>7
  <1>9. z \in Nat
    BY <1>0, InstanceFacts
  <1>10. Piece(mem, len, begin) = SubSeq(mem, cBegin + 1, cBegin + len)
    <2>1. Piece(mem, len, begin) =
            IF z - begin # len THEN SubSeq(mem, pBegin + 1, pBegin + len) ELSE SubSeq(mem, begin + 1, z)
      BY DEF Piece
    <2> HIDE DEF mem, len, begin, z
    <2> QED BY <1>7, <2>1
  <1> HIDE DEF len, begin, size, mem, z
  <1>11. /\ \A i \in Index : p'[i] = IF i \in cBegin .. cBegin + len - 1
                                     THEN Xor(p[i], VoleC(i)) ELSE p[i]
         /\ p' = [i \in Index |-> p'[i]]
    <2>1. ASSUME NEW i \in Index
          PROVE  p'[i] = IF i \in cBegin .. cBegin + len - 1 THEN Xor(p[i], VoleC(i)) ELSE p[i]
      <3>1. p'[i] = IF i - cBegin \in 0 .. len - 1 THEN Xor(p[i], VoleC(cBegin + i - cBegin)) ELSE p[i]
        BY <1>1, <1>7
      <3>2. i \in Int
        BY DEF Index
      <3>3. cBegin \in Nat /\ len \in Nat
        BY <1>6, <1>7
      <3>4. cBegin + i - cBegin = i /\ (i - cBegin \in 0 .. len - 1 <=> i \in cBegin .. cBegin + len - 1)
        BY <3>2, <3>3
      <3> QED BY <3>1, <3>4
    <2>2. p' = [i \in Index |-> p'[i]]
      BY <1>1
    <2> QED BY <2>1, <2>2
  <1>12. p' = [i \in Index |-> IF i < cBegin + len THEN Xor(Encoded[i], VoleC(i)) ELSE Encoded[i]]
    <2>1. ASSUME NEW i \in Index
          PROVE  p'[i] = IF i < cBegin + len THEN Xor(Encoded[i], VoleC(i)) ELSE Encoded[i]
      <3>1. i \in Int
        BY DEF Index
      <3>2. cBegin \in Nat /\ len \in Nat
        BY <1>6, <1>7
      <3>3. p[i] = IF i < cBegin THEN Xor(Encoded[i], VoleC(i)) ELSE Encoded[i]
        BY <1>5
      <3>4. p'[i] = IF i \in cBegin .. cBegin + len - 1 THEN Xor(p[i], VoleC(i)) ELSE p[i]
        BY <1>11
      <3>5. CASE i < cBegin
        <4>1. i \notin cBegin .. cBegin + len - 1 /\ i < cBegin + len
          BY <3>1, <3>2, <3>5
        <4> QED BY <3>3, <3>4, <3>5, <4>1
      <3>6. CASE i \in cBegin .. cBegin + len - 1
        <4>1. ~(i < cBegin) /\ i < cBegin + len
          BY <3>1, <3>2, <3>6
        <4> QED BY <3>3, <3>4, <3>6, <4>1
      <3>7. CASE ~(i < cBegin) /\ i \notin cBegin .. cBegin + len - 1
        <4>1. ~(i < cBegin + len)
          BY <3>1, <3>2, <3>7
        <4> QED BY <3>3, <3>4, <3>7, <4>1
      <3> QED BY <3>5, <3>6, <3>7
    <2> QED BY <1>11, <2>1
  <1>13. Piece(mem, len, begin) = PieceOf(n + 1)
    <2> DEFINE a == cBegin
               w == PieceOf(n + 1)
               v == SubSeq(mem, a + 1, a + len)
               S == {mem[k] : k \in 1 .. z}
    <2>1. a \in Nat /\ len \in Nat /\ a + len <= z
      BY <1>6, <1>7
    <2>2. w = [k \in 1 .. len |-> Xor(Encoded[a + k - 1], VoleC(a + k - 1))]
      <3>1. n + 1 - 1 = n
        OBVIOUS
      <3>2. Cut(n) = a
        BY <1>6
      <3>3. Cut(n + 1) - a = len
        BY <1>8, <2>1
      <3> QED BY <3>1, <3>2, <3>3 DEF PieceOf
    <2>3. mem = [k \in 1 .. z |-> p'[k - 1]]
      BY DEF mem
    <2>4. v = [k \in 1 .. len |-> mem[a + k]]
      <3>1. mem \in Seq(S) /\ Len(mem) = z
        <4>1. \A k \in 1 .. z : mem[k] \in S
          OBVIOUS
        <4> HIDE DEF S
        <4>2. mem = [k \in 1 .. z |-> mem[k]]
          BY <2>3
        <4> QED BY <1>9, <4>1, <4>2
      <3>2. v = [k \in 1 .. (a + len) - (a + 1) + 1 |-> mem[a + 1 + k - 1]]
        <4> DEFINE b == a + 1
                   c == a + len
        <4>1. b \in 1 .. Len(mem) + 1 /\ c \in b - 1 .. Len(mem)
          BY <1>9, <2>1, <3>1
        <4> HIDE DEF b, c, S
        <4>2. SubSeq(mem, b, c) = [k \in 1 .. c - b + 1 |-> mem[b + k - 1]]
          BY <3>1, <4>1, SubSeqProperties
        <4>3. v = SubSeq(mem, b, c)
          BY DEF b, c
        <4> HIDE DEF v
        <4>4. v = [k \in 1 .. c - b + 1 |-> mem[b + k - 1]]
          BY <4>2, <4>3
        <4> QED BY <4>4 DEF b, c
      <3>3. (a + len) - (a + 1) + 1 = len
        BY <2>1
      <3>4. \A k \in 1 .. len : a + 1 + k - 1 = a + k
        BY <2>1
      <3> HIDE DEF v, a
      <3> QED BY <3>2, <3>3, <3>4
    <2>5. ASSUME NEW k \in 1 .. len
          PROVE  mem[a + k] = Xor(Encoded[a + k - 1], VoleC(a + k - 1))
      <3> DEFINE i == a + k - 1
      <3>1. a + k \in 1 .. z /\ i \in Index /\ i < a + len
        BY <1>9, <2>1 DEF Index, z
      <3>2. mem[a + k] = p'[i]
        <4> DEFINE j == a + k
        <4>1. j \in 1 .. z
          BY <3>1
        <4>2. i = j - 1
          BY <2>1
        <4> HIDE DEF i, j
        <4>3. mem[j] = p'[i]
          BY <2>3, <4>1, <4>2
        <4> QED BY <4>3 DEF j
      <3> HIDE DEF i
      <3>3. p'[i] = Xor(Encoded[i], VoleC(i))
        BY <1>12, <3>1
      <3> QED BY <3>2, <3>3 DEF i
    <2> HIDE DEF v, w, a
    <2>6. v = w
      BY <2>2, <2>4, <2>5
    <2> QED BY <1>10, <2>6 DEF v, w, a
  <1>14. RecverInv'
    <2>1. cBegin' = cBegin + len /\ pBegin' = begin
      BY <1>1
    <2>2. p' = [i \in Index' |-> IF i < cBegin' THEN Xor(Encoded'[i], VoleC(i)) ELSE Encoded'[i]]
      BY <1>1, <1>12, <2>1, InstFixed
    <2>3. cBegin' \in {Cut(0)', Cut(1)', Cut(2)'}
      BY <1>1, <1>6, <1>8, <2>1, InstFixed
    <2>4. pBegin' = IF cBegin' = 0 \/ inst'.size <= Chunk THEN 0 ELSE Chunk
      BY <1>1, <1>7, <2>1 DEF z
    <2>5. inst'.mal => Hws' = <<"H", Ws>>
      BY <1>1, <1>5
    <2> QED BY <1>2, <2>2, <2>3, <2>4, <2>5 DEF RecverInv
  <1>15. RecvSent = 1 + Mal + n /\ RecvSent' = 1 + Mal + (n + 1) /\ RecvGot' = RecvGot
    <2>1. Mal' = Mal
      BY <1>1, InstFixed
    <2>2. Pieces(cBegin)' = n + 1
      BY <1>1, <1>6, <1>8 DEF Pieces
    <2>3. RecvSent = 1 + Mal + n
      BY <1>1, <1>6 DEF RecvSent
    <2>4. RecvSent' = 1 + Mal + (n + 1)
      BY <1>2, <2>1, <2>2 DEF RecvSent
    <2>5. RecvGot' = RecvGot
      BY <1>1, <1>2, <2>1 DEF RecvGot
    <2> QED BY <2>3, <2>4, <2>5
  <1>16. ToS'
    <2>1. RecvSent' = RecvSent + 1 /\ RecvSent + 1 = 1 + Mal + (n + 1) /\ n + 1 \in 1 .. 2
      BY <1>m, <1>15
    <2>2. RecvScript[RecvSent + 1] = Msg("chunk", PieceOf(n + 1))
      BY <2>1, Scripts
    <2>3. toS' = Append(toS, RecvScript[RecvSent + 1])
      BY <1>1, <1>13, <2>2
    <2> QED BY <1>1, <1>4, <2>1, <2>3, ToSSteps
  <1>17. ToR'
    BY <1>1, <1>3, <1>4, <1>15, ToRSteps
  <1> QED
    BY <1>0, <1>1, <1>2, <1>4, <1>14, <1>16, <1>17 DEF ChunkInv, SocketInv, ToS, ToR

\* The receiver's own values of the OPRF.
LEMMA R_DecodeKeeps ==
  ASSUME ChunkInv, R_Decode
  PROVE  ChunkInv'
  <1>0. TypeOK /\ SenderInv /\ RecverInv /\ fail = ""
    BY Parts
  <1>m. Mal \in {0, 1} /\ (inst.mal <=> Mal = 1)
    BY Parts
  <1> DEFINE a(x) == decode([i \in Index |-> VoleA(i)], x)
  <1>1. /\ inst' = inst /\ pc' = [pc EXCEPT !["R"] = IF inst.mal THEN "ws" ELSE "P"]
        /\ pc["R"] = "chunks" /\ cBegin = inst.size /\ toR' = toR /\ toS' = toS
        /\ outputs' = [x \in inst.values |-> IF inst.mal THEN a(x) ELSE Prf(a(x), Zero, x)]
        /\ UNCHANGED <<senderVars, p, pBegin, cBegin, Hws, fail>>
    BY DEF R_Decode, Goto
  <1>2. TypeOK' /\ pc'["S"] = pc["S"] /\ pc'["R"] = IF inst.mal THEN "ws" ELSE "P"
    BY <1>0, <1>1 DEF TypeOK
  <1>3. mP' = mP
    BY <1>1 DEF senderVars
  <1>4. SenderInv' /\ SendSent' = SendSent /\ SendGot' = SendGot
    BY <1>0, <1>1, <1>2, SenderStays
  <1>5. RecvSent' = RecvSent /\ RecvGot' = RecvGot
    <2>1. Mal' = Mal /\ Pieces(cBegin)' = Pieces(cBegin)
      BY <1>1, InstFixed DEF Pieces
    <2>2. RecvSent' = RecvSent
      BY <1>1, <1>2, <2>1 DEF RecvSent
    <2>3. RecvGot' = RecvGot
      <3>1. CASE inst.mal
        BY <1>1, <1>2, <2>1, <3>1 DEF RecvGot
      <3>2. CASE ~inst.mal
        <4>1. 1 + 2 * Mal = 1 + Mal
          BY <1>m, <3>2
        <4> QED BY <1>1, <1>2, <2>1, <3>2, <4>1 DEF RecvGot
      <3> QED BY <3>1, <3>2
    <2> QED BY <2>2, <2>3
  <1>6. RecverInv'
    <2>1. /\ cBegin' \in {Cut(0)', Cut(1)', Cut(2)'} /\ cBegin' = inst'.size
          /\ pBegin' = (IF cBegin' = 0 \/ inst'.size <= Chunk THEN 0 ELSE Chunk)
          /\ p' = [i \in Index' |-> IF i < cBegin' THEN Xor(Encoded'[i], VoleC(i)) ELSE Encoded'[i]]
          /\ inst'.mal => Hws' = <<"H", Ws>>
      BY <1>0, <1>1, InstFixed DEF RecverInv
    <2>2. \A x : a(x)' = a(x)
      BY <1>1, InstFixed DEF decode
    <2>3. CASE inst.mal
      <3>1. pc'["R"] = "ws"
        BY <1>2, <2>3
      <3>2. outputs' = [x \in inst'.values |-> a(x)']
        BY <1>1, <2>2, <2>3
      <3> QED BY <2>1, <3>1, <3>2 DEF RecverInv
    <2>4. CASE ~inst.mal
      <3>1. pc'["R"] = "P"
        BY <1>2, <2>4
      <3>2. \A x : RecvOprf(x) = Prf(a(x), Zero, x)
        BY <2>4 DEF RecvOprf
      <3>3. outputs' = [x \in inst'.values |-> RecvOprf(x)']
        BY <1>1, <2>4, <3>2, InstFixed
      <3> QED BY <2>1, <3>1, <3>3 DEF RecverInv
    <2> QED BY <2>3, <2>4
  <1>7. ToS' /\ ToR'
    BY <1>1, <1>3, <1>4, <1>5, ToSSteps, ToRSteps
  <1> QED
    BY <1>0, <1>1, <1>2, <1>4, <1>6, <1>7 DEF ChunkInv, SocketInv, ToS, ToR

\* The sender opens its commitment, and to the share it committed to.
LEMMA R_WsKeeps ==
  ASSUME ChunkInv, R_Ws
  PROVE  ChunkInv'
  <1>0. TypeOK /\ SenderInv /\ RecverInv /\ fail = ""
    BY Parts
  <1>m. Mal \in {0, 1} /\ (inst.mal <=> Mal = 1)
    BY Parts
  <1> DEFINE ws == Head(toR).body
  <1>1. /\ inst' = inst /\ pc' = [pc EXCEPT !["R"] = "P"] /\ pc["R"] = "ws"
        /\ toR # <<>> /\ toR' = Tail(toR) /\ toS' = toS
        /\ fail' = (IF Hws = <<"H", ws>> THEN "" ELSE "commitment")
        /\ outputs' = [x \in inst.values |-> Prf(outputs[x], Xor(ws, Wr), x)]
        /\ UNCHANGED <<senderVars, p, pBegin, cBegin, Hws>>
    BY DEF R_Ws, Goto
  <1>2. TypeOK' /\ pc'["S"] = pc["S"] /\ pc'["R"] = "P"
    BY <1>0, <1>1 DEF TypeOK
  <1>3. mP' = mP
    BY <1>1 DEF senderVars
  <1>4. SenderInv' /\ SendSent' = SendSent /\ SendGot' = SendGot
    BY <1>0, <1>1, <1>2, SenderStays
  <1>5. inst.mal
    BY <1>0, <1>1 DEF TypeOK
  <1>6. Mal = 1 /\ Mal' = 1
    BY <1>1, <1>m, <1>5, InstFixed
  <1>7. RecvSent' = RecvSent /\ RecvGot = 2 /\ RecvGot' = 3
    <2>1. Pieces(cBegin)' = Pieces(cBegin)
      BY <1>1 DEF Pieces
    <2>2. RecvSent' = RecvSent
      BY <1>1, <1>2, <1>6, <2>1 DEF RecvSent
    <2>3. RecvGot = 1 + Mal /\ RecvGot' = 1 + 2 * Mal'
      BY <1>1, <1>2 DEF RecvGot
    <2>4. 1 + Mal = 2 /\ 1 + 2 * Mal' = 3
      BY <1>6
    <2> QED BY <2>2, <2>3, <2>4
  <1>8. ws = Ws
    <2>1. Head(toR) = SendScript[2 + 1]
      BY <1>1, <1>7, ToRSteps
    <2>2. SendScript[3] = Msg("ws", Ws)
      BY <1>5, Scripts
    <2>3. Msg("ws", Ws).body = Ws
      BY DEF Msg
    <2> QED BY <2>1, <2>2, <2>3
  <1> HIDE DEF ws
  <1>9. fail' = ""
    BY <1>0, <1>1, <1>5, <1>8 DEF RecverInv
  <1>10. RecverInv'
    <2>1. /\ cBegin' \in {Cut(0)', Cut(1)', Cut(2)'} /\ cBegin' = inst'.size
          /\ pBegin' = (IF cBegin' = 0 \/ inst'.size <= Chunk THEN 0 ELSE Chunk)
          /\ p' = [i \in Index' |-> IF i < cBegin' THEN Xor(Encoded'[i], VoleC(i)) ELSE Encoded'[i]]
          /\ inst'.mal => Hws' = <<"H", Ws>>
      BY <1>0, <1>1, InstFixed DEF RecverInv
    <2>2. outputs = [x \in inst.values |-> decode([i \in Index |-> VoleA(i)], x)]
      BY <1>0, <1>1 DEF RecverInv
    <2>3. \A x : RecvOprf(x) = Prf(decode([i \in Index |-> VoleA(i)], x), Xor(Ws, Wr), x)
      BY <1>5 DEF RecvOprf
    <2>4. outputs' = [x \in inst.values |-> RecvOprf(x)]
      BY <1>1, <1>8, <2>2, <2>3
    <2>5. outputs' = [x \in inst'.values |-> RecvOprf(x)']
      BY <1>1, <2>4, InstFixed
    <2> QED BY <1>2, <2>1, <2>5 DEF RecverInv
  <1>11. ToS' /\ ToR'
    <2>1. RecvGot' = RecvGot + 1
      BY <1>7
    <2> QED BY <1>1, <1>3, <1>4, <1>7, <2>1, ToSSteps, ToRSteps
  <1> QED
    BY <1>2, <1>4, <1>9, <1>10, <1>11 DEF ChunkInv, SocketInv, ToS, ToR

\* The differences are added.
LEMMA R_AddKeeps ==
  ASSUME ChunkInv, R_Add
  PROVE  ChunkInv'
  <1>0. TypeOK /\ SenderInv /\ RecverInv /\ fail = ""
    BY Parts
  <1>m. Mal \in {0, 1}
    BY Parts
  <1> DEFINE P == Head(toR).body
  <1>1. /\ inst' = inst /\ pc' = [pc EXCEPT !["R"] = "done"] /\ pc["R"] = "P"
        /\ toR # <<>> /\ toR' = Tail(toR) /\ toS' = toS
        /\ outputs' = [x \in inst.values |-> Xor(outputs[x], decode(P, x))]
        /\ UNCHANGED <<senderVars, p, pBegin, cBegin, Hws, fail>>
    BY DEF R_Add, Goto
  <1>2. TypeOK' /\ pc'["S"] = pc["S"] /\ pc'["R"] = "done"
    BY <1>0, <1>1 DEF TypeOK
  <1>3. mP' = mP
    BY <1>1 DEF senderVars
  <1>4. SenderInv' /\ SendSent' = SendSent /\ SendGot' = SendGot
    BY <1>0, <1>1, <1>2, SenderStays
  <1>5. RecvSent' = RecvSent /\ RecvGot = 1 + 2 * Mal /\ RecvGot' = 2 + 2 * Mal
    <2>1. Pieces(cBegin)' = Pieces(cBegin) /\ Mal' = Mal
      BY <1>1, InstFixed DEF Pieces
    <2>2. RecvSent' = RecvSent
      BY <1>1, <1>2, <2>1 DEF RecvSent
    <2>3. RecvGot = 1 + 2 * Mal /\ RecvGot' = 2 + 2 * Mal
      BY <1>1, <1>2, <2>1 DEF RecvGot
    <2> QED BY <2>2, <2>3
  <1>6. RecvGot + 1 = 2 + 2 * Mal /\ RecvGot' = RecvGot + 1
    BY <1>m, <1>5
  <1>7. P = mP
    <2>1. Head(toR) = SendScript[2 + 2 * Mal]
      BY <1>1, <1>6, ToRSteps
    <2>2. SendScript[2 + 2 * Mal] = Msg("P", mP)
      BY Scripts
    <2>3. Msg("P", mP).body = mP
      BY DEF Msg
    <2> QED BY <2>1, <2>2, <2>3
  <1> HIDE DEF P
  <1>8. RecverInv'
    <2>1. /\ cBegin' \in {Cut(0)', Cut(1)', Cut(2)'} /\ cBegin' = inst'.size
          /\ pBegin' = (IF cBegin' = 0 \/ inst'.size <= Chunk THEN 0 ELSE Chunk)
          /\ p' = [i \in Index' |-> IF i < cBegin' THEN Xor(Encoded'[i], VoleC(i)) ELSE Encoded'[i]]
          /\ inst'.mal => Hws' = <<"H", Ws>>
      BY <1>0, <1>1, InstFixed DEF RecverInv
    <2>2. outputs = [x \in inst.values |-> RecvOprf(x)]
      BY <1>0, <1>1 DEF RecverInv
    <2>3. outputs' = [x \in inst.values |-> Xor(RecvOprf(x), decode(mP, x))]
      BY <1>1, <1>7, <2>2
    <2>4. \A x : decode(mP, x)' = decode(mP, x)
      BY <1>1, <1>3, InstFixed DEF decode
    <2>5. outputs' = [x \in inst'.values |-> Xor(RecvOprf(x)', decode(mP, x)')]
      BY <1>1, <2>3, <2>4, InstFixed
    <2> QED BY <1>2, <2>1, <2>5 DEF RecverInv
  <1>9. ToS' /\ ToR'
    BY <1>1, <1>3, <1>4, <1>5, <1>6, ToSSteps, ToRSteps
  <1> QED
    BY <1>0, <1>1, <1>2, <1>4, <1>8, <1>9 DEF ChunkInv, SocketInv, ToS, ToR

-----------------------------------------------------------------------------
(* The theorems. *)

\* A step that changes nothing but the VOLE's flag.
LEMMA OthersKeep ==
  ASSUME ChunkInv, GenVole \/ UNCHANGED vars
  PROVE  ChunkInv'
  <1>0. TypeOK /\ SenderInv /\ RecverInv /\ fail = ""
    BY Parts
  <1>1. UNCHANGED <<inst, pc, toS, toR, senderVars, recverVars, fail>>
    BY DEF GenVole, vars
  <1>2. TypeOK'
    BY <1>0, <1>1 DEF TypeOK
  <1>3. mP' = mP
    BY <1>1 DEF senderVars
  <1>4. SenderInv' /\ SendSent' = SendSent /\ SendGot' = SendGot
    BY <1>0, <1>1, SenderStays
  <1>5. RecverInv' /\ RecvSent' = RecvSent /\ RecvGot' = RecvGot
    BY <1>0, <1>1, <1>3, RecverStays
  <1>6. ToS' /\ ToR'
    BY <1>1, <1>3, <1>4, <1>5, ToSSteps, ToRSteps
  <1> QED
    BY <1>0, <1>1, <1>2, <1>4, <1>5, <1>6 DEF ChunkInv, SocketInv, ToS, ToR

\* In every execution, however the coroutines interleave and however the
\* vector is cut into pieces, each read finds the message it waits for and of
\* the size it expects, the masks cancel, the commitment opens, and no party
\* throws (RsOprfSender::send, RsOprfReceiver::receive, RsOpprfSender::send,
\* RsOpprfReceiver::receive).
THEOREM OprfChunks == Spec => []ChunkInv
  <1>1. ChunkInv /\ [Next]_vars => ChunkInv'
    <2> SUFFICES ASSUME ChunkInv, [Next]_vars PROVE ChunkInv'
      OBVIOUS
    <2>1. CASE SendSteps
      BY <2>1, S_StartKeeps, S_SeedKeeps, S_VoleKeeps, S_WrKeeps, S_ChunkKeeps, S_ProgramKeeps
         DEF SendSteps
    <2>2. CASE RecvSteps
      BY <2>2, R_StartKeeps, R_HwsKeeps, R_SolveKeeps, R_VoleKeeps, R_ChunkKeeps, R_DecodeKeeps,
         R_WsKeeps, R_AddKeeps
         DEF RecvSteps
    <2>3. CASE GenVole \/ Terminated \/ UNCHANGED vars
      BY <2>3, OthersKeep DEF Terminated
    <2> QED BY <2>1, <2>2, <2>3 DEF Next
  <1> QED BY <1>1, InitChunkInv, PTL DEF Spec

\* The receiver's OPRF value of a query is the sender's.
LEMMA SameOprf ==
  ASSUME ChunkInv, pc["S"] = "done", NEW x \in inst.values
  PROVE  Eval(x) = RecvOprf(x)
  <1>0. TypeOK /\ SenderInv
    BY Parts
  <1>1. pos = inst.size /\ inst.size \in Nat /\ x \in Index /\ LastCol \in Index /\ LastCol \notin inst.values
    BY <1>0, InstanceFacts DEF SenderInv
  <1>2. \A i \in Index : i < pos
    BY <1>1 DEF Index
  <1>3. \A i \in Index : B[i] = Xor(VoleA(i), TimesD(Encoded[i]))
    BY <1>0, <1>2 DEF SenderInv
  <1> DEFINE a == VoleA(x)
             b == VoleA(LastCol)
             h == TimesD(HashOf(x))
  <1>4. B[x] = Xor(a, h)
    BY <1>0, <1>1, <1>3, EncodedIs
  <1>5. B[LastCol] = b
    <2>1. B[LastCol] = Xor(b, Zero)
      BY <1>0, <1>1, <1>3, EncodedIs, Symbols
    <2> QED BY <2>1, XorLaws DEF Zero
  <1>6. decode(B, x) = Xor(Xor(a, h), b)
    BY <1>4, <1>5 DEF decode
  <1>7. decode([i \in Index |-> VoleA(i)], x) = Xor(a, b)
    BY <1>1 DEF decode
  <1> HIDE DEF a, b, h
  <1>8. Xor(Xor(Xor(a, h), b), h) = Xor(a, b)
    BY XorIsDifference
  <1>9. Eval(x) = Prf(Xor(a, b), mW, x)
    BY <1>6, <1>8 DEF Eval, h
  <1>10. RecvOprf(x) = Prf(Xor(a, b), IF inst.mal THEN Xor(Ws, Wr) ELSE Zero, x)
    BY <1>7 DEF RecvOprf
  <1>11. mW = IF inst.mal THEN Xor(Wr, Ws) ELSE Zero
    BY <1>0 DEF SenderInv
  <1>12. Xor(Wr, Ws) = Xor(Ws, Wr)
    BY XorLaws
  <1> QED BY <1>9, <1>10, <1>11, <1>12

\* Symbols that are not the same.
LEMMA DistinctSymbols ==
  /\ \A s, t : ({s} \in Sym(t) <=> s = t) /\ (Sym(s) = Sym(t) <=> s = t)
  /\ \A a, b : (<<"val", a>> = <<"val", b>> <=> a = b) /\ (<<"rand", a>> = <<"rand", b>> <=> a = b)
  /\ \A a, b, c : <<"rand", a>> # <<"val", b>> /\ <<"rand", a>> # <<"F", b>> /\ <<"rand", a>> # <<"F", b, c>>
  <1>1. \A s, t : {s} \in Sym(t) <=> s = t
    BY DEF Sym
  <1>2. ASSUME NEW s, NEW t, Sym(s) = Sym(t) PROVE s = t
    <2>1. {s} \in Sym(s)
      BY DEF Sym
    <2> QED BY <1>1, <1>2, <2>1
  <1>3. ASSUME NEW k, NEW a, NEW b, <<k, a>> = <<k, b>> PROVE a = b
    <2>1. <<k, a>>[2] = a /\ <<k, b>>[2] = b
      OBVIOUS
    <2> QED BY <1>3, <2>1
  <1>4. \A a, b, c : /\ <<"rand", a>>[1] = "rand" /\ <<"val", b>>[1] = "val"
                    /\ <<"F", b>>[1] = "F" /\ <<"F", b, c>>[1] = "F"
    OBVIOUS
  <1>5. "rand" # "val" /\ "rand" # "F"
    OBVIOUS
  <1> QED BY <1>1, <1>2, <1>3, <1>4, <1>5

\* What the second OKVS decodes to: the difference for a programmed key, and
\* for another one a sum in which the draw of its own column is left.
LEMMA Programmed ==
  ASSUME ChunkInv, pc["S"] = "done", NEW x \in Key(inst)
  PROVE  /\ x \in inst.X => decode(mP, x) = Xor(Val(x), Eval(x))
         /\ x \notin inst.X => {<<"rand", x>>} \in decode(mP, x)
  <1>0. TypeOK /\ SenderInv
    BY Parts
  <1>1. /\ inst.size \in Nat /\ inst.size >= 2 /\ LastCol \in Index /\ LastCol \notin inst.X
        /\ inst.X \subseteq Index
    BY <1>0, InstanceFacts
  <1>2. x \in Index /\ x # LastCol
    BY <1>1 DEF Key, Index, LastCol
  <1> DEFINE r(c) == Sym(<<"rand", c>>)
             f == [y \in inst.X |-> Xor(Val(y), Eval(y))]
  <1>3. mP = solve(f, [c \in Index |-> r(c)])
    BY <1>0 DEF SenderInv
  <1>4. /\ \A c \in Index : mP[c] = IF c \in inst.X THEN Xor(f[c], r(LastCol)) ELSE r(c)
    BY <1>1, <1>3 DEF solve
  <1>5. mP[LastCol] = r(LastCol)
    BY <1>1, <1>4
  <1>6. ASSUME x \in inst.X PROVE decode(mP, x) = Xor(Val(x), Eval(x))
    <2>1. mP[x] = Xor(f[x], r(LastCol)) /\ f[x] = Xor(Val(x), Eval(x))
      BY <1>2, <1>4, <1>6
    <2>2. decode(mP, x) = Xor(Xor(f[x], r(LastCol)), r(LastCol))
      BY <1>5, <2>1 DEF decode
    <2> HIDE DEF f, r
    <2> QED BY <2>1, <2>2, XorLaws
  <1>7. ASSUME x \notin inst.X PROVE {<<"rand", x>>} \in decode(mP, x)
    <2>1. decode(mP, x) = Xor(r(x), r(LastCol))
      BY <1>2, <1>4, <1>5, <1>7 DEF decode
    <2>2. {<<"rand", x>>} \in r(x) /\ {<<"rand", x>>} \notin r(LastCol)
      BY <1>2, DistinctSymbols
    <2> HIDE DEF r
    <2> QED BY <2>1, <2>2, XorIsDifference
  <1> QED BY <1>6, <1>7

\* Both parties compute the same function of every query, and exactly the
\* programmed keys lead to the programmed values.
LEMMA FinishedAgrees == ChunkInv => OutputsAgree
  <1> SUFFICES ASSUME ChunkInv, Finished, NEW x \in inst.values
               PROVE  /\ outputs[x] = OpprfEval(x)
                      /\ \A y \in inst.X : outputs[x] = Val(y) <=> x = y
    BY DEF OutputsAgree
  <1>0. TypeOK /\ RecverInv /\ pc["S"] = "done" /\ pc["R"] = "done"
    BY Parts DEF Finished
  <1>1. x \in Key(inst)
    BY <1>0, InstanceFacts DEF Key
  <1>2. outputs[x] = Xor(RecvOprf(x), decode(mP, x))
    BY <1>0 DEF RecverInv
  <1>3. Eval(x) = RecvOprf(x)
    BY <1>0, SameOprf
  <1>4. outputs[x] = OpprfEval(x)
    <2>1. Xor(RecvOprf(x), decode(mP, x)) = Xor(decode(mP, x), RecvOprf(x))
      BY XorLaws
    <2> QED BY <1>2, <1>3, <2>1 DEF OpprfEval
  <1>5. ASSUME NEW y \in inst.X PROVE outputs[x] = Val(y) <=> x = y
    <2>1. CASE x \in inst.X
      <3>1. decode(mP, x) = Xor(Val(x), Eval(x))
        BY <1>0, <1>1, <2>1, Programmed
      <3> DEFINE v == Val(x)
                 e == Eval(x)
      <3>2. outputs[x] = Xor(e, Xor(v, e))
        BY <1>2, <1>3, <3>1
      <3> HIDE DEF v, e
      <3>3. Xor(e, Xor(v, e)) = v
        BY XorIsDifference
      <3>4. outputs[x] = Val(x)
        BY <3>2, <3>3 DEF v
      <3>5. Val(x) = Val(y) <=> x = y
        BY DistinctSymbols DEF Val
      <3> QED BY <3>4, <3>5
    <2>2. CASE x \notin inst.X
      <3> DEFINE m == {<<"rand", x>>}
      <3>1. m \in decode(mP, x)
        BY <1>0, <1>1, <2>2, Programmed
      <3>2. m \notin RecvOprf(x)
        <4>1. \A v, w : m \notin Prf(v, w, x)
          <5>1. ASSUME NEW v, NEW w PROVE m \notin Sym(<<"F", w, x>>) /\ m \notin Sym(<<"F", v>>)
            <6>1. <<"rand", x>> # <<"F", v>> /\ <<"rand", x>> # <<"F", w, x>>
              BY DistinctSymbols
            <6> DEFINE t == <<"rand", x>>
                       f == <<"F", v>>
                       g == <<"F", w, x>>
            <6> HIDE DEF t, f, g
            <6>2. t # f /\ t # g
              BY <6>1 DEF t, f, g
            <6>3. \A a, b : {a} \in Sym(b) <=> a = b
              BY DistinctSymbols
            <6>4. {t} \notin Sym(g) /\ {t} \notin Sym(f)
              BY <6>2, <6>3
            <6> QED BY <6>4 DEF t, f, g
          <5> HIDE DEF m
          <5> QED BY <5>1 DEF Prf
        <4> QED BY <4>1 DEF RecvOprf
      <3>3. m \notin Val(y)
        <4>1. <<"rand", x>> # <<"val", y>>
          BY DistinctSymbols
        <4>2. m \notin Sym(<<"val", y>>)
          BY <4>1, DistinctSymbols
        <4> QED BY <4>2 DEF Val
      <3> HIDE DEF m
      <3>4. m \in outputs[x]
        BY <1>2, <3>1, <3>2, XorIsDifference
      <3> QED BY <2>2, <3>3, <3>4
    <2> QED BY <2>1, <2>2
  <1> QED BY <1>4, <1>5

\* When both coroutines have returned, the receiver has for every query what
\* RsOpprfSender::eval would give, and the programmed value exactly where the
\* key is programmed.
THEOREM OprfAgrees == Spec => []OutputsAgree
  BY OprfChunks, FinishedAgrees, PTL
=============================================================================
