--------------------------- MODULE LinfFpsiProofs ---------------------------
(***************************************************************************)
(* Proofs about LinfFpsi for any number of dimensions, points, bins and    *)
(* hash functions, every placement of the balls and every decomposition    *)
(* into prefixes that PrefixDec's runs establish.                          *)
(***************************************************************************)
EXTENDS LinfFpsi, MatchingProofs

-----------------------------------------------------------------------------
(* The first OPPRF. *)

\* Coordinates of the balls of both parties.
LEMMA Coordinates ==
  ASSUME InputInit, NEW d \in Dim
  PROVE  /\ \A i \in BallR : ballsR[i].pt[d] \in Coord /\ ballsR[i].id \in ID
         /\ \A s \in BallS : ballsS[s].pt[d] \in Coord /\ ballsS[s].id \in ID
  BY InputTypes DEF Point

\* The keys of bin b carry its number.
LEMMA KeysOfBin ==
  ASSUME NEW d \in Dim, NEW b \in Bin, NEW q \in BinKeys(d, b)
  PROVE  q.bin = b
  BY DEF BinKeys, Key

\* The keys of an empty bin are not in the list of the receiver.
LEMMA EmptyBinMisses ==
  ASSUME InputInit, NEW d \in Dim, NEW b \in Bin, BallIn(b) = None, NEW q \in BinKeys(d, b)
  PROVE  q \notin ListKeys(d)
  <1>1. q.id = None
    BY DEF BinKeys, Key
  <1>2. \A e \in ListKeys(d) : e.id \in ID
    BY Coordinates DEF ListKeys, Key
  <1> QED
    BY <1>1, <1>2, NoneAssumption

\* A key of the ball in bin b is in the list exactly when a receiver ball
\* with the same identifier has the prefix.
LEMMA BallKeyInList ==
  ASSUME InputInit, NEW d \in Dim, NEW b \in Bin, BallIn(b) # None,
         NEW p \in PointKeys(ballsS[BallIn(b)].pt[d])
  PROVE  Key(p, ballsS[BallIn(b)].id, slot[BallIn(b)], b) \in ListKeys(d) <=>
           \E i \in BallR : ballsR[i].id = ballsS[BallIn(b)].id /\ p \in RangeKeys(ballsR[i].pt[d])
  <1> DEFINE s == BallIn(b)
             q == Key(p, ballsS[s].id, slot[s], b)
  <1>1. s \in BallS /\ Loc(ballsS[s].id, slot[s]) = b /\ slot[s] \in HashIdx
    BY BallsAndBins, InputTypes DEF BinOf
  <1> HIDE DEF s
  <1>2. ASSUME q \in ListKeys(d)
        PROVE  \E i \in BallR : ballsR[i].id = ballsS[s].id /\ p \in RangeKeys(ballsR[i].pt[d])
    <2>1. PICK i \in BallR : \E pp \in RangeKeys(ballsR[i].pt[d]), k \in HashIdx :
            q = Key(pp, ballsR[i].id, k, Loc(ballsR[i].id, k))
      BY <1>2 DEF ListKeys
    <2> QED BY <2>1 DEF Key
  <1>3. ASSUME NEW i \in BallR, ballsR[i].id = ballsS[s].id, p \in RangeKeys(ballsR[i].pt[d])
        PROVE  q \in ListKeys(d)
    <2>1. q = Key(p, ballsR[i].id, slot[s], Loc(ballsR[i].id, slot[s]))
      BY <1>1, <1>3
    <2> QED BY <1>1, <1>3, <2>1 DEF ListKeys
  <1> QED
    BY <1>2, <1>3 DEF s

\* At most one key of a bin is in the list: balls of the receiver have
\* different identifiers, and an interval and a point one common prefix.
LEMMA OneProgrammedKey ==
  ASSUME InputInit, NEW d \in Dim, NEW b \in Bin,
         NEW q \in BinKeys(d, b), NEW r \in BinKeys(d, b),
         q \in ListKeys(d), r \in ListKeys(d)
  PROVE  q = r
  <1> DEFINE s == BallIn(b)
  <1>1. s # None
    BY EmptyBinMisses
  <1>2. s \in BallS
    BY <1>1, BallsAndBins
  <1>3. PICK p \in PointKeys(ballsS[s].pt[d]) : q = Key(p, ballsS[s].id, slot[s], b)
    BY <1>1 DEF BinKeys
  <1>4. PICK t \in PointKeys(ballsS[s].pt[d]) : r = Key(t, ballsS[s].id, slot[s], b)
    BY <1>1 DEF BinKeys
  <1>5. PICK i \in BallR : ballsR[i].id = ballsS[s].id /\ p \in RangeKeys(ballsR[i].pt[d])
    BY <1>1, <1>3, BallKeyInList
  <1>6. PICK h \in BallR : ballsR[h].id = ballsS[s].id /\ t \in RangeKeys(ballsR[h].pt[d])
    BY <1>1, <1>4, BallKeyInList
  <1>7. i = h
    BY <1>5, <1>6, InputTypes
  <1>8. p = t
    BY <1>2, <1>3, <1>4, <1>5, <1>6, <1>7, Coordinates, KeysAssumption
  <1> QED
    BY <1>3, <1>4, <1>8

-----------------------------------------------------------------------------
(* The candidates. *)

\* A candidate of bin b is the receiver's value for the bin, or a PRF value
\* of one of its keys.
LEMMA CandidateForms ==
  ASSUME NEW d \in Dim, NEW b \in Bin, NEW v \in Candidates(d)[b]
  PROVE  \E q \in BinKeys(d, b) :
           /\ v = Opprf1(d, ListKeys(d), q)
           /\ v = IF q \in ListKeys(d) THEN AVal(d, b) ELSE Prf(d, q)
  BY KeysOfBin DEF Candidates, Opprf1

\* a_random of a bin is a candidate of this bin only, and exactly when its
\* ball is close in dimension d to a receiver ball with its identifier.
LEMMA CandidateMatch ==
  ASSUME InputInit, NEW d \in Dim, NEW b \in Bin
  PROVE  /\ AVal(d, b) \in Candidates(d)[b] <=>
              BallIn(b) # None /\ \E i \in BallR : CloseIn(d, i, BallIn(b))
         /\ \A c \in Bin : AVal(d, b) \in Candidates(d)[c] => c = b
  <1>1. ASSUME NEW c \in Bin, AVal(d, b) \in Candidates(d)[c]
        PROVE  c = b /\ \E q \in BinKeys(d, c) : q \in ListKeys(d)
    <2>1. PICK q \in BinKeys(d, c) : AVal(d, b) = IF q \in ListKeys(d) THEN AVal(d, c) ELSE Prf(d, q)
      BY <1>1, CandidateForms
    <2> QED BY <2>1 DEF AVal, Prf
  <1>2. ASSUME AVal(d, b) \in Candidates(d)[b]
        PROVE  BallIn(b) # None /\ \E i \in BallR : CloseIn(d, i, BallIn(b))
    <2>1. PICK q \in BinKeys(d, b) : q \in ListKeys(d)
      BY <1>1, <1>2
    <2>2. BallIn(b) # None
      BY <2>1, EmptyBinMisses
    <2>3. PICK p \in PointKeys(ballsS[BallIn(b)].pt[d]) :
            q = Key(p, ballsS[BallIn(b)].id, slot[BallIn(b)], b)
      BY <2>2 DEF BinKeys
    <2>4. PICK i \in BallR : ballsR[i].id = ballsS[BallIn(b)].id /\ p \in RangeKeys(ballsR[i].pt[d])
      BY <2>1, <2>2, <2>3, BallKeyInList
    <2>5. Near(ballsR[i].pt[d], ballsS[BallIn(b)].pt[d])
      BY <2>2, <2>3, <2>4, BallsAndBins, Coordinates, KeysAssumption
    <2> QED BY <2>2, <2>4, <2>5 DEF CloseIn
  <1>3. ASSUME BallIn(b) # None, NEW i \in BallR, CloseIn(d, i, BallIn(b))
        PROVE  AVal(d, b) \in Candidates(d)[b]
    <2>1. PICK p : p \in RangeKeys(ballsR[i].pt[d]) \cap PointKeys(ballsS[BallIn(b)].pt[d])
      BY <1>3, BallsAndBins, Coordinates, KeysAssumption DEF CloseIn
    <2> DEFINE q == Key(p, ballsS[BallIn(b)].id, slot[BallIn(b)], b)
    <2>2. q \in ListKeys(d)
      BY <1>3, <2>1, BallKeyInList DEF CloseIn
    <2>3. q \in BinKeys(d, b)
      BY <1>3, <2>1 DEF BinKeys
    <2>4. Opprf1(d, ListKeys(d), q) = AVal(d, b)
      BY <2>2 DEF Opprf1, Key
    <2> QED BY <2>3, <2>4 DEF Candidates
  <1> QED
    BY <1>1, <1>2, <1>3

\* The second OPPRF gives r_vals of the bin exactly for a candidate of it.
LEMMA SecondOpprf ==
  ASSUME InputInit, NEW d \in Dim, NEW b \in Bin
  PROVE  Opprf2(d, Candidates(d), AVal(d, b)) = RVal(d, b) <=> AVal(d, b) \in Candidates(d)[b]
  <1>1. CASE \E c \in Bin : AVal(d, b) \in Candidates(d)[c]
    <2>1. (CHOOSE c \in Bin : AVal(d, b) \in Candidates(d)[c]) = b /\ AVal(d, b) \in Candidates(d)[b]
      BY <1>1, CandidateMatch
    <2> QED BY <1>1, <2>1 DEF Opprf2
  <1>2. CASE ~\E c \in Bin : AVal(d, b) \in Candidates(d)[c]
    BY <1>2 DEF Opprf2, Prf, RVal
  <1> QED BY <1>1, <1>2

\* Candidates of different bins differ.
LEMMA BinsDisjoint ==
  ASSUME NEW d \in Dim, NEW b \in Bin, NEW c \in Bin, b # c
  PROVE  Candidates(d)[b] \cap Candidates(d)[c] = {}
  <1> SUFFICES ASSUME NEW v \in Candidates(d)[b], v \in Candidates(d)[c] PROVE FALSE
    OBVIOUS
  <1>1. PICK q \in BinKeys(d, b) : v = IF q \in ListKeys(d) THEN AVal(d, b) ELSE Prf(d, q)
    BY CandidateForms
  <1>2. PICK r \in BinKeys(d, c) : v = IF r \in ListKeys(d) THEN AVal(d, c) ELSE Prf(d, r)
    BY CandidateForms
  <1>3. q.bin = b /\ r.bin = c
    BY KeysOfBin
  <1> QED
    BY <1>1, <1>2, <1>3 DEF AVal, Prf

-----------------------------------------------------------------------------
(* Sizes. *)

\* Every bin has PrefixSize keys, holding a ball or not.
LEMMA BinKeysCount ==
  ASSUME InputInit, NEW d \in Dim, NEW b \in Bin
  PROVE  IsFiniteSet(BinKeys(d, b)) /\ Cardinality(BinKeys(d, b)) = PrefixSize
  <1>1. CASE BallIn(b) = None
    <2> DEFINE f == [j \in 1 .. PrefixSize |-> Key(j, None, None, b)]
    <2>1. f \in Bijection(1 .. PrefixSize, BinKeys(d, b))
      BY <1>1 DEF BinKeys, Key, Bijection, Injection, Surjection, IsInjective
    <2>2. IsFiniteSet(1 .. PrefixSize) /\ Cardinality(1 .. PrefixSize) = PrefixSize
      BY PrefixAssumption, FS_Interval
    <2> QED BY <2>1, <2>2, FS_Bijection DEF ExistsBijection
  <1>2. CASE BallIn(b) # None
    <2> DEFINE s == BallIn(b)
               P == PointKeys(ballsS[s].pt[d])
               f == [p \in P |-> Key(p, ballsS[s].id, slot[s], b)]
    <2>1. f \in Bijection(P, BinKeys(d, b))
      BY <1>2 DEF BinKeys, Key, Bijection, Injection, Surjection, IsInjective
    <2>2. IsFiniteSet(P) /\ Cardinality(P) = PrefixSize
      BY <1>2, BallsAndBins, Coordinates, PrefixAssumption
    <2> QED BY <2>1, <2>2, FS_Bijection DEF ExistsBijection
  <1> QED BY <1>1, <1>2

\* The answers for the keys of a bin are all different.
LEMMA CandidatesCount ==
  ASSUME InputInit, NEW d \in Dim, NEW b \in Bin
  PROVE  Cardinality(Candidates(d)[b]) = PrefixSize
  <1> DEFINE K == BinKeys(d, b)
             f == [q \in K |-> Opprf1(d, ListKeys(d), q)]
  <1>1. \A q, r \in K : f[q] = f[r] => q = r
    <2> SUFFICES ASSUME NEW q \in K, NEW r \in K, f[q] = f[r] PROVE q = r
      OBVIOUS
    <2>1. /\ f[q] = IF q \in ListKeys(d) THEN AVal(d, q.bin) ELSE Prf(d, q)
          /\ f[r] = IF r \in ListKeys(d) THEN AVal(d, r.bin) ELSE Prf(d, r)
      BY DEF Opprf1
    <2>2. q \in ListKeys(d) /\ r \in ListKeys(d) => q = r
      BY OneProgrammedKey
    <2>3. \A v, w, z : /\ <<"a", d, v>> # <<"f", d, w>>
                       /\ <<"f", d, w>> = <<"f", d, z>> => w = z
      OBVIOUS
    <2> HIDE DEF K, f
    <2>4. CASE q \in ListKeys(d)
      BY <2>1, <2>2, <2>3, <2>4 DEF AVal, Prf
    <2>5. CASE q \notin ListKeys(d)
      BY <2>1, <2>2, <2>3, <2>5 DEF AVal, Prf
    <2> QED BY <2>4, <2>5
  <1>2. Candidates(d)[b] = {f[q] : q \in K}
    BY DEF Candidates
  <1> HIDE DEF K
  <1>3. f \in Bijection(K, Candidates(d)[b])
    BY <1>1, <1>2 DEF Bijection, Injection, Surjection, IsInjective
  <1> QED
    BY <1>3, BinKeysCount, FS_Bijection DEF ExistsBijection, K

\* getList fits into opprf_size: padding_keys fills it up to that size.
LEMMA ListFits ==
  ASSUME InputInit, NEW d \in Dim
  PROVE  ListSize(d) = OpprfSize
  <1> DEFINE R(i) == RangeKeys(ballsR[i].pt[d])
             Enum(i) == CHOOSE f : f \in Bijection(1 .. Cardinality(R(i)), R(i))
             Y == ((1 .. PrefixCount) \X BallR) \X HashIdx
             Z == {y \in Y : y[1][1] <= Cardinality(R(y[1][2]))}
             g == [y \in Z |-> Key(Enum(y[1][2])[y[1][1]], ballsR[y[1][2]].id, y[2],
                                   Loc(ballsR[y[1][2]].id, y[2]))]
  <1>1. \A i \in BallR : /\ Cardinality(R(i)) \in Nat /\ Cardinality(R(i)) <= PrefixCount
                         /\ Enum(i) \in Bijection(1 .. Cardinality(R(i)), R(i))
    <2> SUFFICES ASSUME NEW i \in BallR
                 PROVE  /\ Cardinality(R(i)) \in Nat /\ Cardinality(R(i)) <= PrefixCount
                        /\ Enum(i) \in Bijection(1 .. Cardinality(R(i)), R(i))
      OBVIOUS
    <2>1. IsFiniteSet(R(i)) /\ Cardinality(R(i)) <= PrefixCount
      BY Coordinates, PrefixAssumption
    <2>2. Cardinality(R(i)) \in Nat /\ Bijection(1 .. Cardinality(R(i)), R(i)) # {}
      BY <2>1, FS_CardinalityType DEF ExistsBijection
    <2> QED BY <2>1, <2>2
  <1>2. PrefixCount \in Nat /\ IsFiniteSet(1 .. PrefixCount) /\ Cardinality(1 .. PrefixCount) = PrefixCount
    BY PrefixAssumption, FS_Interval
  <1>3. IsFiniteSet(Y) /\ Cardinality(Y) = OpprfSize
    <2> DEFINE X == (1 .. PrefixCount) \X BallR
    <2>1. IsFiniteSet(X) /\ Cardinality(X) = PrefixCount * Cardinality(BallR)
      BY <1>2, FiniteAssumption, FS_Product
    <2> HIDE DEF X
    <2>2. IsFiniteSet(X \X HashIdx) /\ Cardinality(X \X HashIdx) = Cardinality(X) * Cardinality(HashIdx)
      BY <2>1, FiniteAssumption, FS_Product
    <2> QED BY <2>1, <2>2 DEF OpprfSize, X
  <1>4. IsFiniteSet(Z) /\ Cardinality(Z) <= OpprfSize
    BY <1>3, FS_Subset
  <1>5. g \in Surjection(Z, ListKeys(d))
    <2>1. ASSUME NEW y \in Z PROVE g[y] \in ListKeys(d)
      <3> DEFINE i == y[1][2]
      <3>1. i \in BallR /\ y[2] \in HashIdx /\ y[1][1] \in 1 .. Cardinality(R(i))
        BY <1>1, <1>2
      <3>2. Enum(i)[y[1][1]] \in R(i)
        BY <1>1, <3>1 DEF Bijection, Injection
      <3>3. g[y] = Key(Enum(i)[y[1][1]], ballsR[i].id, y[2], Loc(ballsR[i].id, y[2]))
        OBVIOUS
      <3> HIDE DEF Z, g, Enum
      <3> QED BY <3>1, <3>2, <3>3 DEF ListKeys
    <2>2. ASSUME NEW q \in ListKeys(d) PROVE \E y \in Z : g[y] = q
      <3>1. PICK i \in BallR : \E p \in R(i), k \in HashIdx : q = Key(p, ballsR[i].id, k, Loc(ballsR[i].id, k))
        BY <2>2 DEF ListKeys
      <3>2. PICK p \in R(i), k \in HashIdx : q = Key(p, ballsR[i].id, k, Loc(ballsR[i].id, k))
        BY <3>1
      <3>3. PICK m \in 1 .. Cardinality(R(i)) : Enum(i)[m] = p
        BY <1>1, <3>2 DEF Bijection, Surjection
      <3> DEFINE y == <<<<m, i>>, k>>
      <3> HIDE DEF Enum, R
      <3>4. m \in 1 .. PrefixCount /\ m <= Cardinality(R(i))
        <4>1. Cardinality(R(i)) \in Nat /\ Cardinality(R(i)) <= PrefixCount
          BY <1>1
        <4> QED BY <4>1, <1>2
      <3>5. y \in Z
        BY <3>2, <3>4
      <3>6. g[y] = q
        BY <3>2, <3>3, <3>5
      <3> QED BY <3>5, <3>6
    <2> HIDE DEF Z
    <2> QED BY <2>1, <2>2 DEF Surjection
  <1>6. IsFiniteSet(ListKeys(d)) /\ Cardinality(ListKeys(d)) <= Cardinality(Z)
    <2> DEFINE K == ListKeys(d)
    <2>1. IsFiniteSet(Z) /\ g \in Surjection(Z, K)
      BY <1>4, <1>5
    <2> HIDE DEF Z, g, K
    <2>2. IsFiniteSet(K) /\ Cardinality(K) <= Cardinality(Z)
      BY <2>1, FS_Surjection
    <2> QED BY <2>2 DEF K
  <1>7. Cardinality(ListKeys(d)) \in Nat /\ Cardinality(Z) \in Nat /\ OpprfSize \in Nat
    BY <1>3, <1>4, <1>6, FS_CardinalityType
  <1>8. ~(OpprfSize < Cardinality(ListKeys(d)))
    BY <1>4, <1>6, <1>7
  <1> QED
    BY <1>7, <1>8 DEF ListSize

-----------------------------------------------------------------------------
(* The inductive invariant. *)

\* The inputs never change, the threads and the main threads stay in step,
\* and two match bits share the match.  The rest follows.
IndInv == InputInit /\ TypeOK /\ ThreadInv /\ MainInv /\ SharedMatch

\* What is computed from the inputs alone does not change.
LEMMA InputsFixed ==
  ASSUME InputInit, UNCHANGED inputs
  PROVE  /\ InputInit'
         /\ \A b \in Bin : BallIn(b)' = BallIn(b)
         /\ \A d \in Dim : ListKeys(d)' = ListKeys(d) /\ Candidates(d)' = Candidates(d)
         /\ \A s \in BallS : Match(s)' = Match(s)
  <1>1. InputInit'
    BY DEF InputInit, inputs
  <1>2. \A b \in Bin : BallIn(b)' = BallIn(b)
    BY DEF BallIn, Loc, inputs
  <1>3. \A d \in Dim : ListKeys(d)' = ListKeys(d)
    BY DEF ListKeys, Loc, inputs
  <1>4. \A d \in Dim : Candidates(d)' = Candidates(d)
    BY <1>2, <1>3 DEF Candidates, BinKeys, inputs
  <1>5. \A s \in BallS : Match(s)' = Match(s)
    BY DEF Match, CloseIn, inputs
  <1> QED
    BY <1>1, <1>2, <1>3, <1>4, <1>5

LEMMA InitIndInv == Init => IndInv
  <1> SUFFICES ASSUME Init PROVE IndInv
    OBVIOUS
  <1>1. InputInit
    BY DEF Init
  <1>2. TypeOK
    BY DEF Init, TypeOK
  <1>3. ThreadInv
    BY DEF Init, ThreadInv, ThreadPhase, ThreadState
  <1>4. MainInv
    BY DEF Init, MainInv
  <1>5. SharedMatch
    BY DEF Init, SharedMatch
  <1> QED
    BY <1>1, <1>2, <1>3, <1>4, <1>5 DEF IndInv

\* Before the threads of dimension d are done the main threads of their
\* parties wait, and the other main thread has not gone past the test.
LEMMA MainWaits ==
  ASSUME IndInv, NEW d \in Dim
  PROVE  /\ tR[d] # "done" => mR = "join" /\ mS \in {"join", "peqt"}
         /\ tS[d] # "done" => mR = "join" /\ mS = "join"
  <1>1. tS[d] # "done" => tR[d] # "done"
    BY DEF IndInv, ThreadInv, ThreadPhase, ThreadState
  <1> QED
    BY <1>1 DEF IndInv, MainInv

\* Thread d of a party does something on its own socket.
ThreadFrame(d) ==
  /\ UNCHANGED <<inputs, mR, mS, eeR, eeS, found>>
  /\ \A e \in Dim \ {d} :
       /\ tR'[e] = tR[e] /\ tS'[e] = tS[e] /\ toS'[e] = toS[e] /\ toR'[e] = toR[e]
       /\ otherR'[e] = otherR[e] /\ otherS'[e] = otherS[e] /\ u'[e] = u[e] /\ rr'[e] = rr[e]

\* Such a step leaves the other dimensions and, before the join, the main
\* threads in order.
LEMMA ThreadStep ==
  ASSUME IndInv, NEW d \in Dim, ThreadFrame(d), TypeOK',
         ThreadPhase(d)',
         tS'[d] # "keys" => otherS'[d] = OpprfSize,
         tR'[d] \notin {"list", "size"} => otherR'[d] = KeysSize,
         tS'[d] \in {"program", "done"} => u'[d] = Candidates(d),
         tR'[d] = "done" => /\ rr'[d] = [b \in Bin |-> Opprf2(d, Candidates(d), AVal(d, b))]
                            /\ toS'[d] = <<>> /\ toR'[d] = <<>>,
         mR = "join", mS # "join" => tS'[d] = "done"
  PROVE  IndInv'
  <1>0. UNCHANGED inputs /\ mR' = mR /\ mS' = mS
    BY DEF ThreadFrame
  <1>1. ThreadInv'
    <2>1. ASSUME NEW e \in Dim, e # d
          PROVE  /\ ThreadPhase(e)'
                 /\ tS'[e] # "keys" => otherS'[e] = OpprfSize
                 /\ tR'[e] \notin {"list", "size"} => otherR'[e] = KeysSize
                 /\ tS'[e] \in {"program", "done"} => u'[e] = Candidates(e)
                 /\ tR'[e] = "done" => rr'[e] = [b \in Bin |-> Opprf2(e, Candidates(e), AVal(e, b))]
      <3>1. ThreadPhase(e)' <=> ThreadPhase(e)
        BY <1>0, <2>1, InputsFixed DEF IndInv, ThreadFrame, ThreadPhase, ThreadState
      <3> QED
        BY <2>1, <3>1 DEF IndInv, ThreadInv, ThreadFrame
    <2>2. \A e \in Dim : Candidates(e)' = Candidates(e)
      BY <1>0, InputsFixed DEF IndInv
    <2> QED
      BY <2>1, <2>2 DEF ThreadInv
  <1>2. MainInv'
    BY DEF IndInv, MainInv, ThreadFrame, ChoiceSent, HalvesSent
  <1>3. SharedMatch'
    BY <1>0 DEF SharedMatch
  <1> QED
    BY <1>0, <1>1, <1>2, <1>3, InputsFixed DEF IndInv

\* send(opprf_size).
LEMMA R_ListKeeps ==
  ASSUME IndInv, NEW d \in Dim, R_List(d)
  PROVE  IndInv'
  <1> USE DEF IndInv, R_List
  <1>1. TypeOK' /\ ThreadFrame(d)
    BY DEF TypeOK, Send, ThreadFrame
  <1>2. tR[d] = "list" /\ tS[d] = "keys" /\ toS[d] = <<>> /\ toR[d] = <<>>
    BY DEF ThreadInv, ThreadPhase, ThreadState
  <1>3. ThreadState(d, "size", "keys", <<Msg("size", OpprfSize, None)>>, <<>>)'
    BY <1>2, ShortQueues DEF TypeOK, ThreadState, Send
  <1>4. mR = "join" /\ mS = "join"
    BY <1>2, MainWaits
  <1> QED
    BY <1>1, <1>3, <1>4, ThreadStep DEF ThreadPhase, ThreadState

\* recv(opprf_size_other).
LEMMA R_SizeKeeps ==
  ASSUME IndInv, NEW d \in Dim, R_Size(d)
  PROVE  IndInv'
  <1> USE DEF IndInv, R_Size
  <1>1. /\ tS[d] = "eval" /\ toS[d] = <<>> /\ otherS[d] = OpprfSize
        /\ toR[d] = <<Msg("size", KeysSize, None), Msg("request", KeysSize, None)>>
    BY DEF ThreadInv, ThreadPhase, ThreadState, Has
  <1>2. Head(toR[d]).n = KeysSize
    BY <1>1, ShortQueues DEF Msg
  <1>3. KeysSize \in Nat
    BY PrefixAssumption, FiniteAssumption, FS_CardinalityType DEF KeysSize
  <1>4. TypeOK' /\ ThreadFrame(d)
    BY <1>2, <1>3 DEF TypeOK, Pop, ThreadFrame
  <1>5. ThreadState(d, "program", "eval", <<>>, <<Msg("request", KeysSize, None)>>)'
    BY <1>1, ShortQueues DEF TypeOK, ThreadState, Pop
  <1>6. mR = "join" /\ mS = "join"
    BY <1>1, MainWaits
  <1>7. otherR'[d] = KeysSize /\ otherS'[d] = OpprfSize
    BY <1>1, <1>2 DEF TypeOK
  <1> QED
    BY <1>4, <1>5, <1>6, <1>7, ThreadStep DEF ThreadPhase, ThreadState

\* The list is programmed, the own query requested.
LEMMA R_ProgramKeeps ==
  ASSUME IndInv, NEW d \in Dim, R_Program(d)
  PROVE  IndInv'
  <1> USE DEF IndInv, R_Program
  <1>1. /\ tS[d] = "eval" /\ toS[d] = <<>> /\ otherS[d] = OpprfSize /\ otherR[d] = KeysSize
        /\ toR[d] = <<Msg("request", KeysSize, None)>>
    BY DEF ThreadInv, ThreadPhase, ThreadState, Has
  <1>2. ListSize(d) = OpprfSize
    BY ListFits
  <1>3. TypeOK' /\ ThreadFrame(d)
    BY DEF TypeOK, Pop, ThreadFrame
  <1>4. /\ tR'[d] = "query" /\ tS'[d] = "eval" /\ toR'[d] = <<>>
        /\ toS'[d] = <<Msg("answer", OpprfSize, ListKeys(d)), Msg("request", Cardinality(Bin), None)>>
    BY <1>1, <1>2, ShortQueues DEF TypeOK, Pop
  <1>5. ThreadPhase(d)'
    BY <1>3, <1>4, InputsFixed DEF ThreadPhase, ThreadState, ThreadFrame
  <1>6. mR = "join" /\ mS = "join"
    BY <1>1, MainWaits
  <1>7. otherR'[d] = KeysSize /\ otherS'[d] = OpprfSize
    BY <1>1
  <1> QED
    BY <1>3, <1>4, <1>5, <1>6, <1>7, ThreadStep

\* rr_vals[d] arrive.
LEMMA R_QueryKeeps ==
  ASSUME IndInv, NEW d \in Dim, R_Query(d)
  PROVE  IndInv'
  <1> USE DEF IndInv, R_Query
  <1>1. /\ tS[d] = "done" /\ toS[d] = <<>> /\ otherS[d] = OpprfSize /\ otherR[d] = KeysSize
        /\ toR[d] = <<Msg("answer", KeysSize, Candidates(d))>> /\ u[d] = Candidates(d)
    BY DEF ThreadInv, ThreadPhase, ThreadState, Has
  <1>2. Head(toR[d]).body = Candidates(d)
    BY <1>1, ShortQueues DEF Msg
  <1>3. TypeOK' /\ ThreadFrame(d)
    BY DEF TypeOK, Pop, ThreadFrame
  <1>4. /\ tR'[d] = "done" /\ tS'[d] = "done" /\ toR'[d] = <<>> /\ toS'[d] = <<>>
        /\ rr'[d] = [b \in Bin |-> Opprf2(d, Candidates(d), AVal(d, b))]
    BY <1>1, <1>2, ShortQueues DEF TypeOK, Pop
  <1>5. ThreadPhase(d)'
    BY <1>4 DEF ThreadPhase
  <1>6. mR = "join"
    BY MainWaits
  <1>7. otherR'[d] = KeysSize /\ otherS'[d] = OpprfSize /\ u'[d] = Candidates(d)
    BY <1>1
  <1> QED
    BY <1>3, <1>4, <1>5, <1>6, <1>7, ThreadStep

\* The sizes are exchanged, the keys of the bins requested.
LEMMA S_KeysKeeps ==
  ASSUME IndInv, NEW d \in Dim, S_Keys(d)
  PROVE  IndInv'
  <1> USE DEF IndInv, S_Keys
  <1>1. /\ tR[d] = "size" /\ toR[d] = <<>> /\ toS[d] = <<Msg("size", OpprfSize, None)>>
    BY DEF ThreadInv, ThreadPhase, ThreadState, Has
  <1>2. Head(toS[d]).n = OpprfSize
    BY <1>1, ShortQueues DEF Msg
  <1>3. OpprfSize \in Nat
    BY PrefixAssumption, FiniteAssumption, FS_CardinalityType DEF OpprfSize
  <1>4. TypeOK' /\ ThreadFrame(d)
    BY <1>2, <1>3 DEF TypeOK, Pop, ThreadFrame
  <1>5. ThreadState(d, "size", "eval", <<>>,
                    <<Msg("size", KeysSize, None), Msg("request", KeysSize, None)>>)'
    BY <1>1, ShortQueues DEF TypeOK, ThreadState, Pop
  <1>6. mR = "join" /\ mS = "join"
    BY MainWaits
  <1>7. otherS'[d] = OpprfSize
    BY <1>2 DEF TypeOK
  <1> QED
    BY <1>4, <1>5, <1>6, <1>7, ThreadStep DEF ThreadPhase, ThreadState

\* The candidates of every bin arrive.
LEMMA S_EvalKeeps ==
  ASSUME IndInv, NEW d \in Dim, S_Eval(d)
  PROVE  IndInv'
  <1> USE DEF IndInv, S_Eval
  <1>1. /\ tR[d] = "query" /\ toR[d] = <<>> /\ otherS[d] = OpprfSize /\ otherR[d] = KeysSize
        /\ toS[d] = <<Msg("answer", OpprfSize, ListKeys(d)), Msg("request", Cardinality(Bin), None)>>
    BY DEF ThreadInv, ThreadPhase, ThreadState, Has
  <1>2. Head(toS[d]).body = ListKeys(d)
    BY <1>1, ShortQueues DEF Msg
  <1>3. TypeOK' /\ ThreadFrame(d)
    BY DEF TypeOK, Pop, ThreadFrame
  <1>4. ThreadState(d, "query", "program", <<Msg("request", Cardinality(Bin), None)>>, <<>>)'
    BY <1>1, ShortQueues DEF TypeOK, ThreadState, Pop
  <1>5. u'[d] = Candidates(d)
    BY <1>2 DEF TypeOK, Candidates
  <1>6. mR = "join" /\ mS = "join"
    BY MainWaits
  <1>7. otherR'[d] = KeysSize /\ otherS'[d] = OpprfSize
    BY <1>1
  <1> QED
    BY <1>3, <1>4, <1>5, <1>6, <1>7, ThreadStep DEF ThreadPhase, ThreadState

\* The candidates are programmed.
LEMMA S_ProgramKeeps ==
  ASSUME IndInv, NEW d \in Dim, S_Program(d)
  PROVE  IndInv'
  <1> USE DEF IndInv, S_Program
  <1>1. /\ tR[d] = "query" /\ toR[d] = <<>> /\ otherS[d] = OpprfSize /\ otherR[d] = KeysSize
        /\ toS[d] = <<Msg("request", Cardinality(Bin), None)>> /\ u[d] = Candidates(d)
    BY DEF ThreadInv, ThreadPhase, ThreadState, Has
  <1>2. TypeOK' /\ ThreadFrame(d)
    BY DEF TypeOK, Pop, Send, ThreadFrame
  <1>3. /\ tR'[d] = "query" /\ tS'[d] = "done" /\ toS'[d] = <<>>
        /\ toR'[d] = <<Msg("answer", KeysSize, Candidates(d))>>
    BY <1>1, ShortQueues DEF TypeOK, Pop, Send
  <1>4. ThreadPhase(d)'
    BY <1>2, <1>3, InputsFixed DEF ThreadPhase, ThreadState, ThreadFrame
  <1>5. mR = "join" /\ mS = "join"
    BY MainWaits
  <1>6. otherR'[d] = KeysSize /\ otherS'[d] = OpprfSize /\ u'[d] = Candidates(d)
    BY <1>1
  <1> QED
    BY <1>2, <1>3, <1>4, <1>5, <1>6, ThreadStep

-----------------------------------------------------------------------------
(* The main threads. *)

\* A step of a main thread that touches at most socket 0 leaves the threads
\* of the dimensions in order.
LEMMA MainStep ==
  ASSUME IndInv, UNCHANGED <<inputs, tR, tS, otherR, otherS, u, rr>>,
         \A d \in Dim : tR[d] # "done" => toS'[d] = toS[d] /\ toR'[d] = toR[d]
  PROVE  ThreadInv' /\ InputInit'
  <1>1. \A d \in Dim : Candidates(d)' = Candidates(d) /\ ListKeys(d)' = ListKeys(d)
    BY InputsFixed DEF IndInv
  <1>2. ASSUME NEW d \in Dim PROVE ThreadPhase(d)'
    <2>1. ThreadPhase(d)
      BY DEF IndInv, ThreadInv
    <2>2. CASE tR[d] = "done"
      BY <2>1, <2>2 DEF ThreadPhase, ThreadState
    <2>3. CASE tR[d] # "done"
      BY <1>1, <2>1, <2>3 DEF ThreadPhase, ThreadState
    <2> QED BY <2>2, <2>3
  <1>3. ThreadInv'
    BY <1>1, <1>2 DEF IndInv, ThreadInv
  <1> QED
    BY <1>3, InputsFixed DEF IndInv

\* Socket 0 exists.
LEMMA SocketZero == 0 \in Dim
  BY DimAssumption DEF Dim

\* The join of the receiver's threads.
LEMMA R_JoinKeeps ==
  ASSUME IndInv, R_Join
  PROVE  IndInv'
  <1> USE DEF R_Join
  <1>1. ThreadInv' /\ InputInit'
    BY MainStep
  <1>2. TypeOK'
    BY DEF IndInv, TypeOK
  <1>3. MainInv'
    BY DEF IndInv, MainInv, ChoiceSent, HalvesSent
  <1>4. SharedMatch'
    BY DEF SharedMatch
  <1> QED
    BY <1>1, <1>2, <1>3, <1>4 DEF IndInv

\* The join of the sender's threads.
LEMMA S_JoinKeeps ==
  ASSUME IndInv, S_Join
  PROVE  IndInv'
  <1> USE DEF S_Join
  <1>1. ThreadInv' /\ InputInit'
    BY MainStep
  <1>2. TypeOK'
    BY DEF IndInv, TypeOK
  <1>3. MainInv'
    BY DEF IndInv, MainInv, ChoiceSent, HalvesSent
  <1>4. SharedMatch'
    BY DEF SharedMatch
  <1> QED
    BY <1>1, <1>2, <1>3, <1>4 DEF IndInv

\* When the receiver's threads are done, the sums that the equality test
\* compares are equal exactly for the bins whose ball is matched in every
\* dimension, and by one receiver ball, since identifiers are unique.
LEMMA SumsMatch ==
  ASSUME IndInv, \A d \in Dim : tR[d] = "done", NEW b \in Bin
  PROVE  RSum(b) = SSum(b) <=> BallIn(b) # None /\ Match(BallIn(b))
  <1>1. \A d \in Dim : rr[d][b] = Opprf2(d, Candidates(d), AVal(d, b))
    BY DEF IndInv, ThreadInv
  <1>2. \A d \in Dim : rr[d][b] = RVal(d, b) <=>
            BallIn(b) # None /\ \E i \in BallR : CloseIn(d, i, BallIn(b))
    BY <1>1, SecondOpprf, CandidateMatch DEF IndInv
  <1>3. RSum(b) = SSum(b) <=> \A d \in Dim : rr[d][b] = RVal(d, b)
    BY DEF RSum, SSum
  <1>4. ASSUME \A d \in Dim : BallIn(b) # None /\ \E i \in BallR : CloseIn(d, i, BallIn(b))
        PROVE  BallIn(b) # None /\ Match(BallIn(b))
    <2>1. PICK i \in BallR : CloseIn(0, i, BallIn(b))
      BY <1>4, SocketZero
    <2>2. \A d \in Dim : CloseIn(d, i, BallIn(b))
      BY <1>4, <2>1, InputTypes DEF CloseIn, IndInv
    <2> QED BY <1>4, <2>2, SocketZero DEF Match
  <1> QED
    BY <1>2, <1>3, <1>4 DEF Match

\* The receiver's end of the equality test.
LEMMA R_PeqtKeeps ==
  ASSUME IndInv, R_Peqt
  PROVE  IndInv'
  <1> USE DEF R_Peqt, Equality!Output0, Equality!Shares, Equality!Bit, Bit
  <1>1. ThreadInv' /\ InputInit'
    BY MainStep
  <1>2. TypeOK'
    BY DEF IndInv, TypeOK
  <1>3. MainInv'
    BY DEF IndInv, MainInv, ChoiceSent, HalvesSent
  <1>4. SharedMatch'
    <2> SUFFICES ASSUME mS \notin {"join", "peqt"}, NEW b \in Bin
                 PROVE  Xor(eeR'[b], eeS[b]) = 1 <=> BallIn(b) # None /\ Match(BallIn(b))
      <3>1. \A b \in Bin : BallIn(b)' = BallIn(b) /\ Match(BallIn(b))' = Match(BallIn(b))
        BY InputsFixed DEF Match, CloseIn, inputs, IndInv
      <3> QED BY <3>1 DEF SharedMatch
    <2>1. eeS \in [Bin -> Bit] /\ \A d \in Dim : tR[d] = "done"
      BY DEF IndInv, MainInv
    <2>2. eeS # <<>>
      BY <2>1
    <2>3. Xor(eeR'[b], eeS[b]) = 1 <=> RSum(b) = SSum(b)
      BY <2>2 DEF Equality!Opens, Equality!Xor, Xor
    <2> QED
      BY <2>1, <2>3, SumsMatch
  <1> QED
    BY <1>1, <1>2, <1>3, <1>4 DEF IndInv

\* The sender's end of the equality test.
LEMMA S_PeqtKeeps ==
  ASSUME IndInv, S_Peqt
  PROVE  IndInv'
  <1> USE DEF S_Peqt, Equality!Output1, Equality!Shares, Equality!Bit, Bit
  <1>1. ThreadInv' /\ InputInit'
    BY MainStep
  <1>2. TypeOK'
    BY DEF IndInv, TypeOK
  <1>3. MainInv'
    BY DEF IndInv, MainInv, ChoiceSent, HalvesSent
  <1>4. SharedMatch'
    <2> SUFFICES ASSUME mR \notin {"join", "peqt"}, NEW b \in Bin
                 PROVE  Xor(eeR[b], eeS'[b]) = 1 <=> BallIn(b) # None /\ Match(BallIn(b))
      <3>1. \A b \in Bin : BallIn(b)' = BallIn(b) /\ Match(BallIn(b))' = Match(BallIn(b))
        BY InputsFixed DEF Match, CloseIn, inputs, IndInv
      <3> QED BY <3>1 DEF SharedMatch
    <2>1. eeR \in [Bin -> Bit] /\ \A d \in Dim : tR[d] = "done"
      BY DEF IndInv, MainInv
    <2>2. eeR # <<>>
      BY <2>1
    <2>3. Xor(eeR[b], eeS'[b]) = 1 <=> RSum(b) = SSum(b)
      BY <2>2 DEF Equality!Opens, Equality!Xor, Xor
    <2> QED
      BY <2>1, <2>3, SumsMatch
  <1> QED
    BY <1>1, <1>2, <1>3, <1>4 DEF IndInv

\* What is left of SharedMatch when no share and no input changes.
LEMMA SharedMatchStays ==
  ASSUME IndInv, UNCHANGED <<inputs, eeR, eeS>>,
         mR \notin {"join", "peqt"}, mS' = mS \/ mS \notin {"join", "peqt"}
  PROVE  SharedMatch'
  <1>1. \A b \in Bin : BallIn(b)' = BallIn(b) /\ Match(BallIn(b))' = Match(BallIn(b))
    BY InputsFixed DEF Match, CloseIn, inputs, IndInv
  <1> QED
    BY <1>1 DEF SharedMatch, IndInv

\* The choice bits are sent.
LEMMA R_ChooseKeeps ==
  ASSUME IndInv, R_Choose
  PROVE  IndInv'
  <1> USE DEF R_Choose
  <1>1. /\ \A d \in Dim : tR[d] = "done" /\ toS[d] = <<>> /\ toR[d] = <<>>
        /\ mS \in {"peqt", "transfer"}
    BY DEF IndInv, MainInv, ChoiceSent, HalvesSent, TypeOK
  <1>2. ThreadInv' /\ InputInit'
    BY <1>1, MainStep
  <1>3. TypeOK'
    BY DEF IndInv, TypeOK, Send
  <1>4. toS'[0] = <<Msg("choice", Cardinality(Bin), None)>> /\ \A d \in Dim \ {0} : toS'[d] = <<>>
    BY <1>1, SocketZero, ShortQueues DEF Send, IndInv, TypeOK
  <1>5. MainInv'
    BY <1>1, <1>4 DEF IndInv, MainInv, ChoiceSent, HalvesSent
  <1> QED
    BY <1>2, <1>3, <1>5, SharedMatchStays DEF IndInv

\* The two halves are sent.
LEMMA S_TransferKeeps ==
  ASSUME IndInv, S_Transfer
  PROVE  IndInv'
  <1> USE DEF S_Transfer
  <1>0. \A d \in Dim : tR[d] = "done"
    BY DEF IndInv, MainInv
  <1>1. mR = "lookup"
    BY <1>0, SocketZero DEF IndInv, MainInv, ChoiceSent, Has
  <1>2. /\ toS[0] = <<Msg("choice", Cardinality(Bin), None)>> /\ \A d \in Dim \ {0} : toS[d] = <<>>
        /\ \A d \in Dim : toR[d] = <<>>
    BY <1>0, <1>1, SocketZero DEF IndInv, MainInv, ChoiceSent, HalvesSent
  <1>3. ThreadInv' /\ InputInit'
    BY <1>0, MainStep
  <1>4. TypeOK'
    BY DEF IndInv, TypeOK, Pop
  <1>5. Halves' = Halves
    BY InputsFixed DEF Halves, OtMessages, IndInv, inputs
  <1>6. toS'[0] = <<>> /\ \A d \in Dim \ {0} : toS'[d] = <<>> /\ toR'[d] = <<>>
    BY <1>2, SocketZero, ShortQueues DEF Pop, IndInv, TypeOK
  <1>7. toR'[0] = Halves
    <2> DEFINE h0 == Msg("half0", Cardinality(Bin), [b \in Bin |-> OtMessages(b)[1]])
               h1 == Msg("half1", Cardinality(Bin), [b \in Bin |-> OtMessages(b)[2]])
    <2>1. toR'[0] = toR[0] \o <<h0, h1>>
      BY SocketZero DEF IndInv, TypeOK
    <2>2. Halves = <<h0, h1>>
      BY DEF Halves
    <2>3. toR[0] = <<>>
      BY <1>2, SocketZero
    <2> HIDE DEF h0, h1, S_Transfer
    <2>4. <<>> \o <<h0, h1>> = <<h0, h1>>
      BY ShortQueues
    <2> QED BY <2>1, <2>2, <2>3, <2>4
  <1>8. MainInv'
    <2>1. \A d \in Dim : toS'[d] = <<>> /\ toR'[d] = IF d = 0 THEN Halves ELSE <<>>
      <3> HIDE DEF S_Transfer
      <3> QED BY <1>6, <1>7
    <2>2. ~ChoiceSent' /\ HalvesSent'
      BY <1>1 DEF ChoiceSent, HalvesSent
    <2> QED
      BY <1>0, <1>1, <1>5, <2>1, <2>2 DEF IndInv, MainInv
  <1> QED
    BY <1>1, <1>3, <1>4, <1>8, SharedMatchStays DEF IndInv

\* A bin whose message the lookup can read holds a ball of the intersection,
\* and the message is its identifier.
LEMMA Revealed ==
  ASSUME IndInv, HalvesSent, NEW b \in Bin
  PROVE  RecvMsg(b) = IF BallIn(b) # None /\ Match(BallIn(b)) THEN ballsS[BallIn(b)].id ELSE None
  <1>1. toR[0] = Halves
    BY SocketZero DEF IndInv, MainInv, HalvesSent
  <1>2. eeR[b] \in Bit /\ eeS[b] \in Bit
    BY DEF IndInv, MainInv, HalvesSent
  <1>3. toR[0][1].body[b] = OtMessages(b)[1] /\ toR[0][2].body[b] = OtMessages(b)[2]
    BY <1>1 DEF Halves, Msg
  <1>4. Xor(eeR[b], eeS[b]) = 1 <=> BallIn(b) # None /\ Match(BallIn(b))
    BY DEF IndInv, SharedMatch, HalvesSent
  <1>5. /\ RecvMsg(b) = IF eeR[b] = 1 THEN OtMessages(b)[2] ELSE OtMessages(b)[1]
        /\ eeR[b] \in {0, 1} /\ eeS[b] \in {0, 1}
        /\ (eeR[b] # eeS[b]) <=> BallIn(b) # None /\ Match(BallIn(b))
    BY <1>2, <1>3, <1>4 DEF RecvMsg, Bit, Xor
  <1>6. CASE BallIn(b) = None
    BY <1>5, <1>6 DEF OtMessages
  <1>7. CASE BallIn(b) # None
    BY <1>5, <1>7 DEF OtMessages
  <1> QED BY <1>6, <1>7

\* The lookup.
LEMMA R_LookupKeeps ==
  ASSUME IndInv, R_Lookup
  PROVE  HalvesSent /\ IndInv'
  <1> USE DEF R_Lookup
  <1>0. \A d \in Dim : tR[d] = "done"
    BY DEF IndInv, MainInv
  <1>1. mS = "done"
    BY <1>0, SocketZero, ShortQueues DEF IndInv, MainInv, HalvesSent
  <1>2. toR[0] = Halves /\ \A d \in Dim : toS[d] = <<>> /\ (d # 0 => toR[d] = <<>>)
    BY <1>0, <1>1, SocketZero DEF IndInv, MainInv, ChoiceSent, HalvesSent
  <1>3. ThreadInv' /\ InputInit'
    BY <1>0, MainStep
  <1>4. TypeOK'
    <2>1. IsFiniteSet({b \in Bin : RecvMsg(b) \in {ballsR[i].id : i \in BallR}})
      BY FiniteAssumption, FS_Subset
    <2> QED BY <2>1, FS_CardinalityType DEF IndInv, TypeOK
  <1>5. toR'[0] = <<>>
    BY <1>2, SocketZero, ShortQueues DEF Halves, IndInv, TypeOK
  <1>6. MainInv'
    BY <1>0, <1>1, <1>2, <1>5 DEF IndInv, MainInv, ChoiceSent, HalvesSent, TypeOK
  <1> QED
    BY <1>1, <1>3, <1>4, <1>6, SharedMatchStays DEF IndInv, HalvesSent

LEMMA StutterKeeps ==
  ASSUME IndInv, UNCHANGED vars
  PROVE  IndInv'
  <1>1. UNCHANGED inputs
    BY DEF vars, inputs
  <1>2. ThreadInv' /\ InputInit'
    BY <1>1, MainStep DEF vars
  <1>3. TypeOK'
    BY DEF IndInv, TypeOK, vars
  <1>4. \A b \in Bin : BallIn(b)' = BallIn(b) /\ Match(BallIn(b))' = Match(BallIn(b))
    BY <1>1, InputsFixed DEF Match, CloseIn, inputs, IndInv
  <1>5. Halves' = Halves
    BY <1>4 DEF Halves, OtMessages, vars
  <1>6. MainInv'
    BY <1>5 DEF IndInv, MainInv, ChoiceSent, HalvesSent, vars
  <1>7. SharedMatch'
    BY <1>4 DEF IndInv, SharedMatch, vars
  <1> QED
    BY <1>2, <1>3, <1>6, <1>7 DEF IndInv

-----------------------------------------------------------------------------
(* The theorems. *)

\* The inductive invariant holds in every behaviour, whatever the order in
\* which the threads of the two parties run.
THEOREM LinfInductive == Spec => []IndInv
  <1>1. ASSUME IndInv, [Next]_vars PROVE IndInv'
    <2>1. ASSUME NEW d \in Dim, RecvThread(d) PROVE IndInv'
      BY <1>1, <2>1, R_ListKeeps, R_SizeKeeps, R_ProgramKeeps, R_QueryKeeps DEF RecvThread
    <2>2. ASSUME NEW d \in Dim, SendThread(d) PROVE IndInv'
      BY <1>1, <2>2, S_KeysKeeps, S_EvalKeeps, S_ProgramKeeps DEF SendThread
    <2>3. CASE RecvMain
      BY <1>1, <2>3, R_JoinKeeps, R_PeqtKeeps, R_ChooseKeeps, R_LookupKeeps DEF RecvMain
    <2>4. CASE SendMain
      BY <1>1, <2>4, S_JoinKeeps, S_PeqtKeeps, S_TransferKeeps DEF SendMain
    <2>5. CASE UNCHANGED vars
      BY <1>1, <2>5, StutterKeeps
    <2> QED
      BY <1>1, <2>1, <2>2, <2>3, <2>4, <2>5 DEF Next, Terminated
  <1> QED
    BY <1>1, InitIndInv, PTL DEF Spec

\* The parties stay in step over their sockets: what a reader takes is what
\* it waits for and as large as announced, and the keys of the second OPPRF
\* are distinct.
THEOREM LinfProtocol == Spec => []ProtocolInv
  <1>1. ASSUME IndInv PROVE DistinctCandidates
    <2>1. \A d \in Dim : tS[d] \in {"program", "done"} => u[d] = Candidates(d)
      BY <1>1 DEF IndInv, ThreadInv
    <2> QED BY <1>1, <2>1, CandidatesCount, BinsDisjoint DEF DistinctCandidates, IndInv
  <1>2. ASSUME IndInv PROVE SizesAgree
    <2> SUFFICES ASSUME NEW d \in Dim
                 PROVE  /\ tS[d] = "eval" /\ Has(toS, d) => Head(toS[d]).n = otherS[d]
                        /\ tR[d] = "program" /\ Has(toR, d) => Head(toR[d]).n = otherR[d]
                        /\ tR[d] = "query" /\ Has(toR, d) => Head(toR[d]).n = otherR[d]
                        /\ tS[d] = "program" /\ Has(toS, d) => Head(toS[d]).n = Cardinality(Bin)
      BY DEF SizesAgree
    <2>1. /\ ThreadPhase(d)
          /\ tS[d] # "keys" => otherS[d] = OpprfSize
          /\ tR[d] \notin {"list", "size"} => otherR[d] = KeysSize
      BY <1>2 DEF IndInv, ThreadInv
    <2> QED BY <2>1, ShortQueues DEF ThreadPhase, ThreadState, Has, Msg
  <1>3. ASSUME IndInv PROVE ExpectedMessage
    <2> SUFFICES ASSUME NEW d \in Dim
                 PROVE  /\ Has(toR, d) =>
                             /\ tR[d] = "size" => Head(toR[d]).type = "size"
                             /\ tR[d] = "program" => Head(toR[d]).type = "request"
                             /\ tR[d] = "query" => Head(toR[d]).type = "answer"
                             /\ tR[d] = "done" => mR = "lookup" /\ Head(toR[d]).type = "half0"
                        /\ Has(toS, d) =>
                             /\ tS[d] = "keys" => Head(toS[d]).type = "size"
                             /\ tS[d] = "eval" => Head(toS[d]).type = "answer"
                             /\ tS[d] = "program" => Head(toS[d]).type = "request"
                             /\ tS[d] = "done" => /\ mS \in {"peqt", "transfer"}
                                                  /\ Head(toS[d]).type = "choice"
      BY DEF ExpectedMessage
    <2>1. ThreadPhase(d)
      BY <1>3 DEF IndInv, ThreadInv
    <2>2. CASE tR[d] = "done"
      <3>1. tS[d] = "done"
        BY <2>1, <2>2 DEF ThreadPhase, ThreadState
      <3>2. Has(toS, d) => /\ toS[d] = <<Msg("choice", Cardinality(Bin), None)>>
                           /\ mR = "lookup" /\ mS \in {"peqt", "transfer"}
        BY <1>3, <2>2 DEF IndInv, MainInv, TypeOK, ChoiceSent, Has
      <3>3. Has(toR, d) => toR[d] = Halves /\ mR = "lookup"
        BY <1>3, <2>2 DEF IndInv, MainInv, HalvesSent, Has
      <3>4. Head(Halves).type = "half0"
        BY ShortQueues DEF Halves, Msg
      <3>5. Head(<<Msg("choice", Cardinality(Bin), None)>>).type = "choice"
        BY ShortQueues DEF Msg
      <3> QED BY <2>2, <3>1, <3>2, <3>3, <3>4, <3>5
    <2>3. CASE tR[d] # "done"
      BY <2>1, <2>3, ShortQueues DEF ThreadPhase, ThreadState, Has, Msg
    <2> QED BY <2>2, <2>3
  <1>4. IndInv => ProtocolInv
    BY <1>1, <1>2, <1>3 DEF ProtocolInv, IndInv
  <1> QED
    BY <1>4, LinfInductive, PTL

\* A dimension matches exactly the close balls, and the two match bits of a
\* bin differ exactly when its ball is in the fuzzy intersection.
THEOREM LinfMatch == Spec => []MatchInv
  <1>1. ASSUME IndInv PROVE DimensionMatch
    <2> SUFFICES ASSUME NEW d \in Dim, tR[d] = "done", NEW b \in Bin
                 PROVE  rr[d][b] = RVal(d, b) <=>
                          BallIn(b) # None /\ \E i \in BallR : CloseIn(d, i, BallIn(b))
      BY DEF DimensionMatch
    <2>1. rr[d][b] = Opprf2(d, Candidates(d), AVal(d, b))
      BY <1>1 DEF IndInv, ThreadInv
    <2>2. InputInit
      BY <1>1 DEF IndInv
    <2>3. Opprf2(d, Candidates(d), AVal(d, b)) = RVal(d, b) <=> AVal(d, b) \in Candidates(d)[b]
      BY <2>2, SecondOpprf
    <2>4. AVal(d, b) \in Candidates(d)[b] <=>
            BallIn(b) # None /\ \E i \in BallR : CloseIn(d, i, BallIn(b))
      BY <2>2, CandidateMatch
    <2> QED BY <2>1, <2>3, <2>4
  <1>2. IndInv => MatchInv
    BY <1>1 DEF MatchInv, IndInv
  <1> QED
    BY <1>2, LinfInductive, PTL

\* The oblivious transfer reveals identifiers of the intersection only.
THEOREM LinfReveals == Spec => []OnlyMatchesRevealed
  <1>1. ASSUME IndInv PROVE OnlyMatchesRevealed
    <2> SUFFICES ASSUME mR = "lookup", Len(toR[0]) = 2, NEW b \in Bin, RecvMsg(b) # None
                 PROVE  Match(BallIn(b))
      BY DEF OnlyMatchesRevealed
    <2>1. HalvesSent
      <3>1. \A d \in Dim : tR[d] = "done"
        BY <1>1 DEF IndInv, MainInv
      <3>2. toR[0] = IF HalvesSent THEN Halves ELSE <<>>
        BY <1>1, <3>1, SocketZero DEF IndInv, MainInv
      <3>3. Len(<<>>) # 2
        BY ShortQueues
      <3> QED BY <3>2, <3>3
    <2> QED BY <1>1, <2>1, Revealed
  <1> QED
    BY <1>1, LinfInductive, PTL

\* The count of the lookup is the size of the fuzzy intersection: the bins
\* with a known identifier and the matched sender balls correspond.
LEMMA CountOfLookup ==
  ASSUME IndInv, R_Lookup
  PROVE  found' = Cardinality({s \in BallS : Match(s)})
  <1> DEFINE K == {ballsR[i].id : i \in BallR}
             M == {s \in BallS : Match(s)}
             B == {b \in Bin : RecvMsg(b) \in K}
             f == [s \in M |-> BinOf(s)]
  <1>1. HalvesSent
    BY R_LookupKeeps
  <1>2. /\ \A s \in BallS : BinOf(s) \in Bin /\ BallIn(BinOf(s)) = s /\ BallIn(BinOf(s)) # None
        /\ \A b \in Bin : BallIn(b) # None => BallIn(b) \in BallS /\ BinOf(BallIn(b)) = b
    BY BallsAndBins DEF IndInv
  <1>3. None \notin K
    BY InputTypes, NoneAssumption DEF IndInv
  <1>4. \A s \in M : ballsS[s].id \in K
    BY SocketZero DEF Match, CloseIn
  <1>5. \A b \in Bin : b \in B <=> BallIn(b) # None /\ Match(BallIn(b))
    BY <1>1, <1>2, <1>3, <1>4, Revealed
  <1> HIDE DEF K
  <1>6. f \in Bijection(M, B)
    <2>1. \A s \in M : f[s] \in B
      BY <1>2, <1>5
    <2>2. \A s, t \in M : f[s] = f[t] => s = t
      BY <1>2
    <2>3. \A b \in B : \E s \in M : f[s] = b
      BY <1>2, <1>5
    <2> HIDE DEF M, B
    <2> QED BY <2>1, <2>2, <2>3 DEF Bijection, Injection, Surjection, IsInjective
  <1>7. IsFiniteSet(M)
    BY FiniteAssumption, FS_Subset
  <1>8. Cardinality(B) = Cardinality(M)
    BY <1>6, <1>7, FS_Bijection DEF ExistsBijection
  <1> QED
    BY <1>8 DEF R_Lookup, K

\* The protocol implements the fuzzy intersection functionality: the count
\* is the receiver's only output, delivered once, and it is the right one.
\* (That it arrives is liveness, which ImplementsIdeal adds.)
THEOREM LinfImplements == Spec => Ideal!Spec
  <1> DEFINE close == {s \in BallS : Match(s)}
  <1>1. Init => Ideal!Init
    BY DEF Init, Ideal!Init
  <1>2. ASSUME IndInv, [Next]_vars
        PROVE  [Ideal!Next]_(Ideal!vars)
    <2>1. UNCHANGED inputs
      BY <1>2 DEF Next, RecvThread, SendThread, RecvMain, SendMain, Terminated, vars, inputs,
                  R_List, R_Size, R_Program, R_Query, S_Keys, S_Eval, S_Program,
                  R_Join, R_Peqt, R_Choose, R_Lookup, S_Join, S_Peqt, S_Transfer
    <2>2. close' = close
      BY <1>2, <2>1, InputsFixed DEF IndInv
    <2>3. CASE R_Lookup
      <3>1. found = None
        BY <1>2, <2>3 DEF IndInv, MainInv, R_Lookup
      <3>2. found' = Cardinality(close)
        BY <1>2, <2>3, CountOfLookup
      <3>3. Ideal!Deliver
        BY <2>2, <3>1, <3>2 DEF Ideal!Deliver, Ideal!Cardinality, Cardinality
      <3> QED BY <3>3 DEF Ideal!Next
    <2>4. CASE ~R_Lookup
      <3>1. found' = found
        BY <1>2, <2>4 DEF Next, RecvThread, SendThread, RecvMain, SendMain, Terminated, vars,
                  R_List, R_Size, R_Program, R_Query, S_Keys, S_Eval, S_Program,
                  R_Join, R_Peqt, R_Choose, S_Join, S_Peqt, S_Transfer
      <3> QED BY <2>2, <3>1 DEF Ideal!vars
    <2> QED BY <2>3, <2>4
  <1> QED
    BY <1>1, <1>2, LinfInductive, PTL DEF Spec, Ideal!Spec
=============================================================================
