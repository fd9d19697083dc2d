-------------------------------- MODULE Baxos -------------------------------
(***************************************************************************)
(* The binned OKVS (opprf/PaxosImpl.h, class Baxos): solve hashes the keys *)
(* into bins and encodes every bin with Paxos, on several threads; decode  *)
(* sorts queries into batches per bin, on several threads again.           *)
(*                                                                         *)
(* During solve, thread t first hashes its share of the inputs into its    *)
(* own segment of every bin, in one flat array; after a barrier it takes   *)
(* the bins t, t + Threads, ..., moves the segments of the other threads   *)
(* up against its first one, and encodes.  A throw ends the program: on a  *)
(* spawned thread by std::terminate, on the calling one because threads    *)
(* are still joinable, or as an exception nobody catches.                  *)
(***************************************************************************)
EXTENDS Paxos

CONSTANTS
  Threads,      \* numThreads
  ItemsPerBin,  \* mItemsPerBin
  PerThread,    \* perThrdMaxBinSize
  DecodeCap,    \* the batch bound of implDecodeBatch, 512 there
  Instances,    \* the calls considered
  Tapes         \* the outputs of prng considered: Nat -> Elem

Thread == 0 .. Threads - 1
Caller == Threads - 1

ASSUME ThreadAssumption == Threads \in Nat \ {0} /\ DecodeCap \in Nat \ {0}
\* A column keeps a free neighbour whenever a node is popped.
ASSUME RoomAssumption == SparseSize >= ItemsPerBin + 2
ASSUME InstanceAssumption ==
  \A i \in Instances :
    /\ i.dt \in {"GF128", "Binary"} /\ i.rand \in BOOLEAN /\ i.add \in BOOLEAN
    /\ i.bins \in Nat \ {0} /\ i.G \in Nat
    /\ i.bins = 1 => Len(i.keys) <= ItemsPerBin

VARIABLES
  inst,          \* keys (their hashes), bins, dense type, prng, mAddToDecode
  pc,            \* where each thread stands
  at,            \* the next input or query of each thread
  binSizes,      \* thrdBinSizes
  hashBacking,   \* the hashes in their segments
  valBacking,    \* the values in their segments
  numDone,       \* the threads that have hashed their inputs
  bin,           \* binIdx of each thread
  px,            \* the bin each thread works on
  table,         \* the output p of solve
  batches,       \* of each thread and bin: the queries collected so far
  values,        \* the output of decode
  fail           \* the throw that ended the program, "" if none

solveVars == <<binSizes, hashBacking, valBacking, numDone, bin, px, table>>
vars == <<inst, pc, at, solveVars, batches, values, fail>>

n == Len(inst.keys)
Val(i) == 2 ^ (i % FieldBits)              \* the value of input i
NumBins == inst.bins
Bins == 0 .. NumBins - 1
SizePer == Size(inst.dt, inst.G)
Cell == 0 .. NumBins * Threads * PerThread - 1
Begin(t) == (n * t) \div Threads
End(t) == (n * (t + 1)) \div Threads
Nothing == [win |-> <<0, 0, 0>>, dense |-> Zero, bin |-> 0]

\* The bin of item i of the m items of a loop.
BinOf(hash, i, m) ==
  IF i < Main(m) THEN Mod32(hash.bin, NumBins) ELSE hash.bin % NumBins

\* Where getHashes(t, b) and getValues(t, b) begin.
Segment(t, b) == PerThread * Threads * b + PerThread * t

Init ==
  /\ inst \in Instances
  /\ pc = [t \in Thread |-> IF inst.bins > 1 THEN "hash" ELSE IF t = Caller THEN "single" ELSE "joined"]
  /\ at = [t \in Thread |-> Begin(t)]
  /\ binSizes = [t \in Thread |-> [b \in Bins |-> 0]]
  /\ hashBacking = [c \in Cell |-> Nothing]
  /\ valBacking = [c \in Cell |-> Zero]
  /\ numDone = 0
  /\ bin = [t \in Thread |-> t]
  /\ px = [t \in Thread |-> <<>>]
  /\ table = [c \in 0 .. NumBins * SizePer - 1 |-> Zero]
  /\ batches = [t \in Thread |-> [b \in Bins |-> <<>>]]
  /\ values = [i \in 0 .. n - 1 |-> IF inst.add THEN 2 + i ELSE Zero]
  /\ fail = ""

-----------------------------------------------------------------------------
(* implParSolve. *)

\* An input of the thread's range goes to the end of the thread's segment.
HashItem(t) ==
  /\ pc[t] = "hash" /\ at[t] < End(t)
  /\ LET h == inst.keys[at[t] + 1]
         b == BinOf(h, at[t] - Begin(t), End(t) - Begin(t))
         cell == Segment(t, b) + binSizes[t][b]
     IN /\ hashBacking' = [hashBacking EXCEPT ![cell] = h]
        /\ valBacking' = [valBacking EXCEPT ![cell] = Val(at[t])]
        /\ binSizes' = [binSizes EXCEPT ![t][b] = @ + 1]
  /\ at' = [at EXCEPT ![t] = @ + 1]
  /\ UNCHANGED <<inst, pc, numDone, bin, px, table, batches, values, fail>>

\* ++numDone; the last thread sets the promise and goes on.
Arrive(t) ==
  /\ pc[t] = "hash" /\ at[t] = End(t)
  /\ numDone' = numDone + 1
  /\ pc' = [pc EXCEPT ![t] = IF numDone' = Threads THEN "bins" ELSE "wait"]
  /\ UNCHANGED <<inst, at, binSizes, hashBacking, valBacking, bin, px, table, batches, values, fail>>

\* Mutant: the future is not awaited.
ProceedAtOnce(t) ==
  /\ pc[t] = "wait"
  /\ pc' = [pc EXCEPT ![t] = "bins"]
  /\ UNCHANGED <<inst, at, solveVars, batches, values, fail>>

\* hashingDoneFu.get().
Proceed(t) ==
  /\ pc[t] = "wait" /\ numDone = Threads
  /\ pc' = [pc EXCEPT ![t] = "bins"]
  /\ UNCHANGED <<inst, at, solveVars, batches, values, fail>>

\* The items of bin b in all segments.
BinSize(b) == FoldSet(LAMBDA t, acc : binSizes[t][b] + acc, 0, Thread)

\* An array after the segments 1 .. of bin b were moved up, cell by cell.
Merged(backing, b) ==
  LET move(acc, t) ==
        [mem |-> FoldLeft(LAMBDA m, j : [m EXCEPT ![Segment(0, b) + acc.pos + j] = m[Segment(t, b) + j]],
                          acc.mem, [j \in 1 .. binSizes[t][b] |-> j - 1]),
         pos |-> acc.pos + binSizes[t][b]]
  IN FoldLeft(move, [mem |-> backing, pos |-> binSizes[0][b]], [t \in 1 .. Threads - 1 |-> t]).mem

\* The first k cells of bin b.
Items(backing, b, k) == [i \in 1 .. k |-> backing[Segment(0, b) + i - 1]]

\* The head of the loop over the bins: merge, build rows, setInput.
StartBin(t) ==
  /\ pc[t] = "bins" /\ bin[t] < NumBins
  /\ BinSize(bin[t]) <= ItemsPerBin
  /\ LET b == bin[t]
         hs == Merged(hashBacking, b)
         vs == Merged(valBacking, b)
     IN /\ hashBacking' = hs
        /\ valBacking' = vs
        /\ px' = [px EXCEPT ![t] = setInput(Items(hs, b, BinSize(b)), Items(vs, b, BinSize(b)))]
  /\ pc' = [pc EXCEPT ![t] = "triangulate"]
  /\ UNCHANGED <<inst, at, binSizes, numDone, bin, table, batches, values, fail>>

\* More items than the parameters of the bin allow.
BinTooFull(t) ==
  /\ pc[t] = "bins" /\ bin[t] < NumBins
  /\ BinSize(bin[t]) > ItemsPerBin
  /\ fail' = "bin"
  /\ UNCHANGED <<inst, pc, at, solveVars, batches, values>>

\* mNumBins == 1: the inputs are encoded as they come, by the caller.
StartSingle ==
  /\ pc[Caller] = "single"
  /\ px' = [px EXCEPT ![Caller] = setInput(inst.keys, [i \in 1 .. n |-> Val(i - 1)])]
  /\ bin' = [bin EXCEPT ![Caller] = 0]
  /\ pc' = [pc EXCEPT ![Caller] = "triangulate"]
  /\ UNCHANGED <<inst, at, binSizes, hashBacking, valBacking, numDone, table, batches, values, fail>>

Triangulate(t) ==
  /\ pc[t] = "triangulate" /\ HasWeight(px[t])
  /\ px' = [px EXCEPT ![t] = TriangulateStep(px[t])]
  /\ fail' = px'[t].fail
  /\ UNCHANGED <<inst, pc, at, binSizes, hashBacking, valBacking, numDone, bin, table, batches, values>>

\* encode of the bin into its part of the output.  prng is shared by the
\* threads without a lock: what a bin draws from it may be anything.
EncodeBin(t) ==
  /\ pc[t] = "triangulate" /\ ~HasWeight(px[t])
  /\ \E tape \in (IF inst.rand THEN Tapes ELSE {CHOOSE x \in Tapes : TRUE}) :
       \E e \in {encode(px[t], inst.dt, inst.G, inst.rand, tape)} :
         /\ fail' = e.fail
         /\ table' = IF e.fail # "" THEN table
                     ELSE [c \in DOMAIN table |->
                             IF c \div SizePer = bin[t] THEN e.P[c % SizePer] ELSE table[c]]
  /\ px' = [px EXCEPT ![t] = <<>>]
  /\ bin' = [bin EXCEPT ![t] = @ + Threads]
  /\ pc' = [pc EXCEPT ![t] = "bins"]
  /\ UNCHANGED <<inst, at, binSizes, hashBacking, valBacking, numDone, batches, values>>

\* The routine returns and is joined.
EndBins(t) ==
  /\ pc[t] = "bins" /\ bin[t] >= NumBins
  /\ pc' = [pc EXCEPT ![t] = "joined"]
  /\ UNCHANGED <<inst, at, solveVars, batches, values, fail>>

-----------------------------------------------------------------------------
(* implParDecode of the keys in reverse order, so that a key is in a batch *)
(* on one side and in the rest on the other.                               *)

Query(i) == inst.keys[n - i]
Batched(t) == Min({DecodeCap, End(t) - Begin(t)})

StartDecode ==
  /\ \A t \in Thread : pc[t] = "joined"
  /\ pc' = [t \in Thread |-> IF NumBins > 1 THEN "decode" ELSE IF t = Caller THEN "decode1" ELSE "done"]
  /\ at' = [t \in Thread |-> Begin(t)]
  /\ UNCHANGED <<inst, solveVars, batches, values, fail>>

\* implDecodeBin: the queries idxs, all of bin b, assigned or added.
DecodeBin(vals, b, idxs) ==
  LET P == [c \in 0 .. SizePer - 1 |-> table[SizePer * b + c]]
      decoded(k) == DecodeAt(P, inst.dt, inst.G, Query(idxs[k]), k - 1, Len(idxs))
  IN FoldLeftDomain(LAMBDA acc, k :
                      [acc EXCEPT ![idxs[k]] = IF inst.add THEN Plus(@, decoded(k)) ELSE decoded(k)],
                    vals, idxs)

\* A query joins the batch of its bin; a full batch is decoded.
DecodeItem(t) ==
  /\ pc[t] = "decode" /\ at[t] < End(t)
  /\ LET b == BinOf(Query(at[t]), at[t] - Begin(t), End(t) - Begin(t))
         batch == Append(batches[t][b], at[t])
         full == Len(batch) = Batched(t)
     IN /\ values' = IF full THEN DecodeBin(values, b, batch) ELSE values
        /\ batches' = [batches EXCEPT ![t][b] = IF full THEN <<>> ELSE batch]
  /\ at' = [at EXCEPT ![t] = @ + 1]
  /\ UNCHANGED <<inst, pc, solveVars, fail>>

\* What is left in the batches, bin by bin.
DecodeRest(t) ==
  /\ pc[t] = "decode" /\ at[t] = End(t)
  /\ values' = FoldLeft(LAMBDA acc, b : DecodeBin(acc, b, batches[t][b]), values,
                        [i \in 1 .. NumBins |-> i - 1])
  /\ pc' = [pc EXCEPT ![t] = "done"]
  /\ UNCHANGED <<inst, at, solveVars, batches, fail>>

\* mNumBins == 1: Paxos::decode.
DecodeSingle ==
  /\ pc[Caller] = "decode1"
  /\ values' = DecodeBin(values, 0, [i \in 1 .. n |-> i - 1])
  /\ pc' = [pc EXCEPT ![Caller] = "done"]
  /\ UNCHANGED <<inst, at, solveVars, batches, fail>>

-----------------------------------------------------------------------------

Finished == \A t \in Thread : pc[t] = "done"

Terminated == (Finished \/ fail # "") /\ UNCHANGED vars

Work(t) ==
  /\ fail = ""
  /\ \/ HashItem(t) \/ Arrive(t) \/ Proceed(t)
     \/ StartBin(t) \/ BinTooFull(t) \/ Triangulate(t) \/ EncodeBin(t) \/ EndBins(t)
     \/ DecodeItem(t) \/ DecodeRest(t)

CallerWork == fail = "" /\ (StartSingle \/ StartDecode \/ DecodeSingle)

Next == (\E t \in Thread : Work(t)) \/ CallerWork \/ Terminated

Spec == Init /\ [][Next]_vars

-----------------------------------------------------------------------------
(* Properties. *)

Fixed(x) == ToSet(x.mainCols)

\* While a bin is triangulated the lists hold every column that is not fixed
\* exactly once, under the number of its unset rows, so the lightest column
\* is really the lightest and is never without a row; and the rows fixed so
\* far are triangular: no row on the diagonal has a column that was fixed
\* before its own.
TriangulationInv ==
  \A t \in Thread : pc[t] = "triangulate" /\ fail = "" =>
    LET x == px[t]
    IN /\ \A c \in Col : x.weight[c] =
             IF c \in Fixed(x) THEN 0 ELSE Len(SelectSeq(x.cols[c], LAMBDA r : r \notin x.rowSet))
       /\ \A w \in DOMAIN x.lists :
            /\ ToSet(x.lists[w]) = {c \in Col \ Fixed(x) : x.weight[c] = w}
            /\ Len(x.lists[w]) = Cardinality(ToSet(x.lists[w]))
       /\ \A k \in DOMAIN x.mainRows :
            /\ x.mainCols[k] \in ToSet(x.rows[x.mainRows[k]])
            /\ \A e \in 1 .. k - 1 : x.mainCols[e] \notin ToSet(x.rows[x.mainRows[k]])

\* Input i belongs to bin b.
Belongs(i, b) == inst.keys[i + 1].bin % NumBins = b

\* The bin a thread encodes holds the hash and the value of every input that
\* belongs to it, each once and with its own value, whichever threads hashed
\* them: no segment was read before it was complete or moved over another.
BinHoldsItsItems ==
  \A t \in Thread : pc[t] = "triangulate" /\ fail = "" =>
    LET x == px[t]
        mine == {i \in 0 .. n - 1 : Belongs(i, bin[t])}
    IN /\ Cardinality(DOMAIN x.X) = Cardinality(mine)
       /\ {<<x.dense[k], x.X[k]>> : k \in DOMAIN x.X} = {<<inst.keys[i + 1].dense, Val(i)>> : i \in mine}

\* Two inputs of one bin with the same key.
HasDuplicates == \E i, j \in 1 .. n : i # j /\ inst.keys[i] = inst.keys[j]

\* A key that is given twice never goes unnoticed: solve does not return,
\* whether the two rows meet on a diagonal or both end up in the gap; and a
\* throw that reports duplicates, or a column without rows, is never wrong.
DuplicatesDetected ==
  /\ (\A t \in Thread : pc[t] \in {"joined", "decode", "decode1", "done"}) => ~HasDuplicates
  /\ fail = "duplicate" => HasDuplicates
  /\ fail # "empty"

Columns(i) == ToSet(buildRow(inst.keys[i].win))

\* Some set of two or more rows of a bin in which every column occurs at
\* least twice without the rows being copies of one another: peeling gets
\* stuck on it and a gap row is not a copy of its main row.
EntangledCore ==
  \E K \in SUBSET (1 .. n) :
    /\ Cardinality(K) > 1
    /\ \E i, j \in K : Columns(i) # Columns(j)
    /\ \A i, j \in K : inst.keys[i].bin % NumBins = inst.keys[j].bin % NumBins
    /\ \A i \in K : \A c \in Columns(i) : \E j \in K \ {i} : c \in Columns(j)

\* Every key decodes to its value, added to what was there if mAddToDecode
\* is set, although its row was built by the other of the two row builders,
\* by another thread and in another batch than on the encoding side.  With a
\* prng the code assumes that gap rows are copies of main rows (getX2Prime).
Decodes ==
  Finished /\ (inst.rand => ~EntangledCore) =>
    \A i \in 0 .. n - 1 :
      values[i] = Plus(IF inst.add THEN 2 + i ELSE Zero, Val(n - 1 - i))
=============================================================================
