# TLA+ models of opprf_fpsi

Fuzzy private set intersection for two parties, `FPSIRecv` and `FPSISender`
(`fpsi/fpsi_recv.cpp`, `fpsi/fpsi_sender.cpp`), which run as two threads of one
process and talk over `DIM` sockets. This directory holds TLA+ modules for the
program from the command line down to the linear algebra of its key-value
store, TLC configurations for small instances and TLAPS proofs, for every value of
the constants, of what the runs check about the equality test, its triples, the
L∞ and L_p matchings with the interval decomposition they rest on, the fuzzy mapping
and the OPPRF. `PROJECT.json` maps every definition to the source lines it models.

## Inventory

| Part | State | Operations | Talks to | Correct when |
|---|---|---|---|---|
| Session driver `fpsi_protocol.cpp` | sockets, points, party objects | connect, sample, offline, online, statistics; a thread per party and phase, joined | parties | phases do not overlap, results read after the join |
| Fuzzy mapping `cmp_fmap/fmap.cpp` | labels per cell (`blocks_check`), identifiers, VOLE masks, OKVS | `setUp`, `getID`, `fuzzyMap` | the other side over socket 0; OKVS, oprfSo, VOLE | close points of the two parties get one identifier |
| Unbalanced mapping `ufmap/ufmap.cpp` | labels per block, candidate lists, scalars, four VOLEs | `setUp`, `getID`, `fuzzyMap` in two directions | as above, and the OPPRF | as above; points 2 delta apart never do |
| Spatial hashing `utils/dist_util.cpp` | none | `sample_points`, `cell`, `block_`, `intersection`, distances | parties | a close point lies in exactly one cell of a ball |
| Offline phases, `FPSIBase` | VOLE outputs, traffic counters | `cmp_fmap_offline`, `psi_offline_{cmp,sh}`, `insert_commus` | sockets | the counters hold the traffic of the online phase |
| Interval decomposition `utils/set_dec.cpp`, `params_selects.h` | tables | `decompose_improve`, `set_dec`, `set_prefix` | matching | exact cover, one common prefix, table counts large enough |
| Matching L∞ `mp_ssFMat_linf{,_sh}` | per-thread lists, `a_random`, `r_vals`, `rr_vals` | list, size exchange, OPPRF both ways, join, sum | OPPRF, equality test | the match bit of a bin tells whether its ball is close |
| Matching Lp `mp_ssFMat_lp{,_sh}`, `ssIFMat_*` | 32-bit shares, VOLE | as above, plus powers and interval test | as above | as above |
| Final transfer `psi_online_*` step 4 | match bits `ee` | random OT, masked messages, lookup | libOTe | the receiver learns exactly the close identifiers |
| Equality test `pis_new/batch_peqt.h`, `equal.cpp` | bit vectors, triple cursor | `eq0`, `eq1` | triples, socket 0 | the bits share the equality |
| Triples `pis_new/triple.cpp` | `a`, `b`, `c` | `triple0`, `triple1` | IKNP or silent OT on two forks | valid triples, no dead-lock |
| OPPRF, OPRF `opprf/Opprf.cpp`, `Oprf.cpp` | vectors over GF(2^128), commitment | `send`, `receive`, `eval` | socket of the dimension and a fork of it; OKVS | both parties have one function, programmed where asked |
| OKVS `opprf/PaxosImpl.h`, `PxUtil.h` | bins, weight lists, triangulated rows | `solve`, `decode`, on several threads | OPRF, mappings | every key decodes to its value, duplicates are refused |
| Simple and cuckoo hashing | bins | `insert` | matching | both sides agree on the bins |
| RB-OKVS, PIS/PSM, chunked transfer, conversions, timers | – | – | only disabled code or measurement | – |

What is hard here: two parties, each with a thread per dimension, that share
socket 0 between one of these threads, the equality test and the oblivious
transfer; coroutines that run a level or a chunk apart; values computed before
an await and used afterwards (the triple cursor); sizes fixed in advance by
tables; in-place updates; labels that are rewritten after they have been used;
worker threads of the key-value store that share one array; counters that two
phases and several threads reset.
There is no persistence, no retry and no timeout in the code, and sockets are
reliable FIFO streams, so crashes, losses and reorderings are not part of the
models.

## Modules

**`Bits`** – bits, XOR and AND.

**`PeqtIdeal`** – what a batched equality test promises: each party gets a bit
per position, in either order, and the two bits differ exactly when the
elements are equal.

**`Peqt`** – `Batch_PEQT_recv`/`eq0` and `Batch_PEQT_send`/`eq1`. A coroutine is
cut where it awaits the socket: `Send0` (mask, advance the cursor, two sends),
`Finish0` (two receives, cursor back, combine, next level), `Return0`;
`Respond1` (two receives, mask, two sends), `Finish1`, `Return1`. `res[i][j]` is
the flat `res[i * curLength + j]`. The triples are an arbitrary assignment of
valid triples.

**`EqLayout`** – the second loop of a level on the flat vector, one write per
step, cells holding symbols for "old bit" and "AND of a pair". It justifies the
row view of `Peqt`: no write hits an odd last column that is still to be copied.

**`TripleGen`** – `triple0`/`triple1`: the order of the forks, the two eager
tasks per chunk (an OT happens when sender task and receiver task stand on the
two ends of one fork), the chunk loop and the byte-wise `memcpy` of the choice
bits. `silent` is false in the program and IKNP then uses the bits of `tmpb` as
they are after `resize`; the model allows any bits, which covers both branches.
It justifies `TripleShares` of `Peqt`.

**`Loops`** – powers and sums as recursive functions, the form in which proofs by
induction can use them.

**`PrefixDec`** – `set_dec.cpp` as operators on pairs (level, number), and the
three tables of `params_selects.h`. The loops over the bits of `x` and `y` are
closed forms; a string is the pair of its number and the bits it lacks.
`set_dec` throws for `min > max`, which no caller produces.

**`FpsiIdeal`** – the receiver learns the number of close sender points, once.

**`Matching`** – what the matching protocols of all metrics share: the inputs
left by the fuzzy mapping, the simple and the cuckoo table, and the sockets as
queues.

**`LinfFpsi`** – steps 2 to 4 of `psi_online_cmp`/`psi_online_sh` with
`mp_ssFMat_linf{,_sh}`. Threads `tR[d]`, `tS[d]`, main threads `mR`, `mS`,
sockets `toS[d]`, `toR[d]`. Receiver thread: `R_List`, `R_Size`, `R_Program`
(OPPRF sender), `R_Query` (OPPRF receiver); sender thread: `S_Keys`, `S_Eval`,
`S_Program`. Main: join, `R_Peqt`/`S_Peqt` (outputs of `PeqtIdeal`),
`R_Choose`, `S_Transfer`, `R_Lookup`. Blocks are symbols, equal only when they
are the same draw; a hash is the tuple of what is hashed; the XOR over the
dimensions is the list of its summands. A cuckoo insertion may end in any
placement without conflict. The two variants differ in what a receiver ball is:
a point (cmp) or a neighbouring cell of a point (spatial hashing).

**`LpArith`** – the masked evaluation of `|x - y|^METRIC` modulo `M` (2^32 in the
code): the row the receiver programs, the sender's candidates, and `v_hat`.

**`LpFpsi`** – `mp_ssFMat_lp{,_sh}` and `ssIFMat_recv`/`ssIFMat_send` up to the
match bits. The dimension threads have the actions of `LinfFpsi`, with rows of
masked powers instead of blocks and with two lists of strings per coordinate,
below and above, told apart by the side in the key. After the join `R_Join`,
`R_IfSize`, `R_IfProgram`, `R_IfQuery`, `R_Peqt` and `S_Join`, `S_IfKeys`,
`S_IfEval`, `S_IfProgram`, `S_Peqt` are the interval test over socket 0. Numbers
are numbers where both parties' shares are related, and `None` where an answer
was not programmed. `draw` fixes the random words of an execution. `ThreadInv` and
`MainInv` say, for every pair of positions of two threads, what their socket holds.

**`Formal`** – XOR of formal sums: a block is the set of its summands, and the sum
of a family is the set of the summands that occur in an odd number of its members.

**`Fmap`** – `FmapSender` and `FmapReceiver`. `GetID(p)` is one iteration of the
loop over the points, including the relabelling loop; the seven actions of
`fuzzyMap` are cut at the receives. A block is a formal sum of independent
draws (labels, PRF values, masks, shares) with the scalars multiplied in, XOR
is the symmetric difference, and a product of scalar and mask is the sum of its
two VOLE shares, so equality of identifiers is decided exactly. `oprfSo` gives
the two parties shares of a PRF value. `SizeR = SizeS`, as both callers pass
`PTS_NUM` twice; `setUp` sizes one party's OKVS by the other's number of points.

**`UFmap`** – `uFmapSender` and `uFmapReceiver`. `fuzzyMap` runs one exchange
twice with the roles changed, so the actions are those of the owner of the
encoded blocks (`O_Encode`, `O_OprfSo`, `O_Query`, `O_Scale`) and of the client
(`C_Decode`, `C_Program`, `C_Terms`, `C_Result`), cut at the receives; the sender
is owner first. Blocks are pairs of 64-bit halves, because the high half is the
key of the bOPPRF and the low half the value. `C_Throw` is the OKVS of the bOPPRF
refusing a key that occurs twice (`KeyTwice`; why it refuses is `Baxos`). Four
VOLEs link the scalars, as in `Fmap`.

**`Session`** – `run_fmap_protocol` and `run_fpsi_protocol_extra` on top of
`UFmap`. The driver connects, starts both offline threads, joins, starts both
online threads, joins and reports. A thread is the list of the operations it has
left: send, receive, reset or enter a counter, fork, join. uFmap is run in full;
of the other protocols only who sends when is kept (`Talk`), since their content
is the subject of the other modules. A message is counted for its reader when the
socket's own thread takes it in (`Arrive`), which may be before the reader asks
for it. An exception in a party's thread ends the process (`Running`).

**`Spatial`** – `sample_points`, the cells, `intersection` and the distances as
operators, with coordinates modulo a small `U64`.

**`Oprf`** – `RsOpprfSender`/`RsOpprfReceiver` with `RsOprfSender`/
`RsOprfReceiver` inside, semi-honest and malicious. The actions are cut at the
awaits; `GenVole` is the eager task on the forked socket. `R_Chunk` is one round
of the loop that masks and sends the vector, with the three spans `p`, `c` and
`subP` as positions and with the two loops' real bounds (`Masked`). The OKVS
inside is a solvable system of two columns per key, one of them shared. `ChunkInv`
compares each direction of the socket with the script of all messages its sender
will ever send (`RecvScript`, `SendScript`), of which it holds a window.
Vectors are shorter than two chunks (`InstanceAssumption`); beyond that, at 2^29
elements, the rest loop of the receiver would mask into the next pieces.

**`Field`**, **`Paxos`**, **`Baxos`** – the OKVS. `Field` is GF(16) in the place
of GF(2^128), with the inversion chain and the matrix inversion of the code.
`Paxos` is the work on one bin: rows from hash windows by both row builders,
weight lists as sequences, one `TriangulateStep` per column, then the gap, the
dense part (binary or powers) and the back substitution. `Baxos` adds the threads:
each hashes its share of the keys into its own segment of every bin
(`HashItem`), waits at the barrier (`Arrive`, `Proceed`), takes every
`Threads`-th bin, merges its segments in place (`Merged`) and encodes it; decoding
goes through per-bin batches. A throw ends the program.

**`MC…`** – instances for TLC; `MCOperators` enumerates the inputs of the pure
algorithms (`PrefixDec`, `LpArith`, `Spatial`). **`PeqtProofs`**, **`EqLayoutProofs`**,
**`TripleGenProofs`**, **`MatchingProofs`** (loops, decomposition, hash tables),
**`LinfFpsiProofs`**, **`LpFpsiProofs`**, **`FmapProofs`**, **`OprfProofs`** – proofs.

Operators whose comment starts with "Mutant" are faulty variants of the
definition after them, with a plausible programming error each; the properties
are run against them to see that they would notice. No specification uses them.

## Runs

| Run | Bounds | Shows |
|---|---|---|
| `peqt` | 2 elements of 3 bits (3, 2, 1 columns), 4 inputs, 2 triples, fair | the inductive invariant (types included) and the result for equal and unequal elements in all interleavings; levels and triples suffice, both return, implements `PeqtIdeal` |
| `eq_layout` | up to 4 rows of up to 7 columns | in-place compaction |
| `triple_gen` | 3 triples in chunks of 2, "bytes" of 2 bits | valid triples, chunks do not mix, no dead-lock |
| `operators` | intervals of length 1–12 with all sets of levels and all 25 table rows, at all alignments; L2 modulo 8 with all masks and VOLE instances; all points of a plane of 24 × 24, `DELTA` 2 | exact cover, prefix sets that meet once or not at all (up to length 12), no list longer than its table count; shares of the squared distance, however the sums wrap; a close point lies in one cell of the ball; sampled intervals do not wrap, planted pairs are close |
| `linf` | 2 × 2 balls, 2 dimensions, 3 bins, 2 hash functions, 3 hash assignments, fair | sizes, message order, match bits, transfer and count; both parties finish; implements `FpsiIdeal` |
| `lp_l2` | 2 × 2 balls, 15 sender inputs, 2 dimensions, `DELTA` 2, modulo 16, 4 draws, fair | the inductive invariant; shares per dimension, sizes, message order; match bits differ exactly for points within distance whose shares did not wrap; both parties finish |
| `lp_wrap` | as `lp_l2`, 2 draws | violated: see below |
| `fmap` | 3 points each, 2 dimensions, a line of 5 cells or a plane, fair | labels of extended and merged stretches stay consistent and fit; masks cancel, close points agree, equal identifiers mean linked points; both finish |
| `fmap_merge` | 3 points each, cells 1, 3, then 2 | violated: see below |
| `okvs` | one bin with 3 keys on 5 sparse columns, all small windows, with and without duplicates; 2 bins with 4 keys in all distributions; 2 threads; both dense types | the weight lists and the triangle; every bin holds its items; every key decodes; duplicates never return; no dead-lock |
| `oprf` | vectors of 3 to 7 elements in chunks of 4, 2 lanes, both security types, fair | every element masked once, by its own VOLE output; one function on both sides; both return |
| `session` | 2 points each, 2 dimensions, `Delta` 2; all kinds of runs and mappings, metrics 0, 2 and 3; 48 inputs for uFmap, fair | identifiers of uFmap; traffic; every run reports |

The bounds are the smallest at which the interesting cases happen: an odd level
and a second level; a full and a partial chunk; coordinates in the same, the
next and a later cell, at both ends of a cell and below `Delta`; a bin with two
receiver balls, an empty bin, an identifier whose hash functions agree; points
at, below and above the L2 threshold, masks above, at and below it; a vector of
one chunk and of two, with and without a rest for the lanes; keys whose rows
coincide, overlap or are equal, segments that are moved down; a coordinate at
every place of its candidates' blocks, with one, both or none labelled.
Alignments of intervals repeat with the period used, so the interval probes are
exhaustive for the listed lengths. `LinfFpsi` assumes of `set_dec` and
`set_prefix` what `operators` shows and `RangeKeysMeet` proves; TLC evaluates that
assumption for the instance. `LpFpsi` uses the operators of `PrefixDec` themselves. Its modulus is
small but above `DIM * DELTA^METRIC`, as 2^32 is in the code (`RangeAssumption`).
No run uses L1, for which the same formulas have no VOLE terms; the proofs cover both.

Two findings. `fmap_merge`: when a later
point lies between two labelled stretches, `getID` relabels the upper stretch
but the identifiers already summed up from the old label stay; the check written
down in `fmap.cpp:302-313` fails then and two close points end with different
identifiers. `fmap` shows that this needs points that are not in ascending order
(`AscendingStaysCurrent`) and that all other close pairs agree. `lp_wrap`: the shares of a
dimension agree modulo 2^32, but they are added up in 64 bits; when a random
mask is below the power of the distance the sums are 2^32 apart and a pair within
distance is missed, with a chance of `|x - y|^p / 2^32` per dimension. `lp_l2`
shows, and `LpMatch` proves, that this is the only way to miss a pair and that it
never adds one.

What the newer properties leave out is part of their statement. `Decodes` excludes
encodings with a prng whose stuck rows are not copies of each other
(`EntangledCore`): `getX2Prime` assumes this and the sizes make the case
improbable; without a prng it is included. So no property covers that hazard.
`TriplesValid` rests on chunks that start on a byte (`AlignedAssumption`), which
only the constant 2^24 of the code guarantees. `UFmapIdsAgree` says that close points
get one identifier and that points with one identifier are less than `2 * Delta`
apart in every dimension; in between the mapping may do either, and the matching
decides. `Completes` of `Session` is conditional: with uFmap no coordinate may have
both candidates labelled or equal (`Unambiguous`), and with spatial hashing the
metric must be at most 2; otherwise an exception ends the process.
`SampledInRange` shows where the matching gets its intervals from; a planted
sender coordinate may lie in `DELTA + 1 .. 2 * DELTA - 1`, which is below the range
of drawn ones.

Fairness is weak fairness per thread (`FairSpec`): every party and every
dimension thread is a `std::thread` that blocks only in `sync_wait` on a socket,
and eager tasks run when their socket allows. `Session` also assumes that the
sockets deliver; `Baxos` states no liveness, its run checks for dead-locks and
every step makes progress. `PeqtIdeal`, used inside
`LinfFpsi` and `LpFpsi`, lets a side return once the other has entered the test.

## Proofs

Every theorem holds for all values of the constants that satisfy the assumptions
its module declares; TLC evaluates the assumptions for the instances of the runs.

`PeqtProofs`, for every `Length`, `N`, input set and set of valid triples:

* `PeqtInductive`: `IInv` is invariant. It adds to the types the cursor position
  of each level (`CursorInv`), the bound on the columns left (`LevelInv`), the
  masks of the level in progress (`MaskInv`), the six ways in which the two
  coroutines and their messages can stand to each other (`Lockstep`), and
  `SharingInv`: the live columns, seen after the answers in flight have been
  combined, are all ones exactly when the elements are equal. The result alone
  is not inductive: while one party has combined a level and the other has not,
  their vectors do not share anything, so the invariant speaks of the effective
  rows. The one step that changes them is `Respond1`; there `LevelKeepsAnswer`
  applies Beaver's identity (`BeaverAnd`) to each pair of columns.
* `PeqtTypes`, `PeqtReduced`, `PeqtTriplesInRange`, `PeqtIsCorrect` follow from it.
* `PeqtImplements`: every step is an output of `PeqtIdeal` or a stutter.

Assumptions: the constants' types, `Length <= 2^LengthLevel` (the definition of
`log2ceil`) and three facts about powers of two (`PowerFacts`), for which the
provers have no rules.

`EqLayoutProofs`, for every batch and row length: `LayoutInv` (new columns
before the write position, old bits from there on) is inductive and implies
`InPlaceCorrect`. The bounds `MaxN` and `MaxLength` are arbitrary.

`TripleGenProofs`, for every number of triples, chunk size and width of a byte
that divides it (`AlignedAssumption`): `TripleInv /\ TriplesValid` is inductive
(`TripleGenInductive`, `TriplesAlwaysValid`). `TriplesValid` alone is not: a party
that has stored a chunk no longer needs its buffers, while its peer has still to
store from its own, so `TripleInv` says which buffers belong to which chunk and
how the messages of the two OTs are related while a party is behind.

`MatchingProofs`, for every interval of naturals and every set of levels that has
level 0:

* `OnePrefixInCommon`: a value lies in the interval exactly when `set_prefix` of the
  value meets `set_dec` of the interval, and then in one string. The loops over the
  bits of `x` and `y` take a block for each set bit; a number below `z` differs from
  `z` first at one set bit of `z` (`BlockFor`, `OneBlock`), so the blocks on each side
  of `a_prime` hold every value once (`RightString`, `LeftString`, `Decomposes`).
  `Split` keeps that at the lower level (`SplitFacts`, `StringsInside`).
* `RangeKeysMeet`: hence the strings of the code satisfy what `LinfFpsi` assumes of
  its keys, for coordinates from `DELTA` on.

There is no rule of induction for an operator here, so induction is done on sets: the
set of the numbers that have a property holds 0 and with each number the next
(`SetInduction`, from the least element of a set of naturals), and a recursive function
exists because a solution up to each bound does (`RecursionAll`, `PowFacts`,
`SumFacts`).

`LinfFpsiProofs` (with `MatchingProofs` for the hash tables), for any number of
dimensions, balls, bins and hash functions and every placement of the balls:

* `LinfInductive`: `IndInv` is invariant. `ThreadInv` relates the two threads of a
  dimension: how far each has come determines what its socket holds, how large the
  lists are, and what the two OPPRFs were programmed with; `MainInv` does the same
  for the main threads and the oblivious transfer; `SharedMatch` is the meaning of
  the match bits once both parties have theirs.
* `LinfProtocol`, `LinfMatch` and `LinfReveals` are the three invariants of the
  run `linf`. The argument for `MatchInv` is that the answer of the second OPPRF is
  the programmed block exactly when the prefixes of the two coordinates meet, and
  that an answer that was not programmed is a block of its own, so the sums over the
  dimensions are equal exactly when every dimension matched.
* `LinfImplements`: every step is a step of `FpsiIdeal` or a stutter.

Assumptions: the two sets of prefixes meet in one element when the coordinates are
near and not at all otherwise (`KeysAssumption`), and respect the table
(`PrefixAssumption`). `RangeKeysMeet` proves the first of `set_dec` and `set_prefix`,
and the run `operators` shows the second for the tables.

`LpFpsiProofs`, for L1 and L2, any number of dimensions, balls, bins and hash
functions, every placement and all draws:

* `PowerShares`: `v_hat` and the sender's mask are shares of `(diff + e)^METRIC` modulo
  `M`. The terms are followed as congruence classes (`Cong`), since each intermediate
  value is cut to a word; for L2 the VOLE correlation takes the masked mixed term off
  (`SharesSquare`).
* `LpInductive`: `IndInv` is invariant, with one lemma per action. `ThreadInv` gives the
  socket of a dimension for each pair of positions of its two threads, and what the
  answers and `v_hat` then are, as functions of inputs and draws; `MainInv` does the
  same for `ssIFMat` on socket 0, and says that the main threads use it only after the
  threads of dimension 0 have left it empty.
* `LpProtocol`: `ProtocolInv`. That every request has the announced size is counting:
  a bin has `2 * |Levels|` queries, holding a ball or not (`BinKeysCount`,
  `UnionExact`), and lists do not outgrow their padding (`ListFits`, `IfListFits`). Two
  candidates of a bin have different keys because at most one query of a bin meets a
  string of the receiver (`OneProgrammed`).
* `LpMatch`: `MatchInv`. A query is answered with a row exactly when the ball of the bin
  is close in the dimension (`CloseIsProgrammed`, `ProgrammedRow`), `diff` and `e` are
  then the two parts of the distance (`StringMeans`), and by `PowerShares` the words
  share its power. In 64 bits each word that wrapped moves the sum by `M`
  (`SumsDiffer`), which is more than the threshold, so the interval test says "within"
  exactly when the distance is within and nothing wrapped (`SumTest`, `IfMatch`).

Assumptions: `METRIC` is 1 or 2 and a sum of the powers is below `M`; the level sets
are finite, have level 0 and, for the two lists of a coordinate, one size; coordinates
are at least `DELTA` and `DELTA > 0`; the table counts suffice (`CountAssumption`,
`IfCountAssumption`, which `operators` shows for the real tables as `FitsTable`).

`FmapProofs`, for every threshold above 0, every number of dimensions and points and
every input:

* `FmapLabels`: `LabelInv`, every coordinate within `Delta` of a labelled point
  decodes to that point's label, and the labelled cells fit the OKVS. It follows
  from `IndInv` (`FmapInductive`), whose `PairInv` says that both cells of a point
  that `getID` has handled have a label and the same one; a merge relabels a whole
  class, and a pair of cells is either inside it or outside.
* `AscendingKeepsLabels`, an action property: with points in ascending order no step
  changes the label of a cell that has one. A merge needs a labelled cell above the
  point's own, and there is none (`TopInv`). This is why the finding of `fmap_merge`
  needs unsorted points.
* `FmapStaysCurrent`: `AscendingStaysCurrent`. `CurrentInv` says that in ascending
  order the identifier built so far is the sum of the labels that the handled
  dimensions carry now; labels of two dimensions are different draws, so the sum is
  the set of its terms.
* `FmapRounds`: `RoundInv` lists what each direction of the socket holds for every
  pair of positions of the two parties: nothing, the OKVS with the shares of the PRF
  values, the encrypted sums, the re-encrypted ones. Every value is written as a
  closed formula of `ids` and `labels`, which `fuzzyMap` leaves alone.
* `FmapIdsAgree`: `CurrentIdsAgree`, and `FmapLinked`: `SameIdMeansLinked`. Both follow
  from `OutIsPlain`: the final value of a point is its identifier plus the decoded sum,
  multiplied by both scalars, because the two VOLE shares and the two PRF shares of
  every query cancel. The steps there are lemmas about formal sums (`SumOfDisjoint`,
  `LiftSum`, `MulPlain`, `MulMasked`): a product distributes over a sum of different
  draws. For close points the decoded sum of one is the identifier of the other
  (`ClosePlain`); a block without a label leaves a draw of the OKVS in the sum that
  nothing takes off (`NoiseGivesAway`).
* `FmapAscendingAgrees`: if both parties' points are in ascending order, all close pairs
  agree.

`OprfProofs`, for every set of queries and programmed keys, every vector shorter than
two pieces, every piece size that is a multiple of the lanes, semi-honest and
malicious:

* `OprfChunks`: `ChunkInv` is inductive as it stands. How many messages a party has
  sent and taken follows from where it stands, so each direction of the socket is a
  window of a fixed script and every read is known. That the two loops mask exactly
  one piece is `MaskedWhole` (the rest of the vector is shorter than a full piece,
  which is where "shorter than two pieces" is used); that the piece takes the mask
  off is `MaskCancels`.
* `OprfAgrees`: `OutputsAgree`. Both sides' OPRF values are the same formal sum
  (`SameOprf`); a key that is not programmed keeps the draw of its own column
  (`Programmed`), so it never decodes to a programmed value.

Only model-checked, and why:

* All liveness properties and the fairness of the ideal specifications.
* What folds over sets compute for every input: the identifiers of `UFmap`
  (`UFmapIdsAgree`), the operators of `Spatial` (`OneSharedCell`, `SampledInRange`), and
  the number of strings in `ExactCover` and `FitsTable`, which is a fact about the
  tables as they are. The rest of `OneCommonPrefix` and of `SharesOfPower` is what
  `OnePrefixInCommon` and `PowerShares` prove.
* The OKVS (`Paxos`, `Baxos`): its elimination uses a RECURSIVE operator.
* `TrafficExact` of `Session`, whose threads are lists of operations of arbitrary
  length; and `EveryMatchFound`, which is false.

## Not modelled

* RB-OKVS, PIS/PSM, chunked transfer and conversions, the parts of
  `fpsi_recv.cpp` from line 1314 and of `fpsi_sender.cpp` from line 1228 on
  (`#if 0`): no live path calls them.
* Timers, logging and the layout of the report. The Paillier keys of the driver
  are created and never used.
* Libraries: silent VOLE, silent and IKNP OT, the AltMod PRF, coproto sockets,
  cuckoo hashing; they appear by what the code relies on.
* The parameters of Paxos (a table of failure rates) and `mMaxBinSize`: a bin that
  is too full throws in the model (`BinTooFull`), how seldom that is, is not stated.
* `Delta = 0`, for which the cells have no width.
* `run_fmap_protocol` with more planted pairs than points, where `sample_points`
  writes past its vectors.
* Three or more pieces in the mask loop of `Oprf.cpp` (line 366, from 2^29 elements
  on) and outputs wider than 16 bytes (`Opprf.cpp` line 184): no caller has them.
* Chance: random draws never coincide. That matters most for the 32-bit keys of the
  second OPPRF of `mp_ssFMat_lp`, where two answers of a bin may be equal.
  `DuplicatesDetected` says what happens to such keys.

Identifiers of different points of one party are taken as different in `LinfFpsi`
and `LpFpsi`.

## Plan

Done: the modules above, the runs and the proofs. What a next step would be: an
invariant for `Session` that relates the counters to the operations each thread has
left, which `TrafficExact` needs; a proof of `UFmapIdsAgree` along the lines of
`FmapRounds`, whose rounds it has twice; the transfer after `LpFpsi`, which is that of
`LinfFpsi`.
