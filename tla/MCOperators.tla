---------------------------- MODULE MCOperators -----------------------------
(***************************************************************************)
(* Exhaustive evaluation of the pure algorithms: the decomposition of      *)
(* intervals (PrefixDec), the masked powers of distances (LpArith) and     *)
(* the spatial hash (Spatial).                                             *)
(*                                                                         *)
(*  - An interval probe fixes a parameter record and an interval length,   *)
(*    and slides the interval through a whole period of the binary grid:   *)
(*    every alignment the decomposition can meet.                          *)
(*  - A power probe takes every mask, every VOLE instance and every pair   *)
(*    of distances below Far, in the order in which the parties compute.   *)
(*  - A grid probe samples a point of the receiver and then one of the     *)
(*    sender, planted or free.                                             *)
(***************************************************************************)
EXTENDS PrefixDec, LpArith, Spatial

CONSTANTS
  Params,    \* set of [t, u, count]: interval length and its parameters
  Base,      \* first value of the lowest interval
  Far        \* diff and e are below Far

VARIABLES probe, out

vars == <<probe, out>>

-----------------------------------------------------------------------------
(* Intervals. *)

\* A row of a parameter table together with its key.
Entry(table, t) == [t |-> t, u |-> table[t].u, count |-> table[t].count]

\* The three tables as the protocols use them.
TableParams ==
  {Entry(LinfParamTable, t) : t \in DOMAIN LinfParamTable} \cup
  {Entry(LpParamTable, t) : t \in DOMAIN LpParamTable} \cup
  {Entry(IfMatchParamTable, t) : t \in DOMAIN IfMatchParamTable}

\* The cover is evaluated value by value up to this interval length.
MaxCover == 12

\* Every interval length up to MaxCover against every set of levels that
\* contains 0; the padding count is the trivial one.
AllSmallParams ==
  [t : 1 .. MaxCover, u : {v \cup {0} : v \in SUBSET (1 .. 3)}, count : {MaxCover}]

AllParams == AllSmallParams \cup TableParams

\* Alignments repeat with the size of the largest block.
Period == 2^Width(probe.par.t)

InitInterval ==
  /\ probe \in [kind : {"interval"}, par : Params]
  /\ out = [at |-> "interval", lo |-> Base]

Slide == /\ probe.kind = "interval"
         /\ out.lo < Base + Period - 1
         /\ out' = [out EXCEPT !.lo = @ + 1]

Wrap == /\ probe.kind = "interval"
        /\ out.lo = Base + Period - 1
        /\ out' = [out EXCEPT !.lo = Base]

-----------------------------------------------------------------------------
(* Powers. *)

Word == 0 .. M - 1

\* The receiver's distance and masks, the sender's distance, VOLE output,
\* scalar and mask.
InitPower ==
  /\ probe \in [kind : {"power"}, diff : 0 .. Far - 1, e : 0 .. Far - 1,
                a : [Power -> Word], d : [LowPower -> Word],
                bDelta : IF METRIC = 1 THEN {0} ELSE Word, mask : Word]
  /\ out = [at |-> "start"]

Program ==
  /\ probe.kind = "power" /\ out.at = "start"
  /\ out' = [at |-> "u", row |-> PrefixVals(probe.a, probe.diff)]

Evaluate ==
  /\ probe.kind = "power" /\ out.at = "u"
  /\ out' = [at |-> "v",
             row |-> VCandidates(out.row, probe.e, probe.d, probe.bDelta, probe.mask)]

Combine ==
  /\ probe.kind = "power" /\ out.at = "v"
  /\ out' = [at |-> "done",
             vhat |-> VHat(out.row, probe.a, CVole(probe.a, probe.bDelta, probe.d))]

-----------------------------------------------------------------------------
(* Points. *)

Drawn == {[j \in Coord |-> DrawCoord(r[j])] : r \in [Coord -> Word64]}

InitGrid ==
  /\ probe \in [kind : {"grid"}, x : Drawn]
  /\ out = [at |-> "recv"]

Plant ==
  /\ probe.kind = "grid" /\ out.at = "recv"
  /\ \E up \in BOOLEAN, idx \in 0 .. 2 * DELTA :
       out' = [at |-> "planted", y |-> Planted(probe.x, up, idx)]

Free ==
  /\ probe.kind = "grid" /\ out.at = "recv"
  /\ \E y \in Drawn : out' = [at |-> "free", y |-> y]

-----------------------------------------------------------------------------

Init == InitInterval \/ InitPower \/ InitGrid

Next == (Slide \/ Wrap \/ Program \/ Evaluate \/ Combine \/ Plant \/ Free) /\ UNCHANGED probe

Spec == Init /\ [][Next]_vars

-----------------------------------------------------------------------------
(* Properties. *)

lo == out.lo
hi == out.lo + probe.par.t - 1
Decs == set_dec(lo, hi, probe.par.u)
Small == probe.kind = "interval" /\ probe.par.t <= MaxCover

\* The strings of set_dec are different blocks of the levels u that cover
\* exactly the interval, each value once (intervals up to MaxCover).
ExactCover ==
  Small =>
  /\ \A p \in Decs : p.mu \in probe.par.u /\ lo <= low_bound(p) /\ up_bound(p) <= hi
  /\ Cardinality(Decs) = set_dec_size(lo, hi, probe.par.u)
  /\ MapThenSumSet(LAMBDA p : 2^p.mu, Decs) = probe.par.t
  /\ \A p, q \in Decs : p # q => up_bound(p) < low_bound(q) \/ up_bound(q) < low_bound(p)

\* What the fuzzy matching rests on: a value lies in the interval exactly
\* when its set_prefix meets the interval's set_dec, and then in one string
\* only, so the OPPRF of a bin has one matching key (intervals up to
\* MaxCover).
OneCommonPrefix ==
  Small =>
  \A v \in (lo - Base) .. hi + Base :
    Cardinality(Decs \cap set_prefix(v, probe.par.u)) = IF v \in lo .. hi THEN 1 ELSE 0

\* The number of strings never exceeds the count of the table, the size that
\* both parties assume for the padded list (padding_keys never shortens a
\* list that is too long).
FitsTable ==
  probe.kind = "interval" => set_dec_size(lo, hi, probe.par.u) <= probe.par.count

\* The receiver's v_hat and the sender's mask are shares of the power of the
\* distance, whatever the masks are and however often the sums wrap:
\* mask - v_hat = |x - y|^METRIC modulo M.
SharesOfPower ==
  out.at = "done" =>
    u32(probe.mask - out.vhat) = fast_pow(probe.diff + probe.e, METRIC)

Common == {i \in 0 .. BLK_CELLS - 1 : intersection(probe.x)[i] = cell(out.y)}

\* What the spatial hash promises: a sender's point close to the receiver's
\* under any metric lies in exactly one of the cells of the ball, so the
\* parties share exactly one identifier; a shared cell means that the points
\* are less than 3 * DELTA apart.
OneSharedCell ==
  out.at \in {"planted", "free"} =>
    /\ (\E m \in ValidMetric : CloseBy(m, probe.x, out.y)) => Cardinality(Common) = 1
    /\ Common # {} => l_inf_dist(probe.x, out.y) < 3 * DELTA

\* The sampled coordinates keep every interval x - DELTA .. x + DELTA of the
\* matching inside the word, and the planted pairs are close under every
\* metric.
SampledInRange ==
  /\ probe.kind = "grid" =>
       \A j \in Coord : probe.x[j] - DELTA \in Word64 /\ probe.x[j] + DELTA \in Word64
  /\ out.at = "planted" => \A m \in ValidMetric : CloseBy(m, probe.x, out.y)
=============================================================================
