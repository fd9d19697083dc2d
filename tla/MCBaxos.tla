------------------------------ MODULE MCBaxos -------------------------------
(***************************************************************************)
(* Small instances of Baxos: five sparse columns, three items per bin,     *)
(* batches of two.                                                         *)
(***************************************************************************)
EXTENDS Baxos

Hash(w, d, b) == [win |-> w, dense |-> d, bin |-> b]

\* Windows whose rows overlap in every way three of five columns can: the
\* same columns in the same and in another order, and the triples {0,1,2},
\* {0,1,3}, {0,2,3}, {1,2,3} that cannot be peeled together.
Wins ==
  {<<0, 0, 0>>, <<2, 1, 0>>, <<5, 4, 1>>, <<3, 1, 0>>, <<0, 2, 4>>, <<1, 1, 1>>, <<0, 3, 0>>,
   <<9, 7, 2>>, <<1, 2, 5>>}

Keys3(W, D, B) ==
  {<<Hash(u, d[1], b[1]), Hash(v, d[2], b[2]), Hash(w, d[3], b[3])>> : u, v, w \in W, d \in D, b \in B}

\* A key given twice, next to each other or not.
Twice(K) ==
  {[k EXCEPT ![2] = k[1]] : k \in K} \cup {[k EXCEPT ![3] = k[1]] : k \in K}
    \cup {[k EXCEPT ![3] = k[2]] : k \in K}

Calls(K, B, G) ==
  {[keys |-> k, bins |-> B, dt |-> dt, rand |-> r, add |-> r, G |-> g] :
     k \in K, dt \in {"GF128", "Binary"}, r \in BOOLEAN, g \in G}

MCSingle ==
  LET K == Keys3(Wins, {<<3, 5, 14>>}, {<<0, 0, 0>>})
      L == Keys3({<<0, 0, 0>>, <<1, 1, 0>>, <<4, 7, 2>>}, {<<3, 5, 14>>, <<1, 2, 3>>}, {<<0, 0, 0>>})
  IN Calls(K, 1, {2}) \cup Calls(L \cup Twice(L), 1, {1, 2})

\* Two bins, two threads, four keys: all ways to distribute them.
MCBinned ==
  {[keys |-> <<Hash(<<0, 0, 0>>, 3, b[1]), Hash(<<1, 1, 0>>, 5, b[2]),
               Hash(<<5, 0, 0>>, 14, b[3]), Hash(<<4, 7, 2>>, 9, b[4])>>,
    bins |-> 2, dt |-> dt, rand |-> r, add |-> ~r, G |-> 2] :
     b \in [1 .. 4 -> {2, 5}], dt \in {"GF128", "Binary"}, r \in BOOLEAN}

MCInstances == MCSingle \cup MCBinned

\* Two outputs of the generator.
MCTapes ==
  {[k \in 0 .. 30 |-> (7 * k + 3) % 16], [k \in 0 .. 30 |-> (k * k + 5 * k + 1) % 13]}
=============================================================================
