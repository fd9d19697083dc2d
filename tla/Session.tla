------------------------------ MODULE Session -------------------------------
(***************************************************************************)
(* A run of the program (fpsi_protocol.cpp): connect, run the offline      *)
(* phases of both parties in two threads, join them, run the online        *)
(* phases, join them, report the traffic.                                  *)
(*                                                                         *)
(* A thread is the sequence of the operations it has left.  uFmap is the   *)
(* protocol of UFmap; of the other protocols, which LinfFpsi, LpFpsi, Fmap *)
(* and Oprf model, only who sends when counts here.  What the report says  *)
(* is put together from counters that both phases share (fpsi_base.h).     *)
(***************************************************************************)
EXTENDS UFmap, SequencesExt, FiniteSetsExt

CONSTANT Calls   \* the command lines considered, each with the points it samples

ASSUME CallsAssumption ==
  \A c \in Calls : /\ c.run \in {"fmap", "psi"} /\ c.pts \in Inputs
                   /\ {c.fm, c.metric, c.size, c.intersection} \subseteq Nat

VARIABLES
  call,    \* the command line
  drv,     \* where the driver stands
  socks,   \* the number of sockets connected
  main,    \* the operations left in the main thread of each party
  dims,    \* the operations left in its thread of each dimension
  wire,    \* the messages sent to a party on a socket and not arrived yet
  buf,     \* the messages arrived and not read yet
  sent,    \* mBytesSent of a party's socket
  rcvd,    \* mBytesReceived
  commus,  \* the sum of the entries of commus
  total,   \* total_com
  online   \* what the online phases have really sent

counters == <<sent, rcvd, commus>>
sessionVars == <<call, drv, socks, main, dims, wire, buf, counters, total, online>>
vars == <<mapVars, sessionVars>>

-----------------------------------------------------------------------------
(* The command line. *)

\* fm_type, with the default of the switch.
FmType == IF call.fm \in (IF call.run = "fmap" THEN 0 .. 1 ELSE 0 .. 2) THEN call.fm ELSE 0

\* run_fmap_protocol builds both parties for metric 0.
Metric == IF call.run = "fmap" THEN 0 ELSE call.metric

NumSocks == IF call.run = "fmap" THEN 1 ELSE DIM
Sock == 0 .. DIM - 1

-----------------------------------------------------------------------------
(* The operations of a thread. *)

\* The part of party p in an exchange over socket s; who lists the senders.
Talk(p, s, who) ==
  [k \in 1 .. Len(who) |-> <<IF who[k] = p THEN "send" ELSE "recv", s>>]

Reset == <<<<"reset", 0>>>>
Insert(s) == <<<<"insert", s>>>>

\* Silent VOLE; the first messages of an OPPRF programmed by q; the batched
\* equality test; random OT and its conversion.
VoleTalk == <<"R", "S">>
OpprfTalk(q) == <<q, Other(q), q>>
PeqtTalk == <<"R", "S">>
OtTalk == <<"R", "S", "S", "S">>

\* setUp of cmp_fmap: VOLE and the two seeds.  setUp of uFmap sends nothing.
SetUp(p) ==
  IF FmType = 0 THEN Talk(p, 0, VoleTalk \o <<"S", "R">>) ELSE <<>>

OfflineVole(p) == IF Metric > 1 THEN Talk(p, 0, VoleTalk) \o Reset ELSE <<>>

\* sh_fmap_offline: the receiver takes the cells its balls reach; the
\* sender's own cells need no metric.
Cells(p) == IF p = "R" THEN <<<<"cells", 0>>>> ELSE <<>>

\* Mutant: the counters keep the traffic of setUp.
OfflineKeep(p) ==
  (IF FmType = 2 THEN Cells(p) ELSE SetUp(p)) \o OfflineVole(p)

\* psi_offline_cmp and psi_offline_sh; cmp_fmap_offline is the same without
\* the VOLE.
Offline(p) ==
  (IF FmType = 2 THEN Cells(p) ELSE SetUp(p) \o Reset) \o OfflineVole(p)

\* cmp_fmap_online.
FmapOnline(p) ==
  CASE FmType = 0 -> Talk(p, 0, <<"S", "S", "R", "S", "R", "R", "S", "R">>) \o Insert(0)
    [] FmType = 1 -> <<<<"ufmap", 0>>>> \o Insert(0)
    [] FmType = 2 -> <<>>

\* A thread of mp_ssFMat.
DimThread(p, d) ==
  Talk(p, d, <<"R", "S">>) \o Talk(p, d, OpprfTalk("R")) \o Insert(d)
    \o Talk(p, d, OpprfTalk("S")) \o Insert(d)

\* What follows the threads: the equality test, or ssIFMat around it.
AfterDims(p) ==
  (IF Metric = 0 THEN <<>>
   ELSE Talk(p, 0, <<"R", "S">> \o OpprfTalk("R") \o OpprfTalk("S")))
    \o Talk(p, 0, PeqtTalk) \o Insert(0)

\* psi_online_cmp and psi_online_sh, or cmp_fmap_online alone.
Online(p) ==
  FmapOnline(p) \o
  (IF call.run = "fmap" THEN <<>>
   ELSE <<<<"fork", 0>>, <<"join", 0>>>> \o AfterDims(p) \o Talk(p, 0, OtTalk) \o Insert(0))

-----------------------------------------------------------------------------
(* The driver. *)

Zero == [p \in Party |-> [s \in Sock |-> 0]]

Init ==
  /\ UInit
  /\ call \in Calls /\ pts = call.pts
  /\ drv = "start" /\ socks = 0
  /\ main = [p \in Party |-> <<>>]
  /\ dims = [p \in Party |-> [d \in Dim |-> <<>>]]
  /\ wire = Zero /\ buf = Zero /\ sent = Zero /\ rcvd = Zero
  /\ commus = [p \in Party |-> 0]
  /\ total = 0 /\ online = 0

\* run_fpsi_protocol_extra returns at once when more points are to be shared
\* than there are.
Refused == call.run = "psi" /\ call.intersection > call.size

Start ==
  /\ drv = "start"
  /\ drv' = IF Refused THEN "end" ELSE "connect"
  /\ UNCHANGED <<mapVars, call, socks, main, dims, wire, buf, counters, total, online>>

\* init_socks of both threads: one asioConnect meets the other.
Connect ==
  /\ drv = "connect" /\ socks < NumSocks
  /\ socks' = socks + 1
  /\ UNCHANGED <<mapVars, call, drv, main, dims, wire, buf, counters, total, online>>

StartOffline ==
  /\ drv = "connect" /\ socks = NumSocks
  /\ drv' = "offline"
  /\ main' = [p \in Party |-> Offline(p)]
  /\ UNCHANGED <<mapVars, call, socks, dims, wire, buf, counters, total, online>>

Joined == \A p \in Party : main[p] = <<>>

StartOnline ==
  /\ drv = "offline" /\ Joined
  /\ drv' = "online"
  /\ main' = [p \in Party |-> Online(p)]
  /\ UNCHANGED <<mapVars, call, socks, dims, wire, buf, counters, total, online>>

\* Result statistics.
Report ==
  /\ drv = "online" /\ Joined
  /\ drv' = "end"
  /\ total' = MapThenSumSet(LAMBDA a : rcvd[a[1]][a[2]], Party \X (0 .. NumSocks - 1))
  /\ UNCHANGED <<mapVars, call, socks, main, dims, wire, buf, counters, online>>

Driver == Start \/ Connect \/ StartOffline \/ StartOnline \/ Report

-----------------------------------------------------------------------------
(* One operation of a thread. *)

Count(n) == online' = IF drv = "online" THEN online + n ELSE online

\* Socket::send: party p puts a message on socket s.
DoSend(p, s) ==
  /\ wire' = [wire EXCEPT ![Other(p)][s] = @ + 1]
  /\ sent' = [sent EXCEPT ![p][s] = @ + 1]
  /\ Count(1)
  /\ UNCHANGED <<buf, rcvd, commus>>

\* Socket::recv.
DoRecv(p, s) ==
  /\ buf[p][s] > 0
  /\ buf' = [buf EXCEPT ![p][s] = @ - 1]
  /\ UNCHANGED <<wire, counters, online>>

DoReset(p, s) ==
  /\ sent' = [sent EXCEPT ![p][s] = 0]
  /\ rcvd' = [rcvd EXCEPT ![p][s] = 0]
  /\ UNCHANGED <<wire, buf, commus, online>>

\* insert_commus, under its mutex.
DoInsert(p, s) ==
  /\ commus' = [commus EXCEPT ![p] = @ + sent[p][s]]
  /\ sent' = [sent EXCEPT ![p][s] = 0]
  /\ UNCHANGED <<wire, buf, rcvd, online>>

Operation(p, op) ==
  \/ op[1] = "send" /\ DoSend(p, op[2])
  \/ op[1] = "recv" /\ DoRecv(p, op[2])
  \/ op[1] = "insert" /\ DoInsert(p, op[2])

MainOperation(p) ==
  /\ Running /\ main[p] # <<>>
  /\ \/ Operation(p, Head(main[p]))
     \/ Head(main[p])[1] = "reset" /\ DoReset(p, Head(main[p])[2])
  /\ main' = [main EXCEPT ![p] = Tail(@)]
  /\ UNCHANGED <<mapVars, call, drv, socks, dims, total>>

ThreadOperation(p, d) ==
  /\ Running /\ dims[p][d] # <<>>
  /\ Operation(p, Head(dims[p][d]))
  /\ dims' = [dims EXCEPT ![p][d] = Tail(@)]
  /\ UNCHANGED <<mapVars, call, drv, socks, main, total>>

\* intersection throws for a metric it does not know, in the thread of the
\* party, which ends the process.
SpatialHash(p) ==
  /\ Running /\ main[p] # <<>> /\ Head(main[p])[1] = "cells"
  /\ IF Metric \in 0 .. 2
     THEN main' = [main EXCEPT ![p] = Tail(@)] /\ UNCHANGED pc
     ELSE Goto(p, "threw") /\ UNCHANGED main
  /\ UNCHANGED <<pts, inbox, decoded, out, call, drv, socks, dims, wire, buf, counters, total, online>>

\* The threads of the dimensions are started, and joined.
ForkDims(p) ==
  /\ Running /\ main[p] # <<>> /\ Head(main[p])[1] = "fork"
  /\ dims' = [dims EXCEPT ![p] = [d \in Dim |-> DimThread(p, d)]]
  /\ main' = [main EXCEPT ![p] = Tail(@)]
  /\ UNCHANGED <<mapVars, call, drv, socks, wire, buf, counters, total, online>>

JoinDims(p) ==
  /\ Running /\ main[p] # <<>> /\ Head(main[p])[1] = "join"
  /\ \A d \in Dim : dims[p][d] = <<>>
  /\ main' = [main EXCEPT ![p] = Tail(@)]
  /\ UNCHANGED <<mapVars, call, drv, socks, dims, wire, buf, counters, total, online>>

\* A step of fuzzyMap over socket 0, which may read and send messages.
FuzzyMap(p) ==
  /\ main[p] # <<>> /\ Head(main[p])[1] = "ufmap"
  /\ FuzzyMapStep(p)
  /\ LET reads == Len(inbox[p]) - Len(inbox'[p])
         sends == Len(inbox'[Other(p)]) - Len(inbox[Other(p)])
     IN /\ buf[p][0] >= reads
        /\ buf' = [buf EXCEPT ![p][0] = @ - reads]
        /\ wire' = [wire EXCEPT ![Other(p)][0] = @ + sends]
        /\ sent' = [sent EXCEPT ![p][0] = @ + sends]
        /\ Count(sends)
  /\ main' = [main EXCEPT ![p] = IF pc'[p] = "done" THEN Tail(@) ELSE @]
  /\ UNCHANGED <<call, drv, socks, dims, rcvd, commus, total>>

\* The socket's own thread takes a message in and counts it.
Arrive(p, s) ==
  /\ Running /\ wire[p][s] > 0
  /\ wire' = [wire EXCEPT ![p][s] = @ - 1]
  /\ buf' = [buf EXCEPT ![p][s] = @ + 1]
  /\ rcvd' = [rcvd EXCEPT ![p][s] = @ + 1]
  /\ UNCHANGED <<mapVars, call, drv, socks, main, dims, sent, commus, total, online>>

PartyMain(p) == MainOperation(p) \/ SpatialHash(p) \/ ForkDims(p) \/ JoinDims(p) \/ FuzzyMap(p)

Ended == drv = "end" \/ ~Running

Terminated == Ended /\ UNCHANGED vars

Next ==
  \/ Driver
  \/ \E p \in Party : PartyMain(p)
  \/ \E p \in Party, d \in Dim : ThreadOperation(p, d)
  \/ \E p \in Party, s \in Sock : Arrive(p, s)
  \/ Terminated

Spec == Init /\ [][Next]_vars

\* Every thread runs until it returns, and the sockets deliver.
FairSpec ==
  /\ Spec
  /\ WF_vars(Driver)
  /\ \A p \in Party : WF_vars(PartyMain(p))
  /\ \A p \in Party, d \in Dim : WF_vars(ThreadOperation(p, d))
  /\ \A p \in Party, s \in Sock : WF_vars(Arrive(p, s))

-----------------------------------------------------------------------------
(* Properties. *)

\* The reported total is the traffic of the online phases, neither less nor
\* more, and the entries of the parties add up to it: no reset of the
\* offline phases takes online bytes away, and every byte is entered once.
TrafficExact ==
  drv = "end" /\ ~Refused => total = online /\ commus["R"] + commus["S"] = online

\* The program reports its result, for every command line: with uFmap if no
\* coordinate is ambiguous, with spatial hashing if the metric is known.
Completes ==
  (FmType = 1 => Unambiguous) /\ (FmType = 2 => Metric \in 0 .. 2) => <>(drv = "end")
=============================================================================
