--------------------------- MODULE SorterNetwork ---------------------------
(***************************************************************************)
(* The packet sorter behind a network: the numbering of the sending        *)
(* devices (ovbox_udpsocket_t::packmsg), a network that loses, duplicates  *)
(* and reorders datagrams within given limits, and the receiving client    *)
(* (MessageSorter).  The n-th packet of a stream keeps its number n as a   *)
(* history value next to its 16 bit sequence number, so that order can be  *)
(* stated independently of the numbering.                                  *)
(***************************************************************************)
EXTENDS MessageSorter, Sequences, FiniteSetsExt

CONSTANTS
  Networks,     \* what senders and network may do: see Network
  MaxSent       \* bound: packets per stream in any network

(* n is the number of the packet in its stream, 0 for a stray one. *)
Packet == [cid : Cid, destport : Port, seq : SeqNum, n : 0 .. MaxSent]

(* sending   the streams (device, port) that are in use                    *)
(* start     values of a sender's counter when the receiver joins          *)
(* sent      bound: packets per stream                                     *)
(* flight    bound: packets of a stream on their way at a time             *)
(* overtake  packets of its stream that may overtake a packet              *)
(* loss, dup bounds: packets lost and duplicated                           *)
(* stray     datagrams without a place in a stream that may arrive at any  *)
(*           time: from a session before, or of a sender that restarted    *)
(* arrivals  bound: datagrams received                                     *)
Network ==
  [sending : SUBSET Stream, start : SUBSET SeqNum, sent : 0 .. MaxSent,
   flight : Nat, overtake : Nat, loss : Nat, dup : Nat, stray : SUBSET Packet,
   arrivals : 0 .. MaxArrived]

ASSUME NetworkAssumption ==
  /\ MaxSent \in Nat
  /\ \A k \in Networks : /\ k.stray \subseteq Packet
                          /\ [k EXCEPT !.stray = {}] \in Network

VARIABLES
  net,       \* the network
  seqmap,    \* sequence_map_t of every sender
  sent,      \* history: number of packets packed per stream
  inflight,  \* packets in the network
  origin,    \* history: origin[i] is the packet the i-th datagram carried
  losses,    \* history: packets lost by the network
  dups       \* history: packets duplicated by the network

netVars == <<net, seqmap, sent, inflight, origin, losses, dups>>
allVars == <<vars, netVars>>

NetTypeOK ==
  /\ TypeOK
  /\ net \in Networks
  /\ seqmap \in [Stream -> SeqNum]
  /\ sent \in [Stream -> 0 .. MaxSent]
  /\ inflight \subseteq Packet
  /\ origin \in Seq(Packet) /\ Len(origin) = arrived
  /\ losses \in 0 .. net.loss /\ dups \in 0 .. net.dup

NetInit ==
  /\ Init
  /\ net \in Networks
  /\ seqmap \in {[s \in Stream |-> q] : q \in net.start}
  /\ sent = [s \in Stream |-> 0]
  /\ inflight = {}
  /\ origin = <<>>
  /\ losses = 0
  /\ dups = 0

(* Mutant: the counter is wider than the field. *)
WideSeq(p, q) == IF p >= MAXSPECIALPORT THEN q + 1 ELSE q

(* The number a packet for port p gets when the last one had number q:     *)
(* control messages carry 0; the counter of the boundary port              *)
(* MAXSPECIALPORT advances like that of a data port.                       *)
NextSeq(p, q) == IF p >= MAXSPECIALPORT THEN Wrap(q + 1) ELSE q

PackMsg(c, p) ==
  LET s == <<c, p>> IN
  /\ sent[s] < net.sent
  /\ Cardinality({k \in inflight : StreamOf(k) = s}) < net.flight
  /\ sent' = [sent EXCEPT ![s] = @ + 1]
  /\ seqmap' = [seqmap EXCEPT ![s] = NextSeq(p, @)]
  /\ inflight' = inflight \cup
       {[cid |-> c, destport |-> p, n |-> sent[s] + 1,
         seq |-> IF p >= MAXSPECIALPORT THEN seqmap'[s] ELSE 0]}
  /\ UNCHANGED <<vars, net, origin, losses, dups>>

Older(k) == {j \in inflight : StreamOf(j) = StreamOf(k) /\ j.n < k.n}

Overtakers(j) ==
  {i \in DOMAIN origin : StreamOf(origin[i]) = StreamOf(j) /\ origin[i].n > j.n}

(* The network delivers k, passing at most net.overtake older packets.      *)
InOrderEnough(k) ==
  /\ Cardinality(Older(k)) <= net.overtake
  /\ \A j \in Older(k) : Cardinality(Overtakers(j)) < net.overtake

Arrive(k) ==
  /\ InOrderEnough(k) /\ arrived < net.arrivals
  /\ Recv(k.cid, k.destport, k.seq)
  /\ origin' = Append(origin, k)
  /\ \/ inflight' = inflight \ {k} /\ UNCHANGED dups
     \/ dups < net.dup /\ dups' = dups + 1 /\ UNCHANGED inflight
  /\ UNCHANGED <<net, seqmap, sent, losses>>

Stray(k) ==
  /\ arrived < net.arrivals
  /\ Recv(k.cid, k.destport, k.seq)
  /\ origin' = Append(origin, k)
  /\ UNCHANGED <<net, seqmap, sent, inflight, losses, dups>>

Lose(k) ==
  /\ losses < net.loss
  /\ losses' = losses + 1
  /\ inflight' = inflight \ {k}
  /\ UNCHANGED <<vars, net, seqmap, sent, origin, dups>>

NetNext ==
  \/ \E s \in net.sending : PackMsg(s[1], s[2])
  \/ \E k \in net.stray : Stray(k)
  \/ \E k \in inflight : Arrive(k) \/ Lose(k)
  \/ (RecvNothing \/ process) /\ UNCHANGED netVars

NetSpec == NetInit /\ [][NetNext]_allVars

(* The receiving thread keeps running: after each datagram it completes    *)
(* the loop, and a silent socket times out (set_timeout_usec, 113-119).    *)
NetFairSpec == NetSpec /\ WF_allVars(process /\ UNCHANGED netVars)
                       /\ WF_allVars(RecvNothing /\ UNCHANGED netVars)


----------------------------------------------------------------------------
SameStream(i, j) == StreamOf(origin[i]) = StreamOf(origin[j])

(* All datagrams carry packets of a stream, and each carries another one.  *)
Single == net.stray = {} /\ net.dup = 0
InOrder == Single /\ net.overtake = 0

Follows ==
  \A k \in delivered' \ delivered : \A j \in delivered :
    SameStream(j, k) => origin[j].n <= origin[k].n

(* Messages of a stream are handed out in the order they were sent         *)
(* ("Sort out-of-order messages", ovboxclient.h:47-53), if the network     *)
(* keeps the order.                                                        *)
OrderKept == [][InOrder => Follows]_allVars

(* The network keeps the order, and no number the receiver compares has    *)
(* wrapped.                                                                *)
Straight == InOrder /\ net.start = {0} /\ net.sent < Half

(* The data of one stream on a network that swaps neighbours and has lost  *)
(* nothing.  The buffers are shared by all streams: a second one may take  *)
(* the place of a message that waits for its neighbour.                    *)
Neighbours ==
  /\ Single /\ net.overtake <= 1 /\ net.start = {0} /\ losses = 0
  /\ \E s \in Stream : net.sending = {s} /\ s[2] > MAXSPECIALPORT

(* Messages of a stream are handed out in the order they were sent, if the *)
(* network keeps the order and the numbers do not wrap, or, across the     *)
(* wrap, if one stream has neighbours swapped ("series like 1-2-4-3-5",    *)
(* ovboxclient.h:47-53).                                                   *)
OrderKeptUnwrapped == [][Straight \/ Neighbours => Follows]_allVars

(* Nothing that arrived is lost in the sorter while the network loses      *)
(* nothing and only swaps neighbours of one stream.                        *)
NothingDropped == Neighbours => dropped = {}

(* A message that arrived is only overwritten in buf1 when the gap it      *)
(* opened is followed at once by another one: on a network that keeps the  *)
(* order every drop costs at least one loss, plus one for the last gap.    *)
DropsBelowLosses ==
  Straight /\ dropped # {} => Cardinality(dropped) < losses

(* The datagrams the sorter has looked at. *)
Taken == 1 .. (IF Sorting THEN arrived - 1 ELSE arrived)

Arrivals(s) == {i \in Taken : StreamOf(origin[i]) = s}

FirstOf(s) == origin[Min(Arrivals(s))].n
LastOf(s) == origin[Max(Arrivals(s))].n

(* The packets of a device up to the last one that came of each stream,    *)
(* and up to the first one.                                                *)
Reached(c) ==
  {x \in known \X (1 .. MaxSent) : x[1][1] = c /\ x[2] <= LastOf(x[1])}
Before(c) ==
  {x \in known \X (1 .. MaxSent) : x[1][1] = c /\ x[2] <= FirstOf(x[1])}

Earlier(i) == {j \in Arrivals(StreamOf(origin[i])) : j < i}

(* Data of a device that differ from what came before in their stream.     *)
Moves(c) ==
  {i \in Taken :
     /\ origin[i].cid = c /\ StreamOf(origin[i]) \in known
     /\ Earlier(i) # {} /\ origin[Max(Earlier(i))].n # origin[i].n}

(* What comes from the senders, and no two packets of a stream that come   *)
(* one after the other are half the range of the numbers apart.            *)
NoJump ==
  /\ net.stray = {}
  /\ net.sent <= Half \/ net.loss + 2 * net.overtake + 1 < Half

(* The lost counter of a device is the span of the packet numbers that     *)
(* came, over its streams, minus the packets: reordering and repetition    *)
(* cancel out, across the wrap of the sequence numbers                     *)
(* (ovboxclient.cc:691-692).                                               *)
LostIsGapBalance ==
  NoJump =>
    \A c \in Cid :
      stat[c].lost = Cardinality(Reached(c)) - Cardinality(Before(c))
                     - Cardinality(Moves(c))

(* On a network that keeps the order no sequence error is reported, on the *)
(* way in or out, however many packets are missing, before the numbers     *)
(* wrap.                                                                   *)
NoFalseSeqErr ==
  Straight => \A c \in Cid : stat[c].seqerr_in = 0 /\ stat[c].seqerr_out = 0

(* "Set the deadline to wait for packages in case reordering is required": *)
(* a message held back for a missing one is released when the wait ends.   *)
HeldUntilDeadline == (pc = "recv" /\ buf1.valid) ~> ~buf1.valid
=============================================================================
