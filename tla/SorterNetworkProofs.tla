------------------------ MODULE SorterNetworkProofs ------------------------
(***************************************************************************)
(* Theorems about the packet sorter behind a network, for every set of     *)
(* networks, every width of the sequence numbers and any number of packets.*)
(***************************************************************************)
EXTENDS SorterNetwork, MessageSorterProofs, FiniteSetTheorems, FunctionTheorems

----------------------------------------------------------------------------
(* Sequence numbers.                                                       *)

LEMMA WrapSmall == ASSUME NEW x \in SeqNum PROVE Wrap(x) = x
  BY SorterAssumption DEF Wrap, SeqNum

LEMMA WrapType == ASSUME NEW x \in Int PROVE Wrap(x) \in SeqNum
  BY SorterAssumption DEF Wrap, SeqNum

(* The counter of a sender runs through the numbers of its packets.        *)
LEMMA WrapStep == ASSUME NEW x \in Int PROVE Wrap(Wrap(x) + 1) = Wrap(x + 1)
  BY SorterAssumption DEF Wrap

----------------------------------------------------------------------------
(* The network is fixed, and its steps are steps of the sorter.            *)

LEMMA NetFacts ==
  ASSUME NEW k \in Networks
  PROVE  /\ k.sending \subseteq Stream /\ k.start \subseteq SeqNum
         /\ k.sent \in 0 .. MaxSent /\ k.sent \in Nat
         /\ k.flight \in Nat /\ k.overtake \in Nat
         /\ k.loss \in Nat /\ k.dup \in Nat /\ k.stray \subseteq Packet
  <1>1. k.stray \subseteq Packet /\ [k EXCEPT !.stray = {}] \in Network
    BY NetworkAssumption
  <1>2. MaxSent \in Nat
    BY NetworkAssumption
  <1> QED
    BY <1>1, <1>2 DEF Network

NetInv == IInv /\ NetTypeOK /\ IsFiniteSet(inflight)

LEMMA NetInvInit == NetInit => NetInv
  <1> SUFFICES ASSUME NetInit PROVE NetInv
    OBVIOUS
  <1>1. IInv /\ TypeOK
    BY IInvInit DEF NetInit, IInv
  <1>2. net \in Networks /\ seqmap \in [Stream -> SeqNum]
    BY NetFacts DEF NetInit
  <1>3. sent \in [Stream -> 0 .. MaxSent] /\ losses \in 0 .. net.loss
        /\ dups \in 0 .. net.dup
    BY <1>2, NetFacts, NetworkAssumption DEF NetInit
  <1>4. inflight \subseteq Packet /\ IsFiniteSet(inflight)
    BY FS_EmptySet DEF NetInit
  <1>5. origin \in Seq(Packet) /\ Len(origin) = arrived
    BY DEF NetInit, Init
  <1> QED
    BY <1>1, <1>2, <1>3, <1>4, <1>5 DEF NetInv, NetTypeOK

LEMMA SenderFacts ==
  ASSUME net \in Networks, NEW s \in net.sending
  PROVE  s[1] \in Cid /\ s[2] \in Port /\ s = <<s[1], s[2]>> /\ s \in Stream
  BY NetFacts DEF Stream

LEMMA PacketFacts ==
  ASSUME NEW k \in Packet
  PROVE  /\ k.cid \in Cid /\ k.destport \in Port /\ k.seq \in SeqNum
         /\ k.seq \in Int /\ k.n \in Nat /\ StreamOf(k) \in Stream
  BY SorterAssumption, NetworkAssumption DEF Packet, StreamOf, Stream, SeqNum

LEMMA NetNextIsNext == NetTypeOK /\ [NetNext]_allVars => [Next]_vars
  <1> SUFFICES ASSUME NetTypeOK, [NetNext]_allVars PROVE [Next]_vars
    OBVIOUS
  <1>1. ASSUME NEW s, PackMsg(s[1], s[2]) PROVE UNCHANGED vars
    BY <1>1 DEF PackMsg
  <1>2. ASSUME NEW k \in net.stray, Stray(k) PROVE Next
    <2>1. k \in Packet
      BY NetFacts DEF NetTypeOK
    <2> QED
      BY <1>2, <2>1, PacketFacts DEF Stray, Next
  <1>3. ASSUME NEW k \in inflight, Arrive(k) PROVE Next
    <2>1. k \in Packet
      BY DEF NetTypeOK
    <2> QED
      BY <1>3, <2>1, PacketFacts DEF Arrive, Next
  <1>4. ASSUME NEW k \in inflight, Lose(k) PROVE UNCHANGED vars
    BY <1>4 DEF Lose
  <1>5. CASE RecvNothing \/ process
    BY <1>5 DEF Next
  <1>6. CASE UNCHANGED allVars
    BY <1>6 DEF allVars
  <1> QED
    BY <1>1, <1>2, <1>3, <1>4, <1>5, <1>6 DEF NetNext

(* A new packet of stream <<c, p>>.                                        *)
Packed(c, p) ==
  [cid |-> c, destport |-> p, n |-> sent[<<c, p>>] + 1,
   seq |-> IF p >= MAXSPECIALPORT THEN seqmap'[<<c, p>>] ELSE 0]

LEMMA PackFacts ==
  ASSUME NetInv, NEW c \in Cid, NEW p \in Port, PackMsg(c, p)
  PROVE  /\ <<c, p>> \in Stream /\ sent[<<c, p>>] + 1 <= net.sent
         /\ sent[<<c, p>>] \in Nat /\ net.sent <= MaxSent /\ net.sent \in Nat
         /\ MaxSent \in Nat
         /\ sent' = [sent EXCEPT ![<<c, p>>] = @ + 1]
         /\ seqmap' = [seqmap EXCEPT ![<<c, p>>] = NextSeq(p, @)]
         /\ NextSeq(p, seqmap[<<c, p>>]) \in SeqNum
         /\ Packed(c, p) \in Packet /\ StreamOf(Packed(c, p)) = <<c, p>>
         /\ inflight' = inflight \cup {Packed(c, p)}
  <1>1. <<c, p>> \in Stream
    BY DEF Stream
  <1>2. net \in Networks /\ seqmap[<<c, p>>] \in SeqNum /\ MaxSent \in Nat
    BY <1>1, NetworkAssumption DEF NetInv, NetTypeOK
  <1>3. net.sent \in 0 .. MaxSent /\ sent[<<c, p>>] \in 0 .. MaxSent
    BY <1>1, <1>2, NetFacts DEF NetInv, NetTypeOK
  <1>4. sent[<<c, p>>] < net.sent
    BY DEF PackMsg
  <1>5. NextSeq(p, seqmap[<<c, p>>]) \in SeqNum
    <2>1. seqmap[<<c, p>>] + 1 \in Int
      BY <1>2, SorterAssumption DEF SeqNum
    <2> QED
      BY <1>2, <2>1, WrapType DEF NextSeq
  <1>6. seqmap'[<<c, p>>] \in SeqNum /\ 0 \in SeqNum
    <2>1. seqmap' = [seqmap EXCEPT ![<<c, p>>] = NextSeq(p, @)]
      BY DEF PackMsg
    <2>2. seqmap \in [Stream -> SeqNum]
      BY DEF NetInv, NetTypeOK
    <2>3. seqmap'[<<c, p>>] = NextSeq(p, seqmap[<<c, p>>])
      BY <1>1, <2>1, <2>2
    <2> QED
      BY <1>5, <2>3, SorterAssumption DEF SeqNum
  <1>7. Packed(c, p) \in Packet
    BY <1>2, <1>3, <1>4, <1>6 DEF Packed, Packet
  <1>8. StreamOf(Packed(c, p)) = <<c, p>>
    BY DEF Packed, StreamOf
  <1> QED
    BY <1>1, <1>2, <1>3, <1>4, <1>5, <1>7, <1>8 DEF PackMsg, Packed

(* A datagram is appended to the history of arrivals.                      *)
LEMMA ArrivalFacts ==
  ASSUME NetInv, NEW k \in Packet, Recv(k.cid, k.destport, k.seq),
         origin' = Append(origin, k)
  PROVE  /\ origin' \in Seq(Packet) /\ Len(origin') = arrived'
         /\ arrived' = arrived + 1 /\ arrived \in Nat
         /\ DOMAIN origin = 1 .. arrived /\ DOMAIN origin' = 1 .. arrived'
         /\ \A i \in 1 .. arrived : origin'[i] = origin[i]
         /\ origin'[arrived'] = k
  BY DEF NetInv, NetTypeOK, TypeOK, Recv

LEMMA NetInvNext == NetInv /\ [NetNext]_allVars => NetInv'
  <1> SUFFICES ASSUME NetInv, [NetNext]_allVars PROVE NetInv'
    OBVIOUS
  <1>1. IInv' /\ TypeOK'
    BY NetNextIsNext, IInvNext DEF NetInv, IInv
  <1>2. ASSUME NEW c \in Cid, NEW p \in Port, PackMsg(c, p) PROVE NetInv'
    <2>1. /\ <<c, p>> \in Stream /\ sent[<<c, p>>] + 1 \in 0 .. MaxSent
          /\ sent' = [sent EXCEPT ![<<c, p>>] = @ + 1]
          /\ seqmap' = [seqmap EXCEPT ![<<c, p>>] = NextSeq(p, @)]
          /\ NextSeq(p, seqmap[<<c, p>>]) \in SeqNum
          /\ Packed(c, p) \in Packet
          /\ inflight' = inflight \cup {Packed(c, p)}
      BY <1>2, PackFacts
    <2>2. seqmap' \in [Stream -> SeqNum] /\ sent' \in [Stream -> 0 .. MaxSent]
      BY <2>1 DEF NetInv, NetTypeOK
    <2>3. inflight' \subseteq Packet /\ IsFiniteSet(inflight')
      BY <2>1, FS_AddElement DEF NetInv, NetTypeOK
    <2> QED
      BY <1>1, <1>2, <2>2, <2>3 DEF NetInv, NetTypeOK, PackMsg, vars
  <1>3. ASSUME NEW k \in net.stray, Stray(k) PROVE NetInv'
    <2>1. k \in Packet
      BY NetFacts DEF NetInv, NetTypeOK
    <2> QED
      BY <1>1, <1>3, <2>1, ArrivalFacts DEF NetInv, NetTypeOK, Stray
  <1>4. ASSUME NEW k \in inflight, Arrive(k) PROVE NetInv'
    <2>1. k \in Packet
      BY DEF NetInv, NetTypeOK
    <2>2. inflight' \subseteq inflight /\ IsFiniteSet(inflight')
      BY <1>4, FS_Subset DEF Arrive, NetInv
    <2>3. net.dup \in Nat
      BY NetFacts DEF NetInv, NetTypeOK
    <2>4. dups' \in 0 .. net.dup
      BY <1>4, <2>3 DEF Arrive, NetInv, NetTypeOK
    <2> QED
      BY <1>1, <1>4, <2>1, <2>2, <2>4, ArrivalFacts DEF NetInv, NetTypeOK, Arrive
  <1>5. ASSUME NEW k \in inflight, Lose(k) PROVE NetInv'
    <2>1. inflight' \subseteq inflight /\ IsFiniteSet(inflight')
      BY <1>5, FS_Subset DEF Lose, NetInv
    <2>2. net.loss \in Nat
      BY NetFacts DEF NetInv, NetTypeOK
    <2>3. losses' \in 0 .. net.loss
      BY <1>5, <2>2 DEF Lose, NetInv, NetTypeOK
    <2> QED
      BY <1>1, <1>5, <2>1, <2>3 DEF NetInv, NetTypeOK, Lose, vars
  <1>6. CASE (RecvNothing \/ process) /\ UNCHANGED netVars
    <2>1. arrived' = arrived
      BY <1>6 DEF RecvNothing, process, SortSpecial, SortHold, SortRelease,
                  SortPass, DrainBuf1, DrainBuf2, SortDone
    <2> QED
      BY <1>1, <1>6, <2>1 DEF NetInv, NetTypeOK, netVars
  <1>7. CASE UNCHANGED allVars
    BY <1>1, <1>7 DEF NetInv, NetTypeOK, allVars, netVars, vars
  <1>8. ASSUME NEW s \in net.sending, PackMsg(s[1], s[2]) PROVE NetInv'
    BY <1>2, <1>8, SenderFacts DEF NetInv, NetTypeOK
  <1> QED
    BY <1>3, <1>4, <1>5, <1>6, <1>7, <1>8 DEF NetNext

(* NetInv holds in every state of the sorter behind a network. *)
THEOREM NetInvariance == NetSpec => []NetInv
  BY NetInvInit, NetInvNext, PTL DEF NetSpec

(* Senders, network and sorter keep their types: the counter of a stream   *)
(* never leaves sequence_t (udpsocket.cc:390-399), and every number the    *)
(* sorter compares comes from a packet.                                    *)
THEOREM NetTypeCorrect == NetSpec => []NetTypeOK
  <1>1. NetInv => NetTypeOK
    BY DEF NetInv
  <1> QED
    BY <1>1, NetInvariance, PTL

(* The sorter behind a network is a sorter: what is proved of it for       *)
(* arbitrary datagrams holds for those of the senders.                     *)
THEOREM NetRefines == NetSpec => Spec
  <1>1. NetInit => Init
    BY DEF NetInit
  <1>2. NetInv /\ [NetNext]_allVars => [Next]_vars
    BY NetNextIsNext DEF NetInv
  <1> QED
    BY <1>1, <1>2, NetInvariance, PTL DEF NetSpec, Spec

----------------------------------------------------------------------------
(* Numbers.  Without strays and duplicates each packet of a stream exists  *)
(* once, on its way or received; a counter that starts at 0 follows the    *)
(* number of its packets; and a network that keeps the order delivers each *)
(* stream from the front.                                                  *)

Data(b) == b.destport > MAXSPECIALPORT

Numbered ==
  /\ \A s \in Stream : sent[s] <= net.sent
  /\ \A k \in inflight : k.n \in 1 .. sent[StreamOf(k)]
  /\ \A j, k \in inflight : StreamOf(j) = StreamOf(k) /\ j.n = k.n => j = k
  /\ \A i \in 1 .. arrived : origin[i].n \in 1 .. sent[StreamOf(origin[i])]
  /\ \A i \in 1 .. arrived, k \in inflight :
       StreamOf(origin[i]) = StreamOf(k) => origin[i].n # k.n
  /\ \A i, j \in 1 .. arrived :
       SameStream(i, j) /\ origin[i].n = origin[j].n => i = j

Counted ==
  /\ \A s \in Stream : s[2] > MAXSPECIALPORT => seqmap[s] = Wrap(sent[s])
  /\ \A k \in inflight : Data(k) => k.seq = Wrap(k.n)
  /\ \A i \in 1 .. arrived : Data(origin[i]) => origin[i].seq = Wrap(origin[i].n)

Lined ==
  /\ \A i \in 1 .. arrived, k \in inflight :
       StreamOf(origin[i]) = StreamOf(k) => origin[i].n < k.n
  /\ \A i, j \in 1 .. arrived :
       SameStream(i, j) /\ i < j => origin[i].n < origin[j].n

Numbers ==
  /\ Single => Numbered
  /\ Single /\ net.start = {0} => Counted
  /\ InOrder => Lined

LEMMA NumbersInit == NetInit => Numbers
  <1> SUFFICES ASSUME NetInit PROVE Numbers
    OBVIOUS
  <1>1. inflight = {} /\ 1 .. arrived = {}
    BY DEF NetInit, Init
  <1>2. \A s \in Stream : sent[s] = 0 /\ sent[s] <= net.sent
    BY NetFacts DEF NetInit
  <1>3. Wrap(0) = 0
    BY WrapSmall, SorterAssumption DEF SeqNum
  <1>4. net.start = {0} => \A s \in Stream : seqmap[s] = 0
    BY DEF NetInit
  <1> QED
    BY <1>1, <1>2, <1>3, <1>4 DEF Numbers, Numbered, Counted, Lined

LEMMA NumbersPack ==
  ASSUME NetInv, Numbers, NEW c \in Cid, NEW p \in Port, PackMsg(c, p)
  PROVE  Numbers'
  <1> DEFINE s == <<c, p>>
             new == Packed(c, p)
  <1>1. /\ s \in Stream /\ sent[s] + 1 <= net.sent
        /\ sent[s] \in Nat /\ net.sent <= MaxSent /\ net.sent \in Nat
        /\ sent' = [sent EXCEPT ![s] = @ + 1]
        /\ seqmap' = [seqmap EXCEPT ![s] = NextSeq(p, @)]
        /\ new \in Packet /\ StreamOf(new) = s
        /\ inflight' = inflight \cup {new}
    BY PackFacts
  <1>2. new.n = sent[s] + 1 /\ new.destport = p
    BY DEF Packed
  <1>3. /\ net' = net /\ origin' = origin /\ arrived' = arrived
    BY DEF PackMsg, vars
  <1>4. inflight \subseteq Packet /\ sent \in [Stream -> 0 .. MaxSent]
        /\ \A i \in 1 .. arrived : origin[i] \in Packet
    BY DEF NetInv, NetTypeOK
  <1>5. \A x \in Stream : sent[x] \in Nat /\ sent'[x] = IF x = s THEN sent[x] + 1 ELSE sent[x]
    BY <1>1, <1>4, NetworkAssumption
  <1>6. /\ \A k \in inflight : k.n \in Nat /\ StreamOf(k) \in Stream
        /\ \A i \in 1 .. arrived : origin[i].n \in Nat /\ StreamOf(origin[i]) \in Stream
    BY <1>4, PacketFacts
  <1>7. Single => Numbered'
    <2> SUFFICES ASSUME Numbered PROVE Numbered'
      BY DEF Numbers
    <2>1. \A x \in Stream : sent'[x] <= net'.sent
      BY <1>1, <1>3, <1>5 DEF Numbered
    <2>2. \A k \in inflight : k.n \in 1 .. sent'[StreamOf(k)]
      BY <1>5, <1>6 DEF Numbered
    <2>3. \A k \in inflight' : k.n \in 1 .. sent'[StreamOf(k)]
      BY <1>1, <1>2, <1>5, <2>2
    <2>4. \A k \in inflight : StreamOf(k) = s => k.n # new.n
      BY <1>1, <1>2, <1>6 DEF Numbered
    <2>5. \A j, k \in inflight' : StreamOf(j) = StreamOf(k) /\ j.n = k.n => j = k
      BY <1>1, <2>4 DEF Numbered
    <2>6. \A i \in 1 .. arrived : origin[i].n \in 1 .. sent'[StreamOf(origin[i])]
      BY <1>5, <1>6 DEF Numbered
    <2>7. \A i \in 1 .. arrived : StreamOf(origin[i]) = s => origin[i].n # new.n
      BY <1>1, <1>2, <1>6 DEF Numbered
    <2>8. \A i \in 1 .. arrived, k \in inflight' :
            StreamOf(origin[i]) = StreamOf(k) => origin[i].n # k.n
      BY <1>1, <2>7 DEF Numbered
    <2> QED
      BY <1>3, <2>1, <2>3, <2>5, <2>6, <2>8 DEF Numbered, SameStream
  <1>8. Single /\ net.start = {0} => Counted'
    <2> SUFFICES ASSUME Counted PROVE Counted'
      BY DEF Numbers
    <2>1. p > MAXSPECIALPORT => NextSeq(p, seqmap[s]) = Wrap(sent[s] + 1)
      BY <1>1, WrapStep, SorterAssumption DEF Counted, NextSeq
    <2>2. p > MAXSPECIALPORT => seqmap'[s] = Wrap(sent[s] + 1)
      BY <1>1, <2>1 DEF NetInv, NetTypeOK
    <2>3. \A x \in Stream : x[2] > MAXSPECIALPORT => seqmap'[x] = Wrap(sent'[x])
      <3> SUFFICES ASSUME NEW x \in Stream, x[2] > MAXSPECIALPORT
                   PROVE  seqmap'[x] = Wrap(sent'[x])
        OBVIOUS
      <3>1. CASE x = s
        BY <1>5, <2>2, <3>1
      <3>2. CASE x # s
        BY <1>1, <1>5, <3>2 DEF Counted, NetInv, NetTypeOK
      <3> QED
        BY <3>1, <3>2
    <2>4. Data(new) => new.seq = Wrap(new.n)
      BY <1>2, <2>2, SorterAssumption DEF Packed, Data
    <2>5. \A k \in inflight' : Data(k) => k.seq = Wrap(k.n)
      BY <1>1, <2>4 DEF Counted
    <2> QED
      BY <1>3, <2>3, <2>5 DEF Counted
  <1>9. InOrder => Lined'
    <2> SUFFICES ASSUME Numbered, Lined PROVE Lined'
      BY DEF Numbers, InOrder
    <2>1. \A i \in 1 .. arrived : StreamOf(origin[i]) = s => origin[i].n < new.n
      BY <1>2, <1>6, <1>5 DEF Numbered
    <2> QED
      BY <1>1, <1>3, <2>1 DEF Lined, SameStream
  <1> QED
    BY <1>3, <1>7, <1>8, <1>9 DEF Numbers, Single, InOrder

(* On a network without duplicates an arrived packet is no longer on its   *)
(* way; if it keeps the order, nothing older is.                           *)
LEMMA ArriveFacts ==
  ASSUME NetInv, NEW k \in inflight, Arrive(k)
  PROVE  /\ k \in Packet
         /\ net.dup = 0 => inflight' = inflight \ {k}
         /\ net.overtake = 0 => Older(k) = {}
  <1>1. k \in Packet
    BY DEF NetInv, NetTypeOK
  <1>2. net.dup = 0 => inflight' = inflight \ {k}
    BY DEF Arrive, NetInv, NetTypeOK
  <1>3. IsFiniteSet(Older(k)) /\ Cardinality(Older(k)) \in Nat
    BY FS_Subset, FS_CardinalityType DEF NetInv, Older
  <1>4. net.overtake = 0 => Older(k) = {}
    BY <1>3, FS_EmptySet DEF Arrive, InOrderEnough
  <1> QED
    BY <1>1, <1>2, <1>4

LEMMA NumbersArrive ==
  ASSUME NetInv, Numbers, NEW k \in inflight, Arrive(k)
  PROVE  Numbers'
  <1>1. /\ k \in Packet
        /\ net.dup = 0 => inflight' = inflight \ {k}
        /\ net.overtake = 0 => Older(k) = {}
    BY ArriveFacts
  <1>2. /\ arrived' = arrived + 1 /\ arrived \in Nat
        /\ \A i \in 1 .. arrived : origin'[i] = origin[i]
        /\ origin'[arrived + 1] = k
    BY <1>1, ArrivalFacts DEF Arrive
  <1>3. net' = net /\ sent' = sent /\ seqmap' = seqmap
    BY DEF Arrive
  <1>4. \A i \in 1 .. arrived' :
          \/ i \in 1 .. arrived /\ origin'[i] = origin[i]
          \/ i = arrived + 1 /\ i \notin 1 .. arrived /\ origin'[i] = k
    BY <1>2
  <1>5. Single => Numbered'
    <2> SUFFICES ASSUME Single, Numbered PROVE Numbered'
      BY DEF Numbers
    <2>1. inflight' = inflight \ {k}
      BY <1>1 DEF Single
    <2>2. \A i \in 1 .. arrived' : origin'[i].n \in 1 .. sent[StreamOf(origin'[i])]
      BY <1>4 DEF Numbered
    <2>3. \A i \in 1 .. arrived', j \in inflight' :
            StreamOf(origin'[i]) = StreamOf(j) => origin'[i].n # j.n
      BY <1>4, <2>1 DEF Numbered
    <2>4. \A i, j \in 1 .. arrived' :
            StreamOf(origin'[i]) = StreamOf(origin'[j]) /\ origin'[i].n = origin'[j].n
              => i = j
      BY <1>4 DEF Numbered, SameStream
    <2> QED
      BY <1>3, <2>1, <2>2, <2>3, <2>4 DEF Numbered, SameStream
  <1>6. Single /\ net.start = {0} => Counted'
    <2> SUFFICES ASSUME Single, Counted PROVE Counted'
      BY DEF Numbers
    <2>1. inflight' = inflight \ {k}
      BY <1>1 DEF Single
    <2> QED
      BY <1>3, <1>4, <2>1 DEF Counted
  <1>7. InOrder => Lined'
    <2> SUFFICES ASSUME InOrder, Numbered, Lined PROVE Lined'
      BY DEF Numbers, InOrder
    <2>1. inflight' = inflight \ {k} /\ Older(k) = {}
      BY <1>1 DEF Single, InOrder
    <2>2. \A j \in inflight' : StreamOf(k) = StreamOf(j) => k.n < j.n
      <3>1. \A j \in inflight : j.n \in Nat
        BY PacketFacts DEF NetInv, NetTypeOK
      <3> QED
        BY <2>1, <3>1 DEF Numbered, Older
    <2>3. \A i \in 1 .. arrived', j \in inflight' :
            StreamOf(origin'[i]) = StreamOf(j) => origin'[i].n < j.n
      BY <1>4, <2>1, <2>2 DEF Lined
    <2>4. \A i, j \in 1 .. arrived' :
            StreamOf(origin'[i]) = StreamOf(origin'[j]) /\ i < j
              => origin'[i].n < origin'[j].n
      BY <1>2, <1>4 DEF Lined, SameStream
    <2> QED
      BY <2>3, <2>4 DEF Lined, SameStream
  <1> QED
    BY <1>3, <1>5, <1>6, <1>7 DEF Numbers, Single, InOrder

LEMMA ProcessKeepsArrived ==
  RecvNothing \/ process => arrived' = arrived
  BY DEF RecvNothing, process, SortSpecial, SortHold, SortRelease, SortPass,
         DrainBuf1, DrainBuf2, SortDone

LEMMA NumbersNext == NetInv /\ Numbers /\ [NetNext]_allVars => Numbers'
  <1> SUFFICES ASSUME NetInv, Numbers, [NetNext]_allVars PROVE Numbers'
    OBVIOUS
  <1>1. ASSUME NEW s \in net.sending, PackMsg(s[1], s[2]) PROVE Numbers'
    BY <1>1, SenderFacts, NumbersPack DEF NetInv, NetTypeOK
  <1>2. ASSUME NEW k \in net.stray, Stray(k) PROVE Numbers'
    BY <1>2 DEF Stray, Numbers, Single, InOrder
  <1>3. ASSUME NEW k \in inflight, Arrive(k) PROVE Numbers'
    BY <1>3, NumbersArrive
  <1>4. ASSUME NEW k \in inflight, Lose(k) PROVE Numbers'
    BY <1>4 DEF Lose, vars, Numbers, Single, InOrder, Numbered, Counted, Lined,
                SameStream
  <1>5. CASE UNCHANGED <<arrived, netVars>>
    BY <1>5 DEF netVars, Numbers, Single, InOrder, Numbered, Counted, Lined,
                SameStream
  <1>6. CASE UNCHANGED allVars
    BY <1>5, <1>6 DEF allVars, vars
  <1> QED
    BY <1>1, <1>2, <1>3, <1>4, <1>5, <1>6, ProcessKeepsArrived DEF NetNext

----------------------------------------------------------------------------
(* Every valid buffer holds what its datagram carried; only data messages  *)
(* are held back.                                                          *)

Carried(b) ==
  b.valid => /\ b.id \in 1 .. arrived
             /\ StreamOf(origin[b.id]) = StreamOf(b)
             /\ origin[b.id].seq = b.seq

Linked ==
  /\ Carried(msg) /\ Carried(buf1) /\ Carried(buf2)
  /\ buf1.valid => Data(buf1)
  /\ buf2.valid => Data(buf2)

LEMMA LinkedInit == NetInit => Linked
  BY DEF NetInit, Init, NoMsg, Linked, Carried

LEMMA LinkedRecv ==
  ASSUME NetInv, Linked, NEW k \in Packet, Recv(k.cid, k.destport, k.seq),
         origin' = Append(origin, k)
  PROVE  Linked'
  <1>1. /\ arrived' = arrived + 1 /\ arrived \in Nat
        /\ \A i \in 1 .. arrived : origin'[i] = origin[i]
        /\ origin'[arrived + 1] = k
    BY ArrivalFacts
  <1>2. msg' = Unpacked(k.cid, k.destport, k.seq, arrived + 1)
    BY DEF Recv
  <1>3. Carried(msg)'
    <2>1. msg'.id = arrived + 1 /\ msg'.seq = k.seq /\ StreamOf(msg') = StreamOf(k)
      BY <1>2 DEF Unpacked, StreamOf
    <2>2. arrived + 1 \in 1 .. arrived'
      BY <1>1
    <2> QED
      BY <1>1, <2>1, <2>2 DEF Carried
  <1>4. buf1' = buf1 /\ buf2' = buf2
    BY DEF Recv
  <1>5. \A i \in 1 .. arrived : i \in 1 .. arrived' /\ origin'[i] = origin[i]
    <2> SUFFICES ASSUME NEW i \in 1 .. arrived
                 PROVE  i \in 1 .. arrived' /\ origin'[i] = origin[i]
      OBVIOUS
    <2>1. origin'[i] = origin[i]
      BY <1>1
    <2>2. i \in 1 .. arrived'
      BY <1>1
    <2> QED
      BY <2>1, <2>2
  <1>6. Carried(buf1)' /\ Carried(buf2)'
    BY <1>4, <1>5 DEF Linked, Carried
  <1>7. (buf1.valid => Data(buf1))' /\ (buf2.valid => Data(buf2))'
    BY <1>4 DEF Linked, Data
  <1> QED
    BY <1>3, <1>6, <1>7 DEF Linked

LEMMA ConsumedFacts ==
  ASSUME NEW b \in MsgBuf
  PROVE  /\ Consumed(b) \in MsgBuf /\ ~Consumed(b).valid
         /\ StreamOf(Consumed(b)) = StreamOf(b)
  BY DEF Consumed, MsgBuf, StreamOf

LEMMA LinkedProcess ==
  ASSUME NetInv, Linked, RecvNothing \/ process, UNCHANGED netVars
  PROVE  Linked'
  <1>1. origin' = origin /\ arrived' = arrived
    BY ProcessKeepsArrived DEF netVars
  <1>2. ~Consumed(msg).valid /\ ~Consumed(buf1).valid /\ ~Consumed(buf2).valid
    BY ConsumedFacts DEF NetInv, NetTypeOK, TypeOK
  <1>3. CASE RecvNothing
    BY <1>1, <1>2, <1>3 DEF RecvNothing, Linked, Carried
  <1>4. CASE SortSpecial
    BY <1>1, <1>2, <1>4 DEF SortSpecial, Linked, Carried
  <1>5. Sorting /\ ~IsSpecial => msg.valid /\ Data(msg)
    BY SorterAssumption DEF Sorting, Pointee, IsSpecial, Data, NetInv, NetTypeOK,
         TypeOK, MsgBuf
  <1>6. CASE SortHold
    BY <1>1, <1>2, <1>5, <1>6 DEF SortHold, Linked, Carried, Data
  <1>7. CASE SortRelease
    BY <1>1, <1>2, <1>5, <1>7 DEF SortRelease, Linked, Carried, Data
  <1>8. CASE SortPass
    BY <1>1, <1>2, <1>8 DEF SortPass, Linked, Carried
  <1>9. CASE DrainBuf1
    BY <1>1, <1>2, <1>9 DEF DrainBuf1, Linked, Carried
  <1>10. CASE DrainBuf2
    BY <1>1, <1>2, <1>10 DEF DrainBuf2, Linked, Carried
  <1>11. CASE SortDone
    BY <1>1, <1>11 DEF SortDone, Linked, Carried
  <1> QED
    BY <1>3, <1>4, <1>6, <1>7, <1>8, <1>9, <1>10, <1>11 DEF process

LEMMA LinkedNext == NetInv /\ Linked /\ [NetNext]_allVars => Linked'
  <1> SUFFICES ASSUME NetInv, Linked, [NetNext]_allVars PROVE Linked'
    OBVIOUS
  <1>1. CASE UNCHANGED <<vars, origin>>
    BY <1>1 DEF vars, Linked, Carried
  <1>2. ASSUME NEW s, PackMsg(s[1], s[2]) PROVE Linked'
    BY <1>1, <1>2 DEF PackMsg
  <1>3. ASSUME NEW k \in net.stray, Stray(k) PROVE Linked'
    BY <1>3, NetFacts, LinkedRecv DEF Stray, NetInv, NetTypeOK
  <1>4. ASSUME NEW k \in inflight, Arrive(k) PROVE Linked'
    BY <1>4, LinkedRecv DEF Arrive, NetInv, NetTypeOK
  <1>5. ASSUME NEW k \in inflight, Lose(k) PROVE Linked'
    BY <1>1, <1>5 DEF Lose
  <1>6. CASE UNCHANGED allVars
    BY <1>1, <1>6 DEF allVars, netVars
  <1> QED
    BY <1>2, <1>3, <1>4, <1>5, <1>6, LinkedProcess DEF NetNext

Carries == NetInv /\ Numbers /\ Linked

(* Every buffer in use and every number in it can be traced to a packet.   *)
LEMMA CarriesInvariant == NetSpec => []Carries
  <1>1. NetInit => Carries
    BY NetInvInit, NumbersInit, LinkedInit DEF Carries
  <1>2. Carries /\ [NetNext]_allVars => Carries'
    BY NetInvNext, NumbersNext, LinkedNext DEF Carries
  <1> QED
    BY <1>1, <1>2, PTL DEF NetSpec

----------------------------------------------------------------------------
(* Before the numbers wrap, on a network that keeps the order: what comes  *)
(* is ahead of everything received, what is held is ahead of everything    *)
(* handed out, and so no comparison ever goes backwards.                   *)

Ahead ==
  /\ \A s \in Stream : 0 <= seq_out[s] /\ seq_out[s] <= seq_in[s]
  /\ \A s \in Stream : seq_in[s] <= sent[s]
  /\ \A k \in inflight : Data(k) => seq_in[StreamOf(k)] < k.seq
  /\ Sorting /\ Data(msg) => seq_in[StreamOf(msg)] < msg.seq
  /\ buf1.valid => /\ seq_out[StreamOf(buf1)] < buf1.seq
                   /\ buf1.seq <= seq_in[StreamOf(buf1)]
  /\ buf2.valid => /\ seq_out[StreamOf(buf2)] < buf2.seq
                   /\ buf2.seq <= seq_in[StreamOf(buf2)]
  /\ \A j \in delivered :
       Data(origin[j]) => origin[j].seq <= seq_out[StreamOf(origin[j])]
  /\ \A c \in Cid : stat[c].seqerr_in = 0 /\ stat[c].seqerr_out = 0

(* Before the wrap the sequence number of a packet is its number.          *)
LEMMA StraightSeq ==
  ASSUME Carries, Straight
  PROVE  /\ \A k \in inflight : Data(k) => k.seq = k.n
         /\ \A i \in 1 .. arrived : Data(origin[i]) => origin[i].seq = origin[i].n
  <1>1. Numbered /\ Counted /\ NetTypeOK
    BY DEF Carries, Numbers, NetInv, Straight, InOrder
  <1>2. \A s \in Stream : sent[s] \in Nat /\ sent[s] < Half
    BY <1>1, NetFacts, SorterAssumption DEF Straight, Numbered, NetTypeOK
  <1>3. \A s \in Stream : \A n \in 1 .. sent[s] : n \in SeqNum
    BY <1>2, SorterAssumption DEF SeqNum
  <1>4. \A k \in Packet : StreamOf(k) \in Stream
    BY PacketFacts
  <1>5. \A k \in inflight : k.n \in SeqNum
    BY <1>1, <1>3, <1>4 DEF Numbered, NetTypeOK
  <1>6. \A i \in 1 .. arrived : origin[i].n \in SeqNum
    BY <1>1, <1>3, <1>4 DEF Numbered, NetTypeOK
  <1> QED
    BY <1>1, <1>5, <1>6, WrapSmall DEF Counted

(* Two numbers that are not negative do not wrap when they are compared.   *)
LEMMA DeltaSmall ==
  ASSUME NEW seq \in [Stream -> SeqNum], NEW b \in MsgBuf,
         0 <= seq[StreamOf(b)], 0 <= b.seq
  PROVE  Delta(seq, b) = b.seq - seq[StreamOf(b)]
  <1>1. StreamOf(b) \in Stream /\ b.seq \in SeqNum
    BY DEF MsgBuf, StreamOf, Stream
  <1>2. b.seq - seq[StreamOf(b)] \in SeqNum
    BY <1>1, SorterAssumption DEF SeqNum
  <1> QED
    BY <1>2, WrapSmall DEF Delta

LEMMA SequenceFacts ==
  ASSUME NetInv
  PROVE  /\ TypeOK /\ SeqNum \subseteq Int
         /\ seq_in \in [Stream -> SeqNum] /\ seq_out \in [Stream -> SeqNum]
         /\ \A s \in Stream : seq_in[s] \in Int /\ seq_out[s] \in Int
         /\ stat \in [Cid -> Stat]
  <1>1. SeqNum \subseteq Int
    BY SorterAssumption DEF SeqNum
  <1>2. /\ seq_in \in [Stream -> SeqNum] /\ seq_out \in [Stream -> SeqNum]
        /\ TypeOK /\ stat \in [Cid -> Stat]
    BY DEF NetInv, NetTypeOK, TypeOK
  <1> QED
    BY <1>1, <1>2

LEMMA BufferFacts ==
  ASSUME NetInv, NEW b \in {msg, buf1, buf2}
  PROVE  /\ b \in MsgBuf /\ b.cid \in Cid /\ b.destport \in Nat /\ b.seq \in SeqNum /\ b.seq \in Int
         /\ StreamOf(b) \in Stream
         /\ seq_in[StreamOf(b)] \in Int /\ seq_out[StreamOf(b)] \in Int
  <1>1. b \in MsgBuf /\ seq_in \in [Stream -> SeqNum] /\ seq_out \in [Stream -> SeqNum]
    BY DEF NetInv, NetTypeOK, TypeOK
  <1>2. /\ b.cid \in Cid /\ b.destport \in Port /\ b.seq \in SeqNum
        /\ StreamOf(b) \in Stream
    BY <1>1 DEF MsgBuf, StreamOf, Stream
  <1>3. SeqNum \subseteq Int /\ Port \subseteq Nat
    BY SorterAssumption DEF SeqNum
  <1>4. seq_in[StreamOf(b)] \in SeqNum /\ seq_out[StreamOf(b)] \in SeqNum
    BY <1>1, <1>2
  <1> QED
    BY <1>1, <1>2, <1>3, <1>4

(* A data message on its way in is ahead of what was received and handed   *)
(* out; one of its stream in buf1 is released before it.                   *)
LEMMA SortingAhead ==
  ASSUME Carries, Straight, Ahead, Sorting, ~IsSpecial
  PROVE  /\ msg.valid /\ Data(msg)
         /\ seq_in[StreamOf(msg)] < msg.seq
         /\ DSeqIn = msg.seq - seq_in[StreamOf(msg)]
         /\ DSeqIo = msg.seq - seq_out[StreamOf(msg)]
         /\ buf1.valid /\ StreamOf(buf1) = StreamOf(msg) => ReleaseFirst
         /\ msg.seq <= sent[StreamOf(msg)]
         /\ \A k \in inflight : StreamOf(k) = StreamOf(msg) => msg.seq < k.seq
  <1>1. NetInv /\ Linked /\ msg.valid
    BY DEF Carries, Sorting, Pointee
  <1>2. Data(msg)
    BY SorterAssumption, <1>1, BufferFacts DEF IsSpecial, Data
  <1>3. seq_in[StreamOf(msg)] < msg.seq
    BY <1>2 DEF Ahead
  <1>4. 0 <= seq_out[StreamOf(msg)] /\ seq_out[StreamOf(msg)] <= seq_in[StreamOf(msg)]
    BY <1>1, BufferFacts DEF Ahead
  <1>a. /\ seq_in \in [Stream -> SeqNum] /\ seq_out \in [Stream -> SeqNum]
        /\ msg \in MsgBuf
        /\ 0 <= seq_in[StreamOf(msg)] /\ 0 <= msg.seq
    BY <1>1, <1>3, <1>4, BufferFacts DEF NetInv, NetTypeOK, TypeOK
  <1>5. DSeqIn = msg.seq - seq_in[StreamOf(msg)]
    BY <1>a, DeltaSmall DEF DSeqIn
  <1>6. DSeqIo = msg.seq - seq_out[StreamOf(msg)]
    BY <1>a, <1>4, DeltaSmall DEF DSeqIo
  <1>7. buf1.valid /\ StreamOf(buf1) = StreamOf(msg) => ReleaseFirst
    BY <1>1, <1>3, <1>5, <1>6, BufferFacts DEF Ahead, ReleaseFirst
  <1>8. /\ msg.id \in 1 .. arrived /\ StreamOf(origin[msg.id]) = StreamOf(msg)
        /\ origin[msg.id].seq = msg.seq /\ Data(origin[msg.id])
    BY <1>1, <1>2 DEF Linked, Carried, Data, StreamOf
  <1>9. origin[msg.id].n = msg.seq
    BY <1>8, StraightSeq
  <1>10. msg.seq <= sent[StreamOf(msg)]
    BY <1>8, <1>9 DEF Carries, Numbers, Numbered, Straight, InOrder
  <1>11. \A k \in inflight : StreamOf(k) = StreamOf(msg) => msg.seq < k.seq
    <2> SUFFICES ASSUME NEW k \in inflight, StreamOf(k) = StreamOf(msg)
                 PROVE  msg.seq < k.seq
      OBVIOUS
    <2>1. Data(k)
      BY <1>2 DEF Data, StreamOf
    <2>2. origin[msg.id].n < k.n
      BY <1>8 DEF Carries, Numbers, Lined, Straight
    <2> QED
      BY <1>9, <2>1, <2>2, StraightSeq
  <1> QED
    BY <1>1, <1>2, <1>3, <1>5, <1>6, <1>7, <1>10, <1>11

NoErrors(st) == \A c \in Cid : st[c].seqerr_in = 0 /\ st[c].seqerr_out = 0

(* Taking a message in that is ahead moves seq_in forward, without error.  *)
LEMMA TakeInAhead ==
  ASSUME Carries, Straight, Ahead, Sorting, ~IsSpecial, TakeIn
  PROVE  /\ \A s \in Stream :
              seq_in'[s] = IF s = StreamOf(msg) THEN msg.seq ELSE seq_in[s]
         /\ \A s \in Stream : seq_in[s] <= seq_in'[s] /\ seq_in'[s] <= sent[s]
         /\ \A k \in inflight : Data(k) => seq_in'[StreamOf(k)] < k.seq
         /\ [stat EXCEPT ![msg.cid] = CountIn(@)] \in [Cid -> Stat]
         /\ NoErrors([stat EXCEPT ![msg.cid] = CountIn(@)])
  <1>1. /\ NetInv /\ TypeOK /\ seq_in \in [Stream -> SeqNum]
        /\ \A s \in Stream : seq_in[s] \in Int
        /\ StreamOf(msg) \in Stream /\ msg.cid \in Cid /\ msg.seq \in Int
        /\ stat \in [Cid -> Stat]
    BY BufferFacts, SequenceFacts DEF Carries
  <1>2. /\ seq_in[StreamOf(msg)] < msg.seq
        /\ DSeqIn = msg.seq - seq_in[StreamOf(msg)]
        /\ msg.seq <= sent[StreamOf(msg)]
        /\ \A k \in inflight : StreamOf(k) = StreamOf(msg) => msg.seq < k.seq
    BY SortingAhead
  <1>3. seq_in' = [seq_in EXCEPT ![StreamOf(msg)] = msg.seq]
    BY DEF TakeIn
  <1>4. \A s \in Stream :
          seq_in'[s] = IF s = StreamOf(msg) THEN msg.seq ELSE seq_in[s]
    BY <1>1, <1>3
  <1>5. \A s \in Stream : seq_in[s] <= seq_in'[s] /\ seq_in'[s] <= sent[s]
    BY <1>1, <1>2, <1>4 DEF Ahead
  <1>6. \A k \in inflight : Data(k) => seq_in'[StreamOf(k)] < k.seq
    <2> SUFFICES ASSUME NEW k \in inflight, Data(k)
                 PROVE  seq_in'[StreamOf(k)] < k.seq
      OBVIOUS
    <2>1. StreamOf(k) \in Stream
      BY <1>1, PacketFacts DEF NetInv, NetTypeOK
    <2> QED
      BY <1>2, <1>4, <2>1 DEF Ahead
  <1>7. [stat EXCEPT ![msg.cid] = CountIn(@)] \in [Cid -> Stat]
    BY <1>1, TakeInType
  <1>8. DSeqIn \in Int /\ ~(DSeqIn < 0)
    BY <1>1, <1>2
  <1>9. /\ CountIn(stat[msg.cid]).seqerr_in = 0
        /\ CountIn(stat[msg.cid]).seqerr_out = 0
    <2>1. stat[msg.cid] \in Stat /\ stat[msg.cid].seqerr_in = 0
          /\ stat[msg.cid].seqerr_out = 0
      BY <1>1 DEF Ahead
    <2>2. One(DSeqIn < 0) = 0
      BY <1>8 DEF One
    <2> QED
      BY <2>1, <2>2 DEF CountIn, Stat
  <1>10. NoErrors([stat EXCEPT ![msg.cid] = CountIn(@)])
    BY <1>1, <1>9 DEF NoErrors, Ahead
  <1> QED
    BY <1>4, <1>5, <1>6, <1>7, <1>10

(* Handing a message out that is ahead moves seq_out forward, without      *)
(* error, and the message follows those of its stream handed out before.   *)
LEMMA HandOutAhead ==
  ASSUME Carries, Straight, Ahead, NEW b \in {msg, buf1, buf2}, b.valid, Data(b),
         Carried(b), seq_out[StreamOf(b)] < b.seq,
         NEW st \in [Cid -> Stat], NoErrors(st), HandOut(b, st)
  PROVE  /\ \A s \in Stream :
              seq_out'[s] = IF s = StreamOf(b) THEN b.seq ELSE seq_out[s]
         /\ \A s \in Stream : seq_out[s] <= seq_out'[s]
         /\ \A j \in delivered' :
              Data(origin[j]) => origin[j].seq <= seq_out'[StreamOf(origin[j])]
         /\ \A c \in Cid : stat'[c].seqerr_in = 0 /\ stat'[c].seqerr_out = 0
         /\ Follows
  <1>1. /\ NetInv /\ seq_out \in [Stream -> SeqNum]
        /\ \A s \in Stream : seq_out[s] \in Int
        /\ StreamOf(b) \in Stream /\ b.cid \in Cid /\ b.seq \in Int
        /\ b \in MsgBuf
    BY BufferFacts, SequenceFacts DEF Carries
  <1>2. /\ seq_out' = [seq_out EXCEPT ![StreamOf(b)] = b.seq]
        /\ stat' = [st EXCEPT ![b.cid].seqerr_out = @ + One(Delta(seq_out, b) < 0)]
        /\ delivered' = delivered \cup {b.id}
    BY DEF HandOut
  <1>3. \A s \in Stream :
          seq_out'[s] = IF s = StreamOf(b) THEN b.seq ELSE seq_out[s]
    BY <1>1, <1>2
  <1>4. \A s \in Stream : seq_out[s] <= seq_out'[s]
    BY <1>1, <1>3
  <1>5. /\ b.id \in 1 .. arrived /\ StreamOf(origin[b.id]) = StreamOf(b)
        /\ origin[b.id].seq = b.seq /\ Data(origin[b.id])
    BY DEF Carried, StreamOf, Data
  <1>6. \A j \in delivered : /\ j \in 1 .. arrived /\ origin[j] \in Packet
                           /\ StreamOf(origin[j]) \in Stream
                           /\ origin[j].seq \in Int
    BY <1>1, PacketFacts DEF NetInv, NetTypeOK, TypeOK
  <1>7. \A j \in delivered' :
          Data(origin[j]) => origin[j].seq <= seq_out'[StreamOf(origin[j])]
    <2>1. \A j \in delivered :
            Data(origin[j]) => origin[j].seq <= seq_out'[StreamOf(origin[j])]
      <3> SUFFICES ASSUME NEW j \in delivered, Data(origin[j])
                   PROVE  origin[j].seq <= seq_out'[StreamOf(origin[j])]
        OBVIOUS
      <3>1. origin[j].seq <= seq_out[StreamOf(origin[j])]
        BY DEF Ahead
      <3>2. seq_out[StreamOf(origin[j])] \in Int
            /\ seq_out'[StreamOf(origin[j])] \in Int
        BY <1>1, <1>3, <1>6
      <3> QED
        BY <1>4, <1>6, <3>1, <3>2
    <2>2. origin[b.id].seq <= seq_out'[StreamOf(origin[b.id])]
      BY <1>1, <1>3, <1>5
    <2> QED
      BY <1>2, <2>1, <2>2
  <1>8. \A c \in Cid : stat'[c].seqerr_in = 0 /\ stat'[c].seqerr_out = 0
    <2>1. 0 <= seq_out[StreamOf(b)]
      BY <1>1 DEF Ahead
    <2>2. Delta(seq_out, b) = b.seq - seq_out[StreamOf(b)]
      BY <1>1, <2>1, DeltaSmall
    <2>3. One(Delta(seq_out, b) < 0) = 0
      BY <1>1, <2>2 DEF One
    <2> QED
      BY <1>1, <1>2, <2>3 DEF NoErrors, Stat
  <1>9. Follows
    <2> SUFFICES ASSUME NEW j \in delivered, StreamOf(origin[j]) = StreamOf(b)
                 PROVE  origin[j].n <= origin[b.id].n
      BY <1>2, <1>5 DEF Follows, SameStream
    <2>1. Data(origin[j])
      BY DEF Data, StreamOf
    <2>2. origin[j].seq <= seq_out[StreamOf(b)]
      BY <2>1 DEF Ahead
    <2>3. origin[j].seq <= origin[b.id].seq
      BY <1>1, <1>5, <1>6, <2>2
    <2> QED
      BY <1>5, <1>6, <2>1, <2>3, StraightSeq
  <1> QED
    BY <1>3, <1>4, <1>7, <1>8, <1>9

LEMMA SpecialFacts ==
  ASSUME Carries, SortSpecial
  PROVE  /\ delivered' = delivered \cup {msg.id} /\ ~Sorting'
         /\ msg.id = arrived /\ msg.id \in 1 .. arrived
         /\ StreamOf(origin[msg.id]) = StreamOf(msg)
         /\ ~Data(origin[msg.id])
  <1>1. msg.valid /\ Carried(msg) /\ msg.id = arrived
    BY SortingFacts DEF Carries, NetInv, Linked, SortSpecial
  <1>2. ~Data(msg)
    BY BufferFacts, SorterAssumption DEF Carries, SortSpecial, IsSpecial, Data
  <1>3. ~msg'.valid
    BY ConsumedFacts, BufferFacts DEF Carries, SortSpecial
  <1> QED
    BY <1>1, <1>2, <1>3 DEF SortSpecial, Carried, Data, StreamOf, Sorting, Pointee

LEMMA AheadProcess ==
  ASSUME Carries, Straight, Ahead, RecvNothing \/ process, UNCHANGED netVars
  PROVE  Ahead'
  <1>1. /\ origin' = origin /\ inflight' = inflight /\ sent' = sent
        /\ NetInv /\ Linked /\ TypeOK
        /\ \A s \in Stream : seq_in[s] \in Int /\ seq_out[s] \in Int
        /\ stat \in [Cid -> Stat] /\ NoErrors(stat)
    BY SequenceFacts DEF netVars, Carries, Ahead, NoErrors
  <1>2. /\ ~Consumed(msg).valid /\ ~Consumed(buf1).valid /\ ~Consumed(buf2).valid
    BY ConsumedFacts, BufferFacts, <1>1
  <1>3. CASE RecvNothing
    <2>1. ~Sorting'
      BY <1>3 DEF RecvNothing, Sorting
    <2> QED
      BY <1>1, <1>3, <2>1 DEF RecvNothing, Ahead
  <1>4. CASE SortSpecial
    <2>1. /\ ~Sorting' /\ delivered' = delivered \cup {msg.id}
          /\ ~Data(origin[msg.id])
      BY <1>4, SpecialFacts
    <2>2. UNCHANGED <<buf1, buf2, seq_in, seq_out, stat>>
      BY <1>4 DEF SortSpecial
    <2> QED
      BY <1>1, <2>1, <2>2 DEF Ahead
  <1>5. CASE SortHold
    <2>1. /\ Sorting /\ ~IsSpecial /\ TakeIn /\ buf1' = msg
          /\ stat' = [stat EXCEPT ![msg.cid] = CountIn(@)]
          /\ UNCHANGED <<buf2, seq_out, delivered>>
          /\ pc' = "recv"
      BY <1>5 DEF SortHold
    <2>2. /\ \A s \in Stream :
               seq_in'[s] = IF s = StreamOf(msg) THEN msg.seq ELSE seq_in[s]
          /\ \A s \in Stream : seq_in[s] <= seq_in'[s] /\ seq_in'[s] <= sent[s]
          /\ \A k \in inflight : Data(k) => seq_in'[StreamOf(k)] < k.seq
          /\ NoErrors(stat')
      BY <2>1, TakeInAhead
    <2>3. ~buf2.valid
      BY <2>1, <1>1, SortingFacts DEF NetInv
    <2>4. StreamOf(msg) \in Stream /\ msg.seq \in Int
          /\ seq_in[StreamOf(msg)] < msg.seq
      BY <1>1, <2>1, BufferFacts, SortingAhead
    <2>5. \A s \in Stream : 0 <= seq_out'[s] /\ seq_out'[s] <= seq_in'[s]
      BY <1>1, <2>1, <2>2, <2>4 DEF Ahead
    <2>6. seq_out'[StreamOf(buf1')] < buf1'.seq /\ buf1'.seq <= seq_in'[StreamOf(buf1')]
      BY <1>1, <2>1, <2>2, <2>4 DEF Ahead
    <2>7. ~Sorting'
      BY <2>1 DEF Sorting
    <2> QED
      BY <1>1, <2>1, <2>2, <2>3, <2>5, <2>6, <2>7 DEF Ahead, NoErrors
  <1>6. CASE SortRelease
    <2> DEFINE st == [stat EXCEPT ![msg.cid] = CountIn(@)]
    <2>1. /\ Sorting /\ ~IsSpecial /\ TakeIn /\ buf2' = msg /\ pmsg' = "buf1"
          /\ buf1' = Consumed(buf1) /\ buf1.valid
          /\ StreamOf(buf1) = StreamOf(msg) /\ buf1.seq < msg.seq
          /\ HandOut(buf1, st)
      BY <1>6 DEF SortRelease, ReleaseFirst
    <2>2. /\ \A s \in Stream :
               seq_in'[s] = IF s = StreamOf(msg) THEN msg.seq ELSE seq_in[s]
          /\ \A s \in Stream : seq_in[s] <= seq_in'[s] /\ seq_in'[s] <= sent[s]
          /\ \A k \in inflight : Data(k) => seq_in'[StreamOf(k)] < k.seq
          /\ st \in [Cid -> Stat] /\ NoErrors(st)
      BY <2>1, TakeInAhead
    <2>3. Data(buf1) /\ Carried(buf1) /\ seq_out[StreamOf(buf1)] < buf1.seq
      BY <1>1, <2>1 DEF Linked, Ahead
    <2> HIDE DEF st
    <2>4. /\ \A s \in Stream :
               seq_out'[s] = IF s = StreamOf(buf1) THEN buf1.seq ELSE seq_out[s]
          /\ \A s \in Stream : seq_out[s] <= seq_out'[s]
          /\ \A j \in delivered' :
               Data(origin[j]) => origin[j].seq <= seq_out'[StreamOf(origin[j])]
          /\ \A c \in Cid : stat'[c].seqerr_in = 0 /\ stat'[c].seqerr_out = 0
      BY <2>1, <2>2, <2>3, HandOutAhead
    <2>5. StreamOf(msg) \in Stream /\ msg.seq \in Int /\ buf1.seq \in Int
      BY <1>1, BufferFacts
    <2>6. \A s \in Stream : 0 <= seq_out'[s] /\ seq_out'[s] <= seq_in'[s]
      BY <1>1, <2>1, <2>2, <2>4, <2>5 DEF Ahead
    <2>7. seq_out'[StreamOf(buf2')] < buf2'.seq /\ buf2'.seq <= seq_in'[StreamOf(buf2')]
      BY <2>1, <2>2, <2>4, <2>5
    <2>8. ~Sorting' /\ ~buf1'.valid
      BY <1>2, <2>1 DEF Sorting
    <2> QED
      BY <1>1, <2>2, <2>4, <2>6, <2>7, <2>8 DEF Ahead
  <1>7. CASE SortPass
    <2> DEFINE st == [stat EXCEPT ![msg.cid] = CountIn(@)]
    <2>1. /\ Sorting /\ ~IsSpecial /\ ~ReleaseFirst /\ TakeIn
          /\ msg' = Consumed(msg) /\ HandOut(msg, st)
          /\ UNCHANGED <<pc, pmsg, buf1, buf2>>
      BY <1>7 DEF SortPass
    <2>2. /\ \A s \in Stream :
               seq_in'[s] = IF s = StreamOf(msg) THEN msg.seq ELSE seq_in[s]
          /\ \A s \in Stream : seq_in[s] <= seq_in'[s] /\ seq_in'[s] <= sent[s]
          /\ \A k \in inflight : Data(k) => seq_in'[StreamOf(k)] < k.seq
          /\ st \in [Cid -> Stat] /\ NoErrors(st)
      BY <2>1, TakeInAhead
    <2>3. /\ msg.valid /\ Data(msg) /\ Carried(msg)
          /\ seq_in[StreamOf(msg)] < msg.seq
          /\ ~(buf1.valid /\ StreamOf(buf1) = StreamOf(msg))
      BY <1>1, <2>1, SortingAhead DEF Linked
    <2>4. StreamOf(msg) \in Stream /\ msg.seq \in Int
      BY <1>1, BufferFacts
    <2>5. seq_out[StreamOf(msg)] < msg.seq
      BY <1>1, <2>3, <2>4 DEF Ahead
    <2> HIDE DEF st
    <2>6. /\ \A s \in Stream :
               seq_out'[s] = IF s = StreamOf(msg) THEN msg.seq ELSE seq_out[s]
          /\ \A s \in Stream : seq_out[s] <= seq_out'[s]
          /\ \A j \in delivered' :
               Data(origin[j]) => origin[j].seq <= seq_out'[StreamOf(origin[j])]
          /\ \A c \in Cid : stat'[c].seqerr_in = 0 /\ stat'[c].seqerr_out = 0
      BY <2>1, <2>2, <2>3, <2>5, HandOutAhead
    <2>7. \A s \in Stream : 0 <= seq_out'[s] /\ seq_out'[s] <= seq_in'[s]
      BY <1>1, <2>2, <2>4, <2>5, <2>6 DEF Ahead
    <2>8. buf1.valid => /\ seq_out'[StreamOf(buf1)] < buf1.seq
                        /\ buf1.seq <= seq_in'[StreamOf(buf1)]
      BY <1>1, <2>2, <2>3, <2>6, BufferFacts DEF Ahead
    <2>9. ~Sorting' /\ ~buf2'.valid
      BY <1>1, <1>2, <2>1, SortingFacts DEF Sorting, Pointee, NetInv
    <2> QED
      BY <1>1, <2>1, <2>2, <2>6, <2>7, <2>8, <2>9 DEF Ahead
  <1>8. ASSUME NEW b \in {buf1, buf2}, b.valid, HandOut(b, stat), seq_in' = seq_in,
               ~Sorting', ~buf1'.valid, ~buf2'.valid
        PROVE  Ahead'
    <2>1. /\ Data(b) /\ Carried(b) /\ seq_out[StreamOf(b)] < b.seq
          /\ b.seq <= seq_in[StreamOf(b)]
      BY <1>1, <1>8 DEF Linked, Ahead
    <2>2. /\ \A s \in Stream :
               seq_out'[s] = IF s = StreamOf(b) THEN b.seq ELSE seq_out[s]
          /\ \A s \in Stream : seq_out[s] <= seq_out'[s]
          /\ \A j \in delivered' :
               Data(origin[j]) => origin[j].seq <= seq_out'[StreamOf(origin[j])]
          /\ \A c \in Cid : stat'[c].seqerr_in = 0 /\ stat'[c].seqerr_out = 0
      BY <1>1, <1>8, <2>1, HandOutAhead
    <2>3. StreamOf(b) \in Stream /\ b.seq \in Int
      BY <1>1, <1>8, BufferFacts
    <2>4. \A s \in Stream : 0 <= seq_out'[s] /\ seq_out'[s] <= seq_in'[s]
      BY <1>1, <1>8, <2>1, <2>2, <2>3 DEF Ahead
    <2> QED
      BY <1>1, <1>8, <2>2, <2>4 DEF Ahead
  <1>9. CASE DrainBuf1
    <2>1. ~buf2.valid
      BY <1>1, <1>9, DrainingFacts DEF DrainBuf1, NetInv
    <2> QED
      BY <1>2, <1>8, <1>9, <2>1 DEF DrainBuf1, Sorting
  <1>10. CASE DrainBuf2
    BY <1>2, <1>8, <1>10 DEF DrainBuf2, Sorting
  <1>11. CASE SortDone
    <2>1. ~Sorting'
      BY <1>11 DEF SortDone, Sorting
    <2> QED
      BY <1>1, <1>11, <2>1 DEF SortDone, Ahead
  <1> QED
    BY <1>3, <1>4, <1>5, <1>6, <1>7, <1>9, <1>10, <1>11 DEF process

LEMMA AheadInit == NetInit /\ Straight => Ahead
  <1> SUFFICES ASSUME NetInit, Straight PROVE Ahead
    OBVIOUS
  <1>1. /\ \A s \in Stream : seq_in[s] = 0 /\ seq_out[s] = 0 /\ sent[s] = 0
        /\ inflight = {} /\ delivered = {} /\ pc = "recv"
        /\ ~buf1.valid /\ ~buf2.valid
    BY DEF NetInit, Init, NoMsg
  <1>2. \A c \in Cid : stat[c].seqerr_in = 0 /\ stat[c].seqerr_out = 0
    BY DEF NetInit, Init, NoStat
  <1> QED
    BY <1>1, <1>2 DEF Ahead, Sorting

LEMMA AheadPack ==
  ASSUME Carries, Carries', Straight, Ahead,
         NEW c \in Cid, NEW p \in Port, PackMsg(c, p)
  PROVE  Ahead'
  <1> DEFINE s == <<c, p>>
             new == Packed(c, p)
  <1>1. NetInv /\ Straight'
    BY DEF Carries, PackMsg, Straight, InOrder, Single
  <1>2. /\ s \in Stream /\ sent[s] \in Nat
        /\ sent' = [sent EXCEPT ![s] = @ + 1]
        /\ StreamOf(new) = s
        /\ inflight' = inflight \cup {new}
    BY <1>1, PackFacts
  <1>3. new.n = sent[s] + 1
    BY DEF Packed
  <1>4. /\ \A x \in Stream : seq_in[x] \in Int
        /\ sent \in [Stream -> 0 .. MaxSent] /\ MaxSent \in Nat
    BY <1>1, SequenceFacts, NetworkAssumption DEF NetInv, NetTypeOK
  <1>5. \A x \in Stream : sent'[x] = IF x = s THEN sent[x] + 1 ELSE sent[x]
    BY <1>2, <1>4
  <1>6. \A x \in Stream : seq_in[x] <= sent'[x]
    BY <1>2, <1>4, <1>5 DEF Ahead
  <1>7. Data(new) => seq_in[s] < new.seq
    <2>1. Data(new) => new.seq = Wrap(new.n)
      BY <1>1, <1>2 DEF Carries, Numbers, Counted, Straight, InOrder
    <2>2. sent[s] + 1 <= net.sent /\ net.sent < Half /\ net.sent \in Nat
      BY <1>1, PackFacts DEF Straight
    <2>3. new.n \in SeqNum
      BY <1>2, <1>3, <2>2, SorterAssumption DEF SeqNum
    <2> QED
      BY <1>2, <1>3, <1>4, <2>1, <2>3, WrapSmall DEF Ahead
  <1>8. \A k \in inflight' : Data(k) => seq_in[StreamOf(k)] < k.seq
    BY <1>2, <1>7 DEF Ahead
  <1>9. UNCHANGED <<vars, origin>>
    BY DEF PackMsg
  <1> QED
    BY <1>6, <1>8, <1>9 DEF vars, Ahead, Sorting, Pointee

LEMMA AheadArrive ==
  ASSUME Carries, Straight, Ahead, NEW k \in inflight, Arrive(k)
  PROVE  Ahead'
  <1>1. /\ NetInv /\ k \in Packet /\ inflight' \subseteq inflight
        /\ Recv(k.cid, k.destport, k.seq) /\ origin' = Append(origin, k)
    BY ArriveFacts DEF Carries, Arrive
  <1>2. /\ \A i \in 1 .. arrived : origin'[i] = origin[i]
        /\ delivered \subseteq 1 .. arrived
    BY <1>1, ArrivalFacts DEF NetInv, NetTypeOK, TypeOK
  <1>3. \A j \in delivered : origin'[j] = origin[j]
    BY <1>2
  <1>4. /\ msg' = Unpacked(k.cid, k.destport, k.seq, arrived + 1)
        /\ UNCHANGED <<buf1, buf2, seq_in, seq_out, stat, delivered, sent>>
    BY <1>1 DEF Recv, Arrive
  <1>5. StreamOf(msg') = StreamOf(k) /\ msg'.seq = k.seq /\ (Data(msg') <=> Data(k))
    BY <1>4 DEF Unpacked, StreamOf, Data
  <1>6. Data(msg') => seq_in'[StreamOf(msg')] < msg'.seq
    BY <1>4, <1>5 DEF Ahead
  <1> QED
    BY <1>1, <1>3, <1>4, <1>6 DEF Ahead

LEMMA AheadNext ==
  ASSUME Carries, Carries', Straight, Ahead, [NetNext]_allVars PROVE Ahead'
  <1>1. ASSUME NEW s \in net.sending, PackMsg(s[1], s[2]) PROVE Ahead'
    BY <1>1, SenderFacts, AheadPack DEF Carries, NetInv, NetTypeOK
  <1>2. ASSUME NEW k \in net.stray, Stray(k) PROVE Ahead'
    BY <1>2 DEF Straight, InOrder, Single
  <1>3. ASSUME NEW k \in inflight, Arrive(k) PROVE Ahead'
    BY <1>3, AheadArrive
  <1>4. ASSUME NEW k \in inflight, Lose(k) PROVE Ahead'
    BY <1>4 DEF Lose, vars, Ahead, Sorting, Pointee
  <1>5. CASE UNCHANGED allVars
    BY <1>5 DEF allVars, vars, netVars, Ahead, Sorting, Pointee
  <1> QED
    BY <1>1, <1>2, <1>3, <1>4, <1>5, AheadProcess DEF NetNext

(* The steps that hand nothing out keep every order.                       *)
LEMMA QuietFollows == delivered' = delivered => Follows
  BY DEF Follows

LEMMA StraightFollows ==
  ASSUME Carries, Straight, Ahead, [NetNext]_allVars PROVE Follows
  <1>1. /\ NetInv /\ Linked /\ NoErrors(stat) /\ stat \in [Cid -> Stat]
        /\ \A s \in Stream : seq_in[s] \in Int /\ seq_out[s] \in Int
    BY SequenceFacts DEF Carries, Ahead, NoErrors
  <1>2. ASSUME Sorting, ~IsSpecial, TakeIn
        PROVE  /\ [stat EXCEPT ![msg.cid] = CountIn(@)] \in [Cid -> Stat]
               /\ NoErrors([stat EXCEPT ![msg.cid] = CountIn(@)])
               /\ msg.valid /\ Data(msg) /\ Carried(msg)
               /\ seq_out[StreamOf(msg)] < msg.seq
    <2>1. /\ msg.valid /\ Data(msg) /\ seq_in[StreamOf(msg)] < msg.seq
      BY <1>2, SortingAhead
    <2>2. StreamOf(msg) \in Stream /\ msg.seq \in Int
      BY <1>1, BufferFacts
    <2>3. seq_out[StreamOf(msg)] < msg.seq
      BY <1>1, <2>1, <2>2 DEF Ahead
    <2> QED
      BY <1>1, <1>2, <2>1, <2>3, TakeInAhead DEF Linked
  <1>3. CASE SortSpecial
    <2>1. /\ delivered' = delivered \cup {msg.id}
          /\ msg.id = arrived /\ msg.id \in 1 .. arrived
      BY <1>3, SpecialFacts
    <2>2. \A j \in delivered : j \in 1 .. arrived /\ origin[j].n \in Int
      BY <1>1, PacketFacts DEF NetInv, NetTypeOK, TypeOK
    <2>3. \A j \in delivered : SameStream(j, msg.id) => origin[j].n <= origin[msg.id].n
      <3> SUFFICES ASSUME NEW j \in delivered, SameStream(j, msg.id)
                   PROVE  origin[j].n <= origin[msg.id].n
        OBVIOUS
      <3>1. CASE j = msg.id
        BY <2>2, <3>1
      <3>2. CASE j < msg.id
        <4>1. origin[j].n < origin[msg.id].n
          BY <2>1, <2>2, <3>2 DEF Carries, Numbers, Lined, Straight
        <4>2. origin[msg.id].n \in Int
          BY <1>1, <2>1, PacketFacts DEF NetInv, NetTypeOK
        <4> QED
          BY <2>2, <4>1, <4>2
      <3> QED
        BY <2>1, <2>2, <3>1, <3>2
    <2> QED
      BY <2>1, <2>3 DEF Follows
  <1>4. CASE SortRelease
    <2>1. Data(buf1) /\ Carried(buf1) /\ seq_out[StreamOf(buf1)] < buf1.seq
          /\ buf1.valid
      BY <1>1, <1>4 DEF Linked, Ahead, SortRelease, ReleaseFirst
    <2> QED
      BY <1>2, <1>4, <2>1, HandOutAhead DEF SortRelease
  <1>5. CASE SortPass
    BY <1>2, <1>5, HandOutAhead DEF SortPass
  <1>6. CASE DrainBuf1
    BY <1>1, <1>6, HandOutAhead DEF DrainBuf1, Linked, Ahead
  <1>7. CASE DrainBuf2
    BY <1>1, <1>7, HandOutAhead DEF DrainBuf2, Linked, Ahead
  <1>8. CASE process
    BY <1>3, <1>4, <1>5, <1>6, <1>7, <1>8, QuietFollows
       DEF process, SortHold, SortDone
  <1>9. CASE ~process
    <2>1. delivered' = delivered
      BY <1>9 DEF NetNext, PackMsg, Stray, Arrive, Recv, Lose, RecvNothing,
                  allVars, vars
    <2> QED
      BY <2>1, QuietFollows
  <1> QED
    BY <1>8, <1>9

----------------------------------------------------------------------------
(* Losses.  A packet is gone when it was sent and is neither on its way    *)
(* nor received.  Every message that opens a gap is the successor of a     *)
(* packet that is gone, and a message is overwritten in buf1 by the next   *)
(* one of this kind.                                                       *)

Gone ==
  {x \in Stream \X (1 .. MaxSent) :
     /\ x[2] <= sent[x[1]]
     /\ \A k \in inflight : StreamOf(k) = x[1] => k.n # x[2]
     /\ \A i \in 1 .. arrived : StreamOf(origin[i]) = x[1] => origin[i].n # x[2]}

GoneByLoss == IsFiniteSet(Gone) /\ Cardinality(Gone) <= losses

LEMMA GoneInit == NetInit => GoneByLoss
  <1> SUFFICES ASSUME NetInit PROVE GoneByLoss
    OBVIOUS
  <1>1. Gone = {}
    BY NetworkAssumption DEF Gone, NetInit
  <1>2. losses = 0
    BY DEF NetInit
  <1> QED
    BY <1>1, <1>2, FS_EmptySet DEF GoneByLoss

(* A packet that is gone stays gone, and only a loss adds one.             *)
LEMMA GonePack ==
  ASSUME NetInv, NEW c \in Cid, NEW p \in Port, PackMsg(c, p)
  PROVE  Gone' = Gone
  <1> DEFINE s == <<c, p>>
             new == Packed(c, p)
  <1>1. /\ s \in Stream /\ sent[s] \in Nat
        /\ sent' = [sent EXCEPT ![s] = @ + 1]
        /\ StreamOf(new) = s
        /\ inflight' = inflight \cup {new}
    BY PackFacts
  <1>2. new.n = sent[s] + 1
    BY DEF Packed
  <1>3. \A x \in Stream : sent[x] \in Nat
          /\ sent'[x] = IF x = s THEN sent[x] + 1 ELSE sent[x]
    <2>1. sent \in [Stream -> 0 .. MaxSent] /\ MaxSent \in Nat
      BY NetworkAssumption DEF NetInv, NetTypeOK
    <2>2. \A x \in Stream : sent[x] \in Nat
      BY <2>1
    <2> QED
      BY <1>1, <2>1, <2>2
  <1>4. origin' = origin /\ arrived' = arrived
    BY DEF PackMsg, vars
  <1>5. \A x \in Stream : \A n \in 1 .. MaxSent :
          ( /\ n <= sent'[x]
            /\ \A k \in inflight' : StreamOf(k) = x => k.n # n )
          <=> ( /\ n <= sent[x]
                /\ \A k \in inflight : StreamOf(k) = x => k.n # n )
    <2> SUFFICES ASSUME NEW x \in Stream, NEW n \in 1 .. MaxSent
                 PROVE  ( /\ n <= sent'[x]
                          /\ \A k \in inflight' : StreamOf(k) = x => k.n # n )
                        <=> ( /\ n <= sent[x]
                              /\ \A k \in inflight : StreamOf(k) = x => k.n # n )
      OBVIOUS
    <2>1. (\A k \in inflight' : StreamOf(k) = x => k.n # n)
          <=> /\ \A k \in inflight : StreamOf(k) = x => k.n # n
              /\ x = s => n # sent[s] + 1
      BY <1>1, <1>2
    <2>2. n <= sent'[x] /\ (x = s => n # sent[s] + 1) <=> n <= sent[x]
      BY <1>1, <1>3, NetworkAssumption
    <2> QED
      BY <2>1, <2>2
  <1> QED
    BY <1>4, <1>5 DEF Gone

LEMMA GoneArrive ==
  ASSUME NetInv, NEW k \in inflight, Arrive(k)
  PROVE  Gone' = Gone
  <1>1. k \in Packet /\ inflight' \in {inflight, inflight \ {k}} /\ sent' = sent
    BY ArriveFacts DEF Arrive
  <1>2. /\ arrived' = arrived + 1 /\ arrived \in Nat
        /\ \A i \in 1 .. arrived : origin'[i] = origin[i]
        /\ origin'[arrived + 1] = k
    BY <1>1, ArrivalFacts DEF Arrive
  <1>3. \A i \in 1 .. arrived' :
          \/ i \in 1 .. arrived /\ origin'[i] = origin[i]
          \/ i = arrived + 1 /\ origin'[i] = k
    BY <1>2
  <1>4. 1 .. arrived \subseteq 1 .. arrived' /\ arrived + 1 \in 1 .. arrived'
    BY <1>2
  <1>5. \A x \in Stream : \A n \in 1 .. MaxSent :
          ( /\ \A j \in inflight' : StreamOf(j) = x => j.n # n
            /\ \A i \in 1 .. arrived' : StreamOf(origin'[i]) = x => origin'[i].n # n )
          <=> ( /\ \A j \in inflight : StreamOf(j) = x => j.n # n
                /\ \A i \in 1 .. arrived : StreamOf(origin[i]) = x => origin[i].n # n )
    <2> SUFFICES ASSUME NEW x \in Stream, NEW n \in 1 .. MaxSent
                 PROVE  ( /\ \A j \in inflight' : StreamOf(j) = x => j.n # n
                          /\ \A i \in 1 .. arrived' :
                               StreamOf(origin'[i]) = x => origin'[i].n # n )
                        <=> ( /\ \A j \in inflight : StreamOf(j) = x => j.n # n
                              /\ \A i \in 1 .. arrived :
                                   StreamOf(origin[i]) = x => origin[i].n # n )
      OBVIOUS
    <2>1. (\A i \in 1 .. arrived' : StreamOf(origin'[i]) = x => origin'[i].n # n)
          <=> /\ \A i \in 1 .. arrived : StreamOf(origin[i]) = x => origin[i].n # n
              /\ StreamOf(k) = x => k.n # n
      BY <1>2, <1>3, <1>4
    <2>2. (\A j \in inflight : StreamOf(j) = x => j.n # n)
          <=> /\ \A j \in inflight' : StreamOf(j) = x => j.n # n
              /\ StreamOf(k) = x => k.n # n
      <3>1. CASE inflight' = inflight
        BY <3>1
      <3>2. CASE inflight' = inflight \ {k}
        BY <3>2
      <3> QED
        BY <1>1, <3>1, <3>2
    <2> QED
      BY <2>1, <2>2
  <1> QED
    BY <1>1, <1>5 DEF Gone

LEMMA GoneLose ==
  ASSUME NetInv, NEW k \in inflight, Lose(k)
  PROVE  Gone \subseteq Gone' /\ Gone' \subseteq Gone \cup {<<StreamOf(k), k.n>>}
  <1>1. /\ inflight' = inflight \ {k}
        /\ UNCHANGED <<sent, origin, arrived>>
    BY DEF Lose, vars
  <1>2. Gone \subseteq Gone'
    BY <1>1 DEF Gone
  <1>3. ASSUME NEW x \in Gone', x \notin Gone PROVE x = <<StreamOf(k), k.n>>
    <2>1. x \in Stream \X (1 .. MaxSent) /\ x = <<x[1], x[2]>>
      BY DEF Gone
    <2>2. StreamOf(k) = x[1] /\ k.n = x[2]
      BY <1>1, <1>3 DEF Gone
    <2> QED
      BY <2>1, <2>2
  <1> QED
    BY <1>2, <1>3

LEMMA GoneNext ==
  ASSUME NetInv, net.stray = {}, GoneByLoss, [NetNext]_allVars
  PROVE  GoneByLoss' /\ Gone \subseteq Gone'
  <1>1. losses \in Nat /\ Cardinality(Gone) \in Nat
    BY FS_CardinalityType, NetFacts DEF GoneByLoss, NetInv, NetTypeOK
  <1>2. CASE Gone' = Gone /\ losses' = losses
    BY <1>2 DEF GoneByLoss
  <1>3. ASSUME NEW s \in net.sending, PackMsg(s[1], s[2])
        PROVE  Gone' = Gone /\ losses' = losses
    BY <1>3, SenderFacts, GonePack DEF PackMsg, NetInv, NetTypeOK
  <1>4. ASSUME NEW k \in net.stray, Stray(k) PROVE FALSE
    BY <1>4
  <1>5. ASSUME NEW k \in inflight, Arrive(k)
        PROVE  Gone' = Gone /\ losses' = losses
    BY <1>5, GoneArrive DEF Arrive
  <1>6. ASSUME NEW k \in inflight, Lose(k)
        PROVE  GoneByLoss' /\ Gone \subseteq Gone'
    <2> DEFINE x == <<StreamOf(k), k.n>>
    <2>1. Gone \subseteq Gone' /\ Gone' \subseteq Gone \cup {x}
      BY <1>6, GoneLose
    <2> HIDE DEF x
    <2>2. /\ IsFiniteSet(Gone \cup {x})
          /\ Cardinality(Gone \cup {x})
               = IF x \in Gone THEN Cardinality(Gone) ELSE Cardinality(Gone) + 1
      BY FS_AddElement DEF GoneByLoss
    <2>3. /\ IsFiniteSet(Gone')
          /\ Cardinality(Gone') <= Cardinality(Gone \cup {x})
      BY <2>1, <2>2, FS_Subset
    <2>4. losses' = losses + 1
      BY <1>6 DEF Lose
    <2>5. Cardinality(Gone') \in Nat /\ Cardinality(Gone \cup {x}) \in Nat
      BY <2>2, <2>3, FS_CardinalityType
    <2>6. Cardinality(Gone') <= losses'
      BY <1>1, <2>2, <2>3, <2>4, <2>5 DEF GoneByLoss
    <2> QED
      BY <2>1, <2>3, <2>6 DEF GoneByLoss
  <1>7. CASE UNCHANGED <<arrived, netVars>>
    BY <1>2, <1>7 DEF netVars, Gone
  <1>8. CASE UNCHANGED allVars
    BY <1>7, <1>8 DEF allVars, vars
  <1> QED
    BY <1>2, <1>3, <1>4, <1>5, <1>6, <1>7, <1>8, ProcessKeepsArrived DEF NetNext

(* The packet before the one that datagram i carried is gone.              *)
Skipped(i) == <<StreamOf(origin[i]), origin[i].n - 1>> \in Gone

(* What the sorter has not received before the message it sorts is gone.   *)
Drops ==
  /\ \A i \in 1 .. arrived :
       Data(origin[i]) => \/ origin[i].seq <= seq_in[StreamOf(origin[i])]
                          \/ Sorting /\ i = msg.id
  /\ Sorting /\ Data(msg) =>
       \A n \in seq_in[StreamOf(msg)] + 1 .. msg.seq - 1 :
         <<StreamOf(msg), n>> \in Gone
  /\ \A i \in dropped : Skipped(i)
  /\ buf1.valid => Skipped(buf1.id)
  /\ dropped # {} => \E i \in (1 .. arrived) \ dropped : Skipped(i)

LEMMA DropsInit == NetInit => Drops
  <1> SUFFICES ASSUME NetInit PROVE Drops
    OBVIOUS
  <1>1. 1 .. arrived = {} /\ dropped = {} /\ pc = "recv" /\ ~buf1.valid
    BY DEF NetInit, Init, NoMsg
  <1> QED
    BY <1>1 DEF Drops, Sorting

(* What is gone stays gone: Skipped survives every step.                   *)
LEMMA SkippedStays ==
  ASSUME Carries, Gone \subseteq Gone', \A i \in 1 .. arrived : origin'[i] = origin[i]
  PROVE  \A i \in 1 .. arrived : Skipped(i) => Skipped(i)'
  BY DEF Skipped

(* A datagram that arrives in order skips only packets that are gone.      *)
LEMMA DropsArrive ==
  ASSUME Carries, Carries', Straight, Ahead, Drops, Gone' = Gone,
         NEW k \in inflight, Arrive(k)
  PROVE  Drops'
  <1>1. /\ NetInv /\ k \in Packet /\ Older(k) = {}
        /\ Recv(k.cid, k.destport, k.seq) /\ origin' = Append(origin, k)
        /\ IInv /\ IInv'
    BY ArriveFacts DEF Carries, Arrive, Straight, InOrder, NetInv
  <1>2. /\ arrived' = arrived + 1 /\ arrived \in Nat
        /\ \A i \in 1 .. arrived : origin'[i] = origin[i]
        /\ origin'[arrived + 1] = k
    BY <1>1, ArrivalFacts
  <1>3. \A i \in 1 .. arrived' :
          \/ i \in 1 .. arrived /\ origin'[i] = origin[i]
          \/ i = arrived + 1 /\ origin'[i] = k
    BY <1>2
  <1>4. /\ msg' = Unpacked(k.cid, k.destport, k.seq, arrived + 1)
        /\ pc = "recv" /\ pc' = "sort" /\ pmsg' = "msg"
        /\ UNCHANGED <<buf1, buf2, seq_in, seq_out, stat, delivered, dropped>>
    BY <1>1 DEF Recv
  <1>5. /\ StreamOf(msg') = StreamOf(k) /\ msg'.seq = k.seq /\ msg'.valid
        /\ msg'.id = arrived + 1 /\ (Data(msg') <=> Data(k))
    BY <1>4 DEF Unpacked, StreamOf, Data
  <1>6. Sorting'
    BY <1>4, <1>5 DEF Sorting, Pointee
  <1>7. ~Sorting
    BY <1>4 DEF Sorting
  <1>8. \A i \in 1 .. arrived :
          Data(origin[i]) => origin[i].seq <= seq_in[StreamOf(origin[i])]
    BY <1>7 DEF Drops
  <1>9. \A i \in 1 .. arrived' :
          Data(origin'[i]) => \/ origin'[i].seq <= seq_in'[StreamOf(origin'[i])]
                              \/ Sorting' /\ i = msg'.id
    BY <1>3, <1>4, <1>5, <1>6, <1>8
  <1>10. Data(k) =>
           \A n \in seq_in[StreamOf(k)] + 1 .. k.seq - 1 : <<StreamOf(k), n>> \in Gone
    <2> SUFFICES ASSUME Data(k), NEW n \in seq_in[StreamOf(k)] + 1 .. k.seq - 1
                 PROVE  <<StreamOf(k), n>> \in Gone
      OBVIOUS
    <2> DEFINE s == StreamOf(k)
    <2>1. /\ s \in Stream /\ seq_in[s] \in Int /\ 0 <= seq_in[s]
          /\ k.seq = k.n /\ k.n \in 1 .. sent[s] /\ sent[s] \in 0 .. MaxSent
          /\ MaxSent \in Nat
      <3>1. s \in Stream /\ seq_in[s] \in Int
        BY <1>1, PacketFacts, SequenceFacts
      <3>2. k.seq = k.n /\ k.n \in 1 .. sent[s]
        BY StraightSeq DEF Carries, Numbers, Numbered, Straight, InOrder
      <3>3. 0 <= seq_in[s]
        <4>1. 0 <= seq_out[s] /\ seq_out[s] <= seq_in[s] /\ seq_out[s] \in Int
          BY <1>1, <3>1, SequenceFacts DEF Ahead
        <4> QED
          BY <3>1, <4>1
      <3>4. sent[s] \in 0 .. MaxSent /\ MaxSent \in Nat
        BY <1>1, <3>1, NetworkAssumption DEF NetInv, NetTypeOK
      <3> QED
        BY <3>1, <3>2, <3>3, <3>4
    <2>2. n \in 1 .. MaxSent /\ n <= sent[s] /\ n < k.n /\ seq_in[s] < n
      BY <2>1
    <2>3. \A j \in inflight : StreamOf(j) = s => j.n # n
      BY <1>1, <2>2 DEF Older
    <2>4. \A i \in 1 .. arrived : StreamOf(origin[i]) = s => origin[i].n # n
      <3> SUFFICES ASSUME NEW i \in 1 .. arrived, StreamOf(origin[i]) = s
                   PROVE  origin[i].n # n
        OBVIOUS
      <3>1. Data(origin[i])
        BY DEF Data, StreamOf
      <3>2. origin[i].seq <= seq_in[s] /\ origin[i].seq = origin[i].n
        BY <1>8, <3>1, StraightSeq
      <3>3. origin[i].n \in Nat
        BY <1>1, PacketFacts DEF NetInv, NetTypeOK
      <3> QED
        BY <2>1, <2>2, <3>2, <3>3
    <2> QED
      BY <2>1, <2>2, <2>3, <2>4 DEF Gone
  <1>11. \A i \in 1 .. arrived : Skipped(i) => Skipped(i)'
    BY <1>2, SkippedStays
  <1>12. dropped \subseteq 1 .. arrived /\ (buf1.valid => buf1.id \in 1 .. arrived)
    BY <1>1 DEF NetInv, NetTypeOK, TypeOK, Carries, Linked, Carried
  <1>13. \A i \in dropped' : Skipped(i)'
    BY <1>4, <1>11, <1>12 DEF Drops
  <1>14. (buf1.valid => Skipped(buf1.id))'
    <2>1. buf1.valid => Skipped(buf1.id) /\ buf1.id \in 1 .. arrived
      BY <1>12 DEF Drops
    <2>2. buf1.valid => <<StreamOf(origin'[buf1.id]), origin'[buf1.id].n - 1>> \in Gone'
      BY <1>2, <2>1 DEF Skipped
    <2> QED
      BY <1>4, <2>2 DEF Skipped
  <1>15. dropped' # {} => \E i \in (1 .. arrived') \ dropped' : Skipped(i)'
    <2> SUFFICES ASSUME dropped # {}
                 PROVE  \E i \in (1 .. arrived') \ dropped' : Skipped(i)'
      BY <1>4
    <2>1. PICK i \in (1 .. arrived) \ dropped : Skipped(i)
      BY DEF Drops
    <2>2. Skipped(i)' /\ i \in (1 .. arrived') \ dropped'
      BY <1>2, <1>4, <1>11, <2>1
    <2> QED
      BY <2>2
  <1>16. Data(msg') =>
           \A n \in seq_in'[StreamOf(msg')] + 1 .. msg'.seq - 1 :
             <<StreamOf(msg'), n>> \in Gone'
    BY <1>4, <1>5, <1>10
  <1> QED
    BY <1>9, <1>13, <1>14, <1>15, <1>16 DEF Drops

(* Once the message being sorted is taken in, every arrival is.            *)
LEMMA AllTakenIn ==
  ASSUME Carries, Straight, Ahead, Drops, Sorting, ~IsSpecial, TakeIn,
         UNCHANGED <<origin, arrived>>
  PROVE  \A i \in 1 .. arrived' :
           Data(origin'[i]) => origin'[i].seq <= seq_in'[StreamOf(origin'[i])]
  <1>1. /\ NetInv /\ Carried(msg) /\ msg.valid
        /\ \A s \in Stream : seq_in[s] \in Int
    BY SequenceFacts DEF Carries, Linked, Sorting, Pointee
  <1>2. /\ \A s \in Stream :
             seq_in'[s] = IF s = StreamOf(msg) THEN msg.seq ELSE seq_in[s]
        /\ \A s \in Stream : seq_in[s] <= seq_in'[s]
    BY TakeInAhead
  <1> SUFFICES ASSUME NEW i \in 1 .. arrived, Data(origin[i])
                 PROVE  origin[i].seq <= seq_in'[StreamOf(origin[i])]
    OBVIOUS
  <1>3. StreamOf(origin[i]) \in Stream /\ origin[i].seq \in Int
    BY <1>1, PacketFacts DEF NetInv, NetTypeOK
  <1>4. StreamOf(msg) \in Stream /\ msg.seq \in Int
    BY <1>1, BufferFacts
  <1>5. CASE i = msg.id
    BY <1>1, <1>2, <1>3, <1>4, <1>5 DEF Carried
  <1>6. CASE origin[i].seq <= seq_in[StreamOf(origin[i])]
    <2>1. seq_in'[StreamOf(origin[i])] \in Int
      BY <1>1, <1>2, <1>3, <1>4
    <2> QED
      BY <1>1, <1>2, <1>3, <1>6, <2>1
  <1> QED
    BY <1>5, <1>6 DEF Drops

LEMMA DropsProcess ==
  ASSUME Carries, Straight, Ahead, Drops, RecvNothing \/ process, UNCHANGED netVars
  PROVE  Drops'
  <1>1. /\ origin' = origin /\ arrived' = arrived /\ Gone' = Gone
        /\ NetInv /\ Linked /\ IInv /\ TypeOK /\ arrived \in Nat
    BY ProcessKeepsArrived DEF netVars, Gone, Carries, NetInv, IInv, TypeOK
  <1>2. \A i : Skipped(i)' <=> Skipped(i)
    BY <1>1 DEF Skipped
  <1>3. ~Consumed(msg).valid /\ ~Consumed(buf1).valid
    BY <1>1, ConsumedFacts, BufferFacts
  <1>4. ASSUME ~Sorting', dropped' = dropped, buf1'.valid => buf1' = buf1,
               \A i \in 1 .. arrived :
                 Data(origin[i]) => origin[i].seq <= seq_in'[StreamOf(origin[i])]
        PROVE  Drops'
    <2>1. (buf1.valid => Skipped(buf1.id))'
      BY <1>1, <1>4 DEF Drops, Skipped
    <2> QED
      BY <1>1, <1>2, <1>4, <2>1 DEF Drops
  <1>5. ~Sorting => \A i \in 1 .. arrived :
                      Data(origin[i]) => origin[i].seq <= seq_in[StreamOf(origin[i])]
    BY DEF Drops
  <1>6. CASE RecvNothing
    BY <1>4, <1>5, <1>6 DEF RecvNothing, Sorting
  <1>7. CASE SortSpecial
    <2>1. ~Sorting' /\ ~Data(origin[msg.id])
      BY <1>7, SpecialFacts
    <2>2. UNCHANGED <<buf1, seq_in, dropped>>
      BY <1>7 DEF SortSpecial
    <2>3. \A i \in 1 .. arrived :
            Data(origin[i]) => origin[i].seq <= seq_in'[StreamOf(origin[i])]
      BY <2>1, <2>2 DEF Drops
    <2> QED
      BY <1>4, <2>1, <2>2, <2>3
  <1>8. Sorting /\ ~IsSpecial /\ TakeIn =>
          \A i \in 1 .. arrived :
            Data(origin[i]) => origin[i].seq <= seq_in'[StreamOf(origin[i])]
    BY <1>1, AllTakenIn
  <1>9. CASE SortRelease
    BY <1>3, <1>4, <1>8, <1>9 DEF SortRelease, Sorting
  <1>10. CASE SortPass
    BY <1>3, <1>4, <1>8, <1>10 DEF SortPass, Sorting, Pointee
  <1>11. CASE DrainBuf1
    BY <1>3, <1>4, <1>5, <1>11 DEF DrainBuf1, Draining, Sorting
  <1>12. CASE DrainBuf2
    BY <1>4, <1>5, <1>12 DEF DrainBuf2, Draining, Sorting
  <1>13. CASE SortDone
    BY <1>4, <1>5, <1>13 DEF SortDone, Draining, Sorting
  <1>14. CASE SortHold
    <2>1. /\ Sorting /\ ~IsSpecial /\ TakeIn /\ DSeqIn > 1
          /\ buf1' = msg /\ pc' = "recv"
          /\ dropped' = IF buf1.valid THEN dropped \cup {buf1.id} ELSE dropped
      BY <1>14 DEF SortHold, OpensGap
    <2>2. /\ msg.valid /\ Data(msg)
          /\ seq_in[StreamOf(msg)] < msg.seq
          /\ DSeqIn = msg.seq - seq_in[StreamOf(msg)]
      BY <2>1, SortingAhead
    <2>3. /\ msg.id = arrived /\ msg.id \in 1 .. arrived
          /\ buf1.valid => buf1.id = arrived - 1
          /\ Pending = {msg.id} \cup (IF buf1.valid THEN {buf1.id} ELSE {})
      BY <1>1, <2>1, SortingFacts
    <2>4. msg.id \notin dropped'
      BY <1>1, <2>1, <2>3 DEF IInv, Conservation
    <2>5. StreamOf(origin[msg.id]) = StreamOf(msg) /\ origin[msg.id].seq = msg.seq
          /\ Data(origin[msg.id])
      BY <1>1, <2>2 DEF Linked, Carried, Data, StreamOf
    <2>6. origin[msg.id].n = msg.seq
      BY <2>3, <2>5, StraightSeq
    <2>7. Skipped(msg.id)
      <3>1. msg.seq \in Int /\ StreamOf(msg) \in Stream /\ seq_in[StreamOf(msg)] \in Int
        BY <1>1, BufferFacts
      <3>2. msg.seq - 1 \in seq_in[StreamOf(msg)] + 1 .. msg.seq - 1
        BY <2>1, <2>2, <3>1
      <3> QED
        BY <2>1, <2>2, <2>5, <2>6, <3>2 DEF Drops, Skipped
    <2>8. \A i \in dropped' : Skipped(i)'
      BY <1>2, <2>1 DEF Drops
    <2>9. (buf1.valid => Skipped(buf1.id))'
      BY <1>1, <2>1, <2>7 DEF Skipped
    <2>10. \E i \in (1 .. arrived') \ dropped' : Skipped(i)'
      BY <1>1, <1>2, <2>3, <2>4, <2>7
    <2>11. ~Sorting'
      BY <2>1 DEF Sorting
    <2> QED
      BY <1>1, <1>8, <2>1, <2>8, <2>9, <2>10, <2>11 DEF Drops
  <1> QED
    BY <1>6, <1>7, <1>9, <1>10, <1>11, <1>12, <1>13, <1>14 DEF process

LEMMA DropsNext ==
  ASSUME Carries, Carries', Straight, Ahead, GoneByLoss, Drops, [NetNext]_allVars
  PROVE  Drops'
  <1>1. Gone \subseteq Gone' /\ NetInv /\ Single /\ dropped \subseteq 1 .. arrived
        /\ (buf1.valid => buf1.id \in 1 .. arrived)
    BY GoneNext DEF Carries, Straight, InOrder, Single, NetInv, NetTypeOK, TypeOK, Linked, Carried
  <1>2. CASE UNCHANGED <<vars, origin>>
    <2>1. \A i \in 1 .. arrived : Skipped(i) => Skipped(i)'
      BY <1>1, <1>2, SkippedStays
    <2>2. (buf1.valid => Skipped(buf1.id))'
      BY <1>1, <1>2, <2>1 DEF vars, Drops, Skipped
    <2>3. \A i \in dropped' : Skipped(i)'
      BY <1>1, <1>2, <2>1 DEF vars, Drops
    <2>4. dropped' # {} => \E i \in (1 .. arrived') \ dropped' : Skipped(i)'
      BY <1>2, <2>1 DEF vars, Drops
    <2>5. Sorting' <=> Sorting
      BY <1>2 DEF vars, Sorting, Pointee
    <2>6. (Sorting /\ Data(msg) =>
             \A n \in seq_in[StreamOf(msg)] + 1 .. msg.seq - 1 :
               <<StreamOf(msg), n>> \in Gone)'
      BY <1>1, <1>2, <2>5 DEF vars, Drops
    <2> QED
      BY <1>2, <2>2, <2>3, <2>4, <2>5, <2>6 DEF vars, Drops
  <1>3. ASSUME NEW s, PackMsg(s[1], s[2]) PROVE Drops'
    BY <1>2, <1>3 DEF PackMsg
  <1>4. ASSUME NEW k \in net.stray, Stray(k) PROVE FALSE
    BY <1>1, <1>4 DEF Single
  <1>5. ASSUME NEW k \in inflight, Arrive(k) PROVE Drops'
    BY <1>1, <1>5, GoneArrive, DropsArrive DEF Single
  <1>6. ASSUME NEW k \in inflight, Lose(k) PROVE Drops'
    BY <1>2, <1>6 DEF Lose
  <1>7. CASE UNCHANGED allVars
    BY <1>2, <1>7 DEF allVars, netVars
  <1> QED
    BY <1>3, <1>4, <1>5, <1>6, <1>7, DropsProcess DEF NetNext

GoneInv == net.stray = {} => GoneByLoss
StraightInv == Straight => Ahead /\ Drops

LEMMA NetStays == [NetNext]_allVars => net' = net
  BY DEF NetNext, PackMsg, Stray, Arrive, Lose, allVars, netVars

LEMMA GoneInvariant == NetSpec => []GoneInv
  <1>1. NetInit => GoneInv
    BY GoneInit DEF GoneInv
  <1>2. Carries /\ GoneInv /\ [NetNext]_allVars => GoneInv'
    BY NetStays, GoneNext DEF GoneInv, Carries
  <1> QED
    BY <1>1, <1>2, CarriesInvariant, PTL DEF NetSpec

LEMMA StraightInvariant == NetSpec => []StraightInv
  <1>1. NetInit => StraightInv
    BY AheadInit, DropsInit DEF StraightInv
  <1>2. Carries /\ Carries' /\ GoneInv /\ StraightInv /\ [NetNext]_allVars => StraightInv'
    <2> SUFFICES ASSUME Carries, Carries', GoneInv, StraightInv, [NetNext]_allVars,
                        Straight'
                 PROVE  Ahead' /\ Drops'
      BY DEF StraightInv
    <2>1. Straight /\ Ahead /\ GoneByLoss /\ Drops
      BY NetStays DEF GoneInv, StraightInv, Straight, InOrder, Single
    <2> QED
      BY <2>1, AheadNext, DropsNext
  <1> QED
    BY <1>1, <1>2, CarriesInvariant, GoneInvariant, PTL DEF NetSpec

(* On a network that keeps the order no sequence error is reported, on the *)
(* way in or out, however many packets are missing and however many        *)
(* streams share the two buffers (ovboxclient.cc:676-725).                 *)
THEOREM NoFalseSeqErrHolds == NetSpec => []NoFalseSeqErr
  <1>1. StraightInv => NoFalseSeqErr
    BY DEF StraightInv, Ahead, NoFalseSeqErr
  <1> QED
    BY <1>1, StraightInvariant, PTL

LEMMA DropsAreGone ==
  ASSUME Carries, Straight, GoneByLoss, Drops, dropped # {}
  PROVE  Cardinality(dropped) < losses
  <1>1. NetInv /\ Numbered /\ dropped \subseteq 1 .. arrived /\ arrived \in Nat
        /\ losses \in Nat
    BY NetFacts DEF Carries, Numbers, Straight, InOrder, NetInv, NetTypeOK, TypeOK
  <1>2. PICK last \in (1 .. arrived) \ dropped : Skipped(last)
    BY DEF Drops
  <1> DEFINE skips == dropped \cup {last}
             before == [i \in skips |-> <<StreamOf(origin[i]), origin[i].n - 1>>]
  <1>3. skips \subseteq 1 .. arrived /\ \A i \in skips : Skipped(i)
    BY <1>1, <1>2 DEF Drops
  <1>4. before \in [skips -> Gone]
    BY <1>3 DEF Skipped
  <1>5. \A i, j \in skips : before[i] = before[j] => i = j
    <2> SUFFICES ASSUME NEW i \in skips, NEW j \in skips, before[i] = before[j]
                 PROVE  i = j
      OBVIOUS
    <2>1. origin[i].n \in Nat /\ origin[j].n \in Nat
      BY <1>1, <1>3, PacketFacts DEF NetInv, NetTypeOK
    <2>2. StreamOf(origin[i]) = StreamOf(origin[j])
          /\ origin[i].n - 1 = origin[j].n - 1
      OBVIOUS
    <2>3. SameStream(i, j) /\ origin[i].n = origin[j].n
      BY <2>1, <2>2 DEF SameStream
    <2> QED
      BY <1>1, <1>3, <2>3 DEF Numbered
  <1>6. before \in Injection(skips, Gone)
    BY <1>4, <1>5, Fun_IsInj
  <1>7. Cardinality(skips) <= Cardinality(Gone)
    BY <1>6, FS_Injection DEF GoneByLoss
  <1>8. IsFiniteSet(dropped)
    <2>1. IsFiniteSet(1 .. arrived)
      BY <1>1, FS_Interval
    <2> QED
      BY <1>1, <2>1, FS_Subset
  <1>9. Cardinality(skips) = Cardinality(dropped) + 1
    BY <1>2, <1>8, FS_AddElement
  <1>10. Cardinality(dropped) \in Nat /\ Cardinality(Gone) \in Nat
    BY <1>8, FS_CardinalityType DEF GoneByLoss
  <1> QED
    BY <1>1, <1>7, <1>9, <1>10 DEF GoneByLoss

(* On a network that keeps the order every message overwritten in buf1     *)
(* (ovboxclient.cc:695) stands for a packet the network lost, and one more *)
(* was lost before the message that took its place.                        *)
THEOREM DropsBelowLossesHolds == NetSpec => []DropsBelowLosses
  <1>1. Carries /\ GoneInv /\ StraightInv => DropsBelowLosses
    BY DropsAreGone DEF GoneInv, StraightInv, DropsBelowLosses, Straight, InOrder, Single
  <1> QED
    BY <1>1, CarriesInvariant, GoneInvariant, StraightInvariant, PTL

----------------------------------------------------------------------------
(* Swapped neighbours.  One stream of data whose network loses nothing and *)
(* lets a packet be overtaken once: after m arrivals the packets 1 .. m    *)
(* have arrived, or m + 1 in place of m.  The sorter holds m + 1 until m   *)
(* comes, on either side of the wrap.                                      *)

LEMMA WrapBetween ==
  ASSUME NEW w \in SeqNum, NEW d \in SeqNum
  PROVE  Wrap(Wrap(w + d) - w) = d
  BY SorterAssumption DEF Wrap, SeqNum

(* The next numbers of a counter compare as ahead by their distance, the   *)
(* number before as behind, across the wrap.                               *)
LEMMA WrapAhead ==
  ASSUME NEW x \in Int
  PROVE  /\ Wrap(Wrap(x + 1) - Wrap(x)) = 1
         /\ Wrap(Wrap(x + 2) - Wrap(x)) = 2
         /\ Wrap(Wrap(x + 3) - Wrap(x)) = 3
         /\ Wrap(Wrap(x) - Wrap(x + 1)) = -1
  <1> DEFINE w == Wrap(x)
  <1>1. w \in SeqNum /\ w \in Int
    BY WrapType, SorterAssumption DEF SeqNum
  <1>2. 1 \in SeqNum /\ 2 \in SeqNum /\ 3 \in SeqNum
    BY SorterAssumption DEF SeqNum
  <1>3. Wrap(w + 1) = Wrap(x + 1)
    BY WrapStep
  <1> HIDE DEF w
  <1>4. Wrap(w + 2) = Wrap(x + 2)
    <2>1. Wrap(w + 1 + 1) = Wrap(Wrap(w + 1) + 1) /\ Wrap(x + 1 + 1) = Wrap(Wrap(x + 1) + 1)
      BY <1>1, WrapStep
    <2>2. w + 1 + 1 = w + 2 /\ x + 1 + 1 = x + 2
      BY <1>1
    <2> QED
      BY <1>3, <2>1, <2>2
  <1>5. Wrap(w + 3) = Wrap(x + 3)
    <2>1. Wrap(w + 2 + 1) = Wrap(Wrap(w + 2) + 1) /\ Wrap(x + 2 + 1) = Wrap(Wrap(x + 2) + 1)
      BY <1>1, WrapStep
    <2>2. w + 2 + 1 = w + 3 /\ x + 2 + 1 = x + 3
      BY <1>1
    <2> QED
      BY <1>4, <2>1, <2>2
  <1>6. /\ Wrap(Wrap(w + 1) - w) = 1
        /\ Wrap(Wrap(w + 2) - w) = 2
        /\ Wrap(Wrap(w + 3) - w) = 3
    BY <1>1, <1>2, WrapBetween
  <1>7. Wrap(w - Wrap(w + 1)) = -1
    BY <1>1, SorterAssumption DEF Wrap, SeqNum
  <1> QED
    BY <1>3, <1>4, <1>5, <1>6, <1>7 DEF w

(* The streams that send: without strays nothing else is seen.             *)
FromSenders ==
  Single => /\ \A k \in inflight : StreamOf(k) \in net.sending
            /\ \A i \in 1 .. arrived : StreamOf(origin[i]) \in net.sending

LEMMA FromSendersInit == NetInit => FromSenders
  <1> SUFFICES ASSUME NetInit PROVE FromSenders
    OBVIOUS
  <1>1. inflight = {} /\ 1 .. arrived = {}
    BY DEF NetInit, Init
  <1> QED
    BY <1>1 DEF FromSenders

LEMMA FromSendersNext == NetInv /\ FromSenders /\ [NetNext]_allVars => FromSenders'
  <1> SUFFICES ASSUME NetInv, FromSenders, [NetNext]_allVars PROVE FromSenders'
    OBVIOUS
  <1>1. ASSUME NEW s \in net.sending, PackMsg(s[1], s[2]) PROVE FromSenders'
    <2>1. s[1] \in Cid /\ s[2] \in Port /\ s = <<s[1], s[2]>>
      BY SenderFacts DEF NetInv, NetTypeOK
    <2>2. /\ StreamOf(Packed(s[1], s[2])) = s
          /\ inflight' = inflight \cup {Packed(s[1], s[2])}
      BY <1>1, <2>1, PackFacts
    <2>3. net' = net /\ origin' = origin /\ arrived' = arrived
      BY <1>1 DEF PackMsg, vars
    <2> QED
      BY <2>2, <2>3 DEF FromSenders, Single
  <1>2. ASSUME NEW k \in net.stray, Stray(k) PROVE FromSenders'
    BY <1>2 DEF Stray, FromSenders, Single
  <1>3. ASSUME NEW k \in inflight, Arrive(k) PROVE FromSenders'
    <2>1. /\ arrived' = arrived + 1 /\ arrived \in Nat
          /\ \A i \in 1 .. arrived : origin'[i] = origin[i]
          /\ origin'[arrived + 1] = k
      BY <1>3, ArriveFacts, ArrivalFacts DEF Arrive
    <2>2. \A i \in 1 .. arrived' :
            \/ i \in 1 .. arrived /\ origin'[i] = origin[i]
            \/ origin'[i] = k
      BY <2>1
    <2>3. net' = net /\ inflight' \subseteq inflight
      BY <1>3 DEF Arrive
    <2> QED
      BY <2>2, <2>3 DEF FromSenders, Single
  <1>4. ASSUME NEW k \in inflight, Lose(k) PROVE FromSenders'
    BY <1>4 DEF Lose, vars, FromSenders, Single
  <1>5. CASE UNCHANGED <<arrived, netVars>>
    BY <1>5 DEF netVars, FromSenders, Single
  <1>6. CASE UNCHANGED allVars
    BY <1>5, <1>6 DEF allVars, vars
  <1> QED
    BY <1>1, <1>2, <1>3, <1>4, <1>5, <1>6, ProcessKeepsArrived DEF NetNext

(* Neighbours for the stream s. *)
Alone(s) ==
  /\ Single /\ net.overtake <= 1 /\ net.start = {0} /\ losses = 0
  /\ net.sending = {s} /\ s[2] > MAXSPECIALPORT

(* The packets 1 .. m have arrived.                                        *)
Gapless(s, m) ==
  /\ m <= sent[s]
  /\ \A k \in inflight : m < k.n
  /\ \A i \in 1 .. arrived : origin[i].n <= m

(* The packets 1 .. m - 1 and m + 1 have arrived.                          *)
Swapped(s, m) ==
  /\ m + 1 <= sent[s]
  /\ \E k \in inflight : k.n = m
  /\ \A k \in inflight : k.n = m \/ m + 1 < k.n
  /\ \A i \in 1 .. arrived : origin[i].n <= m + 1

HandedUpTo(m) == \A j \in delivered : origin[j].n <= m

NumberOf(b) == origin[b.id].n

(* Everything that arrived has been handed out.                            *)
Settled(s, m) ==
  /\ ~buf1.valid /\ ~Sorting /\ Gapless(s, m) /\ HandedUpTo(m)
  /\ seq_out[s] = Wrap(m) /\ seq_in[s] \in {Wrap(m), Wrap(m - 1)}

(* Message m + 1 waits in buf1 for m.                                      *)
Waiting(s, m) ==
  /\ pc = "recv" /\ buf1.valid /\ NumberOf(buf1) = m + 1
  /\ Swapped(s, m) /\ HandedUpTo(m - 1)
  /\ seq_out[s] = Wrap(m - 1) /\ seq_in[s] = Wrap(m + 1)

(* Message m, or m + 1 in its place, is being sorted.                      *)
Coming(s, m) ==
  /\ ~buf1.valid /\ Sorting /\ HandedUpTo(m - 1)
  /\ \/ NumberOf(msg) = m /\ Gapless(s, m)
     \/ NumberOf(msg) = m + 1 /\ Swapped(s, m)
  /\ seq_out[s] = Wrap(m - 1) /\ seq_in[s] \in {Wrap(m - 1), Wrap(m - 2)}

(* Message m - 1 is being sorted, m waits in buf1.                         *)
Filling(s, m) ==
  /\ Sorting /\ NumberOf(msg) = m - 1
  /\ buf1.valid /\ NumberOf(buf1) = m /\ Gapless(s, m) /\ HandedUpTo(m - 2)
  /\ seq_out[s] = Wrap(m - 2) /\ seq_in[s] = Wrap(m)

(* Message m - 1 has been handed out, m follows from buf1.                 *)
Releasing(s, m) ==
  /\ pc = "sort" /\ ~Sorting
  /\ buf1.valid /\ NumberOf(buf1) = m /\ Gapless(s, m) /\ HandedUpTo(m - 1)
  /\ seq_out[s] = Wrap(m - 1) /\ seq_in[s] = Wrap(m - 1)

Neat(s) ==
  /\ dropped = {} /\ ~buf2.valid
  /\ \/ Settled(s, arrived) \/ Waiting(s, arrived) \/ Coming(s, arrived)
     \/ Filling(s, arrived) \/ Releasing(s, arrived)

LEMMA NeatInit == ASSUME NetInit, NEW s \in Stream PROVE Neat(s)
  <1>1. /\ inflight = {} /\ 1 .. arrived = {} /\ delivered = {} /\ arrived = 0
        /\ pc = "recv" /\ ~buf1.valid /\ ~buf2.valid /\ dropped = {}
        /\ seq_in[s] = 0 /\ seq_out[s] = 0 /\ sent[s] = 0
    BY DEF NetInit, Init, NoMsg
  <1>2. Wrap(0) = 0
    BY WrapSmall, SorterAssumption DEF SeqNum
  <1> QED
    BY <1>1, <1>2 DEF Neat, Settled, Gapless, HandedUpTo, Sorting

(* A network that lets a packet be overtaken once leaves at most one older *)
(* packet behind, and only one that was not overtaken before.              *)
LEMMA OvertakenOnce ==
  ASSUME NetInv, net.overtake <= 1, NEW k \in inflight, InOrderEnough(k)
  PROVE  /\ \A a, b \in Older(k) : a = b
         /\ \A j \in Older(k) : Overtakers(j) = {}
  <1>1. net.overtake \in Nat /\ arrived \in Nat /\ DOMAIN origin = 1 .. arrived
    BY NetFacts DEF NetInv, NetTypeOK, TypeOK
  <1>2. IsFiniteSet(Older(k)) /\ Cardinality(Older(k)) \in Nat
    BY FS_Subset, FS_CardinalityType DEF NetInv, Older
  <1>3. Cardinality(Older(k)) <= 1
    BY <1>1, <1>2 DEF InOrderEnough
  <1>4. ASSUME NEW a \in Older(k), NEW b \in Older(k), a # b PROVE FALSE
    <2>1. IsFiniteSet({a}) /\ Cardinality({a}) = 1
      BY FS_Singleton
    <2>2. Cardinality({a} \cup {b}) = 2
      BY <1>4, <2>1, FS_AddElement
    <2>3. Cardinality({a} \cup {b}) <= Cardinality(Older(k))
      BY <1>2, FS_Subset
    <2> QED
      BY <1>2, <1>3, <2>2, <2>3
  <1>5. ASSUME NEW j \in Older(k) PROVE Overtakers(j) = {}
    <2>1. IsFiniteSet(1 .. arrived)
      BY <1>1, FS_Interval
    <2>2. IsFiniteSet(Overtakers(j)) /\ Cardinality(Overtakers(j)) \in Nat
      BY <1>1, <2>1, FS_Subset, FS_CardinalityType DEF Overtakers
    <2>3. Cardinality(Overtakers(j)) < net.overtake
      BY DEF InOrderEnough
    <2>4. Cardinality(Overtakers(j)) = 0
      BY <1>1, <2>2, <2>3
    <2> QED
      BY <2>2, <2>4, FS_EmptySet
  <1> QED
    BY <1>4, <1>5

(* With nothing lost every packet sent is on its way or has arrived.       *)
LEMMA AloneFacts ==
  ASSUME Carries, FromSenders, GoneByLoss, NEW s \in Stream, Alone(s)
  PROVE  /\ NetInv /\ Numbered /\ Linked /\ arrived \in Nat /\ sent[s] \in Nat
         /\ \A k \in inflight : /\ k \in Packet /\ StreamOf(k) = s
                               /\ k.n \in Nat /\ k.n \in 1 .. sent[s]
         /\ \A i \in 1 .. arrived : /\ origin[i] \in Packet /\ StreamOf(origin[i]) = s
                                  /\ origin[i].n \in Nat /\ Data(origin[i])
                                  /\ origin[i].seq = Wrap(origin[i].n)
         /\ \A n \in 1 .. sent[s] : \/ \E k \in inflight : k.n = n
                                 \/ \E i \in 1 .. arrived : origin[i].n = n
  <1>1. /\ NetInv /\ Numbered /\ Counted /\ Linked /\ arrived \in Nat
        /\ sent[s] \in 0 .. MaxSent /\ MaxSent \in Nat
    BY NetworkAssumption DEF Carries, Numbers, Alone, NetInv, NetTypeOK, TypeOK
  <1>2. /\ \A k \in inflight : /\ k \in Packet /\ StreamOf(k) = s /\ k.n \in Nat
        /\ \A i \in 1 .. arrived : /\ origin[i] \in Packet /\ StreamOf(origin[i]) = s
                                 /\ origin[i].n \in Nat
    BY <1>1, PacketFacts DEF FromSenders, Alone, NetInv, NetTypeOK
  <1>3. \A i \in 1 .. arrived : Data(origin[i])
    BY <1>2 DEF Alone, Data, StreamOf
  <1>4. Gone = {}
    <2>1. Cardinality(Gone) \in Nat /\ Cardinality(Gone) <= 0
      BY FS_CardinalityType DEF GoneByLoss, Alone
    <2>2. Cardinality(Gone) = 0
      BY <2>1
    <2> QED
      BY <2>2, FS_EmptySet DEF GoneByLoss
  <1>5. \A n \in 1 .. sent[s] : \/ \E k \in inflight : k.n = n
                             \/ \E i \in 1 .. arrived : origin[i].n = n
    <2> SUFFICES ASSUME NEW n \in 1 .. sent[s],
                        \A k \in inflight : k.n # n,
                        \A i \in 1 .. arrived : origin[i].n # n
                 PROVE  <<s, n>> \in Gone
      BY <1>4
    <2>1. n \in 1 .. MaxSent /\ n <= sent[s]
      BY <1>1
    <2> QED
      BY <2>1 DEF Gone
  <1> QED
    BY <1>1, <1>2, <1>3, <1>5 DEF Numbered, Counted

LEMMA NeatArrive ==
  ASSUME Carries, FromSenders, GoneByLoss, NEW s \in Stream, Alone(s), Neat(s),
         NEW k \in inflight, Arrive(k)
  PROVE  Neat(s)'
  <1> SUFFICES ASSUME NEW m \in Nat, m = arrived PROVE Neat(s)'
    BY DEF Carries, NetInv, NetTypeOK, TypeOK
  <1>1. /\ NetInv /\ Numbered /\ arrived \in Nat /\ sent[s] \in Nat
        /\ \A j \in inflight : StreamOf(j) = s /\ j.n \in Nat /\ j.n \in 1 .. sent[s]
        /\ \A i \in 1 .. arrived : StreamOf(origin[i]) = s /\ origin[i].n \in Nat
        /\ \A n \in 1 .. sent[s] : \/ \E j \in inflight : j.n = n
                                \/ \E i \in 1 .. arrived : origin[i].n = n
    BY AloneFacts
  <1>2. /\ inflight' = inflight \ {k} /\ sent' = sent
        /\ Recv(k.cid, k.destport, k.seq) /\ InOrderEnough(k) /\ k \in Packet
        /\ origin' = Append(origin, k)
    BY ArriveFacts, <1>1 DEF Arrive, Alone, Single
  <1>3. /\ arrived' = m + 1
        /\ \A i \in 1 .. m : origin'[i] = origin[i]
        /\ origin'[m + 1] = k /\ DOMAIN origin = 1 .. m
    BY <1>1, <1>2, ArrivalFacts
  <1>4. /\ msg' = Unpacked(k.cid, k.destport, k.seq, m + 1)
        /\ pc = "recv" /\ pc' = "sort" /\ pmsg' = "msg"
        /\ UNCHANGED <<buf1, buf2, seq_in, seq_out, delivered, dropped>>
    BY <1>2 DEF Recv
  <1>5. msg'.valid /\ msg'.id = m + 1 /\ NumberOf(msg)' = k.n /\ Sorting'
    BY <1>3, <1>4 DEF Unpacked, NumberOf, Sorting, Pointee
  <1>6. \A i \in 1 .. arrived' : \/ i \in 1 .. m /\ origin'[i] = origin[i]
                                \/ origin'[i] = k
    BY <1>1, <1>3
  <1>7. /\ \A a, b \in Older(k) : a = b
        /\ \A j \in Older(k) : Overtakers(j) = {}
    BY <1>1, <1>2, OvertakenOnce DEF Alone
  <1>8. \A j \in inflight : j.n = k.n => j = k
    BY <1>1 DEF Numbered
  <1>9. \A j \in inflight : j.n < k.n => j \in Older(k)
    BY <1>1 DEF Older
  <1>10. delivered \subseteq 1 .. m /\ \A j \in delivered : origin'[j] = origin[j]
    BY <1>1, <1>3 DEF NetInv, NetTypeOK, TypeOK
  <1>11. \A n : HandedUpTo(n) => HandedUpTo(n)'
    BY <1>4, <1>10 DEF HandedUpTo
  <1>12. m + 1 - 1 = m /\ m + 1 - 2 = m - 1 /\ m + 1 + 1 = m + 2
    OBVIOUS
  <1>13. dropped' = {} /\ ~buf2'.valid
    BY <1>4 DEF Neat
  <1>14. CASE Settled(s, m)
    <2>1. /\ ~buf1'.valid /\ HandedUpTo(m)'
          /\ seq_out'[s] = Wrap(m) /\ seq_in'[s] \in {Wrap(m), Wrap(m - 1)}
      BY <1>4, <1>11, <1>14 DEF Settled
    <2>2. /\ m < k.n /\ \A j \in inflight : m < j.n
          /\ \A i \in 1 .. m : origin[i].n <= m
      BY <1>14 DEF Settled, Gapless
    <2>3. \A n \in m + 1 .. sent[s] : \E j \in inflight : j.n = n
      BY <1>1, <2>2
    <2>4. k.n <= m + 2
      <3> SUFFICES ASSUME m + 2 < k.n PROVE FALSE
        BY <1>1
      <3>1. PICK a \in inflight : a.n = m + 1
        BY <1>1, <2>3
      <3>2. PICK b \in inflight : b.n = m + 2
        BY <1>1, <2>3
      <3>3. a \in Older(k) /\ b \in Older(k) /\ a # b
        BY <1>1, <1>9, <3>1, <3>2
      <3> QED
        BY <1>7, <3>3
    <2>5. CASE k.n = m + 1
      <3>1. Gapless(s, m + 1)'
        <4>1. \A j \in inflight' : m + 1 < j.n
          BY <1>1, <1>2, <1>8, <2>2, <2>5
        <4>2. \A i \in 1 .. arrived' : origin'[i].n <= m + 1
          BY <1>1, <1>6, <2>2, <2>5
        <4>3. m + 1 <= sent'[s]
          BY <1>1, <1>2, <2>5
        <4> QED
          BY <4>1, <4>2, <4>3 DEF Gapless
      <3>2. Coming(s, m + 1)'
        BY <1>4, <1>5, <1>12, <2>1, <2>5, <3>1 DEF Coming
      <3> QED
        BY <1>3, <1>4, <1>13, <3>2 DEF Neat
    <2>6. CASE k.n = m + 2
      <3>1. Swapped(s, m + 1)'
        <4>1. PICK a \in inflight : a.n = m + 1
          BY <1>1, <2>3, <2>6
        <4>2. a \in inflight'
          BY <1>2, <2>6, <4>1, <1>1
        <4>3. \A j \in inflight' : j.n = m + 1 \/ m + 1 + 1 < j.n
          BY <1>1, <1>2, <1>8, <2>2, <2>6
        <4>4. \A i \in 1 .. arrived' : origin'[i].n <= m + 1 + 1
          BY <1>1, <1>6, <2>2, <2>6
        <4>5. m + 1 + 1 <= sent'[s]
          BY <1>1, <1>2, <2>6
        <4> QED
          BY <4>1, <4>2, <4>3, <4>4, <4>5 DEF Swapped
      <3>2. Coming(s, m + 1)'
        BY <1>4, <1>5, <1>12, <2>1, <2>6, <3>1 DEF Coming
      <3> QED
        BY <1>3, <1>4, <1>13, <3>2 DEF Neat
    <2> QED
      BY <1>1, <2>2, <2>4, <2>5, <2>6
  <1>15. CASE Waiting(s, m)
    <2>1. /\ buf1.valid /\ NumberOf(buf1) = m + 1 /\ HandedUpTo(m - 1)'
          /\ seq_out'[s] = Wrap(m - 1) /\ seq_in'[s] = Wrap(m + 1)
          /\ \A j \in inflight : j.n = m \/ m + 1 < j.n
          /\ \A i \in 1 .. m : origin[i].n <= m + 1
          /\ m + 1 <= sent[s]
      BY <1>4, <1>11, <1>15 DEF Waiting, Swapped
    <2>2. buf1.id \in 1 .. m
      BY <2>1 DEF Carries, Linked, Carried
    <2>3. PICK j \in inflight : j.n = m
      BY <1>15 DEF Waiting, Swapped
    <2>4. k.n = m
      <3> SUFFICES ASSUME m + 1 < k.n PROVE FALSE
        BY <2>1
      <3>1. j \in Older(k)
        BY <1>1, <1>9, <2>3
      <3>2. buf1.id \in Overtakers(j)
        BY <1>1, <1>3, <2>1, <2>2, <2>3 DEF Overtakers, NumberOf
      <3> QED
        BY <1>7, <3>1, <3>2
    <2>5. Gapless(s, m + 1)'
      <3>1. \A i \in inflight' : m + 1 < i.n
        BY <1>2, <1>8, <2>1, <2>4
      <3>2. \A i \in 1 .. arrived' : origin'[i].n <= m + 1
        BY <1>1, <1>6, <2>1, <2>4
      <3> QED
        BY <1>2, <2>1, <3>1, <3>2 DEF Gapless
    <2>6. NumberOf(buf1)' = m + 1
      BY <1>3, <1>4, <2>1, <2>2 DEF NumberOf
    <2>7. Filling(s, m + 1)'
      BY <1>4, <1>5, <1>12, <2>1, <2>4, <2>5, <2>6 DEF Filling
    <2> QED
      BY <1>3, <1>4, <1>13, <2>7 DEF Neat
  <1> QED
    BY <1>4, <1>14, <1>15 DEF Neat, Coming, Filling, Releasing, Sorting

LEMMA NeatPack ==
  ASSUME Carries, FromSenders, GoneByLoss, NEW s \in Stream, Alone(s), Neat(s),
         NEW c \in Cid, NEW p \in Port, <<c, p>> = s, PackMsg(c, p)
  PROVE  Neat(s)'
  <1> SUFFICES ASSUME NEW m \in Nat, m = arrived PROVE Neat(s)'
    BY DEF Carries, NetInv, NetTypeOK, TypeOK
  <1> DEFINE new == Packed(c, p)
  <1>1. /\ sent[s] \in Nat /\ sent' = [sent EXCEPT ![s] = @ + 1]
        /\ inflight' = inflight \cup {new} /\ new.n = sent[s] + 1
    BY PackFacts DEF Carries, Packed
  <1>2. sent'[s] = sent[s] + 1
    BY <1>1 DEF Carries, NetInv, NetTypeOK
  <1>3. UNCHANGED <<vars, origin>>
    BY DEF PackMsg
  <1>4. Gapless(s, m) => Gapless(s, m)'
    BY <1>1, <1>2, <1>3 DEF Gapless, vars
  <1>5. Swapped(s, m) => Swapped(s, m)'
    <2> SUFFICES ASSUME Swapped(s, m) PROVE Swapped(s, m)'
      OBVIOUS
    <2>1. m + 1 <= sent[s] /\ m + 1 <= sent'[s] /\ m + 1 < new.n
      BY <1>1, <1>2 DEF Swapped
    <2>2. \A k \in inflight' : k.n = m \/ m + 1 < k.n
      BY <1>1, <2>1 DEF Swapped
    <2>3. \E k \in inflight' : k.n = m
      BY <1>1 DEF Swapped
    <2> QED
      BY <1>3, <2>1, <2>2, <2>3 DEF Swapped, vars
  <1>6. (Sorting' <=> Sorting) /\ (HandedUpTo(m) <=> HandedUpTo(m)')
        /\ (HandedUpTo(m - 1) <=> HandedUpTo(m - 1)')
        /\ (HandedUpTo(m - 2) <=> HandedUpTo(m - 2)')
    BY <1>3 DEF vars, Sorting, Pointee, HandedUpTo
  <1>7. arrived' = m /\ NumberOf(msg)' = NumberOf(msg) /\ NumberOf(buf1)' = NumberOf(buf1)
        /\ UNCHANGED <<pc, buf1, buf2, seq_in, seq_out, dropped>>
    BY <1>3 DEF vars, NumberOf
  <1>8. /\ Settled(s, m) => Settled(s, m)'
        /\ Waiting(s, m) => Waiting(s, m)'
        /\ Coming(s, m) => Coming(s, m)'
        /\ Filling(s, m) => Filling(s, m)'
        /\ Releasing(s, m) => Releasing(s, m)'
    BY <1>4, <1>5, <1>6, <1>7 DEF Settled, Waiting, Coming, Filling, Releasing
  <1> QED
    BY <1>7, <1>8 DEF Neat

(* A message being sorted compares by its number.                          *)
LEMMA AloneSorting ==
  ASSUME Carries, FromSenders, GoneByLoss, NEW s \in Stream, Alone(s), Sorting
  PROVE  /\ msg.valid /\ msg.id \in 1 .. arrived /\ StreamOf(msg) = s /\ ~IsSpecial
         /\ msg.seq = Wrap(NumberOf(msg)) /\ NumberOf(msg) \in Nat
         /\ DSeqIn = Wrap(msg.seq - seq_in[s])
         /\ DSeqIo = Wrap(msg.seq - seq_out[s])
  <1>1. msg.valid /\ NetInv /\ Linked
    BY DEF Sorting, Pointee, Carries
  <1>2. /\ msg.id \in 1 .. arrived /\ StreamOf(origin[msg.id]) = StreamOf(msg)
        /\ origin[msg.id].seq = msg.seq
    BY <1>1 DEF Linked, Carried
  <1>3. /\ StreamOf(origin[msg.id]) = s /\ Data(origin[msg.id])
        /\ origin[msg.id].seq = Wrap(origin[msg.id].n)
        /\ origin[msg.id].n \in Nat
    BY <1>2, AloneFacts
  <1>4. ~IsSpecial
    <2>1. msg.destport = s[2] /\ msg.destport \in Nat /\ s[2] > MAXSPECIALPORT
      BY <1>1, <1>2, <1>3, BufferFacts DEF StreamOf, Alone
    <2> QED
      BY <2>1, SorterAssumption DEF IsSpecial
  <1> QED
    BY <1>1, <1>2, <1>3, <1>4 DEF NumberOf, DSeqIn, DSeqIo, Delta

(* Handing out the next message.                                           *)
LEMMA AloneHandOut ==
  ASSUME Carries, FromSenders, GoneByLoss, NEW s \in Stream, Alone(s),
         NEW b \in {msg, buf1}, b.valid, NEW st, HandOut(b, st),
         NEW n \in Int, NumberOf(b) = n, HandedUpTo(n - 1), UNCHANGED netVars
  PROVE  seq_out'[s] = Wrap(n) /\ HandedUpTo(n)' /\ Follows
  <1>1. NetInv /\ seq_out \in [Stream -> SeqNum] /\ Carried(b) /\ delivered \subseteq 1 .. arrived
    BY SequenceFacts DEF Carries, Linked, NetInv, NetTypeOK, TypeOK
  <1>2. /\ b.id \in 1 .. arrived /\ StreamOf(b) = s /\ b.seq = Wrap(n)
    BY <1>1, AloneFacts DEF Carried, NumberOf
  <1>3. seq_out' = [seq_out EXCEPT ![StreamOf(b)] = b.seq] /\ delivered' = delivered \cup {b.id}
    BY DEF HandOut
  <1>4. seq_out'[s] = Wrap(n)
    BY <1>1, <1>2, <1>3
  <1>5. \A j \in delivered : origin[j].n \in Nat /\ origin[j].n < n
    BY <1>1, AloneFacts DEF HandedUpTo
  <1>6. HandedUpTo(n)'
    BY <1>3, <1>5 DEF HandedUpTo, NumberOf, netVars
  <1>7. Follows
    BY <1>3, <1>5 DEF Follows, NumberOf
  <1> QED
    BY <1>4, <1>6, <1>7

(* Message m goes straight through, also when it fills the gap of m + 1.   *)
LEMMA AlonePass ==
  ASSUME Carries, FromSenders, GoneByLoss, NEW s \in Stream, Alone(s),
         Sorting, RecvNothing \/ process, UNCHANGED netVars,
         NEW n \in Int, NumberOf(msg) = n, HandedUpTo(n - 1),
         seq_out[s] = Wrap(n - 1),
         \/ ~buf1.valid
         \/ seq_in[s] = Wrap(n + 1)
  PROVE  /\ SortPass /\ ~Sorting' /\ pc' = "sort"
         /\ UNCHANGED <<buf1, buf2, dropped, arrived>>
         /\ seq_out'[s] = Wrap(n) /\ seq_in'[s] = Wrap(n)
         /\ HandedUpTo(n)' /\ Follows
  <1>1. /\ msg.valid /\ StreamOf(msg) = s /\ ~IsSpecial /\ msg.seq = Wrap(n)
        /\ DSeqIn = Wrap(Wrap(n) - seq_in[s]) /\ DSeqIo = Wrap(Wrap(n) - seq_out[s])
        /\ pc = "sort" /\ pmsg = "msg" /\ ~Draining
    BY AloneSorting DEF Sorting, Draining
  <1>2. DSeqIo = 1
    <2>1. Wrap(Wrap(n - 1 + 1) - Wrap(n - 1)) = 1
      BY WrapAhead
    <2>2. n - 1 + 1 = n
      OBVIOUS
    <2> QED
      BY <1>1, <2>1, <2>2
  <1>3. ~OpensGap
    BY <1>2 DEF OpensGap
  <1>4. ~ReleaseFirst
    <2>1. CASE ~buf1.valid
      BY <2>1 DEF ReleaseFirst
    <2>2. CASE seq_in[s] = Wrap(n + 1)
      <3>1. DSeqIn = -1
        BY <1>1, <2>2, WrapAhead
      <3> QED
        BY <1>2, <3>1 DEF ReleaseFirst
    <2> QED
      BY <2>1, <2>2
  <1>5. SortPass
    BY <1>1, <1>3, <1>4 DEF RecvNothing, process, SortSpecial, SortHold, SortRelease,
                            DrainBuf1, DrainBuf2, SortDone
  <1>6. ~msg'.valid /\ pmsg' = "msg" /\ pc' = "sort"
        /\ UNCHANGED <<buf1, buf2, dropped, arrived>>
    BY <1>1, <1>5, ConsumedFacts, BufferFacts DEF SortPass, Carries
  <1>7. seq_in'[s] = Wrap(n)
    BY <1>1, <1>5, SequenceFacts DEF SortPass, TakeIn, Carries
  <1>8. HandOut(msg, [stat EXCEPT ![msg.cid] = CountIn(@)])
    BY <1>5 DEF SortPass
  <1>9. seq_out'[s] = Wrap(n) /\ HandedUpTo(n)' /\ Follows
    BY <1>1, <1>8, AloneHandOut
  <1> QED
    BY <1>5, <1>6, <1>7, <1>9 DEF Sorting, Pointee

LEMMA NeatProcess ==
  ASSUME Carries, FromSenders, GoneByLoss, NEW s \in Stream, Alone(s), Neat(s),
         RecvNothing \/ process, UNCHANGED netVars
  PROVE  Neat(s)' /\ Follows
  <1> SUFFICES ASSUME NEW m \in Nat, m = arrived PROVE Neat(s)' /\ Follows
    BY DEF Carries, NetInv, NetTypeOK, TypeOK
  <1>1. /\ arrived' = m /\ UNCHANGED <<sent, inflight, origin>>
        /\ NetInv /\ IInv /\ dropped = {} /\ ~buf2.valid
    BY ProcessKeepsArrived DEF netVars, Carries, NetInv, Neat
  <1>2. /\ Gapless(s, m) => Gapless(s, m)'
        /\ Swapped(s, m) => Swapped(s, m)'
    BY <1>1 DEF Gapless, Swapped
  <1>3. /\ \A n : NumberOf(msg) = n => origin[msg.id].n = n
        /\ \A n : NumberOf(buf1) = n => origin[buf1.id].n = n
    BY DEF NumberOf
  <1>4. m - 1 - 1 = m - 2 /\ m - 1 + 1 = m /\ m - 2 + 1 = m - 1 /\ m + 1 - 1 = m
        /\ m - 2 + 2 = m /\ m - 2 + 3 = m + 1 /\ m - 1 + 2 = m + 1
    OBVIOUS
  <1>5. delivered' = delivered => Follows
    BY QuietFollows
  <1>6. CASE Settled(s, m)
    <2>1. RecvNothing \/ SortDone
      BY <1>1, <1>6 DEF Settled, process, SortSpecial, SortHold, SortRelease, SortPass,
                        DrainBuf1, DrainBuf2
    <2>2. ~Sorting' /\ UNCHANGED <<buf1, buf2, seq_in, seq_out, delivered, dropped>>
      BY <2>1 DEF RecvNothing, SortDone, Sorting
    <2>3. Settled(s, m)'
      BY <1>1, <1>2, <1>6, <2>2 DEF Settled, HandedUpTo
    <2> QED
      BY <1>1, <1>5, <2>2, <2>3 DEF Neat
  <1>7. CASE Waiting(s, m)
    <2>1. RecvNothing
      BY <1>7 DEF Waiting, process, SortSpecial, SortHold, SortRelease, SortPass,
                  DrainBuf1, DrainBuf2, SortDone, Sorting, Draining
    <2>2. UNCHANGED <<pc, buf1, buf2, seq_in, seq_out, delivered, dropped>>
      BY <2>1 DEF RecvNothing
    <2>3. Waiting(s, m)'
      BY <1>1, <1>2, <1>7, <2>2 DEF Waiting, HandedUpTo, NumberOf
    <2> QED
      BY <1>1, <1>5, <2>2, <2>3 DEF Neat
  <1>8. CASE Coming(s, m) /\ NumberOf(msg) = m
    <2>1. /\ Sorting /\ ~buf1.valid /\ HandedUpTo(m - 1) /\ seq_out[s] = Wrap(m - 1)
      BY <1>8 DEF Coming
    <2>2. Gapless(s, m)
      BY <1>8 DEF Coming
    <2>3. /\ ~Sorting' /\ UNCHANGED <<buf1, buf2, dropped>>
          /\ seq_out'[s] = Wrap(m) /\ seq_in'[s] = Wrap(m)
          /\ HandedUpTo(m)' /\ Follows
      BY <1>8, <2>1, AlonePass
    <2>4. Settled(s, m)'
      BY <1>2, <2>1, <2>2, <2>3 DEF Settled
    <2> QED
      BY <1>1, <2>3, <2>4 DEF Neat
  <1>9. CASE Coming(s, m) /\ NumberOf(msg) = m + 1
    <2>1. /\ Sorting /\ ~buf1.valid /\ HandedUpTo(m - 1) /\ seq_out[s] = Wrap(m - 1)
          /\ seq_in[s] \in {Wrap(m - 1), Wrap(m - 2)} /\ Swapped(s, m)
      BY <1>9 DEF Coming
    <2>2. /\ msg.valid /\ StreamOf(msg) = s /\ ~IsSpecial /\ msg.seq = Wrap(m + 1)
          /\ DSeqIn = Wrap(Wrap(m + 1) - seq_in[s])
          /\ DSeqIo = Wrap(Wrap(m + 1) - seq_out[s])
          /\ pc = "sort" /\ ~Draining
      BY <1>9, <2>1, AloneSorting DEF Sorting, Draining
    <2>3. Wrap(Wrap(m + 1) - Wrap(m - 1)) = 2 /\ Wrap(Wrap(m + 1) - Wrap(m - 2)) = 3
      <3>1. Wrap(Wrap(m - 1 + 2) - Wrap(m - 1)) = 2
        BY WrapAhead
      <3>2. Wrap(Wrap(m - 2 + 3) - Wrap(m - 2)) = 3
        BY WrapAhead
      <3> QED
        BY <1>4, <3>1, <3>2
    <2>4. DSeqIo = 2 /\ DSeqIn \in {2, 3}
      BY <2>1, <2>2, <2>3
    <2>5. OpensGap
      BY <2>4 DEF OpensGap
    <2>6. SortHold
      BY <2>2, <2>5 DEF RecvNothing, process, SortSpecial, SortRelease, SortPass,
                        DrainBuf1, DrainBuf2, SortDone
    <2>7. /\ pc' = "recv" /\ buf1' = msg
          /\ UNCHANGED <<buf2, seq_out, delivered, dropped>>
      BY <2>1, <2>6 DEF SortHold
    <2>8. seq_in'[s] = Wrap(m + 1)
      BY <1>1, <2>2, <2>6, SequenceFacts DEF SortHold, TakeIn
    <2>9. Waiting(s, m)'
      BY <1>1, <1>2, <1>9, <2>1, <2>2, <2>7, <2>8 DEF Waiting, HandedUpTo, NumberOf
    <2> QED
      BY <1>1, <1>5, <2>7, <2>9 DEF Neat
  <1>10. CASE Filling(s, m)
    <2>1. /\ Sorting /\ NumberOf(msg) = m - 1 /\ buf1.valid /\ NumberOf(buf1) = m
          /\ Gapless(s, m) /\ HandedUpTo(m - 1 - 1)
          /\ seq_out[s] = Wrap(m - 1 - 1) /\ seq_in[s] = Wrap(m - 1 + 1)
      BY <1>4, <1>10 DEF Filling
    <2>2. /\ ~Sorting' /\ pc' = "sort" /\ UNCHANGED <<buf1, buf2, dropped>>
          /\ seq_out'[s] = Wrap(m - 1) /\ seq_in'[s] = Wrap(m - 1)
          /\ HandedUpTo(m - 1)' /\ Follows
      BY <2>1, AlonePass
    <2>3. Releasing(s, m)'
      BY <1>1, <1>2, <2>1, <2>2 DEF Releasing, NumberOf
    <2> QED
      BY <1>1, <2>2, <2>3 DEF Neat
  <1>11. CASE Releasing(s, m)
    <2>1. /\ pc = "sort" /\ ~Sorting /\ buf1.valid /\ NumberOf(buf1) = m
          /\ Gapless(s, m) /\ HandedUpTo(m - 1) /\ seq_in[s] = Wrap(m - 1)
      BY <1>11 DEF Releasing
    <2>2. DrainBuf1
      BY <2>1 DEF RecvNothing, process, SortSpecial, SortHold, SortRelease, SortPass,
                  DrainBuf2, SortDone
    <2>3. HandOut(buf1, stat) /\ pmsg' = "buf1" /\ ~buf1'.valid
          /\ UNCHANGED <<buf2, seq_in, dropped>>
      BY <1>1, <2>2, ConsumedFacts, BufferFacts DEF DrainBuf1
    <2>4. seq_out'[s] = Wrap(m) /\ HandedUpTo(m)' /\ Follows
      BY <2>1, <2>3, AloneHandOut
    <2>5. Settled(s, m)'
      BY <1>2, <2>1, <2>3, <2>4 DEF Settled, Sorting
    <2> QED
      BY <1>1, <2>3, <2>4, <2>5 DEF Neat
  <1> QED
    BY <1>6, <1>7, <1>8, <1>9, <1>10, <1>11 DEF Neat, Coming

NeighbourInv == FromSenders /\ \A s \in Stream : Alone(s) => Neat(s)

LEMMA NeighbourNext ==
  ASSUME Carries, GoneInv, NeighbourInv, [NetNext]_allVars
  PROVE  NeighbourInv' /\ (Neighbours => Follows)
  <1>1. FromSenders'
    BY FromSendersNext DEF Carries, NeighbourInv
  <1>2. losses \in Nat /\ losses <= losses'
    <2>1. losses \in Nat
      BY NetFacts DEF Carries, NetInv, NetTypeOK
    <2>2. losses' = losses \/ losses' = losses + 1
      BY DEF NetNext, PackMsg, Stray, Arrive, Lose, allVars, netVars
    <2> QED
      BY <2>1, <2>2
  <1>3. ASSUME NEW s \in Stream, Alone(s)
        PROVE  (losses' = losses => Neat(s)') /\ Follows
    <2>1. FromSenders /\ GoneByLoss /\ Neat(s)
      BY <1>3 DEF NeighbourInv, GoneInv, Alone, Single
    <2>2. ASSUME NEW x \in net.sending, PackMsg(x[1], x[2])
          PROVE  Neat(s)' /\ Follows
      <3>1. x[1] \in Cid /\ x[2] \in Port /\ <<x[1], x[2]>> = s
        BY <1>3, SenderFacts DEF Carries, NetInv, NetTypeOK, Alone
      <3>2. Neat(s)'
        BY <1>3, <2>1, <2>2, <3>1, NeatPack
      <3> QED
        BY <2>2, <3>2, QuietFollows DEF PackMsg, vars
    <2>3. ASSUME NEW k \in net.stray, Stray(k) PROVE FALSE
      BY <1>3, <2>3 DEF Alone, Single
    <2>4. ASSUME NEW k \in inflight, Arrive(k) PROVE Neat(s)' /\ Follows
      BY <1>3, <2>1, <2>4, NeatArrive, QuietFollows DEF Arrive, Recv
    <2>5. ASSUME NEW k \in inflight, Lose(k) PROVE losses' # losses /\ Follows
      BY <1>2, <2>5, QuietFollows DEF Lose, vars
    <2>6. CASE (RecvNothing \/ process) /\ UNCHANGED netVars
      BY <1>3, <2>1, <2>6, NeatProcess
    <2>7. CASE UNCHANGED allVars
      BY <2>1, <2>7, QuietFollows
         DEF allVars, vars, netVars, Neat, Settled, Waiting, Coming, Filling, Releasing,
             Gapless, Swapped, HandedUpTo, NumberOf, Sorting, Pointee
    <2> QED
      BY <2>2, <2>3, <2>4, <2>5, <2>6, <2>7 DEF NetNext
  <1>4. Neighbours => \E s \in Stream : Alone(s)
    BY DEF Neighbours, Alone
  <1>5. \A s \in Stream : Alone(s)' => Alone(s) /\ losses' = losses
    BY <1>2, NetStays DEF Alone, Single
  <1> QED
    BY <1>1, <1>3, <1>4, <1>5 DEF NeighbourInv

LEMMA NeighbourInvariant == NetSpec => []NeighbourInv
  <1>1. NetInit => NeighbourInv
    BY NeatInit, FromSendersInit DEF NeighbourInv
  <1>2. Carries /\ GoneInv /\ NeighbourInv /\ [NetNext]_allVars => NeighbourInv'
    BY NeighbourNext
  <1> QED
    BY <1>1, <1>2, CarriesInvariant, GoneInvariant, PTL DEF NetSpec

(* On a network that loses nothing and swaps neighbours of one stream no   *)
(* message is ever overwritten in buf1: the one that opened the gap waits  *)
(* there until the one it overtook arrives, across the wrap of the         *)
(* sequence numbers (ovboxclient.cc:690-696).                              *)
THEOREM NothingDroppedHolds == NetSpec => []NothingDropped
  <1>1. NeighbourInv => NothingDropped
    BY DEF NeighbourInv, NothingDropped, Neighbours, Alone, Neat
  <1> QED
    BY <1>1, NeighbourInvariant, PTL

(* The messages of a stream are handed out in the order they were sent:    *)
(* before the wrap on every network that keeps the order, whatever it      *)
(* loses and however many streams and control messages there are; and also *)
(* across the wrap for one stream whose neighbours are swapped             *)
(* (ovboxclient.h:47-53).                                                  *)
THEOREM OrderKeptUnwrappedHolds == NetSpec => OrderKeptUnwrapped
  <1>1. Carries /\ GoneInv /\ StraightInv /\ NeighbourInv /\ [NetNext]_allVars
          => [Straight \/ Neighbours => Follows]_allVars
    BY StraightFollows, NeighbourNext DEF StraightInv
  <1> QED
    BY <1>1, CarriesInvariant, GoneInvariant, StraightInvariant, NeighbourInvariant, PTL
       DEF NetSpec, OrderKeptUnwrapped


----------------------------------------------------------------------------
(* The lost counter.  Without strays every number comes from a counter     *)
(* (Traced); a network with bounds keeps packets that come one after the   *)
(* other close together (Close, Near), so that their difference survives   *)
(* the wrap; and what the sorter adds up is then the difference of packet  *)
(* numbers (Followed, Balanced).                                           *)

(* Remainders of numbers a multiple of the divisor apart are the same.     *)
LEMMA SmallMultiple ==
  ASSUME NEW m \in Nat \ {0}, NEW k \in Int, -m < m * k, m * k < m
  PROVE  k = 0
  <1>1. CASE k >= 1
    <2>1. m * k >= m * 1
      BY <1>1
    <2> QED
      BY <2>1
  <1>2. CASE k <= -1
    <2>1. m * k <= m * (-1)
      BY <1>2
    <2> QED
      BY <2>1
  <1> QED
    BY <1>1, <1>2

LEMMA Division ==
  ASSUME NEW m \in Nat \ {0}, NEW a \in Int
  PROVE  a % m \in 0 .. m - 1 /\ \E q \in Int : a = m * q + (a % m)
  <1>1. a % m \in 0 .. m - 1
    OBVIOUS
  <1>2. a \div m \in Int /\ a = m * (a \div m) + (a % m)
    OBVIOUS
  <1> QED
    BY <1>1, <1>2

LEMMA SameRemainder ==
  ASSUME NEW m \in Nat \ {0}, NEW a \in Int, NEW b \in Int, NEW q \in Int,
         a = b + m * q
  PROVE  a % m = b % m
  <1>1. PICK x \in Int : a = m * x + (a % m)
    BY Division
  <1>2. PICK y \in Int : b = m * y + (b % m)
    BY Division
  <1> DEFINE r == a % m
             t == b % m
  <1>3. r \in 0 .. m - 1 /\ t \in 0 .. m - 1
    BY Division
  <1>4. a = m * x + r /\ b = m * y + t
    BY <1>1, <1>2
  <1> HIDE DEF r, t
  <1>5. r - t = m * (y + q - x)
    BY <1>3, <1>4
  <1>6. y + q - x = 0
    BY <1>3, <1>5, SmallMultiple
  <1>7. r = t
    BY <1>3, <1>5, <1>6
  <1> QED
    BY <1>7 DEF r, t

(* A conversion to sequence_t changes a number by a multiple of its range. *)
LEMMA WrapOffset ==
  ASSUME NEW x \in Int
  PROVE  \E q \in Int : Wrap(x) = x + (2 * Half) * q
  <1>1. 2 * Half \in Nat \ {0} /\ x + Half \in Int /\ Half \in Int
    BY SorterAssumption
  <1>2. PICK q \in Int : x + Half = (2 * Half) * q + ((x + Half) % (2 * Half))
    BY <1>1, Division
  <1>3. Wrap(x) = x + (2 * Half) * (-q)
    BY <1>1, <1>2 DEF Wrap
  <1> QED
    BY <1>3

LEMMA WrapSame ==
  ASSUME NEW x \in Int, NEW y \in Int, NEW q \in Int, x = y + (2 * Half) * q
  PROVE  Wrap(x) = Wrap(y)
  <1>1. 2 * Half \in Nat \ {0} /\ x + Half \in Int /\ y + Half \in Int
    BY SorterAssumption
  <1>2. x + Half = (y + Half) + (2 * Half) * q
    BY SorterAssumption
  <1> QED
    BY <1>1, <1>2, SameRemainder DEF Wrap

LEMMA WrapOfSum ==
  ASSUME NEW x \in Int, NEW y \in Int
  PROVE  Wrap(Wrap(x) + y) = Wrap(x + y)
  <1>1. PICK q \in Int : Wrap(x) = x + (2 * Half) * q
    BY WrapOffset
  <1>2. Wrap(x) + y \in Int /\ x + y \in Int
    BY WrapIsInt
  <1>3. Wrap(x) + y = (x + y) + (2 * Half) * q
    BY <1>1, SorterAssumption
  <1> QED
    BY <1>2, <1>3, WrapSame

LEMMA WrapDifference ==
  ASSUME NEW x \in Int, NEW y \in Int, x - y \in SeqNum
  PROVE  Wrap(Wrap(x) - Wrap(y)) = x - y
  <1>1. PICK q \in Int : Wrap(x) = x + (2 * Half) * q
    BY WrapOffset
  <1>2. PICK p \in Int : Wrap(y) = y + (2 * Half) * p
    BY WrapOffset
  <1>3. Wrap(x) - Wrap(y) \in Int /\ x - y \in Int /\ q - p \in Int
    BY WrapIsInt
  <1>4. Wrap(x) - Wrap(y) = (x - y) + (2 * Half) * (q - p)
    BY <1>1, <1>2, SorterAssumption
  <1> QED
    BY <1>3, <1>4, WrapSame, WrapSmall

(* The sequence number of packet n of a stream, told from where its        *)
(* counter is now.                                                         *)
NumberFor(s, n) == Wrap(seqmap[s] - sent[s] + n)

FromCounter(k) ==
  /\ k.n \in 1 .. sent[StreamOf(k)]
  /\ Data(k) => k.seq = NumberFor(StreamOf(k), k.n)

Traced ==
  /\ \A s \in Stream : sent[s] <= net.sent
  /\ \A k \in inflight : FromCounter(k)
  /\ \A i \in 1 .. arrived : FromCounter(origin[i])

LEMMA TracedInit == NetInit => Traced
  <1> SUFFICES ASSUME NetInit PROVE Traced
    OBVIOUS
  <1>1. inflight = {} /\ 1 .. arrived = {}
    BY DEF NetInit, Init
  <1>2. \A s \in Stream : sent[s] <= net.sent
    BY NetFacts DEF NetInit
  <1> QED
    BY <1>1, <1>2 DEF Traced

LEMMA TracedPack ==
  ASSUME NetInv, Traced, NEW c \in Cid, NEW p \in Port, PackMsg(c, p)
  PROVE  Traced'
  <1> DEFINE s == <<c, p>>
             new == Packed(c, p)
  <1>1. /\ s \in Stream /\ sent[s] + 1 <= net.sent /\ sent[s] \in Nat
        /\ sent' = [sent EXCEPT ![s] = @ + 1]
        /\ seqmap' = [seqmap EXCEPT ![s] = NextSeq(p, @)]
        /\ new \in Packet /\ StreamOf(new) = s
        /\ inflight' = inflight \cup {new}
    BY PackFacts
  <1>2. new.n = sent[s] + 1 /\ new.destport = p
        /\ (p > MAXSPECIALPORT => new.seq = seqmap'[s])
    BY <1>1, SorterAssumption DEF Packed
  <1>3. net' = net /\ origin' = origin /\ arrived' = arrived
    BY DEF PackMsg, vars
  <1>4. /\ seqmap \in [Stream -> SeqNum] /\ sent \in [Stream -> 0 .. MaxSent]
        /\ inflight \subseteq Packet /\ \A i \in 1 .. arrived : origin[i] \in Packet
    BY DEF NetInv, NetTypeOK
  <1>5. \A x \in Stream : sent[x] \in Nat /\ seqmap[x] \in Int
    BY <1>4, SorterAssumption, NetworkAssumption DEF SeqNum
  <1>6. \A x \in Stream : x # s => sent'[x] = sent[x] /\ seqmap'[x] = seqmap[x]
    BY <1>1, <1>4
  <1>7. sent'[s] = sent[s] + 1 /\ seqmap'[s] = NextSeq(p, seqmap[s])
    BY <1>1, <1>4
  <1>8. ASSUME p > MAXSPECIALPORT, NEW n \in Nat
        PROVE  Wrap(seqmap'[s] - sent'[s] + n) = Wrap(seqmap[s] - sent[s] + n)
    <2> DEFINE q == seqmap[s] + 1
               y == n - (sent[s] + 1)
    <2>1. seqmap'[s] = Wrap(q)
      BY <1>7, <1>8, SorterAssumption DEF NextSeq
    <2>2. q \in Int /\ y \in Int /\ Wrap(q) \in Int
      BY <1>1, <1>5, WrapIsInt
    <2>3. Wrap(Wrap(q) + y) = Wrap(q + y)
      BY <2>2, WrapOfSum
    <2>4. seqmap'[s] - sent'[s] + n = Wrap(q) + y
      BY <1>1, <1>7, <2>1, <2>2
    <2>5. q + y = seqmap[s] - sent[s] + n
      BY <1>1, <1>5
    <2> QED
      BY <2>3, <2>4, <2>5
  <1>9. ASSUME NEW k \in Packet, FromCounter(k) PROVE FromCounter(k)'
    <2>1. StreamOf(k) \in Stream /\ k.n \in Nat
      BY PacketFacts
    <2>2. k.n \in 1 .. sent'[StreamOf(k)]
      BY <1>5, <1>6, <1>7, <1>9, <2>1 DEF FromCounter
    <2>3. StreamOf(k) = s => (Data(k) <=> p > MAXSPECIALPORT)
      BY DEF StreamOf, Data
    <2>4. Data(k) => k.seq = NumberFor(StreamOf(k), k.n)'
      BY <1>6, <1>8, <1>9, <2>1, <2>3 DEF FromCounter, NumberFor
    <2> QED
      BY <2>2, <2>4 DEF FromCounter, Data, StreamOf
  <1>10. ASSUME NEW k \in Packet, k = new PROVE FromCounter(k)'
    <2>1. StreamOf(k) = s /\ k.n = sent[s] + 1 /\ k.destport = p
          /\ (p > MAXSPECIALPORT => k.seq = seqmap'[s])
      BY <1>1, <1>2, <1>10
    <2>2. k.n \in 1 .. sent'[s]
      BY <1>1, <1>7, <2>1
    <2>3. ASSUME p > MAXSPECIALPORT PROVE k.seq = Wrap(seqmap'[s] - sent'[s] + k.n)
      <3>1. seqmap[s] + 1 \in Int
        BY <1>1, <1>5
      <3>2. seqmap'[s] \in SeqNum
        BY <1>7, <2>3, <3>1, WrapType, SorterAssumption DEF NextSeq
      <3>3. seqmap'[s] - sent'[s] + k.n = seqmap'[s]
        BY <1>1, <1>7, <2>1, <3>2, SorterAssumption DEF SeqNum
      <3> QED
        BY <2>1, <2>3, <3>2, <3>3, WrapSmall
    <2> QED
      BY <2>1, <2>2, <2>3 DEF FromCounter, NumberFor, Data, StreamOf
  <1>11. \A x \in Stream : sent'[x] <= net'.sent
    BY <1>1, <1>3, <1>6, <1>7 DEF Traced
  <1>12. \A k \in inflight' : FromCounter(k)'
    BY <1>1, <1>4, <1>9, <1>10 DEF Traced
  <1>13. \A i \in 1 .. arrived : FromCounter(origin[i])'
    BY <1>3, <1>4, <1>9 DEF Traced
  <1> QED
    BY <1>3, <1>11, <1>12, <1>13 DEF Traced

LEMMA TracedNext ==
  ASSUME NetInv, net.stray = {}, Traced, [NetNext]_allVars
  PROVE  Traced'
  <1>1. ASSUME NEW s \in net.sending, PackMsg(s[1], s[2]) PROVE Traced'
    BY <1>1, SenderFacts, TracedPack DEF NetInv, NetTypeOK
  <1>2. ASSUME NEW k \in net.stray, Stray(k) PROVE Traced'
    BY <1>2
  <1>3. ASSUME NEW k \in inflight, Arrive(k) PROVE Traced'
    <2>1. /\ arrived' = arrived + 1 /\ arrived \in Nat
          /\ \A i \in 1 .. arrived : origin'[i] = origin[i]
          /\ origin'[arrived + 1] = k
      BY <1>3, ArriveFacts, ArrivalFacts DEF Arrive
    <2>2. \A i \in 1 .. arrived' :
            \/ i \in 1 .. arrived /\ origin'[i] = origin[i]
            \/ origin'[i] = k
      BY <2>1
    <2>3. UNCHANGED <<net, sent, seqmap>> /\ inflight' \subseteq inflight
      BY <1>3 DEF Arrive
    <2>4. \A j \in Packet : FromCounter(j) => FromCounter(j)'
      BY <2>3 DEF FromCounter, NumberFor, Data, StreamOf
    <2>5. inflight \subseteq Packet /\ \A i \in 1 .. arrived : origin[i] \in Packet
      BY DEF NetInv, NetTypeOK
    <2>6. \A i \in 1 .. arrived' : FromCounter(origin'[i])
      BY <2>2 DEF Traced
    <2>7. \A i \in 1 .. arrived' : FromCounter(origin[i])'
      BY <2>3, <2>6 DEF FromCounter, NumberFor, Data, StreamOf
    <2> QED
      BY <2>3, <2>4, <2>5, <2>7 DEF Traced
  <1>4. ASSUME NEW k \in inflight, Lose(k) PROVE Traced'
    BY <1>4 DEF Lose, vars, Traced, FromCounter, NumberFor, Data, StreamOf
  <1>5. CASE UNCHANGED <<arrived, netVars>>
    BY <1>5 DEF netVars, Traced, FromCounter, NumberFor, Data, StreamOf
  <1>6. CASE UNCHANGED allVars
    BY <1>5, <1>6 DEF allVars, vars
  <1> QED
    BY <1>1, <1>2, <1>3, <1>4, <1>5, <1>6, ProcessKeepsArrived DEF NetNext

(* Few packets are behind one that comes, few were received before one     *)
(* they overtook: this holds of packets on their way, and of the latest    *)
(* arrival of each stream until the next one comes.                        *)
Within(S) == IsFiniteSet(S) /\ Cardinality(S) <= net.overtake

Latest(i) == \A j \in 1 .. arrived : SameStream(i, j) => j <= i

Close ==
  /\ \A k \in inflight : Within(Overtakers(k))
  /\ \A i \in 1 .. arrived :
       Latest(i) => Within(Overtakers(origin[i])) /\ Within(Older(origin[i]))

LEMMA BehindFacts ==
  ASSUME NetInv, NEW k
  PROVE  /\ Overtakers(k) \subseteq 1 .. arrived
         /\ IsFiniteSet(Overtakers(k)) /\ Cardinality(Overtakers(k)) \in Nat
         /\ IsFiniteSet(Older(k)) /\ Cardinality(Older(k)) \in Nat
         /\ net.overtake \in Nat
  <1>1. arrived \in Nat /\ DOMAIN origin = 1 .. arrived /\ IsFiniteSet(1 .. arrived)
    BY FS_Interval DEF NetInv, NetTypeOK, TypeOK
  <1>2. Overtakers(k) \subseteq 1 .. arrived
    BY <1>1 DEF Overtakers
  <1>3. Older(k) \subseteq inflight /\ IsFiniteSet(inflight)
    BY DEF Older, NetInv
  <1> QED
    BY <1>1, <1>2, <1>3, FS_Subset, FS_CardinalityType, NetFacts DEF NetInv, NetTypeOK

LEMMA WithinSubset ==
  ASSUME NetInv, NEW S, NEW T, Within(S), T \subseteq S
  PROVE  Within(T)
  <1>1. IsFiniteSet(T) /\ Cardinality(T) <= Cardinality(S)
    BY FS_Subset DEF Within
  <1>2. Cardinality(T) \in Nat /\ Cardinality(S) \in Nat
    BY <1>1, FS_CardinalityType DEF Within
  <1>3. net.overtake \in Nat
    BY BehindFacts
  <1> QED
    BY <1>1, <1>2, <1>3 DEF Within

LEMMA CloseInit == NetInit => Close
  <1> SUFFICES ASSUME NetInit PROVE Close
    OBVIOUS
  <1>1. inflight = {} /\ 1 .. arrived = {}
    BY DEF NetInit, Init
  <1> QED
    BY <1>1 DEF Close

LEMMA ClosePack ==
  ASSUME NetInv, Traced, Close, NEW c \in Cid, NEW p \in Port, PackMsg(c, p)
  PROVE  Close'
  <1> DEFINE new == Packed(c, p)
  <1>1. /\ <<c, p>> \in Stream /\ sent[<<c, p>>] \in Nat /\ new \in Packet
        /\ StreamOf(new) = <<c, p>> /\ inflight' = inflight \cup {new}
    BY PackFacts
  <1>2. new.n = sent[<<c, p>>] + 1
    BY DEF Packed
  <1>3. net' = net /\ origin' = origin /\ arrived' = arrived
    BY DEF PackMsg, vars
  <1>4. DOMAIN origin = 1 .. arrived /\ \A i \in 1 .. arrived : origin[i] \in Packet
    BY DEF NetInv, NetTypeOK
  <1>5. ASSUME NEW i \in 1 .. arrived, StreamOf(origin[i]) = <<c, p>>
        PROVE  origin[i].n < new.n
    <2>1. origin[i].n \in 1 .. sent[<<c, p>>]
      BY <1>5 DEF Traced, FromCounter
    <2> QED
      BY <1>1, <1>2, <2>1
  <1>6. \A k : Overtakers(k)' = Overtakers(k)
    BY <1>3 DEF Overtakers
  <1>7. \A k : k = new => Overtakers(k) = {}
    <2> SUFFICES ASSUME NEW i \in Overtakers(new) PROVE FALSE
      OBVIOUS
    <2>1. i \in 1 .. arrived /\ StreamOf(origin[i]) = <<c, p>> /\ origin[i].n > new.n
      BY <1>1, <1>4 DEF Overtakers
    <2>2. origin[i].n \in Nat /\ new.n \in Nat
      BY <1>1, <1>4, <2>1, PacketFacts
    <2> QED
      BY <1>5, <2>1, <2>2
  <1>8. \A i \in 1 .. arrived : Older(origin[i])' = Older(origin[i])
    <2> SUFFICES ASSUME NEW i \in 1 .. arrived
                 PROVE  Older(origin[i])' = Older(origin[i])
      OBVIOUS
    <2>1. origin[i].n \in Nat /\ new.n \in Nat
      BY <1>1, <1>4, PacketFacts
    <2>2. ~(StreamOf(new) = StreamOf(origin[i]) /\ new.n < origin[i].n)
      BY <1>1, <1>5, <2>1
    <2> QED
      BY <1>1, <1>3, <2>2 DEF Older
  <1>9. \A S : Within(S) => IsFiniteSet(S) /\ Cardinality(S) <= net'.overtake
    BY <1>3 DEF Within
  <1>10. Within({})
    BY FS_EmptySet, BehindFacts DEF Within
  <1>11. \A k \in inflight' : Within(Overtakers(k))'
    BY <1>1, <1>3, <1>6, <1>7, <1>9, <1>10 DEF Close, Within
  <1>12. \A i \in 1 .. arrived : Latest(i)' <=> Latest(i)
    BY <1>3 DEF Latest, SameStream
  <1>13. \A i \in 1 .. arrived :
           Latest(i) => Within(Overtakers(origin[i]))' /\ Within(Older(origin[i]))'
    BY <1>3, <1>6, <1>8 DEF Close, Within, Overtakers
  <1> QED
    BY <1>3, <1>11, <1>12, <1>13 DEF Close

LEMMA CloseArrive ==
  ASSUME NetInv, Close, NEW k \in inflight, Arrive(k)
  PROVE  Close'
  <1> DEFINE last == arrived + 1
  <1>1. /\ arrived' = last /\ arrived \in Nat
        /\ \A i \in 1 .. arrived : origin'[i] = origin[i]
        /\ origin'[last] = k
        /\ DOMAIN origin = 1 .. arrived /\ DOMAIN origin' = 1 .. arrived'
        /\ k \in Packet /\ k.n \in Nat
    BY ArriveFacts, ArrivalFacts, PacketFacts DEF Arrive
  <1>2. net' = net /\ inflight' \subseteq inflight
    BY DEF Arrive
  <1>3. \A i \in 1 .. arrived' : i \in 1 .. arrived \/ i = last
    BY <1>1
  <1>4. 1 .. arrived \subseteq 1 .. arrived' /\ last \in 1 .. arrived' /\ last \notin 1 .. arrived
    BY <1>1
  <1>5. ASSUME NEW j
        PROVE  Overtakers(j)' = IF StreamOf(k) = StreamOf(j) /\ k.n > j.n
                                THEN Overtakers(j) \cup {last} ELSE Overtakers(j)
    BY <1>1, <1>3, <1>4 DEF Overtakers
  <1>6. \A j : Older(j)' \subseteq Older(j)
    BY <1>2 DEF Older
  <1>7. ASSUME NEW S, NEW T, Within(S), T \subseteq S PROVE Within(T)
    BY <1>7, WithinSubset
  <1>8. ASSUME NEW S PROVE Within(S) => IsFiniteSet(S) /\ Cardinality(S) <= net'.overtake
    BY <1>2 DEF Within
  <1>9. ASSUME NEW j \in inflight PROVE Within(Overtakers(j)')
    <2>1. CASE j \in Older(k)
      <3>1. Cardinality(Overtakers(j)) < net.overtake
        BY <2>1 DEF Arrive, InOrderEnough
      <3>2. /\ IsFiniteSet(Overtakers(j) \cup {last})
            /\ Cardinality(Overtakers(j) \cup {last}) = Cardinality(Overtakers(j)) + 1
        BY <1>4, BehindFacts, FS_AddElement
      <3>3. Overtakers(j)' = Overtakers(j) \cup {last}
        <4>1. StreamOf(j) = StreamOf(k) /\ j.n < k.n /\ j.n \in Nat
          BY <2>1, PacketFacts DEF Older, NetInv, NetTypeOK
        <4> QED
          BY <1>1, <1>5, <4>1
      <3> QED
        BY <3>1, <3>2, <3>3, BehindFacts DEF Within
    <2>2. CASE j \notin Older(k)
      <3>1. j.n \in Nat
        BY PacketFacts DEF NetInv, NetTypeOK
      <3>2. ~(StreamOf(k) = StreamOf(j) /\ k.n > j.n)
        BY <1>1, <2>2, <3>1 DEF Older
      <3>3. Overtakers(j)' = Overtakers(j)
        BY <1>5, <3>2
      <3> QED
        BY <3>3 DEF Close
    <2> QED
      BY <2>1, <2>2
  <1>10. Within(Overtakers(k)') /\ Within(Older(k)')
    <2>1. Within(Older(k))
      BY BehindFacts DEF Arrive, InOrderEnough, Within
    <2> QED
      BY <1>6, <1>7, <1>9, <2>1
  <1>11. ASSUME NEW i \in 1 .. arrived, Latest(i)'
         PROVE  Within(Overtakers(origin[i])') /\ Within(Older(origin[i])')
    <2>1. Latest(i)
      BY <1>1, <1>4, <1>11 DEF Latest, SameStream
    <2>2. StreamOf(origin[i]) # StreamOf(k)
      <3> SUFFICES ASSUME StreamOf(origin[i]) = StreamOf(k) PROVE FALSE
        OBVIOUS
      <3>1. last <= i
        BY <1>1, <1>4, <1>11 DEF Latest, SameStream
      <3> QED
        BY <1>1, <3>1
    <2>3. PICK x : x = origin[i]
      OBVIOUS
    <2>4. Overtakers(x)' = Overtakers(x) /\ Older(x)' \subseteq Older(x)
      BY <1>5, <1>6, <2>2, <2>3
    <2>5. Overtakers(origin[i])' = Overtakers(x)' /\ Older(origin[i])' = Older(x)'
      BY <1>1, <2>3 DEF Overtakers, Older
    <2>6. Within(Overtakers(x)) /\ Within(Older(x))
      BY <2>1, <2>3 DEF Close
    <2> QED
      BY <1>7, <2>4, <2>5, <2>6
  <1>12. \A j \in inflight' : Within(Overtakers(j))'
    BY <1>2, <1>8, <1>9 DEF Within
  <1>13. ASSUME NEW i \in 1 .. arrived', Latest(i)'
         PROVE  Within(Overtakers(origin[i]))' /\ Within(Older(origin[i]))'
    <2>1. CASE i \in 1 .. arrived
      BY <1>2, <1>11, <1>13, <2>1 DEF Within
    <2>2. CASE i = last
      <3>1. origin'[i] = k
        BY <1>1, <2>2
      <3> QED
        BY <1>2, <1>10, <3>1 DEF Within, Overtakers, Older
    <2> QED
      BY <1>3, <2>1, <2>2
  <1> QED
    BY <1>12, <1>13 DEF Close

LEMMA CloseNext ==
  ASSUME NetInv, net.stray = {}, Traced, Close, [NetNext]_allVars
  PROVE  Close'
  <1>1. ASSUME NEW s \in net.sending, PackMsg(s[1], s[2]) PROVE Close'
    BY <1>1, SenderFacts, ClosePack DEF NetInv, NetTypeOK
  <1>2. ASSUME NEW k \in net.stray, Stray(k) PROVE Close'
    BY <1>2
  <1>3. ASSUME NEW k \in inflight, Arrive(k) PROVE Close'
    BY <1>3, CloseArrive
  <1>4. ASSUME NEW k \in inflight, Lose(k) PROVE Close'
    <2>1. /\ inflight' \subseteq inflight
          /\ UNCHANGED <<net, origin, arrived>>
      BY <1>4 DEF Lose, vars
    <2>2. \A j : Overtakers(j)' = Overtakers(j) /\ Older(j)' \subseteq Older(j)
      BY <2>1 DEF Overtakers, Older
    <2>3. ASSUME NEW S, NEW T, Within(S), T \subseteq S PROVE Within(T)
      BY <2>3, WithinSubset
    <2>4. \A i \in 1 .. arrived : Latest(i)' <=> Latest(i)
      BY <2>1 DEF Latest, SameStream
    <2>5. \A i \in 1 .. arrived : Older(origin[i])' \subseteq Older(origin[i])
      BY <2>1 DEF Older
    <2>6. \A i \in 1 .. arrived : Overtakers(origin[i])' = Overtakers(origin[i])
      BY <2>1 DEF Overtakers
    <2>7. \A i \in 1 .. arrived :
            Latest(i) => Within(Overtakers(origin[i])') /\ Within(Older(origin[i])')
      BY <2>3, <2>5, <2>6 DEF Close
    <2>8. \A j \in inflight' : Within(Overtakers(j)')
      BY <2>1, <2>2 DEF Close
    <2> QED
      BY <2>1, <2>4, <2>7, <2>8 DEF Close, Within
  <1>5. CASE UNCHANGED <<arrived, netVars>>
    BY <1>5 DEF netVars, Close, Within, Latest, SameStream, Overtakers, Older
  <1>6. CASE UNCHANGED allVars
    BY <1>5, <1>6 DEF allVars, vars
  <1> QED
    BY <1>1, <1>2, <1>3, <1>4, <1>5, <1>6, ProcessKeepsArrived DEF NetNext

(* What lies between two packets of a stream is lost, on its way behind    *)
(* the newer one, or was received before the older one.                    *)
LEMMA InjectionBound ==
  ASSUME NEW S, NEW T, IsFiniteSet(T), NEW f \in [S -> T],
         \A a, b \in S : f[a] = f[b] => a = b
  PROVE  IsFiniteSet(S) /\ Cardinality(S) <= Cardinality(T)
  <1>1. f \in Injection(S, T)
    BY Fun_IsInj
  <1> QED
    BY <1>1, FS_Injection

LEMMA UnionBound ==
  ASSUME NEW S, IsFiniteSet(S), NEW T, IsFiniteSet(T)
  PROVE  /\ IsFiniteSet(S \cup T)
         /\ Cardinality(S \cup T) <= Cardinality(S) + Cardinality(T)
  <1>1. IsFiniteSet(S \cap T)
    BY FS_Subset
  <1>2. Cardinality(S) \in Nat /\ Cardinality(T) \in Nat /\ Cardinality(S \cap T) \in Nat
    BY <1>1, FS_CardinalityType
  <1>3. /\ IsFiniteSet(S \cup T)
        /\ Cardinality(S \cup T)
             = Cardinality(S) + Cardinality(T) - Cardinality(S \cap T)
    BY FS_Union
  <1> QED
    BY <1>2, <1>3

LEMMA Between ==
  ASSUME NetInv, GoneByLoss,
         NEW x \in Packet, NEW y \in Packet, StreamOf(x) = StreamOf(y),
         x.n <= sent[StreamOf(x)], Within(Older(x)), Within(Overtakers(y))
  PROVE  x.n - y.n <= net.loss + 2 * net.overtake + 1
  <1> DEFINE s == StreamOf(x)
             S == y.n + 1 .. x.n - 1
             SG == {m \in S : <<s, m>> \in Gone}
             SO == {m \in S : \E j \in Older(x) : j.n = m}
             SA == {m \in S : \E i \in Overtakers(y) : origin[i].n = m}
  <1>1. /\ x.n \in Nat /\ y.n \in Nat /\ y.n >= 0 /\ s \in Stream
        /\ MaxSent \in Nat /\ x.n <= MaxSent
    BY PacketFacts, NetworkAssumption DEF Packet
  <1>2. /\ DOMAIN origin = 1 .. arrived
        /\ inflight \subseteq Packet /\ \A i \in 1 .. arrived : origin[i] \in Packet
    BY DEF NetInv, NetTypeOK
  <1>3. S \subseteq SG \cup SO \cup SA
    <2> SUFFICES ASSUME NEW m \in S, m \notin SO, m \notin SA PROVE <<s, m>> \in Gone
      OBVIOUS
    <2>1. m \in Int /\ y.n < m /\ m < x.n
      BY <1>1
    <2>2. m \in 1 .. MaxSent /\ m <= sent[s]
      <3>1. sent[s] \in Nat
        BY <1>1, NetworkAssumption DEF NetInv, NetTypeOK
      <3> QED
        BY <1>1, <2>1, <3>1
    <2>3. ASSUME NEW j \in inflight, StreamOf(j) = s PROVE j.n # m
      <3> SUFFICES ASSUME j.n = m PROVE FALSE
        OBVIOUS
      <3>1. j \in Older(x)
        BY <2>1, <2>3 DEF Older
      <3> QED
        BY <3>1
    <2>4. ASSUME NEW i \in 1 .. arrived, StreamOf(origin[i]) = s PROVE origin[i].n # m
      <3> SUFFICES ASSUME origin[i].n = m PROVE FALSE
        OBVIOUS
      <3>1. i \in Overtakers(y)
        BY <1>1, <1>2, <2>1, <2>4 DEF Overtakers
      <3> QED
        BY <3>1
    <2> QED
      BY <1>1, <2>2, <2>3, <2>4 DEF Gone
  <1>4. IsFiniteSet(SG) /\ Cardinality(SG) <= net.loss
    <2> DEFINE f == [m \in SG |-> <<s, m>>]
    <2>1. f \in [SG -> Gone] /\ \A a, b \in SG : f[a] = f[b] => a = b
      OBVIOUS
    <2>2. IsFiniteSet(SG) /\ Cardinality(SG) <= Cardinality(Gone)
      BY <2>1, InjectionBound DEF GoneByLoss
    <2>3. losses \in 0 .. net.loss /\ net.loss \in Nat
      BY NetFacts DEF NetInv, NetTypeOK
    <2> QED
      BY <2>2, <2>3, FS_CardinalityType DEF GoneByLoss
  <1>5. IsFiniteSet(SO) /\ Cardinality(SO) <= net.overtake
    <2> DEFINE f == [m \in SO |-> CHOOSE j \in Older(x) : j.n = m]
    <2>1. \A m \in SO : f[m] \in Older(x) /\ f[m].n = m
      OBVIOUS
    <2>2. f \in [SO -> Older(x)] /\ \A a, b \in SO : f[a] = f[b] => a = b
      BY <2>1
    <2>3. IsFiniteSet(SO) /\ Cardinality(SO) <= Cardinality(Older(x))
      BY <2>2, InjectionBound DEF Within
    <2> QED
      BY <2>3, BehindFacts, FS_CardinalityType DEF Within
  <1>6. IsFiniteSet(SA) /\ Cardinality(SA) <= net.overtake
    <2> DEFINE f == [m \in SA |-> CHOOSE i \in Overtakers(y) : origin[i].n = m]
    <2>1. \A m \in SA : f[m] \in Overtakers(y) /\ origin[f[m]].n = m
      OBVIOUS
    <2>2. f \in [SA -> Overtakers(y)] /\ \A a, b \in SA : f[a] = f[b] => a = b
      BY <2>1
    <2>3. IsFiniteSet(SA) /\ Cardinality(SA) <= Cardinality(Overtakers(y))
      BY <2>2, InjectionBound DEF Within
    <2> QED
      BY <2>3, BehindFacts, FS_CardinalityType DEF Within
  <1> HIDE DEF SG, SO, SA
  <1>7. /\ IsFiniteSet(SG \cup SO)
        /\ Cardinality(SG \cup SO) <= Cardinality(SG) + Cardinality(SO)
    BY <1>4, <1>5, UnionBound
  <1>8. /\ IsFiniteSet((SG \cup SO) \cup SA)
        /\ Cardinality((SG \cup SO) \cup SA)
             <= Cardinality(SG \cup SO) + Cardinality(SA)
    BY <1>6, <1>7, UnionBound
  <1>9. /\ IsFiniteSet(S)
        /\ Cardinality(S) <= Cardinality((SG \cup SO) \cup SA)
    BY <1>3, <1>8, FS_Subset
  <1>10. Cardinality(S) = IF y.n + 1 > x.n - 1 THEN 0 ELSE x.n - 1 - (y.n + 1) + 1
    <2>1. \A a, b \in Int : Cardinality(a .. b) = IF a > b THEN 0 ELSE b - a + 1
      BY FS_Interval
    <2>2. y.n + 1 \in Int /\ x.n - 1 \in Int
      BY <1>1
    <2> QED
      BY <2>1, <2>2
  <1> DEFINE cs == Cardinality(S)
             cu == Cardinality((SG \cup SO) \cup SA)
             cg == Cardinality(SG \cup SO)
             g == Cardinality(SG)
             o == Cardinality(SO)
             v == Cardinality(SA)
  <1>11. /\ cs \in Nat /\ cu \in Nat /\ cg \in Nat /\ g \in Nat /\ o \in Nat /\ v \in Nat
    BY <1>4, <1>5, <1>6, <1>7, <1>8, <1>9, FS_CardinalityType
  <1>12. net.loss \in Nat /\ net.overtake \in Nat
    BY NetFacts DEF NetInv, NetTypeOK
  <1>13. /\ g <= net.loss /\ o <= net.overtake /\ v <= net.overtake
         /\ cg <= g + o /\ cu <= cg + v /\ cs <= cu
         /\ cs = IF y.n + 1 > x.n - 1 THEN 0 ELSE x.n - 1 - (y.n + 1) + 1
    BY <1>4, <1>5, <1>6, <1>7, <1>8, <1>9, <1>10
  <1> HIDE DEF cs, cu, cg, g, o, v
  <1> QED
    BY <1>1, <1>11, <1>12, <1>13

(* Packets of a stream that come one after the other are less than half    *)
(* the range of the numbers apart.                                         *)
Consecutive(i, j) ==
  /\ i < j /\ SameStream(i, j)
  /\ \A h \in 1 .. arrived : SameStream(i, h) => h <= i \/ j <= h

Near ==
  \A i, j \in 1 .. arrived :
    Consecutive(i, j) => origin[j].n - origin[i].n \in SeqNum

LEMMA NearInit == NetInit => Near
  <1> SUFFICES ASSUME NetInit PROVE Near
    OBVIOUS
  <1>1. 1 .. arrived = {}
    BY DEF NetInit, Init
  <1> QED
    BY <1>1 DEF Near

LEMMA NearArrive ==
  ASSUME NetInv, NoJump, GoneByLoss, Traced, Close, Near,
         NEW k \in inflight, Arrive(k)
  PROVE  Near'
  <1> DEFINE last == arrived + 1
  <1>1. /\ arrived' = last /\ arrived \in Nat
        /\ \A i \in 1 .. arrived : origin'[i] = origin[i]
        /\ origin'[last] = k /\ k \in Packet
        /\ \A i \in 1 .. arrived : origin[i] \in Packet
    BY ArriveFacts, ArrivalFacts DEF Arrive, NetInv, NetTypeOK
  <1>2. /\ Half \in Nat /\ MaxSent \in Nat
        /\ net.loss \in Nat /\ net.overtake \in Nat /\ net.sent \in Nat
    BY SorterAssumption, NetworkAssumption, NetFacts DEF NetInv, NetTypeOK
  <1>3. /\ k.n \in 1 .. sent[StreamOf(k)] /\ StreamOf(k) \in Stream /\ k.n \in Nat
        /\ sent[StreamOf(k)] \in Nat /\ sent[StreamOf(k)] <= net.sent
    BY <1>1, PacketFacts, NetworkAssumption DEF Traced, FromCounter, NetInv, NetTypeOK
  <1>4. ASSUME NEW i \in 1 .. arrived, Latest(i), StreamOf(origin[i]) = StreamOf(k)
        PROVE  k.n - origin[i].n \in SeqNum
    <2>1. /\ origin[i] \in Packet /\ origin[i].n \in Nat
          /\ origin[i].n \in 1 .. sent[StreamOf(k)]
      BY <1>1, <1>4, PacketFacts DEF Traced, FromCounter
    <2>2. CASE net.sent <= Half
      BY <1>2, <1>3, <2>1, <2>2 DEF SeqNum
    <2>3. CASE net.loss + 2 * net.overtake + 1 < Half
      <3>1. Within(Overtakers(origin[i])) /\ Within(Older(origin[i]))
        BY <1>4 DEF Close
      <3>2. Within(Overtakers(k)) /\ Within(Older(k))
        BY BehindFacts DEF Close, Arrive, InOrderEnough, Within
      <3>3. k.n - origin[i].n <= net.loss + 2 * net.overtake + 1
        BY <1>1, <1>3, <1>4, <2>1, <3>1, <3>2, Between
      <3>4. origin[i].n <= sent[StreamOf(origin[i])]
        BY <1>3, <1>4, <2>1
      <3>5. origin[i].n - k.n <= net.loss + 2 * net.overtake + 1
        BY <1>1, <1>4, <2>1, <3>1, <3>2, <3>4, Between
      <3> QED
        BY <1>2, <1>3, <2>1, <2>3, <3>3, <3>5 DEF SeqNum
    <2> QED
      BY <2>2, <2>3 DEF NoJump
  <1>5. \A i \in 1 .. arrived' : i \in 1 .. arrived \/ i = last
    BY <1>1
  <1>6. 1 .. arrived \subseteq 1 .. arrived' /\ \A i \in 1 .. arrived : i < last
    BY <1>1
  <1> SUFFICES ASSUME NEW i \in 1 .. arrived', NEW j \in 1 .. arrived',
                      Consecutive(i, j)'
               PROVE  origin'[j].n - origin'[i].n \in SeqNum
    BY DEF Near
  <1>7. i \in 1 .. arrived
    BY <1>1, <1>5 DEF Consecutive
  <1>8. CASE j \in 1 .. arrived
    <2>1. Consecutive(i, j)
      BY <1>1, <1>6, <1>7, <1>8 DEF Consecutive, SameStream
    <2> QED
      BY <1>1, <1>7, <1>8, <2>1 DEF Near
  <1>9. CASE j = last
    <2>1. StreamOf(origin[i]) = StreamOf(k)
      BY <1>1, <1>7, <1>9 DEF Consecutive, SameStream
    <2>2. Latest(i)
      <3> SUFFICES ASSUME NEW h \in 1 .. arrived, SameStream(i, h) PROVE h <= i
        BY DEF Latest
      <3>1. h <= i \/ last <= h
        BY <1>1, <1>6, <1>7, <1>9 DEF Consecutive, SameStream
      <3> QED
        BY <1>1, <3>1
    <2> QED
      BY <1>1, <1>4, <1>7, <1>9, <2>1, <2>2
  <1> QED
    BY <1>5, <1>8, <1>9

LEMMA NearNext ==
  ASSUME NetInv, NoJump, GoneByLoss, Traced, Close, Near, [NetNext]_allVars
  PROVE  Near'
  <1>1. CASE UNCHANGED <<origin, arrived>>
    BY <1>1 DEF Near, Consecutive, SameStream
  <1>2. ASSUME NEW s, PackMsg(s[1], s[2]) PROVE Near'
    BY <1>1, <1>2 DEF PackMsg, vars
  <1>3. ASSUME NEW k \in net.stray, Stray(k) PROVE Near'
    BY <1>3 DEF NoJump
  <1>4. ASSUME NEW k \in inflight, Arrive(k) PROVE Near'
    BY <1>4, NearArrive
  <1>5. ASSUME NEW k \in inflight, Lose(k) PROVE Near'
    BY <1>1, <1>5 DEF Lose, vars
  <1>6. CASE UNCHANGED netVars /\ (RecvNothing \/ process)
    BY <1>1, <1>6, ProcessKeepsArrived DEF netVars
  <1>7. CASE UNCHANGED allVars
    BY <1>1, <1>7 DEF allVars, netVars, vars
  <1> QED
    BY <1>2, <1>3, <1>4, <1>5, <1>6, <1>7 DEF NetNext

(* The packets up to a number per stream: one stream adds its own.         *)
Slices(K, g, c) ==
  {x \in K \X (1 .. MaxSent) : x[1][1] = c /\ x[2] <= g[x[1]]}

LEMMA SlicesFinite ==
  ASSUME NEW K, IsFiniteSet(K), NEW g, NEW c
  PROVE  IsFiniteSet(Slices(K, g, c)) /\ Cardinality(Slices(K, g, c)) \in Nat
  <1>1. IsFiniteSet(1 .. MaxSent)
    BY NetworkAssumption, FS_Interval
  <1>2. IsFiniteSet(K \X (1 .. MaxSent))
    BY <1>1, FS_Product
  <1> QED
    BY <1>2, FS_Subset, FS_CardinalityType DEF Slices

LEMMA SliceOf ==
  ASSUME NEW K, IsFiniteSet(K), NEW s \in K, NEW g, g[s] \in 0 .. MaxSent, NEW c
  PROVE  Cardinality(Slices(K, g, c))
           = Cardinality(Slices(K \ {s}, g, c)) + (IF s[1] = c THEN g[s] ELSE 0)
  <1> DEFINE rest == Slices(K \ {s}, g, c)
             own == {s} \X (1 .. g[s])
  <1>1. IsFiniteSet(rest) /\ Cardinality(rest) \in Nat
    BY FS_Difference, SlicesFinite
  <1>2. IsFiniteSet(own) /\ Cardinality(own) = g[s]
    <2>1. IsFiniteSet(1 .. g[s]) /\ Cardinality(1 .. g[s]) = g[s]
      <3>1. \A a, b \in Int : /\ IsFiniteSet(a .. b)
                              /\ Cardinality(a .. b) = IF a > b THEN 0 ELSE b - a + 1
        BY FS_Interval
      <3>2. g[s] \in Int /\ g[s] >= 0
        BY NetworkAssumption
      <3> QED
        BY <3>1, <3>2
    <2>2. IsFiniteSet({s}) /\ Cardinality({s}) = 1
      BY FS_Singleton
    <2>3. IsFiniteSet(own) /\ Cardinality(own) = 1 * g[s]
      BY <2>1, <2>2, FS_Product
    <2> QED
      BY <2>3, NetworkAssumption
  <1>3. CASE s[1] = c
    <2>1. Slices(K, g, c) = rest \cup own
      BY <1>3, NetworkAssumption DEF Slices
    <2>2. rest \cap own = {}
      BY DEF Slices
    <2>3. Cardinality(rest \cap own) = 0
      BY <2>2, FS_EmptySet
    <2> HIDE DEF rest, own
    <2>4. Cardinality(rest \cup own)
            = Cardinality(rest) + Cardinality(own) - Cardinality(rest \cap own)
      BY <1>1, <1>2, FS_Union
    <2>5. g[s] \in Nat
      BY NetworkAssumption
    <2> QED
      BY <1>1, <1>2, <1>3, <2>1, <2>3, <2>4, <2>5 DEF rest
  <1>4. CASE s[1] # c
    <2>1. Slices(K, g, c) = rest
      BY <1>4 DEF Slices
    <2> QED
      BY <1>1, <1>4, <2>1
  <1> QED
    BY <1>3, <1>4

LEMMA Ends ==
  ASSUME NEW S \in SUBSET Int, NEW f \in S, NEW l \in S,
         \A i \in S : f <= i /\ i <= l
  PROVE  Min(S) = f /\ Max(S) = l
  <1>1. Min(S) \in S /\ \A i \in S : Min(S) <= i
    BY DEF Min
  <1>2. Max(S) \in S /\ \A i \in S : Max(S) >= i
    BY DEF Max
  <1>3. \A i, j \in S : i \in Int /\ j \in Int /\ (i <= j /\ j <= i => i = j)
    OBVIOUS
  <1>4. Min(S) <= f /\ f <= Min(S)
    BY <1>1
  <1>5. Max(S) >= l /\ Max(S) <= l
    BY <1>2
  <1>6. Min(S) = f
    BY <1>1, <1>3, <1>4
  <1>7. l <= Max(S)
    BY <1>2, <1>3, <1>5
  <1> QED
    BY <1>2, <1>3, <1>5, <1>6, <1>7

(* The sorter has an entry for the data streams it has seen, with the      *)
(* number of the last packet of each.                                      *)
Bounds(s, f, l) == f \in Arrivals(s) /\ l \in Arrivals(s)
                   /\ \A i \in Arrivals(s) : f <= i /\ i <= l

HasLast(S) == \E m \in S : \A i \in S : m >= i

Followed ==
  /\ IsFiniteSet(known) /\ known \subseteq Stream
  /\ \A s \in Stream :
       s \in known <=> s[2] > MAXSPECIALPORT /\ Arrivals(s) # {}
  /\ \A s \in known :
       \E f, l \in Taken : Bounds(s, f, l) /\ seq_in[s] = origin[l].seq
  /\ \A i \in Taken :
       StreamOf(origin[i]) \in known /\ Earlier(i) # {} => HasLast(Earlier(i))

Balanced ==
  \A c \in Cid :
    stat[c].lost = Cardinality(Reached(c)) - Cardinality(Before(c))
                   - Cardinality(Moves(c))

LEMMA TakenFacts ==
  ASSUME NetInv
  PROVE  /\ Taken \subseteq 1 .. arrived /\ Taken \subseteq Int
         /\ \A s : Arrivals(s) \subseteq Taken
         /\ \A i \in Taken : origin[i] \in Packet /\ StreamOf(origin[i]) \in Stream
         /\ IsFiniteSet(Taken)
  <1>1. arrived \in Nat
    BY SorterAssumption DEF NetInv, NetTypeOK, TypeOK
  <1>2. Taken \subseteq 1 .. arrived /\ Taken \subseteq Int
    BY <1>1 DEF Taken
  <1>3. \A i \in 1 .. arrived : origin[i] \in Packet
    BY DEF NetInv, NetTypeOK
  <1>4. \A i \in Taken : origin[i] \in Packet /\ StreamOf(origin[i]) \in Stream
    BY <1>2, <1>3, PacketFacts
  <1>5. IsFiniteSet(1 .. arrived)
    BY <1>1, FS_Interval
  <1>6. IsFiniteSet(Taken)
    BY <1>2, <1>5, FS_Subset
  <1> QED
    BY <1>2, <1>4, <1>6 DEF Arrivals

LEMMA EndsOf ==
  ASSUME NetInv, NEW s, NEW f, NEW l, Bounds(s, f, l)
  PROVE  /\ FirstOf(s) = origin[f].n /\ FirstOf(s) \in 0 .. MaxSent
         /\ LastOf(s) = origin[l].n /\ LastOf(s) \in 0 .. MaxSent
         /\ Max(Arrivals(s)) = l
  <1>1. Arrivals(s) \in SUBSET Int
    BY TakenFacts
  <1>2. Min(Arrivals(s)) = f /\ Max(Arrivals(s)) = l
    BY <1>1, Ends DEF Bounds
  <1>3. origin[f] \in Packet /\ origin[l] \in Packet
    BY TakenFacts DEF Bounds
  <1> QED
    BY <1>2, <1>3 DEF FirstOf, LastOf, Packet

(* The message being sorted is the last arrival, the only one not taken.   *)
LEMMA SortingTakes ==
  ASSUME Carries, Sorting, ~Sorting', UNCHANGED <<origin, arrived>>
  PROVE  /\ arrived \notin Taken /\ Taken' = Taken \cup {arrived}
         /\ arrived \in Int /\ \A i \in Taken : i < arrived
         /\ origin[arrived] \in Packet /\ StreamOf(origin[arrived]) = StreamOf(msg)
         /\ origin[arrived].seq = msg.seq /\ origin[arrived].cid = msg.cid
         /\ arrived \in 1 .. arrived
  <1>1. /\ NetInv /\ Carried(msg) /\ msg.valid /\ msg.id = arrived
        /\ arrived \in 1 .. arrived
    BY SortingFacts DEF Carries, NetInv, Linked
  <1>2. arrived \in Nat
    BY <1>1, SorterAssumption DEF NetInv, NetTypeOK, TypeOK
  <1>3. Taken = 1 .. arrived - 1 /\ Taken' = 1 .. arrived
    BY DEF Taken
  <1>4. Taken' = Taken \cup {arrived} /\ arrived \notin Taken /\ \A i \in Taken : i < arrived
    BY <1>1, <1>2, <1>3
  <1>5. StreamOf(origin[arrived]) = StreamOf(msg) /\ origin[arrived].seq = msg.seq
    BY <1>1 DEF Carried
  <1> QED
    BY <1>1, <1>2, <1>4, <1>5 DEF StreamOf, NetInv, NetTypeOK

LEMMA ArrivalsGrow ==
  ASSUME Carries, Sorting, ~Sorting', UNCHANGED <<origin, arrived>>
  PROVE  /\ \A s : Arrivals(s)' = IF s = StreamOf(msg) THEN Arrivals(s) \cup {arrived}
                                   ELSE Arrivals(s)
         /\ \A i \in Taken : Earlier(i)' = Earlier(i)
         /\ Earlier(arrived)' = Arrivals(StreamOf(msg))
  <1>1. /\ Taken' = Taken \cup {arrived} /\ arrived \notin Taken
        /\ \A i \in Taken : i < arrived
        /\ StreamOf(origin[arrived]) = StreamOf(msg) /\ arrived \in Int
    BY SortingTakes
  <1>2. /\ Taken \subseteq Int /\ \A s : Arrivals(s) \subseteq Taken
    BY TakenFacts DEF Carries
  <1>3. \A s : Arrivals(s)' = IF s = StreamOf(msg) THEN Arrivals(s) \cup {arrived}
                              ELSE Arrivals(s)
    BY <1>1 DEF Arrivals
  <1>4. ASSUME NEW i \in Taken PROVE Earlier(i)' = Earlier(i)
    <2>1. ~(arrived < i)
      BY <1>1, <1>2
    <2> QED
      BY <1>3, <2>1 DEF Earlier
  <1>5. Earlier(arrived)' = Arrivals(StreamOf(msg))
    <2>1. \A i \in Arrivals(StreamOf(msg)) : i < arrived
      BY <1>1, <1>2
    <2>2. ~(arrived < arrived)
      BY <1>1
    <2> QED
      BY <1>1, <1>3, <2>1, <2>2 DEF Earlier
  <1> QED
    BY <1>3, <1>4, <1>5

(* A data message becomes the last of its stream, and the first if there   *)
(* was none.                                                               *)
LEMMA BoundsGrow ==
  ASSUME Carries, Sorting, ~Sorting', UNCHANGED <<origin, arrived>>,
         NEW s, s = StreamOf(msg), NEW a, a = arrived
  PROVE  /\ \A x, f, l : x # s => (Bounds(x, f, l)' <=> Bounds(x, f, l))
         /\ Arrivals(s) = {} => Bounds(s, a, a)'
         /\ \A f, l : Bounds(s, f, l) => Bounds(s, f, a)'
  <1>1. a \notin Taken /\ a \in Int /\ \A i \in Taken : i < a
    BY SortingTakes
  <1>2. \A x : Arrivals(x)' = IF x = s THEN Arrivals(x) \cup {a} ELSE Arrivals(x)
    BY ArrivalsGrow
  <1>3. Taken \subseteq Int /\ \A x : Arrivals(x) \subseteq Taken
    BY TakenFacts DEF Carries
  <1>4. \A x, f, l : x # s => (Bounds(x, f, l)' <=> Bounds(x, f, l))
    BY <1>2 DEF Bounds
  <1>5. Arrivals(s) = {} => Bounds(s, a, a)'
    BY <1>1, <1>2 DEF Bounds
  <1>6. \A f, l : Bounds(s, f, l) => Bounds(s, f, a)'
    <2> SUFFICES ASSUME NEW f, NEW l, Bounds(s, f, l) PROVE Bounds(s, f, a)'
      OBVIOUS
    <2>0. \A i \in Arrivals(s) : i \in Int /\ i < a
      BY <1>1, <1>3
    <2>1. f \in Arrivals(s) /\ f <= a /\ a <= a
      BY <1>1, <2>0 DEF Bounds
    <2>2. \A i \in Arrivals(s) : f <= i /\ i <= a
      BY <1>1, <2>0 DEF Bounds
    <2> QED
      BY <1>2, <2>1, <2>2 DEF Bounds
  <1> QED
    BY <1>4, <1>5, <1>6

LEMMA FollowedTakeIn ==
  ASSUME Carries, Followed, Sorting, ~IsSpecial, TakeIn, ~Sorting',
         UNCHANGED <<origin, arrived>>
  PROVE  Followed'
  <1>0. PICK s, a : s = StreamOf(msg) /\ a = arrived
    OBVIOUS
  <1>1. /\ known' = known \cup {s} /\ seq_in' = [seq_in EXCEPT ![s] = msg.seq]
        /\ s \in Stream /\ s[2] > MAXSPECIALPORT
        /\ seq_in \in [Stream -> SeqNum]
    BY <1>0, BufferFacts, SequenceFacts, SorterAssumption
       DEF TakeIn, Carries, IsSpecial, StreamOf
  <1>2. /\ Taken' = Taken \cup {a} /\ a \in Taken' /\ origin[a].seq = msg.seq
    BY <1>0, SortingTakes
  <1>3. \A x : Arrivals(x)' = IF x = s THEN Arrivals(x) \cup {a} ELSE Arrivals(x)
    BY <1>0, ArrivalsGrow
  <1>4. IsFiniteSet(known') /\ known' \subseteq Stream
    BY <1>1, FS_AddElement DEF Followed
  <1>5. \A x \in Stream :
          x \in known' <=> x[2] > MAXSPECIALPORT /\ Arrivals(x)' # {}
    BY <1>1, <1>3 DEF Followed
  <1>6. ASSUME NEW x \in known'
        PROVE  \E f, l \in Taken' : Bounds(x, f, l)' /\ seq_in'[x] = origin[l].seq
    <2>0. /\ \A y, f, l : y # s => (Bounds(y, f, l)' <=> Bounds(y, f, l))
          /\ Arrivals(s) = {} => Bounds(s, a, a)'
          /\ \A f, l : Bounds(s, f, l) => Bounds(s, f, a)'
      BY <1>0, BoundsGrow
    <2>1. CASE x # s
      <3>1. x \in known /\ x \in Stream /\ seq_in'[x] = seq_in[x]
        BY <1>1, <2>1 DEF Followed
      <3>2. PICK f, l \in Taken : Bounds(x, f, l) /\ seq_in[x] = origin[l].seq
        BY <3>1 DEF Followed
      <3> QED
        BY <1>2, <2>0, <2>1, <3>1, <3>2
    <2>2. CASE x = s /\ s \in known
      <3>1. PICK f, l \in Taken : Bounds(s, f, l)
        BY <2>2 DEF Followed
      <3>2. Bounds(s, f, a)'
        BY <2>0, <3>1
      <3>3. seq_in'[s] = msg.seq
        BY <1>1
      <3> QED
        BY <1>2, <2>2, <3>2, <3>3
    <2>3. CASE x = s /\ s \notin known
      <3>1. Arrivals(s) = {}
        BY <1>1, <2>3 DEF Followed
      <3>2. Bounds(s, a, a)'
        BY <2>0, <3>1
      <3>3. seq_in'[s] = msg.seq
        BY <1>1
      <3> QED
        BY <1>2, <2>3, <3>2, <3>3
    <2> QED
      BY <2>1, <2>2, <2>3
  <1>7. \A x \in known' : \E f, l \in Taken' : Bounds(x, f, l)' /\ seq_in'[x] = origin'[l].seq
    BY <1>6
  <1>8. ASSUME NEW i \in Taken', StreamOf(origin[i]) \in known', Earlier(i)' # {}
        PROVE  HasLast(Earlier(i)')
    <2>1. CASE i \in Taken
      <3>1. Earlier(i)' = Earlier(i)
        BY <2>1, ArrivalsGrow
      <3>2. StreamOf(origin[i]) \in known
        <4>1. StreamOf(origin[i]) = s => Arrivals(s) # {}
          BY <2>1 DEF Arrivals
        <4> QED
          BY <1>1, <1>8, <4>1 DEF Followed
      <3> QED
        BY <1>8, <2>1, <3>1, <3>2 DEF Followed
    <2>2. CASE i = a
      <3>1. Earlier(i)' = Arrivals(s)
        BY <1>0, <2>2, ArrivalsGrow DEF Earlier, Arrivals
      <3>2. s \in known
        BY <1>1, <1>8, <3>1 DEF Followed
      <3>3. PICK f, l \in Taken : Bounds(s, f, l)
        BY <3>2 DEF Followed
      <3>4. \A j \in Arrivals(s) : j \in Int
        BY TakenFacts DEF Carries
      <3> QED
        BY <3>1, <3>3, <3>4 DEF Bounds, HasLast
    <2> QED
      BY <1>2, <2>1, <2>2
  <1>9. \A i \in Taken' : StreamOf(origin'[i]) \in known' /\ Earlier(i)' # {}
                         => HasLast(Earlier(i)')
    BY <1>8
  <1> QED
    BY <1>4, <1>5, <1>7, <1>9 DEF Followed, HasLast

LEMMA MovesGrow ==
  ASSUME Carries, Followed, Sorting, ~IsSpecial, TakeIn, ~Sorting',
         UNCHANGED <<origin, arrived>>,
         NEW s, s = StreamOf(msg), NEW a, a = arrived, NEW c
  PROVE  /\ s \notin known => Moves(c)' = Moves(c)
         /\ \A f, l : s \in known /\ Bounds(s, f, l) =>
              Moves(c)' = IF s[1] = c /\ origin[l].n # origin[a].n
                          THEN Moves(c) \cup {a} ELSE Moves(c)
  <1>1. /\ Taken' = Taken \cup {a} /\ a \notin Taken
        /\ StreamOf(origin[a]) = s /\ origin[a].cid = s[1]
    BY SortingTakes DEF StreamOf
  <1>2. /\ \A i \in Taken : Earlier(i)' = Earlier(i)
        /\ \A i : i = a => Earlier(i)' = Arrivals(s)
    BY ArrivalsGrow DEF Earlier, Arrivals
  <1>3. known' = known \cup {s} /\ s \in Stream /\ s[2] > MAXSPECIALPORT
    BY BufferFacts, SorterAssumption DEF TakeIn, Carries, IsSpecial, StreamOf
  <1>4. \A i \in Taken : StreamOf(origin[i]) \in known' => StreamOf(origin[i]) \in known
    <2>1. \A i \in Taken : StreamOf(origin[i]) = s => Arrivals(s) # {}
      BY DEF Arrivals
    <2> QED
      BY <1>3, <2>1 DEF Followed
  <1>5. \A i \in Taken : i \in Moves(c)' <=> i \in Moves(c)
    BY <1>1, <1>2, <1>3, <1>4 DEF Moves
  <1>6. a \in Moves(c)' <=> /\ s[1] = c /\ Arrivals(s) # {}
                            /\ origin[Max(Arrivals(s))].n # origin[a].n
    BY <1>1, <1>2, <1>3 DEF Moves
  <1>7. Moves(c)' \subseteq Taken \cup {a} /\ Moves(c) \subseteq Taken
    BY <1>1 DEF Moves
  <1>8. s \notin known => Arrivals(s) = {}
    BY <1>3 DEF Followed
  <1>9. \A f, l : Bounds(s, f, l) => Arrivals(s) # {} /\ Max(Arrivals(s)) = l
    BY EndsOf DEF Carries, Bounds
  <1>10. s \notin known => Moves(c)' = Moves(c)
    BY <1>5, <1>6, <1>7, <1>8
  <1>11. ASSUME NEW f, NEW l, Bounds(s, f, l)
         PROVE  Moves(c)' = IF s[1] = c /\ origin[l].n # origin[a].n
                            THEN Moves(c) \cup {a} ELSE Moves(c)
    BY <1>1, <1>5, <1>6, <1>7, <1>9, <1>11
  <1> QED
    BY <1>10, <1>11

(* Compared with the last number of its stream, the message is as far      *)
(* ahead as its packet, in spite of the wrap.                              *)
LEMMA DeltaOfNumbers ==
  ASSUME Carries, Traced, Near, Sorting, ~IsSpecial, NEW f, NEW l,
         Bounds(StreamOf(msg), f, l), seq_in[StreamOf(msg)] = origin[l].seq
  PROVE  DSeqIn = origin[arrived].n - origin[l].n
  <1> DEFINE s == StreamOf(msg)
  <1>1. /\ NetInv /\ Carried(msg) /\ msg.valid /\ msg.id = arrived
        /\ arrived \in 1 .. arrived /\ arrived \in Nat
    BY SortingFacts, SorterAssumption DEF Carries, NetInv, Linked, NetTypeOK, TypeOK
  <1>2. StreamOf(origin[arrived]) = s /\ origin[arrived].seq = msg.seq
    BY <1>1 DEF Carried
  <1>3. Taken = 1 .. arrived - 1
    BY DEF Taken
  <1>4. l \in Taken /\ StreamOf(origin[l]) = s /\ \A i \in Taken : StreamOf(origin[i]) = s => i <= l
    BY DEF Bounds, Arrivals
  <1>5. l \in 1 .. arrived /\ l < arrived
    BY <1>1, <1>3, <1>4
  <1>6. Consecutive(l, arrived)
    <2> SUFFICES ASSUME NEW h \in 1 .. arrived, SameStream(l, h)
                 PROVE  h <= l \/ arrived <= h
      BY <1>2, <1>4, <1>5 DEF Consecutive, SameStream
    <2>1. h \in Taken \/ arrived <= h
      BY <1>1, <1>3
    <2> QED
      BY <1>4, <2>1 DEF SameStream
  <1>7. origin[arrived].n - origin[l].n \in SeqNum
    BY <1>1, <1>5, <1>6 DEF Near
  <1>8. Data(origin[arrived]) /\ Data(origin[l])
    <2>1. Data(msg)
      BY <1>1, BufferFacts, SorterAssumption DEF IsSpecial, Data
    <2> QED
      BY <1>2, <1>4, <2>1 DEF Data, StreamOf
  <1>9. /\ origin[arrived].seq = NumberFor(s, origin[arrived].n)
        /\ origin[l].seq = NumberFor(s, origin[l].n)
    BY <1>1, <1>2, <1>4, <1>5, <1>8 DEF Traced, FromCounter
  <1>10. /\ origin[arrived].n \in Int /\ origin[l].n \in Int
         /\ seqmap[s] \in Int /\ sent[s] \in Int
    <2>1. origin[arrived] \in Packet /\ origin[l] \in Packet /\ s \in Stream
      BY <1>1, <1>5, BufferFacts DEF NetInv, NetTypeOK
    <2>2. seqmap[s] \in SeqNum /\ sent[s] \in 0 .. MaxSent
      BY <1>1, <2>1 DEF NetInv, NetTypeOK
    <2>3. \A q \in SeqNum : q \in Int
      BY SorterAssumption DEF SeqNum
    <2>4. \A n \in 0 .. MaxSent : n \in Int
      BY NetworkAssumption
    <2> QED
      BY <2>1, <2>2, <2>3, <2>4, PacketFacts
  <1> DEFINE x == seqmap[s] - sent[s] + origin[arrived].n
             y == seqmap[s] - sent[s] + origin[l].n
  <1>11. x \in Int /\ y \in Int /\ x - y = origin[arrived].n - origin[l].n
    BY <1>10
  <1>12. Wrap(Wrap(x) - Wrap(y)) = x - y
    BY <1>7, <1>11, WrapDifference
  <1>13. msg.seq = Wrap(x) /\ seq_in[s] = Wrap(y)
    BY <1>2, <1>9 DEF NumberFor
  <1>14. DSeqIn = Wrap(msg.seq - seq_in[s])
    BY DEF DSeqIn, Delta
  <1> QED
    BY <1>11, <1>12, <1>13, <1>14

Lasts == [t \in known |-> LastOf(t)]
Firsts == [t \in known |-> FirstOf(t)]

LEMMA SliceFacts ==
  ASSUME NetInv, Followed, NEW c
  PROVE  /\ Reached(c) = Slices(known, Lasts, c)
         /\ Before(c) = Slices(known, Firsts, c)
         /\ IsFiniteSet(Reached(c)) /\ Cardinality(Reached(c)) \in Nat
         /\ IsFiniteSet(Before(c)) /\ Cardinality(Before(c)) \in Nat
         /\ IsFiniteSet(Moves(c)) /\ Cardinality(Moves(c)) \in Nat
  <1>1. Reached(c) = Slices(known, Lasts, c)
    BY DEF Reached, Slices, Lasts
  <1>2. Before(c) = Slices(known, Firsts, c)
    BY DEF Before, Slices, Firsts
  <1>3. IsFiniteSet(Moves(c)) /\ Cardinality(Moves(c)) \in Nat
    BY TakenFacts, FS_Subset, FS_CardinalityType DEF Moves
  <1> QED
    BY <1>1, <1>2, <1>3, SlicesFinite DEF Followed

(* Taking a data message in moves the end of its stream to its packet and  *)
(* keeps the beginning, or sets both.                                      *)
LEMMA SlicesGrow ==
  ASSUME Carries, Followed, Sorting, ~IsSpecial, TakeIn, ~Sorting',
         UNCHANGED <<origin, arrived>>,
         NEW s, s = StreamOf(msg), NEW a, a = arrived, NEW c
  PROVE  /\ s \notin known =>
              /\ Cardinality(Reached(c)')
                   = Cardinality(Reached(c)) + (IF s[1] = c THEN origin[a].n ELSE 0)
              /\ Cardinality(Before(c)')
                   = Cardinality(Before(c)) + (IF s[1] = c THEN origin[a].n ELSE 0)
         /\ \A f, l : s \in known /\ Bounds(s, f, l) =>
              /\ Cardinality(Reached(c)')
                   = Cardinality(Reached(c))
                     + (IF s[1] = c THEN origin[a].n - origin[l].n ELSE 0)
              /\ Cardinality(Before(c)') = Cardinality(Before(c))
  <1>1. /\ NetInv /\ known' = known \cup {s} /\ s \in Stream /\ s[2] > MAXSPECIALPORT
    BY BufferFacts, SorterAssumption DEF TakeIn, Carries, IsSpecial, StreamOf
  <1>2. /\ \A x, f, l : x # s => (Bounds(x, f, l)' <=> Bounds(x, f, l))
        /\ Arrivals(s) = {} => Bounds(s, a, a)'
        /\ \A f, l : Bounds(s, f, l) => Bounds(s, f, a)'
    BY BoundsGrow
  <1>3. ASSUME NEW x, NEW f, NEW l, Bounds(x, f, l)'
        PROVE  /\ FirstOf(x)' = origin[f].n /\ FirstOf(x)' \in 0 .. MaxSent
               /\ LastOf(x)' = origin[l].n /\ LastOf(x)' \in 0 .. MaxSent
    <2>1. Taken' = Taken \cup {a} /\ a \in Int /\ origin[a] \in Packet
      BY SortingTakes
    <2>2. /\ Taken \subseteq Int /\ \A i \in Taken : origin[i] \in Packet
      BY <1>1, TakenFacts
    <2>3. PICK S : S = Arrivals(x)'
      OBVIOUS
    <2>4. /\ S \in SUBSET Int /\ \A i \in S : origin[i] \in Packet
          /\ f \in S /\ l \in S /\ \A i \in S : f <= i /\ i <= l
      BY <1>3, <2>1, <2>2, <2>3 DEF Arrivals, Bounds
    <2>5. Min(S) = f /\ Max(S) = l
      BY <2>4, Ends
    <2>6. FirstOf(x)' = origin[Min(S)].n /\ LastOf(x)' = origin[Max(S)].n
      BY <2>3 DEF FirstOf, LastOf
    <2> QED
      BY <2>4, <2>5, <2>6 DEF Packet
  <1>4. \A x \in known : x # s => LastOf(x)' = LastOf(x) /\ FirstOf(x)' = FirstOf(x)
    <2> SUFFICES ASSUME NEW x \in known, x # s
                 PROVE  LastOf(x)' = LastOf(x) /\ FirstOf(x)' = FirstOf(x)
      OBVIOUS
    <2>1. PICK f, l \in Taken : Bounds(x, f, l)
      BY DEF Followed
    <2>2. Bounds(x, f, l)'
      BY <1>2, <2>1
    <2>3. LastOf(x) = origin[l].n /\ FirstOf(x) = origin[f].n
      BY <1>1, <2>1, EndsOf
    <2> QED
      BY <1>3, <2>2, <2>3
  <1> DEFINE K == known'
             G == [t \in K |-> LastOf(t)']
             H == [t \in K |-> FirstOf(t)']
  <1>5. /\ Reached(c)' = Slices(K, G, c) /\ Before(c)' = Slices(K, H, c)
        /\ Reached(c) = Slices(known, Lasts, c) /\ Before(c) = Slices(known, Firsts, c)
    BY <1>1, SliceFacts DEF Reached, Before, Slices
  <1>6. /\ IsFiniteSet(known) /\ IsFiniteSet(K) /\ s \in K /\ K \ {s} = known \ {s}
    BY <1>1, FS_AddElement DEF Followed
  <1>7. /\ Slices(K \ {s}, G, c) = Slices(known \ {s}, Lasts, c)
        /\ Slices(K \ {s}, H, c) = Slices(known \ {s}, Firsts, c)
    BY <1>4, <1>6 DEF Slices, Lasts, Firsts
  <1>8. /\ Cardinality(Slices(known \ {s}, Lasts, c)) \in Nat
        /\ Cardinality(Slices(known \ {s}, Firsts, c)) \in Nat
    BY <1>6, FS_Difference, SlicesFinite
  <1>9. ASSUME NEW f, NEW l, Bounds(s, f, l)'
        PROVE  /\ Cardinality(Reached(c)')
                    = Cardinality(Slices(known \ {s}, Lasts, c))
                      + (IF s[1] = c THEN origin[l].n ELSE 0)
               /\ Cardinality(Before(c)')
                    = Cardinality(Slices(known \ {s}, Firsts, c))
                      + (IF s[1] = c THEN origin[f].n ELSE 0)
               /\ origin[l].n \in Int /\ origin[f].n \in Int
    <2>1. /\ G[s] = origin[l].n /\ G[s] \in 0 .. MaxSent
          /\ H[s] = origin[f].n /\ H[s] \in 0 .. MaxSent
      BY <1>3, <1>6, <1>9
    <2> HIDE DEF G, H, K
    <2>2. /\ Cardinality(Slices(K, G, c))
               = Cardinality(Slices(K \ {s}, G, c)) + (IF s[1] = c THEN G[s] ELSE 0)
          /\ Cardinality(Slices(K, H, c))
               = Cardinality(Slices(K \ {s}, H, c)) + (IF s[1] = c THEN H[s] ELSE 0)
      BY <1>6, <2>1, SliceOf
    <2> QED
      BY <1>5, <1>7, <2>1, <2>2, NetworkAssumption
  <1>10. CASE s \notin known
    <2>1. Arrivals(s) = {} /\ known \ {s} = known
      BY <1>1, <1>10 DEF Followed
    <2> QED
      BY <1>2, <1>5, <1>9, <1>10, <2>1
  <1>11. ASSUME s \in known, NEW f, NEW l, Bounds(s, f, l)
         PROVE  /\ Cardinality(Reached(c)')
                     = Cardinality(Reached(c))
                       + (IF s[1] = c THEN origin[a].n - origin[l].n ELSE 0)
                /\ Cardinality(Before(c)') = Cardinality(Before(c))
    <2>1. /\ Lasts[s] = origin[l].n /\ Lasts[s] \in 0 .. MaxSent
          /\ Firsts[s] = origin[f].n /\ Firsts[s] \in 0 .. MaxSent
      BY <1>1, <1>11, EndsOf DEF Lasts, Firsts
    <2>2. /\ Cardinality(Slices(known, Lasts, c))
               = Cardinality(Slices(known \ {s}, Lasts, c))
                 + (IF s[1] = c THEN Lasts[s] ELSE 0)
          /\ Cardinality(Slices(known, Firsts, c))
               = Cardinality(Slices(known \ {s}, Firsts, c))
                 + (IF s[1] = c THEN Firsts[s] ELSE 0)
      BY <1>6, <1>11, <2>1, SliceOf
    <2>3. Bounds(s, f, a)'
      BY <1>2, <1>11
    <2>4. /\ Cardinality(Reached(c)')
                = Cardinality(Slices(known \ {s}, Lasts, c))
                  + (IF s[1] = c THEN origin[a].n ELSE 0)
          /\ Cardinality(Before(c)')
                = Cardinality(Slices(known \ {s}, Firsts, c))
                  + (IF s[1] = c THEN origin[f].n ELSE 0)
          /\ origin[a].n \in Int /\ origin[f].n \in Int
      BY <1>9, <2>3
    <2>5. origin[l].n \in Int
      BY <2>1, NetworkAssumption
    <2> QED
      BY <1>5, <1>8, <2>1, <2>2, <2>4, <2>5
  <1> QED
    BY <1>10, <1>11

LEMMA BalancedTakeIn ==
  ASSUME Carries, Traced, Near, Followed, Balanced, Sorting, ~IsSpecial, TakeIn,
         ~Sorting', UNCHANGED <<origin, arrived>>,
         \A c \in Cid : stat'[c].lost = IF c = msg.cid THEN CountIn(stat[c]).lost
                                        ELSE stat[c].lost
  PROVE  Balanced'
  <1>1. PICK s, a : s = StreamOf(msg) /\ a = arrived
    OBVIOUS
  <1>2. /\ NetInv /\ s \in Stream /\ s[1] = msg.cid /\ msg.cid \in Cid
        /\ stat \in [Cid -> Stat]
    BY <1>1, BufferFacts, SequenceFacts DEF Carries, StreamOf
  <1>3. /\ a \notin Taken /\ origin[a] \in Packet
    BY <1>1, SortingTakes
  <1> SUFFICES ASSUME NEW c \in Cid
               PROVE  stat'[c].lost = Cardinality(Reached(c)') - Cardinality(Before(c)')
                                      - Cardinality(Moves(c)')
    BY DEF Balanced
  <1>4. /\ Cardinality(Reached(c)) \in Nat /\ Cardinality(Before(c)) \in Nat
        /\ IsFiniteSet(Moves(c)) /\ Cardinality(Moves(c)) \in Nat
        /\ Moves(c) \subseteq Taken
    BY <1>2, SliceFacts DEF Moves
  <1>5. stat[c].lost = Cardinality(Reached(c)) - Cardinality(Before(c))
                       - Cardinality(Moves(c))
    BY DEF Balanced
  <1>6. /\ stat[c] \in Stat /\ stat[c].lost \in Int
        /\ CountIn(stat[c]).lost = IF DSeqIn # 0 /\ s \in known
                                   THEN stat[c].lost + DSeqIn - 1 ELSE stat[c].lost
    BY <1>1, <1>2 DEF CountIn, Stat
  <1>7. origin[a].n \in Int
    BY <1>3, PacketFacts
  <1>8. CASE s \notin known
    <2>1. Moves(c)' = Moves(c)
      BY <1>1, <1>8, MovesGrow
    <2>2. /\ Cardinality(Reached(c)')
               = Cardinality(Reached(c)) + (IF s[1] = c THEN origin[a].n ELSE 0)
          /\ Cardinality(Before(c)')
               = Cardinality(Before(c)) + (IF s[1] = c THEN origin[a].n ELSE 0)
      BY <1>1, <1>8, SlicesGrow
    <2>3. stat'[c].lost = stat[c].lost
      BY <1>6, <1>8
    <2>4. Cardinality(Moves(c)') = Cardinality(Moves(c))
      BY <2>1
    <2> QED
      BY <1>4, <1>5, <1>7, <2>2, <2>3, <2>4
  <1>9. CASE s \in known
    <2>1. PICK f, l \in Taken : Bounds(s, f, l) /\ seq_in[s] = origin[l].seq
      BY <1>9 DEF Followed
    <2>2. origin[l].n \in Int
      BY <1>2, <2>1, TakenFacts, PacketFacts
    <2>3. DSeqIn = origin[a].n - origin[l].n
      BY <1>1, <2>1, DeltaOfNumbers
    <2>4. Moves(c)' = IF s[1] = c /\ origin[l].n # origin[a].n
                      THEN Moves(c) \cup {a} ELSE Moves(c)
      BY <1>1, <1>9, <2>1, MovesGrow
    <2>5. /\ Cardinality(Reached(c)')
               = Cardinality(Reached(c))
                 + (IF s[1] = c THEN origin[a].n - origin[l].n ELSE 0)
          /\ Cardinality(Before(c)') = Cardinality(Before(c))
      BY <1>1, <1>9, <2>1, SlicesGrow
    <2>6. Cardinality(Moves(c) \cup {a}) = Cardinality(Moves(c)) + 1
      BY <1>3, <1>4, FS_AddElement
    <2>7. CASE s[1] # c
      <3>1. /\ stat'[c].lost = stat[c].lost
            /\ Cardinality(Moves(c)') = Cardinality(Moves(c))
        BY <1>2, <2>4, <2>7
      <3> QED
        BY <1>4, <1>5, <2>5, <2>7, <3>1
    <2>8. CASE s[1] = c /\ origin[l].n = origin[a].n
      <3>1. /\ stat'[c].lost = stat[c].lost
            /\ Cardinality(Moves(c)') = Cardinality(Moves(c))
        BY <1>2, <1>6, <1>7, <2>3, <2>4, <2>8
      <3> QED
        BY <1>4, <1>5, <1>7, <2>2, <2>5, <2>8, <3>1
    <2>9. CASE s[1] = c /\ origin[l].n # origin[a].n
      <3>1. /\ stat'[c].lost = stat[c].lost + (origin[a].n - origin[l].n) - 1
            /\ Cardinality(Moves(c)') = Cardinality(Moves(c)) + 1
        BY <1>2, <1>6, <1>7, <1>9, <2>2, <2>3, <2>4, <2>6, <2>9
      <3> QED
        BY <1>4, <1>5, <1>7, <2>2, <2>5, <2>9, <3>1
    <2> QED
      BY <2>7, <2>8, <2>9
  <1> QED
    BY <1>8, <1>9

(* Any other step leaves what the sorter has taken in, and the counter.    *)
LEMMA BalanceStays ==
  ASSUME Followed, Balanced, Taken' = Taken, known' = known, seq_in' = seq_in,
         \A i \in Taken : origin'[i] = origin[i],
         \A c \in Cid : stat'[c].lost = stat[c].lost
  PROVE  Followed' /\ Balanced'
  <1>1. \A s : Arrivals(s)' = Arrivals(s)
    BY DEF Arrivals
  <1>2. \A s, f, l : Bounds(s, f, l)' <=> Bounds(s, f, l)
    BY <1>1 DEF Bounds
  <1>3. Followed'
    <2>1. \A s \in known : \E f, l \in Taken : Bounds(s, f, l)' /\ seq_in[s] = origin'[l].seq
      BY <1>2 DEF Followed
    <2>2. \A i \in Taken : Earlier(i)' = Earlier(i)
      BY <1>1 DEF Earlier
    <2>3. \A i \in Taken : StreamOf(origin'[i]) \in known /\ Earlier(i)' # {}
                          => HasLast(Earlier(i)')
      BY <2>2 DEF Followed
    <2> QED
      BY <1>1, <2>1, <2>3 DEF Followed, HasLast
  <1>4. ASSUME NEW s \in known
        PROVE  LastOf(s)' = LastOf(s) /\ FirstOf(s)' = FirstOf(s)
    <2>1. PICK f, l \in Taken : Bounds(s, f, l)
      BY DEF Followed
    <2>2. \A i \in Arrivals(s) : i \in Taken
      BY DEF Arrivals
    <2>3. Min(Arrivals(s)) \in Taken /\ Max(Arrivals(s)) \in Taken
      <3>1. \E x \in Arrivals(s) : \A y \in Arrivals(s) : x <= y
        BY <2>1 DEF Bounds
      <3>2. \E x \in Arrivals(s) : \A y \in Arrivals(s) : x >= y
        BY <2>1 DEF Bounds
      <3> QED
        BY <2>2, <3>1, <3>2 DEF Min, Max
    <2> QED
      BY <1>1, <2>3 DEF LastOf, FirstOf
  <1>5. \A c : Reached(c)' = Reached(c) /\ Before(c)' = Before(c)
    BY <1>4 DEF Reached, Before
  <1>6. ASSUME NEW c PROVE Moves(c)' = Moves(c)
    <2>1. \A i \in Taken : Earlier(i)' = Earlier(i) /\ Earlier(i) \subseteq Taken
      BY <1>1 DEF Earlier, Arrivals
    <2>2. ASSUME NEW i \in Taken, StreamOf(origin[i]) \in known, Earlier(i) # {}
          PROVE  Max(Earlier(i)) \in Taken
      <3>1. HasLast(Earlier(i))
        BY <2>2 DEF Followed
      <3>2. Max(Earlier(i)) \in Earlier(i)
        BY <3>1 DEF HasLast, Max
      <3> QED
        BY <2>1, <3>2
    <2> QED
      BY <2>1, <2>2 DEF Moves
  <1> QED
    BY <1>3, <1>5, <1>6 DEF Balanced

(* A control message counts in no stream.                                  *)
LEMMA BalanceSpecial ==
  ASSUME Carries, Followed, Balanced, SortSpecial, UNCHANGED netVars
  PROVE  Followed' /\ Balanced'
  <1>0. PICK s, a : s = StreamOf(msg) /\ a = arrived
    OBVIOUS
  <1>1. /\ Sorting /\ ~Sorting' /\ UNCHANGED <<origin, arrived>>
        /\ known' = known /\ seq_in' = seq_in /\ stat' = stat
    BY SpecialFacts DEF SortSpecial, netVars
  <1>2. s \notin known /\ ~(s[2] > MAXSPECIALPORT)
    <2>1. ~(s[2] > MAXSPECIALPORT) /\ s \in Stream
      BY <1>0, BufferFacts, SorterAssumption DEF Carries, SortSpecial, IsSpecial, StreamOf
    <2> QED
      BY <2>1 DEF Followed
  <1>3. /\ Taken' = Taken \cup {a} /\ a \notin Taken
        /\ StreamOf(origin[a]) = s
    BY <1>0, <1>1, SortingTakes
  <1>4. /\ \A x : x # s => Arrivals(x)' = Arrivals(x)
        /\ \A i \in Taken : Earlier(i)' = Earlier(i)
    BY <1>0, <1>1, ArrivalsGrow
  <1>5. \A x \in known : \A f, l : Bounds(x, f, l)' <=> Bounds(x, f, l)
    BY <1>2, <1>4 DEF Bounds
  <1>6. Followed'
    <2>1. \A x \in Stream : x \in known <=> x[2] > MAXSPECIALPORT /\ Arrivals(x)' # {}
      BY <1>2, <1>4 DEF Followed
    <2>2. \A x \in known : \E f, l \in Taken' : Bounds(x, f, l)' /\ seq_in[x] = origin[l].seq
      BY <1>3, <1>5 DEF Followed
    <2>3. \A i \in Taken' : StreamOf(origin[i]) \in known /\ Earlier(i)' # {}
                           => HasLast(Earlier(i)')
      BY <1>2, <1>3, <1>4 DEF Followed
    <2>4. IsFiniteSet(known) /\ known \subseteq Stream
      BY DEF Followed
    <2> QED
      BY <1>1, <2>1, <2>2, <2>3, <2>4 DEF Followed, HasLast
  <1>7. \A x \in known : LastOf(x)' = LastOf(x) /\ FirstOf(x)' = FirstOf(x)
    BY <1>1, <1>2, <1>4 DEF LastOf, FirstOf
  <1>8. \A c : Reached(c)' = Reached(c) /\ Before(c)' = Before(c)
    BY <1>1, <1>7 DEF Reached, Before
  <1>9. \A c : Moves(c)' = Moves(c)
    BY <1>1, <1>2, <1>3, <1>4 DEF Moves
  <1> QED
    BY <1>1, <1>6, <1>8, <1>9 DEF Balanced

LEMMA BalanceProcess ==
  ASSUME Carries, Traced, Near, Followed, Balanced, RecvNothing \/ process,
         UNCHANGED netVars
  PROVE  Followed' /\ Balanced'
  <1>1. /\ origin' = origin /\ arrived' = arrived /\ TypeOK /\ NetInv
        /\ stat \in [Cid -> Stat]
    BY ProcessKeepsArrived, SequenceFacts DEF netVars, Carries
  <1>2. ~Consumed(msg).valid /\ ~Consumed(buf1).valid /\ ~Consumed(buf2).valid
    BY <1>1, ConsumedFacts, BufferFacts
  <1>3. ASSUME ~Sorting, ~Sorting' PROVE Taken' = Taken
    BY <1>1, <1>3 DEF Taken
  <1>4. ASSUME NEW b \in {msg, buf1, buf2}, NEW st \in [Cid -> Stat], HandOut(b, st)
        PROVE  \A c \in Cid : stat'[c].lost = st[c].lost
    <2>1. stat' = [st EXCEPT ![b.cid].seqerr_out = @ + One(Delta(seq_out, b) < 0)]
      BY <1>4 DEF HandOut
    <2> QED
      BY <1>1, <2>1, BufferFacts DEF Stat
  <1>5. ASSUME Sorting, ~IsSpecial, TakeIn, ~Sorting',
               NEW st, st = [stat EXCEPT ![msg.cid] = CountIn(@)],
               \A c \in Cid : stat'[c].lost = st[c].lost
        PROVE  Followed' /\ Balanced'
    <2>1. \A c \in Cid : stat'[c].lost = IF c = msg.cid THEN CountIn(stat[c]).lost
                                         ELSE stat[c].lost
      BY <1>1, <1>5
    <2> QED
      BY <1>1, <1>5, <2>1, FollowedTakeIn, BalancedTakeIn
  <1>6. TakeIn => [stat EXCEPT ![msg.cid] = CountIn(@)] \in [Cid -> Stat]
    BY <1>1, TakeInType
  <1>7. CASE RecvNothing
    <2>1. ~Sorting /\ ~Sorting'
      BY <1>7 DEF RecvNothing, Sorting
    <2> QED
      BY <1>1, <1>3, <1>7, <2>1, BalanceStays DEF RecvNothing
  <1>8. CASE SortSpecial
    BY <1>8, BalanceSpecial
  <1>9. CASE SortHold
    <2>1. ~Sorting'
      BY <1>9 DEF SortHold, Sorting
    <2> QED
      BY <1>5, <1>9, <2>1 DEF SortHold
  <1>10. CASE SortRelease
    <2>1. ~Sorting'
      BY <1>10 DEF SortRelease, Sorting
    <2> QED
      BY <1>4, <1>5, <1>6, <1>10, <2>1 DEF SortRelease
  <1>11. CASE SortPass
    <2>1. ~Sorting'
      BY <1>2, <1>11 DEF SortPass, Sorting, Pointee
    <2> QED
      BY <1>4, <1>5, <1>6, <1>11, <2>1 DEF SortPass
  <1>12. CASE DrainBuf1
    <2>1. ~Sorting /\ ~Sorting'
      BY <1>12 DEF DrainBuf1, Draining, Sorting
    <2> QED
      BY <1>1, <1>3, <1>4, <1>12, <2>1, BalanceStays DEF DrainBuf1
  <1>13. CASE DrainBuf2
    <2>1. ~Sorting /\ ~Sorting'
      BY <1>13 DEF DrainBuf2, Draining, Sorting
    <2> QED
      BY <1>1, <1>3, <1>4, <1>13, <2>1, BalanceStays DEF DrainBuf2
  <1>14. CASE SortDone
    <2>1. ~Sorting /\ ~Sorting'
      BY <1>14 DEF SortDone, Draining, Sorting
    <2> QED
      BY <1>1, <1>3, <1>14, <2>1, BalanceStays DEF SortDone
  <1> QED
    BY <1>7, <1>8, <1>9, <1>10, <1>11, <1>12, <1>13, <1>14 DEF process

LEMMA BalanceRecv ==
  ASSUME NetInv, Followed, Balanced, NEW k \in Packet,
         Recv(k.cid, k.destport, k.seq), origin' = Append(origin, k)
  PROVE  Followed' /\ Balanced'
  <1>1. /\ arrived' = arrived + 1 /\ arrived \in Nat
        /\ \A i \in 1 .. arrived : origin'[i] = origin[i]
    BY ArrivalFacts
  <1>2. ~Sorting /\ Sorting'
    BY DEF Recv, Sorting, Pointee, Unpacked
  <1>3. Taken' = Taken /\ Taken = 1 .. arrived
    BY <1>1, <1>2 DEF Taken
  <1> QED
    BY <1>1, <1>3, BalanceStays DEF Recv

LEMMA BalanceNext ==
  ASSUME Carries, Traced, Near, Followed, Balanced, [NetNext]_allVars
  PROVE  Followed' /\ Balanced'
  <1>1. CASE UNCHANGED <<vars, origin>>
    BY <1>1, BalanceStays DEF vars, Taken, Sorting, Pointee
  <1>2. ASSUME NEW s, PackMsg(s[1], s[2]) PROVE Followed' /\ Balanced'
    BY <1>1, <1>2 DEF PackMsg
  <1>3. ASSUME NEW k \in net.stray, Stray(k) PROVE Followed' /\ Balanced'
    BY <1>3, NetFacts, BalanceRecv DEF Stray, Carries, NetInv, NetTypeOK
  <1>4. ASSUME NEW k \in inflight, Arrive(k) PROVE Followed' /\ Balanced'
    BY <1>4, BalanceRecv DEF Arrive, Carries, NetInv, NetTypeOK
  <1>5. ASSUME NEW k \in inflight, Lose(k) PROVE Followed' /\ Balanced'
    BY <1>1, <1>5 DEF Lose
  <1>6. CASE UNCHANGED allVars
    BY <1>1, <1>6 DEF allVars, netVars
  <1> QED
    BY <1>2, <1>3, <1>4, <1>5, <1>6, BalanceProcess DEF NetNext

LEMMA BalanceInit == NetInit => Followed /\ Balanced
  <1> SUFFICES ASSUME NetInit PROVE Followed /\ Balanced
    OBVIOUS
  <1>1. known = {} /\ arrived = 0 /\ ~Sorting
    BY DEF NetInit, Init, Sorting
  <1>2. Taken = {}
    BY <1>1 DEF Taken
  <1>3. Followed
    BY <1>1, <1>2, FS_EmptySet DEF Followed, Arrivals
  <1>4. \A c \in Cid : stat[c].lost = 0
    BY DEF NetInit, Init, NoStat
  <1>5. \A c : Reached(c) = {} /\ Before(c) = {} /\ Moves(c) = {}
    BY <1>1, <1>2 DEF Reached, Before, Moves
  <1> QED
    BY <1>3, <1>4, <1>5, FS_EmptySet DEF Balanced

BalanceInv ==
  NoJump => Traced /\ Close /\ Near /\ Followed /\ Balanced

(* The lost counter of a device is the span of the numbers that came minus *)
(* the packets, whatever is lost, repeated, reordered or wrapped           *)
(* (ovboxclient.cc:691-692).                                               *)
THEOREM LostIsGapBalanceHolds == NetSpec => []LostIsGapBalance
  <1>1. NetInit => BalanceInv
    BY TracedInit, CloseInit, NearInit, BalanceInit DEF BalanceInv
  <1>2. Carries /\ GoneInv /\ BalanceInv /\ [NetNext]_allVars => BalanceInv'
    <2> SUFFICES ASSUME Carries, GoneInv, BalanceInv, [NetNext]_allVars, NoJump'
                 PROVE  Traced' /\ Close' /\ Near' /\ Followed' /\ Balanced'
      BY DEF BalanceInv
    <2>1. NoJump /\ net.stray = {} /\ GoneByLoss /\ NetInv
      BY NetStays DEF NoJump, GoneInv, Carries
    <2>2. Traced /\ Close /\ Near /\ Followed /\ Balanced
      BY <2>1 DEF BalanceInv
    <2> QED
      BY <2>1, <2>2, TracedNext, CloseNext, NearNext, BalanceNext
  <1>3. BalanceInv => LostIsGapBalance
    BY DEF BalanceInv, Balanced, LostIsGapBalance
  <1> QED
    BY <1>1, <1>2, <1>3, CarriesInvariant, GoneInvariant, PTL DEF NetSpec
=============================================================================
