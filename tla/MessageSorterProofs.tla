------------------------ MODULE MessageSorterProofs ------------------------
(***************************************************************************)
(* Theorems about the packet sorter, for every set of devices and ports,   *)
(* every width of the sequence numbers and any number of datagrams.        *)
(***************************************************************************)
EXTENDS MessageSorter, TLAPS

(* A conversion to sequence_t and the difference of two numbers are ints.  *)
LEMMA WrapIsInt == ASSUME NEW x \in Int PROVE Wrap(x) \in Int
  BY SorterAssumption DEF Wrap

LEMMA DeltaIsInt ==
  ASSUME NEW seq \in [Stream -> SeqNum], NEW b \in MsgBuf
  PROVE  Delta(seq, b) \in Int
  <1>1. StreamOf(b) \in Stream /\ b.seq \in SeqNum
    BY DEF MsgBuf, StreamOf, Stream
  <1>2. b.seq - seq[StreamOf(b)] \in Int
    BY <1>1, SorterAssumption DEF SeqNum
  <1> QED
    BY <1>2, WrapIsInt DEF Delta

(* Counting a message in or out keeps the statistics well typed.           *)
LEMMA CountInType ==
  ASSUME TypeOK, NEW st \in Stat PROVE CountIn(st) \in Stat
  <1>1. DSeqIn \in Int
    BY DeltaIsInt DEF TypeOK, DSeqIn
  <1>2. One(DSeqIn < 0) \in Nat
    BY DEF One
  <1>3. st.lost + DSeqIn - 1 \in Int /\ st.received + 1 \in Nat
    BY <1>1 DEF Stat
  <1>4. st.seqerr_in + One(DSeqIn < 0) \in Nat
    BY <1>2 DEF Stat
  <1> QED
    BY <1>3, <1>4 DEF CountIn, Stat

LEMMA HandOutType ==
  ASSUME TypeOK, NEW b \in MsgBuf, NEW st \in [Cid -> Stat],
         b.id \in 1 .. arrived, arrived' = arrived, HandOut(b, st)
  PROVE  /\ seq_out' \in [Stream -> SeqNum]
         /\ stat' \in [Cid -> Stat]
         /\ delivered' \subseteq 1 .. arrived'
  <1>1. b.cid \in Cid /\ b.seq \in SeqNum /\ StreamOf(b) \in Stream
    BY DEF MsgBuf, StreamOf, Stream
  <1>2. seq_out' \in [Stream -> SeqNum]
    BY <1>1 DEF HandOut, TypeOK
  <1>3. Delta(seq_out, b) \in Int
    BY DeltaIsInt DEF TypeOK
  <1>4. st[b.cid].seqerr_out + One(Delta(seq_out, b) < 0) \in Nat
    BY <1>1, <1>3 DEF Stat, One
  <1>5. [st[b.cid] EXCEPT !.seqerr_out = @ + One(Delta(seq_out, b) < 0)] \in Stat
    BY <1>1, <1>4 DEF Stat
  <1>6. stat' \in [Cid -> Stat]
    BY <1>1, <1>5 DEF HandOut
  <1> QED
    BY <1>2, <1>6 DEF HandOut, TypeOK

(***************************************************************************)
(* The inductive invariant.  Buffers says, for each position of the loop,  *)
(* which buffers are in use and which arrivals they hold: buf2 is only in  *)
(* use between handing out buf1 and draining buf2, and what waits in buf1  *)
(* is the arrival just before the one being sorted.                        *)
(***************************************************************************)
Buffers ==
  /\ pc = "recv" => ~buf2.valid /\ (buf1.valid => buf1.id = arrived)
  /\ pc = "sort" /\ pmsg = "msg" =>
       /\ ~buf2.valid
       /\ msg.valid => msg.id = arrived
       /\ buf1.valid => buf1.id = arrived - 1
  /\ pc = "sort" /\ pmsg = "buf1" =>
       ~buf1.valid /\ (buf2.valid => buf2.id = arrived)
  /\ pc = "sort" /\ pmsg = "buf2" => ~buf1.valid /\ ~buf2.valid

IInv == TypeOK /\ Buffers /\ Conservation

LEMMA IInvInit == Init => IInv
  <1> SUFFICES ASSUME Init PROVE IInv
    OBVIOUS
  <1>1. NoMsg \in MsgBuf /\ NoStat \in Stat
    BY SorterAssumption DEF NoMsg, MsgBuf, SeqNum, NoStat, Stat
  <1>2. TypeOK
    BY <1>1, SorterAssumption DEF Init, TypeOK, SeqNum
  <1>3. Buffers
    BY DEF Init, Buffers, NoMsg
  <1>4. Conservation
    BY DEF Init, Conservation, Pending, Sorting, Pointee, NoMsg
  <1> QED
    BY <1>2, <1>3, <1>4 DEF IInv

LEMMA IInvRecv ==
  ASSUME IInv, NEW c \in Cid, NEW p \in Port, NEW s \in SeqNum, Recv(c, p, s)
  PROVE  IInv'
  <1> USE DEF IInv
  <1>1. TypeOK'
    <2>1. msg' \in MsgBuf
      BY DEF Recv, Unpacked, MsgBuf, TypeOK
    <2> QED
      BY <2>1, SorterAssumption DEF Recv, TypeOK
  <1>2. Buffers'
    BY DEF Recv, Unpacked, Buffers, TypeOK
  <1>3. Conservation'
    <2>1. Pending' = Pending \cup {arrived + 1}
      BY DEF Pending, Sorting, Pointee, Recv, Unpacked
    <2>2. Pending \subseteq 1 .. arrived
      BY DEF Conservation
    <2>3. 1 .. arrived' = (1 .. arrived) \cup {arrived + 1}
      BY DEF Recv, TypeOK
    <2> QED
      BY <2>1, <2>2, <2>3 DEF Recv, Conservation, TypeOK
  <1> QED
    BY <1>1, <1>2, <1>3

LEMMA IInvRecvNothing == ASSUME IInv, RecvNothing PROVE IInv'
  <1> USE DEF IInv
  <1>1. TypeOK'
    BY DEF RecvNothing, Consumed, TypeOK, MsgBuf
  <1>2. Buffers'
    BY DEF RecvNothing, Buffers
  <1>3. Pending' = Pending
    BY DEF Pending, Sorting, Pointee, RecvNothing
  <1>4. Conservation'
    BY <1>3 DEF Conservation, RecvNothing
  <1> QED
    BY <1>1, <1>2, <1>4

(* What the position of the loop says about the message being sorted.      *)
LEMMA SortingFacts ==
  ASSUME IInv, Sorting
  PROVE  /\ pc = "sort" /\ pmsg = "msg" /\ msg.valid /\ ~buf2.valid
         /\ msg.id = arrived /\ msg.id \in 1 .. arrived
         /\ buf1.valid => buf1.id = arrived - 1 /\ buf1.id \in 1 .. arrived
         /\ Pending = {msg.id} \cup (IF buf1.valid THEN {buf1.id} ELSE {})
  <1>1. pc = "sort" /\ pmsg = "msg" /\ msg.valid
    BY DEF Sorting, Pointee
  <1>2. ~buf2.valid /\ msg.id = arrived /\ (buf1.valid => buf1.id = arrived - 1)
    BY <1>1 DEF IInv, Buffers
  <1>3. Pending = {msg.id} \cup (IF buf1.valid THEN {buf1.id} ELSE {})
    BY <1>2 DEF Pending
  <1>4. Pending \subseteq 1 .. arrived
    BY DEF IInv, Conservation
  <1> QED
    BY <1>1, <1>2, <1>3, <1>4

(* Taking a message in keeps the receive side and the statistics typed.    *)
LEMMA TakeInType ==
  ASSUME TypeOK, TakeIn
  PROVE  /\ known' \subseteq Stream
         /\ seq_in' \in [Stream -> SeqNum]
         /\ [stat EXCEPT ![msg.cid] = CountIn(@)] \in [Cid -> Stat]
  <1>1. msg.cid \in Cid /\ msg.seq \in SeqNum /\ StreamOf(msg) \in Stream
    BY DEF TypeOK, MsgBuf, StreamOf, Stream
  <1>2. CountIn(stat[msg.cid]) \in Stat
    BY <1>1, CountInType DEF TypeOK
  <1> QED
    BY <1>1, <1>2 DEF TakeIn, TypeOK

LEMMA ConsumedType == ASSUME NEW b \in MsgBuf
                      PROVE  Consumed(b) \in MsgBuf /\ ~Consumed(b).valid
                             /\ Consumed(b).id = b.id
  BY DEF Consumed, MsgBuf

LEMMA IInvSortSpecial == ASSUME IInv, SortSpecial PROVE IInv'
  <1>1. /\ pc = "sort" /\ pmsg = "msg" /\ msg.valid /\ ~buf2.valid
        /\ msg.id = arrived /\ msg.id \in 1 .. arrived
        /\ buf1.valid => buf1.id = arrived - 1 /\ buf1.id \in 1 .. arrived
        /\ Pending = {msg.id} \cup (IF buf1.valid THEN {buf1.id} ELSE {})
    BY SortingFacts DEF SortSpecial
  <1>2. msg' \in MsgBuf /\ ~msg'.valid
    BY ConsumedType DEF SortSpecial, IInv, TypeOK
  <1>3. TypeOK'
    BY <1>1, <1>2 DEF SortSpecial, IInv, TypeOK
  <1>4. Buffers'
    BY <1>1, <1>2 DEF SortSpecial, Buffers
  <1>5. Pending' = IF buf1.valid THEN {buf1.id} ELSE {}
    BY <1>1, <1>2 DEF Pending, Sorting, Pointee, SortSpecial
  <1>6. Conservation'
    BY <1>1, <1>5 DEF Conservation, SortSpecial, IInv, TypeOK
  <1> QED
    BY <1>3, <1>4, <1>6 DEF IInv

LEMMA IInvSortHold == ASSUME IInv, SortHold PROVE IInv'
  <1>1. /\ pc = "sort" /\ pmsg = "msg" /\ msg.valid /\ ~buf2.valid
        /\ msg.id = arrived /\ msg.id \in 1 .. arrived
        /\ buf1.valid => buf1.id = arrived - 1 /\ buf1.id \in 1 .. arrived
        /\ Pending = {msg.id} \cup (IF buf1.valid THEN {buf1.id} ELSE {})
    BY SortingFacts DEF SortHold
  <1>2. msg' \in MsgBuf /\ ~msg'.valid /\ msg'.id = msg.id
    BY ConsumedType DEF SortHold, IInv, TypeOK
  <1>3. TypeOK'
    <2>1. /\ known' \subseteq Stream
          /\ seq_in' \in [Stream -> SeqNum]
          /\ stat' \in [Cid -> Stat]
      BY TakeInType DEF SortHold, IInv
    <2> QED
      BY <1>1, <1>2, <2>1 DEF SortHold, IInv, TypeOK
  <1>4. Buffers'
    BY <1>1 DEF SortHold, Buffers
  <1>5. Pending' = {msg.id}
    BY <1>1, <1>2 DEF Pending, Sorting, SortHold
  <1>6. buf1.valid => buf1.id # msg.id
    BY <1>1 DEF IInv, TypeOK
  <1>7. Conservation'
    BY <1>1, <1>5, <1>6 DEF Conservation, SortHold, IInv, TypeOK
  <1> QED
    BY <1>3, <1>4, <1>7 DEF IInv

LEMMA IInvSortRelease == ASSUME IInv, SortRelease PROVE IInv'
  <1>1. /\ pc = "sort" /\ pmsg = "msg" /\ msg.valid /\ ~buf2.valid
        /\ msg.id = arrived /\ msg.id \in 1 .. arrived
        /\ buf1.valid => buf1.id = arrived - 1 /\ buf1.id \in 1 .. arrived
        /\ Pending = {msg.id} \cup (IF buf1.valid THEN {buf1.id} ELSE {})
    BY SortingFacts DEF SortRelease
  <1>2. buf1.valid /\ buf1' \in MsgBuf /\ ~buf1'.valid
    BY ConsumedType DEF SortRelease, ReleaseFirst, IInv, TypeOK
  <1>3. TypeOK'
    <2> DEFINE counted == [stat EXCEPT ![msg.cid] = CountIn(@)]
    <2>1. /\ known' \subseteq Stream
          /\ seq_in' \in [Stream -> SeqNum]
          /\ counted \in [Cid -> Stat]
      BY TakeInType DEF SortRelease, IInv
    <2>2. HandOut(buf1, counted) /\ buf1 \in MsgBuf /\ arrived' = arrived
      BY DEF SortRelease, IInv, TypeOK
    <2> HIDE DEF counted
    <2>3. /\ seq_out' \in [Stream -> SeqNum]
          /\ stat' \in [Cid -> Stat]
          /\ delivered' \subseteq 1 .. arrived'
      BY <1>1, <1>2, <2>1, <2>2, HandOutType DEF IInv
    <2> QED
      BY <1>1, <1>2, <2>1, <2>3 DEF SortRelease, IInv, TypeOK
  <1>4. Buffers'
    BY <1>1, <1>2 DEF SortRelease, Buffers
  <1>5. Pending' = {msg.id}
    BY <1>1, <1>2 DEF Pending, Sorting, SortRelease
  <1>6. Conservation'
    BY <1>1, <1>2, <1>5 DEF Conservation, SortRelease, HandOut, IInv, TypeOK
  <1> QED
    BY <1>3, <1>4, <1>6 DEF IInv

LEMMA IInvSortPass == ASSUME IInv, SortPass PROVE IInv'
  <1>1. /\ pc = "sort" /\ pmsg = "msg" /\ msg.valid /\ ~buf2.valid
        /\ msg.id = arrived /\ msg.id \in 1 .. arrived
        /\ buf1.valid => buf1.id = arrived - 1 /\ buf1.id \in 1 .. arrived
        /\ Pending = {msg.id} \cup (IF buf1.valid THEN {buf1.id} ELSE {})
    BY SortingFacts DEF SortPass
  <1>2. msg' \in MsgBuf /\ ~msg'.valid
    BY ConsumedType DEF SortPass, IInv, TypeOK
  <1>3. TypeOK'
    <2> DEFINE counted == [stat EXCEPT ![msg.cid] = CountIn(@)]
    <2>1. /\ known' \subseteq Stream
          /\ seq_in' \in [Stream -> SeqNum]
          /\ counted \in [Cid -> Stat]
      BY TakeInType DEF SortPass, IInv
    <2>2. HandOut(msg, counted) /\ msg \in MsgBuf /\ arrived' = arrived
      BY DEF SortPass, IInv, TypeOK
    <2> HIDE DEF counted
    <2>3. /\ seq_out' \in [Stream -> SeqNum]
          /\ stat' \in [Cid -> Stat]
          /\ delivered' \subseteq 1 .. arrived'
      BY <1>1, <2>1, <2>2, HandOutType DEF IInv
    <2> QED
      BY <1>1, <1>2, <2>1, <2>3 DEF SortPass, IInv, TypeOK
  <1>4. Buffers'
    BY <1>1, <1>2 DEF SortPass, Buffers
  <1>5. Pending' = IF buf1.valid THEN {buf1.id} ELSE {}
    BY <1>1, <1>2 DEF Pending, Sorting, Pointee, SortPass
  <1>6. Conservation'
    BY <1>1, <1>5 DEF Conservation, SortPass, HandOut, IInv, TypeOK
  <1> QED
    BY <1>3, <1>4, <1>6 DEF IInv

(* While draining, buf1 is only still valid when pmsg has not moved yet.   *)
LEMMA DrainingFacts ==
  ASSUME IInv, Draining
  PROVE  /\ pc = "sort"
         /\ Pending = (IF buf1.valid THEN {buf1.id} ELSE {})
                         \cup (IF buf2.valid THEN {buf2.id} ELSE {})
         /\ Pending \subseteq 1 .. arrived
         /\ buf1.valid => pmsg = "msg" /\ ~buf2.valid
         /\ pmsg = "msg" => ~msg.valid /\ ~buf2.valid
  <1>1. pc = "sort" /\ ~Pointee.valid
    BY DEF Draining
  <1>2. Pending = (IF buf1.valid THEN {buf1.id} ELSE {})
                         \cup (IF buf2.valid THEN {buf2.id} ELSE {})
    BY <1>1 DEF Pending, Sorting
  <1>3. Pending \subseteq 1 .. arrived
    BY DEF IInv, Conservation
  <1>4. buf1.valid => pmsg = "msg" /\ ~buf2.valid
    BY <1>1 DEF IInv, Buffers, TypeOK
  <1>5. pmsg = "msg" => ~msg.valid /\ ~buf2.valid
    BY <1>1 DEF IInv, Buffers, Pointee
  <1> QED
    BY <1>1, <1>2, <1>3, <1>4, <1>5

LEMMA IInvDrainBuf1 == ASSUME IInv, DrainBuf1 PROVE IInv'
  <1>1. /\ pc = "sort"
        /\ Pending = {buf1.id} /\ Pending \subseteq 1 .. arrived
        /\ pmsg = "msg" /\ ~buf2.valid /\ ~msg.valid
    BY DrainingFacts DEF DrainBuf1
  <1>2. buf1' \in MsgBuf /\ ~buf1'.valid
    BY ConsumedType DEF DrainBuf1, IInv, TypeOK
  <1>3. /\ seq_out' \in [Stream -> SeqNum]
        /\ stat' \in [Cid -> Stat]
        /\ delivered' \subseteq 1 .. arrived'
    BY <1>1, HandOutType DEF DrainBuf1, IInv, TypeOK
  <1>4. TypeOK'
    BY <1>2, <1>3 DEF DrainBuf1, IInv, TypeOK
  <1>5. Buffers'
    BY <1>1, <1>2 DEF DrainBuf1, Buffers
  <1>6. Pending' = {}
    BY <1>1, <1>2 DEF Pending, Sorting, Pointee, DrainBuf1
  <1>7. Conservation'
    BY <1>1, <1>6 DEF Conservation, DrainBuf1, HandOut, IInv, TypeOK
  <1> QED
    BY <1>4, <1>5, <1>7 DEF IInv

LEMMA IInvDrainBuf2 == ASSUME IInv, DrainBuf2 PROVE IInv'
  <1>1. /\ pc = "sort" /\ ~buf1.valid
        /\ Pending = {buf2.id} /\ Pending \subseteq 1 .. arrived
    BY DrainingFacts DEF DrainBuf2
  <1>2. buf2' \in MsgBuf /\ ~buf2'.valid
    BY ConsumedType DEF DrainBuf2, IInv, TypeOK
  <1>3. /\ seq_out' \in [Stream -> SeqNum]
        /\ stat' \in [Cid -> Stat]
        /\ delivered' \subseteq 1 .. arrived'
    BY <1>1, HandOutType DEF DrainBuf2, IInv, TypeOK
  <1>4. TypeOK'
    BY <1>2, <1>3 DEF DrainBuf2, IInv, TypeOK
  <1>5. Buffers'
    BY <1>1, <1>2 DEF DrainBuf2, Buffers
  <1>6. Pending' = {}
    BY <1>1, <1>2 DEF Pending, Sorting, Pointee, DrainBuf2
  <1>7. Conservation'
    BY <1>1, <1>6 DEF Conservation, DrainBuf2, HandOut, IInv, TypeOK
  <1> QED
    BY <1>4, <1>5, <1>7 DEF IInv

LEMMA IInvSortDone == ASSUME IInv, SortDone PROVE IInv'
  <1>1. pc = "sort" /\ ~buf1.valid /\ ~buf2.valid /\ Pending = {}
    BY DrainingFacts DEF SortDone
  <1>2. TypeOK'
    BY DEF SortDone, IInv, TypeOK
  <1>3. Buffers'
    BY <1>1 DEF SortDone, Buffers
  <1>4. Pending' = {}
    BY <1>1 DEF Pending, Sorting, SortDone
  <1>5. Conservation'
    BY <1>1, <1>4 DEF Conservation, SortDone, IInv
  <1> QED
    BY <1>2, <1>3, <1>5 DEF IInv

LEMMA IInvNext == IInv /\ [Next]_vars => IInv'
  <1> SUFFICES ASSUME IInv, [Next]_vars PROVE IInv'
    OBVIOUS
  <1>1. ASSUME NEW c \in Cid, NEW p \in Port, NEW s \in SeqNum, Recv(c, p, s)
        PROVE  IInv'
    BY <1>1, IInvRecv
  <1>2. CASE RecvNothing
    BY <1>2, IInvRecvNothing
  <1>3. CASE process
    BY <1>3, IInvSortSpecial, IInvSortHold, IInvSortRelease, IInvSortPass,
       IInvDrainBuf1, IInvDrainBuf2, IInvSortDone DEF process
  <1>4. CASE UNCHANGED vars
    BY <1>4 DEF vars, IInv, TypeOK, Buffers, Conservation, Pending, Sorting,
                Pointee
  <1> QED
    BY <1>1, <1>2, <1>3, <1>4 DEF Next

(* IInv holds in every state of the sorter. *)
THEOREM Invariance == Spec => []IInv
  BY IInvInit, IInvNext, PTL DEF Spec

(* Every variable keeps its type (msgbuf_t, sequence_map_t and             *)
(* message_stat_t in ovboxclient.h:54-78).                                 *)
THEOREM TypeCorrect == Spec => []TypeOK
  <1>1. IInv => TypeOK
    BY DEF IInv
  <1> QED
    BY <1>1, Invariance, PTL

(* Every received datagram is delivered once, dropped once or pending.     *)
THEOREM NothingVanishes == Spec => []Conservation
  <1>1. IInv => Conservation
    BY DEF IInv
  <1> QED
    BY <1>1, Invariance, PTL

(* A message is held for at most one further datagram, and the second      *)
(* buffer is empty whenever the thread waits for the network.              *)
THEOREM OneHeld == Spec => []HeldIsNewest
  <1>1. IInv => HeldIsNewest
    BY DEF IInv, Buffers, HeldIsNewest
  <1> QED
    BY <1>1, Invariance, PTL

(* process() never treats a leftover of buf1 or buf2 as a new message.     *)
THEOREM PointersSafe == Spec => []PointerDiscipline
  <1>1. IInv => PointerDiscipline
    BY DEF IInv, TypeOK, Buffers, PointerDiscipline, Pointee
  <1> QED
    BY <1>1, Invariance, PTL

----------------------------------------------------------------------------
(* The messages open in the abstract buffer are the pending ones.          *)
LEMMA OpenIsPending == IInv => Abs!Open = Pending
  BY DEF IInv, Conservation, Abs!Open

LEMMA RecvRefines ==
  ASSUME IInv, NEW c \in Cid, NEW p \in Port, NEW s \in SeqNum, Recv(c, p, s)
  PROVE  Abs!Accept
  <1>1. Pending \subseteq {arrived}
    BY DEF Pending, Sorting, Recv, IInv, Buffers
  <1> QED
    BY <1>1, OpenIsPending DEF Abs!Accept, Recv

LEMMA HoldRefines == ASSUME IInv, SortHold PROVE [Abs!Next]_(Abs!vars)
  <1>1. Pending = {msg.id} \cup (IF buf1.valid THEN {buf1.id} ELSE {})
        /\ msg.id = arrived /\ (buf1.valid => buf1.id = arrived - 1)
    BY SortingFacts DEF SortHold
  <1>2. CASE buf1.valid
    <2>1. Abs!Open = {arrived - 1, arrived}
      BY <1>1, <1>2, OpenIsPending
    <2>2. Abs!GiveUp
      BY <1>1, <1>2, <2>1 DEF SortHold, Abs!GiveUp
    <2> QED
      BY <2>2 DEF Abs!Next
  <1>3. CASE ~buf1.valid
    BY <1>3 DEF SortHold, Abs!vars
  <1> QED
    BY <1>2, <1>3

(* Every step that hands a pending message out is an abstract HandOut.     *)
LEMMA HandOutRefines ==
  ASSUME IInv, NEW n \in Pending, delivered' = delivered \cup {n},
         UNCHANGED <<arrived, dropped>>
  PROVE  Abs!Next
  BY OpenIsPending DEF Abs!HandOut, Abs!Next

LEMMA StepRefines == IInv /\ [Next]_vars => [Abs!Next]_(Abs!vars)
  <1> SUFFICES ASSUME IInv, [Next]_vars PROVE [Abs!Next]_(Abs!vars)
    OBVIOUS
  <1>1. ASSUME NEW c \in Cid, NEW p \in Port, NEW s \in SeqNum, Recv(c, p, s)
        PROVE  Abs!Next
    BY <1>1, RecvRefines DEF Abs!Next
  <1>2. CASE RecvNothing
    BY <1>2 DEF RecvNothing, Abs!vars
  <1>3. CASE SortSpecial
    <2>1. msg.id \in Pending
      BY <1>3 DEF SortSpecial, Pending
    <2> QED
      BY <1>3, <2>1, HandOutRefines DEF SortSpecial
  <1>4. CASE SortHold
    BY <1>4, HoldRefines
  <1>5. CASE SortRelease
    <2>1. buf1.id \in Pending
      BY <1>5 DEF SortRelease, ReleaseFirst, Pending
    <2> QED
      BY <1>5, <2>1, HandOutRefines DEF SortRelease, HandOut
  <1>6. CASE SortPass
    <2>1. msg.id \in Pending
      BY <1>6 DEF SortPass, Pending
    <2> QED
      BY <1>6, <2>1, HandOutRefines DEF SortPass, HandOut
  <1>7. CASE DrainBuf1
    <2>1. buf1.id \in Pending
      BY <1>7 DEF DrainBuf1, Pending
    <2> QED
      BY <1>7, <2>1, HandOutRefines DEF DrainBuf1, HandOut
  <1>8. CASE DrainBuf2
    <2>1. buf2.id \in Pending
      BY <1>8 DEF DrainBuf2, Pending
    <2> QED
      BY <1>8, <2>1, HandOutRefines DEF DrainBuf2, HandOut
  <1>9. CASE SortDone
    BY <1>9 DEF SortDone, Abs!vars
  <1>10. CASE UNCHANGED vars
    BY <1>10 DEF vars, Abs!vars
  <1> QED
    BY <1>1, <1>2, <1>3, <1>4, <1>5, <1>6, <1>7, <1>8, <1>9, <1>10
       DEF Next, process

(* The sorter implements the abstract buffer: every datagram is handed out *)
(* once or given up for its successor, and overtaken by at most one other. *)
THEOREM SorterRefines == Spec => ImplementsReorderBuffer
  <1>1. Init => Abs!Init
    BY DEF Init, Abs!Init
  <1> QED
    BY <1>1, StepRefines, Invariance, PTL DEF Spec, ImplementsReorderBuffer, Abs!Spec

(* No datagram is overtaken by more than one later datagram.               *)
THEOREM BoundedOvertakingHolds == Spec => []Abs!BoundedOvertaking
  <1>1. IInv => Pending \subseteq {arrived - 1, arrived}
    BY DEF IInv, TypeOK, Buffers, Pending, Sorting, Pointee
  <1>2. IInv => Abs!BoundedOvertaking
    BY <1>1, OpenIsPending DEF Abs!BoundedOvertaking
  <1> QED
    BY <1>2, Invariance, PTL
----------------------------------------------------------------------------
(* How far the loop is from its end: the datagram not looked at yet, each  *)
(* of the two buffers in use and the last call, which finds nothing.       *)
LoopLeft ==
  One(pc = "sort") + One(Sorting) + One(buf1.valid) + One(buf2.valid)

(* buf2 is in use only after buf1 and the datagram were dealt with.        *)
LEMMA LoopLeftBounded == IInv => LoopLeft \in 0 .. 3
  <1> SUFFICES ASSUME IInv PROVE LoopLeft \in 0 .. 3
    OBVIOUS
  <1>1. buf1.valid \in BOOLEAN /\ buf2.valid \in BOOLEAN
        /\ msg.valid \in BOOLEAN
    BY DEF IInv, TypeOK, MsgBuf
  <1>2. buf2.valid => ~Sorting /\ ~buf1.valid
    BY DEF IInv, TypeOK, Buffers, Sorting, Pointee
  <1> QED
    BY <1>1, <1>2 DEF LoopLeft, One

(* A call of process() before the last takes one thing off what is left.   *)
LEMMA ProcessDecreases == IInv /\ process => LoopLeft' < LoopLeft
  <1> SUFFICES ASSUME IInv, process PROVE LoopLeft' < LoopLeft
    OBVIOUS
  <1>1. pc = "sort"
    BY DEF process, SortSpecial, SortHold, SortRelease, SortPass, Sorting,
           DrainBuf1, DrainBuf2, SortDone, Draining
  <1>2. buf1.valid \in BOOLEAN /\ buf2.valid \in BOOLEAN
        /\ msg.valid \in BOOLEAN
    BY DEF IInv, TypeOK, MsgBuf
  <1>3. CASE Sorting
    <2>1. ~buf2.valid /\ pmsg = "msg" /\ msg.valid
      BY <1>3, SortingFacts
    <2>2. ~Draining
      BY <1>3 DEF Sorting, Draining
    <2>3. CASE SortSpecial
      <3>1. ~Sorting' /\ UNCHANGED <<pc, buf1, buf2>>
        BY <2>1, <2>3, <1>2 DEF SortSpecial, Sorting, Pointee, Consumed, IInv, TypeOK, MsgBuf
      <3> QED
        BY <3>1, <1>1, <1>2, <1>3 DEF LoopLeft, One
    <2>4. CASE SortHold
      <3>1. pc' = "recv" /\ buf1' = msg /\ buf2' = buf2 /\ ~Sorting'
        BY <2>4 DEF SortHold, Sorting
      <3> QED
        BY <3>1, <2>1, <1>1, <1>2, <1>3 DEF LoopLeft, One
    <2>5. CASE SortRelease
      <3>1. buf1.valid /\ buf2' = msg /\ pc' = pc /\ ~buf1'.valid /\ ~Sorting'
        BY <2>5 DEF SortRelease, ReleaseFirst, Sorting, Pointee, Consumed,
                    IInv, TypeOK, MsgBuf
      <3> QED
        BY <3>1, <2>1, <1>1, <1>2, <1>3 DEF LoopLeft, One
    <2>6. CASE SortPass
      <3>1. ~Sorting' /\ UNCHANGED <<pc, buf1, buf2>>
        BY <2>1, <2>6, <1>2 DEF SortPass, Sorting, Pointee, Consumed, IInv, TypeOK, MsgBuf
      <3> QED
        BY <3>1, <1>1, <1>2, <1>3 DEF LoopLeft, One
    <2> QED
      BY <2>2, <2>3, <2>4, <2>5, <2>6 DEF process, DrainBuf1, DrainBuf2, SortDone
  <1>4. CASE ~Sorting
    <2>1. CASE DrainBuf1
      <3>1. buf1.valid /\ ~buf1'.valid /\ ~Sorting' /\ UNCHANGED <<pc, buf2>>
        BY <2>1 DEF DrainBuf1, Sorting, Consumed, IInv, TypeOK, MsgBuf
      <3> QED
        BY <3>1, <1>1, <1>2, <1>4 DEF LoopLeft, One
    <2>2. CASE DrainBuf2
      <3>1. buf2.valid /\ ~buf2'.valid /\ ~Sorting' /\ UNCHANGED <<pc, buf1>>
        BY <2>2 DEF DrainBuf2, Sorting, Consumed, IInv, TypeOK, MsgBuf
      <3> QED
        BY <3>1, <1>1, <1>2, <1>4 DEF LoopLeft, One
    <2>3. CASE SortDone
      <3>1. pc' = "recv" /\ ~Sorting' /\ UNCHANGED <<buf1, buf2>>
        BY <2>3 DEF SortDone, Sorting
      <3> QED
        BY <3>1, <1>1, <1>2, <1>4 DEF LoopLeft, One
    <2> QED
      BY <1>4, <2>1, <2>2, <2>3
         DEF process, SortSpecial, SortHold, SortRelease, SortPass
  <1> QED
    BY <1>3, <1>4

(* The loop of sendsrv calls process() at most three times per datagram:   *)
(* what is left never exceeds three and every call before the thread is    *)
(* back at the socket takes at least one off (ovboxclient.cc:369-371).     *)
THEOREM LoopBounded ==
  Spec => [](LoopLeft \in 0 .. 3) /\ [][pc = "sort" => LoopLeft' < LoopLeft]_vars
  <1>1. IInv /\ [Next]_vars => [pc = "sort" => LoopLeft' < LoopLeft]_vars
    BY ProcessDecreases DEF Next, Recv, RecvNothing
  <1> QED
    BY <1>1, LoopLeftBounded, Invariance, PTL DEF Spec
=============================================================================
