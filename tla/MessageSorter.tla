--------------------------- MODULE MessageSorter ---------------------------
(***************************************************************************)
(* The packet sorter of an ovbox client (message_sorter_t) and the thread  *)
(* that drives it (ovboxclient_t::sendsrv): every datagram received from   *)
(* the relay server or a peer goes through                                 *)
(*                                                                         *)
(*      msgbuf_t* pmsg(&msg);                                              *)
(*      while(sorter.process(&pmsg)) process_msg( *pmsg);                  *)
(*                                                                         *)
(* One action is one iteration of that loop.  The network is the most      *)
(* general one: any device may deliver any sequence number at any time,    *)
(* which covers loss, duplication, reordering and restarts of the sender.  *)
(*                                                                         *)
(* Two buffers hold back packets: buf1 the packet that opened a gap, buf2  *)
(* the packet that arrived while buf1 is handed out first.  Both are shared*)
(* by the streams of all devices.                                          *)
(***************************************************************************)
EXTENDS Integers, FiniteSets

CONSTANTS
  Cid,            \* device ids seen in received headers; 0 is one of them
  Port,           \* destination ports; 0 is one of them
  MAXSPECIALPORT, \* ports up to this one carry control messages
  Half,           \* sequence_t holds -Half .. Half-1 (2^15 in the code)
  MaxArrived      \* bound: datagrams received in a behaviour

(* With Half = 3 a step of three, which opens a gap, would be one back.     *)
ASSUME SorterAssumption ==
  /\ Cid \subseteq Nat /\ 0 \in Cid
  /\ Port \subseteq Nat /\ 0 \in Port
  /\ MAXSPECIALPORT \in Nat
  /\ Half \in Nat /\ Half >= 4
  /\ MaxArrived \in Nat

VARIABLES
  pc,        \* "recv": blocked in recv_sec_msg; "sort": inside the while loop
  pmsg,      \* which buffer the local pointer pmsg points to
  msg, buf1, buf2,   \* the receive buffer and the two held-back buffers
  known,     \* streams with an entry in seq_in
  seq_in,    \* last sequence number received, 0 for a new entry
  seq_out,   \* last sequence number handed out, 0 for a new entry
  stat,      \* message_stat_t per device
  arrived,   \* history: number of valid datagrams received so far
  delivered, \* history: arrival numbers of the messages given to process_msg
  dropped    \* history: arrival numbers of messages overwritten in buf1

vars == <<pc, pmsg, msg, buf1, buf2, known, seq_in, seq_out, stat,
          arrived, delivered, dropped>>

----------------------------------------------------------------------------
Stream == Cid \X Port

SeqNum == (-Half) .. (Half - 1)

(* Conversion of an int to sequence_t. *)
Wrap(x) == ((x + Half) % (2 * Half)) - Half

MsgBuf == [valid : BOOLEAN, cid : Cid, destport : Port, seq : SeqNum, id : Nat]

(* A default-constructed msgbuf_t. *)
NoMsg == [valid |-> FALSE, cid |-> 0, destport |-> 0, seq |-> 0, id |-> 0]

(* The unpacked form of the n-th datagram.  id stands for its content. *)
Unpacked(c, p, s, n) ==
  [valid |-> TRUE, cid |-> c, destport |-> p, seq |-> s, id |-> n]

Consumed(b) == [b EXCEPT !.valid = FALSE]

StreamOf(b) == <<b.cid, b.destport>>

Stat == [received : Nat, lost : Int, seqerr_in : Nat, seqerr_out : Nat]

NoStat == [received |-> 0, lost |-> 0, seqerr_in |-> 0, seqerr_out |-> 0]

(* The value the pointer argument of process() designates. *)
Pointee == CASE pmsg = "msg" -> msg [] pmsg = "buf1" -> buf1 [] OTHER -> buf2

(* deltaseq and deltaseq_const without their assignment. *)
Delta(seq, b) == Wrap(b.seq - seq[StreamOf(b)])

One(cond) == IF cond THEN 1 ELSE 0

----------------------------------------------------------------------------
Init ==
  /\ pc = "recv"
  /\ pmsg = "msg"
  /\ msg = NoMsg /\ buf1 = NoMsg /\ buf2 = NoMsg
  /\ known = {}
  /\ seq_in = [s \in Stream |-> 0]
  /\ seq_out = [s \in Stream |-> 0]
  /\ stat = [c \in Cid |-> NoStat]
  /\ arrived = 0
  /\ delivered = {}
  /\ dropped = {}

(* recv_sec_msg returns true: the datagram is unpacked into msg, a fresh   *)
(* pmsg points to it and the sorting loop starts.                          *)
Recv(c, p, s) ==
  /\ pc = "recv"
  /\ arrived < MaxArrived
  /\ arrived' = arrived + 1
  /\ msg' = Unpacked(c, p, s, arrived + 1)
  /\ pmsg' = "msg"
  /\ pc' = "sort"
  /\ UNCHANGED <<buf1, buf2, known, seq_in, seq_out, stat, delivered, dropped>>

(* recv_sec_msg returns false: the socket timed out, the datagram is too   *)
(* short or its secret is wrong.  The loop in sendsrv skips the sorter.    *)
RecvNothing ==
  /\ pc = "recv"
  /\ msg' = Consumed(msg)
  /\ UNCHANGED <<pc, pmsg, buf1, buf2, known, seq_in, seq_out, stat,
                 arrived, delivered, dropped>>

----------------------------------------------------------------------------
(* The branches of process().  The first group is taken for a valid message*)
(* (which is then the one just received, see PointerDiscipline).           *)

DSeqIn == Delta(seq_in, msg)
DSeqIo == Delta(seq_out, msg)

(* Control messages are not sorted and not counted. *)
IsSpecial == msg.destport <= MAXSPECIALPORT

(* Mutant: a single missing packet is not waited for. *)
OpensWideGap == DSeqIn > 2 /\ DSeqIo > 2

(* Mutant: a repeated or late packet after a gap is held back, too. *)
OpensAnyGap == DSeqIo > 1

(* Two gaps, against the last received and the last delivered number. *)
OpensGap == DSeqIn > 1 /\ DSeqIo > 1

(* Mutant: the later message goes first. *)
ReleaseLater ==
  /\ DSeqIn < -1 \/ (DSeqIo > 1 /\ DSeqIn > 0)
  /\ buf1.valid
  /\ StreamOf(buf1) = StreamOf(msg)
  /\ buf1.seq > msg.seq

(* buf1 holds an earlier message of the same stream: hand it out first. *)
ReleaseFirst ==
  /\ DSeqIn < -1 \/ (DSeqIo > 1 /\ DSeqIn > 0)
  /\ buf1.valid
  /\ StreamOf(buf1) = StreamOf(msg)
  /\ buf1.seq < msg.seq

(* Mutant: a step backwards is subtracted from the error counter. *)
CountInSigned(st) ==
  [st EXCEPT !.received = @ + 1,
             !.lost = IF DSeqIn # 0 /\ StreamOf(msg) \in known
                      THEN @ + DSeqIn - 1 ELSE @,
             !.seqerr_in = @ + (IF DSeqIn < 0 THEN DSeqIn ELSE 0)]

(* Mutant: a repeated packet counts as lost and as received. *)
CountInRepeated(st) ==
  [st EXCEPT !.received = @ + 1,
             !.lost = IF StreamOf(msg) \in known THEN @ + DSeqIn - 1 ELSE @,
             !.seqerr_in = @ + One(DSeqIn < 0)]

(* The statistics every data message updates on its way in.  lost may      *)
(* become negative: the code's size_t then wraps.                          *)
CountIn(st) ==
  [st EXCEPT !.received = @ + 1,
             !.lost = IF DSeqIn # 0 /\ StreamOf(msg) \in known
                      THEN @ + DSeqIn - 1 ELSE @,
             !.seqerr_in = @ + One(DSeqIn < 0)]

(* Handing message b out: seq_out moves, a step backwards is counted. *)
HandOut(b, st) ==
  /\ seq_out' = [seq_out EXCEPT ![StreamOf(b)] = b.seq]
  /\ stat' = [st EXCEPT ![b.cid].seqerr_out = @ + One(Delta(seq_out, b) < 0)]
  /\ delivered' = delivered \cup {b.id}

Sorting == pc = "sort" /\ Pointee.valid /\ pmsg = "msg"

TakeIn ==
  /\ known' = known \cup {StreamOf(msg)}
  /\ seq_in' = [seq_in EXCEPT ![StreamOf(msg)] = msg.seq]

(* Mutant: the sorting loop ends with a control message. *)
SortSpecialLast ==
  /\ Sorting
  /\ IsSpecial
  /\ msg' = Consumed(msg)
  /\ delivered' = delivered \cup {msg.id}
  /\ pc' = "recv"
  /\ UNCHANGED <<pmsg, buf1, buf2, known, seq_in, seq_out, stat, arrived, dropped>>

SortSpecial ==
  /\ Sorting
  /\ IsSpecial
  /\ msg' = Consumed(msg)
  /\ delivered' = delivered \cup {msg.id}
  /\ UNCHANGED <<pc, pmsg, buf1, buf2, known, seq_in, seq_out, stat,
                 arrived, dropped>>

(* Mutant: a message already held keeps its place in buf1. *)
SortHoldFirst ==
  /\ Sorting
  /\ ~IsSpecial
  /\ OpensGap
  /\ TakeIn
  /\ stat' = [stat EXCEPT ![msg.cid] = CountIn(@)]
  /\ buf1' = IF buf1.valid THEN buf1 ELSE msg
  /\ msg' = Consumed(msg)
  /\ pc' = "recv"
  /\ UNCHANGED <<pmsg, buf2, seq_out, arrived, delivered, dropped>>

(* The message is held back in buf1, whatever buf1 contained; process()    *)
(* returns false and the loop ends.                                        *)
SortHold ==
  /\ Sorting
  /\ ~IsSpecial
  /\ OpensGap
  /\ TakeIn
  /\ stat' = [stat EXCEPT ![msg.cid] = CountIn(@)]
  /\ buf1' = msg
  /\ dropped' = IF buf1.valid THEN dropped \cup {buf1.id} ELSE dropped
  /\ msg' = Consumed(msg)
  /\ pc' = "recv"
  /\ UNCHANGED <<pmsg, buf2, seq_out, arrived, delivered>>

(* The held message goes first, the new one waits in buf2 for the next     *)
(* iteration.                                                              *)
SortRelease ==
  /\ Sorting
  /\ ~IsSpecial
  /\ ~OpensGap
  /\ ReleaseFirst
  /\ TakeIn
  /\ buf2' = msg
  /\ pmsg' = "buf1"
  /\ buf1' = Consumed(buf1)
  /\ HandOut(buf1, [stat EXCEPT ![msg.cid] = CountIn(@)])
  /\ UNCHANGED <<pc, msg, arrived, dropped>>

(* Mutant: the packet that fills a gap does not free the one held back. *)
SortPassOnce ==
  /\ Sorting
  /\ ~IsSpecial
  /\ ~OpensGap
  /\ ~ReleaseFirst
  /\ TakeIn
  /\ msg' = Consumed(msg)
  /\ HandOut(msg, [stat EXCEPT ![msg.cid] = CountIn(@)])
  /\ pc' = "recv"
  /\ UNCHANGED <<pmsg, buf1, buf2, arrived, dropped>>

SortPass ==
  /\ Sorting
  /\ ~IsSpecial
  /\ ~OpensGap
  /\ ~ReleaseFirst
  /\ TakeIn
  /\ msg' = Consumed(msg)
  /\ HandOut(msg, [stat EXCEPT ![msg.cid] = CountIn(@)])
  /\ UNCHANGED <<pc, pmsg, buf1, buf2, arrived, dropped>>

Draining == pc = "sort" /\ ~Pointee.valid

(* Mutant: buf1 is handed out without a change of pmsg and valid. *)
DrainBuf1Again ==
  /\ Draining
  /\ buf1.valid
  /\ HandOut(buf1, stat)
  /\ UNCHANGED <<pc, pmsg, msg, buf1, buf2, known, seq_in, arrived, dropped>>

(* Mutant: buf1 stays valid behind the pointer to it. *)
DrainBuf1Valid ==
  /\ Draining
  /\ buf1.valid
  /\ pmsg' = "buf1"
  /\ HandOut(buf1, stat)
  /\ UNCHANGED <<pc, msg, buf1, buf2, known, seq_in, arrived, dropped>>

DrainBuf1 ==
  /\ Draining
  /\ buf1.valid
  /\ pmsg' = "buf1"
  /\ buf1' = Consumed(buf1)
  /\ HandOut(buf1, stat)
  /\ UNCHANGED <<pc, msg, buf2, known, seq_in, arrived, dropped>>

DrainBuf2 ==
  /\ Draining
  /\ ~buf1.valid
  /\ buf2.valid
  /\ pmsg' = "buf2"
  /\ buf2' = Consumed(buf2)
  /\ HandOut(buf2, stat)
  /\ UNCHANGED <<pc, msg, buf1, known, seq_in, arrived, dropped>>

(* process() finds nothing and returns false. *)
SortDone ==
  /\ Draining
  /\ ~buf1.valid
  /\ ~buf2.valid
  /\ pc' = "recv"
  /\ UNCHANGED <<pmsg, msg, buf1, buf2, known, seq_in, seq_out, stat,
                 arrived, delivered, dropped>>

process ==
  \/ SortSpecial \/ SortHold \/ SortRelease \/ SortPass
  \/ DrainBuf1 \/ DrainBuf2 \/ SortDone

Next ==
  \/ \E c \in Cid, p \in Port, s \in SeqNum : Recv(c, p, s)
  \/ RecvNothing
  \/ process

Spec == Init /\ [][Next]_vars

(* The receiving thread runs: its loop body always terminates. *)
FairSpec == Spec /\ WF_vars(process)

----------------------------------------------------------------------------
TypeOK ==
  /\ pc \in {"recv", "sort"}
  /\ pmsg \in {"msg", "buf1", "buf2"}
  /\ msg \in MsgBuf /\ buf1 \in MsgBuf /\ buf2 \in MsgBuf
  /\ known \subseteq Stream
  /\ seq_in \in [Stream -> SeqNum]
  /\ seq_out \in [Stream -> SeqNum]
  /\ stat \in [Cid -> Stat]
  /\ arrived \in 0 .. MaxArrived
  /\ delivered \subseteq 1 .. arrived
  /\ dropped \subseteq 1 .. arrived

(* Messages the sorter has received and neither handed out nor lost. *)
Pending ==
     (IF Sorting THEN {msg.id} ELSE {})
  \cup (IF buf1.valid THEN {buf1.id} ELSE {})
  \cup (IF buf2.valid THEN {buf2.id} ELSE {})

(* process() is only ever given a valid message through &msg: the pointers *)
(* to buf1 and buf2 it leaves behind designate consumed buffers, so the    *)
(* loop drains and terminates (ovboxclient.cc:369-371, 702-728).           *)
PointerDiscipline == pc = "sort" /\ Pointee.valid => pmsg = "msg"

(* Every datagram the sorter accepted is in exactly one place: handed to   *)
(* process_msg, overwritten in buf1 (ovboxclient.cc:695), or pending.  A   *)
(* message handed out is in no buffer any more, so it is never processed   *)
(* twice.                                                                  *)
Conservation ==
  /\ delivered \cup dropped \cup Pending = 1 .. arrived
  /\ delivered \cap dropped = {}
  /\ (delivered \cup dropped) \cap Pending = {}

(* While the thread waits for the network at most one message is held, it  *)
(* sits in buf1, and it is the last one received: a message waits for no   *)
(* more than one further datagram, of whatever stream.  Nothing stays in   *)
(* buf2, which the next datagram would overwrite.                          *)
HeldIsNewest ==
  pc = "recv" => ~buf2.valid /\ (buf1.valid => buf1.id = arrived)

(* Once the loop has started on a datagram the thread returns to the       *)
(* socket: process() cannot keep the loop busy for ever.                   *)
LoopTerminates == pc = "sort" ~> pc = "recv"

(* The sorter as its callers may rely on it: a delay of at most one.       *)
Abs == INSTANCE ReorderBuffer WITH Limit <- MaxArrived

ImplementsReorderBuffer == Abs!Spec
=============================================================================
