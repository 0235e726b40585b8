------------------------- MODULE TcpTunnelPipeProofs -------------------------
(***************************************************************************)
(* The TCP tunnel implements DatagramPipe, for any number of connections,  *)
(* streams of any capacity, and bodies written in any number of parts.     *)
(***************************************************************************)
EXTENDS TcpTunnelProofs

(***************************************************************************)
(* What is written in direction e (by the writer of e) and read by the     *)
(* handler of the other end.  The units of a direction follow each other   *)
(* without a gap, from the one the reader expects up to the one the writer *)
(* is at, as long as the reader reads and the writer writes; one that gave *)
(* up in the middle of a frame never writes again, and one that left its   *)
(* loop in the middle of a frame never reads again.                        *)
(***************************************************************************)
Succ(u) == IF u.part = plan.parts THEN [d |-> u.d + 1, part |-> 0]
                                  ELSE [d |-> u.d, part |-> u.part + 1]

(* The unit that is written next, and the one that is read next.           *)
WritePos(e) ==
  IF writer[e].pc \in {"write", "blocked"}
  THEN [d |-> writer[e].d, part |-> writer[e].part]
  ELSE [d |-> Len(input[e]) + 1, part |-> 0]
ReadPos(e) == [d |-> Len(output[other(e)]) + 1, part |-> handler[other(e)].part]

Writes(e) ==
  /\ conn[e[1]] # "broken" /\ ~PeerClosed(e)
  /\ \/ writer[e].pc = "blocked"
     \/ writer[e].pc \in {"none", "recv", "write"} /\ running(e)

(* A handler that does not know its port delivers nothing. *)
Reads(e) ==
  LET h == handler[other(e)] IN
  h.pc \in {"none", "start"} \/ (h.pc = "read" /\ h.target # 0)

Order(e) ==
  LET s == stream[e] IN
  /\ \A i \in 1 .. Len(s) : i + 1 <= Len(s) => s[i + 1] = Succ(s[i])
  /\ \A i \in 1 .. Len(s) : s[i].d <= Len(input[e])
  /\ s # <<>> /\ Reads(e) => s[1] = ReadPos(e)
  /\ s # <<>> /\ Writes(e) => Succ(s[Len(s)]) = WritePos(e)
  /\ s = <<>> /\ Reads(e) /\ Writes(e) => ReadPos(e) = WritePos(e)

(* Where the threads of an end are. *)
Threads(e) ==
  /\ handler[e].pc \in {"none", "start"} =>
       handler[e].part = 0 /\ output[e] = <<>> /\ writer[e].pc = "none"
  /\ handler[e].part # 0 /\ handler[e].target # 0 =>
       handler[e].d = Len(output[e]) + 1
  /\ writer[e].pc \in {"write", "blocked"} => writer[e].d = Len(input[e])
  /\ writer[e].pc \notin {"write", "blocked"} => writer[e].part = 0
  /\ life[e[1]] = "new" => handler[e].pc = "none"
  /\ life[e[1]] = "new" <=> conn[e[1]] = "none"
  /\ life[Obj_of(e)] = "new" => running(e)

(* Datagrams are numbered. *)
Numbered(e) == \A i \in 1 .. Len(input[e]) : input[e][i] = i

PInv == IInv /\ \A e \in End : Order(e) /\ Threads(e) /\ Numbered(e)

----------------------------------------------------------------------------
LEMMA OtherEnd ==
  ASSUME NEW e \in End, NEW x \in End
  PROVE  /\ other(e) \in End /\ other(e) # e /\ other(other(e)) = e
         /\ other(e)[1] = e[1] /\ e[1] \in Conn
         /\ (other(x) = e => x = other(e))
         /\ Obj_of(e) \in Obj
  <1>1. PICK k \in Conn, z \in {"c", "s"} : e = <<k, z>>
    BY DEF End
  <1>2. PICK q \in Conn, y \in {"c", "s"} : x = <<q, y>>
    BY DEF End
  <1> QED
    BY <1>1, <1>2 DEF End, other, Obj_of, Obj

LEMMA StreamType ==
  ASSUME TypeOK, NEW e \in End
  PROVE  /\ stream[e] \in Seq(Unit) /\ Len(stream[e]) \in Nat
         /\ \A i \in 1 .. Len(stream[e]) : stream[e][i] \in Unit
         /\ stream[e] = <<>> <=> Len(stream[e]) = 0
         /\ input[e] \in Seq(Nat) /\ output[e] \in Seq(Nat)
         /\ Len(input[e]) \in Nat /\ Len(output[e]) \in Nat
         /\ writer[e] \in Writer /\ handler[e] \in Handler
         /\ plan.parts \in Nat \ {0}
  BY ThreadType, PartsType, ElementOfSeq, EmptySeq

LEMMA InitPInv == Init => PInv
  <1> SUFFICES ASSUME Init PROVE PInv
    OBVIOUS
  <1>1. IInv
    BY InitIInv
  <1> SUFFICES ASSUME NEW e \in End PROVE Order(e) /\ Threads(e) /\ Numbered(e)
    BY <1>1 DEF PInv
  <1>2. other(e) \in End /\ e[1] \in Conn /\ Obj_of(e) \in Obj /\ e[1] \in Obj
    BY OtherEnd DEF Obj
  <1>3. /\ stream[e] = <<>> /\ input[e] = <<>> /\ Len(input[e]) = 0
        /\ output[e] = <<>> /\ output[other(e)] = <<>>
        /\ Len(output[other(e)]) = 0
    BY <1>2 DEF Init
  <1>4. handler[e] = NoHandler /\ handler[other(e)] = NoHandler /\ writer[e] = NoWriter
    BY <1>2 DEF Init
  <1>5. ReadPos(e) = WritePos(e)
    BY <1>3, <1>4 DEF ReadPos, WritePos, NoHandler, NoWriter
  <1>6. \A i \in 1 .. Len(<<>>) : FALSE
    OBVIOUS
  <1>7. Order(e)
    BY <1>3, <1>5, <1>6 DEF Order
  <1>8. Threads(e)
    BY <1>2, <1>3, <1>4 DEF Init, Threads, NoHandler, NoWriter, running
  <1>9. Numbered(e)
    BY <1>3, <1>6 DEF Numbered
  <1> QED
    BY <1>7, <1>8, <1>9

----------------------------------------------------------------------------
(* A direction is not touched, or its stream is cleared for good.          *)

LEMMA OrderKept ==
  ASSUME PInv, NEW e \in End, plan' = plan, stream'[e] = stream[e],
         Len(input'[e]) = Len(input[e]),
         Writes(e)' => Writes(e) /\ WritePos(e)' = WritePos(e),
         Reads(e)' => Reads(e) /\ ReadPos(e)' = ReadPos(e)
  PROVE  Order(e)'
  BY DEF PInv, Order, Succ

LEMMA OrderCleared ==
  ASSUME NEW e \in End, stream'[e] = <<>>, ~Writes(e)' PROVE Order(e)'
  <1>1. \A i \in 1 .. Len(<<>>) : FALSE
    OBVIOUS
  <1> QED
    BY <1>1 DEF Order

(* The owners and the acceptor touch no data.                              *)
LEMMA OwnersKeep ==
  ASSUME PInv, IInv', UNCHANGED <<plan, handler, writer, conn, data>>,
         \A k \in Conn : life'[k] = "new" <=> life[k] = "new",
         \A e \in End : running(e)' => running(e),
         \A e \in End : life'[Obj_of(e)] = "new" =>
                          life[Obj_of(e)] = "new" /\ (running(e) => running(e)')
  PROVE  PInv'
  <1> SUFFICES ASSUME NEW e \in End PROVE (Order(e) /\ Threads(e) /\ Numbered(e))'
    BY DEF PInv
  <1>1. Writes(e)' => Writes(e) /\ WritePos(e)' = WritePos(e)
    BY DEF Writes, WritePos, PeerClosed, data
  <1>2. Reads(e)' <=> Reads(e)
    BY DEF Reads
  <1>3. ReadPos(e)' = ReadPos(e)
    BY DEF ReadPos, data
  <1>4. Order(e)'
    BY <1>1, <1>2, <1>3, OrderKept DEF data
  <1>5. Threads(e)'
    BY OtherEnd DEF PInv, Threads, data
  <1>6. Numbered(e)'
    BY DEF PInv, Numbered, data
  <1> QED
    BY <1>4, <1>5, <1>6

LEMMA OwnerPInv ==
  ASSUME PInv, IInv',
         \/ Bound \/ Accept \/ EndAcceptor \/ ServerDestroyed
         \/ \E k \in Conn : Connected(k) \/ Destroyed(k)
  PROVE  PInv'
  <1>1. CASE Accept \/ EndAcceptor
    BY <1>1, OwnersKeep DEF Accept, EndAcceptor, owner, running
  <1>2. CASE Bound \/ ServerDestroyed
    <2>1. PICK l \in {"ready", "gone"} : life' = [life EXCEPT ![SERVER] = l]
      BY <1>2 DEF Bound, ServerDestroyed
    <2>2. \A k \in Conn : life'[k] = life[k]
      BY <2>1, ServerLife DEF PInv
    <2>3. \A o \in Obj : life'[o] = "new" => life[o] = "new"
      BY <2>1 DEF PInv, IInv, TypeOK
    <2> QED
      BY <1>2, <2>2, <2>3, OtherEnd, OwnersKeep DEF Bound, ServerDestroyed, running
  <1>3. ASSUME NEW k \in Conn, Connected(k) \/ Destroyed(k) PROVE PInv'
    <2>1. PICK l \in {"ready", "gone"} : life' = [life EXCEPT ![k] = l]
      BY <1>3 DEF Connected, Destroyed
    <2>2. life[k] # "new"
      BY <1>3 DEF Connected, Destroyed
    <2>3. \A o \in Obj : life'[o] = "new" <=> life[o] = "new"
      BY <2>1, <2>2 DEF PInv, IInv, TypeOK
    <2> QED
      BY <1>3, <2>3, ConnEnds, OtherEnd, OwnersKeep DEF Connected, Destroyed, running
  <1> QED
    BY <1>1, <1>2, <1>3

LEMMA ClosePInv == ASSUME PInv, IInv', NEW o \in Obj, Close(o) PROVE PInv'
  <1>1. \A x \in Obj : life'[x] = "new" <=> life[x] = "new"
    BY DEF PInv, IInv, TypeOK, Close
  <1>2. \A x \in Obj : run_server'[x] => run_server[x]
    BY DEF PInv, IInv, TypeOK, Close
  <1>3. \A x \in Obj : life[x] = "new" => run_server'[x] = run_server[x]
    BY DEF PInv, IInv, TypeOK, Close
  <1>4. Conn \subseteq Obj
    BY DEF Obj
  <1> QED
    BY <1>1, <1>2, <1>3, <1>4, OtherEnd, OwnersKeep DEF Close, running

LEMMA BindPInv == ASSUME PInv, IInv', Bind PROVE PInv'
  <1>1. life'[SERVER] = "binding" /\ \A k \in Conn : life'[k] = life[k]
    BY ServerLife DEF Bind, PInv
  <1>2. life[SERVER] = "new"
    BY DEF Bind
  <1>3. \A e \in End : running(e)' <=> running(e)
    <2> SUFFICES ASSUME NEW e \in End PROVE running(e)' <=> running(e)
      OBVIOUS
    <2>1. Obj_of(e) \in Obj
      BY OtherEnd
    <2>2. CASE Obj_of(e) = SERVER
      BY <1>2, <2>1, <2>2 DEF PInv, IInv, TypeOK, Threads, running, Bind
    <2>3. CASE Obj_of(e) # SERVER
      BY <2>1, <2>3 DEF PInv, IInv, TypeOK, running, Bind
    <2> QED
      BY <2>2, <2>3
  <1>4. \A o \in Obj : life'[o] = "new" => life[o] = "new"
    BY <1>1 DEF Obj
  <1> QED
    BY <1>1, <1>3, <1>4, OtherEnd, OwnersKeep DEF Bind

----------------------------------------------------------------------------
(* A handler is started, or leaves its loop: what it expects stays the     *)
(* same, or it never reads again.                                          *)

LEMMA HandlerKeeps ==
  ASSUME PInv, IInv', NEW e \in End, UNCHANGED <<plan, data>>,
         \A x \in End : x # e => handler'[x] = handler[x],
         \A x \in End : writer'[x].pc = writer[x].pc /\ writer'[x].d = writer[x].d
                          /\ writer'[x].part = writer[x].part,
         handler'[e].pc # "closed", handler[e].pc # "closed",
         handler'[e].pc \in {"none", "start"} =>
           handler[e].pc = "none" /\ handler'[e].part = handler[e].part,
         handler'[e].pc \notin {"none", "start"} =>
           handler'[e].pc = "wait" /\ handler'[e].part = 0,
         \A x \in End : running(x)' <=> running(x),
         \A k \in Conn : conn'[k] = "broken" <=> conn[k] = "broken",
         \A x \in End : life'[x[1]] = "new" => handler'[x].pc = "none",
         \A k \in Conn : life'[k] = "new" <=> conn'[k] = "none",
         \A x \in End : life'[Obj_of(x)] = "new" => life[Obj_of(x)] = "new"
  PROVE  PInv'
  <1> SUFFICES ASSUME NEW x \in End PROVE (Order(x) /\ Threads(x) /\ Numbered(x))'
    BY DEF PInv
  <1>1. other(x) \in End /\ x[1] \in Conn
    BY OtherEnd
  <1>2. Writes(x)' => Writes(x) /\ WritePos(x)' = WritePos(x)
    <2>1. PeerClosed(x)' <=> PeerClosed(x)
      BY <1>1 DEF PeerClosed
    <2> QED
      BY <1>1, <2>1 DEF Writes, WritePos, data
  <1>3. Reads(x)' => Reads(x) /\ ReadPos(x)' = ReadPos(x)
    <2>1. CASE other(x) = e
      BY <2>1 DEF Reads, ReadPos, data
    <2>2. CASE other(x) # e
      BY <1>1, <2>2 DEF Reads, ReadPos, data
    <2> QED
      BY <2>1, <2>2
  <1>4. Order(x)'
    BY <1>2, <1>3, OrderKept DEF data
  <1>5. Threads(x)'
    <2>1. Threads(x)
      BY DEF PInv
    <2>2. CASE x = e
      BY <1>1, <2>1, <2>2 DEF Threads, data
    <2>3. CASE x # e
      BY <1>1, <2>1, <2>3 DEF Threads, data
    <2> QED
      BY <2>2, <2>3
  <1>6. Numbered(x)'
    BY DEF PInv, Numbered, data
  <1> QED
    BY <1>4, <1>5, <1>6

LEMMA ConnectPInv == ASSUME PInv, IInv', NEW k \in Conn, Connect(k) PROVE PInv'
  <1> DEFINE e == <<k, "c">>
  <1>1. /\ e \in End /\ k \in Obj /\ Obj_of(e) = k /\ e[1] = k
        /\ life[k] = "new"
    BY ConnEnds DEF Connect, Obj_of
  <1>2. handler[e].pc = "none" /\ conn[k] = "none" /\ run_server[k]
    BY <1>1 DEF PInv, Threads, running
  <1> HIDE DEF e
  <1>3. handler' = [handler EXCEPT ![e].pc = "start"] /\ handler \in [End -> Handler]
    BY DEF Connect, e, PInv, IInv, TypeOK, Handler
  <1>4. handler'[e] = [handler[e] EXCEPT !.pc = "start"] /\ handler[e] \in Handler
    BY <1>1, <1>3
  <1>5. handler'[e].pc = "start" /\ handler'[e].part = handler[e].part
    BY <1>4 DEF Handler
  <1>6. \A x \in End : x # e => handler'[x] = handler[x]
    BY <1>3
  <1>7. \A x \in End : running(x)' <=> running(x)
    <2>1. \A o \in Obj : run_server'[o] <=> run_server[o]
      BY <1>1, <1>2 DEF Connect, PInv, IInv, TypeOK
    <2> QED
      BY <2>1, OtherEnd DEF running
  <1>8. conn'[k] = "up" /\ \A q \in Conn : q # k => conn'[q] = conn[q]
    BY DEF Connect, PInv, IInv, TypeOK
  <1>9. life'[k] = "connecting" /\ \A o \in Obj : o # k => life'[o] = life[o]
    <2>1. life' = [life EXCEPT ![k] = "connecting"] /\ DOMAIN life = Obj
      BY DEF Connect, PInv, IInv, TypeOK
    <2> QED
      BY <1>1, <2>1
  <1>10. \A q \in Conn : conn'[q] = "broken" <=> conn[q] = "broken"
    BY <1>2, <1>8
  <1>11. \A q \in Conn : q \in Obj /\ <<q, "c">> \in End /\ (life[q] = "new" <=> conn[q] = "none")
    <2> SUFFICES ASSUME NEW q \in Conn
                 PROVE  q \in Obj /\ <<q, "c">> \in End
                          /\ (life[q] = "new" <=> conn[q] = "none")
      OBVIOUS
    <2>1. q \in Obj /\ <<q, "c">> \in End /\ <<q, "c">>[1] = q
      BY ConnEnds
    <2> QED
      BY <2>1 DEF PInv, Threads
  <1>12. \A q \in Conn : life'[q] = "new" <=> conn'[q] = "none"
    BY <1>8, <1>9, <1>11
  <1>13. \A x \in End : life'[x[1]] = "new" => handler'[x].pc = "none"
    <2> SUFFICES ASSUME NEW x \in End, life'[x[1]] = "new"
                 PROVE  handler'[x].pc = "none"
      OBVIOUS
    <2>1. x[1] \in Conn /\ x[1] # k /\ x # e
      BY <1>1, <1>9, OtherEnd
    <2>2. life[x[1]] = "new"
      BY <1>9, <1>11, <2>1
    <2>3. handler[x].pc = "none"
      BY <2>2 DEF PInv, Threads
    <2> QED
      BY <1>6, <2>1, <2>3
  <1>14. \A x \in End : life'[Obj_of(x)] = "new" => life[Obj_of(x)] = "new"
    BY <1>9, OtherEnd
  <1> QED
    BY <1>1, <1>2, <1>5, <1>6, <1>7, <1>10, <1>12, <1>13, <1>14, HandlerKeeps
       DEF Connect

LEMMA StartHandlerPInv == ASSUME PInv, IInv', StartHandler PROVE PInv'
  <1> DEFINE k == acceptor.k
             e == <<k, "s">>
  <1>1. k \in Conn /\ handler[e].pc = "none" /\ life[k] # "new"
    BY DEF PInv, IInv, Serving, Unserved, StartHandler
  <1>2. e \in End /\ e[1] = k
    BY <1>1, ConnEnds
  <1>3. handler' = [handler EXCEPT ![e].pc = "start"] /\ handler \in [End -> Handler]
    BY DEF StartHandler, PInv, IInv, TypeOK, Handler
  <1> HIDE DEF k, e
  <1>4. handler'[e] = [handler[e] EXCEPT !.pc = "start"] /\ handler[e] \in Handler
    BY <1>2, <1>3
  <1>5. handler'[e].pc = "start" /\ handler'[e].part = handler[e].part
    BY <1>4 DEF Handler
  <1>6. \A x \in End : x # e => handler'[x] = handler[x]
    BY <1>3
  <1>7. \A q \in Conn : life[q] = "new" <=> conn[q] = "none"
    <2> SUFFICES ASSUME NEW q \in Conn PROVE life[q] = "new" <=> conn[q] = "none"
      OBVIOUS
    <2>1. <<q, "c">> \in End /\ <<q, "c">>[1] = q
      BY ConnEnds
    <2> QED
      BY <2>1 DEF PInv, Threads
  <1>8. \A x \in End : life[x[1]] = "new" => handler'[x].pc = "none"
    BY <1>1, <1>2, <1>6 DEF PInv, Threads
  <1> QED
    BY <1>1, <1>2, <1>5, <1>6, <1>7, <1>8, HandlerKeeps
       DEF StartHandler, owner, running

LEMMA LeaveLoopPInv ==
  ASSUME PInv, IInv', NEW e \in End, handler[e].pc = "read", LeaveLoop(e)
  PROVE  PInv'
  <1>1. handler[e] \in Handler /\ writer[e] \in Writer
        /\ handler \in [End -> Handler] /\ writer \in [End -> Writer]
    BY StreamType DEF PInv, IInv, TypeOK, Handler, Writer
  <1>2. handler'[e] = [handler[e] EXCEPT !.pc = "wait", !.d = 0, !.part = 0]
    BY <1>1 DEF LeaveLoop
  <1>3. handler'[e].pc = "wait" /\ handler'[e].part = 0
    BY <1>1, <1>2 DEF Handler
  <1>4. \A x \in End : x # e => handler'[x] = handler[x]
    BY <1>1 DEF LeaveLoop
  <1>5. \A x \in End : writer'[x].pc = writer[x].pc /\ writer'[x].d = writer[x].d
                        /\ writer'[x].part = writer[x].part
    BY <1>1 DEF LeaveLoop, Writer
  <1>6. \A q \in Conn : life[q] = "new" <=> conn[q] = "none"
    <2> SUFFICES ASSUME NEW q \in Conn PROVE life[q] = "new" <=> conn[q] = "none"
      OBVIOUS
    <2>1. <<q, "c">> \in End /\ <<q, "c">>[1] = q
      BY ConnEnds
    <2> QED
      BY <2>1 DEF PInv, Threads
  <1>7. \A x \in End : life[x[1]] = "new" => handler'[x].pc = "none"
    BY <1>4 DEF PInv, Threads
  <1> QED
    BY <1>3, <1>4, <1>5, <1>6, <1>7, HandlerKeeps DEF LeaveLoop, owner, running

(* The handler that closes its descriptor is not read from or written to   *)
(* any more.                                                               *)
LEMMA HClosePInv == ASSUME PInv, IInv', NEW e \in End, HClose(e) PROVE PInv'
  <1>1. handler[e] \in Handler /\ handler \in [End -> Handler]
    BY StreamType DEF PInv, IInv, TypeOK, Handler
  <1>2. handler'[e] = [handler[e] EXCEPT !.pc = "closed"]
    BY <1>1 DEF HClose
  <1>3. /\ handler'[e].pc = "closed" /\ handler'[e].part = handler[e].part
        /\ handler'[e].d = handler[e].d /\ handler'[e].target = handler[e].target
    BY <1>1, <1>2 DEF Handler
  <1>4. \A x \in End : x # e => handler'[x] = handler[x]
    BY <1>1 DEF HClose
  <1>5. \A x \in End : x # other(e) => stream'[x] = stream[x]
    BY DEF HClose, PInv, IInv, TypeOK
  <1> SUFFICES ASSUME NEW x \in End PROVE (Order(x) /\ Threads(x) /\ Numbered(x))'
    BY DEF PInv
  <1>6. other(x) \in End /\ x[1] \in Conn
    BY OtherEnd
  <1>7. Order(x)'
    <2>1. CASE x = other(e)
      <3>1. other(x) = e
        BY <2>1, OtherEnd
      <3>2. stream'[x] = <<>>
        BY <2>1 DEF HClose, PInv, IInv, TypeOK
      <3> QED
        BY <1>3, <3>1, <3>2, OrderCleared DEF Writes, PeerClosed
    <2>2. CASE x # other(e)
      <3>1. handler'[other(x)] = handler[other(x)]
        BY <1>4, <1>6, <2>2, OtherEnd
      <3> QED
        BY <1>5, <2>2, <3>1, OrderKept
           DEF HClose, Writes, WritePos, Reads, ReadPos, PeerClosed, running
    <2> QED
      BY <2>1, <2>2
  <1>8. Threads(x)'
    <2>1. Threads(x)
      BY DEF PInv
    <2>2. CASE x = e
      BY <1>3, <2>1, <2>2 DEF Threads, HClose, owner, running
    <2>3. CASE x # e
      BY <1>4, <2>1, <2>3 DEF Threads, HClose, owner, running
    <2> QED
      BY <2>2, <2>3
  <1>9. Numbered(x)'
    BY DEF PInv, Numbered, HClose
  <1> QED
    BY <1>7, <1>8, <1>9

(* The handler of e starts, and with it the writer of e.                   *)
LEMMA HStartPInv == ASSUME PInv, IInv', NEW e \in End, HStart(e) PROVE PInv'
  <1> DEFINE port1 == targetport[Obj_of(e)]
  <1>1. /\ handler[e] \in Handler /\ handler \in [End -> Handler]
        /\ writer \in [End -> Writer]
    BY StreamType DEF PInv, IInv, TypeOK, Handler, Writer
  <1>2. handler' = [handler EXCEPT ![e].pc = "read", ![e].target = port1]
    BY DEF HStart
  <1>3. writer' = [writer EXCEPT ![e] = [NoWriter EXCEPT !.pc = "recv", !.run = TRUE]]
    BY DEF HStart
  <1> HIDE DEF port1
  <1>4. handler'[e] = [handler[e] EXCEPT !.pc = "read", !.target = port1]
    BY <1>1, <1>2
  <1>5. /\ handler'[e].pc = "read" /\ handler'[e].part = handler[e].part
        /\ handler'[e].d = handler[e].d
    BY <1>1, <1>4 DEF Handler
  <1>6. \A x \in End : x # e => handler'[x] = handler[x] /\ writer'[x] = writer[x]
    BY <1>1, <1>2, <1>3
  <1>7. writer'[e].pc = "recv" /\ writer'[e].part = 0
    BY <1>1, <1>3 DEF NoWriter
  <1>8. /\ handler[e].pc = "start" /\ writer[e].pc = "none"
        /\ handler[e].part = 0
    BY DEF PInv, Threads, HStart
  <1> SUFFICES ASSUME NEW x \in End PROVE (Order(x) /\ Threads(x) /\ Numbered(x))'
    BY DEF PInv
  <1>9. other(x) \in End
    BY OtherEnd
  <1>10. PeerClosed(x)' <=> PeerClosed(x)
    <2>1. CASE other(x) = e
      BY <1>5, <1>8, <2>1 DEF PeerClosed
    <2>2. CASE other(x) # e
      BY <1>6, <1>9, <2>2 DEF PeerClosed
    <2> QED
      BY <2>1, <2>2
  <1>11. Writes(x)' => Writes(x) /\ WritePos(x)' = WritePos(x)
    <2>1. CASE x = e
      BY <1>7, <1>8, <1>10, <2>1 DEF HStart, Writes, WritePos, running, data
    <2>2. CASE x # e
      BY <1>6, <1>10, <2>2 DEF HStart, Writes, WritePos, running, data
    <2> QED
      BY <2>1, <2>2
  <1>12. Reads(x)' => Reads(x) /\ ReadPos(x)' = ReadPos(x)
    <2>1. CASE other(x) = e
      BY <1>5, <1>8, <2>1 DEF HStart, Reads, ReadPos, data
    <2>2. CASE other(x) # e
      BY <1>6, <1>9, <2>2 DEF HStart, Reads, ReadPos, data
    <2> QED
      BY <2>1, <2>2
  <1>13. Order(x)'
    BY <1>11, <1>12, OrderKept DEF HStart, data
  <1>14. Threads(x)'
    <2>1. Threads(x)
      BY DEF PInv
    <2>2. CASE x = e
      BY <1>5, <1>7, <1>8, <2>1, <2>2 DEF Threads, HStart, data, owner, running
    <2>3. CASE x # e
      BY <1>6, <2>1, <2>3 DEF Threads, HStart, data, owner, running
    <2> QED
      BY <2>2, <2>3
  <1>15. Numbered(x)'
    BY DEF PInv, Numbered, HStart, data
  <1> QED
    BY <1>13, <1>14, <1>15

----------------------------------------------------------------------------
(* A unit is read. *)

LEMMA HReadPInv ==
  ASSUME PInv, IInv', NEW e \in End, HRead(e)
  PROVE  /\ PInv'
         /\ UNCHANGED input
         /\ \/ UNCHANGED output
            \/ /\ Len(output[e]) < Len(input[other(e)])
               /\ output' = [output EXCEPT ![e] =
                               Append(@, input[other(e)][Len(@) + 1])]
  <1> DEFINE x == other(e)
             h == handler[e]
             s == stream[x]
             u == Head(s)
             fits == IF h.part = 0 THEN u.part = 0 ELSE u.d = h.d /\ u.part = h.part
             d == IF fits THEN u.d ELSE 0
  <1>1. /\ x \in End /\ x # e /\ other(x) = e
        /\ \A y \in End : other(y) = e => y = x
        /\ TypeOK
    BY OtherEnd DEF PInv, IInv
  <1>2. /\ s \in Seq(Unit) /\ s # <<>> /\ Len(s) \in Nat /\ Len(s) # 0
        /\ h.pc = "read" /\ h \in Handler
        /\ plan.parts \in Nat \ {0}
        /\ stream' = [stream EXCEPT ![x] = Tail(s)]
    BY <1>1, StreamType DEF HRead, PeerClosed
  <1>3. /\ u = s[1] /\ u \in Unit /\ stream'[x] = Tail(s)
        /\ Tail(s) \in Seq(Unit) /\ Len(Tail(s)) = Len(s) - 1
        /\ \A i \in 1 .. Len(s) - 1 : Tail(s)[i] = s[i + 1]
        /\ Tail(s) = <<>> <=> Len(s) = 1
    <2>1. stream'[x] = Tail(s)
      BY <1>1, <1>2 DEF TypeOK
    <2>2. u = s[1] /\ Tail(s) \in Seq(Unit) /\ Len(Tail(s)) = Len(s) - 1
          /\ \A i \in 1 .. Len(s) - 1 : Tail(s)[i] = s[i + 1]
      BY <1>2, HeadTailProperties
    <2>3. s[1] \in Unit
      BY <1>2, ElementOfSeq
    <2>4. Tail(s) = <<>> <=> Len(s) = 1
      <3>1. \A t \in Seq(Unit) : t = <<>> <=> Len(t) = 0
        BY EmptySeq
      <3>2. Tail(s) = <<>> <=> Len(Tail(s)) = 0
        BY <2>2, <3>1
      <3> QED
        BY <1>2, <2>2, <3>2
    <2> QED
      BY <2>1, <2>2, <2>3, <2>4
  <1>4. \A y \in End : y # x => stream'[y] = stream[y]
    BY <1>2 DEF TypeOK
  <1>5. UNCHANGED <<plan, input, writer, conn, run_server, life>>
    BY DEF HRead, owner
  <1>6. IF Complete(h.part)
          THEN /\ handler' = [handler EXCEPT ![e].d = 0, ![e].part = 0]
               /\ output' = IF h.target = 0 THEN output
                            ELSE [output EXCEPT ![e] = Append(@, d)]
          ELSE /\ handler' = [handler EXCEPT ![e].d = d, ![e].part = @ + 1]
               /\ output' = output
    BY DEF HRead
  <1>7. /\ Order(x) /\ Threads(e)
        /\ output[e] \in Seq(Nat) /\ Len(output[e]) \in Nat
        /\ input[x] \in Seq(Nat) /\ Len(input[x]) \in Nat
        /\ handler \in [End -> Handler] /\ output \in [End -> Seq(Nat)]
    BY <1>1, StreamType DEF PInv, TypeOK, Handler
  <1>8. d \in Nat
    BY <1>3 DEF Unit
  <1>9. \A i \in 1 .. Len(s) : i + 1 <= Len(s) => s[i + 1] = Succ(s[i])
    BY <1>7 DEF Order
  <1>10. \A i \in 1 .. Len(s) : s[i].d <= Len(input[x])
    BY <1>7 DEF Order
  <1>11. Writes(x) => Succ(s[Len(s)]) = WritePos(x)
    BY <1>2, <1>7 DEF Order
  <1>12. h.target # 0 => Reads(x) /\ u = ReadPos(x)
    BY <1>1, <1>2, <1>3, <1>7 DEF Order, Reads
  (* With a port the unit fits. *)
  <1>13. h.target # 0 => u.d = Len(output[e]) + 1 /\ u.part = h.part /\ d = u.d
    <2> SUFFICES ASSUME h.target # 0
                 PROVE  u.d = Len(output[e]) + 1 /\ u.part = h.part /\ d = u.d
      OBVIOUS
    <2>1. u = [d |-> Len(output[e]) + 1, part |-> h.part]
      BY <1>1, <1>12 DEF ReadPos
    <2>2. u.d = Len(output[e]) + 1 /\ u.part = h.part
      BY <2>1
    <2>3. h.part # 0 => h.d = Len(output[e]) + 1
      BY <1>7 DEF Threads
    <2> QED
      BY <2>2, <2>3
  <1> HIDE DEF d, u, h, s, x
  (* What the handler expects next is the successor of what it read.       *)
  <1>14. /\ \A y \in End : y # e => handler'[y] = handler[y] /\ output'[y] = output[y]
         /\ handler'[e].pc = h.pc /\ handler'[e].target = h.target
         /\ h.target # 0 => Len(output'[e]) + 1 = Succ(u).d
                              /\ handler'[e].part = Succ(u).part
         /\ handler'[e].part # 0 /\ h.target # 0 =>
              handler'[e].d = Len(output'[e]) + 1
         /\ \/ output' = output
            \/ h.target # 0 /\ output' = [output EXCEPT ![e] = Append(@, d)]
    <2>1. CASE Complete(h.part)
      <3>1. handler' = [handler EXCEPT ![e].d = 0, ![e].part = 0]
        BY <1>6, <2>1
      <3>2. handler'[e] = [h EXCEPT !.d = 0, !.part = 0]
        BY <1>7, <3>1 DEF h
      <3>3. /\ handler'[e].pc = h.pc /\ handler'[e].target = h.target
            /\ handler'[e].part = 0
        BY <1>2, <3>2 DEF Handler
      <3>4. \A y \in End : y # e => handler'[y] = handler[y]
        BY <1>7, <3>1
      <3>5. CASE h.target = 0
        BY <1>6, <2>1, <3>3, <3>4, <3>5
      <3>6. CASE h.target # 0
        <4>1. output' = [output EXCEPT ![e] = Append(@, d)]
          BY <1>6, <2>1, <3>6
        <4>2. output'[e] = Append(output[e], d)
                /\ \A y \in End : y # e => output'[y] = output[y]
          BY <1>7, <4>1
        <4>3. Len(output'[e]) = Len(output[e]) + 1
          BY <1>7, <1>8, <4>2, AppendProperties
        <4>4. Succ(u) = [d |-> u.d + 1, part |-> 0]
          BY <1>13, <2>1, <3>6 DEF Succ, Complete
        <4> QED
          BY <1>13, <3>3, <3>4, <3>6, <4>1, <4>2, <4>3, <4>4
      <3> QED
        BY <3>5, <3>6
    <2>2. CASE ~Complete(h.part)
      <3>1. handler' = [handler EXCEPT ![e].d = d, ![e].part = @ + 1]
            /\ output' = output
        BY <1>6, <2>2
      <3>2. handler'[e] = [h EXCEPT !.d = d, !.part = @ + 1]
        BY <1>7, <3>1 DEF h
      <3>3. /\ handler'[e].pc = h.pc /\ handler'[e].target = h.target
            /\ handler'[e].part = h.part + 1 /\ handler'[e].d = d
        BY <1>2, <3>2 DEF Handler
      <3>4. \A y \in End : y # e => handler'[y] = handler[y]
        BY <1>7, <3>1
      <3>5. h.target # 0 => Succ(u) = [d |-> u.d, part |-> h.part + 1]
        BY <1>13, <2>2 DEF Succ, Complete
      <3>6. h.target # 0 => Succ(u).d = u.d /\ Succ(u).part = h.part + 1
        BY <3>5
      <3>7. output'[e] = output[e]
        BY <3>1
      <3> QED
        BY <1>13, <3>1, <3>3, <3>4, <3>6, <3>7
    <2> QED
      BY <2>1, <2>2
  <1>15. Reads(x)' <=> Reads(x)
    BY <1>1, <1>14 DEF Reads, h
  <1>16. \A y \in End : (Writes(y)' <=> Writes(y)) /\ WritePos(y)' = WritePos(y)
    <2> SUFFICES ASSUME NEW y \in End
                 PROVE  (Writes(y)' <=> Writes(y)) /\ WritePos(y)' = WritePos(y)
      OBVIOUS
    <2>1. handler'[other(y)].pc = handler[other(y)].pc
      BY <1>14, OtherEnd DEF h
    <2> QED
      BY <1>5, <2>1 DEF Writes, WritePos, PeerClosed, running
  <1>17. Order(x)'
    <2> DEFINE t == Tail(s)
    <2>1. \A i \in 1 .. Len(t) : t[i] = s[i + 1] /\ i + 1 \in 1 .. Len(s)
      BY <1>2, <1>3
    <2> HIDE DEF t
    <2>2. t \in Seq(Unit) /\ Len(t) = Len(s) - 1 /\ (t = <<>> <=> Len(s) = 1)
      BY <1>3 DEF t
    <2>3. \A i \in 1 .. Len(t) : i + 1 <= Len(t) => t[i + 1] = Succ(t[i])
      BY <1>2, <1>9, <2>1, <2>2
    <2>4. \A i \in 1 .. Len(t) : t[i].d <= Len(input[x])
      BY <1>10, <2>1
    <2>5. t # <<>> => t[1] = Succ(u)
      BY <1>2, <1>3, <1>9, <2>1, <2>2
    <2>6. t # <<>> /\ Writes(x) => Succ(t[Len(t)]) = WritePos(x)
      BY <1>2, <1>11, <2>1, <2>2
    <2>7. t = <<>> /\ Writes(x) => Succ(u) = WritePos(x)
      BY <1>2, <1>3, <1>11, <2>2
    <2>8. Reads(x) => h.target # 0
      BY <1>1, <1>2 DEF Reads, h
    <2>9. Succ(u) = [d |-> Succ(u).d, part |-> Succ(u).part]
      BY DEF Succ
    <2>10. Reads(x) => ReadPos(x)' = Succ(u)
      <3>1. ReadPos(x)' = [d |-> Len(output'[e]) + 1, part |-> handler'[e].part]
        BY <1>1 DEF ReadPos
      <3> QED
        BY <1>14, <2>8, <2>9, <3>1
    <2>11. stream'[x] = t /\ input' = input /\ plan' = plan
      BY <1>3, <1>5 DEF t
    <2> QED
      BY <1>1, <1>15, <1>16, <2>3, <2>4, <2>5, <2>6, <2>7, <2>10, <2>11
         DEF Order, Succ
  <1>18. \A y \in End : Order(y)'
    <2> SUFFICES ASSUME NEW y \in End, y # x PROVE Order(y)'
      BY <1>17
    <2>1. other(y) # e /\ other(y) \in End
      BY <1>1, OtherEnd
    <2>2. handler'[other(y)] = handler[other(y)] /\ output'[other(y)] = output[other(y)]
      BY <1>14, <2>1
    <2> QED
      BY <1>4, <1>5, <1>16, <2>2, OrderKept DEF Reads, ReadPos
  <1>19. \A y \in End : Threads(y)'
    <2> SUFFICES ASSUME NEW y \in End PROVE Threads(y)'
      OBVIOUS
    <2>1. Threads(y)
      BY DEF PInv
    <2>2. CASE y = e
      BY <1>2, <1>5, <1>14, <2>1, <2>2 DEF Threads, running, h
    <2>3. CASE y # e
      BY <1>5, <1>14, <2>1, <2>3 DEF Threads, running
    <2> QED
      BY <2>2, <2>3
  <1>20. \A y \in End : Numbered(y)'
    BY <1>5 DEF PInv, Numbered
  <1>21. \/ UNCHANGED output
         \/ /\ Len(output[e]) < Len(input[x])
            /\ output' = [output EXCEPT ![e] = Append(@, input[x][Len(@) + 1])]
    <2>1. CASE output' = output
      BY <2>1
    <2>2. CASE h.target # 0 /\ output' = [output EXCEPT ![e] = Append(@, d)]
      <3>1. u.d <= Len(input[x])
        BY <1>2, <1>3, <1>10
      <3>2. d = Len(output[e]) + 1 /\ d \in 1 .. Len(input[x])
        BY <1>7, <1>13, <2>2, <3>1
      <3>3. input[x][d] = d
        BY <1>1, <3>2 DEF PInv, Numbered
      <3> QED
        BY <1>7, <2>2, <3>2, <3>3
    <2> QED
      BY <1>14, <2>1, <2>2
  <1> QED
    BY <1>5, <1>18, <1>19, <1>20, <1>21 DEF PInv, x

----------------------------------------------------------------------------
(* The writer. *)

(* It waits, or ends: handlers and data are left alone.                    *)
LEMMA WriterStays ==
  ASSUME PInv, IInv', NEW e \in End,
         UNCHANGED <<plan, run_server, life, conn, handler, data>>,
         \A x \in End : x # e => writer'[x] = writer[x],
         Writes(e)' => Writes(e) /\ WritePos(e)' = WritePos(e),
         writer[e].pc # "none",
         writer'[e].pc \in {"write", "blocked"} =>
           writer[e].pc \in {"write", "blocked"} /\ writer'[e].d = writer[e].d,
         writer'[e].pc \notin {"write", "blocked"} => writer'[e].part = 0
  PROVE  PInv'
  <1> SUFFICES ASSUME NEW x \in End PROVE (Order(x) /\ Threads(x) /\ Numbered(x))'
    BY DEF PInv
  <1>1. Writes(x)' => Writes(x) /\ WritePos(x)' = WritePos(x)
    <2>1. CASE x # e
      BY <2>1 DEF Writes, WritePos, PeerClosed, running, data
    <2> QED
      BY <2>1
  <1>2. Order(x)'
    BY <1>1, OrderKept DEF Reads, ReadPos, data
  <1>3. Threads(x)'
    <2>1. Threads(x)
      BY DEF PInv
    <2>2. CASE x = e
      BY <2>1, <2>2 DEF Threads, running, data
    <2>3. CASE x # e
      BY <2>1, <2>3 DEF Threads, running, data
    <2> QED
      BY <2>2, <2>3
  <1>4. Numbered(x)'
    BY DEF PInv, Numbered, data
  <1> QED
    BY <1>2, <1>3, <1>4

LEMMA GiveUpEffect ==
  ASSUME TypeOK, NEW e \in End
  PROVE  /\ GiveUp(e)[e].pc = "recv" /\ GiveUp(e)[e].part = 0
         /\ \A x \in End : x # e => GiveUp(e)[x] = writer[x]
  <1>1. writer \in [End -> Writer] /\ writer[e] \in Writer
    BY DEF TypeOK, Writer
  <1>2. GiveUp(e)[e] = [writer[e] EXCEPT !.pc = "recv", !.d = 0, !.part = 0]
    BY <1>1 DEF GiveUp
  <1>3. GiveUp(e)[e].pc = "recv" /\ GiveUp(e)[e].part = 0
    BY <1>1, <1>2 DEF Writer
  <1> QED
    BY <1>1, <1>3 DEF GiveUp

LEMMA WriterStepPInv ==
  ASSUME PInv, IInv', NEW e \in End, WEnd(e) \/ WBlock(e) \/ WGiveUp(e)
  PROVE  PInv'
  <1>1. writer \in [End -> Writer] /\ writer[e] \in Writer /\ TypeOK /\ Threads(e)
    BY DEF PInv, IInv, TypeOK, Writer
  <1>2. ASSUME NEW pc \in {"done", "blocked"},
               writer' = [writer EXCEPT ![e].pc = pc]
        PROVE  /\ writer'[e].pc = pc /\ writer'[e].d = writer[e].d
               /\ writer'[e].part = writer[e].part
               /\ \A x \in End : x # e => writer'[x] = writer[x]
    <2>1. writer'[e] = [writer[e] EXCEPT !.pc = pc]
      BY <1>1, <1>2
    <2> QED
      BY <1>1, <1>2, <2>1 DEF Writer
  <1>3. CASE WEnd(e)
    <2>1. /\ writer'[e].pc = "done" /\ writer'[e].part = writer[e].part
          /\ \A x \in End : x # e => writer'[x] = writer[x]
      BY <1>2, <1>3 DEF WEnd
    <2> QED
      BY <1>1, <1>3, <2>1, WriterStays DEF WEnd, Writes, Threads, owner
  <1>4. CASE WBlock(e)
    <2>1. /\ writer'[e].pc = "blocked" /\ writer'[e].part = writer[e].part
          /\ writer'[e].d = writer[e].d
          /\ \A x \in End : x # e => writer'[x] = writer[x]
      BY <1>2, <1>4 DEF WBlock
    <2>2. Writes(e)' => Writes(e)
      BY <1>4, <2>1 DEF WBlock, Writes, PeerClosed, running, owner
    <2>3. WritePos(e)' = WritePos(e)
      BY <1>4, <2>1 DEF WBlock, WritePos, data
    <2> QED
      BY <1>4, <2>1, <2>2, <2>3, WriterStays DEF WBlock, owner
  <1>5. CASE WGiveUp(e)
    <2>1. /\ writer'[e].pc = "recv" /\ writer'[e].part = 0
          /\ \A x \in End : x # e => writer'[x] = writer[x]
      BY <1>1, <1>5, GiveUpEffect DEF WGiveUp
    <2>2. writer[e].pc \in {"write", "blocked"} /\ conn[e[1]] # "none"
      BY <1>1, <1>5 DEF WGiveUp, Calls, Threads
    <2>3. ~running(e) \/ ~Usable(e)
      BY <1>5 DEF WGiveUp
    <2>4. conn[e[1]] \in {"none", "up", "broken"}
      BY <1>1, OtherEnd DEF TypeOK
    <2>5. ~Writes(e)'
      BY <1>5, <2>1, <2>2, <2>3, <2>4
         DEF WGiveUp, Writes, Usable, PeerClosed, running, owner
    <2> QED
      BY <1>5, <2>1, <2>2, <2>5, WriterStays DEF WGiveUp, owner
  <1> QED
    BY <1>3, <1>4, <1>5

LEMMA WReceivePInv ==
  ASSUME PInv, IInv', NEW e \in End, WReceive(e)
  PROVE  /\ PInv'
         /\ UNCHANGED output
         /\ Len(input[e]) + 1 \in 1 .. plan.count[e]
         /\ input' = [input EXCEPT ![e] = Append(@, Len(input[e]) + 1)]
  <1> DEFINE d == Len(input[e]) + 1
  <1>1. /\ writer \in [End -> Writer] /\ writer[e] \in Writer /\ TypeOK
        /\ Order(e) /\ Threads(e) /\ Numbered(e)
        /\ Len(input[e]) \in Nat /\ input[e] \in Seq(Nat) /\ d \in Nat
        /\ stream[e] \in Seq(Unit)
        /\ \A i \in 1 .. Len(stream[e]) : stream[e][i] \in Unit
    <2>1. TypeOK /\ Order(e) /\ Threads(e) /\ Numbered(e)
      BY DEF PInv, IInv
    <2>2. writer \in [End -> Writer] /\ input \in [End -> Seq(Nat)]
      BY <2>1 DEF TypeOK, Writer
    <2> QED
      BY <2>1, <2>2, StreamType
  <1>2. /\ input' = [input EXCEPT ![e] = Append(@, d)]
        /\ writer' = [writer EXCEPT ![e].pc = "write", ![e].d = d]
        /\ writer[e].pc = "recv" /\ Len(input[e]) < plan.count[e]
        /\ UNCHANGED <<plan, run_server, life, conn, handler, stream, output>>
    BY DEF WReceive, owner
  <1> HIDE DEF d
  <1>3. writer'[e] = [writer[e] EXCEPT !.pc = "write", !.d = d]
    BY <1>1, <1>2
  <1>4. /\ writer'[e].pc = "write" /\ writer'[e].d = d
        /\ writer'[e].part = writer[e].part
    BY <1>1, <1>3 DEF Writer
  <1>5. \A x \in End : x # e => writer'[x] = writer[x] /\ input'[x] = input[x]
    BY <1>1, <1>2 DEF TypeOK
  <1>6. /\ input'[e] = Append(input[e], d) /\ Len(input'[e]) = d
        /\ \A i \in 1 .. Len(input[e]) : input'[e][i] = input[e][i]
        /\ input'[e][d] = d
    <2>1. input'[e] = Append(input[e], d)
      BY <1>1, <1>2 DEF TypeOK
    <2> QED
      BY <1>1, <2>1, AppendProperties DEF d
  <1>7. writer[e].part = 0
    BY <1>1, <1>2 DEF Threads
  <1>8. \A x \in End : PeerClosed(x)' <=> PeerClosed(x)
    BY <1>2 DEF PeerClosed
  <1>9. Order(e)'
    <2>1. WritePos(e)' = WritePos(e)
      BY <1>2, <1>4, <1>7 DEF WritePos, d
    <2>2. Writes(e)' <=> Writes(e)
      BY <1>2, <1>4, <1>8 DEF Writes, running
    <2>3. Reads(e)' <=> Reads(e)
      BY <1>2 DEF Reads
    <2>4. ReadPos(e)' = ReadPos(e)
      BY <1>2 DEF ReadPos
    <2>5. \A i \in 1 .. Len(stream[e]) : stream[e][i].d <= Len(input'[e])
      <3>1. \A i \in 1 .. Len(stream[e]) : stream[e][i].d \in Nat /\ stream[e][i].d <= Len(input[e])
        BY <1>1 DEF Order, Unit
      <3> QED
        BY <1>1, <1>6, <3>1 DEF d
    <2> QED
      BY <1>1, <1>2, <2>1, <2>2, <2>3, <2>4, <2>5 DEF Order, Succ
  <1>10. \A x \in End : Order(x)'
    <2> SUFFICES ASSUME NEW x \in End, x # e PROVE Order(x)'
      BY <1>9
    <2> QED
      BY <1>2, <1>5, <1>8, OrderKept DEF Writes, WritePos, Reads, ReadPos, running
  <1>11. \A x \in End : Threads(x)'
    <2> SUFFICES ASSUME NEW x \in End PROVE Threads(x)'
      OBVIOUS
    <2>1. Threads(x)
      BY DEF PInv
    <2>2. CASE x = e
      BY <1>2, <1>4, <1>6, <2>1, <2>2 DEF Threads, running
    <2>3. CASE x # e
      BY <1>2, <1>5, <2>1, <2>3 DEF Threads, running
    <2> QED
      BY <2>2, <2>3
  <1>12. \A x \in End : Numbered(x)'
    <2> SUFFICES ASSUME NEW x \in End PROVE Numbered(x)'
      OBVIOUS
    <2>1. CASE x = e
      <3>1. \A i \in 1 .. d : i \in 1 .. Len(input[e]) \/ i = d
        BY <1>1 DEF d
      <3> QED
        BY <1>1, <1>6, <2>1, <3>1 DEF Numbered
    <2>2. CASE x # e
      BY <1>5, <2>2 DEF PInv, Numbered
    <2> QED
      BY <2>1, <2>2
  <1>13. plan.count[e] \in Nat
    <2>1. plan \in Plan
      BY <1>1, TunnelAssumption DEF TypeOK
    <2> QED
      BY <2>1 DEF Plan
  <1>14. Len(input[e]) + 1 \in 1 .. plan.count[e]
    BY <1>1, <1>2, <1>13
  <1> QED
    BY <1>2, <1>10, <1>11, <1>12, <1>14 DEF PInv, d

(* A unit is written: the one that is due.                                 *)
LEMMA WWritePInv == ASSUME PInv, IInv', NEW e \in End, WWrite(e) PROVE PInv'
  <1> DEFINE w == writer[e]
             s == stream[e]
             u == [d |-> w.d, part |-> w.part]
  <1>1. /\ writer \in [End -> Writer] /\ w \in Writer /\ TypeOK
        /\ Order(e) /\ Threads(e) /\ s \in Seq(Unit) /\ Len(s) \in Nat
        /\ s = <<>> <=> Len(s) = 0
        /\ Len(input[e]) \in Nat /\ plan.parts \in Nat \ {0}
        /\ \A i \in 1 .. Len(s) : s[i] \in Unit
    <2>1. TypeOK /\ Order(e) /\ Threads(e)
      BY DEF PInv, IInv
    <2>2. writer \in [End -> Writer]
      BY <2>1 DEF TypeOK, Writer
    <2> QED
      BY <2>1, <2>2, StreamType
  <1>2. /\ stream' = [stream EXCEPT ![e] = Append(@, u)]
        /\ writer' = IF w.part = plan.parts THEN GiveUp(e)
                     ELSE [writer EXCEPT ![e].pc = "write", ![e].part = @ + 1]
        /\ w.pc \in {"write", "blocked"} /\ Writes(e)
        /\ UNCHANGED <<plan, run_server, life, conn, handler, input, output>>
    BY DEF WWrite, Calls, Usable, Writes, owner
  <1>3. u \in Unit /\ u = WritePos(e) /\ w.d = Len(input[e])
    BY <1>1, <1>2 DEF Unit, Writer, WritePos, Threads
  <1>4. /\ stream'[e] = Append(s, u)
        /\ \A x \in End : x # e => stream'[x] = stream[x]
    BY <1>2, <1>1 DEF TypeOK
  <1> HIDE DEF w, s, u
  <1>5. /\ Append(s, u) \in Seq(Unit) /\ Len(Append(s, u)) = Len(s) + 1
        /\ \A i \in 1 .. Len(s) : Append(s, u)[i] = s[i]
        /\ Append(s, u)[Len(s) + 1] = u
        /\ Append(s, u) # <<>>
    BY <1>1, <1>3, AppendProperties
  <1>6. \A x \in End : x # e => writer'[x] = writer[x]
    BY <1>1, <1>2, GiveUpEffect DEF w
  (* The writer is at the next unit. *)
  <1>7. WritePos(e)' = Succ(u) /\ Threads(e)' /\ writer'[e].pc \in {"recv", "write"}
    <2>1. CASE w.part = plan.parts
      <3>1. writer'[e].pc = "recv" /\ writer'[e].part = 0
        BY <1>1, <1>2, <2>1, GiveUpEffect
      <3>2. Succ(u) = [d |-> Len(input[e]) + 1, part |-> 0]
        BY <1>3, <2>1 DEF Succ, u
      <3>3. WritePos(e)' = Succ(u)
        BY <1>2, <3>1, <3>2 DEF WritePos
      <3>4. Threads(e)'
        BY <1>1, <1>2, <3>1 DEF Threads, running, w
      <3> QED
        BY <3>1, <3>3, <3>4
    <2>2. CASE w.part # plan.parts
      <3>1. writer'[e] = [w EXCEPT !.pc = "write", !.part = @ + 1]
        BY <1>1, <1>2, <2>2 DEF w
      <3>2. writer'[e].pc = "write" /\ writer'[e].part = w.part + 1 /\ writer'[e].d = w.d
        BY <1>1, <3>1 DEF Writer
      <3>3. WritePos(e)' = Succ(u)
        BY <2>2, <3>2 DEF WritePos, Succ, u
      <3>4. Threads(e)'
        BY <1>1, <1>2, <1>3, <3>2 DEF Threads, running, w
      <3> QED
        BY <3>2, <3>3, <3>4
    <2> QED
      BY <2>1, <2>2
  <1>8. Order(e)'
    <2> DEFINE t == Append(s, u)
    <2>1. \A i \in 1 .. Len(t) : i \in 1 .. Len(s) \/ i = Len(s) + 1
      BY <1>1, <1>5
    <2>2. /\ t \in Seq(Unit) /\ Len(t) = Len(s) + 1 /\ t # <<>>
          /\ \A i \in 1 .. Len(s) : t[i] = s[i]
          /\ t[Len(s) + 1] = u
      BY <1>5
    <2> HIDE DEF t
    <2>3. s # <<>> => Succ(s[Len(s)]) = u
      BY <1>1, <1>2, <1>3 DEF Order, s
    <2>4. \A i \in 1 .. Len(t) : i + 1 <= Len(t) => t[i + 1] = Succ(t[i])
      <3>1. \A i \in 1 .. Len(s) : i + 1 <= Len(s) => s[i + 1] = Succ(s[i])
        BY <1>1 DEF Order, s
      <3> SUFFICES ASSUME NEW i \in 1 .. Len(t), i + 1 <= Len(t)
                   PROVE  t[i + 1] = Succ(t[i])
        OBVIOUS
      <3>2. i \in 1 .. Len(s)
        BY <1>1, <2>2
      <3>3. CASE i = Len(s)
        BY <1>1, <2>2, <2>3, <3>2, <3>3
      <3>4. CASE i # Len(s)
        BY <1>1, <2>2, <3>1, <3>2, <3>4
      <3> QED
        BY <3>3, <3>4
    <2>5. \A i \in 1 .. Len(t) : t[i].d <= Len(input[e])
      BY <1>1, <1>3, <2>1, <2>2 DEF Order, s, u
    <2>6. Reads(e)' <=> Reads(e)
      BY <1>2 DEF Reads
    <2>7. ReadPos(e)' = ReadPos(e)
      BY <1>2 DEF ReadPos
    <2>8. Reads(e) => t[1] = ReadPos(e)
      <3>1. CASE s = <<>>
        BY <1>1, <1>2, <1>3, <2>2, <3>1 DEF Order, s
      <3>2. CASE s # <<>>
        BY <1>1, <2>2, <3>2 DEF Order, s
      <3> QED
        BY <3>1, <3>2
    <2>9. stream'[e] = t /\ input' = input /\ plan' = plan
      BY <1>2, <1>4 DEF t
    <2> QED
      BY <1>1, <1>7, <2>2, <2>4, <2>5, <2>6, <2>7, <2>8, <2>9 DEF Order, Succ
  <1>9. \A x \in End : Order(x)'
    <2> SUFFICES ASSUME NEW x \in End, x # e PROVE Order(x)'
      BY <1>8
    <2> QED
      BY <1>2, <1>4, <1>6, OrderKept
         DEF Writes, WritePos, Reads, ReadPos, PeerClosed, running
  <1>10. \A x \in End : Threads(x)'
    <2> SUFFICES ASSUME NEW x \in End, x # e PROVE Threads(x)'
      BY <1>7
    <2>1. Threads(x)
      BY DEF PInv
    <2> QED
      BY <1>2, <1>6, <2>1 DEF Threads, running
  <1>11. \A x \in End : Numbered(x)'
    BY <1>2 DEF PInv, Numbered
  <1> QED
    BY <1>9, <1>10, <1>11 DEF PInv

(* Nothing is written to a broken connection.                              *)
LEMMA BreakPInv == ASSUME PInv, IInv', NEW k \in Conn, Break(k) PROVE PInv'
  <1> SUFFICES ASSUME NEW e \in End PROVE (Order(e) /\ Threads(e) /\ Numbered(e))'
    BY DEF PInv
  <1>1. Threads(e) /\ e[1] \in Conn
    BY OtherEnd DEF PInv
  <1>2. conn'[k] = "broken" /\ conn[k] = "up" /\ \A q \in Conn : q # k => conn'[q] = conn[q]
    BY DEF Break, PInv, IInv, TypeOK
  <1>3. Order(e)'
    <2>1. CASE e[1] = k
      <3>1. e = <<k, "c">> \/ e = <<k, "s">>
        BY <2>1 DEF End
      <3>2. stream'[e] = <<>>
        BY <3>1 DEF Break, PInv, IInv, TypeOK
      <3> QED
        BY <1>2, <2>1, <3>2, OrderCleared DEF Writes
    <2>2. CASE e[1] # k
      <3>1. e # <<k, "c">> /\ e # <<k, "s">>
        BY <2>2
      <3>2. stream'[e] = stream[e]
        BY <3>1 DEF Break, PInv, IInv, TypeOK
      <3> QED
        BY <1>1, <1>2, <2>2, <3>2, OrderKept
           DEF Break, Writes, WritePos, Reads, ReadPos, PeerClosed, running
    <2> QED
      BY <2>1, <2>2
  <1>4. Threads(e)'
    BY <1>1, <1>2 DEF Threads, Break, running, owner
  <1>5. Numbered(e)'
    BY DEF PInv, Numbered, Break
  <1> QED
    BY <1>3, <1>4, <1>5

----------------------------------------------------------------------------
(* The refinement. *)

LEMMA PipeInit == Init => Pipe!Init
  <1> SUFFICES ASSUME Init PROVE Pipe!Init
    OBVIOUS
  <1>1. \A e \in End : other(e) \in End
    BY EndType
  <1> QED
    BY <1>1 DEF Init, Pipe!Init

LEMMA DatagramOfPlan ==
  ASSUME NEW p \in Plans, NEW e \in End, NEW n \in 1 .. p.count[e]
  PROVE  n \in Datagrams
  <1>1. n \in UNION {1 .. p.count[x] : x \in End}
    OBVIOUS
  <1> QED
    BY <1>1, Zenon DEF Datagrams

PipeStep == [Pipe!Next]_<<input, [e \in End |-> output[other(e)]]>>

LEMMA NextPInv ==
  ASSUME PInv, [Next]_vars
  PROVE  PInv' /\ PipeStep
  <1>1. IInv'
    BY NextIInv DEF PInv
  <1>2. ASSUME PInv', UNCHANGED <<input, output>> PROVE PInv' /\ PipeStep
    BY <1>2 DEF PipeStep
  <1>3. CASE Bind \/ Bound \/ Accept \/ EndAcceptor \/ ServerDestroyed
    BY <1>1, <1>2, <1>3, BindPInv, OwnerPInv
       DEF Bind, Bound, Accept, EndAcceptor, ServerDestroyed, data
  <1>4. CASE StartHandler
    BY <1>1, <1>2, <1>4, StartHandlerPInv DEF StartHandler, data
  <1>5. ASSUME NEW k \in Conn, Connect(k) PROVE PInv' /\ PipeStep
    BY <1>1, <1>2, <1>5, ConnectPInv DEF Connect, data
  <1>6. ASSUME NEW k \in Conn, Connected(k) \/ Destroyed(k) PROVE PInv' /\ PipeStep
    BY <1>1, <1>2, <1>6, OwnerPInv DEF Connected, Destroyed, data
  <1>7. ASSUME NEW k \in Conn, Break(k) PROVE PInv' /\ PipeStep
    BY <1>1, <1>2, <1>7, BreakPInv DEF Break
  <1>8. ASSUME NEW o \in Obj, Close(o) PROVE PInv' /\ PipeStep
    BY <1>1, <1>2, <1>8, ClosePInv DEF Close, data
  <1>9. ASSUME NEW e \in End, HStart(e) PROVE PInv' /\ PipeStep
    BY <1>1, <1>2, <1>9, HStartPInv DEF HStart, data
  <1>10. ASSUME NEW e \in End, HQuit(e) \/ HEof(e) PROVE PInv' /\ PipeStep
    BY <1>1, <1>2, <1>10, LeaveLoopPInv DEF HQuit, HEof, LeaveLoop, data
  <1>11. ASSUME NEW e \in End, HClose(e) PROVE PInv' /\ PipeStep
    BY <1>1, <1>2, <1>11, HClosePInv DEF HClose
  <1>12. ASSUME NEW e \in End, WEnd(e) \/ WBlock(e) \/ WGiveUp(e) PROVE PInv' /\ PipeStep
    BY <1>1, <1>2, <1>12, WriterStepPInv DEF WEnd, WBlock, WGiveUp, data
  <1>13. ASSUME NEW e \in End, WWrite(e) PROVE PInv' /\ PipeStep
    BY <1>1, <1>2, <1>13, WWritePInv DEF WWrite
  (* A datagram goes in. *)
  <1>14. ASSUME NEW e \in End, WReceive(e) PROVE PInv' /\ PipeStep
    <2> DEFINE n == Len(input[e]) + 1
    <2>1. /\ PInv' /\ UNCHANGED output /\ n \in 1 .. plan.count[e]
          /\ input' = [input EXCEPT ![e] = Append(@, n)]
      BY <1>1, <1>14, WReceivePInv
    <2>2. [q \in End |-> output[other(q)]]' = [q \in End |-> output[other(q)]]
      BY <2>1
    <2> HIDE DEF n
    <2>3. n \in Datagrams
      <3>1. plan \in Plans
        BY DEF PInv, IInv, TypeOK
      <3> QED
        BY <2>1, <3>1, DatagramOfPlan
    <2>4. \E j \in Datagrams : input' = [input EXCEPT ![e] = Append(@, j)]
      BY <2>1, <2>3
    <2>5. Pipe!Accept(e)
      BY <2>2, <2>4 DEF Pipe!Accept
    <2> QED
      BY <2>1, <2>5 DEF Pipe!Next, PipeStep
  (* A datagram comes out at the other end, or none. *)
  <1>15. ASSUME NEW e \in End, HRead(e) PROVE PInv' /\ PipeStep
    <2> DEFINE x == other(e)
               mapped == [q \in End |-> output[other(q)]]
    <2>1. /\ PInv' /\ UNCHANGED input
          /\ \/ UNCHANGED output
             \/ /\ Len(output[e]) < Len(input[x])
                /\ output' = [output EXCEPT ![e] =
                                Append(@, input[x][Len(@) + 1])]
      BY <1>1, <1>15, HReadPInv
    <2>2. CASE UNCHANGED output
      BY <1>2, <2>1, <2>2
    <2>3. CASE /\ Len(output[e]) < Len(input[x])
               /\ output' = [output EXCEPT ![e] = Append(@, input[x][Len(@) + 1])]
      <3>1. x \in End /\ other(x) = e /\ \A q \in End : other(q) = e <=> q = x
        BY OtherEnd
      <3>2. mapped[x] = output[e]
        BY <3>1
      <3>3. mapped' = [mapped EXCEPT ![x] = Append(@, input[x][Len(@) + 1])]
        <4>1. \A q \in End : output'[other(q)] =
                IF q = x THEN Append(output[e], input[x][Len(output[e]) + 1])
                ELSE output[other(q)]
          BY <2>3, <3>1, OtherEnd DEF PInv, IInv, TypeOK
        <4> QED
          BY <3>1, <4>1
      <3> HIDE DEF mapped
      <3>4. /\ Len(mapped[x]) < Len(input[x])
            /\ mapped' = [mapped EXCEPT ![x] = Append(@, input[x][Len(@) + 1])]
            /\ UNCHANGED input
        BY <2>1, <2>3, <3>2, <3>3
      <3>5. Pipe!Release(x)
        BY <3>4 DEF Pipe!Release, mapped
      <3> QED
        BY <2>1, <3>1, <3>5 DEF Pipe!Next, PipeStep
    <2> QED
      BY <2>1, <2>2, <2>3
  <1>16. CASE UNCHANGED vars
    <2>1. PInv'
      <3> SUFFICES ASSUME NEW e \in End
                   PROVE  (Order(e) /\ Threads(e) /\ Numbered(e))'
        BY <1>1 DEF PInv
      <3>1. UNCHANGED <<plan, run_server, life, conn, handler, writer, stream,
                        input, output>>
        BY <1>16 DEF vars, owner, data
      <3>2. Order(e)'
        BY <3>1, OrderKept
           DEF Writes, WritePos, Reads, ReadPos, PeerClosed, running
      <3>3. Threads(e) /\ Numbered(e)
        BY DEF PInv
      <3>4. Threads(e)'
        BY <3>1, <3>3 DEF Threads, running
      <3>5. Numbered(e)'
        BY <3>1, <3>3 DEF Numbered
      <3> QED
        BY <3>2, <3>4, <3>5
    <2> QED
      BY <1>2, <1>16, <2>1 DEF vars, data
  <1>17. CASE Bind \/ ServerNext
    BY <1>3, <1>4, <1>17 DEF ServerNext
  <1>18. ASSUME NEW k \in Conn, Connect(k) \/ ClientNext(k) \/ Break(k)
         PROVE  PInv' /\ PipeStep
    BY <1>5, <1>6, <1>7, <1>18 DEF ClientNext
  <1>19. ASSUME NEW e \in End, HandlerNext(e) PROVE PInv' /\ PipeStep
    BY <1>9, <1>10, <1>11, <1>15, <1>19 DEF HandlerNext
  <1>20. ASSUME NEW e \in End, WriterNext(e) \/ WReceive(e) PROVE PInv' /\ PipeStep
    BY <1>12, <1>13, <1>14, <1>20 DEF WriterNext
  <1>21. CASE Next
    <2>1. CASE \E k \in Conn : Connect(k) \/ ClientNext(k) \/ Break(k)
      <3>1. PICK k \in Conn : Connect(k) \/ ClientNext(k) \/ Break(k)
        BY <2>1
      <3> QED
        BY <1>18, <3>1
    <2>2. CASE \E o \in Obj : Close(o)
      BY <1>8, <2>2
    <2>3. CASE \E e \in End : HandlerNext(e) \/ WriterNext(e) \/ WReceive(e)
      BY <1>19, <1>20, <2>3
    <2> QED
      BY <1>17, <1>21, <2>1, <2>2, <2>3 DEF Next
  <1> QED
    BY <1>16, <1>21

(* For any number of connections, capacity of the streams and split of the *)
(* frames, whenever objects end and connections break: what comes out of   *)
(* either direction of a connection is what went in, whole, in order and   *)
(* without a gap (send, nbread, nbwrite, handleconnection).                *)
THEOREM PipeImplemented == Spec => ImplementsPipe
  <1>1. PInv /\ [Next]_vars =>
          PInv' /\ [Pipe!Next]_<<input, [e \in End |-> output[other(e)]]>>
    BY NextPInv DEF PipeStep
  <1> QED
    BY InitPInv, PipeInit, <1>1, PTL DEF Spec, ImplementsPipe, Pipe!Spec
----------------------------------------------------------------------------
(* A connection nobody ends.  Its threads go on for a lasting reason only: *)
(* the flags and the connection themselves, not what the other end did.    *)
Disturbed(k) == conn[k] = "broken" \/ ~run_server[k] \/ ~run_server[SERVER]

Undisturbed ==
  \A e \in End :
    /\ handler[e].pc \in {"wait", "closed"} => Disturbed(e[1])
    /\ handler[e].pc = "read" => writer[e].run
    /\ writer[e].pc = "done" => handler[e].pc \in {"wait", "closed"}

LEMMA UndisturbedNext ==
  PInv /\ EndInv /\ Undisturbed /\ [Next]_vars => Undisturbed'
  <1> SUFFICES ASSUME PInv, EndInv, Undisturbed, [Next]_vars, NEW e \in End
               PROVE  /\ handler'[e].pc \in {"wait", "closed"} => Disturbed(e[1])'
                      /\ handler'[e].pc = "read" => writer'[e].run
                      /\ writer'[e].pc = "done" => handler'[e].pc \in {"wait", "closed"}
    BY DEF Undisturbed
  <1>1. IInv /\ ThreadMoves(e)
    BY EveryStepMoves DEF PInv
  <1>2. other(e) \in End /\ other(e)[1] = e[1] /\ e[1] \in Conn
        /\ e[1] \in Obj /\ SERVER \in Obj /\ Obj_of(e) \in {e[1], SERVER}
    BY OtherEnd DEF Obj, Obj_of
  <1>3. Disturbed(e[1]) => Disturbed(e[1])'
    BY <1>1, <1>2, ReasonsLast DEF Disturbed
  <1>4. Ending(e) => Disturbed(e[1])
    <2>1. handler[other(e)].pc = "closed" => Disturbed(other(e)[1])
      BY <1>2 DEF Undisturbed
    <2> QED
      BY <1>2, <2>1 DEF Ending, Disturbed, running, PeerClosed
  <1>5. writer[e].pc = "recv" /\ ~writer[e].run => handler[e].pc \in {"wait", "closed"}
    <2>1. handler[e].pc \in HandlerStep
      BY <1>1, StreamType DEF IInv, Handler
    <2>2. handler[e].pc \in {"none", "start"} => writer[e].pc = "none"
      BY DEF PInv, Threads
    <2> QED
      BY <2>1, <2>2 DEF Undisturbed, HandlerStep
  <1>6. handler[e].pc \in {"none", "start"} => writer[e].pc = "none"
    BY DEF PInv, Threads
  <1> QED
    BY <1>1, <1>3, <1>4, <1>5, <1>6 DEF ThreadMoves, WriterMoves, Undisturbed, Calls

LEMMA UndisturbedInit == Init => Undisturbed
  BY DEF Init, Undisturbed, NoHandler, NoWriter

(* While the connection holds and both objects live, neither end leaves    *)
(* its loop, and as long as a datagram is missing at the other end there   *)
(* is something to read, or the writer is at it and has room to write.     *)
DeliveryGoesOn ==
  \A e \in End : Healthy(e[1]) =>
    /\ handler[e].pc \in {"none", "start", "read"}
    /\ handler[other(e)].pc = "read" /\ handler[other(e)].target # 0 =>
         \/ Len(output[other(e)]) = Len(input[e])
         \/ stream[e] # <<>>
         \/ writer[e].pc \in {"write", "blocked"} /\ Len(stream[e]) < Cap

LEMMA GoesOn == PInv /\ Undisturbed => DeliveryGoesOn
  <1> SUFFICES ASSUME PInv, Undisturbed, NEW e \in End, Healthy(e[1])
               PROVE  /\ handler[e].pc \in {"none", "start", "read"}
                      /\ handler[other(e)].pc = "read" /\ handler[other(e)].target # 0
                           /\ stream[e] = <<>>
                         => \/ Len(output[other(e)]) = Len(input[e])
                            \/ writer[e].pc \in {"write", "blocked"} /\ Len(stream[e]) < Cap
    BY DEF DeliveryGoesOn
  <1>1. other(e) \in End /\ other(e)[1] = e[1] /\ Obj_of(e) \in {e[1], SERVER}
    BY OtherEnd DEF Obj_of
  <1>2. ~Disturbed(e[1]) /\ conn[e[1]] = "up" /\ running(e)
    BY <1>1 DEF Healthy, Disturbed, running
  <1>3. handler[e].pc \in HandlerStep /\ writer[e].pc \in WriterStep
        /\ Len(input[e]) \in Nat /\ Len(output[other(e)]) \in Nat
        /\ (stream[e] = <<>> <=> Len(stream[e]) = 0)
    BY <1>1, StreamType DEF PInv, IInv, Handler, Writer
  <1>4. handler[e].pc \in {"none", "start", "read"}
    BY <1>2, <1>3 DEF Undisturbed, HandlerStep
  <1>5. ASSUME handler[other(e)].pc = "read", handler[other(e)].target # 0,
               stream[e] = <<>>, writer[e].pc \notin {"write", "blocked"}
        PROVE  Len(output[other(e)]) = Len(input[e])
    <2>1. writer[e].pc \in {"none", "recv"}
      BY <1>3, <1>4, <1>5 DEF Undisturbed, WriterStep
    <2>2. Reads(e) /\ Writes(e)
      BY <1>2, <1>5, <2>1 DEF Reads, Writes, PeerClosed
    <2>3. ReadPos(e) = WritePos(e)
      BY <1>5, <2>2 DEF PInv, Order
    <2> QED
      BY <1>3, <2>1, <2>3 DEF ReadPos, WritePos
  <1> QED
    BY <1>3, <1>4, <1>5, TunnelAssumption

(* The tunnel loses nothing on a connection that nobody ends: for any      *)
(* capacity of the stream and any split of the writes, what did not come   *)
(* out yet can still move (ovtcpsocket.cc:125-268).                        *)
THEOREM NothingGetsStuck == Spec => []DeliveryGoesOn
  <1>1. Spec => [](PInv /\ EndInv)
    BY InitPInv, NextPInv, EndInvHolds, PTL DEF Spec
  <1> QED
    BY <1>1, UndisturbedInit, UndisturbedNext, GoesOn, PTL DEF Spec
=============================================================================
