--------------------------- MODULE TcpTunnelProofs ---------------------------
(***************************************************************************)
(* Theorems about the TCP tunnel, for any number of connections and        *)
(* descriptors, streams of any capacity and every plan.                    *)
(***************************************************************************)
EXTENDS TcpTunnel, SequenceTheorems, TLAPS

(***************************************************************************)
(* NoThreadSurvives is not inductive.  That a handler is in the table      *)
(* needs that the acceptor starts it with the descriptor that accept gave  *)
(* the connection, and that nothing has run for the connection before:     *)
(* what waits to be served was never served, and waits only once.          *)
(***************************************************************************)
Unserved(k) == handler[<<k, "s">>].pc = "none" /\ life[k] # "new"

Waiting ==
  /\ \A i \in 1 .. Len(backlog) : Unserved(backlog[i])
  /\ \A i, j \in 1 .. Len(backlog) : backlog[i] = backlog[j] => i = j
  /\ \A k \in Conn : life[k] = "new" => handler[<<k, "s">>].pc = "none"

Serving ==
  acceptor.pc = "start" =>
    /\ acceptor.k \in Conn /\ acceptor.fd \in Fd
    /\ fd[acceptor.k] = acceptor.fd
    /\ Unserved(acceptor.k)
    /\ \A i \in 1 .. Len(backlog) : backlog[i] # acceptor.k

Table ==
  \A k \in Conn :
    Joined(<<k, "s">>) \/ (fd[k] \in Fd /\ handlethreads[fd[k]] = k)

IInv == TypeOK /\ Waiting /\ Serving /\ Table /\ NoThreadSurvives

----------------------------------------------------------------------------
(* Ends of connections, their objects and plans. *)

LEMMA EndType ==
  ASSUME NEW e \in End
  PROVE  /\ other(e) \in End /\ other(e) # e
         /\ Obj_of(e) \in Obj /\ e[1] \in Conn
  BY DEF End, other, Obj_of, Obj

LEMMA ConnEnds ==
  ASSUME NEW k \in Conn
  PROVE  /\ <<k, "c">> \in End /\ <<k, "s">> \in End
         /\ k \in Obj /\ k # SERVER
  BY TunnelAssumption DEF End, Obj, SERVER

LEMMA PartsType == ASSUME TypeOK PROVE plan.parts \in Nat \ {0}
  <1>1. plan \in Plan
    BY TunnelAssumption DEF TypeOK
  <1> QED
    BY <1>1 DEF Plan

(* A handler or writer that is set anew, or takes a step.                  *)
Handler == [pc : HandlerStep, target : {0, 1}, d : Nat, part : 0 .. plan.parts]
Writer == [pc : WriterStep, run : BOOLEAN, d : Nat, part : 0 .. plan.parts]

LEMMA ThreadType ==
  ASSUME TypeOK, NEW e \in End
  PROVE  /\ handler[e] \in Handler /\ writer[e] \in Writer
         /\ 0 \in 0 .. plan.parts
         /\ stream[e] \in Seq(Unit) /\ Len(stream[e]) \in Nat
         /\ Len(stream[e]) <= Cap /\ <<>> \in Seq(Unit)
         /\ input[e] \in Seq(Nat) /\ output[e] \in Seq(Nat)
  BY PartsType DEF TypeOK, Handler, Writer

LEMMA HandlerStepType ==
  ASSUME TypeOK, NEW e \in End, NEW h \in HandlerStep
  PROVE  [handler EXCEPT ![e].pc = h] \in [End -> Handler]
  <1>1. handler \in [End -> Handler]
    BY DEF TypeOK, Handler
  <1>2. [handler[e] EXCEPT !.pc = h] \in Handler
    BY <1>1 DEF Handler
  <1> QED
    BY <1>1, <1>2

LEMMA WriterStepType ==
  ASSUME TypeOK, NEW e \in End, NEW w \in WriterStep
  PROVE  [writer EXCEPT ![e].pc = w] \in [End -> Writer]
  <1>1. writer \in [End -> Writer]
    BY DEF TypeOK, Writer
  <1>2. [writer[e] EXCEPT !.pc = w] \in Writer
    BY <1>1 DEF Writer
  <1> QED
    BY <1>1, <1>2

LEMMA InitIInv == Init => IInv
  <1> SUFFICES ASSUME Init PROVE IInv
    OBVIOUS
  <1>1. plan.parts \in Nat \ {0}
    BY TunnelAssumption DEF Init, Plan
  <1>2. NoHandler \in Handler /\ NoWriter \in Writer
    BY <1>1 DEF NoHandler, NoWriter, Handler, Writer, HandlerStep, WriterStep
  <1>3. handler \in [End -> Handler] /\ writer \in [End -> Writer]
    BY <1>2 DEF Init
  <1>4. TypeOK
    BY <1>1, <1>3, TunnelAssumption DEF Init, TypeOK, Handler, Writer
  <1>5. \A e \in End : handler[e].pc = "none"
    BY DEF Init, NoHandler
  <1>6. \A k \in Conn : handler[<<k, "s">>].pc = "none" /\ handler[<<k, "c">>].pc = "none"
    BY <1>5, ConnEnds
  <1>7. \A o \in Obj : life[o] = "new"
    BY DEF Init
  <1>8. Waiting /\ Serving /\ Table
    <2>1. \A i \in 1 .. Len(backlog) : FALSE
      BY DEF Init
    <2>2. Waiting
      BY <1>6, <2>1 DEF Waiting
    <2>3. Serving
      BY DEF Init, Serving
    <2>4. Table
      BY <1>6 DEF Table, Joined
    <2> QED
      BY <2>2, <2>3, <2>4
  <1>9. NoThreadSurvives
    <2>1. life[SERVER] = "new"
      BY <1>7 DEF Obj
    <2>2. \A k \in Conn : life[k] = "new"
      BY <1>7 DEF Obj
    <2> QED
      BY <1>5, <1>6, <2>1, <2>2 DEF NoThreadSurvives, Joined
  <1> QED
    BY <1>4, <1>8, <1>9 DEF IInv

----------------------------------------------------------------------------
(* Steps of handlers and writers.  None of them starts a handler or brings *)
(* one back, and no writer that has ended writes again.                    *)

LEMMA ThreadsKeep ==
  ASSUME IInv, TypeOK', UNCHANGED <<life, acceptor, backlog, fd, handlethreads>>,
         \A e \in End : handler'[e].pc = "none" <=> handler[e].pc = "none",
         \A e \in End : handler[e].pc = "closed" => handler'[e].pc = "closed",
         \A e \in End : handler'[e].pc = "closed" =>
                           writer'[e].pc \in {"none", "done"}
  PROVE  IInv'
  <1>1. \A e \in End : Joined(e) => Joined(e)'
    BY DEF Joined
  <1>2. \A i \in 1 .. Len(backlog) : backlog[i] \in Conn
    BY DEF IInv, TypeOK
  <1>3. \A k \in Conn : Unserved(k) => Unserved(k)'
    BY ConnEnds DEF Unserved
  <1>4. Waiting'
    BY <1>2, <1>3, ConnEnds DEF IInv, Waiting
  <1>5. Serving'
    BY <1>3 DEF IInv, Serving
  <1>6. Table'
    BY <1>1, ConnEnds DEF IInv, Table
  <1>7. NoThreadSurvives'
    BY <1>1, ConnEnds DEF IInv, NoThreadSurvives
  <1> QED
    BY <1>4, <1>5, <1>6, <1>7 DEF IInv

LEMMA HStartIInv == ASSUME IInv, NEW e \in End, HStart(e) PROVE IInv'
  <1>1. targetport[Obj_of(e)] \in {0, 1}
    BY EndType DEF IInv, TypeOK
  <1>2. handler' \in [End -> Handler] /\ writer' \in [End -> Writer]
    <2>1. handler' \in [End -> Handler]
      <3>1. [handler[e] EXCEPT !.pc = "read", !.target = targetport[Obj_of(e)]]
              \in Handler
        BY <1>1, ThreadType DEF IInv, Handler, HandlerStep
      <3>2. handler' = [handler EXCEPT ![e] =
              [handler[e] EXCEPT !.pc = "read", !.target = targetport[Obj_of(e)]]]
        BY DEF IInv, TypeOK, HStart
      <3> QED
        BY <3>1, <3>2 DEF IInv, TypeOK, Handler
    <2>2. [NoWriter EXCEPT !.pc = "recv", !.run = TRUE] \in Writer
      BY ThreadType DEF IInv, NoWriter, Writer, WriterStep
    <2>3. writer' \in [End -> Writer]
      BY <2>2 DEF IInv, TypeOK, HStart, Writer
    <2> QED
      BY <2>1, <2>3
  <1>3. TypeOK'
    BY <1>2 DEF IInv, TypeOK, HStart, Handler, Writer, owner, server, data
  <1>4. \A x \in End : x # e => handler'[x] = handler[x] /\ writer'[x] = writer[x]
    BY DEF HStart, IInv, TypeOK
  <1>5. handler'[e].pc = "read"
    BY DEF HStart, IInv, TypeOK
  <1> QED
    BY <1>3, <1>4, <1>5, ThreadsKeep DEF HStart, owner, server, IInv,
       NoThreadSurvives

(* What a handler takes from the stream is a unit.                         *)
LEMMA HeadType ==
  ASSUME TypeOK, NEW e \in End, stream[e] # <<>>
  PROVE  /\ Head(stream[e]) \in Unit /\ Tail(stream[e]) \in Seq(Unit)
         /\ Len(Tail(stream[e])) <= Cap
  BY TunnelAssumption, ThreadType, HeadTailProperties

LEMMA HReadIInv == ASSUME IInv, NEW e \in End, HRead(e) PROVE IInv'
  <1> DEFINE u == Head(stream[other(e)])
             fits == IF handler[e].part = 0 THEN u.part = 0
                     ELSE u.d = handler[e].d /\ u.part = handler[e].part
             d == IF fits THEN u.d ELSE 0
  <1>1. other(e) \in End /\ TypeOK
    BY EndType DEF IInv
  <1>2. u \in Unit /\ Tail(stream[other(e)]) \in Seq(Unit)
        /\ Len(Tail(stream[other(e)])) <= Cap
    BY <1>1, HeadType DEF HRead
  <1>3. d \in Nat
    BY <1>2 DEF Unit
  <1>4. stream' \in [End -> Seq(Unit)] /\ \A x \in End : Len(stream'[x]) <= Cap
    BY <1>1, <1>2 DEF HRead, TypeOK
  <1>5. output' \in [End -> Seq(Nat)]
    <2>1. Append(output[e], d) \in Seq(Nat)
      BY <1>1, <1>3, ThreadType
    <2>2. output' = output \/ output' = [output EXCEPT ![e] = Append(@, d)]
      BY DEF HRead
    <2> QED
      BY <1>1, <2>1, <2>2 DEF TypeOK
  <1>6. /\ handler' \in [End -> Handler]
        /\ \A x \in End : handler'[x].pc = handler[x].pc
    <2>1. handler[e] \in Handler /\ 0 \in 0 .. plan.parts
      BY <1>1, ThreadType
    <2>2. CASE Complete(handler[e].part)
      <3>1. handler' = [handler EXCEPT ![e].d = 0, ![e].part = 0]
        BY <2>2 DEF HRead
      <3> QED
        BY <1>1, <2>1, <3>1 DEF TypeOK, Handler
    <2>3. CASE ~Complete(handler[e].part)
      <3>1. handler' = [handler EXCEPT ![e].d = d, ![e].part = @ + 1]
        BY <2>3 DEF HRead
      <3>2. handler[e].part + 1 \in 0 .. plan.parts
        BY <1>1, <2>1, <2>3, PartsType DEF Handler, Complete
      <3> HIDE DEF d
      <3> QED
        BY <1>1, <1>3, <2>1, <3>1, <3>2 DEF TypeOK, Handler
    <2> QED
      BY <2>2, <2>3
  <1>7. TypeOK'
    BY <1>4, <1>5, <1>6 DEF IInv, TypeOK, HRead, Handler, owner, server, port
  <1> QED
    BY <1>6, <1>7, ThreadsKeep DEF HRead, owner, server, IInv, NoThreadSurvives

LEMMA LeaveLoopIInv ==
  ASSUME IInv, NEW e \in End, handler[e].pc = "read", LeaveLoop(e) PROVE IInv'
  <1>1. handler' \in [End -> Handler] /\ writer' \in [End -> Writer]
    <2>1. handler' \in [End -> Handler]
      <3>1. [handler[e] EXCEPT !.pc = "wait", !.d = 0, !.part = 0] \in Handler
        BY ThreadType DEF IInv, Handler, HandlerStep
      <3>2. handler' = [handler EXCEPT ![e] =
              [handler[e] EXCEPT !.pc = "wait", !.d = 0, !.part = 0]]
        BY DEF IInv, TypeOK, LeaveLoop
      <3> QED
        BY <3>1, <3>2 DEF IInv, TypeOK, Handler
    <2>2. writer' \in [End -> Writer]
      BY ThreadType DEF IInv, TypeOK, LeaveLoop, Writer
    <2> QED
      BY <2>1, <2>2
  <1>2. TypeOK'
    BY <1>1 DEF IInv, TypeOK, LeaveLoop, Handler, Writer, owner, server, port, data
  <1>3. \A x \in End : x # e => handler'[x] = handler[x]
    BY DEF LeaveLoop, IInv, TypeOK
  <1>4. handler'[e].pc = "wait"
    BY DEF LeaveLoop, IInv, TypeOK
  <1>5. \A x \in End : writer'[x].pc = writer[x].pc
    BY DEF LeaveLoop, IInv, TypeOK
  <1> QED
    BY <1>2, <1>3, <1>4, <1>5, ThreadsKeep DEF LeaveLoop, owner, server, IInv,
       NoThreadSurvives

LEMMA HCloseIInv == ASSUME IInv, NEW e \in End, HClose(e) PROVE IInv'
  <1>1. handler' \in [End -> Handler]
    <2>1. TypeOK /\ "closed" \in HandlerStep
      BY DEF IInv, HandlerStep
    <2>2. [handler EXCEPT ![e].pc = "closed"] \in [End -> Handler]
      BY <2>1, HandlerStepType
    <2> QED
      BY <2>2 DEF HClose
  <1>2. stream' \in [End -> Seq(Unit)] /\ \A x \in End : Len(stream'[x]) <= Cap
    <2>1. stream' = [stream EXCEPT ![other(e)] = <<>>]
      BY DEF HClose
    <2>2. /\ stream \in [End -> Seq(Unit)] /\ \A x \in End : Len(stream[x]) <= Cap
          /\ other(e) \in End
      BY EndType DEF IInv, TypeOK
    <2>3. <<>> \in Seq(Unit) /\ Len(<<>>) <= Cap
      BY TunnelAssumption
    <2> QED
      BY <2>1, <2>2, <2>3
  <1>3. TypeOK'
    BY <1>1, <1>2 DEF IInv, TypeOK, HClose, Handler, owner, server, port
  <1>4. \A x \in End : x # e => handler'[x] = handler[x]
    BY DEF HClose, IInv, TypeOK
  <1>5. handler'[e].pc = "closed" /\ writer'[e].pc = "done"
    BY DEF HClose, IInv, TypeOK
  <1> QED
    BY <1>3, <1>4, <1>5, ThreadsKeep DEF HClose, owner, server, IInv,
       NoThreadSurvives

(* A writer takes a step: it had not ended.                                *)
LEMMA WriterKeeps ==
  ASSUME IInv, TypeOK', NEW e \in End, handler' = handler,
         UNCHANGED <<owner, server>>,
         writer[e].pc \notin {"none", "done"},
         \A x \in End : x # e => writer'[x] = writer[x]
  PROVE  IInv'
  <1>1. handler[e].pc # "closed"
    BY DEF IInv, NoThreadSurvives
  <1> QED
    BY <1>1, ThreadsKeep DEF owner, server, IInv, NoThreadSurvives

LEMMA WReceiveIInv == ASSUME IInv, NEW e \in End, WReceive(e) PROVE IInv'
  <1> DEFINE d == Len(input[e]) + 1
  <1>1. d \in Nat /\ Append(input[e], d) \in Seq(Nat)
    BY ThreadType DEF IInv
  <1>2. input' \in [End -> Seq(Nat)]
    BY <1>1 DEF WReceive, IInv, TypeOK
  <1>3. writer' = [writer EXCEPT ![e].pc = "write", ![e].d = d]
    BY DEF WReceive
  <1> HIDE DEF d
  <1>4. writer' \in [End -> Writer]
    <2>1. writer \in [End -> Writer]
      BY DEF IInv, TypeOK, Writer
    <2>2. [writer[e] EXCEPT !.pc = "write", !.d = d] \in Writer
      BY <1>1, <2>1 DEF Writer, WriterStep
    <2>3. writer' = [writer EXCEPT ![e] = [writer[e] EXCEPT !.pc = "write", !.d = d]]
      BY <1>3, <2>1
    <2> QED
      BY <2>1, <2>2, <2>3
  <1>5. TypeOK'
    BY <1>2, <1>4 DEF IInv, TypeOK, WReceive, Writer, owner, server, port
  <1> QED
    BY <1>3, <1>5, WriterKeeps DEF WReceive, IInv, TypeOK

LEMMA WEndIInv == ASSUME IInv, NEW e \in End, WEnd(e) PROVE IInv'
  <1>1. writer' \in [End -> Writer]
    <2>1. TypeOK /\ "done" \in WriterStep
      BY DEF IInv, WriterStep
    <2>2. [writer EXCEPT ![e].pc = "done"] \in [End -> Writer]
      BY <2>1, WriterStepType
    <2> QED
      BY <2>2 DEF WEnd
  <1>2. TypeOK'
    BY <1>1 DEF IInv, TypeOK, WEnd, Writer, owner, server, port, data
  <1> QED
    BY <1>2, WriterKeeps DEF WEnd, IInv, TypeOK

LEMMA WBlockIInv == ASSUME IInv, NEW e \in End, WBlock(e) PROVE IInv'
  <1>1. writer' \in [End -> Writer]
    <2>1. TypeOK /\ "blocked" \in WriterStep
      BY DEF IInv, WriterStep
    <2>2. [writer EXCEPT ![e].pc = "blocked"] \in [End -> Writer]
      BY <2>1, WriterStepType
    <2> QED
      BY <2>2 DEF WBlock
  <1>2. TypeOK'
    BY <1>1 DEF IInv, TypeOK, WBlock, Writer, owner, server, port, data
  <1> QED
    BY <1>2, WriterKeeps DEF WBlock, IInv, TypeOK

LEMMA GiveUpType ==
  ASSUME TypeOK, NEW e \in End PROVE GiveUp(e) \in [End -> Writer]
  <1>1. [writer[e] EXCEPT !.pc = "recv", !.d = 0, !.part = 0] \in Writer
    BY ThreadType DEF Writer, WriterStep
  <1>2. GiveUp(e) = [writer EXCEPT ![e] =
                       [writer[e] EXCEPT !.pc = "recv", !.d = 0, !.part = 0]]
    BY DEF TypeOK, GiveUp
  <1> QED
    BY <1>1, <1>2 DEF TypeOK, Writer

LEMMA WGiveUpIInv == ASSUME IInv, NEW e \in End, WGiveUp(e) PROVE IInv'
  <1>1. writer' \in [End -> Writer]
    BY GiveUpType DEF WGiveUp, IInv
  <1>2. TypeOK'
    BY <1>1 DEF IInv, TypeOK, WGiveUp, Writer, owner, server, port, data
  <1> QED
    BY <1>2, WriterKeeps DEF WGiveUp, GiveUp, Calls, IInv, TypeOK

LEMMA WWriteIInv == ASSUME IInv, NEW e \in End, WWrite(e) PROVE IInv'
  <1> DEFINE unit == [d |-> writer[e].d, part |-> writer[e].part]
             next == [writer EXCEPT ![e].pc = "write", ![e].part = @ + 1]
  <1>1. writer[e] \in Writer /\ plan.parts \in Nat
    BY ThreadType, PartsType DEF IInv
  <1>2. unit \in Unit
    BY <1>1 DEF Unit, Writer
  <1>3. /\ Append(stream[e], unit) \in Seq(Unit)
        /\ Len(Append(stream[e], unit)) <= Cap
    <2>1. stream[e] \in Seq(Unit) /\ Len(stream[e]) \in Nat /\ Len(stream[e]) < Cap
      BY ThreadType DEF IInv, WWrite
    <2>2. Len(Append(stream[e], unit)) = Len(stream[e]) + 1
      BY <1>2, <2>1, AppendProperties
    <2> QED
      BY <1>2, <2>1, <2>2, AppendProperties, TunnelAssumption
  <1>4. stream' = [stream EXCEPT ![e] = Append(stream[e], unit)]
    BY DEF WWrite
  <1>5. stream' \in [End -> Seq(Unit)] /\ \A x \in End : Len(stream'[x]) <= Cap
    BY <1>3, <1>4 DEF IInv, TypeOK
  <1>6. writer' \in [End -> Writer]
    <2>1. CASE writer[e].part = plan.parts
      BY <2>1, GiveUpType DEF WWrite, IInv
    <2>2. CASE writer[e].part # plan.parts
      <3>1. writer' = next
        BY <2>2 DEF WWrite
      <3>2. writer[e].part + 1 \in 0 .. plan.parts
        BY <1>1, <2>2 DEF Writer
      <3> QED
        BY <1>1, <3>1, <3>2 DEF IInv, TypeOK, Writer, WriterStep
    <2> QED
      BY <2>1, <2>2
  <1>7. TypeOK'
    BY <1>5, <1>6 DEF IInv, TypeOK, WWrite, Writer, owner, server, port
  <1>8. \A x \in End : x # e => writer'[x] = writer[x]
    BY DEF WWrite, GiveUp, IInv, TypeOK
  <1> QED
    BY <1>7, <1>8, WriterKeeps DEF WWrite, Calls, IInv, owner, server

LEMMA BreakIInv == ASSUME IInv, NEW k \in Conn, Break(k) PROVE IInv'
  <1>1. stream' \in [End -> Seq(Unit)] /\ \A x \in End : Len(stream'[x]) <= Cap
    <2>1. stream' = [x \in End |-> IF x \in {<<k, "c">>, <<k, "s">>} THEN <<>>
                                   ELSE stream[x]]
      BY ConnEnds DEF IInv, TypeOK, Break
    <2>2. Len(<<>>) <= Cap /\ <<>> \in Seq(Unit)
      BY TunnelAssumption
    <2> QED
      BY <2>1, <2>2 DEF IInv, TypeOK
  <1>2. TypeOK'
    BY <1>1 DEF IInv, TypeOK, Break, owner, server, port
  <1> QED
    BY <1>2, ThreadsKeep DEF Break, owner, server, IInv, NoThreadSurvives

----------------------------------------------------------------------------
(* Steps of the owners and of the acceptor. *)

LEMMA LifeKeeps ==
  ASSUME IInv, TypeOK', UNCHANGED <<server, handler, writer>>,
         \A k \in Conn : life[k] # "new" => life'[k] # "new",
         \A k \in Conn : life'[k] = "new" => life[k] = "new",
         \A k \in Conn : life'[k] = "gone" => life[k] = "gone" \/ Joined(<<k, "c">>),
         life'[SERVER] = "gone" =>
           life[SERVER] = "gone" \/ (acceptor.pc = "done" /\ HandlersJoined)
  PROVE  IInv'
  <1>1. \A i \in 1 .. Len(backlog) : backlog[i] \in Conn
    BY DEF IInv, TypeOK
  <1>2. Waiting'
    BY <1>1 DEF IInv, Waiting, Unserved, server
  <1>3. Serving'
    BY DEF IInv, Serving, Unserved, server
  <1>4. Table'
    BY DEF IInv, Table, Joined, server
  <1>5. (acceptor.pc = "done" /\ HandlersJoined) => \A k \in Conn : Joined(<<k, "s">>)
    BY ConnEnds, TunnelAssumption DEF IInv, Table, HandlersJoined
  <1>6. NoThreadSurvives'
    BY <1>5 DEF IInv, NoThreadSurvives, Joined, server
  <1> QED
    BY <1>2, <1>3, <1>4, <1>6 DEF IInv

LEMMA ConnectedIInv == ASSUME IInv, NEW k \in Conn, Connected(k) PROVE IInv'
  <1>1. TypeOK'
    BY ConnEnds DEF IInv, TypeOK, Connected, server, port, data
  <1>2. \A x \in Obj : life'[x] = life[x]
                         \/ (life[x] = "connecting" /\ life'[x] = "ready")
    BY DEF IInv, TypeOK, Connected
  <1>3. SERVER \in Obj /\ Conn \subseteq Obj
    BY DEF Obj
  <1> QED
    BY <1>1, <1>2, <1>3, LifeKeeps DEF Connected

LEMMA CloseIInv == ASSUME IInv, NEW o \in Obj, Close(o) PROVE IInv'
  <1>1. TypeOK'
    BY DEF IInv, TypeOK, Close, server, port, data
  <1>2. \A x \in Obj : life'[x] = life[x] \/ (life[x] = "ready" /\ life'[x] = "closing")
    BY DEF IInv, TypeOK, Close
  <1>3. SERVER \in Obj /\ Conn \subseteq Obj
    BY DEF Obj
  <1> QED
    BY <1>1, <1>2, <1>3, LifeKeeps DEF Close

LEMMA DestroyedIInv == ASSUME IInv, NEW k \in Conn, Destroyed(k) PROVE IInv'
  <1>1. TypeOK'
    BY ConnEnds DEF IInv, TypeOK, Destroyed, server, port, data
  <1>2. life' = [life EXCEPT ![k] = "gone"] /\ life[k] = "closing"
        /\ Joined(<<k, "c">>)
    BY DEF Destroyed
  <1>3. \A x \in Conn : x # k => life'[x] = life[x]
    BY <1>2 DEF IInv, TypeOK, Obj
  <1>4. life'[k] = "gone" /\ life'[SERVER] = life[SERVER]
    BY <1>2, ConnEnds DEF IInv, TypeOK, Obj
  <1> QED
    BY <1>1, <1>2, <1>3, <1>4, LifeKeeps DEF Destroyed

(* The owner of the server moves on. *)
LEMMA ServerLife ==
  ASSUME IInv, NEW l, life' = [life EXCEPT ![SERVER] = l]
  PROVE  life'[SERVER] = l /\ \A k \in Conn : life'[k] = life[k]
  BY ConnEnds DEF IInv, TypeOK, Obj

LEMMA BoundIInv == ASSUME IInv, Bound PROVE IInv'
  <1>1. SERVER \in Obj
    BY DEF Obj
  <1>2. TypeOK'
    BY <1>1 DEF IInv, TypeOK, Bound, server, data
  <1> QED
    BY <1>2, ServerLife, LifeKeeps DEF Bound

LEMMA ServerDestroyedIInv == ASSUME IInv, ServerDestroyed PROVE IInv'
  <1>1. SERVER \in Obj
    BY DEF Obj
  <1>2. TypeOK'
    BY <1>1 DEF IInv, TypeOK, ServerDestroyed, server, port, data
  <1> QED
    BY <1>2, ServerLife, LifeKeeps DEF ServerDestroyed

LEMMA BindIInv == ASSUME IInv, Bind PROVE IInv'
  <1>1. SERVER \in Obj
    BY DEF Obj
  <1>2. TypeOK'
    BY <1>1 DEF IInv, TypeOK, Bind, port, data
  <1>3. life'[SERVER] = "binding" /\ \A k \in Conn : life'[k] = life[k]
    BY ServerLife DEF Bind
  <1>4. \A i \in 1 .. Len(backlog) : backlog[i] \in Conn
    BY DEF IInv, TypeOK
  <1>5. Waiting'
    BY <1>3, <1>4 DEF IInv, Waiting, Unserved, Bind
  <1>6. acceptor'.pc = "accept"
    BY DEF IInv, TypeOK, Bind
  <1>7. Serving' /\ Table'
    BY <1>6 DEF IInv, Serving, Table, Joined, Bind
  <1>8. NoThreadSurvives'
    BY <1>3 DEF IInv, NoThreadSurvives, Joined, Bind
  <1> QED
    BY <1>2, <1>5, <1>7, <1>8 DEF IInv

LEMMA EndAcceptorIInv == ASSUME IInv, EndAcceptor PROVE IInv'
  <1>1. TypeOK'
    BY DEF IInv, TypeOK, EndAcceptor, owner, port, data
  <1>2. acceptor'.pc = "done"
    BY DEF IInv, TypeOK, EndAcceptor
  <1>3. Waiting' /\ Serving' /\ Table'
    BY <1>2 DEF IInv, Waiting, Unserved, Serving, Table, Joined, EndAcceptor, owner
  <1>4. NoThreadSurvives'
    BY <1>2 DEF IInv, NoThreadSurvives, Joined, EndAcceptor, owner
  <1> QED
    BY <1>1, <1>3, <1>4 DEF IInv

(* A connection that connects was never seen before.                       *)
LEMMA ConnectIInv == ASSUME IInv, NEW k \in Conn, Connect(k) PROVE IInv'
  <1>1. backlog' = Append(backlog, k) /\ backlog \in Seq(Conn) /\ life[k] = "new"
    BY DEF Connect, IInv, TypeOK
  <1>2. /\ backlog' \in Seq(Conn)
        /\ Len(backlog') = Len(backlog) + 1
        /\ \A i \in 1 .. Len(backlog) : backlog'[i] = backlog[i]
        /\ backlog'[Len(backlog) + 1] = k
    BY <1>1, AppendProperties
  <1>3. handler' \in [End -> Handler]
    <2>1. TypeOK /\ <<k, "c">> \in End /\ "start" \in HandlerStep
      BY ConnEnds DEF IInv, HandlerStep
    <2>2. [handler EXCEPT ![<<k, "c">>].pc = "start"] \in [End -> Handler]
      BY <2>1, HandlerStepType
    <2> QED
      BY <2>2 DEF Connect
  <1>4. TypeOK'
    BY <1>2, <1>3, ConnEnds DEF IInv, TypeOK, Connect, Handler, data
  <1>5. \A x \in End : x # <<k, "c">> => handler'[x] = handler[x]
    BY DEF Connect, IInv, TypeOK
  <1>6. handler'[<<k, "c">>].pc = "start"
    <2>1. handler' = [handler EXCEPT ![<<k, "c">>].pc = "start"]
      BY DEF Connect
    <2>2. <<k, "c">> \in End /\ handler \in [End -> Handler]
      BY ConnEnds DEF IInv, TypeOK, Handler
    <2>3. handler[<<k, "c">>] \in Handler
      BY <2>2
    <2> QED
      BY <2>1, <2>2, <2>3 DEF Handler
  <1>7. \A q \in Conn : <<q, "s">> \in End /\ handler'[<<q, "s">>] = handler[<<q, "s">>]
    BY <1>5, ConnEnds
  <1>8. life'[k] = "connecting" /\ \A o \in Obj : o # k => life'[o] = life[o]
    <2>1. life' = [life EXCEPT ![k] = "connecting"] /\ DOMAIN life = Obj
      BY DEF Connect, IInv, TypeOK
    <2> QED
      BY <2>1, ConnEnds
  <1>9. Conn \subseteq Obj /\ SERVER \in Obj /\ SERVER # k
    BY ConnEnds DEF Obj
  <1>10. \A i \in 1 .. Len(backlog) : backlog[i] \in Conn /\ backlog[i] # k
    <2>1. \A i \in 1 .. Len(backlog) : backlog[i] \in Conn
      BY <1>1
    <2> QED
      BY <1>1, <2>1 DEF IInv, Waiting, Unserved
  <1>11. Waiting'
    <2>1. \A q \in Conn : Unserved(q) => Unserved(q)'
      BY <1>7, <1>8, <1>9 DEF Unserved
    <2>2. Unserved(k)'
      BY <1>1, <1>7, <1>8 DEF Unserved, IInv, Waiting
    <2>3. \A i \in 1 .. Len(backlog') :
            (i \in 1 .. Len(backlog)) \/ i = Len(backlog) + 1
      BY <1>1, <1>2
    <2>4. \A i \in 1 .. Len(backlog') :
            /\ handler'[<<backlog'[i], "s">>].pc = "none"
            /\ life'[backlog'[i]] # "new"
      BY <1>2, <1>10, <2>1, <2>2, <2>3 DEF IInv, Waiting, Unserved
    <2>5. \A i, j \in 1 .. Len(backlog') : backlog'[i] = backlog'[j] => i = j
      BY <1>2, <1>10, <2>3 DEF IInv, Waiting
    <2>6. \A q \in Conn : life'[q] = "new" => handler'[<<q, "s">>].pc = "none"
      BY <1>7, <1>8, <1>9 DEF IInv, Waiting
    <2> QED
      BY <2>4, <2>5, <2>6 DEF Waiting, Unserved
  <1>12. Serving'
    <2>1. acceptor.pc = "start" => acceptor.k # k
      BY <1>1 DEF IInv, Serving, Unserved
    <2>2. \A i \in 1 .. Len(backlog') :
            (i \in 1 .. Len(backlog)) \/ i = Len(backlog) + 1
      BY <1>1, <1>2
    <2> QED
      BY <1>2, <1>7, <1>8, <1>9, <2>1, <2>2 DEF IInv, Serving, Unserved, Connect
  <1>13. Table'
    BY <1>7 DEF IInv, Table, Joined, Connect
  <1>14. NoThreadSurvives'
    <2>1. \A e \in End : handler'[e].pc = "closed" =>
            writer'[e].pc \in {"none", "done"}
      BY <1>5, <1>6 DEF IInv, NoThreadSurvives, Connect
    <2>2. \A q \in Conn : life'[q] = "gone" => q # k /\ life[q] = "gone"
      BY <1>8, <1>9
    <2>3. \A q \in Conn : q # k => <<q, "c">> \in End /\ handler'[<<q, "c">>] = handler[<<q, "c">>]
      BY <1>5, ConnEnds
    <2>4. life'[SERVER] = life[SERVER]
      BY <1>8, <1>9
    <2> QED
      BY <1>7, <2>1, <2>2, <2>3, <2>4 DEF IInv, NoThreadSurvives, Joined, Connect
  <1> QED
    BY <1>4, <1>11, <1>12, <1>13, <1>14 DEF IInv

(* What waits first gets a descriptor; its handler did not run yet.        *)
LEMMA AcceptIInv == ASSUME IInv, Accept PROVE IInv'
  <1> DEFINE k == Head(backlog)
  <1>1. PICK f \in Fd : /\ acceptor' = [pc |-> "start", k |-> k, fd |-> f]
                        /\ fd' = [fd EXCEPT ![k] = f]
    BY DEF Accept
  <1>2. backlog # <<>> /\ backlog' = Tail(backlog) /\ backlog \in Seq(Conn)
    BY DEF Accept, IInv, TypeOK
  <1>3. /\ k \in Conn /\ k = backlog[1] /\ 1 \in 1 .. Len(backlog)
        /\ backlog' \in Seq(Conn)
        /\ \A i \in 1 .. Len(backlog') :
             i + 1 \in 1 .. Len(backlog) /\ backlog'[i] = backlog[i + 1] /\ i + 1 # 1
    BY <1>2, HeadTailProperties
  <1> HIDE DEF k
  <1>4. TypeOK'
    BY <1>1, <1>3 DEF IInv, TypeOK, Accept, owner, port, data
  <1>5. Unserved(k) /\ Joined(<<k, "s">>)
    BY <1>3 DEF IInv, Waiting, Unserved, Joined
  <1>6. fd'[k] = f /\ \A q \in Conn : q # k => fd'[q] = fd[q]
    BY <1>1, <1>3 DEF IInv, TypeOK
  <1>7. Waiting'
    <2>1. \A i \in 1 .. Len(backlog') :
            /\ handler'[<<backlog'[i], "s">>].pc = "none"
            /\ life'[backlog'[i]] # "new"
      BY <1>3 DEF IInv, Waiting, Unserved, Accept, owner
    <2>2. \A i, j \in 1 .. Len(backlog') : backlog'[i] = backlog'[j] => i = j
      BY <1>3 DEF IInv, Waiting
    <2> QED
      BY <2>1, <2>2 DEF IInv, Waiting, Unserved, Accept, owner
  <1>8. Serving'
    <2>1. \A i \in 1 .. Len(backlog') : backlog'[i] # k
      BY <1>3 DEF IInv, Waiting
    <2> QED
      BY <1>1, <1>3, <1>5, <1>6, <2>1 DEF Serving, Unserved, Accept, owner
  <1>9. Table'
    BY <1>5, <1>6 DEF IInv, Table, Joined, Accept
  <1>10. acceptor.pc = "accept"
    BY DEF Accept
  <1>11. NoThreadSurvives'
    BY <1>5, <1>6, <1>10 DEF IInv, NoThreadSurvives, Joined, Accept, owner
  <1> QED
    BY <1>4, <1>7, <1>8, <1>9, <1>11 DEF IInv

(* The thread that had the descriptor has ended, so that the place in the  *)
(* table is free.                                                          *)
LEMMA StartHandlerIInv == ASSUME IInv, StartHandler PROVE IInv'
  <1> DEFINE f == acceptor.fd  k == acceptor.k
  <1>1. /\ k \in Conn /\ f \in Fd /\ fd[k] = f /\ Unserved(k)
        /\ \A i \in 1 .. Len(backlog) : backlog[i] # k
    BY DEF IInv, Serving, StartHandler
  <1>2. /\ handlethreads[f] # 0 => Joined(<<handlethreads[f], "s">>)
        /\ handlethreads' = [handlethreads EXCEPT ![f] = k]
        /\ handler' = [handler EXCEPT ![<<k, "s">>].pc = "start"]
        /\ acceptor' = [pc |-> IF run_server[SERVER] THEN "accept" ELSE "done",
                        k |-> 0, fd |-> 0]
        /\ UNCHANGED <<plan, run_server, owner, backlog, fd, port, conn, writer, data>>
    BY DEF StartHandler
  <1> HIDE DEF f, k
  <1>3. handler' \in [End -> Handler]
    <2>1. TypeOK /\ <<k, "s">> \in End /\ "start" \in HandlerStep
      BY <1>1, ConnEnds DEF IInv, HandlerStep
    <2>2. [handler EXCEPT ![<<k, "s">>].pc = "start"] \in [End -> Handler]
      BY <2>1, HandlerStepType
    <2> QED
      BY <1>2, <2>2
  <1>4. TypeOK'
    BY <1>1, <1>2, <1>3 DEF IInv, TypeOK, Handler, owner, port, data
  <1>5. \A x \in End : x # <<k, "s">> => handler'[x] = handler[x]
    BY <1>2 DEF IInv, TypeOK
  <1>6. handler'[<<k, "s">>].pc = "start"
    <2>1. <<k, "s">> \in End /\ handler[<<k, "s">>] \in Handler
      BY <1>1, ConnEnds, ThreadType DEF IInv
    <2>2. handler \in [End -> Handler]
      BY DEF IInv, TypeOK, Handler
    <2>3. [handler[<<k, "s">>] EXCEPT !.pc = "start"].pc = "start"
      BY <2>1 DEF Handler
    <2> QED
      BY <1>2, <2>1, <2>2, <2>3
  <1>7. \A q \in Conn : q # k => handler'[<<q, "s">>] = handler[<<q, "s">>]
    BY <1>5, ConnEnds
  <1>8. \A q \in Conn : handler'[<<q, "c">>] = handler[<<q, "c">>]
    BY <1>5, ConnEnds
  <1>9. Waiting'
    <2>1. \A i \in 1 .. Len(backlog) : backlog[i] \in Conn
      BY DEF IInv, TypeOK
    <2> QED
      BY <1>1, <1>2, <1>7, <2>1 DEF IInv, Waiting, Unserved, owner
  <1>10. Serving'
    BY <1>2 DEF Serving
  <1>11. handlethreads'[f] = k /\ \A g \in Fd : g # f => handlethreads'[g] = handlethreads[g]
    BY <1>1, <1>2 DEF IInv, TypeOK
  <1>12. ASSUME NEW q \in Conn
         PROVE  Joined(<<q, "s">>)' \/ (fd'[q] \in Fd /\ handlethreads'[fd'[q]] = q)
    <2>1. CASE q = k
      BY <1>1, <1>2, <1>11, <2>1
    <2>2. CASE q # k /\ Joined(<<q, "s">>)
      BY <1>7, <2>2 DEF Joined
    <2>3. CASE q # k /\ ~Joined(<<q, "s">>)
      <3>1. fd[q] \in Fd /\ handlethreads[fd[q]] = q /\ q # 0
        BY <2>3, TunnelAssumption DEF IInv, Table
      <3>2. fd[q] # f
        BY <1>2, <2>3, <3>1
      <3> QED
        BY <1>2, <1>11, <3>1, <3>2
    <2> QED
      BY <2>1, <2>2, <2>3
  <1>13. Table'
    BY <1>12 DEF Table
  <1>14. NoThreadSurvives'
    <2>1. \A e \in End : handler'[e].pc = "closed" =>
            writer'[e].pc \in {"none", "done"}
      BY <1>2, <1>5, <1>6 DEF IInv, NoThreadSurvives
    <2>2. life[SERVER] # "gone"
      BY DEF IInv, NoThreadSurvives, StartHandler
    <2> QED
      BY <1>2, <1>8, <1>12, <2>1, <2>2 DEF IInv, NoThreadSurvives, Joined, owner
  <1> QED
    BY <1>4, <1>9, <1>10, <1>13, <1>14 DEF IInv

----------------------------------------------------------------------------
LEMMA NextIInv == IInv /\ [Next]_vars => IInv'
  <1> SUFFICES ASSUME IInv, [Next]_vars PROVE IInv'
    OBVIOUS
  <1>1. CASE Bind \/ ServerNext
    BY <1>1, BindIInv, BoundIInv, AcceptIInv, StartHandlerIInv, EndAcceptorIInv,
       ServerDestroyedIInv DEF ServerNext
  <1>2. ASSUME NEW k \in Conn, Connect(k) \/ ClientNext(k) \/ Break(k)
        PROVE  IInv'
    BY <1>2, ConnectIInv, ConnectedIInv, DestroyedIInv, BreakIInv DEF ClientNext
  <1>3. ASSUME NEW o \in Obj, Close(o) PROVE IInv'
    BY <1>3, CloseIInv
  <1>4. ASSUME NEW e \in End, HandlerNext(e) PROVE IInv'
    <2>1. CASE HQuit(e) \/ HEof(e)
      BY <2>1, LeaveLoopIInv DEF HQuit, HEof
    <2> QED
      BY <1>4, <2>1, HStartIInv, HReadIInv, HCloseIInv DEF HandlerNext
  <1>5. ASSUME NEW e \in End, WriterNext(e) \/ WReceive(e) PROVE IInv'
    BY <1>5, WReceiveIInv, WEndIInv, WBlockIInv, WWriteIInv, WGiveUpIInv
       DEF WriterNext
  <1>6. CASE UNCHANGED vars
    <2>1. TypeOK'
      BY <1>6 DEF IInv, TypeOK, vars, owner, server, port, data
    <2> QED
      BY <1>6, <2>1, ThreadsKeep DEF vars, owner, server, IInv, NoThreadSurvives
  <1> QED
    BY <1>1, <1>2, <1>3, <1>4, <1>5, <1>6 DEF Next

THEOREM Invariance == Spec => []IInv
  BY InitIInv, NextIInv, PTL DEF Spec

(* Threads, streams and ports keep their types.                            *)
THEOREM TypeCorrect == Spec => []TypeOK
  <1>1. IInv => TypeOK
    BY DEF IInv
  <1> QED
    BY <1>1, Invariance, PTL

(* For any number of connections, in every interleaving: no writer is left *)
(* with a descriptor that belongs to another connection, and a destructor  *)
(* that returns leaves no thread of its object behind.                     *)
THEOREM NoThreadLeft == Spec => []NoThreadSurvives
  <1>1. IInv => NoThreadSurvives
    BY DEF IInv
  <1> QED
    BY <1>1, Invariance, PTL
----------------------------------------------------------------------------
(* The end of a connection.  An end is to finish when its object ends, the *)
(* connection is broken or the other end has closed it.                    *)
Ending(e) == ~running(e) \/ conn[e[1]] = "broken" \/ PeerClosed(e)

(* The flag of an object follows its owner, and a handler leaves its loop  *)
(* for a reason that lasts; it tells its writer, which it has started.     *)
Flags ==
  \A o \in Obj : run_server[o] <=> life[o] \notin {"closing", "gone"}

Untried ==
  \A k \in Conn :
    life[k] = "new" => conn[k] = "none" /\ handler[<<k, "c">>].pc = "none"

Leaving ==
  \A e \in End :
    /\ handler[e].pc \in {"wait", "closed"} => Ending(e)
    /\ handler[e].pc = "wait" => ~writer[e].run
    /\ handler[e].pc \in {"read", "wait"} => writer[e].pc # "none"

EndInv == Flags /\ Untried /\ Leaving

(* What a step may do to the two threads of an end. *)
WriterMoves(e) ==
  \/ writer[e].pc = "recv" /\ writer[e].run /\ writer'[e].pc = "write"
  \/ writer[e].pc = "recv" /\ ~writer[e].run /\ writer'[e].pc = "done"
  \/ writer[e].pc = "write" /\ running(e) /\ Usable(e) /\ writer'[e].pc = "blocked"
  \/ writer[e].pc \in {"write", "blocked"} /\ writer'[e].pc = "recv"
  \/ Calls(e) /\ Usable(e) /\ writer'[e].pc = "write"

ThreadMoves(e) ==
  \/ handler'[e].pc = handler[e].pc /\ writer'[e] = writer[e]
  \/ handler[e].pc = "none" /\ handler'[e].pc = "start" /\ writer'[e] = writer[e]
  \/ /\ handler[e].pc = "start" /\ handler'[e].pc = "read"
     /\ writer'[e].pc = "recv" /\ writer'[e].run
  \/ /\ handler[e].pc = "read" /\ handler'[e].pc = "wait" /\ Ending(e)
     /\ writer'[e].pc = writer[e].pc /\ ~writer'[e].run
  \/ /\ handler[e].pc = "wait" /\ handler'[e].pc = "closed"
     /\ writer[e].pc = "done" /\ writer'[e] = writer[e]
  \/ handler'[e].pc = handler[e].pc /\ writer'[e].run = writer[e].run /\ WriterMoves(e)

LEMMA HandlerMoves ==
  ASSUME IInv, NEW e \in End, HandlerNext(e), NEW x \in End
  PROVE  ThreadMoves(x)
  <1>1. handler \in [End -> Handler] /\ writer \in [End -> Writer]
    BY DEF IInv, TypeOK, Handler, Writer
  <1>2. CASE HStart(e)
    <2>1. CASE x = e
      <3>1. handler'[e].pc = "read" /\ writer'[e].pc = "recv" /\ writer'[e].run
        BY <1>1, <1>2 DEF HStart, Handler, NoWriter
      <3> QED
        BY <1>2, <2>1, <3>1 DEF HStart, ThreadMoves
    <2>2. CASE x # e
      BY <1>1, <1>2, <2>2 DEF HStart, ThreadMoves
    <2> QED
      BY <2>1, <2>2
  <1>3. CASE HRead(e)
    <2>1. handler'[x].pc = handler[x].pc
      BY <1>1, <1>3 DEF HRead, Handler
    <2> QED
      BY <1>3, <2>1 DEF HRead, ThreadMoves
  <1>4. CASE HQuit(e) \/ HEof(e)
    <2>1. LeaveLoop(e) /\ Ending(e) /\ handler[e].pc = "read"
      BY <1>4 DEF HQuit, HEof, Ending
    <2>2. CASE x = e
      <3>1. /\ handler'[e].pc = "wait" /\ writer'[e].pc = writer[e].pc
            /\ ~writer'[e].run
        BY <1>1, <2>1 DEF LeaveLoop, Handler, Writer
      <3> QED
        BY <2>1, <2>2, <3>1 DEF ThreadMoves
    <2>3. CASE x # e
      BY <1>1, <2>1, <2>3 DEF LeaveLoop, ThreadMoves
    <2> QED
      BY <2>2, <2>3
  <1>5. CASE HClose(e)
    <2>1. handler'[e].pc = "closed" /\ (x # e => handler'[x] = handler[x])
      BY <1>1, <1>5 DEF HClose, Handler
    <2> QED
      BY <1>5, <2>1 DEF HClose, ThreadMoves
  <1> QED
    BY <1>2, <1>3, <1>4, <1>5 DEF HandlerNext

LEMMA WriterMovesOn ==
  ASSUME IInv, NEW e \in End, WriterNext(e) \/ WReceive(e), NEW x \in End
  PROVE  ThreadMoves(x)
  <1>1. writer \in [End -> Writer] /\ handler' = handler
    BY DEF IInv, TypeOK, Writer, WriterNext, WReceive, WEnd, WBlock, WWrite, WGiveUp
  <1>2. CASE x # e
    <2>1. writer'[x] = writer[x]
      BY <1>1, <1>2 DEF WriterNext, WReceive, WEnd, WBlock, WWrite, WGiveUp, GiveUp
    <2> QED
      BY <1>1, <2>1 DEF ThreadMoves
  <1>3. CASE x = e
    <2>1. GiveUp(e)[e].pc = "recv" /\ GiveUp(e)[e].run = writer[e].run
      BY <1>1 DEF GiveUp, Writer
    <2>2. CASE WReceive(e)
      <3>1. writer'[e].pc = "write" /\ writer'[e].run = writer[e].run
        BY <1>1, <2>2 DEF WReceive, Writer
      <3> QED
        BY <1>1, <1>3, <2>2, <3>1 DEF WReceive, ThreadMoves, WriterMoves
    <2>3. CASE WEnd(e)
      <3>1. writer'[e].pc = "done" /\ writer'[e].run = writer[e].run
        BY <1>1, <2>3 DEF WEnd, Writer
      <3> QED
        BY <1>1, <1>3, <2>3, <3>1 DEF WEnd, ThreadMoves, WriterMoves
    <2>4. CASE WBlock(e)
      <3>1. writer'[e].pc = "blocked" /\ writer'[e].run = writer[e].run
        BY <1>1, <2>4 DEF WBlock, Writer
      <3> QED
        BY <1>1, <1>3, <2>4, <3>1 DEF WBlock, ThreadMoves, WriterMoves
    <2>5. CASE WGiveUp(e)
      BY <1>1, <1>3, <2>1, <2>5 DEF WGiveUp, Calls, ThreadMoves, WriterMoves
    <2>6. CASE WWrite(e)
      <3>1. CASE writer[e].part = plan.parts
        <4>1. writer' = GiveUp(e)
          BY <2>6, <3>1 DEF WWrite
        <4> QED
          BY <1>1, <1>3, <2>1, <2>6, <4>1 DEF WWrite, Calls, ThreadMoves, WriterMoves
      <3>2. CASE writer[e].part # plan.parts
        <4>1. writer' = [writer EXCEPT ![e].pc = "write", ![e].part = @ + 1]
          BY <2>6, <3>2 DEF WWrite
        <4>2. writer'[e].pc = "write" /\ writer'[e].run = writer[e].run
          BY <1>1, <4>1 DEF Writer
        <4> QED
          BY <1>1, <1>3, <2>6, <4>2 DEF WWrite, ThreadMoves, WriterMoves
      <3> QED
        BY <3>1, <3>2
    <2> QED
      BY <2>2, <2>3, <2>4, <2>5, <2>6 DEF WriterNext
  <1> QED
    BY <1>2, <1>3

(* Every step of the tunnel. *)
LEMMA EveryStepMoves ==
  ASSUME IInv, EndInv, [Next]_vars, NEW x \in End
  PROVE  ThreadMoves(x)
  <1>1. handler \in [End -> Handler] /\ writer \in [End -> Writer]
    BY DEF IInv, TypeOK, Handler, Writer
  <1>2. ASSUME NEW k \in Conn, Connect(k) PROVE ThreadMoves(x)
    <2>1. handler[<<k, "c">>].pc = "none" /\ <<k, "c">> \in End
      BY <1>2, ConnEnds DEF Connect, EndInv, Untried
    <2>2. /\ handler'[<<k, "c">>].pc = "start"
          /\ x # <<k, "c">> => handler'[x] = handler[x]
      BY <1>1, <1>2, <2>1 DEF Connect, Handler
    <2> QED
      BY <1>2, <2>1, <2>2 DEF Connect, ThreadMoves
  <1>3. CASE StartHandler
    <2>1. /\ acceptor.k \in Conn /\ handler[<<acceptor.k, "s">>].pc = "none"
          /\ <<acceptor.k, "s">> \in End
      BY <1>3, ConnEnds DEF StartHandler, IInv, Serving, Unserved
    <2>2. /\ handler'[<<acceptor.k, "s">>].pc = "start"
          /\ x # <<acceptor.k, "s">> => handler'[x] = handler[x]
      BY <1>1, <1>3, <2>1 DEF StartHandler, Handler
    <2> QED
      BY <1>3, <2>1, <2>2 DEF StartHandler, ThreadMoves
  <1>4. CASE Bind \/ Bound \/ Accept \/ EndAcceptor \/ ServerDestroyed
    BY <1>4 DEF Bind, Bound, Accept, EndAcceptor, ServerDestroyed, ThreadMoves
  <1>5. ASSUME NEW k \in Conn, ClientNext(k) \/ Break(k) PROVE ThreadMoves(x)
    BY <1>5 DEF ClientNext, Connected, Destroyed, Break, ThreadMoves
  <1>6. ASSUME NEW o \in Obj, Close(o) PROVE ThreadMoves(x)
    BY <1>6 DEF Close, ThreadMoves
  <1>7. CASE UNCHANGED vars
    BY <1>7 DEF vars, ThreadMoves
  <1> QED
    BY <1>2, <1>3, <1>4, <1>5, <1>6, <1>7, HandlerMoves, WriterMovesOn
       DEF Next, ServerNext

(* The reasons to finish last: no flag is set again, no connection mended. *)
LEMMA ReasonsLast ==
  ASSUME IInv, EndInv, [Next]_vars
  PROVE  /\ Flags'
         /\ \A o \in Obj : ~run_server[o] => ~run_server'[o]
         /\ \A k \in Conn : conn[k] = "broken" => conn'[k] = "broken"
  <1>1. /\ life \in [Obj -> {"new", "connecting", "binding", "ready", "closing", "gone"}]
        /\ run_server \in [Obj -> BOOLEAN] /\ Flags
        /\ conn \in [Conn -> {"none", "up", "broken"}]
    BY DEF IInv, TypeOK, EndInv
  <1> DEFINE Good == /\ Flags'
                     /\ \A o \in Obj : ~run_server[o] => ~run_server'[o]
                     /\ \A k \in Conn : conn[k] = "broken" => conn'[k] = "broken"
  <1>2. ASSUME NEW k \in Conn, Connect(k) PROVE Good
    <2>1. /\ life' = [life EXCEPT ![k] = "connecting"] /\ life[k] = "new"
          /\ run_server' = [run_server EXCEPT ![k] = TRUE] /\ k \in Obj
          /\ conn' = [conn EXCEPT ![k] = "up"]
      BY <1>2, ConnEnds DEF Connect
    <2>2. \A o \in Obj : o # k => life'[o] = life[o] /\ run_server'[o] = run_server[o]
      BY <1>1, <2>1
    <2>3. run_server[k] /\ run_server'[k] /\ life'[k] = "connecting"
      BY <1>1, <2>1 DEF Flags
    <2>4. conn[k] # "broken"
      BY <1>2 DEF Connect, EndInv, Untried
    <2> QED
      BY <1>1, <2>1, <2>2, <2>3, <2>4 DEF Flags
  <1>3. CASE Bind
    <2>1. /\ life' = [life EXCEPT ![SERVER] = "binding"] /\ life[SERVER] = "new"
          /\ run_server' = [run_server EXCEPT ![SERVER] = TRUE] /\ SERVER \in Obj
          /\ conn' = conn
      BY <1>3 DEF Bind, Obj
    <2> QED
      BY <1>1, <2>1 DEF Flags
  <1>4. ASSUME NEW o \in Obj, Close(o) PROVE Good
    BY <1>1, <1>4 DEF Close, Flags
  <1>5. ASSUME NEW k \in Conn, ClientNext(k) PROVE Good
    BY <1>1, <1>5, ConnEnds DEF ClientNext, Connected, Destroyed, Flags
  <1>6. CASE Bound \/ ServerDestroyed
    <2>1. SERVER \in Obj /\ run_server' = run_server /\ conn' = conn
      BY <1>6 DEF Obj, Bound, ServerDestroyed
    <2>2. \/ life[SERVER] = "binding" /\ life' = [life EXCEPT ![SERVER] = "ready"]
          \/ life[SERVER] = "closing" /\ life' = [life EXCEPT ![SERVER] = "gone"]
      BY <1>6 DEF Bound, ServerDestroyed
    <2>3. run_server[SERVER] <=> life'[SERVER] \notin {"closing", "gone"}
      BY <1>1, <2>1, <2>2 DEF Flags
    <2>4. \A o \in Obj : o # SERVER => life'[o] = life[o]
      BY <1>1, <2>2
    <2> QED
      BY <1>1, <2>1, <2>3, <2>4 DEF Flags
  <1>7. ASSUME NEW k \in Conn, Break(k) PROVE Good
    BY <1>1, <1>7 DEF Break, Flags, owner
  <1>8. CASE UNCHANGED <<run_server, life, conn>>
    BY <1>1, <1>8 DEF Flags
  <1>9. ASSUME NEW e \in End, HandlerNext(e) \/ WriterNext(e) \/ WReceive(e)
        PROVE  UNCHANGED <<run_server, life, conn>>
    BY <1>9 DEF HandlerNext, HStart, HRead, HQuit, HEof, LeaveLoop, HClose,
       WriterNext, WReceive, WEnd, WBlock, WWrite, WGiveUp, owner
  <1>10. CASE Accept \/ StartHandler \/ EndAcceptor \/ UNCHANGED vars
    BY <1>8, <1>10 DEF Accept, StartHandler, EndAcceptor, vars, owner
  <1> QED
    BY <1>2, <1>3, <1>4, <1>5, <1>6, <1>7, <1>8, <1>9, <1>10 DEF Next, ServerNext

LEMMA EndInvNext == IInv /\ EndInv /\ [Next]_vars => EndInv'
  <1> SUFFICES ASSUME IInv, EndInv, [Next]_vars PROVE EndInv'
    OBVIOUS
  <1>1. Flags'
    BY ReasonsLast
  <1>2. \A e \in End : ThreadMoves(e)
    BY EveryStepMoves
  <1>3. ASSUME NEW e \in End, Ending(e) PROVE Ending(e)'
    <2>1. Obj_of(e) \in Obj /\ e[1] \in Conn /\ other(e) \in End
      BY EndType
    <2>2. handler[other(e)].pc = "closed" => handler'[other(e)].pc = "closed"
      BY <1>2, <2>1 DEF ThreadMoves
    <2> QED
      BY <1>3, <2>1, <2>2, ReasonsLast DEF Ending, running, PeerClosed
  <1>4. Untried'
    <2> SUFFICES ASSUME NEW k \in Conn, life'[k] = "new"
                 PROVE  conn'[k] = "none" /\ handler'[<<k, "c">>].pc = "none"
      BY DEF Untried
    <2>1. /\ life \in [Obj -> {"new", "connecting", "binding", "ready", "closing", "gone"}]
          /\ conn \in [Conn -> {"none", "up", "broken"}]
          /\ handler \in [End -> Handler]
          /\ k \in Obj /\ k # SERVER /\ <<k, "c">> \in End
      BY ConnEnds DEF IInv, TypeOK, Handler
    <2>2. life[k] = "new" /\ ~Connect(k)
      <3>1. ~Connect(k)
        BY <2>1 DEF Connect
      <3>2. CASE Bind \/ ServerNext
        <4>1. life'[k] = life[k]
          BY <2>1, <3>2 DEF Bind, ServerNext, Bound, Accept, StartHandler,
                            EndAcceptor, ServerDestroyed, owner
        <4> QED
          BY <4>1, <3>1
      <3>3. ASSUME NEW j \in Conn, Connect(j) \/ ClientNext(j) \/ Break(j)
            PROVE  life[k] = "new"
        BY <2>1, <3>3, ConnEnds DEF Connect, ClientNext, Connected, Destroyed, Break, owner
      <3>4. ASSUME NEW o \in Obj, Close(o)
            PROVE  life[k] = "new"
        BY <2>1, <3>4 DEF Close
      <3>5. ASSUME NEW e \in End, HandlerNext(e) \/ WriterNext(e) \/ WReceive(e)
            PROVE  life' = life
        BY <3>5 DEF HandlerNext, HStart, HRead, HQuit, HEof, LeaveLoop, HClose,
           WriterNext, WReceive, WEnd, WBlock, WWrite, WGiveUp, owner
      <3> QED
        BY <3>1, <3>2, <3>3, <3>4, <3>5 DEF Next, vars, owner
    <2>3. conn[k] = "none" /\ handler[<<k, "c">>].pc = "none"
      BY <2>2 DEF EndInv, Untried
    <2>4. handler'[<<k, "c">>].pc \in {"none", "start"}
      BY <1>2, <2>1, <2>3 DEF ThreadMoves
    <2>5. conn'[k] = "none" /\ handler'[<<k, "c">>].pc = "none"
      <3>1. ASSUME NEW j \in Conn, Connect(j)
            PROVE  conn'[k] = "none" /\ handler'[<<k, "c">>] = handler[<<k, "c">>]
        <4>1. j # k /\ <<j, "c">> # <<k, "c">>
          BY <2>2, <3>1
        <4> QED
          BY <2>1, <2>3, <3>1, <4>1 DEF Connect
      <3>2. ASSUME NEW j \in Conn, ClientNext(j) \/ Break(j)
            PROVE  conn'[k] = "none" /\ handler'[<<k, "c">>] = handler[<<k, "c">>]
        BY <2>1, <2>3, <3>2 DEF ClientNext, Connected, Destroyed, Break
      <3>3. CASE StartHandler
        <4>1. <<acceptor.k, "s">> # <<k, "c">>
          OBVIOUS
        <4> QED
          BY <2>1, <2>3, <3>3, <4>1 DEF StartHandler, Handler
      <3>4. ASSUME NEW e \in End, HandlerNext(e)
            PROVE  conn'[k] = "none" /\ handler'[<<k, "c">>] = handler[<<k, "c">>]
        <4>1. handler[e].pc # "none"
          BY <3>4 DEF HandlerNext, HStart, HRead, HQuit, HEof, HClose
        <4>2. e # <<k, "c">>
          BY <2>3, <4>1
        <4> QED
          BY <2>1, <2>3, <3>4, <4>2 DEF HandlerNext, HStart, HRead, HQuit, HEof,
             LeaveLoop, HClose
      <3>5. ASSUME NEW e \in End, WriterNext(e) \/ WReceive(e)
            PROVE  UNCHANGED <<conn, handler>>
        BY <3>5 DEF WriterNext, WReceive, WEnd, WBlock, WWrite, WGiveUp
      <3>6. ASSUME NEW o \in Obj, Close(o) PROVE UNCHANGED <<conn, handler>>
        BY <3>6 DEF Close
      <3>7. CASE Bind \/ Bound \/ Accept \/ EndAcceptor \/ ServerDestroyed
                   \/ UNCHANGED vars
        BY <2>3, <3>7 DEF Bind, Bound, Accept, EndAcceptor, ServerDestroyed, vars
      <3> QED
        BY <2>3, <3>1, <3>2, <3>3, <3>4, <3>5, <3>6, <3>7 DEF Next, ServerNext
    <2> QED
      BY <2>5
  <1>5. Leaving'
    <2> SUFFICES ASSUME NEW e \in End
                 PROVE  /\ handler'[e].pc \in {"wait", "closed"} => Ending(e)'
                        /\ handler'[e].pc = "wait" => ~writer'[e].run
                        /\ handler'[e].pc \in {"read", "wait"} => writer'[e].pc # "none"
      BY DEF Leaving
    <2> QED
      BY <1>2, <1>3 DEF ThreadMoves, WriterMoves, EndInv, Leaving, Calls
  <1> QED
    BY <1>1, <1>4, <1>5 DEF EndInv

LEMMA EndInvInit == Init => EndInv
  <1> SUFFICES ASSUME Init PROVE EndInv
    OBVIOUS
  <1>1. Flags
    BY DEF Init, Flags
  <1>2. \A e \in End : handler[e].pc = "none"
    BY DEF Init, NoHandler
  <1>3. Untried
    BY <1>2, ConnEnds DEF Init, Untried
  <1>4. Leaving
    BY <1>2 DEF Leaving
  <1> QED
    BY <1>1, <1>3, <1>4 DEF EndInv

LEMMA EndInvHolds == Spec => [](IInv /\ EndInv)
  BY InitIInv, NextIInv, EndInvInit, EndInvNext, PTL DEF Spec

(* One of the two threads can take a step now: the handler, or the writer, *)
(* which the handler waits for.                                            *)
Able(e) ==
  \/ handler[e].pc = "start"
  \/ handler[e].pc = "read" /\ (~running(e) \/ stream[other(e)] # <<>>
                                  \/ conn[e[1]] = "broken" \/ PeerClosed(e))
  \/ /\ handler[e].pc = "wait"
     /\ \/ writer[e].pc = "done"
        \/ writer[e].pc = "recv" /\ ~writer[e].run
        \/ writer[e].pc = "write" /\ (~running(e) \/ ~Usable(e))
        \/ writer[e].pc = "blocked" /\ (~Usable(e) \/ Len(stream[e]) < Cap)

(* The writer waits for room in the stream, which the other end leaves     *)
(* full: because it has not been served yet, or is about to read or quit,  *)
(* or because its own object ends, too.                                    *)
HeldUp(e) ==
  /\ handler[e].pc = "wait" /\ writer[e].pc = "blocked" /\ ~running(e)
  /\ Usable(e) /\ Len(stream[e]) = Cap
  /\ \/ handler[other(e)].pc \in {"none", "start", "read"}
     \/ ~running(other(e))

OnlyFullStreamHoldsUp ==
  \A e \in End : ~Joined(e) /\ Ending(e) => Able(e) \/ HeldUp(e)

LEMMA HoldsUpOnly == IInv /\ EndInv => OnlyFullStreamHoldsUp
  <1> SUFFICES ASSUME IInv, EndInv, NEW e \in End, ~Joined(e), Ending(e), ~Able(e)
               PROVE  HeldUp(e)
    BY DEF OnlyFullStreamHoldsUp
  <1>1. handler[e] \in Handler /\ writer[e] \in Writer /\ other(e) \in End
        /\ handler[other(e)] \in Handler /\ Len(stream[e]) \in Nat
        /\ Len(stream[e]) <= Cap
    BY EndType, ThreadType DEF IInv
  <1>2. handler[e].pc = "wait"
    BY <1>1 DEF Handler, HandlerStep, Joined, Ending, Able
  <1>3. ~writer[e].run /\ writer[e].pc # "none"
    BY <1>2 DEF EndInv, Leaving
  <1>4. writer[e].pc = "blocked" /\ Usable(e) /\ Len(stream[e]) = Cap
    <2>1. writer[e].pc # "write"
      BY <1>2 DEF Able, Ending, Usable
    <2>2. writer[e].pc = "blocked"
      BY <1>1, <1>2, <1>3, <2>1 DEF Able, Writer, WriterStep
    <2> QED
      BY <1>1, <1>2, <2>2, TunnelAssumption DEF Able
  <1>5. ~running(e) /\ handler[other(e)].pc # "closed" /\ conn[e[1]] = "up"
    BY <1>4 DEF Usable, Ending, PeerClosed
  <1>6. handler[other(e)].pc = "wait" => ~running(other(e))
    <2>1. other(e)[1] = e[1] /\ other(other(e)) = e
      BY DEF other, End
    <2> QED
      BY <1>1, <1>2, <1>5, <2>1 DEF EndInv, Leaving, Ending, PeerClosed
  <1> QED
    BY <1>1, <1>2, <1>4, <1>5, <1>6 DEF HeldUp, Handler, HandlerStep

(* What is left to do once the handler has left its loop.                  *)
EndLeft(e) ==
  CASE handler[e].pc = "closed" -> 0
    [] handler[e].pc = "wait" /\ writer[e].pc = "done" -> 1
    [] handler[e].pc = "wait" /\ writer[e].pc = "recv" -> 2
    [] handler[e].pc = "wait" /\ writer[e].pc = "write" -> 3
    [] handler[e].pc = "wait" /\ writer[e].pc = "blocked" -> 4
    [] OTHER -> 5

LEMMA EndGoesOn ==
  ASSUME IInv, EndInv, [Next]_vars, NEW e \in End, handler[e].pc \in {"wait", "closed"}
  PROVE  \/ EndLeft(e)' < EndLeft(e)
         \/ handler'[e].pc = handler[e].pc /\ writer'[e].pc = writer[e].pc
  <1>1. ThreadMoves(e)
    BY EveryStepMoves
  <1>2. writer[e].pc \in WriterStep /\ Ending(e)
    BY ThreadType DEF IInv, Writer, EndInv, Leaving
  <1>3. CASE handler[e].pc = "closed"
    <2>1. writer[e].pc \in {"none", "done"}
      BY <1>3 DEF IInv, NoThreadSurvives
    <2> QED
      BY <1>1, <1>3, <2>1 DEF ThreadMoves, WriterMoves, Calls
  <1>4. CASE handler[e].pc = "wait"
    <2>1. ~writer[e].run
      BY <1>4 DEF EndInv, Leaving
    <2>2. ~(running(e) /\ Usable(e))
      BY <1>2 DEF Ending, Usable
    <2>3. \/ handler'[e].pc = "wait" /\ writer'[e].pc = writer[e].pc
          \/ handler'[e].pc = "closed" /\ writer[e].pc = "done"
          \/ /\ handler'[e].pc = "wait"
             /\ \/ writer[e].pc = "recv" /\ writer'[e].pc = "done"
                \/ writer[e].pc \in {"write", "blocked"} /\ writer'[e].pc = "recv"
                \/ writer[e].pc = "blocked" /\ writer'[e].pc = "write"
      BY <1>1, <1>4, <2>1, <2>2 DEF ThreadMoves, WriterMoves, Calls
    <2> QED
      BY <1>4, <2>3 DEF EndLeft
  <1> QED
    BY <1>3, <1>4

(* The end of a connection whose object ends, that is broken or that the   *)
(* other side has closed, goes on until it is closed: one of its threads   *)
(* can always take a step, but for a writer that is blocked on a full      *)
(* stream the other side will read, has not been given to a handler, or    *)
(* leaves because it ends as well; and once the handler has left its loop  *)
(* at most four steps are left (ovtcpsocket.cc:146-268).                   *)
THEOREM EndsGoOn ==
  Spec => /\ []OnlyFullStreamHoldsUp
          /\ [][\A e \in End : handler[e].pc \in {"wait", "closed"} =>
                  \/ EndLeft(e)' < EndLeft(e)
                  \/ handler'[e].pc = handler[e].pc
                     /\ writer'[e].pc = writer[e].pc]_vars
  <1>1. IInv /\ EndInv /\ [Next]_vars =>
          [\A e \in End : handler[e].pc \in {"wait", "closed"} =>
              \/ EndLeft(e)' < EndLeft(e)
              \/ handler'[e].pc = handler[e].pc
                 /\ writer'[e].pc = writer[e].pc]_vars
    BY EndGoesOn
  <1> QED
    BY <1>1, HoldsUpOnly, EndInvHolds, PTL DEF Spec
=============================================================================
