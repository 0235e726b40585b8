----------------------------- MODULE TcpTunnel ------------------------------
(***************************************************************************)
(* The TCP tunnel (ovtcpsocket_t) between ovbox clients in relay mode and  *)
(* a server.  A client object connects once; the server object accepts any *)
(* number of connections.  At each end of a connection two threads run:    *)
(* handleconnection reads the stream and sends every datagram it finds to  *)
(* a local UDP port; udpreceive reads datagrams from a UDP socket of its   *)
(* own and writes them to the stream, as a header with the size and a      *)
(* body.  The model has one action per system call; that of a reader or a  *)
(* writer includes the test of run_server that precedes the call (a call   *)
(* that returns just after the flag is cleared could as well have returned *)
(* just before: nothing that the other end does depends on the flag).      *)
(*                                                                         *)
(* A stream holds units, the header and the parts of the body, and at most *)
(* Cap of them: a writer then blocks in write, for which no time-out is    *)
(* set.  Reading does time out, so a reader that waits sees run_server.    *)
(***************************************************************************)
EXTENDS Naturals, Sequences, FiniteSets

CONSTANTS
  Conn,   \* connections, the numbers 1 .. n; each has a client of its own
  Fd,     \* descriptors the server gets from accept, a set of numbers
  Cap,    \* units a stream holds
  Plans   \* what happens: see Plan

End == Conn \X {"c", "s"}

(* The clients that connect, whether one may do so before the previous one *)
(* is gone, the connections that may break, the parts in which a body is   *)
(* written and read (the header is part 0), and how many datagrams arrive  *)
(* at each end.                                                            *)
Plan == [clients : SUBSET Conn, overlap : BOOLEAN, breakable : SUBSET Conn,
         parts : Nat \ {0}, count : [End -> Nat]]

ASSUME TunnelAssumption ==
  /\ Conn \subseteq Nat \ {0} /\ Fd \subseteq Nat \ {0} /\ Fd # {}
  /\ Cap \in Nat \ {0}
  /\ Plans \subseteq Plan

SERVER == 0
Obj == Conn \cup {SERVER}
Obj_of(e) == IF e[2] = "c" THEN e[1] ELSE SERVER
other(e) == <<e[1], IF e[2] = "c" THEN "s" ELSE "c">>

VARIABLES
  plan,        \* a member of Plans
  run_server,  \* flag of each object
  life,        \* life[o]: what the owner of object o is doing with it
  targetport,  \* has the object its target port (0: not yet)
  acceptor,    \* acceptor thread: step, connection and descriptor
  handlethreads, \* handlethreads[fd]: the connection of the last thread
                 \* started for fd, 0 for none
  backlog,     \* connections the kernel took and accept did not return yet
  conn,        \* conn[k]: "none", "up" or "broken"
  fd,          \* fd[k]: descriptor of the server's end
  handler,     \* handler[e]: thread handleconnection
  writer,      \* writer[e]: thread udpreceive
  stream,      \* stream[e]: units written by e and not read yet
  binding, connect_receiveport, \* of each object
  toport,      \* what connect returned to the client
  input,       \* history: datagrams read by the writer of e
  output       \* history: datagrams sent to the target port by the handler

owner == <<life, toport>>
server == <<acceptor, handlethreads, backlog, fd>>
port == <<targetport, binding, connect_receiveport>>
data == <<stream, input, output>>
vars == <<plan, run_server, owner, server, port, conn, handler, writer, data>>

HandlerStep == {"none", "start", "read", "wait", "closed"}
WriterStep == {"none", "recv", "write", "blocked", "done"}
Unit == [d : Nat, part : Nat]

(* target is the handler's copy of the target port; d and part say what it *)
(* has read of the current frame; part counts what is written of one.      *)
NoHandler == [pc |-> "none", target |-> 0, d |-> 0, part |-> 0]
NoWriter == [pc |-> "none", run |-> FALSE, d |-> 0, part |-> 0]

Init ==
  /\ plan \in Plans
  /\ run_server = [o \in Obj |-> TRUE]
  /\ life = [o \in Obj |-> "new"]
  /\ targetport = [o \in Obj |-> 0]
  /\ acceptor = [pc |-> "none", k |-> 0, fd |-> 0]
  /\ handlethreads = [f \in Fd |-> 0]
  /\ backlog = <<>>
  /\ conn = [k \in Conn |-> "none"]
  /\ fd = [k \in Conn |-> 0]
  /\ handler = [e \in End |-> NoHandler]
  /\ writer = [e \in End |-> NoWriter]
  /\ stream = [e \in End |-> <<>>]
  /\ binding = [o \in Obj |-> FALSE]
  /\ connect_receiveport = [o \in Obj |-> 0]
  /\ toport = [k \in Conn |-> 0]
  /\ input = [e \in End |-> <<>>]
  /\ output = [e \in End |-> <<>>]

----------------------------------------------------------------------------
(* The owner of a client: connect and the destructor. *)

(* The kernel of the server accepts as soon as the server listens, and the *)
(* listening socket is never closed.  A connection that is refused throws  *)
(* before anything but the flag is set, which was set already: no step.    *)
Connect(k) ==
  /\ k \in plan.clients /\ life[k] = "new" /\ life[SERVER] # "new"
  /\ plan.overlap \/ \A j \in plan.clients : j < k => life[j] = "gone"
  /\ run_server' = [run_server EXCEPT ![k] = TRUE]
  /\ conn' = [conn EXCEPT ![k] = "up"]
  /\ backlog' = Append(backlog, k)
  /\ binding' = [binding EXCEPT ![k] = TRUE]
  /\ targetport' = [targetport EXCEPT ![k] = 1]
  /\ handler' = [handler EXCEPT ![<<k, "c">>].pc = "start"]
  /\ life' = [life EXCEPT ![k] = "connecting"]
  /\ UNCHANGED <<plan, toport, acceptor, handlethreads, fd,
                 connect_receiveport, writer, data>>

Connected(k) ==
  /\ life[k] = "connecting" /\ ~binding[k]
  /\ life' = [life EXCEPT ![k] = "ready"]
  /\ toport' = [toport EXCEPT ![k] = connect_receiveport[k]]
  /\ UNCHANGED <<plan, run_server, server, port, conn, handler, writer, data>>

Close(o) ==
  /\ life[o] = "ready"
  /\ run_server' = [run_server EXCEPT ![o] = FALSE]
  /\ life' = [life EXCEPT ![o] = "closing"]
  /\ UNCHANGED <<plan, toport, server, port, conn, handler, writer, data>>

Joined(e) == handler[e].pc \in {"none", "closed"}

Destroyed(k) ==
  /\ life[k] = "closing"
  /\ Joined(<<k, "c">>)
  /\ life' = [life EXCEPT ![k] = "gone"]
  /\ UNCHANGED <<plan, run_server, toport, server, port, conn, handler,
                 writer, data>>

----------------------------------------------------------------------------
(* The server: bind, the acceptor, the destructor. *)

(* bind starts the acceptor before it asks for its port. *)
Bind ==
  /\ life[SERVER] = "new"
  /\ run_server' = [run_server EXCEPT ![SERVER] = TRUE]
  /\ acceptor' = [acceptor EXCEPT !.pc = "accept"]
  /\ life' = [life EXCEPT ![SERVER] = "binding"]
  /\ UNCHANGED <<plan, toport, handlethreads, backlog, fd, port, conn,
                 handler, writer, data>>

Bound ==
  /\ life[SERVER] = "binding"
  /\ targetport' = [targetport EXCEPT ![SERVER] = 1]
  /\ life' = [life EXCEPT ![SERVER] = "ready"]
  /\ UNCHANGED <<plan, run_server, toport, server, binding,
                 connect_receiveport, conn, handler, writer, data>>

OpenFd == {fd[k] : k \in {q \in Conn : handler[<<q, "s">>].pc # "closed"}}

(* accept returns a connection: the kernel gives the lowest descriptor that*)
(* is free.  The flag was looked at before the call, which may have begun  *)
(* before the destructor cleared it.                                       *)
Accept ==
  /\ acceptor.pc = "accept" /\ backlog # <<>>
  /\ \E f \in Fd \ OpenFd :
       /\ \A g \in Fd \ OpenFd : f <= g
       /\ acceptor' = [pc |-> "start", k |-> Head(backlog), fd |-> f]
       /\ fd' = [fd EXCEPT ![Head(backlog)] = f]
  /\ backlog' = Tail(backlog)
  /\ UNCHANGED <<plan, run_server, owner, handlethreads, port, conn, handler,
                 writer, data>>

(* The thread that had the descriptor before is joined; after the new one  *)
(* is started the loop looks at the flag.                                  *)
StartHandler ==
  LET f == acceptor.fd  k == acceptor.k IN
  /\ acceptor.pc = "start"
  /\ handlethreads[f] # 0 => Joined(<<handlethreads[f], "s">>)
  /\ handlethreads' = [handlethreads EXCEPT ![f] = k]
  /\ handler' = [handler EXCEPT ![<<k, "s">>].pc = "start"]
  /\ acceptor' = [pc |-> IF run_server[SERVER] THEN "accept" ELSE "done",
                  k |-> 0, fd |-> 0]
  /\ UNCHANGED <<plan, run_server, owner, backlog, fd, port, conn, writer, data>>

(* accept times out, and the flag is looked at. *)
EndAcceptor ==
  /\ acceptor.pc = "accept" /\ ~run_server[SERVER]
  /\ acceptor' = [acceptor EXCEPT !.pc = "done"]
  /\ UNCHANGED <<plan, run_server, owner, handlethreads, backlog, fd, port,
                 conn, handler, writer, data>>

HandlersJoined ==
  \A f \in Fd : handlethreads[f] # 0 => Joined(<<handlethreads[f], "s">>)

(* The destructor joins the acceptor first: no handler is started after.   *)
ServerDestroyed ==
  /\ life[SERVER] = "closing"
  /\ acceptor.pc = "done" /\ HandlersJoined
  /\ life' = [life EXCEPT ![SERVER] = "gone"]
  /\ UNCHANGED <<plan, run_server, toport, server, port, conn, handler,
                 writer, data>>

----------------------------------------------------------------------------
(* handleconnection. *)

running(e) == run_server[Obj_of(e)]


(* The UDP socket is bound, connect may return, udpreceive starts.  (Where *)
(* no port is free, the exception of bind ends the program.)               *)
HStart(e) ==
  /\ handler[e].pc = "start"
  /\ handler' = [handler EXCEPT ![e].pc = "read",
                                ![e].target = targetport[Obj_of(e)]]
  /\ connect_receiveport' = [connect_receiveport EXCEPT ![Obj_of(e)] = 1]
  /\ binding' = [binding EXCEPT ![Obj_of(e)] = FALSE]
  /\ writer' = [writer EXCEPT ![e] = [NoWriter EXCEPT !.pc = "recv", !.run = TRUE]]
  /\ UNCHANGED <<plan, run_server, owner, server, targetport, conn, data>>

PeerClosed(e) == handler[other(e)].pc = "closed"

(* Mutant: one byte more than announced is asked for. *)
CompleteLate(part) == part > plan.parts

(* nbread is called for the header and for as many bytes as it announces.  *)
Complete(part) == part = plan.parts

(* read returns a unit: what is at the place of a header is taken for one, *)
(* and the body is whatever follows.  A datagram that is complete is sent, *)
(* except to port 0.  A frame that says to be larger than the buffer does  *)
(* not occur: udpreceive fills a buffer of the same size, and a header is  *)
(* only ever read at the place of one (ImplementsPipe).  The byte that is  *)
(* written behind what was read (ovtcpsocket.cc:249) is outside of buf     *)
(* after an error and after a datagram that fills it; memory is not        *)
(* modelled.                                                               *)
HRead(e) ==
  LET u == Head(stream[other(e)])
      h == handler[e]
      fits == IF h.part = 0 THEN u.part = 0 ELSE u.d = h.d /\ u.part = h.part
      d == IF fits THEN u.d ELSE 0
  IN
  /\ h.pc = "read" /\ running(e) /\ stream[other(e)] # <<>>
  /\ stream' = [stream EXCEPT ![other(e)] = Tail(@)]
  /\ IF Complete(h.part)
       THEN /\ handler' = [handler EXCEPT ![e].d = 0, ![e].part = 0]
            /\ output' = IF h.target = 0 THEN output
                         ELSE [output EXCEPT ![e] = Append(@, d)]
       ELSE /\ handler' = [handler EXCEPT ![e].d = d, ![e].part = @ + 1]
            /\ output' = output
  /\ UNCHANGED <<plan, run_server, owner, server, port, conn, writer, input>>

(* The loop ends; udpreceive is told to end.                               *)
LeaveLoop(e) ==
  /\ handler' = [handler EXCEPT ![e].pc = "wait", ![e].d = 0, ![e].part = 0]
  /\ writer' = [writer EXCEPT ![e].run = FALSE]
  /\ UNCHANGED <<plan, run_server, owner, server, port, conn, data>>

(* Mutant: read has no time-out, a reader that waits does not see the flag. *)
HQuitUnlessWaiting(e) ==
  /\ handler[e].pc = "read" /\ ~running(e)
  /\ stream[other(e)] # <<>> \/ conn[e[1]] = "broken" \/ PeerClosed(e)
  /\ LeaveLoop(e)

(* nbread and the outer loop look at run_server before every read, and     *)
(* read times out: a frame that is not complete then is dropped.           *)
HQuit(e) ==
  /\ handler[e].pc = "read" /\ ~running(e)
  /\ LeaveLoop(e)

(* Mutant: only an error of read ends the loop, the end of the stream is   *)
(* taken for a time-out.                                                   *)
HEofIgnored(e) ==
  /\ handler[e].pc = "read" /\ running(e) /\ stream[other(e)] = <<>>
  /\ conn[e[1]] = "broken"
  /\ LeaveLoop(e)

(* read fails or finds the end of the stream.  In a header this ends the   *)
(* loop; in a body the frame is dropped, and then the next header not      *)
(* found.                                                                  *)
HEof(e) ==
  /\ handler[e].pc = "read" /\ running(e) /\ stream[other(e)] = <<>>
  /\ conn[e[1]] = "broken" \/ PeerClosed(e)
  /\ LeaveLoop(e)

(* Mutant: the descriptor is closed before the writer has ended. *)
HCloseEarly(e) ==
  /\ handler[e].pc = "wait"
  /\ handler' = [handler EXCEPT ![e].pc = "closed"]
  /\ stream' = [stream EXCEPT ![other(e)] = <<>>]
  /\ UNCHANGED <<plan, run_server, owner, server, port, conn, writer, input, output>>

(* The writer is joined, then the descriptor closed: what was not read is  *)
(* lost.                                                                   *)
HClose(e) ==
  /\ handler[e].pc = "wait" /\ writer[e].pc = "done"
  /\ handler' = [handler EXCEPT ![e].pc = "closed"]
  /\ stream' = [stream EXCEPT ![other(e)] = <<>>]
  /\ UNCHANGED <<plan, run_server, owner, server, port, conn, writer, input, output>>

----------------------------------------------------------------------------
(* udpreceive, with send and nbwrite. *)

WReceive(e) ==
  /\ writer[e].pc = "recv" /\ writer[e].run
  /\ Len(input[e]) < plan.count[e]
  /\ LET d == Len(input[e]) + 1 IN
       /\ input' = [input EXCEPT ![e] = Append(@, d)]
       /\ writer' = [writer EXCEPT ![e].pc = "write", ![e].d = d]
  /\ UNCHANGED <<plan, run_server, owner, server, port, conn, handler, stream, output>>

WEnd(e) ==
  /\ writer[e].pc = "recv" /\ ~writer[e].run
  /\ writer' = [writer EXCEPT ![e].pc = "done"]
  /\ UNCHANGED <<plan, run_server, owner, server, port, conn, handler, data>>

Usable(e) == conn[e[1]] = "up" /\ ~PeerClosed(e)

(* nbwrite looks at run_server before it calls write, not while it is      *)
(* blocked there.                                                          *)
Calls(e) == writer[e].pc = "blocked" \/ (writer[e].pc = "write" /\ running(e))

GiveUp(e) == [writer EXCEPT ![e].pc = "recv", ![e].d = 0, ![e].part = 0]

(* Mutant: the writer gives a datagram up when the stream is full.         *)
WBlockNever(e) ==
  /\ writer[e].pc = "write" /\ running(e) /\ Usable(e)
  /\ Len(stream[e]) = Cap
  /\ writer' = GiveUp(e)
  /\ UNCHANGED <<plan, run_server, owner, server, port, conn, handler, data>>

WBlock(e) ==
  /\ writer[e].pc = "write" /\ running(e) /\ Usable(e)
  /\ Len(stream[e]) = Cap
  /\ writer' = [writer EXCEPT ![e].pc = "blocked"]
  /\ UNCHANGED <<plan, run_server, owner, server, port, conn, handler, data>>

WWrite(e) ==
  LET w == writer[e] IN
  /\ Calls(e) /\ Usable(e) /\ Len(stream[e]) < Cap
  /\ stream' = [stream EXCEPT ![e] = Append(@, [d |-> w.d, part |-> w.part])]
  /\ writer' = IF w.part = plan.parts THEN GiveUp(e)
               ELSE [writer EXCEPT ![e].pc = "write", ![e].part = @ + 1]
  /\ UNCHANGED <<plan, run_server, owner, server, port, conn, handler, input, output>>

(* The object ends, or write fails because the connection is broken or     *)
(* closed at the other end: the rest of the datagram is given up.          *)
WGiveUp(e) ==
  /\ \/ writer[e].pc = "write" /\ ~running(e)
     \/ Calls(e) /\ ~Usable(e)
  /\ writer' = GiveUp(e)
  /\ UNCHANGED <<plan, run_server, owner, server, port, conn, handler, data>>

----------------------------------------------------------------------------
(* The network fails: what is on the way is lost, and both ends get errors.*)
(* A connection of which only one end learns that it is gone is not        *)
(* covered: the code enables no keep-alive, the other end would wait for a *)
(* datagram of its own to send.                                            *)
Break(k) ==
  /\ k \in plan.breakable /\ conn[k] = "up"
  /\ conn' = [conn EXCEPT ![k] = "broken"]
  /\ stream' = [stream EXCEPT ![<<k, "c">>] = <<>>, ![<<k, "s">>] = <<>>]
  /\ UNCHANGED <<plan, run_server, owner, server, port, handler, writer,
                 input, output>>

HandlerNext(e) == HStart(e) \/ HRead(e) \/ HQuit(e) \/ HEof(e) \/ HClose(e)
WriterNext(e) == WEnd(e) \/ WBlock(e) \/ WWrite(e) \/ WGiveUp(e)

ServerNext == Bound \/ Accept \/ StartHandler \/ EndAcceptor \/ ServerDestroyed
ClientNext(k) == Connected(k) \/ Destroyed(k)

Next ==
  \/ Bind \/ ServerNext
  \/ \E k \in Conn : Connect(k) \/ ClientNext(k) \/ Break(k)
  \/ \E o \in Obj : Close(o)
  \/ \E e \in End : HandlerNext(e) \/ WriterNext(e) \/ WReceive(e)

Spec == Init /\ [][Next]_vars

(* The threads run and their system calls return when they can.            *)
FairSpec ==
  /\ Spec
  /\ WF_vars(ServerNext)
  /\ \A k \in Conn : WF_vars(ClientNext(k))
  /\ \A e \in End : WF_vars(HandlerNext(e)) /\ WF_vars(WriterNext(e))
----------------------------------------------------------------------------
(* Properties. *)

(* Threads, streams and ports have their types. *)
TypeOK ==
  /\ plan \in Plans
  /\ run_server \in [Obj -> BOOLEAN]
  /\ life \in [Obj -> {"new", "connecting", "binding", "ready", "closing", "gone"}]
  /\ targetport \in [Obj -> {0, 1}]
  /\ acceptor \in [pc : {"none", "accept", "start", "done"},
                   k : Conn \cup {0}, fd : Fd \cup {0}]
  /\ handlethreads \in [Fd -> Conn \cup {0}]
  /\ backlog \in Seq(Conn)
  /\ conn \in [Conn -> {"none", "up", "broken"}]
  /\ fd \in [Conn -> Fd \cup {0}]
  /\ handler \in [End -> [pc : HandlerStep, target : {0, 1}, d : Nat,
                          part : 0 .. plan.parts]]
  /\ writer \in [End -> [pc : WriterStep, run : BOOLEAN, d : Nat,
                         part : 0 .. plan.parts]]
  /\ stream \in [End -> Seq(Unit)] /\ \A e \in End : Len(stream[e]) <= Cap
  /\ binding \in [Obj -> BOOLEAN]
  /\ connect_receiveport \in [Obj -> {0, 1}]
  /\ toport \in [Conn -> {0, 1}]
  /\ input \in [End -> Seq(Nat)] /\ output \in [End -> Seq(Nat)]

(* The datagrams of an end are numbered in the order they arrive.          *)
Datagrams == UNION {UNION {1 .. p.count[e] : e \in End} : p \in Plans}

Pipe == INSTANCE DatagramPipe WITH
          Direction <- End, Datagram <- Datagrams,
          output <- [e \in End |-> output[other(e)]]

(* Both directions of every connection whose handler knows its target port *)
(* implement the abstract pipe: however writes are split, interrupted by   *)
(* the end of an object or by an error, the reader never takes the middle  *)
(* of a frame for a header and never delivers an incomplete one (send,     *)
(* nbread, nbwrite, handleconnection).                                     *)
ImplementsPipe == Pipe!Spec

(* A writer has ended before its descriptor is closed, so that it never    *)
(* writes to the connection that gets the number next; every handler that  *)
(* runs is in the table, although descriptors are used again; and when a   *)
(* destructor returns no thread of the object is left, not even one that   *)
(* the acceptor was about to start (ovtcpsocket.cc:16-26, 109-117,         *)
(* 263-267).                                                               *)
NoThreadSurvives ==
  /\ \A e \in End :
       handler[e].pc = "closed" => writer[e].pc \in {"none", "done"}
  /\ \A k \in Conn : Joined(<<k, "s">>) \/ handlethreads[fd[k]] = k
  /\ \A k \in Conn : life[k] = "gone" => Joined(<<k, "c">>)
  /\ life[SERVER] = "gone" =>
       /\ acceptor.pc = "done"
       /\ \A k \in Conn : Joined(<<k, "s">>)

Healthy(k) ==
  /\ conn[k] = "up" /\ run_server[k] /\ run_server[SERVER]

(* While the connection holds and both objects live, every datagram comes  *)
(* out at the other end, whose handler must have been started after bind   *)
(* knew its port.                                                          *)
Delivered ==
  \A e \in End :
    <>[](Healthy(e[1]) /\ handler[other(e)].target # 0) =>
      []<>(Len(output[other(e)]) = Len(input[e]))

(* Nobody ever reads the connection: it was in the backlog when the server *)
(* ended, or came later.                                                   *)
NeverServed(k) == life[SERVER] = "gone" /\ handler[<<k, "s">>].pc = "none"

(* A destructor returns, whatever its threads are doing, unless the other  *)
(* side ends at the same time: then both may be blocked writing to a full  *)
(* stream nobody reads any more.                                           *)
DestructorReturns ==
  /\ \A k \in Conn :
       (life[k] = "closing") ~>
         (life[k] = "gone" \/ life[SERVER] = "closing" \/ NeverServed(k))
  /\ (life[SERVER] = "closing") ~>
       (life[SERVER] = "gone" \/ \E k \in Conn : life[k] = "closing")

(* A connection that breaks, or that one side closes, ends at both ends.   *)
BothEndsClose ==
  \A e \in End :
    (conn[e[1]] = "broken" \/ PeerClosed(e)) ~>
      (handler[e].pc = "closed" \/ handler[e].pc = "none")
=============================================================================
