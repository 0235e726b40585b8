------------------------------ MODULE MCSession ------------------------------
(* Room 1 with the devices a, b and c, room 2 with x and y; x is the        *)
(* secondary client on the computer of a.                                   *)
EXTENDS Session

MCDevices == {"a", "b", "c", "x", "y"}
MCId == [a |-> 1, b |-> 0, c |-> 2, x |-> 17, y |-> 0]
MCRoom == [a |-> 1, b |-> 1, c |-> 1, x |-> 2, y |-> 2]
MCMachine == [a |-> 1, b |-> 2, c |-> 3, x |-> 1, y |-> 4]

Plain == [Absent EXCEPT !.present = TRUE, !.channels = <<0>>]
Off == [dev |-> Absent, render |-> Unset]
With(member, render) == [dev |-> member, render |-> render]
Silent == [Plain EXCEPT !.channels = <<>>]
Listener == [Plain EXCEPT !.receivedownmix = TRUE]
Downmixer(ch) == [Plain EXCEPT !.senddownmix = TRUE, !.channels = ch]

(* Every setting of a, with several of b. *)
AnyMember ==
  {Absent} \cup
  [present : {TRUE}, channels : {<<>>, <<0>>, <<1, 0>>, <<0, 0, 0>>},
   senddownmix : BOOLEAN, receivedownmix : BOOLEAN, nozita : BOOLEAN]
AnyRender ==
  [receive : BOOLEAN, rawmode : BOOLEAN, secrec : BOOLEAN, peer2peer : {TRUE},
   rectype : {"hrtf", "omni"}, xrecport : {{}}, extra : {{}, Extra}]
Others ==
  {With(m, Unset) : m \in {Silent, Listener, [Plain EXCEPT !.channels = <<2, 0>>],
                           [Plain EXCEPT !.nozita = TRUE], Downmixer(<<>>)}}
  \cup {With(m, [Unset EXCEPT !.rawmode = TRUE, !.secrec = TRUE, !.peer2peer = FALSE])
          : m \in {Plain, Downmixer(<<0, 0, 0>>)}}
Pairs ==
  {[used |-> {"a", "b"},
    start |-> [d \in MCDevices |-> CASE d = "a" -> With(m, r) [] d = "b" -> o [] OTHER -> Off],
    choices |-> [d \in MCDevices |-> {}], late |-> FALSE]
     : m \in AnyMember, r \in AnyRender, o \in Others}

(* a and b become downmixers, listeners or leave; c is listed in the room,  *)
(* but not started; from peer to peer or over the relay server.            *)
Roles == {Absent, Plain, Listener, Downmixer(<<0, 0>>)}
Changing ==
  {LET r(d) == [Unset EXCEPT !.peer2peer = (d \in p2p)] IN
   [used |-> {"a", "b"},
    start |-> [d \in MCDevices |->
                 IF d \in {"a", "b", "c"} THEN With(Plain, r(d)) ELSE Off],
    choices |-> [d \in MCDevices |->
                 IF d \in {"a", "b"} THEN {With(m, r(d)) : m \in Roles} ELSE {}],
    late |-> FALSE]
     : p2p \in SUBSET {"a", "b"}}

(* All five, with second receivers, head tracking and additional ports;    *)
(* not a second receiver in a secondary client.                            *)
Computers ==
  {[used |-> MCDevices,
    start |-> [d \in MCDevices |-> With(Plain,
       [Unset EXCEPT !.secrec = (d \notin Secondary), !.extra = {"headtracking"},
                     !.peer2peer = (d \in p2p), !.rawmode = (d = raw),
                     !.xrecport = CASE d \in {"a", "y"} -> {9000}
                                      [] d = "b" -> {9001} [] OTHER -> {}])],
    choices |-> [d \in MCDevices |-> {}], late |-> FALSE]
     : p2p \in {{}, {"a", "y"}, MCDevices}, raw \in {"a", "x"}}

(* a and b change between a listener and a downmixer, or b to a member     *)
(* that does not receive, and their clients learn of it later; both are    *)
(* peers, or one of them.                                                  *)
Lagging ==
  {LET r(d) == [Unset EXCEPT !.peer2peer = (d \in p2p), !.extra = {"headtracking"}] IN
   [used |-> {"a", "b"},
    start |-> [d \in MCDevices |->
                 IF d \in {"a", "b"} THEN With(Listener, r(d)) ELSE Off],
    choices |-> [d \in MCDevices |->
                 IF d \in {"a", "b"}
                 THEN {With(m, r(d)) : m \in {Listener, Downmixer(<<0>>)}}
                      \cup When(d = "b", {With(Plain, [r(d) EXCEPT !.receive = FALSE])})
                 ELSE {}],
    late |-> TRUE]
     : p2p \in {{"a"}, {"a", "b"}}}

MCSetups == Pairs \cup Changing \cup Computers \cup Lagging
=============================================================================
