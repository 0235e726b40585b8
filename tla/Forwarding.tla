----------------------------- MODULE Forwarding -----------------------------
(***************************************************************************)
(* Which copies of a local audio packet an ovbox client sends, and what it *)
(* does with a packet that arrives: recsrv and xrecsrv on the sending      *)
(* side, process_msg on the receiving side, between them the network and   *)
(* the relay server.  What a client sends depends on what it knows of each *)
(* member (endpoints), which it learns datagram by datagram from the relay *)
(* server: LISTCID brings the public address and the mode, SETLOCALIP the  *)
(* local address, PUBKEY the key.  Any of them may be missing or old.      *)
(*                                                                         *)
(* One packet is on its way at a time.  A client that restarts has a new   *)
(* socket and a new key pair; both are named by its incarnation.  Devices  *)
(* behind one external address are in one local network.                   *)
(***************************************************************************)
EXTENDS Integers, FiniteSets

CONSTANTS
  Members,    \* devices of the session
  Nets,       \* external addresses
  Setups,     \* sessions considered: see Setup
  MaxInc,     \* bound: incarnations of a client
  XPorts,     \* are packets of the additional ports (xrecsrv) considered
  Reordering  \* may a packet pass through the buffers of the sorter

Flag == {"p2p", "donotsend", "usingproxy", "encryption", "recmix", "sendmix"}
NoNet == "none"
Server == "server"

ASSUME ForwardingAssumption ==
  /\ MaxInc \in Nat \ {0}
  /\ XPorts \in BOOLEAN /\ Reordering \in BOOLEAN
  /\ NoNet \notin Nets /\ Server \notin Members

(* What the configuration gives a device: the flags of ovboxclient_t, its  *)
(* network, whether it sends to local addresses, its proxy clients,        *)
(* whether it takes a second copy of the audio (secrec).                   *)
Device == [present : BOOLEAN, mode : SUBSET Flag, net : Nets,
           sendlocal : BOOLEAN, proxyclients : SUBSET Members,
           extra : BOOLEAN]

(* A session: its devices; what is unknown at first and may be forgotten;  *)
(* who may restart, and with which flags.                                  *)
Setup == [device : [Members -> Device],
          unstable : SUBSET (Members \X (Members \cup {Server})),
          restarts : SUBSET Members, after : SUBSET Flag]

ASSUME SetupsAssumption == Setups \subseteq Setup

VARIABLES
  setup,      \* the session
  mode, inc,  \* flags and incarnation of each client
  registered, \* the relay server's entry of each member
  endpoints,  \* endpoints[m][o]: entry of o in the list of m
  srvkey,     \* srv_has_pubkey of each client
  wire,       \* copies of the packet on their way
  handed,     \* handed[m]: what the ports of device m received of the packet
  sent        \* the packet: its sender, its port, send_encrypt_any and
              \* send_encrypt_all as they are with it, a history (see Send)

known == <<registered, endpoints, srvkey>>
clients == <<setup, mode, inc>>
vars == <<clients, known, wire, handed, sent>>

dev(m) == setup.device[m]
Present == {m \in Members : dev(m).present}

(* ep_desc_t: timeout > 0, mode, external address, and the incarnations    *)
(* that ep, localep and pubkey belong to (0: not known).                   *)
Entry == [on : BOOLEAN, mode : SUBSET Flag, net : Nets \cup {NoNet},
          ep : 0 .. MaxInc, localep : 0 .. MaxInc, pubkey : 0 .. MaxInc]

FreshEntry == [on |-> FALSE, mode |-> {"p2p"}, net |-> NoNet,
               ep |-> 0, localep |-> 0, pubkey |-> 0]

(* What a registration of m says. *)
Truth(m) == [on |-> TRUE, mode |-> mode[m], net |-> dev(m).net,
             ep |-> inc[m], localep |-> inc[m], pubkey |-> inc[m]]

Kind == {"listcid", "localip", "pubkey"}

(* cid_register, cid_setlocalip, cid_set_pubkey: the part of an entry that *)
(* a message of each kind replaces.                                        *)
cid_update(e, kind, new) ==
  CASE kind = "listcid" -> [e EXCEPT !.on = new.on, !.mode = new.mode,
                                     !.net = new.net, !.ep = new.ep]
    [] kind = "localip" -> [e EXCEPT !.localep = new.localep]
    [] kind = "pubkey"  -> [e EXCEPT !.pubkey = new.pubkey]

----------------------------------------------------------------------------
(* Copies of a packet. *)

(* hop is the device the copy left last; via is how it reaches its         *)
(* receiver, which decides what sender address that one sees; seal is the  *)
(* key it is encrypted with (0: plain); raw copies go to the port of a     *)
(* proxy client and by-pass its client.                                    *)
Copy == [to : Members \cup {Server}, inc : 0 .. MaxInc,
         hop : Members \cup {Server}, via : {"local", "public", "server"},
         seal : 0 .. MaxInc, raw : BOOLEAN]

(* Members m sends to, and has an active entry of. *)
Targets(m) == {o \in Members \ {m} : endpoints[m][o].on}
PeerTargets(m) == {o \in Targets(m) : "p2p" \in endpoints[m][o].mode}

(* The key a copy for o is encrypted with. *)
sealFor(m, o) ==
  IF "encryption" \in mode[m] /\ "encryption" \in endpoints[m][o].mode
  THEN endpoints[m][o].pubkey ELSE 0

serverSeal(m) == IF "encryption" \in mode[m] /\ srvkey[m] THEN 1 ELSE 0

target_in_same_network(m, o) ==
  /\ endpoints[m][m].net = endpoints[m][o].net
  /\ endpoints[m][o].localep # 0

(* Sending to o is not deactivated. *)
Wanted(m, o) ==
  \/ "donotsend" \notin endpoints[m][o].mode
  \/ "usingproxy" \in endpoints[m][o].mode /\ target_in_same_network(m, o)

(* Both or none of downmixer and receiver of a downmix. *)
MixFits(m, o) == ("recmix" \in endpoints[m][o].mode) <=> ("sendmix" \in mode[m])

PeerCopy(m, o) ==
  LET local == dev(m).sendlocal /\ target_in_same_network(m, o) IN
  [to |-> o, hop |-> m, seal |-> sealFor(m, o), raw |-> FALSE,
   inc |-> IF local THEN endpoints[m][o].localep ELSE endpoints[m][o].ep,
   via |-> IF local THEN "local" ELSE "public"]

ServerCopy(m, seal) ==
  [to |-> Server, hop |-> m, seal |-> seal, raw |-> FALSE, inc |-> 0,
   via |-> "public"]

(* Mutant: a peer-to-peer client never sends to the relay server. *)
sendtoserverRelayOnly(m) == "p2p" \notin mode[m]

(* recsrv: a client in relay mode sends to the server only, one in         *)
(* peer-to-peer mode to its peers, and to the server if a member is not.   *)
sendtoserver(m) ==
  "p2p" \notin mode[m] \/ Targets(m) # PeerTargets(m)

(* Mutant: members in relay mode get a copy directly, too. *)
CopiesAll(m) ==
  (IF "p2p" \in mode[m] THEN {PeerCopy(m, o) : o \in Targets(m)} ELSE {})
  \cup (IF sendtoserver(m) THEN {ServerCopy(m, serverSeal(m))} ELSE {})

Copies(m) ==
  (IF "p2p" \in mode[m]
     THEN {PeerCopy(m, o) : o \in {q \in PeerTargets(m) :
                                     Wanted(m, q) /\ MixFits(m, q)}}
     ELSE {})
  \cup (IF sendtoserver(m) THEN {ServerCopy(m, serverSeal(m))} ELSE {})

(* xrecsrv: the server gets a copy when a peer does not want one, members  *)
(* that are not peers do not count, a downmix is not told apart, and the   *)
(* copy for the server is never encrypted.                                 *)
XCopies(m) ==
  LET peers == IF "p2p" \in mode[m] THEN PeerTargets(m) ELSE {} IN
  {PeerCopy(m, o) : o \in {q \in peers : Wanted(m, q)}}
  \cup (IF "p2p" \notin mode[m] \/ \E o \in peers : ~Wanted(m, o)
          THEN {ServerCopy(m, 0)} ELSE {})

(* Mutant: the copy for the server is not counted. *)
CountedPeers(m) == IF "p2p" \in mode[m] THEN PeerTargets(m) ELSE {}

(* peers_total and peers_encrypted: a peer counts whether or not sending   *)
(* to it is deactivated.                                                   *)
Counted(m) ==
  (IF "p2p" \in mode[m] THEN PeerTargets(m) ELSE {})
  \cup (IF sendtoserver(m) THEN {Server} ELSE {})
CountedEncrypted(m) ==
  {o \in Counted(m) : IF o = Server THEN serverSeal(m) # 0
                                    ELSE sealFor(m, o) # 0}

----------------------------------------------------------------------------
NoPacket == [src |-> Server, port |-> "main", calm |-> FALSE,
             any |-> FALSE, all |-> FALSE]

(* Everything anybody knows is up to date. *)
AllKnown ==
  \A m \in Present :
    /\ registered[m] = Truth(m)
    /\ srvkey[m]
    /\ endpoints[m][m] = [Truth(m) EXCEPT !.localep = endpoints[m][m].localep]
    /\ \A o \in Present \ {m} : endpoints[m][o] = Truth(o)

(* A local packet of m.  The previous one has been dealt with.  sent.calm  *)
(* is a history: the packet was sent when everything was known, and        *)
(* nothing was lost or forgotten since.                                    *)
Send(m) ==
  /\ m \in Present /\ wire = {}
  /\ wire' = Copies(m)
  /\ handed' = [o \in Members |-> {}]
  /\ sent' = [src |-> m, port |-> "main", calm |-> AllKnown,
              any |-> CountedEncrypted(m) # {},
              all |-> CountedEncrypted(m) # {}
                        /\ CountedEncrypted(m) = Counted(m)]
  /\ UNCHANGED <<clients, known>>

SendX(m) ==
  /\ XPorts /\ m \in Present /\ wire = {}
  /\ wire' = XCopies(m)
  /\ handed' = [o \in Members |-> {}]
  /\ sent' = [NoPacket EXCEPT !.src = m, !.port = "x", !.calm = AllKnown]
  /\ UNCHANGED <<clients, known>>

(* The relay server passes a packet on to every other member that takes    *)
(* packets, except from peer to peer.                                      *)
Relay(c) ==
  LET s == sent.src
      to == {o \in Members \ {s} :
               /\ registered[o].on /\ "donotsend" \notin registered[o].mode
               /\ ~({"p2p"} \subseteq registered[s].mode \cap registered[o].mode)}
      seal(o) == IF "encryption" \in registered[s].mode \cap registered[o].mode
                 THEN registered[o].pubkey ELSE 0
  IN /\ c \in wire /\ c.to = Server
     /\ wire' = (wire \ {c}) \cup
          (IF registered[s].on
             THEN {[to |-> o, hop |-> Server, seal |-> seal(o), raw |-> FALSE,
                    inc |-> registered[o].ep, via |-> "server"] : o \in to}
             ELSE {})
     /\ UNCHANGED <<clients, known, handed, sent>>

----------------------------------------------------------------------------
(* process_msg. *)

(* The part that is handed to local receivers: what cannot be opened is    *)
(* taken to be plain.                                                      *)
Opened(m, c) ==
  IF /\ "encryption" \in endpoints[m][sent.src].mode
     /\ "encryption" \in mode[m]
     /\ c.seal = inc[m]
  THEN 0 ELSE c.seal

(* Mutant: a packet is also handed to the port it is received from. *)
LocalPortsLoop(m) == {"main", "recport"}

(* The local port, and the additional ports xdest. *)
LocalPorts(m) == {"main"} \cup (IF dev(m).extra THEN {"extra"} ELSE {})

(* Raw copies for the proxy clients, not for the sender itself, if the     *)
(* message seems to come from another network.                             *)
ProxyCopies(m, c, seen) ==
  IF seen = "local" THEN {}
  ELSE {[to |-> o, hop |-> m, seal |-> Opened(m, c), raw |-> TRUE, inc |-> 0,
         via |-> c.via] : o \in dev(m).proxyclients \ {sent.src}}

(* The sender address process_msg finds in its message.  msgbuf_t::copy    *)
(* does not copy it: a message the sorter held back carries whatever its   *)
(* buffer contains, which was never written.                               *)
SenderSeen(c) == IF Reordering THEN {"local", "public"} ELSE {c.via}

Deliver(c) ==
  LET m == c.to IN
  /\ c \in wire /\ m # Server /\ ~c.raw /\ c.inc = inc[m]
  /\ IF m = sent.src
       THEN /\ wire' = wire \ {c}
            /\ UNCHANGED handed
       ELSE \E seen \in SenderSeen(c) :
            /\ wire' = (wire \ {c}) \cup ProxyCopies(m, c, seen)
            /\ handed' = [handed EXCEPT ![m] = @ \cup
                 {[port |-> p, seal |-> Opened(m, c), hop |-> c.hop]
                    : p \in LocalPorts(m)}]
  /\ UNCHANGED <<clients, known, sent>>

(* A raw copy goes to the audio receiver of a proxy client. *)
DeliverRaw(c) ==
  /\ c \in wire /\ c.raw
  /\ wire' = wire \ {c}
  /\ handed' = [handed EXCEPT ![c.to] = @ \cup
       {[port |-> "main", seal |-> c.seal, hop |-> c.hop]}]
  /\ UNCHANGED <<clients, known, sent>>

(* A copy for the socket of an earlier incarnation finds nobody, and any   *)
(* copy may get lost.                                                      *)
Lose(c) ==
  /\ c \in wire
  /\ wire' = wire \ {c}
  /\ sent' = [sent EXCEPT !.calm = FALSE]
  /\ UNCHANGED <<clients, known, handed>>

----------------------------------------------------------------------------
(* What the clients know. *)

(* The histories of a packet end with it; one on its way is not calm any   *)
(* more.                                                                   *)
Disturbed ==
  IF wire = {}
  THEN handed' = [o \in Members |-> {}] /\ sent' = NoPacket
  ELSE UNCHANGED handed /\ sent' = [sent EXCEPT !.calm = FALSE]

(* send_registration: three datagrams to the server, each may get lost. *)
send_registration(m) ==
  /\ m \in Present
  /\ \E kind \in Kind :
       registered' = [registered EXCEPT ![m] = cid_update(@, kind, Truth(m))]
  /\ Disturbed
  /\ UNCHANGED <<clients, endpoints, srvkey, wire>>

(* The server answers to the socket a registration came from. *)
Reached(m) == registered[m].on /\ registered[m].ep = inc[m]

(* process_msg, control ports: the server reports what it knows of o.  The *)
(* own local address is not accepted (loopback).                           *)
Learn(m, o) ==
  /\ m \in Present /\ o \in Present
  /\ Reached(m) /\ registered[o].on
  /\ \E kind \in IF m = o THEN Kind \ {"localip"} ELSE Kind :
       endpoints' = [endpoints EXCEPT ![m][o] =
                       cid_update(@, kind, registered[o])]
  /\ Disturbed
  /\ UNCHANGED <<clients, registered, srvkey, wire>>

LearnServerKey(m) ==
  /\ m \in Present /\ Reached(m)
  /\ srvkey' = [srvkey EXCEPT ![m] = TRUE]
  /\ Disturbed
  /\ UNCHANGED <<clients, registered, endpoints, wire>>

(* checkstatus resets an entry that timed out. *)
Expire(m, o) ==
  /\ <<m, o>> \in setup.unstable /\ endpoints[m][o] # FreshEntry
  /\ endpoints' = [endpoints EXCEPT ![m][o] = FreshEntry]
  /\ Disturbed
  /\ UNCHANGED <<clients, registered, srvkey, wire>>

(* The session of m restarts, maybe in another mode: a new ovboxclient_t.  *)
Restart(m) ==
  /\ m \in setup.restarts /\ inc[m] < MaxInc
  /\ inc' = [inc EXCEPT ![m] = @ + 1]
  /\ mode' = [mode EXCEPT ![m] = setup.after]
  /\ endpoints' = [endpoints EXCEPT ![m] = [o \in Members |-> FreshEntry]]
  /\ srvkey' = [srvkey EXCEPT ![m] = FALSE]
  /\ Disturbed
  /\ UNCHANGED <<setup, registered, wire>>

Init ==
  /\ setup \in Setups
  /\ mode = [m \in Members |-> dev(m).mode]
  /\ inc = [m \in Members |-> 1]
  /\ registered = [m \in Members |->
       IF m \in Present /\ <<m, Server>> \notin setup.unstable
       THEN Truth(m) ELSE FreshEntry]
  /\ endpoints = [m \in Members |-> [o \in Members |->
       IF {m, o} \subseteq Present /\ <<m, o>> \notin setup.unstable
       THEN Truth(o) ELSE FreshEntry]]
  /\ srvkey = [m \in Members |-> <<m, Server>> \notin setup.unstable]
  /\ wire = {}
  /\ handed = [m \in Members |-> {}]
  /\ sent = NoPacket

Next ==
  \/ \E m \in Members :
       \/ Send(m) \/ SendX(m)
       \/ send_registration(m) \/ LearnServerKey(m) \/ Restart(m)
       \/ \E o \in Members : Learn(m, o) \/ Expire(m, o)
  \/ \E c \in wire : Relay(c) \/ Deliver(c) \/ DeliverRaw(c) \/ Lose(c)

Spec == Init /\ [][Next]_vars
----------------------------------------------------------------------------
(* Properties. *)

(* Every entry, copy and history has its type. *)
TypeOK ==
  /\ setup \in Setups
  /\ mode \in [Members -> SUBSET Flag]
  /\ inc \in [Members -> 1 .. MaxInc]
  /\ registered \in [Members -> Entry]
  /\ endpoints \in [Members -> [Members -> Entry]]
  /\ srvkey \in [Members -> BOOLEAN]
  /\ wire \subseteq Copy
  /\ handed \in [Members -> SUBSET [port : {"main", "extra"},
                   seal : 0 .. MaxInc, hop : Members \cup {Server}]]
  /\ sent \in [src : Members \cup {Server}, port : {"main", "x"},
              calm : BOOLEAN, any : BOOLEAN, all : BOOLEAN]

got(o, port) == {h \in handed[o] : h.port = port}

(* No restart takes a member into or out of peer-to-peer mode.             *)
PeersStay ==
  \A m \in setup.restarts : ("p2p" \in setup.after) <=> ("p2p" \in dev(m).mode)

(* Sessions in which no packet is doubled: with more than two devices, a   *)
(* member that changes between direct and relayed may get the copy that    *)
(* was sent to it directly and the one for the server, which still is, or  *)
(* already is, to be relayed to it.  Every client that is listed by a      *)
(* proxy uses one.                                                         *)
Steady ==
  /\ PeersStay \/ \E i, j \in Members : Present \subseteq {i, j}
  /\ \A q \in Members : \A o \in dev(q).proxyclients :
       "usingproxy" \in dev(o).mode \cap (IF o \in setup.restarts THEN setup.after ELSE Flag)

(* No receiver is given a packet twice, and none its own, however          *)
(* incomplete or old the lists of the members are: what a peer gets        *)
(* directly, the relay server does not send it too (recsrv 513-569,        *)
(* process_msg 442-444, 465-466).  Devices that use a proxy are excepted:  *)
(* while the list of a neighbour is incomplete they may get the packet     *)
(* from it and from the proxy.                                             *)
AtMostOnce ==
  Steady => \A o \in Present : \A port \in LocalPorts(o) :
    /\ "usingproxy" \notin mode[o] => Cardinality(got(o, port)) <= 1
    /\ o = sent.src => handed[o] = {}

Proxied(o) == \E q \in Present : o \in dev(q).proxyclients

(* Proxies are set up as meant.  A client takes nothing but what comes     *)
(* from its own network and from its one proxy, which is a peer in the     *)
(* same network, takes what the client takes and can tell where it comes   *)
(* from: everybody in the network sends to local addresses there, and no   *)
(* packet is held back by the sorter, which forgets its sender.            *)
ProxiesServe ==
  /\ \A o \in Present : {"donotsend", "usingproxy"} \subseteq mode[o] => Proxied(o)
  /\ \A q \in Present : \A o \in Present \cap dev(q).proxyclients :
       /\ {"p2p", "donotsend", "usingproxy"} \subseteq mode[o]
       /\ "p2p" \in mode[q] /\ "donotsend" \notin mode[q]
       /\ ("recmix" \in mode[q]) <=> ("recmix" \in mode[o])
       /\ dev(q).net = dev(o).net
       /\ \A m \in Present : dev(m).net = dev(o).net => dev(m).sendlocal
       /\ \A r \in Present \ {q} : o \notin dev(r).proxyclients
       /\ ~Reordering

(* By its settings o takes the packet, itself or with a proxy. *)
Receives(o) ==
  /\ o # sent.src
  /\ "p2p" \in mode[o] \cap mode[sent.src] =>
       (("recmix" \in mode[o]) <=> ("sendmix" \in mode[sent.src]))
  /\ "donotsend" \notin mode[o] \/ Proxied(o)

(* Where proxies are set up as meant:                                      *)
(* a packet sent when everything is known and of which nothing is lost     *)
(* reaches every member that takes packets exactly once and readable:      *)
(* directly, over the relay server, or over its proxy (recsrv, process_    *)
(* msg); a second receiver gets it too.  Members that do not take packets  *)
(* and have no proxy get none.                                             *)
ServedWhenKnown ==
  (ProxiesServe /\ sent.calm /\ sent.port = "main" /\ wire = {}) =>
    \A o \in Present :
      IF Receives(o)
      THEN /\ Cardinality(got(o, "main")) = 1
           /\ dev(o).extra /\ "usingproxy" \notin mode[o] =>
                Cardinality(got(o, "extra")) = 1
           /\ \A h \in handed[o] : h.seal = 0
      ELSE handed[o] = {}

(* While a client reports that all it sends is encrypted (send_encrypt_    *)
(* all), no plain copy of the packet it reports on leaves it (recsrv).     *)
LockMeansEncrypted ==
  \A c \in wire :
    (c.hop = sent.src /\ sent.port = "main" /\ sent.all) =>
      c.seal # 0

(* ovboxclient.cc:64-66: a proxy device forwards packets to its clients    *)
(* "if the message arrived from outside the local network".                *)
ForwardedFromOutside == \A c \in wire : c.raw => c.via # "local"
=============================================================================
