------------------------------- MODULE Session -------------------------------
(***************************************************************************)
(* The sessions of several ovbox devices as one system of audio paths:     *)
(* what ov_render_tascar_t::start_session builds from the configuration a  *)
(* device polled (JACK clients and their ports, connections, the ports it  *)
(* waits for, zita network senders and receivers, the ovbox client with    *)
(* its UDP ports), and how these fit together across devices.              *)
(*                                                                         *)
(* Each device polls on its own: sessions built from different versions of *)
(* the configuration run side by side.  A session is kept as the stage_t   *)
(* it was built from; everything else is derived from that by operators,   *)
(* but for what the ovbox clients know of each other: their lists are      *)
(* filled by registrations over the relay server, and may lag.             *)
(* Positions, gains, acoustics and the text of the file are left out.      *)
(***************************************************************************)
EXTENDS Integers, Sequences, FiniteSets

CONSTANTS
  Devices,    \* devices
  Id,         \* their numbers on the stage
  Room,       \* the room (session) each belongs to
  Machine,    \* the computer each runs on
  Secondary,  \* devices that are secondary clients of their computer
  Names,      \* names of channels, numbers from 1 on; 0: without name
  XPorts,     \* numbers of additional ports (xrecport)
  Setups,     \* configurations considered: see Setup
  NoSession   \* no session is running

(* stage_device_t: what all members know of a device. *)
Member == [present : BOOLEAN, channels : Seq({0} \cup Names),
           senddownmix : BOOLEAN, receivedownmix : BOOLEAN, nozita : BOOLEAN]

(* render_settings_t, and those of the extra settings that add ports.      *)
Extra == {"outputports", "headtracking", "reclevelanalyser", "mczita",
          "mczitasend", "emptysessionismonitor", "selfmonitor"}
Render == [receive : BOOLEAN, rawmode : BOOLEAN, secrec : BOOLEAN,
           peer2peer : BOOLEAN, rectype : {"hrtf", "omni", "itu51"},
           xrecport : SUBSET XPorts, extra : SUBSET Extra]

Settings == [dev : Member, render : Render]

(* Devices that run, the configuration to start from, what it may become;  *)
(* late: the clients learn of each other step by step, not at once.        *)
Setup == [used : SUBSET Devices, start : [Devices -> Settings],
          choices : [Devices -> SUBSET Settings], late : BOOLEAN]

(* What the relay server or a client has of a device: whether it lists it, *)
(* in which mode, and whether the client that said so is still the one     *)
(* that runs.                                                              *)
Flag == {"p2p", "donotsend", "recmix", "sendmix"}
Entry == [on : BOOLEAN, mode : SUBSET Flag, new : BOOLEAN]
NoEntry == [on |-> FALSE, mode |-> {}, new |-> FALSE]

ASSUME SessionAssumption ==
  /\ IsFiniteSet(Devices)
  /\ Id \in [Devices -> 0 .. 31]
  /\ \A d, e \in Devices : Room[d] = Room[e] /\ Id[d] = Id[e] => d = e
  /\ Secondary \subseteq Devices
  /\ \A d, e \in Devices :
       Machine[d] = Machine[e] /\ (d \in Secondary <=> e \in Secondary) => d = e
  /\ 0 \notin Names /\ Names \subseteq Nat
  /\ Setups \subseteq Setup

VARIABLES
  setup,   \* which devices run, and how they may be set
  config,  \* the configuration server's settings of each device
  stage,   \* stage[d]: what the renderer of d stores
  built,   \* built[d]: the stage its running session was built from
  registered, \* registered[d]: the relay server's entry of d
  lists       \* lists[d][e]: the entry of e in the list of d's client

known == <<registered, lists>>
vars == <<setup, config, stage, built, known>>

Absent == [present |-> FALSE, channels |-> <<>>, senddownmix |-> FALSE,
           receivedownmix |-> FALSE, nozita |-> FALSE]

(* stage_t: host is the relay server, empty outside of a room. *)
Stage == [host : BOOLEAN, render : Render, thisdevice : Member,
          stage : [Devices -> Member]]


(* Mutant: who is not in the room is not in the map. *)
PolledPresent(d) ==
  [host |-> config[d].dev.present, render |-> config[d].render,
   thisdevice |-> config[d].dev,
   stage |-> [m \in {x \in Devices : Room[x] = Room[d] /\ config[x].dev.present}
                |-> config[m].dev]]

(* What device d reads from the server: itself, and the members of its     *)
(* room while it is on stage (get_stage_dev, parse_config).                *)
Polled(d) ==
  LET host == config[d].dev.present IN
  [host |-> host, render |-> config[d].render, thisdevice |-> config[d].dev,
   stage |-> [m \in Devices |->
     IF host /\ Room[m] = Room[d] /\ config[m].dev.present
     THEN config[m].dev ELSE Absent]]

(* Mutant: members are compared by presence and number of channels only. *)
DiffersLoosely(a, b) ==
  \/ a.host # b.host \/ a.render # b.render
  \/ \E m \in Devices : a.stage[m].present # b.stage[m].present
                          \/ Len(a.stage[m].channels) # Len(b.stage[m].channels)

(* The comparisons the setters ask before they require a restart. *)
Differs(a, b) ==
  a.host # b.host \/ a.render # b.render \/ a.thisdevice # b.thisdevice
    \/ a.stage # b.stage

----------------------------------------------------------------------------
(* The clients of the sessions, and what they know of each other. *)

Running(d) == built[d] # NoSession
Clients == {d \in Devices : Running(d) /\ built[d].host}  \* ovboxclient_t

When(condition, S) == IF condition THEN S ELSE {}

(* The mode a client is constructed with and registers in.                 *)
mode(d) ==
  When(built[d].render.peer2peer, {"p2p"})
  \cup When(~built[d].render.receive, {"donotsend"})
  \cup When(built[d].thisdevice.receivedownmix, {"recmix"})
  \cup When(built[d].thisdevice.senddownmix, {"sendmix"})

Truth(d) == [on |-> TRUE, mode |-> mode(d), new |-> TRUE]
TruthNow(d) == IF d \in Clients THEN Truth(d) ELSE NoEntry

(* The entries that the clients and the server go by.                      *)
Listed(s, r) == IF setup.late THEN lists[s][r] ELSE TruthNow(r)
Served(d) == IF setup.late THEN registered[d] ELSE TruthNow(d)

(* Mutant: the new client takes the list of the one before it over. *)
forgottenNot(d) == [x \in Devices |-> [lists[x] EXCEPT ![d].new = FALSE]]

(* A client starts with an empty list; others keep what they have of its   *)
(* predecessor.                                                            *)
forgotten(d) ==
  [x \in Devices |-> IF x = d THEN [e \in Devices |-> NoEntry]
                             ELSE [lists[x] EXCEPT ![d].new = FALSE]]

----------------------------------------------------------------------------
(* Actions. *)

(* Somebody edits the settings of d. *)
Change(d) ==
  \E c \in setup.choices[d] \ {config[d]} :
    /\ config' = [config EXCEPT ![d] = c]
    /\ UNCHANGED <<setup, stage, built, known>>

(* The client of d ends with its session. *)
Leave(d) ==
  /\ registered' = [registered EXCEPT ![d].new = FALSE]
  /\ lists' = forgotten(d)

(* One poll of d: the settings are stored, and the session is built anew   *)
(* if they differ from the stored ones or none is running.                 *)
Poll(d) ==
  /\ stage' = [stage EXCEPT ![d] = Polled(d)]
  /\ \/ /\ ~Running(d) \/ Differs(Polled(d), stage[d])
        /\ built' = [built EXCEPT ![d] = Polled(d)] /\ Leave(d)
     \/ /\ Running(d) /\ ~Differs(Polled(d), stage[d])
        /\ UNCHANGED <<built, known>>
  /\ UNCHANGED <<setup, config>>

(* end_session: the service is stopped, or the audio server restarted. *)
End(d) ==
  /\ Running(d)
  /\ built' = [built EXCEPT ![d] = NoSession] /\ Leave(d)
  /\ UNCHANGED <<setup, config, stage>>

(* The relay server gets a registration of d, sent with every round of     *)
(* pings.                                                                  *)
Register(d) ==
  /\ setup.late /\ d \in Clients /\ registered[d] # Truth(d)
  /\ registered' = [registered EXCEPT ![d] = Truth(d)]
  /\ UNCHANGED <<setup, config, stage, built, lists>>

(* The client of d gets what the server has of another member.  It has     *)
(* sent its own registration before: from then on the server knows the     *)
(* port it is bound to.                                                    *)
Learn(d, e) ==
  /\ setup.late /\ d # e /\ Room[d] = Room[e]
  /\ registered[d].new /\ registered[e].on /\ lists[d][e] # registered[e]
  /\ lists' = [lists EXCEPT ![d][e] = registered[e]]
  /\ UNCHANGED <<setup, config, stage, built, registered>>

(* The client of d hears nothing of e for a while (checkstatus). *)
Expire(d, e) ==
  /\ setup.late /\ lists[d][e].on
  /\ lists' = [lists EXCEPT ![d][e] = NoEntry]
  /\ UNCHANGED <<setup, config, stage, built, registered>>

Unset == [receive |-> TRUE, rawmode |-> FALSE, secrec |-> FALSE,
          peer2peer |-> TRUE, rectype |-> "hrtf", xrecport |-> {}, extra |-> {}]

Init ==
  /\ setup \in Setups /\ config = setup.start
  /\ stage = [d \in Devices |-> [host |-> FALSE, render |-> Unset,
                thisdevice |-> Absent, stage |-> [m \in Devices |-> Absent]]]
  /\ built = [d \in Devices |-> NoSession]
  /\ registered = [d \in Devices |-> NoEntry]
  /\ lists = [d \in Devices |-> [e \in Devices |-> NoEntry]]

Next == \E d \in setup.used :
  \/ Change(d) \/ Poll(d) \/ End(d) \/ Register(d)
  \/ \E e \in setup.used : Learn(d, e) \/ Expire(d, e)

Spec == Init /\ [][Next]_vars
----------------------------------------------------------------------------
(* The parts of a session of device d built from s. *)

(* A JACK port: client (its kind, and the device it is for), direction or  *)
(* name, number.                                                           *)
Port(kind, m, io, n) == <<kind, m, io, n>>
Numbered(kind, m, io, ns) == {Port(kind, m, io, n) : n \in ns}

Indices(member) == DOMAIN member.channels
Sends(member) == member.channels # <<>>

(* The k-th channel is called by its name, or by its number among those    *)
(* without name: its id, and the name of its sound source in TASCAR.       *)
portname(member, k) ==
  IF member.channels[k] # 0 THEN member.channels[k]
  ELSE -Cardinality({i \in 1 .. k : member.channels[i] = 0})

(* Mutant: every channel counts. *)
portnameIndex(member, k) ==
  IF member.channels[k] # 0 THEN member.channels[k] ELSE -k

(* How a receiver names the sound source of the k-th channel of a member.  *)
destname(member, k) == portname(member, k)

(* How the metronome's connections name the own sound sources: the number  *)
(* of a channel without name counts the named ones, too.                   *)
ego_source_name(member, k) ==
  IF member.channels[k] # 0 THEN member.channels[k] ELSE -k

Has(s, x) == x \in s.render.extra
(* Virtual acoustics, or a plain mixer. *)
Virtual(s) == ~(s.render.rawmode \/ s.thisdevice.receivedownmix)
InVirtualRoom(s) == s.host /\ Virtual(s)
InRawRoom(s) == s.host /\ ~Virtual(s)

b_sender(s) == Sends(s.thisdevice) /\ ~s.thisdevice.senddownmix

(* Members with a sound source in the scene of d: the sending ones, d      *)
(* itself if it sends its own channels; outside of a room d as a monitor.  *)
Sources(s, d) ==
  IF ~Virtual(s) \/ ~s.render.receive THEN {}
  ELSE IF s.host
    THEN {m \in Devices : Sends(s.stage[m]) /\ (b_sender(s) \/ m # d)
                            /\ (~s.stage[m].senddownmix \/ m = d)}
    ELSE {m \in {d} : Has(s, "emptysessionismonitor")}

Source(s, d, m) == IF m = d THEN s.thisdevice ELSE s.stage[m]

(* Channels a network receiver for a member asks for. *)
chanlist(member) ==
  1 .. (IF member.senddownmix THEN 2 ELSE Len(member.channels))

(* Members d creates a receiver for: those whose kind of mix it takes.     *)
(* Only the virtual acoustics leave members without channels out: a        *)
(* downmixing device need not have any.                                    *)
Received(s, d) ==
  {m \in Devices \ {d} :
     /\ s.host /\ s.render.receive
     /\ s.stage[m].present
     /\ s.stage[m].senddownmix = s.thisdevice.receivedownmix
     /\ Virtual(s) => Sends(s.stage[m])}
Zita(s, d) == {m \in Received(s, d) : ~s.stage[m].nozita}

(* The second receiver is for the same members, but its bus is as wide as  *)
(* the member has channels.                                                *)
SecondaryBus(s, d) == IF s.render.secrec THEN Received(s, d) ELSE {}

(* Channels of the network sender of d, none if there is no sender.  The   *)
(* plain mixer does not ask for nozita, nor for senddownmix.               *)
SenderChannels(s) ==
  IF InRawRoom(s) THEN Indices(s.thisdevice)
  ELSE IF ~InVirtualRoom(s) \/ s.thisdevice.nozita THEN {}
  ELSE IF s.thisdevice.senddownmix
    THEN IF s.render.receive THEN {1, 2} ELSE {}
    ELSE Indices(s.thisdevice)

Metronome(s) == InVirtualRoom(s) /\ b_sender(s)

(* The delayed self monitor that belongs to the second receivers. *)
SelfDelayed(s) == s.host /\ s.render.secrec

(* Outputs of the scene's receiver, left and right. *)
mainport(s, side) ==
  CASE s.render.rectype = "hrtf" -> <<"main_l", "main_r">>[side]
    [] s.render.rectype = "omni" -> "main.0"
    [] s.render.rectype = "itu51" -> <<"main.0L", "main.1R">>[side]
MainPort(s, d, side) == Port("scene", d, mainport(s, side), 0)

Bus(s) == When(s.host \/ Has(s, "emptysessionismonitor"), Indices(s.thisdevice))
busname(s, k) == portname(s.thisdevice, k)
get_channel_source(s, d, k) == Port("bus", d, "out", busname(s, k))

(* Ports of the clients that the session starts: the own channels', *)
OwnPorts(s, d) ==
  {Port("tuner", d, "in", 0)}
  \cup {Port("bus", d, io, busname(s, k)) : io \in {"in", "out"}, k \in Bus(s)}
  \cup Numbered("level", d, "in",
         When(Has(s, "reclevelanalyser"), Indices(s.thisdevice)))
  \cup Numbered("sec", d, "in", When(SelfDelayed(s), Indices(s.thisdevice)))
  \cup Numbered("metronome", d, "out", When(Metronome(s), {0, 1}))
  \cup Numbered("sender", d, "in", SenderChannels(s))

(* those of the scene or of the plain mixer, *)
MixPorts(s, d) ==
  When(Virtual(s) /\ s.render.receive, {MainPort(s, d, side) : side \in {1, 2}})
  \cup (UNION {LET member == Source(s, d, m) IN
               {Port("sound", m, "in", portname(member, k)) : k \in Indices(member)}
                 : m \in Sources(s, d)})
  \cup {Port("main", d, io, n) :
          io \in When(InRawRoom(s) /\ s.render.receive, {"in", "out"}), n \in {0, 1}}

(* those of the network receivers, *)
ReceiverPorts(s, d) ==
  (UNION {Numbered("n2j", m, "out", chanlist(s.stage[m]))
          \cup Numbered("n2jsec", m, "out",
                 When(m \in SecondaryBus(s, d), chanlist(s.stage[m])))
            : m \in Zita(s, d)})
  \cup (UNION {Numbered("sec", m, "in", Indices(s.stage[m])) : m \in SecondaryBus(s, d)})
  \cup UNION {Numbered("route", m, io, chanlist(s.stage[m]))
                : m \in When(~Virtual(s), Received(s, d)), io \in {"in", "out"}}

(* those of a multi channel link, an example of it, *)
LinkPorts(s, d) ==
  Numbered("mc", d, "out", When(Has(s, "mczita"), {1, 3}))
  \cup Numbered("mcsend", d, "in", When(Has(s, "mczitasend"), {1, 2}))

(* and those of the sound card. *)
HwPorts(s, d) ==
  Numbered("system", d, "capture", Indices(s.thisdevice))
  \cup Numbered("system", d, "playback", {1, 2})

Ports(s, d) ==
  OwnPorts(s, d) \cup MixPorts(s, d) \cup ReceiverPorts(s, d)
  \cup LinkPorts(s, d) \cup HwPorts(s, d)

(* The channels of the plain mixer go to the left and the right output in  *)
(* turn, counted over all members.                                         *)
MixedBefore(s, d, m, k) ==
  (UNION {{<<q, i>> : i \in chanlist(s.stage[q])}
            : q \in {x \in Received(s, d) : Id[x] < Id[m]}})
  \cup {<<m, i>> : i \in 1 .. k - 1}
mixside(s, d, m, k) == Cardinality(MixedBefore(s, d, m, k)) % 2

(* Connections of the network receivers. *)
ReceiverConnections(s, d, m) ==
  LET zita == When(m \in Zita(s, d), chanlist(s.stage[m])) IN
  IF Virtual(s)
  THEN {<<Port("n2j", m, "out", k), Port("sound", m, "in", destname(s.stage[m], k))>>
          : k \in When(m \in Zita(s, d), Indices(s.stage[m]))}
  ELSE {<<Port("n2j", m, "out", k), Port("route", m, "in", k)>> : k \in zita}
       \cup {<<Port("route", m, "out", k), Port("main", d, "in", mixside(s, d, m, k))>>
          : k \in chanlist(s.stage[m])}

SecondaryConnections(s, d, m) ==
  {<<Port("n2jsec", m, "out", k), Port("sec", m, "in", k)>>
     : k \in When(m \in SecondaryBus(s, d) \cap Zita(s, d), Indices(s.stage[m]))}

(* Connections of the k-th own channel: tuner, level meter, effect bus,    *)
(* self monitor, delayed self monitor, network sender.                     *)
OwnConnections(s, d, k) ==
  LET capture == Port("system", d, "capture", k) IN
  {<<capture, p>> : p \in
     {Port("tuner", d, "in", 0)}
     \cup When(Has(s, "reclevelanalyser"), {Port("level", d, "in", k)})
     \cup When(k \in Bus(s), {Port("bus", d, "in", busname(s, k))})}
  \cup {<<get_channel_source(s, d, k), p>> : p \in
     When(d \in Sources(s, d) /\ (s.host => Has(s, "selfmonitor")),
          {Port("sound", d, "in", portname(s.thisdevice, k))})
     \cup When(SelfDelayed(s), {Port("sec", d, "in", k)})
     \cup When(k \in SenderChannels(s) /\ (InRawRoom(s) \/ Metronome(s)),
               {Port("sender", d, "in", k)})}

(* Connections of the metronome, to the sender and to the own sounds. *)
MetronomeConnections(s, d) ==
  {<<Port("metronome", d, "out", 0), Port("sender", d, "in", k)>>
     : k \in When(Metronome(s), SenderChannels(s))}
  \cup {<<Port("metronome", d, "out", 1),
          Port("sound", d, "in", ego_source_name(s.thisdevice, k))>>
     : k \in When(Metronome(s) /\ s.render.receive, Indices(s.thisdevice))}

(* The main output goes to the sound card, or as a downmix to the sender.  *)
(* The downmix is taken from the ports of the default receiver type.       *)
OutputConnections(s, d) ==
  LET outputs == When(Has(s, "outputports") /\ s.render.receive, {1, 2}) IN
  {<<Port("main", d, "out", n - 1), Port("system", d, "playback", n)>>
     : n \in When(InRawRoom(s), outputs)}
  \cup {<<MainPort(s, d, n), Port("system", d, "playback", n)>>
     : n \in When(Virtual(s) /\ ~s.thisdevice.senddownmix, outputs)}
  \cup {<<Port("scene", d, <<"main_l", "main_r">>[n], 0), Port("sender", d, "in", n)>>
     : n \in When(InVirtualRoom(s) /\ s.thisdevice.senddownmix, SenderChannels(s))}

NetworkConnections(s, d) ==
  UNION {ReceiverConnections(s, d, m) \cup SecondaryConnections(s, d, m)
           : m \in Received(s, d)}

Connections(s, d) ==
  NetworkConnections(s, d) \cup MetronomeConnections(s, d)
  \cup OutputConnections(s, d)
  \cup UNION {OwnConnections(s, d, k) : k \in Indices(s.thisdevice)}

(* Ports the session waits for, five seconds each time, before it connects.*)
WaitPorts(s, d) ==
  {c[1] : c \in NetworkConnections(s, d)} \cup LinkPorts(s, d)
  \cup Numbered("sender", d, "in",
         When(InRawRoom(s) \/ Metronome(s), SenderChannels(s)))

----------------------------------------------------------------------------
(* The network between the sessions. *)

(* Mutant: the offset of the second receivers' ports. *)
portoffset100(d) == IF d \in Secondary THEN 100 ELSE 0

portoffset(d) == IF d \in Secondary THEN 64 ELSE 0
get_zitaport_(id, offset, xoffset) == 4464 + 2 * id + offset + xoffset
zitaport(d, m) == get_zitaport_(Id[m], portoffset(d), 0)

recport(d) == zitaport(d, d)
dist_to_other_tascarport(d) == 9870 + portoffset(d)
my_tascarport(d) == 9871 + portoffset(d)

(* Sockets bound on a computer: the sessions' servers, the ovbox clients   *)
(* with their additional ports, first and second network receivers.        *)
Sockets(machine) ==
  LET here == {d \in Devices : Machine[d] = machine /\ Running(d)}
      Socket(udp, kind, d, m) == [udp |-> udp, kind |-> kind, owner |-> d, from |-> m]
  IN {Socket(my_tascarport(d), "tascar", d, d) : d \in here}
     \cup (UNION {{Socket(recport(d), "ovbox", d, d),
                   Socket(dist_to_other_tascarport(d), "ovbox", d, d)}
                  \cup {Socket(p, "ovbox", d, d) : p \in built[d].render.xrecport}
                    : d \in Clients \cap here})
     \cup (UNION {{Socket(zitaport(d, m), "n2j", d, m) : m \in Zita(built[d], d)}
                  \cup {Socket(get_zitaport_(Id[m], portoffset(d), 100), "n2jsec", d, m)
                          : m \in Zita(built[d], d) \cap SecondaryBus(built[d], d)}
                    : d \in here})

(* What programs on the computer of d send to its ovbox client, as <<local *)
(* port, port for the others>>: audio, head tracking, additional ports.    *)
Local(d) ==
  When(SenderChannels(built[d]) # {},
       {<<zitaport(d, d), recport(d) - portoffset(d)>>})
  \cup When(InVirtualRoom(built[d]) /\ Has(built[d], "headtracking")
              /\ built[d].render.receive,
            {<<dist_to_other_tascarport(d), 9871>>})
  \cup {<<p, p>> : p \in built[d].render.xrecport}

(* Members the client of s has in its list, and the peers among them. *)
Targets(s) ==
  {o \in Devices \ {s} : Room[o] = Room[s] /\ Listed(s, o).on}
PeerTargets(s) == {o \in Targets(s) : "p2p" \in Listed(s, o).mode}
Wanted(s, o) == "donotsend" \notin Listed(s, o).mode
peer2peer(s) == "p2p" \in mode(s)

(* Mutant: the kind of mix is not told apart. *)
PeersAny(s) == {o \in PeerTargets(s) : peer2peer(s) /\ Wanted(s, o)}

(* recsrv: a peer sends its audio to the peers that take its kind of mix,  *)
(* and to the server if a member is no peer; others to the server only.    *)
Peers(s) ==
  {o \in PeerTargets(s) :
     /\ peer2peer(s) /\ Wanted(s, o)
     /\ ("recmix" \in Listed(s, o).mode) = ("sendmix" \in mode(s))}
sendtoserver(s) == ~peer2peer(s) \/ Targets(s) # PeerTargets(s)

(* Mutant: as recsrv does it. *)
XPeersMix(s) ==
  {o \in PeerTargets(s) :
     /\ peer2peer(s) /\ Wanted(s, o)
     /\ ("recmix" \in Listed(s, o).mode) = ("sendmix" \in mode(s))}

(* xrecsrv, for head tracking and additional ports: a peer sends to all    *)
(* peers, and to the server if a peer does not want to be sent to.         *)
XPeers(s) == {o \in PeerTargets(s) : peer2peer(s) /\ Wanted(s, o)}
xsendtoserver(s) == ~peer2peer(s) \/ \E o \in PeerTargets(s) : ~Wanted(s, o)

(* The relay server passes on what s sends it, but not from peer to peer.  *)
Relays(s, r) ==
  /\ Served(s).on /\ Served(r).on
  /\ "donotsend" \notin Served(r).mode
  /\ "p2p" \notin Served(s).mode \cap Served(r).mode

(* Whether the client of r may get what the one of s takes from one of its *)
(* local ports.  A copy for the predecessor of r's client is taken to be   *)
(* able to arrive: the system chooses the port clients are bound to.       *)
Passes(s, r, local) ==
  /\ s # r /\ {s, r} \subseteq Clients /\ Room[s] = Room[r]
  /\ IF local = recport(s)
       THEN r \in Peers(s) \/ (sendtoserver(s) /\ Relays(s, r))
       ELSE r \in XPeers(s) \/ (xsendtoserver(s) /\ Relays(s, r))

(* Local ports the client of r hands a message for port to (process_msg).  *)
HandedTo(r, port) ==
  ({port + portoffset(r)} \cup When(built[r].render.secrec, {port + 100}))
    \ {recport(r)}

(* Sockets that get what s sends of l in Local(s), in the session of r. *)
Reached(s, r, l) ==
  {k \in Sockets(Machine[r]) : Passes(s, r, l[1]) /\ k.udp \in HandedTo(r, l[2])}

----------------------------------------------------------------------------
(* Properties. *)

TypeOK ==
  /\ \A d \in Devices : config[d] \in Settings
  /\ \A d \in Devices : stage[d] \in Stage /\ (Running(d) => built[d] \in Stage)
  /\ \A d \in Devices : registered[d] \in Entry /\ \A e \in Devices : lists[d][e] \in Entry

Consistent(c) == \A k, i \in Indices(c) : (c.channels[k] = 0) = (c.channels[i] = 0)
Wide(s, m) == s.stage[m].senddownmix /\ Len(s.stage[m].channels) > 2

(* Whatever the configuration, a session waits only for ports that one of  *)
(* its clients makes, and connects only ports that exist (start_session):  *)
(* else the start takes five more seconds, or something is not heard.      *)
(* Three combinations fail and are excepted: the metronome with channels   *)
(* of which only some are named; the downmix of another receiver than the  *)
(* default one; the second bus of a downmixer with more than two channels. *)
PortsExist ==
  \A d \in Devices : Running(d) =>
    LET s == built[d]
        excepted ==
          {p \in {c[2] : c \in MetronomeConnections(s, d)} : ~Consistent(s.thisdevice)}
          \cup {Port("scene", d, p, 0) : p \in
                  When(s.thisdevice.senddownmix /\ s.render.rectype # "hrtf",
                       {"main_l", "main_r"})}
          \cup UNION {{c[1] : c \in SecondaryConnections(s, d, m)}
                        : m \in {x \in Devices : Wide(s, x)}}
    IN /\ WaitPorts(s, d) \subseteq Ports(s, d) \cup excepted
       /\ \A c \in Connections(s, d) :
            {c[1], c[2]} \subseteq Ports(s, d) \cup excepted

(* The additional ports of d in any of its configurations. *)
xrecports(d) ==
  UNION {c.render.xrecport : c \in {setup.start[d]} \cup setup.choices[d]}

(* Ports the programs on one computer listen on, and those they hand to.   *)
Reserved == (4464 .. 4690) \cup (9870 .. 9971)

(* The ports of the devices do not meet.  The first condition is about two *)
(* clients on one computer, whose second and first receivers are 100 and   *)
(* 64 ports behind the stage id; the others are about additional ports:    *)
(* what a member hands to one is not sent to the others again.             *)
PortsApart ==
  /\ Secondary # {} => \A d, e \in Devices : Id[d] # Id[e] + 18
  /\ \A d \in Devices : xrecports(d) \cap Reserved = {}
  /\ \A d, r, e \in Devices :
       d # r /\ Room[d] = Room[r] /\ Machine[e] = Machine[r] =>
         \A p \in xrecports(d) :
           {p + portoffset(r), p + 100} \cap (xrecports(e) \cup Reserved) = {}

(* d polled since the last change of its room. *)
UpToDate(d) == Running(d) /\ stage[d] = Polled(d)

(* By their settings, s sends what r takes. *)
Fits(s, r) ==
  LET from == stage[s]  to == stage[r] IN
  /\ from.host /\ to.host /\ SenderChannels(from) # {} /\ ~from.thisdevice.nozita
  /\ to.render.receive
  /\ from.thisdevice.senddownmix = to.thisdevice.receivedownmix

(* Ways from channel k of the network receiver for s to the main mix of r. *)
Ways(s, r, k) ==
  LET to(p) == {c \in Connections(built[r], r) :
                  c[1] = p /\ c[2] \in Ports(built[r], r)}
      first == to(Port("n2j", s, "out", k))
  IN IF Virtual(built[r]) THEN first
     ELSE first \X to(Port("route", s, "out", k))

(* The client of s lists the one of r, and the server has both.            *)
Acquainted(s, r) == setup.late =>
  registered[s].new /\ registered[r].new /\ lists[s][r].new

(* When both sessions are up to date and s knows r, the audio of s reaches *)
(* the network receivers that the session of r has for s, and no other     *)
(* socket of that computer, with as many channels as those expect, each of *)
(* which has one way into the mix of r; if r does not take the audio of s, *)
(* nothing of it is heard.  Head tracking goes to the server of r's        *)
(* session, if r receives, and to nothing else; a member that uses the     *)
(* relay server gets that of a peer only if another peer is not sent to    *)
(* (xrecsrv).  Port numbers are computed in five places (get_zitaport_,    *)
(* ovboxclient_t, recsrv, process_msg, xrecsrv).  The second receiver of a *)
(* secondary client is excepted: its port is not the one messages are      *)
(* handed to (process_msg 460).                                            *)
HeardOnce ==
  PortsApart => \A s, r \in Devices :
    (s # r /\ Room[s] = Room[r] /\ UpToDate(s) /\ UpToDate(r) /\ Acquainted(s, r)
       /\ ~(r \in Secondary /\ stage[r].render.secrec)) =>
      /\ LET got == UNION {Reached(s, r, l) : l \in {x \in Local(s) : x[1] = recport(s)}}
             kinds == {"n2j"} \cup When(stage[r].render.secrec, {"n2jsec"})
         IN IF Fits(s, r)
            THEN /\ {<<k.kind, k.owner, k.from>> : k \in got}
                      = {<<kind, r, s>> : kind \in kinds}
                 /\ Cardinality(got) = Cardinality(kinds)
                 /\ ~(InRawRoom(stage[s]) /\ stage[s].thisdevice.senddownmix) =>
                      SenderChannels(built[s]) = chanlist(built[r].stage[s])
                 /\ \A k \in chanlist(stage[s].thisdevice) :
                      Cardinality(Ways(s, r, k)) = 1
            ELSE got = {}
      /\ \A l \in Local(s) : l[1] = dist_to_other_tascarport(s) =>
           LET server == {k \in Sockets(Machine[r]) : k.kind = "tascar" /\ k.owner = r}
               receives == stage[r].host /\ stage[r].render.receive
               served == ~stage[s].render.peer2peer \/ stage[r].render.peer2peer
           IN /\ Cardinality(server) = 1
              /\ Reached(s, r, l) \subseteq When(receives, server)
              /\ receives /\ served => Reached(s, r, l) = server

(* What comes out of x again when it gets what s sends: messages handed to *)
(* a port that an ovbox client listens on, a member's audio in a mix that  *)
(* is sent.                                                                *)
Returns(s, x) ==
  \E r \in Clients, l \in Local(s) : \E k \in Reached(s, r, l) :
    /\ k.owner = x
    /\ \/ k.kind = "ovbox"
       \/ /\ k.kind = "n2j" /\ \E n \in chanlist(built[x].stage[k.from]) : Ways(k.from, x, n) # {}
          /\ \E c \in Connections(built[x], x), n \in {1, 2} :
               c[1] = MainPort(built[x], x, n) /\ c[2] = Port("sender", x, "in", n)

(* Nothing goes round in circles, not even while devices run sessions from *)
(* different versions of the configuration and their clients go by lists   *)
(* that lag behind: not from mix to mix, and not from the ports messages   *)
(* are handed to into those a client listens on.                           *)
(* The relay server does not tell the kinds of mix apart: with a member    *)
(* that uses it, only sessions that are up to date keep them apart.        *)
NoAudioReturns ==
  /\ PortsApart
  /\ (\A d \in Clients : built[d].render.peer2peer) \/ (\A d \in Clients : UpToDate(d))
  => ~\E circle \in (SUBSET Clients) \ {{}} :
       \A x \in circle : \E s \in circle : Returns(s, x)
=============================================================================
