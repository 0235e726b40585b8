-------------------------- MODULE ForwardingProofs --------------------------
(***************************************************************************)
(* Theorems about the forwarding of local packets, for every session and   *)
(* any number of members, networks and restarts.                           *)
(***************************************************************************)
EXTENDS Forwarding, FiniteSetTheorems, TLAPS

(* The settings of a device have their types.                              *)
LEMMA DeviceType ==
  ASSUME TypeOK, NEW m \in Members
  PROVE  /\ dev(m).mode \in SUBSET Flag /\ dev(m).net \in Nets
         /\ dev(m).proxyclients \in SUBSET Members
         /\ setup.after \in SUBSET Flag
  <1>1. setup \in Setup
    BY SetupsAssumption DEF TypeOK
  <1>2. setup.device \in [Members -> Device] /\ setup.after \in SUBSET Flag
    BY <1>1 DEF Setup
  <1>3. setup.device[m] \in Device
    BY <1>2
  <1> QED
    BY <1>2, <1>3 DEF Device, dev

LEMMA TruthType == ASSUME TypeOK, NEW m \in Members PROVE Truth(m) \in Entry
  <1>1. mode[m] \in SUBSET Flag /\ inc[m] \in 0 .. MaxInc
    BY ForwardingAssumption DEF TypeOK
  <1> QED
    BY <1>1, DeviceType DEF Truth, Entry

LEMMA FreshType == FreshEntry \in Entry
  BY ForwardingAssumption DEF FreshEntry, Entry, Flag

(* An update of an entry takes a part of a well-typed one.                 *)
LEMMA UpdateType ==
  ASSUME NEW e \in Entry, NEW new \in Entry, NEW kind \in Kind
  PROVE  cid_update(e, kind, new) \in Entry
  <1>1. CASE kind = "listcid"
    BY <1>1 DEF cid_update, Entry
  <1>2. CASE kind = "localip"
    BY <1>2 DEF cid_update, Entry
  <1>3. CASE kind = "pubkey"
    BY <1>3 DEF cid_update, Entry
  <1> QED
    BY <1>1, <1>2, <1>3 DEF Kind

(* Copies for peers and for the server are copies.                         *)
LEMMA EntryType ==
  ASSUME TypeOK, NEW m \in Members, NEW o \in Members
  PROVE  endpoints[m][o] \in Entry
  BY DEF TypeOK

LEMMA PeerCopyType ==
  ASSUME TypeOK, NEW m \in Members, NEW o \in Members
  PROVE  PeerCopy(m, o) \in Copy
  <1>1. endpoints[m][o] \in Entry
    BY EntryType
  <1>2. /\ endpoints[m][o].ep \in 0 .. MaxInc
        /\ endpoints[m][o].localep \in 0 .. MaxInc
        /\ sealFor(m, o) \in 0 .. MaxInc
    BY <1>1, ForwardingAssumption DEF Entry, sealFor
  <1> QED
    BY <1>2 DEF PeerCopy, Copy

LEMMA ServerCopyType ==
  ASSUME NEW m \in Members, NEW seal \in 0 .. MaxInc
  PROVE  ServerCopy(m, seal) \in Copy
  BY ForwardingAssumption DEF ServerCopy, Copy

LEMMA CopiesType ==
  ASSUME TypeOK, NEW m \in Members
  PROVE  Copies(m) \subseteq Copy /\ XCopies(m) \subseteq Copy
  <1>1. PeerTargets(m) \subseteq Members
    BY DEF PeerTargets, Targets
  <1>2. serverSeal(m) \in 0 .. MaxInc /\ 0 \in 0 .. MaxInc
    BY ForwardingAssumption DEF serverSeal
  <1>3. ServerCopy(m, serverSeal(m)) \in Copy /\ ServerCopy(m, 0) \in Copy
    BY <1>2, ServerCopyType
  <1>4. Copies(m) \subseteq Copy
    BY <1>1, <1>3, PeerCopyType DEF Copies
  <1>5. XCopies(m) \subseteq Copy
    BY <1>1, <1>3, PeerCopyType DEF XCopies
  <1> QED
    BY <1>4, <1>5

----------------------------------------------------------------------------
(* The lock cannot be shown from TypeOK alone: the copies that others make *)
(* of a packet must not count as the sender's, so that the server is not a *)
(* sender.  NoPacket, whose sender is the server, claims nothing.          *)
IInv == TypeOK /\ LockMeansEncrypted /\ (sent.src = Server => ~sent.all)

LEMMA InitIInv == Init => IInv
  <1> SUFFICES ASSUME Init PROVE IInv
    OBVIOUS
  <1>1. \A m \in Members : dev(m).mode \in SUBSET Flag /\ dev(m).net \in Nets
    <2> SUFFICES ASSUME NEW m \in Members
                 PROVE  dev(m).mode \in SUBSET Flag /\ dev(m).net \in Nets
      OBVIOUS
    <2>1. setup.device \in [Members -> Device]
      BY SetupsAssumption DEF Init, Setup
    <2>2. setup.device[m] \in Device
      BY <2>1
    <2> QED
      BY <2>2 DEF Device, dev
  <1>2. mode \in [Members -> SUBSET Flag] /\ inc \in [Members -> 1 .. MaxInc]
    BY <1>1, ForwardingAssumption DEF Init
  <1>3. \A m \in Members : Truth(m) \in Entry
    BY <1>1, <1>2, ForwardingAssumption DEF Truth, Entry
  <1>4. registered \in [Members -> Entry]
    BY <1>3, FreshType DEF Init
  <1>5. endpoints \in [Members -> [Members -> Entry]]
    BY <1>3, FreshType DEF Init
  <1>6. /\ wire \subseteq Copy /\ setup \in Setups
        /\ srvkey \in [Members -> BOOLEAN]
    BY DEF Init
  <1>7. handed \in [Members -> SUBSET [port : {"main", "extra"},
                      seal : 0 .. MaxInc, hop : Members \cup {Server}]]
    BY DEF Init
  <1>8. sent \in [src : Members \cup {Server}, port : {"main", "x"},
                 calm : BOOLEAN, any : BOOLEAN, all : BOOLEAN] /\ ~sent.all
    BY DEF Init, NoPacket
  <1>9. TypeOK
    BY <1>2, <1>4, <1>5, <1>6, <1>7, <1>8 DEF TypeOK
  <1> QED
    BY <1>8, <1>9 DEF IInv, LockMeansEncrypted, Init

----------------------------------------------------------------------------
(* A packet that is sent. *)

LEMMA SendIInv ==
  ASSUME IInv, NEW m \in Members, Send(m) PROVE IInv'
  <1>1. wire' \subseteq Copy
    BY CopiesType DEF IInv, Send
  <1>2. sent' \in [src : Members \cup {Server}, port : {"main", "x"},
                  calm : BOOLEAN, any : BOOLEAN, all : BOOLEAN]
    BY DEF Send, AllKnown
  <1>3. handed' \in [Members -> SUBSET [port : {"main", "extra"},
                       seal : 0 .. MaxInc, hop : Members \cup {Server}]]
    BY DEF Send
  <1>4. TypeOK'
    BY <1>1, <1>2, <1>3 DEF IInv, TypeOK, Send, clients, known
  <1>5. ASSUME sent'.all, NEW c \in Copies(m) PROVE c.seal # 0
    <2>1. \A o \in Counted(m) : o \in CountedEncrypted(m)
      BY <1>5 DEF Send
    <2>2. \A o \in Counted(m) :
            IF o = Server THEN serverSeal(m) # 0 ELSE sealFor(m, o) # 0
      BY <2>1 DEF CountedEncrypted
    <2>3. CASE sendtoserver(m) /\ c = ServerCopy(m, serverSeal(m))
      <3>1. Server \in Counted(m)
        BY <2>3 DEF Counted
      <3> QED
        BY <2>2, <2>3, <3>1 DEF ServerCopy
    <2>4. ASSUME "p2p" \in mode[m], NEW o \in PeerTargets(m), c = PeerCopy(m, o)
          PROVE  c.seal # 0
      <3>1. o \in Counted(m) /\ o # Server
        BY <2>4, ForwardingAssumption DEF Counted, PeerTargets, Targets
      <3> QED
        BY <2>2, <2>4, <3>1 DEF PeerCopy
    <2> QED
      BY <2>3, <2>4 DEF Copies
  <1>6. LockMeansEncrypted'
    BY <1>5 DEF Send, LockMeansEncrypted
  <1>7. sent'.src # Server
    BY ForwardingAssumption DEF Send
  <1> QED
    BY <1>4, <1>6, <1>7 DEF IInv

LEMMA SendXIInv ==
  ASSUME IInv, NEW m \in Members, SendX(m) PROVE IInv'
  <1>1. wire' \subseteq Copy
    BY CopiesType DEF IInv, SendX
  <1>2. /\ sent' \in [src : Members \cup {Server}, port : {"main", "x"},
                     calm : BOOLEAN, any : BOOLEAN, all : BOOLEAN]
        /\ ~sent'.all
    BY DEF SendX, AllKnown, NoPacket
  <1>3. handed' \in [Members -> SUBSET [port : {"main", "extra"},
                       seal : 0 .. MaxInc, hop : Members \cup {Server}]]
    BY DEF SendX
  <1>4. TypeOK'
    BY <1>1, <1>2, <1>3 DEF IInv, TypeOK, SendX, clients, known
  <1> QED
    BY <1>2, <1>4 DEF IInv, LockMeansEncrypted

----------------------------------------------------------------------------
(* A packet on its way.  What the lock says of the copies that were there  *)
(* stays true, and copies of others are not concerned.                     *)

LEMMA LockKept ==
  ASSUME IInv, NEW new, wire' \subseteq wire \cup new,
         \A c \in new : c.hop # sent.src,
         sent'.src = sent.src, sent'.port = sent.port, sent'.all = sent.all
  PROVE  LockMeansEncrypted' /\ (sent'.src = Server => ~sent'.all)
  BY DEF IInv, LockMeansEncrypted

LEMMA RelayIInv ==
  ASSUME IInv, NEW c \in wire, Relay(c) PROVE IInv'
  <1> DEFINE s == sent.src
             to == {o \in Members \ {s} :
               /\ registered[o].on /\ "donotsend" \notin registered[o].mode
               /\ ~({"p2p"} \subseteq registered[s].mode \cap registered[o].mode)}
             seal(o) == IF "encryption" \in registered[s].mode \cap registered[o].mode
                        THEN registered[o].pubkey ELSE 0
             new == {[to |-> o, hop |-> Server, seal |-> seal(o), raw |-> FALSE,
                      inc |-> registered[o].ep, via |-> "server"] : o \in to}
  <1>1. wire' \subseteq wire \cup new
    BY DEF Relay
  <1>2. \A o \in to : registered[o] \in Entry
    BY DEF IInv, TypeOK
  <1>3. \A o \in to : seal(o) \in 0 .. MaxInc /\ registered[o].ep \in 0 .. MaxInc
    BY <1>2, ForwardingAssumption DEF Entry
  <1>4. new \subseteq Copy
    <2> SUFFICES ASSUME NEW o \in to
        PROVE  [to |-> o, hop |-> Server, seal |-> seal(o), raw |-> FALSE,
                inc |-> registered[o].ep, via |-> "server"] \in Copy
      OBVIOUS
    <2>1. o \in Members
      OBVIOUS
    <2> HIDE DEF seal, to
    <2> QED
      BY <1>3, <2>1 DEF Copy
  <1>5. TypeOK'
    BY <1>1, <1>4 DEF IInv, TypeOK, Relay, clients, known
  <1>6. CASE s # Server
    <2>1. \A q \in new : q.hop # sent.src
      BY <1>6
    <2> QED
      BY <1>1, <1>5, <2>1, LockKept DEF Relay, IInv
  <1>7. CASE s = Server
    BY <1>5, <1>7 DEF IInv, Relay, LockMeansEncrypted
  <1> QED
    BY <1>6, <1>7

LEMMA OpenedType ==
  ASSUME TypeOK, NEW m \in Members, NEW c \in Copy
  PROVE  Opened(m, c) \in 0 .. MaxInc
  BY ForwardingAssumption DEF Opened, Copy

LEMMA DeliverIInv ==
  ASSUME IInv, NEW c \in wire, Deliver(c) PROVE IInv'
  <1>1. c \in Copy /\ c.to \in Members /\ c.via \in {"local", "public", "server"}
        /\ c.hop \in Members \cup {Server}
    BY DEF IInv, TypeOK, Deliver, Copy
  <1>2. Opened(c.to, c) \in 0 .. MaxInc
    BY <1>1, OpenedType DEF IInv
  <1>3. CASE c.to = sent.src
    <2>1. wire' \subseteq wire /\ handed' = handed
      BY <1>3 DEF Deliver
    <2>2. TypeOK'
      BY <2>1 DEF IInv, TypeOK, Deliver, clients, known
    <2> QED
      BY <2>1, <2>2 DEF IInv, Deliver, LockMeansEncrypted
  <1>4. CASE c.to # sent.src
    <2>1. PICK seen \in SenderSeen(c) :
            /\ wire' = (wire \ {c}) \cup ProxyCopies(c.to, c, seen)
            /\ handed' = [handed EXCEPT ![c.to] = @ \cup
                 {[port |-> p, seal |-> Opened(c.to, c), hop |-> c.hop]
                    : p \in LocalPorts(c.to)}]
      BY <1>4 DEF Deliver
    <2>2. ProxyCopies(c.to, c, seen) \subseteq Copy
      <3>1. dev(c.to).proxyclients \subseteq Members
        BY <1>1, DeviceType DEF IInv
      <3>2. 0 \in 0 .. MaxInc
        BY ForwardingAssumption
      <3>3. ASSUME NEW o \in dev(c.to).proxyclients
            PROVE  [to |-> o, hop |-> c.to, seal |-> Opened(c.to, c),
                    raw |-> TRUE, inc |-> 0, via |-> c.via] \in Copy
        BY <1>1, <1>2, <3>1, <3>2 DEF Copy
      <3> QED
        BY <3>3 DEF ProxyCopies
    <2>3. {[port |-> p, seal |-> Opened(c.to, c), hop |-> c.hop]
             : p \in LocalPorts(c.to)}
            \subseteq [port : {"main", "extra"}, seal : 0 .. MaxInc,
                       hop : Members \cup {Server}]
      BY <1>1, <1>2 DEF LocalPorts
    <2>4. handed' \in [Members -> SUBSET [port : {"main", "extra"},
                         seal : 0 .. MaxInc, hop : Members \cup {Server}]]
      BY <1>1, <2>1, <2>3 DEF IInv, TypeOK
    <2>5. TypeOK'
      BY <2>1, <2>2, <2>4 DEF IInv, TypeOK, Deliver, clients, known
    <2>6. \A q \in ProxyCopies(c.to, c, seen) : q.hop # sent.src
      BY <1>4 DEF ProxyCopies
    <2> QED
      BY <2>1, <2>5, <2>6, LockKept DEF Deliver, IInv
  <1> QED
    BY <1>3, <1>4

LEMMA DeliverRawIInv ==
  ASSUME IInv, NEW c \in wire, DeliverRaw(c) PROVE IInv'
  <1>1. [port |-> "main", seal |-> c.seal, hop |-> c.hop]
          \in [port : {"main", "extra"}, seal : 0 .. MaxInc,
               hop : Members \cup {Server}]
    BY DEF IInv, TypeOK, Copy
  <1>2. handed' \in [Members -> SUBSET [port : {"main", "extra"},
                       seal : 0 .. MaxInc, hop : Members \cup {Server}]]
    BY <1>1 DEF IInv, TypeOK, DeliverRaw
  <1>3. TypeOK'
    BY <1>2 DEF IInv, TypeOK, DeliverRaw, clients, known
  <1> QED
    BY <1>3 DEF IInv, DeliverRaw, LockMeansEncrypted

LEMMA LoseIInv ==
  ASSUME IInv, NEW c \in wire, Lose(c) PROVE IInv'
  <1>1. TypeOK'
    BY DEF IInv, TypeOK, Lose, clients, known
  <1> QED
    BY <1>1 DEF IInv, TypeOK, Lose, LockMeansEncrypted

----------------------------------------------------------------------------
(* What the clients know changes. *)

LEMMA DisturbedIInv ==
  ASSUME IInv, Disturbed, UNCHANGED <<setup, wire>>,
         mode' \in [Members -> SUBSET Flag], inc' \in [Members -> 1 .. MaxInc],
         registered' \in [Members -> Entry],
         endpoints' \in [Members -> [Members -> Entry]],
         srvkey' \in [Members -> BOOLEAN]
  PROVE  IInv'
  <1>1. CASE wire = {}
    <2>1. /\ sent' \in [src : Members \cup {Server}, port : {"main", "x"},
                       calm : BOOLEAN, any : BOOLEAN, all : BOOLEAN]
          /\ ~sent'.all
      <3>1. sent' = NoPacket
        BY <1>1 DEF Disturbed
      <3>2. /\ NoPacket \in [src : Members \cup {Server}, port : {"main", "x"},
                             calm : BOOLEAN, any : BOOLEAN, all : BOOLEAN]
            /\ ~NoPacket.all
        BY DEF NoPacket
      <3> QED
        BY <3>1, <3>2
    <2>2. handed' = [o \in Members |-> {}]
      BY <1>1 DEF Disturbed
    <2>3. handed' \in [Members -> SUBSET [port : {"main", "extra"},
                         seal : 0 .. MaxInc, hop : Members \cup {Server}]]
      BY <2>2
    <2>4. TypeOK'
      BY <2>1, <2>3 DEF IInv, TypeOK
    <2> QED
      BY <2>1, <2>4 DEF IInv, LockMeansEncrypted
  <1>2. CASE wire # {}
    <2>1. /\ handed' = handed
          /\ sent' \in [src : Members \cup {Server}, port : {"main", "x"},
                       calm : BOOLEAN, any : BOOLEAN, all : BOOLEAN]
          /\ sent'.src = sent.src /\ sent'.port = sent.port
          /\ sent'.all = sent.all
      BY <1>2 DEF Disturbed, IInv, TypeOK
    <2>2. TypeOK'
      BY <2>1 DEF IInv, TypeOK
    <2> QED
      BY <2>1, <2>2 DEF IInv, LockMeansEncrypted
  <1> QED
    BY <1>1, <1>2

LEMMA RegistrationIInv ==
  ASSUME IInv, NEW m \in Members, send_registration(m) PROVE IInv'
  <1>1. PICK kind \in Kind :
          registered' = [registered EXCEPT ![m] = cid_update(@, kind, Truth(m))]
    BY DEF send_registration
  <1>2. cid_update(registered[m], kind, Truth(m)) \in Entry
    BY TruthType, UpdateType DEF IInv, TypeOK
  <1>3. registered' \in [Members -> Entry]
    BY <1>1, <1>2 DEF IInv, TypeOK
  <1> QED
    BY <1>3, DisturbedIInv DEF send_registration, clients, IInv, TypeOK

(* An entry of a list is replaced by a well-typed one.                     *)
LEMMA ReplacedType ==
  ASSUME TypeOK, NEW m \in Members, NEW o \in Members, NEW e \in Entry
  PROVE  [endpoints EXCEPT ![m][o] = e] \in [Members -> [Members -> Entry]]
  BY DEF TypeOK

LEMMA LearnIInv ==
  ASSUME IInv, NEW m \in Members, NEW o \in Members, Learn(m, o) PROVE IInv'
  <1>1. PICK kind \in Kind :
          endpoints' = [endpoints EXCEPT ![m][o] =
                          cid_update(@, kind, registered[o])]
    BY DEF Learn
  <1>2. endpoints[m][o] \in Entry /\ registered[o] \in Entry
    BY EntryType DEF IInv, TypeOK
  <1>3. cid_update(endpoints[m][o], kind, registered[o]) \in Entry
    BY <1>2, UpdateType
  <1>4. endpoints' = [endpoints EXCEPT ![m][o] =
                        cid_update(endpoints[m][o], kind, registered[o])]
    BY <1>1 DEF IInv, TypeOK
  <1>5. endpoints' \in [Members -> [Members -> Entry]]
    BY <1>3, <1>4, ReplacedType DEF IInv
  <1> QED
    BY <1>5, DisturbedIInv DEF Learn, clients, IInv, TypeOK

LEMMA LearnServerKeyIInv ==
  ASSUME IInv, NEW m \in Members, LearnServerKey(m) PROVE IInv'
  <1>1. srvkey' \in [Members -> BOOLEAN]
    BY DEF LearnServerKey, IInv, TypeOK
  <1> QED
    BY <1>1, DisturbedIInv DEF LearnServerKey, clients, IInv, TypeOK

LEMMA ExpireIInv ==
  ASSUME IInv, NEW m \in Members, NEW o \in Members, Expire(m, o) PROVE IInv'
  <1>1. endpoints' \in [Members -> [Members -> Entry]]
    BY FreshType, ReplacedType DEF Expire, IInv
  <1> QED
    BY <1>1, DisturbedIInv DEF Expire, clients, IInv, TypeOK

LEMMA RestartIInv ==
  ASSUME IInv, NEW m \in Members, Restart(m) PROVE IInv'
  <1>1. inc' \in [Members -> 1 .. MaxInc]
    BY ForwardingAssumption DEF Restart, IInv, TypeOK
  <1>2. mode' \in [Members -> SUBSET Flag]
    BY DeviceType DEF Restart, IInv, TypeOK
  <1>3. endpoints' \in [Members -> [Members -> Entry]]
    BY FreshType DEF Restart, IInv, TypeOK
  <1>4. srvkey' \in [Members -> BOOLEAN]
    BY DEF Restart, IInv, TypeOK
  <1> QED
    BY <1>1, <1>2, <1>3, <1>4, DisturbedIInv DEF Restart, IInv, TypeOK

----------------------------------------------------------------------------
LEMMA StutterIInv == IInv /\ UNCHANGED vars => IInv'
  BY DEF IInv, TypeOK, LockMeansEncrypted, vars, clients, known

LEMMA NextIInv == IInv /\ [Next]_vars => IInv'
  <1> SUFFICES ASSUME IInv, [Next]_vars PROVE IInv'
    OBVIOUS
  <1>1. ASSUME NEW m \in Members, Send(m) PROVE IInv'
    BY <1>1, SendIInv
  <1>2. ASSUME NEW m \in Members, SendX(m) PROVE IInv'
    BY <1>2, SendXIInv
  <1>3. ASSUME NEW m \in Members, send_registration(m) PROVE IInv'
    BY <1>3, RegistrationIInv
  <1>4. ASSUME NEW m \in Members, LearnServerKey(m) PROVE IInv'
    BY <1>4, LearnServerKeyIInv
  <1>5. ASSUME NEW m \in Members, Restart(m) PROVE IInv'
    BY <1>5, RestartIInv
  <1>6. ASSUME NEW m \in Members, NEW o \in Members, Learn(m, o) PROVE IInv'
    BY <1>6, LearnIInv
  <1>7. ASSUME NEW m \in Members, NEW o \in Members, Expire(m, o) PROVE IInv'
    BY <1>7, ExpireIInv
  <1>8. ASSUME NEW c \in wire, Relay(c) PROVE IInv'
    BY <1>8, RelayIInv
  <1>9. ASSUME NEW c \in wire, Deliver(c) PROVE IInv'
    BY <1>9, DeliverIInv
  <1>10. ASSUME NEW c \in wire, DeliverRaw(c) PROVE IInv'
    BY <1>10, DeliverRawIInv
  <1>11. ASSUME NEW c \in wire, Lose(c) PROVE IInv'
    BY <1>11, LoseIInv
  <1>12. CASE UNCHANGED vars
    BY <1>12, StutterIInv
  <1> QED
    BY <1>1, <1>2, <1>3, <1>4, <1>5, <1>6, <1>7, <1>8, <1>9, <1>10, <1>11,
       <1>12 DEF Next

THEOREM Invariance == Spec => []IInv
  BY InitIInv, NextIInv, PTL DEF Spec

(* Entries, copies and histories keep their types.                         *)
THEOREM TypeCorrect == Spec => []TypeOK
  <1>1. IInv => TypeOK
    BY DEF IInv
  <1> QED
    BY <1>1, Invariance, PTL

(* In every session, whatever is known of the members and however often    *)
(* they restart: while a client reports that all it sends is encrypted, no *)
(* plain copy of that packet leaves it (recsrv 592).                       *)
THEOREM LockIsTrue == Spec => []LockMeansEncrypted
  <1>1. IInv => LockMeansEncrypted
    BY DEF IInv
  <1> QED
    BY <1>1, Invariance, PTL

(***************************************************************************)
(* At most once.  Two things have to be known of a packet on its way.      *)
(* First, what the members and the server have listed of a member is old   *)
(* or incomplete, but in a session in which nobody changes between direct  *)
(* and relayed, its "p2p" flag is right.  Second, while the copy for the   *)
(* server is on the wire, whoever already has a copy, or was given the     *)
(* packet, is one the server will leave out.                               *)
(***************************************************************************)
Client(o) == \E q \in Members : o \in dev(q).proxyclients

(* Clients of a proxy say so in their mode, before and after a restart. *)
Modes ==
  \A m \in Members :
    mode[m] = dev(m).mode \/ (m \in setup.restarts /\ mode[m] = setup.after)

EntryOK(e, o) ==
  e.on => /\ o \in Present
          /\ PeersStay => (("p2p" \in e.mode) <=> ("p2p" \in dev(o).mode))

Listed ==
  /\ \A m \in Members : EntryOK(registered[m], m)
  /\ \A m, o \in Members : EntryOK(endpoints[m][o], o)

LEMMA SetupConstant == [Next]_vars => UNCHANGED setup
  BY DEF Next, Send, SendX, send_registration, LearnServerKey, Restart, Learn, Expire,
     Relay, Deliver, DeliverRaw, Lose, vars, clients

LEMMA TruthOK ==
  ASSUME Modes, NEW m \in Members, m \in Present PROVE EntryOK(Truth(m), m)
  BY DEF Modes, EntryOK, Truth, PeersStay

LEMMA FreshOK == ASSUME NEW o \in Members PROVE EntryOK(FreshEntry, o)
  BY DEF EntryOK, FreshEntry

(* The flag of an entry and whether it is active change together.          *)
LEMMA UpdateOK ==
  ASSUME NEW o \in Members, NEW e \in Entry, NEW new \in Entry, NEW kind \in Kind,
         EntryOK(e, o), EntryOK(new, o)
  PROVE  EntryOK(cid_update(e, kind, new), o)
  <1>1. CASE kind = "listcid"
    BY <1>1 DEF cid_update, EntryOK, Entry
  <1>2. CASE kind = "localip"
    BY <1>2 DEF cid_update, EntryOK, Entry
  <1>3. CASE kind = "pubkey"
    BY <1>3 DEF cid_update, EntryOK, Entry
  <1> QED
    BY <1>1, <1>2, <1>3 DEF Kind

(* Lists of which every entry is right are right.                          *)
LEMMA ListedNext ==
  ASSUME UNCHANGED setup,
         \A m \in Members : EntryOK(registered'[m], m),
         \A m, o \in Members : EntryOK(endpoints'[m][o], o)
  PROVE  Listed'
  BY DEF Listed, EntryOK, Present, PeersStay, dev

LEMMA ModesStep ==
  ASSUME TypeOK, Modes, [Next]_vars PROVE Modes'
  <1>1. UNCHANGED setup
    BY SetupConstant
  <1>2. UNCHANGED mode \/ \E m \in Members : Restart(m)
    BY DEF Next, Send, SendX, send_registration, LearnServerKey, Learn, Expire,
       Relay, Deliver, DeliverRaw, Lose, vars, clients
  <1>3. ASSUME NEW m \in Members, Restart(m) PROVE Modes'
    BY <1>1, <1>3 DEF Modes, Restart, TypeOK, dev
  <1> QED
    BY <1>1, <1>2, <1>3 DEF Modes, dev

LEMMA ListedStep ==
  ASSUME TypeOK, Modes, Listed, [Next]_vars PROVE Listed'
  <1>1. UNCHANGED setup
    BY SetupConstant
  <1>2. ASSUME NEW m \in Members, send_registration(m) PROVE Listed'
    <2>1. PICK kind \in Kind :
            registered' = [registered EXCEPT ![m] = cid_update(@, kind, Truth(m))]
      BY <1>2 DEF send_registration
    <2>2. registered[m] \in Entry /\ EntryOK(registered[m], m)
      BY DEF TypeOK, Listed
    <2>3. EntryOK(cid_update(registered[m], kind, Truth(m)), m)
      BY <1>2, <2>2, TruthOK, TruthType, UpdateOK DEF send_registration
    <2>4. \A q \in Members : EntryOK(registered'[q], q)
      BY <2>1, <2>3 DEF TypeOK, Listed
    <2>5. endpoints' = endpoints
      BY <1>2 DEF send_registration
    <2> QED
      BY <1>1, <2>4, <2>5, ListedNext DEF Listed
  <1>3. ASSUME NEW m \in Members, NEW o \in Members, Learn(m, o) PROVE Listed'
    <2>1. PICK kind \in Kind :
            endpoints' = [endpoints EXCEPT ![m][o] = cid_update(@, kind, registered[o])]
      BY <1>3 DEF Learn
    <2>2. endpoints[m][o] \in Entry /\ registered[o] \in Entry
      BY EntryType DEF TypeOK
    <2>3. EntryOK(endpoints[m][o], o) /\ EntryOK(registered[o], o)
      BY DEF Listed
    <2>4. EntryOK(cid_update(endpoints[m][o], kind, registered[o]), o)
      BY <2>2, <2>3, UpdateOK
    <2>5. endpoints' = [endpoints EXCEPT ![m][o] =
                          cid_update(endpoints[m][o], kind, registered[o])]
      BY <2>1 DEF TypeOK
    <2>6. \A q, r \in Members : EntryOK(endpoints'[q][r], r)
      BY <2>4, <2>5 DEF TypeOK, Listed
    <2>7. registered' = registered
      BY <1>3 DEF Learn
    <2> QED
      BY <1>1, <2>6, <2>7, ListedNext DEF Listed
  <1>4. ASSUME NEW m \in Members, NEW o \in Members, Expire(m, o) PROVE Listed'
    <2>1. \A q, r \in Members : EntryOK(endpoints'[q][r], r)
      BY <1>4, FreshOK DEF Expire, TypeOK, Listed
    <2>2. registered' = registered
      BY <1>4 DEF Expire
    <2> QED
      BY <1>1, <2>1, <2>2, ListedNext DEF Listed
  <1>5. ASSUME NEW m \in Members, Restart(m) PROVE Listed'
    <2>1. \A q, r \in Members : EntryOK(endpoints'[q][r], r)
      BY <1>5, FreshOK DEF Restart, TypeOK, Listed
    <2>2. registered' = registered
      BY <1>5 DEF Restart
    <2> QED
      BY <1>1, <2>1, <2>2, ListedNext DEF Listed
  <1>6. CASE UNCHANGED <<registered, endpoints>>
    BY <1>1, <1>6, ListedNext DEF Listed
  <1>7. \/ UNCHANGED <<registered, endpoints>>
        \/ \E m \in Members : \/ send_registration(m) \/ Restart(m)
                              \/ \E o \in Members : Learn(m, o) \/ Expire(m, o)
    BY DEF Next, Send, SendX, LearnServerKey, Relay, Deliver, DeliverRaw, Lose, vars, known
  <1> QED
    BY <1>2, <1>3, <1>4, <1>5, <1>6, <1>7

----------------------------------------------------------------------------
(* Copies for the clients and the server, and those a proxy makes. *)
Direct == {c \in wire : ~c.raw}

(* The server leaves o out. *)
BothPeers(s, o) == PeersStay /\ "p2p" \in dev(s).mode /\ "p2p" \in dev(o).mode

(* No two copies for one receiver, and none together with one for the      *)
(* server that would be relayed to it.                                     *)
Apart(W, s) ==
  /\ \A c, d \in W : ~c.raw /\ ~d.raw /\ c.to = d.to => c = d
  /\ \A c, d \in W : ~c.raw /\ ~d.raw /\ c.to = Server /\ d.to # Server
                       => BothPeers(s, d.to)

Senders == wire # {} => sent.src \in Present
NotBack == sent.src # Server => handed[sent.src] = {}
RawForClients == \A c \in wire : c.raw => c.to \in Members /\ Client(c.to) /\ c.to # sent.src
NotYetHanded ==
  \A c \in Direct : \A o \in Members : ~Client(o) /\ handed[o] # {} =>
    /\ c.to # o
    /\ c.to = Server => BothPeers(sent.src, o)
HandedOnce == \A o \in Members : ~Client(o) => \A h, k \in handed[o] : h.port = k.port => h = k

Once ==
  Senders /\ NotBack /\ RawForClients /\ Apart(wire, sent.src) /\ NotYetHanded /\ HandedOnce

(* A sender never makes a copy for a peer and one for the server that the  *)
(* server would relay to that peer.                                        *)
LEMMA SentApart ==
  ASSUME TypeOK, Modes, Listed, Steady, NEW m \in Members, m \in Present,
         NEW W, W = Copies(m) \/ W = XCopies(m)
  PROVE  Apart(W, m) /\ \A c \in W : ~c.raw
  <1>1. PICK seal : \A c \in W :
          \/ c = ServerCopy(m, seal)
          \/ \E o \in PeerTargets(m) : "p2p" \in mode[m] /\ c = PeerCopy(m, o)
    <2>1. CASE W = Copies(m)
      BY <2>1 DEF Copies
    <2>2. CASE W = XCopies(m)
      BY <2>2 DEF XCopies
    <2> QED
      BY <2>1, <2>2
  <1>2. \A o \in PeerTargets(m) :
          /\ o \in Members /\ o # m /\ o # Server /\ o \in Present
          /\ endpoints[m][o].on /\ "p2p" \in endpoints[m][o].mode
          /\ PeerCopy(m, o).to = o /\ ~PeerCopy(m, o).raw
    BY ForwardingAssumption DEF PeerTargets, Targets, Listed, EntryOK, PeerCopy
  <1>3. \A c \in W : ~c.raw
    BY <1>1, <1>2 DEF ServerCopy
  <1>4. ASSUME NEW c \in W, NEW d \in W, c.to = d.to PROVE c = d
    <2>1. CASE c.to = Server
      BY <1>1, <1>2, <1>4, <2>1
    <2>2. CASE c.to # Server
      BY <1>1, <1>2, <1>4, <2>2 DEF ServerCopy
    <2> QED
      BY <2>1, <2>2
  <1>5. ASSUME NEW c \in W, NEW d \in W, c.to = Server, d.to # Server
        PROVE  BothPeers(m, d.to)
    <2>1. PICK o \in PeerTargets(m) : "p2p" \in mode[m] /\ d = PeerCopy(m, o)
      BY <1>1, <1>5 DEF ServerCopy
    <2>2. d.to = o
      BY <1>2, <2>1
    <2>3. CASE PeersStay
      <3>1. "p2p" \in dev(m).mode
        BY <2>1, <2>3 DEF Modes, PeersStay
      <3>2. "p2p" \in dev(o).mode
        BY <1>2, <2>3 DEF Listed, EntryOK
      <3> QED
        BY <2>2, <2>3, <3>1, <3>2 DEF BothPeers
    <2>4. CASE \E i, j \in Members : Present \subseteq {i, j}
      <3>1. Targets(m) \subseteq {o} /\ PeerTargets(m) = {o} /\ o \in Targets(m)
        BY <1>2, <2>4 DEF Targets, PeerTargets, Listed, EntryOK
      <3>2. CASE W = Copies(m)
        <4>1. ~sendtoserver(m)
          BY <2>1, <3>1 DEF sendtoserver
        <4> QED
          BY <1>2, <1>5, <3>2, <4>1 DEF Copies
      <3>3. CASE W = XCopies(m)
        <4>1. Wanted(m, o)
          <5>1. d # ServerCopy(m, 0)
            BY <1>5 DEF ServerCopy
          <5>2. PICK q \in PeerTargets(m) : Wanted(m, q) /\ d = PeerCopy(m, q)
            BY <3>3, <5>1 DEF XCopies
          <5> QED
            BY <3>1, <5>2
        <4>2. ServerCopy(m, 0) \notin W
          BY <1>2, <2>1, <3>1, <3>3, <4>1 DEF XCopies, ServerCopy
        <4>3. c = ServerCopy(m, 0)
          BY <1>2, <1>5, <3>3 DEF XCopies
        <4> QED
          BY <4>2, <4>3
      <3> QED
        BY <3>2, <3>3
    <2> QED
      BY <2>3, <2>4 DEF Steady
  <1> QED
    BY <1>3, <1>4, <1>5 DEF Apart

LEMMA ApartNext ==
  ASSUME UNCHANGED setup, Apart(wire', sent'.src) PROVE Apart(wire, sent.src)'
  BY DEF Apart, BothPeers, PeersStay, dev

LEMMA OnceSend ==
  ASSUME TypeOK, Modes, Listed, Steady, NEW m \in Members, Send(m) \/ SendX(m)
  PROVE  Once'
  <1>1. /\ m \in Present /\ sent'.src = m /\ UNCHANGED setup
        /\ wire' = Copies(m) \/ wire' = XCopies(m)
        /\ handed' = [o \in Members |-> {}]
    <2>1. CASE Send(m)
      BY <2>1 DEF Send, clients
    <2>2. CASE SendX(m)
      BY <2>2 DEF SendX, NoPacket, clients
    <2> QED
      BY <2>1, <2>2
  <1>2. Apart(wire', m) /\ \A c \in wire' : ~c.raw
    BY <1>1, SentApart
  <1>3. Apart(wire, sent.src)'
    BY <1>1, <1>2, ApartNext
  <1>4. m \in Present'
    BY <1>1 DEF Present, dev
  <1> QED
    BY <1>1, <1>2, <1>3, <1>4 DEF Once, Senders, NotBack, RawForClients, NotYetHanded,
       HandedOnce

(* Copies that get lost or are ignored. *)
LEMMA OnceFewer ==
  ASSUME Once, UNCHANGED <<setup, handed>>, wire' \subseteq wire, sent'.src = sent.src
  PROVE  Once'
  <1>1. Apart(wire', sent'.src)
    BY DEF Once, Apart
  <1>2. Apart(wire, sent.src)'
    BY <1>1, ApartNext
  <1> QED
    BY <1>2 DEF Once, Senders, NotBack, RawForClients, NotYetHanded, HandedOnce, Direct,
       BothPeers, PeersStay, Client, Present, dev

LEMMA OnceDisturbed ==
  ASSUME TypeOK, Once, Disturbed, UNCHANGED <<setup, wire>> PROVE Once'
  <1>1. CASE wire = {}
    <2>1. handed' = [o \in Members |-> {}] /\ sent'.src = Server /\ wire' = {}
      BY <1>1 DEF Disturbed, NoPacket
    <2>2. Apart(wire', sent'.src)
      BY <2>1 DEF Apart
    <2>3. Apart(wire, sent.src)'
      BY <2>2, ApartNext
    <2> QED
      BY <2>1, <2>3 DEF Once, Senders, NotBack, RawForClients, NotYetHanded, HandedOnce,
         Direct
  <1>2. CASE wire # {}
    BY <1>2, OnceFewer DEF Disturbed, TypeOK
  <1> QED
    BY <1>1, <1>2

LEMMA OnceRelay ==
  ASSUME TypeOK, Listed, Once, NEW c \in wire, Relay(c), ~c.raw PROVE Once'
  <1> DEFINE s == sent.src
             to == {o \in Members \ {s} :
               /\ registered[o].on /\ "donotsend" \notin registered[o].mode
               /\ ~({"p2p"} \subseteq registered[s].mode \cap registered[o].mode)}
  <1>1. /\ c.to = Server /\ s \in Present /\ s \in Members
        /\ UNCHANGED <<setup, handed, sent>>
    BY DEF Relay, Once, Senders, Present, clients
  <1>2. CASE ~registered[s].on
    BY <1>1, <1>2, OnceFewer DEF Relay
  <1>3. CASE registered[s].on
    <2>1. \A d \in wire' :
            \/ d \in wire /\ d # c
            \/ /\ d.to \in to /\ ~d.raw
               /\ \A e \in wire' : e \notin wire /\ e.to = d.to => e = d
      <3> DEFINE seal(o) == IF "encryption" \in registered[s].mode \cap registered[o].mode
                            THEN registered[o].pubkey ELSE 0
                 copy(o) == [to |-> o, hop |-> Server, seal |-> seal(o), raw |-> FALSE,
                             inc |-> registered[o].ep, via |-> "server"]
      <3>1. wire' = (wire \ {c}) \cup {copy(o) : o \in to}
        BY <1>3 DEF Relay
      <3>2. \A o \in to : copy(o).to = o /\ ~copy(o).raw
        OBVIOUS
      <3> HIDE DEF copy, to
      <3> QED
        BY <3>1, <3>2
    <2>2. \A o \in to : o \in Members /\ o # Server /\ ~BothPeers(s, o)
      BY <1>1, <1>3, ForwardingAssumption DEF BothPeers, Listed, EntryOK
    <2>3. \A d \in wire : ~d.raw /\ d # c => d.to # Server /\ BothPeers(s, d.to)
      BY <1>1 DEF Once, Apart
    <2>4. Apart(wire', s)
      <3>1. ASSUME NEW d \in wire', NEW e \in wire', ~d.raw, ~e.raw, d.to = e.to
            PROVE  d = e
        BY <2>1, <2>2, <2>3, <3>1 DEF Once, Apart
      <3>2. \A d \in wire' : ~d.raw => d.to # Server
        BY <2>1, <2>2, <2>3
      <3> QED
        BY <3>1, <3>2 DEF Apart
    <2>5. Apart(wire, sent.src)'
      BY <1>1, <2>4, ApartNext
    <2>6. Senders' /\ NotBack' /\ HandedOnce'
      BY <1>1 DEF Once, Senders, NotBack, HandedOnce, Client, Present, dev
    <2>7. RawForClients'
      BY <1>1, <2>1 DEF Once, RawForClients, Client, dev
    <2>8. NotYetHanded'
      <3>1. ASSUME NEW d \in wire', ~d.raw, NEW o \in Members, ~Client(o), handed[o] # {}
            PROVE  d.to # o /\ d.to # Server
        <4>1. BothPeers(s, o)
          BY <1>1, <3>1 DEF Once, NotYetHanded, Direct
        <4> QED
          BY <2>1, <2>2, <2>3, <3>1, <4>1 DEF Once, NotYetHanded, Direct
      <3> QED
        BY <1>1, <3>1 DEF NotYetHanded, Direct, Client, dev
    <2> QED
      BY <2>5, <2>6, <2>7, <2>8 DEF Once
  <1> QED
    BY <1>2, <1>3

LEMMA OnceDeliver ==
  ASSUME TypeOK, Once, NEW c \in wire, Deliver(c) PROVE Once'
  <1> DEFINE m == c.to
  <1>1. m \in Members /\ m # Server /\ ~c.raw /\ UNCHANGED <<setup, sent>>
    BY DEF TypeOK, Deliver, Copy, clients
  <1>2. CASE m = sent.src
    BY <1>1, <1>2, OnceFewer DEF Deliver
  <1>3. CASE m # sent.src
    <2>1. PICK seen \in SenderSeen(c) :
            /\ wire' = (wire \ {c}) \cup ProxyCopies(m, c, seen)
            /\ handed' = [handed EXCEPT ![m] = @ \cup
                 {[port |-> p, seal |-> Opened(m, c), hop |-> c.hop]
                    : p \in LocalPorts(m)}]
      BY <1>3 DEF Deliver
    <2>2. \A d \in ProxyCopies(m, c, seen) :
            d.raw /\ d.to \in Members /\ Client(d.to) /\ d.to # sent.src
      BY <1>1, DeviceType DEF ProxyCopies, Client
    <2>3. \A d \in wire' : ~d.raw => d \in wire /\ d # c
      BY <2>1, <2>2
    <2>4. \A o \in Members \ {m} : handed'[o] = handed[o]
      BY <2>1 DEF TypeOK
    <2>5. Apart(wire', sent'.src)
      BY <1>1, <2>3 DEF Once, Apart
    <2>6. Apart(wire, sent.src)'
      BY <1>1, <2>5, ApartNext
    <2>7. Senders' /\ RawForClients'
      BY <1>1, <2>1, <2>2 DEF Once, Senders, RawForClients, Client, Present, dev
    <2>8. NotBack'
      BY <1>1, <1>3, <2>4 DEF Once, NotBack, Senders, Present
    <2>9. HandedOnce'
      <3>1. ASSUME ~Client(m) PROVE \A h, k \in handed'[m] : h.port = k.port => h = k
        <4>1. handed[m] = {}
          BY <1>1, <3>1 DEF Once, NotYetHanded, Direct
        <4>2. handed'[m] = {[port |-> p, seal |-> Opened(m, c), hop |-> c.hop]
                              : p \in LocalPorts(m)}
          BY <1>1, <2>1, <4>1 DEF TypeOK
        <4> QED
          BY <4>2
      <3> QED
        BY <1>1, <2>4, <3>1 DEF Once, HandedOnce, Client, dev
    <2>10. NotYetHanded'
      <3>1. ASSUME NEW d \in wire', ~d.raw, NEW o \in Members, ~Client(o), handed'[o] # {}
            PROVE  d.to # o /\ (d.to = Server => BothPeers(sent.src, o))
        <4>1. d \in wire /\ d # c
          BY <2>3, <3>1
        <4>2. CASE o = m
          BY <1>1, <3>1, <4>1, <4>2 DEF Once, Apart
        <4>3. CASE o # m
          BY <2>4, <3>1, <4>1, <4>3 DEF Once, NotYetHanded, Direct
        <4> QED
          BY <4>2, <4>3
      <3> QED
        BY <1>1, <3>1 DEF NotYetHanded, Direct, Client, BothPeers, PeersStay, dev
    <2> QED
      BY <2>6, <2>7, <2>8, <2>9, <2>10 DEF Once
  <1> QED
    BY <1>2, <1>3

LEMMA OnceDeliverRaw ==
  ASSUME TypeOK, Once, NEW c \in wire, DeliverRaw(c) PROVE Once'
  <1>1. /\ c.raw /\ c.to \in Members /\ Client(c.to) /\ c.to # sent.src
        /\ wire' = wire \ {c} /\ UNCHANGED <<setup, sent>>
    BY DEF Once, RawForClients, DeliverRaw, clients
  <1>2. \A o \in Members \ {c.to} : handed'[o] = handed[o]
    BY DEF DeliverRaw, TypeOK
  <1>3. Apart(wire', sent'.src)
    BY <1>1 DEF Once, Apart
  <1>4. Apart(wire, sent.src)'
    BY <1>1, <1>3, ApartNext
  <1>5. Senders' /\ RawForClients'
    BY <1>1 DEF Once, Senders, RawForClients, Client, Present, dev
  <1>6. NotBack'
    BY <1>1, <1>2 DEF Once, NotBack, Senders, Present
  <1>7. HandedOnce' /\ NotYetHanded'
    BY <1>1, <1>2 DEF Once, HandedOnce, NotYetHanded, Direct, Client, BothPeers, PeersStay,
       dev
  <1> QED
    BY <1>4, <1>5, <1>6, <1>7 DEF Once

LEMMA OnceStep ==
  ASSUME TypeOK, Modes, Listed, Steady, Once, [Next]_vars PROVE Once'
  <1>1. UNCHANGED setup
    BY SetupConstant
  <1>2. ASSUME NEW m \in Members, Send(m) \/ SendX(m) PROVE Once'
    BY <1>2, OnceSend
  <1>3. ASSUME NEW m \in Members,
               \/ send_registration(m) \/ LearnServerKey(m) \/ Restart(m)
               \/ \E o \in Members : Learn(m, o) \/ Expire(m, o)
        PROVE  Once'
    <2>1. Disturbed /\ wire' = wire
      BY <1>3 DEF send_registration, LearnServerKey, Restart, Learn, Expire
    <2> QED
      BY <1>1, <2>1, OnceDisturbed
  <1>4. ASSUME NEW c \in wire, Relay(c) PROVE Once'
    <2>1. ~c.raw
      BY <1>4, ForwardingAssumption DEF Relay, Once, RawForClients
    <2> QED
      BY <1>4, <2>1, OnceRelay
  <1>5. ASSUME NEW c \in wire, Deliver(c) PROVE Once'
    BY <1>5, OnceDeliver
  <1>6. ASSUME NEW c \in wire, DeliverRaw(c) PROVE Once'
    BY <1>6, OnceDeliverRaw
  <1>7. ASSUME NEW c \in wire, Lose(c) PROVE Once'
    BY <1>1, <1>7, OnceFewer DEF Lose, TypeOK
  <1>8. CASE UNCHANGED vars
    BY <1>1, <1>8, OnceFewer DEF vars
  <1> QED
    BY <1>2, <1>3, <1>4, <1>5, <1>6, <1>7, <1>8 DEF Next

(* Devices without a proxy are no clients of one. *)
LEMMA OnceSuffices ==
  ASSUME TypeOK, Modes, Once PROVE AtMostOnce
  <1> SUFFICES ASSUME Steady, NEW o \in Present, NEW port \in LocalPorts(o)
               PROVE  /\ "usingproxy" \notin mode[o] => Cardinality(got(o, port)) <= 1
                      /\ o = sent.src => handed[o] = {}
    BY DEF AtMostOnce
  <1>1. o \in Members /\ o # Server
    BY ForwardingAssumption DEF Present
  <1>2. ASSUME "usingproxy" \notin mode[o] PROVE Cardinality(got(o, port)) <= 1
    <2>1. ~Client(o)
      BY <1>1, <1>2 DEF Client, Steady, Modes
    <2>2. \A h, k \in got(o, port) : h = k
      BY <1>1, <2>1 DEF Once, HandedOnce, got
    <2>3. got(o, port) = {} \/ \E h : got(o, port) = {h}
      BY <2>2
    <2>4. CASE got(o, port) = {}
      BY <2>4, FS_EmptySet
    <2>5. ASSUME NEW h, got(o, port) = {h} PROVE Cardinality(got(o, port)) = 1
      BY <2>5, FS_Singleton
    <2> QED
      BY <2>3, <2>4, <2>5
  <1> QED
    BY <1>1, <1>2 DEF Once, NotBack

LEMMA InitOnce == Init => Modes /\ Listed /\ Once
  <1> SUFFICES ASSUME Init PROVE Modes /\ Listed /\ Once
    OBVIOUS
  <1>1. Modes
    BY DEF Init, Modes
  <1>2. TypeOK
    BY InitIInv DEF IInv
  <1>3. \A m \in Members : EntryOK(registered[m], m)
    BY <1>1, TruthOK, FreshOK DEF Init
  <1>4. \A m, o \in Members : EntryOK(endpoints[m][o], o)
    BY <1>1, TruthOK, FreshOK DEF Init
  <1>5. Once
    BY DEF Init, Once, Senders, NotBack, RawForClients, Apart, NotYetHanded, HandedOnce,
       Direct, NoPacket
  <1> QED
    BY <1>1, <1>3, <1>4, <1>5 DEF Listed

(* In a steady session no receiver is given a packet twice, and none its   *)
(* own, whatever the members have learned of each other.                   *)
THEOREM NotTwice == Spec => []AtMostOnce
  <1> DEFINE OInv == Modes /\ Listed /\ (Steady => Once)
  <1>1. Init => OInv
    BY InitOnce
  <1>2. TypeOK /\ OInv /\ [Next]_vars => OInv'
    <2>1. [Next]_vars => (Steady' <=> Steady)
      BY SetupConstant DEF Steady, PeersStay, Present, dev
    <2> QED
      BY <2>1, ModesStep, ListedStep, OnceStep
  <1>3. TypeOK /\ OInv => AtMostOnce
    BY OnceSuffices DEF AtMostOnce
  <1> QED
    BY <1>1, <1>2, <1>3, TypeCorrect, PTL DEF Spec

----------------------------------------------------------------------------
(***************************************************************************)
(* Served when known.  When everybody knows everything, the settings alone *)
(* say who gets the packet how: directly, over the server, or from a proxy *)
(* that got it from elsewhere.  That decides which copies can be on their  *)
(* way and what can be handed to whom (Nothing else), and nothing of it is *)
(* missing without a copy on its way (Everything).                         *)
(***************************************************************************)
BothPeersNow(s, o) == "p2p" \in mode[s] /\ "p2p" \in mode[o]

GetsDirect(s, o) ==
  /\ o # s /\ BothPeersNow(s, o)
  /\ ("recmix" \in mode[o]) <=> ("sendmix" \in mode[s])
  /\ "donotsend" \in mode[o] => "usingproxy" \in mode[o] /\ dev(s).net = dev(o).net

GetsRelayed(s, o) == o # s /\ ~BothPeersNow(s, o) /\ "donotsend" \notin mode[o]

(* q hands on to o what comes from s. *)
GetsForwarded(s, q, o) ==
  /\ q \in Present /\ o \in Present /\ o \in dev(q).proxyclients /\ o # s
  /\ \/ GetsRelayed(s, q)
     \/ GetsDirect(s, q) /\ ~(dev(s).sendlocal /\ dev(s).net = dev(q).net)

RelayCopy(s, o) ==
  [to |-> o, hop |-> Server, raw |-> FALSE, inc |-> inc[o], via |-> "server",
   seal |-> IF "encryption" \in mode[s] \cap mode[o] THEN inc[o] ELSE 0]

RawFrom(q, o, c) == c.raw /\ c.to = o /\ c.hop = q /\ c.seal = 0

Hand(p, h) == [port |-> p, seal |-> 0, hop |-> h]
Hands(o, h) == {Hand(p, h) : p \in LocalPorts(o)}

(* Copies that can be on their way. *)
Due(s, c) ==
  \/ ~c.raw /\ c.to = Server
  \/ c.raw /\ c.to \in Members \ Present
  \/ \E o \in Present : GetsDirect(s, o) /\ c = PeerCopy(s, o)
  \/ \E o \in Present : GetsRelayed(s, o) /\ c = RelayCopy(s, o)
  \/ \E q, o \in Present : GetsForwarded(s, q, o) /\ RawFrom(q, o, c)

(* What o can be given. *)
Expected(s, o) ==
  {h \in Hands(o, s) : GetsDirect(s, o)} \cup {h \in Hands(o, Server) : GetsRelayed(s, o)}
  \cup {Hand("main", q) : q \in {x \in Present : GetsForwarded(s, x, o)}}

(* The copy for o, or the one for the server from which it is made. *)
Pending(s, o, W) ==
  \/ GetsDirect(s, o) /\ PeerCopy(s, o) \in W
  \/ GetsRelayed(s, o) /\ (RelayCopy(s, o) \in W \/ \E c \in W : c.to = Server)

NothingElse(s, W, H) ==
  /\ \A c \in W : Due(s, c)
  /\ \A o \in Present : H[o] \subseteq Expected(s, o)

Everything(s, W, H) ==
  /\ \A o \in Present : GetsDirect(s, o) => Pending(s, o, W) \/ Hands(o, s) \subseteq H[o]
  /\ \A o \in Present :
       GetsRelayed(s, o) => Pending(s, o, W) \/ Hands(o, Server) \subseteq H[o]
  /\ \A q, o \in Present : GetsForwarded(s, q, o) =>
       \/ Pending(s, q, W) \/ Hand("main", q) \in H[o]
       \/ \E c \in W : RawFrom(q, o, c)

(* Proxies can tell where a message comes from. *)
SendersKnown == \A q \in Present : dev(q).proxyclients \cap Present # {} => ~Reordering

Calm ==
  sent.calm /\ sent.port = "main" /\ SendersKnown =>
    /\ AllKnown /\ sent.src \in Present
    /\ NothingElse(sent.src, wire, handed) /\ Everything(sent.src, wire, handed)

LEMMA CalmPrimed ==
  ASSUME UNCHANGED <<setup, mode, inc, known>>,
         sent'.calm /\ sent'.port = "main" /\ SendersKnown =>
           /\ AllKnown /\ sent'.src \in Present
           /\ NothingElse(sent'.src, wire', handed') /\ Everything(sent'.src, wire', handed')
  PROVE  Calm'
  <1>1. /\ AllKnown' <=> AllKnown
        /\ SendersKnown' <=> SendersKnown
        /\ Present' = Present
    BY DEF AllKnown, SendersKnown, Truth, Present, dev, known
  <1>2. \A s, o : /\ GetsDirect(s, o)' <=> GetsDirect(s, o)
                  /\ GetsRelayed(s, o)' <=> GetsRelayed(s, o)
                  /\ PeerCopy(s, o)' = PeerCopy(s, o) /\ RelayCopy(s, o)' = RelayCopy(s, o)
                  /\ Hands(o, s)' = Hands(o, s)
    BY DEF GetsDirect, GetsRelayed, BothPeersNow, PeerCopy, RelayCopy, sealFor,
       target_in_same_network, Hands, LocalPorts, dev, known
  <1>3. \A s, q, o : GetsForwarded(s, q, o)' <=> GetsForwarded(s, q, o)
    BY <1>1, <1>2 DEF GetsForwarded, dev
  <1>4. \A s, c : Due(s, c)' <=> Due(s, c)
    BY <1>1, <1>2, <1>3 DEF Due
  <1>5. \A s, o : Expected(s, o)' = Expected(s, o)
    BY <1>1, <1>2, <1>3 DEF Expected
  <1>6. \A s, o : Pending(s, o, wire)' <=> Pending(s, o, wire')
    BY <1>2 DEF Pending
  <1>7. NothingElse(sent.src, wire, handed)' <=> NothingElse(sent'.src, wire', handed')
    BY <1>1, <1>4, <1>5 DEF NothingElse
  <1>8. Everything(sent.src, wire, handed)' <=> Everything(sent'.src, wire', handed')
    BY <1>1, <1>2, <1>3, <1>6 DEF Everything
  <1> QED
    BY <1>1, <1>7, <1>8 DEF Calm

(* What there is to know when everything is known.                         *)
LEMMA KnownEntries ==
  ASSUME TypeOK, AllKnown, NEW s \in Present, NEW o \in Present, s # o
  PROVE  /\ s \in Members /\ o \in Members /\ inc[o] \in Nat \ {0}
         /\ endpoints[s][o].on /\ endpoints[s][o].mode = mode[o]
         /\ endpoints[s][o].net = dev(o).net /\ endpoints[s][s].net = dev(s).net
         /\ endpoints[s][o].ep = inc[o] /\ endpoints[s][o].localep = inc[o]
         /\ endpoints[s][o].pubkey = inc[o]
         /\ registered[o] = Truth(o) /\ registered[s] = Truth(s)
  <1>1. endpoints[s][o] = Truth(o) /\ registered[o] = Truth(o) /\ registered[s] = Truth(s)
    BY DEF AllKnown
  <1>2. endpoints[s][s] = [Truth(s) EXCEPT !.localep = endpoints[s][s].localep]
    BY DEF AllKnown
  <1>3. endpoints[s][s].net = dev(s).net
    BY <1>2 DEF Truth
  <1>4. s \in Members /\ o \in Members /\ inc[o] \in 1 .. MaxInc
    BY DEF TypeOK, Present
  <1> QED
    BY <1>1, <1>3, <1>4, ForwardingAssumption DEF Truth

(* Whom a sender that knows everything sends to.                           *)
LEMMA KnownCopies ==
  ASSUME TypeOK, Listed, AllKnown, NEW s \in Present
  PROVE  /\ \A c \in Copies(s) : Due(s, c)
         /\ \A o \in Present : GetsDirect(s, o) => PeerCopy(s, o) \in Copies(s)
         /\ \A o \in Present : GetsRelayed(s, o) => \E c \in Copies(s) : c.to = Server
  <1>1. Targets(s) = Present \ {s}
    <2>1. \A o \in Present \ {s} : o \in Members /\ endpoints[s][o].on
      BY KnownEntries
    <2>2. \A o \in Members : endpoints[s][o].on => o \in Present
      BY DEF Listed, EntryOK, Present
    <2> QED
      BY <2>1, <2>2 DEF Targets
  <1>2. PeerTargets(s) = {o \in Present \ {s} : "p2p" \in mode[o]}
    BY <1>1, KnownEntries DEF PeerTargets
  <1>3. ASSUME NEW o \in Present, o # s
        PROVE  /\ Wanted(s, o) <=> ("donotsend" \in mode[o] =>
                                      "usingproxy" \in mode[o] /\ dev(s).net = dev(o).net)
               /\ MixFits(s, o) <=> (("recmix" \in mode[o]) <=> ("sendmix" \in mode[s]))
    <2>1. /\ endpoints[s][o].mode = mode[o] /\ endpoints[s][o].localep # 0
          /\ endpoints[s][o].net = dev(o).net /\ endpoints[s][s].net = dev(s).net
      BY <1>3, KnownEntries
    <2> QED
      BY <2>1 DEF Wanted, MixFits, target_in_same_network
  <1>4. ASSUME NEW o \in Present
        PROVE  GetsDirect(s, o) <=>
                 "p2p" \in mode[s] /\ o \in PeerTargets(s) /\ Wanted(s, o) /\ MixFits(s, o)
    BY <1>2, <1>3 DEF GetsDirect, BothPeersNow
  <1>5. ASSUME NEW c \in Copies(s) PROVE Due(s, c)
    <2>1. CASE \E seal : c = ServerCopy(s, seal)
      BY <2>1 DEF ServerCopy, Due
    <2>2. CASE \E o \in PeerTargets(s) : /\ "p2p" \in mode[s] /\ Wanted(s, o) /\ MixFits(s, o)
                                        /\ c = PeerCopy(s, o)
      BY <1>2, <1>4, <2>2 DEF Due
    <2> QED
      BY <2>1, <2>2 DEF Copies
  <1>6. ASSUME NEW o \in Present, GetsDirect(s, o) PROVE PeerCopy(s, o) \in Copies(s)
    BY <1>4, <1>6 DEF Copies
  <1>7. ASSUME NEW o \in Present, GetsRelayed(s, o) PROVE \E c \in Copies(s) : c.to = Server
    <2>1. sendtoserver(s)
      BY <1>1, <1>2, <1>7 DEF GetsRelayed, BothPeersNow, sendtoserver
    <2>2. ServerCopy(s, serverSeal(s)) \in Copies(s)
      BY <2>1 DEF Copies
    <2> QED
      BY <2>2 DEF ServerCopy
  <1> QED
    BY <1>5, <1>6, <1>7

LEMMA CalmSend ==
  ASSUME TypeOK, Listed, NEW m \in Members, Send(m) PROVE Calm'
  <1>1. /\ m \in Present /\ UNCHANGED <<setup, mode, inc, known>>
        /\ sent'.src = m /\ (sent'.calm => AllKnown)
        /\ wire' = Copies(m) /\ handed' = [o \in Members |-> {}]
    BY DEF Send, clients
  <1>2. ASSUME AllKnown
        PROVE  NothingElse(m, wire', handed') /\ Everything(m, wire', handed')
    <2>1. /\ \A c \in wire' : Due(m, c)
          /\ \A o \in Present : GetsDirect(m, o) => PeerCopy(m, o) \in wire'
          /\ \A o \in Present : GetsRelayed(m, o) => \E c \in wire' : c.to = Server
      BY <1>1, <1>2, KnownCopies
    <2>2. \A o \in Present : handed'[o] = {}
      BY <1>1 DEF Present
    <2>3. \A o \in Present : GetsDirect(m, o) \/ GetsRelayed(m, o) => Pending(m, o, wire')
      BY <2>1 DEF Pending
    <2>4. \A q, o \in Present : GetsForwarded(m, q, o) => Pending(m, q, wire')
      BY <2>3 DEF GetsForwarded
    <2> QED
      BY <2>1, <2>2, <2>3, <2>4 DEF NothingElse, Everything
  <1> QED
    BY <1>1, <1>2, CalmPrimed


(* A copy that gets nobody's turn.  Copies for different members differ.   *)
LEMMA DueKinds ==
  ASSUME TypeOK, NEW s \in Present, NEW c, Due(s, c)
  PROVE  /\ c.to = Server => \A o \in Present : c # PeerCopy(s, o) /\ c # RelayCopy(s, o)
         /\ \A o \in Present : /\ PeerCopy(s, o).to = o /\ ~PeerCopy(s, o).raw
                               /\ RelayCopy(s, o).to = o /\ ~RelayCopy(s, o).raw
                               /\ o # Server
  BY ForwardingAssumption DEF PeerCopy, RelayCopy, Present

LEMMA CalmRelay ==
  ASSUME TypeOK, Listed, Calm, NEW c \in wire, Relay(c) PROVE Calm'
  <1> DEFINE s == sent.src
             to == {o \in Members \ {s} :
               /\ registered[o].on /\ "donotsend" \notin registered[o].mode
               /\ ~({"p2p"} \subseteq registered[s].mode \cap registered[o].mode)}
             seal(o) == IF "encryption" \in registered[s].mode \cap registered[o].mode
                        THEN registered[o].pubkey ELSE 0
             copy(o) == [to |-> o, hop |-> Server, seal |-> seal(o), raw |-> FALSE,
                         inc |-> registered[o].ep, via |-> "server"]
  <1>1. /\ UNCHANGED <<setup, mode, inc, known, handed, sent>> /\ c.to = Server
        /\ wire' = (wire \ {c}) \cup (IF registered[s].on THEN {copy(o) : o \in to} ELSE {})
    BY DEF Relay, clients
  <1>2. ASSUME AllKnown, s \in Present, NothingElse(s, wire, handed), Everything(s, wire, handed)
        PROVE  NothingElse(s, wire', handed) /\ Everything(s, wire', handed)
    <2>1. registered[s].on /\ registered[s].mode = mode[s]
      <3>1. registered[s] = Truth(s)
        BY <1>2 DEF AllKnown
      <3> QED
        BY <3>1 DEF Truth
    <2>2. ASSUME NEW o \in Present, o # s
          PROVE  (o \in to <=> GetsRelayed(s, o)) /\ copy(o) = RelayCopy(s, o)
      <3>1. registered[o] = Truth(o) /\ o \in Members
        BY <1>2 DEF AllKnown, Present
      <3>2. registered[o].on /\ registered[o].mode = mode[o] /\ registered[o].ep = inc[o]
            /\ registered[o].pubkey = inc[o]
        BY <3>1 DEF Truth
      <3>3. o \in to <=> GetsRelayed(s, o)
        BY <2>1, <2>2, <3>1, <3>2 DEF GetsRelayed, BothPeersNow
      <3>4. copy(o) = RelayCopy(s, o)
        BY <2>1, <3>2 DEF RelayCopy
      <3> QED
        BY <3>3, <3>4
    <2>3. to \subseteq Present \ {s}
      BY DEF Listed, EntryOK
    <2> HIDE DEF to, copy
    <2>4. wire' = (wire \ {c}) \cup {copy(o) : o \in to}
      BY <1>1, <2>1
    <2>5. \A d \in wire' : d \in wire \/ \E o \in to : d = copy(o)
      BY <2>4
    <2>6. \A o \in to : o \in Present /\ GetsRelayed(s, o) /\ copy(o) = RelayCopy(s, o)
      BY <2>2, <2>3
    <2>7. \A d \in wire' : Due(s, d)
      BY <1>2, <2>5, <2>6 DEF NothingElse, Due
    <2>8. \A o \in Present : GetsRelayed(s, o) => RelayCopy(s, o) \in wire'
      BY <2>2, <2>4 DEF GetsRelayed
    <2>9. \A o \in Present : Pending(s, o, wire) => Pending(s, o, wire')
      BY <1>1, <1>2, <2>4, <2>8, DueKinds DEF Pending, NothingElse
    <2>10. \A q, o \in Present, d \in wire : RawFrom(q, o, d) => d \in wire'
      BY <1>1, <1>2, <2>4, DueKinds, ForwardingAssumption DEF RawFrom, Present
    <2> QED
      BY <1>2, <2>7, <2>9, <2>10 DEF NothingElse, Everything
  <1> QED
    BY <1>1, <1>2, CalmPrimed DEF Calm

(* What arrives can be opened: both ends know the other's keys. *)
LEMMA DueOpened ==
  ASSUME TypeOK, AllKnown, NEW s \in Present, s = sent.src, NEW c, Due(s, c), ~c.raw,
         c.to \in Present
  PROVE  /\ c.to # s /\ Opened(c.to, c) = 0
         /\ \/ /\ GetsDirect(s, c.to) /\ c = PeerCopy(s, c.to) /\ c.hop = s
               /\ c.via = "local" <=> dev(s).sendlocal /\ dev(s).net = dev(c.to).net
            \/ /\ GetsRelayed(s, c.to) /\ c = RelayCopy(s, c.to) /\ c.hop = Server
               /\ c.via = "server"
  <1>1. c.to # Server
    BY ForwardingAssumption DEF Present
  <1>2. CASE \E o \in Present : GetsDirect(s, o) /\ c = PeerCopy(s, o)
    <2>1. PICK o \in Present : GetsDirect(s, o) /\ c = PeerCopy(s, o)
      BY <1>2
    <2>2. c.to = o /\ c.hop = s /\ c.seal = sealFor(s, o) /\ o # s
          /\ c.via = IF dev(s).sendlocal /\ target_in_same_network(s, o) THEN "local" ELSE "public"
      BY <2>1 DEF PeerCopy, GetsDirect
    <2>3. /\ endpoints[s][o].mode = mode[o] /\ endpoints[s][o].pubkey = inc[o]
          /\ endpoints[o][s].mode = mode[s]
          /\ target_in_same_network(s, o) <=> dev(s).net = dev(o).net
      BY <2>2, KnownEntries DEF target_in_same_network
    <2>4. Opened(o, c) = 0
      BY <2>2, <2>3 DEF Opened, sealFor
    <2> QED
      BY <2>1, <2>2, <2>3, <2>4
  <1>3. CASE \E o \in Present : GetsRelayed(s, o) /\ c = RelayCopy(s, o)
    <2>1. PICK o \in Present : GetsRelayed(s, o) /\ c = RelayCopy(s, o)
      BY <1>3
    <2>2. c.to = o /\ c.hop = Server /\ o # s /\ c.via = "server"
          /\ c.seal = IF "encryption" \in mode[s] \cap mode[o] THEN inc[o] ELSE 0
      BY <2>1 DEF RelayCopy, GetsRelayed
    <2>3. endpoints[o][s].mode = mode[s]
      BY <2>2, KnownEntries
    <2>4. Opened(o, c) = 0
      BY <2>2, <2>3 DEF Opened
    <2> QED
      BY <2>1, <2>2, <2>4
  <1> QED
    BY <1>1, <1>2, <1>3 DEF Due, RawFrom

LEMMA CalmDeliver ==
  ASSUME TypeOK, Listed, Calm, NEW c \in wire, Deliver(c) PROVE Calm'
  <1> DEFINE s == sent.src
             m == c.to
             hands == {[port |-> p, seal |-> Opened(m, c), hop |-> c.hop] : p \in LocalPorts(m)}
  <1>1. /\ UNCHANGED <<setup, mode, inc, known, sent>> /\ ~c.raw /\ m # Server
        /\ m \in Members
    BY DEF Deliver, clients, TypeOK, Copy
  <1>2. ASSUME AllKnown, s \in Present, SendersKnown,
               NothingElse(s, wire, handed), Everything(s, wire, handed)
        PROVE  NothingElse(s, wire', handed') /\ Everything(s, wire', handed')
    <2>1. CASE m = s
      <3>1. \A d \in wire : Due(s, d)
        BY <1>2 DEF NothingElse
      <3>2. FALSE
        BY <1>1, <1>2, <2>1, <3>1, DueOpened
      <3> QED
        BY <3>2
    <2>2. CASE m # s
      <3>1. PICK seen \in SenderSeen(c) :
              /\ wire' = (wire \ {c}) \cup ProxyCopies(m, c, seen)
              /\ handed' = [handed EXCEPT ![m] = @ \cup hands]
        BY <2>2 DEF Deliver
      <3>2. /\ handed'[m] = handed[m] \cup hands
            /\ \A o \in Members \ {m} : handed'[o] = handed[o]
        BY <1>1, <3>1 DEF TypeOK
      <3>3. \A d \in ProxyCopies(m, c, seen) :
              /\ d.raw /\ d.to \in Members /\ d.to \in dev(m).proxyclients \ {s}
              /\ d.hop = m /\ d.seal = Opened(m, c)
              /\ seen # "local"
        BY <1>1, DeviceType DEF ProxyCopies
      <3>4. Due(s, c) /\ m \in Present
        BY <1>1, <1>2 DEF NothingElse, Due, PeerCopy, RelayCopy, RawFrom
      <3>5. /\ Opened(m, c) = 0
            /\ \/ /\ GetsDirect(s, m) /\ c = PeerCopy(s, m) /\ c.hop = s
                  /\ c.via = "local" <=> dev(s).sendlocal /\ dev(s).net = dev(m).net
               \/ /\ GetsRelayed(s, m) /\ c = RelayCopy(s, m) /\ c.hop = Server
                  /\ c.via = "server"
        BY <1>1, <1>2, <3>4, DueOpened
      <3>6. hands = Hands(m, c.hop)
        BY <3>5 DEF Hands, Hand
      <3>7. dev(m).proxyclients \cap Present # {} => seen = c.via
        BY <1>2, <3>1, <3>4 DEF SendersKnown, SenderSeen
      <3>8. ~(GetsDirect(s, m) /\ GetsRelayed(s, m))
        BY DEF GetsDirect, GetsRelayed
      <3>9. ASSUME NEW o \in Present, o \in dev(m).proxyclients \ {s}
            PROVE  GetsForwarded(s, m, o) <=> seen # "local"
        BY <3>4, <3>5, <3>7, <3>8, <3>9 DEF GetsForwarded
      <3> HIDE DEF hands
      <3>10. \A d \in wire' : Due(s, d)
        <4> SUFFICES ASSUME NEW d \in ProxyCopies(m, c, seen) PROVE Due(s, d)
          BY <1>2, <3>1 DEF NothingElse
        <4>1. CASE d.to \in Present
          <5>1. GetsForwarded(s, m, d.to) /\ RawFrom(m, d.to, d)
            BY <3>3, <3>5, <3>9, <4>1 DEF RawFrom
          <5> QED
            BY <3>4, <4>1, <5>1 DEF Due
        <4>2. CASE d.to \notin Present
          BY <3>3, <4>2 DEF Due
        <4> QED
          BY <4>1, <4>2
      <3>11. \A o \in Present : handed'[o] \subseteq Expected(s, o)
        <4>1. Hands(m, c.hop) \subseteq Expected(s, m)
          BY <3>5 DEF Expected
        <4>2. \A o \in Present : o \in Members /\ handed[o] \subseteq Expected(s, o)
          BY <1>2 DEF NothingElse, Present
        <4> QED
          BY <3>2, <3>6, <4>1, <4>2
      <3>12. \A o \in Present : handed[o] \subseteq handed'[o]
        BY <3>2 DEF Present
      <3>13. ASSUME NEW o \in Present, o # m, Pending(s, o, wire) PROVE Pending(s, o, wire')
        <4>1. PeerCopy(s, o) # c /\ RelayCopy(s, o) # c
          BY <3>13 DEF PeerCopy, RelayCopy
        <4>2. \A d \in wire : d # c => d \in wire'
          BY <3>1
        <4> QED
          BY <1>1, <3>13, <4>1, <4>2 DEF Pending
      <3>14. ASSUME NEW o \in Present, GetsDirect(s, o)
             PROVE  Pending(s, o, wire') \/ Hands(o, s) \subseteq handed'[o]
        <4>1. CASE o = m
          BY <3>2, <3>5, <3>6, <3>8, <3>14, <4>1
        <4>2. CASE o # m
          BY <1>2, <3>12, <3>13, <3>14, <4>2 DEF Everything
        <4> QED
          BY <4>1, <4>2
      <3>15. ASSUME NEW o \in Present, GetsRelayed(s, o)
             PROVE  Pending(s, o, wire') \/ Hands(o, Server) \subseteq handed'[o]
        <4>1. CASE o = m
          BY <3>2, <3>5, <3>6, <3>8, <3>15, <4>1
        <4>2. CASE o # m
          BY <1>2, <3>12, <3>13, <3>15, <4>2 DEF Everything
        <4> QED
          BY <4>1, <4>2
      <3>16. ASSUME NEW q \in Present, NEW o \in Present, GetsForwarded(s, q, o)
             PROVE  \/ Pending(s, q, wire') \/ Hand("main", q) \in handed'[o]
                    \/ \E d \in wire' : RawFrom(q, o, d)
        <4>1. CASE q = m
          <5>1. seen # "local" /\ o \in dev(m).proxyclients \ {s}
            BY <3>9, <3>16, <4>1 DEF GetsForwarded
          <5> DEFINE d == [to |-> o, hop |-> m, seal |-> Opened(m, c), raw |-> TRUE,
                           inc |-> 0, via |-> c.via]
          <5>2. d \in ProxyCopies(m, c, seen)
            BY <5>1 DEF ProxyCopies
          <5>3. RawFrom(m, o, d)
            BY <3>5 DEF RawFrom
          <5> QED
            BY <3>1, <4>1, <5>2, <5>3
        <4>2. CASE q # m
          <5>1. \A d \in wire : RawFrom(q, o, d) => d \in wire'
            BY <1>1, <3>1 DEF RawFrom
          <5> QED
            BY <1>2, <3>12, <3>13, <3>16, <4>2, <5>1 DEF Everything
        <4> QED
          BY <4>1, <4>2
      <3> QED
        BY <3>10, <3>11, <3>14, <3>15, <3>16 DEF NothingElse, Everything
    <2> QED
      BY <2>1, <2>2
  <1> QED
    BY <1>1, <1>2, CalmPrimed DEF Calm

LEMMA CalmDeliverRaw ==
  ASSUME TypeOK, Listed, Calm, NEW c \in wire, DeliverRaw(c) PROVE Calm'
  <1> DEFINE s == sent.src
  <1>1. /\ UNCHANGED <<setup, mode, inc, known, sent>> /\ c.raw
        /\ wire' = wire \ {c}
        /\ handed' = [handed EXCEPT ![c.to] = @ \cup
             {[port |-> "main", seal |-> c.seal, hop |-> c.hop]}]
    BY DEF DeliverRaw, clients
  <1>2. \A o \in Present : /\ handed[o] \subseteq handed'[o]
                           /\ o # c.to => handed'[o] = handed[o]
                           /\ o = c.to => handed'[o] = handed[o] \cup
                                {[port |-> "main", seal |-> c.seal, hop |-> c.hop]}
    BY <1>1 DEF TypeOK, Present
  <1>3. ASSUME s \in Present, NothingElse(s, wire, handed), Everything(s, wire, handed)
        PROVE  NothingElse(s, wire', handed') /\ Everything(s, wire', handed')
    <2>1. Due(s, c) /\ \A d \in wire' : Due(s, d)
      BY <1>1, <1>3 DEF NothingElse
    <2>2. ASSUME NEW o \in Present, o = c.to
          PROVE  /\ c.hop \in Present /\ GetsForwarded(s, c.hop, o) /\ RawFrom(c.hop, o, c)
                 /\ handed'[o] = handed[o] \cup {Hand("main", c.hop)}
      <3>1. \E q, r \in Present : GetsForwarded(s, q, r) /\ RawFrom(q, r, c)
        BY <1>1, <2>1, <2>2, DueKinds, <1>3 DEF Due
      <3>2. /\ c.hop \in Present /\ GetsForwarded(s, c.hop, o) /\ RawFrom(c.hop, o, c)
            /\ c.seal = 0
        BY <2>2, <3>1 DEF RawFrom
      <3> QED
        BY <1>2, <2>2, <3>2 DEF Hand
    <2>3. \A o \in Present : handed'[o] \subseteq Expected(s, o)
      <3>1. ASSUME NEW o \in Present, o = c.to PROVE Hand("main", c.hop) \in Expected(s, o)
        BY <2>2, <3>1 DEF Expected
      <3> QED
        BY <1>2, <1>3, <2>2, <3>1 DEF NothingElse
    <2>4. \A o \in Present : Pending(s, o, wire) => Pending(s, o, wire')
      <3>1. \A o \in Present : PeerCopy(s, o) # c /\ RelayCopy(s, o) # c
        BY <1>1 DEF PeerCopy, RelayCopy
      <3>2. c.to # Server
        BY <1>1, <2>1, ForwardingAssumption DEF Due, PeerCopy, RelayCopy, RawFrom, Present
      <3> QED
        BY <1>1, <3>1, <3>2 DEF Pending
    <2>5. ASSUME NEW q \in Present, NEW o \in Present, GetsForwarded(s, q, o)
          PROVE  \/ Pending(s, q, wire') \/ Hand("main", q) \in handed'[o]
                 \/ \E d \in wire' : RawFrom(q, o, d)
      <3>1. CASE RawFrom(q, o, c)
        <4>1. o = c.to /\ q = c.hop
          BY <3>1 DEF RawFrom
        <4> QED
          BY <2>2, <4>1
      <3>2. CASE ~RawFrom(q, o, c)
        BY <1>1, <1>2, <1>3, <2>4, <2>5, <3>2 DEF Everything
      <3> QED
        BY <3>1, <3>2
    <2> QED
      BY <1>2, <1>3, <2>1, <2>3, <2>4, <2>5 DEF NothingElse, Everything
  <1> QED
    BY <1>1, <1>3, CalmPrimed DEF Calm

(* Whatever else happens ends the calm, or has no effect on the packet.    *)
LEMMA CalmStep ==
  ASSUME TypeOK, Listed, Calm, [Next]_vars PROVE Calm'
  <1>1. ASSUME NEW m \in Members, SendX(m) PROVE Calm'
    BY <1>1 DEF SendX, NoPacket, Calm
  <1>2. ASSUME Disturbed PROVE Calm'
    <2>1. ~sent'.calm
      BY <1>2 DEF Disturbed, NoPacket, TypeOK
    <2> QED
      BY <2>1 DEF Calm
  <1>3. ASSUME NEW c \in wire, Lose(c) PROVE Calm'
    <2>1. ~sent'.calm
      BY <1>3 DEF Lose, TypeOK
    <2> QED
      BY <2>1 DEF Calm
  <1>4. CASE UNCHANGED vars
    BY <1>4, CalmPrimed DEF vars, clients, Calm
  <1>5. ASSUME NEW m \in Members,
               \/ send_registration(m) \/ LearnServerKey(m) \/ Restart(m)
               \/ \E o \in Members : Learn(m, o) \/ Expire(m, o)
        PROVE  Calm'
    BY <1>2, <1>5 DEF send_registration, LearnServerKey, Restart, Learn, Expire
  <1>6. ASSUME NEW m \in Members, Send(m) PROVE Calm'
    BY <1>6, CalmSend
  <1>7. ASSUME NEW c \in wire, Relay(c) \/ Deliver(c) \/ DeliverRaw(c) PROVE Calm'
    BY <1>7, CalmRelay, CalmDeliver, CalmDeliverRaw
  <1> QED
    BY <1>1, <1>3, <1>4, <1>5, <1>6, <1>7 DEF Next

(* Where proxies are set up as meant, each member that takes the packet    *)
(* gets it in one of the three ways, and the others in none.               *)
LEMMA OneOfThree ==
  ASSUME TypeOK, ProxiesServe, sent.src \in Present, NEW o \in Present
  PROVE  /\ Receives(o) => \E h :
              \/ Expected(sent.src, o) = Hands(o, h)
              \/ Expected(sent.src, o) = {Hand("main", h)} /\ "usingproxy" \in mode[o]
         /\ ~Receives(o) => Expected(sent.src, o) = {}
  <1> DEFINE s == sent.src
  <1>1. CASE o = s
    BY <1>1 DEF Receives, Expected, GetsDirect, GetsRelayed, GetsForwarded
  <1>2. CASE o # s /\ ~Proxied(o)
    <2>1. \A q \in Present : ~GetsForwarded(s, q, o)
      BY <1>2 DEF Proxied, GetsForwarded
    <2>2. ~("donotsend" \in mode[o] /\ "usingproxy" \in mode[o])
      BY <1>2 DEF ProxiesServe
    <2>3. Receives(o) <=> GetsDirect(s, o) \/ GetsRelayed(s, o)
      BY <1>2, <2>2 DEF Receives, GetsDirect, GetsRelayed, BothPeersNow
    <2>4. ~(GetsDirect(s, o) /\ GetsRelayed(s, o))
      BY DEF GetsDirect, GetsRelayed
    <2>5. Expected(s, o) = {h \in Hands(o, s) : GetsDirect(s, o)}
                             \cup {h \in Hands(o, Server) : GetsRelayed(s, o)}
      BY <2>1 DEF Expected
    <2> QED
      BY <2>3, <2>4, <2>5
  <1>3. CASE o # s /\ Proxied(o)
    <2>1. PICK q \in Present : o \in dev(q).proxyclients
      BY <1>3 DEF Proxied
    <2>2. /\ "p2p" \in mode[o] /\ "donotsend" \in mode[o] /\ "usingproxy" \in mode[o]
          /\ "p2p" \in mode[q] /\ "donotsend" \notin mode[q]
          /\ ("recmix" \in mode[q]) <=> ("recmix" \in mode[o])
          /\ dev(q).net = dev(o).net
          /\ dev(s).net = dev(o).net => dev(s).sendlocal
          /\ \A r \in Present \ {q} : o \notin dev(r).proxyclients
      BY <2>1 DEF ProxiesServe
    <2>3. ~GetsRelayed(s, o) /\ \A r \in Present \ {q} : ~GetsForwarded(s, r, o)
      BY <2>2 DEF GetsRelayed, GetsForwarded
    <2>4. Receives(o) <=>
            ("p2p" \in mode[s] => (("recmix" \in mode[o]) <=> ("sendmix" \in mode[s])))
      BY <1>3, <2>2 DEF Receives
    <2>5. GetsDirect(s, o) <=> Receives(o) /\ "p2p" \in mode[s] /\ dev(s).net = dev(o).net
      BY <1>3, <2>2, <2>4 DEF GetsDirect, BothPeersNow
    <2>6. GetsForwarded(s, q, o) <=>
            Receives(o) /\ ~("p2p" \in mode[s] /\ dev(s).net = dev(o).net)
      BY <1>3, <2>1, <2>2, <2>4 DEF GetsForwarded, GetsDirect, GetsRelayed, BothPeersNow
    <2>7. Expected(s, o) = {h \in Hands(o, s) : GetsDirect(s, o)}
                             \cup {Hand("main", r) : r \in {x \in {q} : GetsForwarded(s, x, o)}}
      BY <2>3 DEF Expected
    <2> QED
      BY <2>2, <2>5, <2>6, <2>7
  <1> QED
    BY <1>1, <1>2, <1>3

LEMMA CalmSuffices ==
  ASSUME TypeOK, Calm PROVE ServedWhenKnown
  <1> SUFFICES ASSUME ProxiesServe, sent.calm, sent.port = "main", wire = {},
                      NEW o \in Present
               PROVE  IF Receives(o)
                      THEN /\ Cardinality(got(o, "main")) = 1
                           /\ dev(o).extra /\ "usingproxy" \notin mode[o] =>
                                Cardinality(got(o, "extra")) = 1
                           /\ \A h \in handed[o] : h.seal = 0
                      ELSE handed[o] = {}
    BY DEF ServedWhenKnown
  <1> DEFINE s == sent.src
  <1>1. SendersKnown
    BY DEF SendersKnown, ProxiesServe
  <1>2. s \in Present /\ NothingElse(s, wire, handed) /\ Everything(s, wire, handed)
    BY <1>1 DEF Calm
  <1>3. handed[o] = Expected(s, o)
    <2>1. \A q \in Present : ~Pending(s, q, wire)
      BY DEF Pending
    <2>2. Expected(s, o) \subseteq handed[o]
      BY <1>2, <2>1 DEF Everything, Expected
    <2> QED
      BY <1>2, <2>2 DEF NothingElse
  <1>4. CASE Receives(o)
    <2>1. PICK h : \/ handed[o] = Hands(o, h)
                   \/ handed[o] = {Hand("main", h)} /\ "usingproxy" \in mode[o]
      BY <1>2, <1>3, <1>4, OneOfThree
    <2>2. got(o, "main") = {Hand("main", h)}
      BY <2>1 DEF got, Hands, Hand, LocalPorts
    <2>3. dev(o).extra /\ "usingproxy" \notin mode[o] => got(o, "extra") = {Hand("extra", h)}
      BY <2>1 DEF got, Hands, Hand, LocalPorts
    <2>4. \A k \in handed[o] : k.seal = 0
      BY <2>1 DEF Hands, Hand
    <2> QED
      BY <1>4, <2>2, <2>3, <2>4, FS_Singleton
  <1>5. CASE ~Receives(o)
    BY <1>2, <1>3, <1>5, OneOfThree
  <1> QED
    BY <1>4, <1>5

(* Where proxies are set up as meant, a packet that is sent when all is    *)
(* known and of which nothing gets lost reaches each member that takes it  *)
(* once, readable and on the right ports, and nobody else.                 *)
THEOREM ServedHolds == Spec => []ServedWhenKnown
  <1>1. Init => Modes /\ Listed /\ Calm
    BY InitOnce DEF Init, Calm, NoPacket
  <1>2. TypeOK /\ Modes /\ Listed /\ Calm /\ [Next]_vars => Modes' /\ Listed' /\ Calm'
    BY ModesStep, ListedStep, CalmStep
  <1>3. TypeOK /\ Calm => ServedWhenKnown
    BY CalmSuffices
  <1> QED
    BY <1>1, <1>2, <1>3, TypeCorrect, PTL DEF Spec
=============================================================================
