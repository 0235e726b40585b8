---------------------------- MODULE MCForwarding ----------------------------
(* Small sessions: a and b, and behind one external address a proxy p with *)
(* its client c.                                                           *)
EXTENDS Forwarding

CONSTANTS a, b, c, p, home, far, away

MCMembers == {a, b, c, p}
MCNets == {home, far, away}

device(flags, net) ==
  [present |-> TRUE, mode |-> flags, net |-> net, sendlocal |-> TRUE,
   proxyclients |-> {}, extra |-> FALSE]
Absent == [device({}, home) EXCEPT !.present = FALSE]
Extra(d) == [d EXCEPT !.extra = TRUE]
Proxy(d, cl) == [d EXCEPT !.proxyclients = cl]

session(da, db, dc, dp, un, re, after) ==
  [device |-> [m \in MCMembers |-> CASE m = a -> da [] m = b -> db
                                     [] m = c -> dc [] m = p -> dp],
   unstable |-> un, restarts |-> re, after |-> after]

PEER == {"p2p", "encryption"}
CLIENT == {"p2p", "donotsend", "usingproxy", "encryption"}

(* Two peers, of which b is not known at first and may come back as a      *)
(* client in relay mode.                                                   *)
Pair == session(device(PEER, far), device(PEER, away), Absent, Absent,
  {<<a, b>>}, {b}, {"encryption"})

(* Both over the relay server; a is not registered at first.               *)
Relayed == session(device({"encryption"}, far),
  Extra(device({"encryption"}, away)), Absent, Absent,
  {<<b, a>>, <<a, Server>>}, {}, {})

(* A peer with a neighbour, and a member in relay mode that is not known   *)
(* at first, neither is the key of the server.                             *)
Mixed == session(device(PEER, home), device({}, far),
  Extra(device(PEER, home)), Absent,
  {<<a, a>>, <<a, b>>, <<a, Server>>}, {}, {})

(* A downmixer, a receiver of the downmix, one of the tracks, one that     *)
(* takes nothing.                                                          *)
Downmix == session(device({"p2p", "sendmix"}, far), device(PEER, home),
  device({"p2p", "recmix"}, home), device({"p2p", "donotsend"}, away),
  {<<a, b>>}, {}, {})

(* A proxy and its client at home with a neighbour; a peer far away.       *)
ProxyPeers == session(device(PEER, far), device(PEER, home),
  device(CLIENT, home), Proxy(device(PEER, home), {c}),
  {<<a, p>>}, {}, {})

(* The same with a sender in relay mode. *)
ProxyRelay == session(device({"encryption"}, far), device({"p2p"}, home),
  device(CLIENT, home), Proxy(device(PEER, home), {c}),
  {<<p, p>>, <<p, a>>}, {}, {})

MCSetups == {Pair, Relayed, Mixed, Downmix, ProxyPeers, ProxyRelay}
ProxySetups == {ProxyPeers}
=============================================================================
