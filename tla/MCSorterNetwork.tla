-------------------------- MODULE MCSorterNetwork --------------------------
(* SorterNetwork on small instances: see the MCSorter*.cfg files.          *)
EXTENDS SorterNetwork

\* PORT_REGISTER (0) stands for the control ports.
MCPort == {0, 14, 15}
OneStream == {<<0, 14>>}
TwoStreams == {<<0, 14>>, <<0, 15>>}
TwoDevices == {<<0, 0>>, <<0, 14>>, <<1, 14>>}

(* Two devices, control and data messages; the network keeps the order and *)
(* loses up to two packets; no wrap of the sequence numbers.               *)
Ordered ==
  [sending |-> TwoDevices, start |-> {0}, sent |-> 4, flight |-> 1,
   overtake |-> 0, loss |-> 2, dup |-> 0, stray |-> {}, arrivals |-> 4]

(* One stream; the network swaps neighbours and loses nothing; the numbers *)
(* wrap after the sixth packet.                                            *)
Swapping ==
  [sending |-> OneStream, start |-> {0}, sent |-> 9, flight |-> 2,
   overtake |-> 1, loss |-> 0, dup |-> 0, stray |-> {}, arrivals |-> 9]

(* Two streams of one device; the network loses, duplicates and reorders;  *)
(* the numbers wrap.                                                       *)
Unruly ==
  [sending |-> TwoStreams, start |-> {Half - 3}, sent |-> 3, flight |-> 3,
   overtake |-> 2, loss |-> 1, dup |-> 1, stray |-> {}, arrivals |-> 4]

(* No senders: a device delivers any of some numbers at any time.          *)
Numbers(p) == IF p = 0 THEN {0} ELSE {-Half, -1, 0, 1, 2, Half - 1}
Anything ==
  [sending |-> {}, start |-> {0}, sent |-> 0, flight |-> 0, overtake |-> 0,
   loss |-> 0, dup |-> 0, arrivals |-> 4,
   stray |-> UNION {[cid : {0}, destport : {p}, seq : Numbers(p), n : {0}]
                      : p \in MCPort}]

(* One stream; the network keeps the order and loses one packet.           *)
OneLoss ==
  [sending |-> OneStream, start |-> {0}, sent |-> 4, flight |-> 1,
   overtake |-> 0, loss |-> 1, dup |-> 0, stray |-> {}, arrivals |-> 4]

AllNetworks == {Ordered, Swapping, Unruly, Anything}
OnlyOneLoss == {OneLoss}
=============================================================================
