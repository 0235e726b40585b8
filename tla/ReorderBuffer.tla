--------------------------- MODULE ReorderBuffer ---------------------------
(***************************************************************************)
(* What the packet sorter of an ovbox client promises, without sequence    *)
(* numbers, buffers or streams.  Datagrams are numbered in the order they  *)
(* are received.  Each one is handed out once or given up; a datagram can  *)
(* only be overtaken by its direct successor, and is only given up when    *)
(* that successor takes its place.                                         *)
(***************************************************************************)
EXTENDS Integers

CONSTANT Limit  \* bound: datagrams received in a behaviour

VARIABLES arrived, delivered, dropped

vars == <<arrived, delivered, dropped>>

Open == (1 .. arrived) \ (delivered \cup dropped)

Init == arrived = 0 /\ delivered = {} /\ dropped = {}

(* A new datagram is only read when all but the last one are settled. *)
Accept ==
  /\ arrived < Limit
  /\ Open \subseteq {arrived}
  /\ arrived' = arrived + 1
  /\ UNCHANGED <<delivered, dropped>>

HandOut ==
  /\ \E n \in Open : delivered' = delivered \cup {n}
  /\ UNCHANGED <<arrived, dropped>>

(* The last datagram is kept in the place of the one before. *)
GiveUp ==
  /\ Open = {arrived - 1, arrived}
  /\ dropped' = dropped \cup {arrived - 1}
  /\ UNCHANGED <<arrived, delivered>>

Next == Accept \/ HandOut \/ GiveUp

Spec == Init /\ [][Next]_vars

(* No datagram is overtaken by more than one later datagram. *)
BoundedOvertaking == Open \subseteq {arrived - 1, arrived}
=============================================================================
