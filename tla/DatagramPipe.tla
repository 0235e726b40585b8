---------------------------- MODULE DatagramPipe ----------------------------
(***************************************************************************)
(* What the TCP tunnel promises for each of its directions: datagrams come *)
(* out in the order they went in, whole, none twice and none left out.     *)
(* They may stop coming when the tunnel goes down.                         *)
(***************************************************************************)
EXTENDS Sequences, Naturals

CONSTANTS Direction, Datagram

VARIABLES
  input,  \* input[d]: datagrams given to the tunnel
  output  \* output[d]: datagrams the tunnel handed out at the other end

Accept(d) ==
  /\ \E n \in Datagram : input' = [input EXCEPT ![d] = Append(@, n)]
  /\ UNCHANGED output

Release(d) ==
  /\ Len(output[d]) < Len(input[d])
  /\ output' = [output EXCEPT ![d] = Append(@, input[d][Len(@) + 1])]
  /\ UNCHANGED input

Init ==
  /\ input = [d \in Direction |-> <<>>]
  /\ output = [d \in Direction |-> <<>>]

Next == \E d \in Direction : Accept(d) \/ Release(d)

Spec == Init /\ [][Next]_<<input, output>>
=============================================================================
