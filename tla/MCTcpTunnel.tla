---------------------------- MODULE MCTcpTunnel -----------------------------
(* One connection with more data than it holds, and two clients one after  *)
(* the other or at once.                                                   *)
EXTENDS TcpTunnel

MCConn == {1, 2}
MCFd == {1, 2}

counts(c1, s1, c2) ==
  [e \in End |-> CASE e = <<1, "c">> -> c1 [] e = <<1, "s">> -> s1
                   [] e = <<2, "c">> -> c2 [] e = <<2, "s">> -> 0]

(* Two datagrams that follow each other; datagrams in both directions.     *)
InRow == [clients |-> {1}, overlap |-> FALSE, breakable |-> {1}, parts |-> 2,
          count |-> counts(2, 0, 0)]
Full == [clients |-> {1}, overlap |-> FALSE, breakable |-> {1}, parts |-> 2,
         count |-> counts(1, 1, 0)]

(* One client after the other, the second may get the descriptor of the    *)
(* first.                                                                  *)
Sequence == [clients |-> {1, 2}, overlap |-> FALSE, breakable |-> {},
             parts |-> 1, count |-> counts(1, 0, 0)]

(* Both at once. *)
Both == [clients |-> {1, 2}, overlap |-> TRUE, breakable |-> {},
         parts |-> 1, count |-> counts(0, 0, 0)]

MCPlans == {InRow, Full, Sequence, Both}
=============================================================================
