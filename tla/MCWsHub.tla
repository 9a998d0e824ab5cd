------------------------------- MODULE MCWsHub -------------------------------
(***************************************************************************)
(* Small instance of WsHub for TLC: two connections of a user who is       *)
(* allowed one, so that both a refusal and the race of two handshakes      *)
(* occur, and two publishers on one channel.  Two subscribers are the      *)
(* fewest whose order matters, two publishers the fewest that can overtake *)
(* each other.                                                             *)
(***************************************************************************)
EXTENDS WsHub

CONSTANTS c1, c2, u1

MCConns == {c1, c2}

MCUserOf == [c \in MCConns |-> u1]
=============================================================================
