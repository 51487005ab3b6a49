---------------------------- MODULE MCClientSide ----------------------------
(* ClientSide for model checking: two processes, one of which may call     *)
(* connectToServer a second time.                                          *)
EXTENDS ClientSide

CONSTANTS c1, c2

SomeCalls == [c \in Clients |-> IF c = c1 THEN 2 ELSE 1]
=============================================================================
