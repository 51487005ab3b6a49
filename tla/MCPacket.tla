------------------------------ MODULE MCPacket ------------------------------
(* Packet for model checking, with bytes of one bit: a string's header can *)
(* hold sizes up to 3.                                                     *)
EXTENDS Packet

SomeValues == {<<1>>, <<0, 1>>, <<1, 1>>}

(* The last one is too long.                                               *)
SomeStrings == {<<>>, <<1>>, <<1, 0, 1>>, <<1, 0, 0, 1>>}
=============================================================================
