------------------------------ MODULE MCStream ------------------------------
(* Stream for model checking: a packet without a body, one of a byte, and  *)
(* one of three, which with a header of two bytes does not fit the window  *)
(* at once.                                                                *)
EXTENDS Stream

SomePackets == {"empty", "short", "long"}

SomeSizes == [empty |-> 0, short |-> 1, long |-> 3]
=============================================================================
