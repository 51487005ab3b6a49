------------------------------ MODULE MCServer ------------------------------
(* Server for model checking: every connection has a source address of its *)
(* own, and nothing in the model depends on which connection is which.     *)
EXTENDS Server

OwnEndpoint == [c \in Conns |-> c]

NoneEach == [c \in Conns |-> 0]

(* One peer sends a packet, the others only come and go.                   *)
OneInAll == [c \in Conns |-> IF c = CHOOSE d \in Conns : TRUE THEN 1 ELSE 0]

Symmetry ==
    {f \in Permutations(Conns) : \A c \in Conns : PacketsOf[f[c]] = PacketsOf[c]}
=============================================================================
