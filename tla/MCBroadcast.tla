----------------------------- MODULE MCBroadcast -----------------------------
(* Broadcast for model checking: a list of the first two ids, the second   *)
(* of which, not given out yet when the first call may come, goes first.   *)
EXTENDS Broadcast

OwnEndpoint == [c \in Conns |-> c]

NoneEach == [c \in Conns |-> 0]

YoungestFirst == {<<1, 0>>}

Symmetry ==
    {f \in Permutations(Conns) : \A c \in Conns : PacketsOf[f[c]] = PacketsOf[c]}
=============================================================================
