------------------------------ MODULE Channel ------------------------------
(***************************************************************************)
(* What one direction of a TCP connection of glnet promises: packets come  *)
(* out whole, once each and in the order in which they went in, though     *)
(* perhaps not all of them.  It promises so until a packet is torn: when   *)
(* send() is left halfway, or two calls of it run at once and do not fit,  *)
(* the bytes of one packet do not lie together, and the promise is off.    *)
(***************************************************************************)
EXTENDS Naturals, Sequences

CONSTANT Packets

VARIABLES
    sent,        \* packets that have gone in
    delivered,   \* packets handed to onMessageReception
    torn         \* a packet's bytes have been separated

Init ==
    /\ sent = <<>>
    /\ delivered = <<>>
    /\ torn = FALSE

Send ==
    /\ \E p \in Packets : sent' = Append(sent, p)
    /\ UNCHANGED <<delivered, torn>>

Deliver ==
    /\ Len(delivered) < Len(sent)
    /\ delivered' = Append(delivered, sent[Len(delivered) + 1])
    /\ UNCHANGED <<sent, torn>>

Next == Send \/ Deliver \/ torn' = TRUE

Spec == Init /\ [][Next]_<<sent, delivered, torn>>
=============================================================================
