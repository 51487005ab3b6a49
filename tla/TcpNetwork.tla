----------------------------- MODULE TcpNetwork -----------------------------
(***************************************************************************)
(* The outside world of a glnet server: the remote peers and the kernel's  *)
(* TCP, as src/Protocol/Tcp.cpp meets them through poll, accept and recv.  *)
(* None of it is glnet code; it is what that code has to live with.        *)
(*                                                                         *)
(* A connection is a member of Conns.  No code path of glnet closes an     *)
(* accepted descriptor (Socket(Fd, isOwner = false)), so the kernel never  *)
(* reuses its number while the server runs, and a connection also stands   *)
(* for the descriptor accept() returns for it.                             *)
(*                                                                         *)
(* A packet travels as a 4-byte header (the length) and a body of that     *)
(* many bytes; TCP may cut this stream anywhere.  The receive buffer of a  *)
(* connection holds the pieces the reader can tell apart:                  *)
(*   "header"  a whole header that announces a body                        *)
(*   "empty"   a whole header that announces length 0: a whole packet      *)
(*   "body"    the whole body of the packet whose header came before       *)
(*   "part"    a proper prefix of a header or of a body                    *)
(* The names say what the reader takes a piece for.  A read that ends in a *)
(* "part" puts the reader out of step with the sender; whatever it reads   *)
(* from then on, it takes for a header first.                              *)
(***************************************************************************)
EXTENDS Naturals, Sequences, SequencesExt

CONSTANTS
    Conns,        \* connections peers may open
    PacketsOf,    \* bound: PacketsOf[c], packets the peer sends on c
    MayVanish     \* TRUE: a peer's host may fall silent without FIN or RST

ASSUME NetworkAssumption ==
    /\ PacketsOf \in [Conns -> Nat]
    /\ MayVanish \in BOOLEAN

VARIABLES
    link,     \* link[c]: the peer's end, as far as the kernel knows
    rx,       \* rx[c]: pieces received and not yet read
    due,      \* due[c]: what the reader will take the next bytes for
    unsent,   \* unsent[c]: packets the peer has still to finish sending
    backlog   \* connections the kernel completed and nobody accepted yet

netVars == <<link, rx, due, unsent, backlog>>

Pieces == {"header", "empty", "body", "part"}

LinkStates == {"none", "up", "fin", "rst", "lost"}

NetTypeOK ==
    /\ link \in [Conns -> LinkStates]
    /\ rx \in [Conns -> Seq(Pieces)]
    /\ due \in [Conns -> {"header", "body"}]
    /\ unsent \in [Conns -> Nat]
    /\ backlog \in Seq(Conns)

NetInit ==
    /\ link = [c \in Conns |-> "none"]
    /\ rx = [c \in Conns |-> <<>>]
    /\ due = [c \in Conns |-> "header"]
    /\ unsent = PacketsOf
    /\ backlog = <<>>

-----------------------------------------------------------------------------
(* Peers and network.                                                      *)

(* connect() of a peer: the kernel completes the handshake by itself and   *)
(* queues the connection for accept().                                     *)
PeerConnect(c) ==
    /\ link[c] = "none"
    /\ link' = [link EXCEPT ![c] = "up"]
    /\ backlog' = Append(backlog, c)
    /\ UNCHANGED <<rx, due, unsent>>

(* The pieces that may arrive next on c.                                   *)
NextPieces(c) ==
    IF due[c] = "header" THEN {"header", "empty"} ELSE {"body"}

(* The receive buffer without the prefix that a new piece completes.       *)
Settled(buffer) ==
    IF buffer # <<>> /\ Last(buffer) = "part" THEN Front(buffer) ELSE buffer

(* The next header or body arrives to its last byte.                       *)
PieceArrives(c) ==
    /\ link[c] = "up"
    /\ unsent[c] > 0
    /\ \E piece \in NextPieces(c) :
         /\ rx' = [rx EXCEPT ![c] = Append(Settled(@), piece)]
         /\ due' = [due EXCEPT ![c] =
                      IF piece = "header" THEN "body" ELSE "header"]
         /\ unsent' = [unsent EXCEPT ![c] =
                         IF piece = "header" THEN @ ELSE @ - 1]
    /\ UNCHANGED <<link, backlog>>

(* A segment ends inside the next header or body.                          *)
PartArrives(c) ==
    /\ link[c] = "up"
    /\ unsent[c] > 0
    /\ rx[c] = Settled(rx[c])
    /\ rx' = [rx EXCEPT ![c] = Append(@, "part")]
    /\ UNCHANGED <<link, due, unsent, backlog>>

(* The peer closes its socket (FIN), aborts it (RST), or falls silent.     *)
PeerClose(c) ==
    /\ link[c] = "up"
    /\ link' = [link EXCEPT ![c] = "fin"]
    /\ UNCHANGED <<rx, due, unsent, backlog>>

PeerAbort(c) ==
    /\ link[c] \in {"up", "fin"}
    /\ link' = [link EXCEPT ![c] = "rst"]
    /\ UNCHANGED <<rx, due, unsent, backlog>>

PeerVanish(c) ==
    /\ MayVanish
    /\ link[c] = "up"
    /\ link' = [link EXCEPT ![c] = "lost"]
    /\ UNCHANGED <<rx, due, unsent, backlog>>

-----------------------------------------------------------------------------
(* The system calls.                                                       *)

(* What poll(POLLIN) reports for c: data, end of stream and error make it  *)
(* readable; a reset also hangs it up.  A FIN alone does not set POLLHUP,  *)
(* because the server never shuts down its own direction.                  *)
PollEvents(c) ==
    (IF rx[c] # <<>> \/ link[c] \in {"fin", "rst"} THEN {"IN"} ELSE {})
      \cup (IF link[c] = "rst" THEN {"HUP"} ELSE {})

(* recv() on c returns the next piece.                                     *)
RecvPiece(c, piece) ==
    /\ rx[c] # <<>>
    /\ Head(rx[c]) = piece
    /\ rx' = [rx EXCEPT ![c] = Tail(@)]
    /\ due' = IF piece = "part" THEN [due EXCEPT ![c] = "header"] ELSE due
    /\ UNCHANGED <<link, unsent, backlog>>

(* recv() on c returns 0: end of stream.                                   *)
RecvEnd(c) ==
    /\ rx[c] = <<>>
    /\ link[c] = "fin"
    /\ UNCHANGED netVars

(* recv() on c fails: the connection was reset.  With no data and neither  *)
(* FIN nor RST, recv() blocks: none of the three is enabled.               *)
RecvError(c) ==
    /\ rx[c] = <<>>
    /\ link[c] = "rst"
    /\ UNCHANGED netVars
=============================================================================
