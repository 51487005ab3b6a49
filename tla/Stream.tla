------------------------------- MODULE Stream -------------------------------
(***************************************************************************)
(* One direction of a TCP connection, from Tcp::sendToSocket at one end to *)
(* Tcp::readFromSocket at the other (src/Protocol/Tcp.cpp).                *)
(*                                                                         *)
(* A packet is HeaderBytes bytes that announce its length and that many    *)
(* bytes of body.  <<n, k>> is byte k of the n-th packet that entered the  *)
(* stream: the reader cannot see where a byte comes from, but the          *)
(* properties can.                                                         *)
(*                                                                         *)
(* The sockets block.  send() copies what fits into the buffers between    *)
(* the two processes, Window bytes in all, and waits for room with the     *)
(* socket unlocked; recv() returns any part of what it was asked for.      *)
(* A name that ends in _Slip is a mistake the properties must notice.      *)
(***************************************************************************)
EXTENDS Naturals, Sequences

CONSTANTS
    Senders,      \* threads that call sendToSocket for this connection
    Packets,
    Size,         \* Size[p]: Packet::length
    HeaderBytes,  \* sizeof(Packet::length), 4 in the code
    Window,       \* bytes the kernels hold for the connection
    Lengths,      \* what a header read out of step may announce
    Interrupts,   \* TRUE: a signal may interrupt send()
    ReaderSide,   \* the Side of the reading Manager
    MaxSent       \* bound: packets sent

ASSUME StreamAssumption ==
    /\ Size \in [Packets -> Nat]
    /\ HeaderBytes \in Nat \ {0}
    /\ Window \in Nat \ {0}
    /\ Lengths \subseteq Nat
    /\ Interrupts \in BOOLEAN
    /\ ReaderSide \in {"SERVER", "CLIENT"}
    /\ MaxSent \in Nat

VARIABLES
    call,        \* call[s]: the packet s is in send() with, and the bytes taken
    sent,        \* history: packets in the order they entered the stream
    torn,        \* history: the bytes of some packet do not lie together
    stream,      \* bytes in the kernels' buffers and on the way
    link,        \* the connection, as the sender's kernel knows it
    reader,      \* where readFromSocket is, or why it is called no more
    header,      \* the bytes read into Packet::length
    due,         \* Packet::length, the bytes readBody asks for
    delivered    \* history: the packets given to the callback, 0 for garbage

senderVars == <<call, sent, torn>>
readerVars == <<reader, header, due, delivered>>
vars == <<senderVars, stream, link, readerVars>>

Idle == [packet |-> 0, taken |-> 0]

Init ==
    /\ call = [s \in Senders |-> Idle]
    /\ sent = <<>>
    /\ torn = FALSE
    /\ stream = <<>>
    /\ link = "up"
    /\ reader = "header"
    /\ header = <<>>
    /\ due = 0
    /\ delivered = <<>>

Smaller(m, n) == IF m <= n THEN m ELSE n

(* Bytes from + 1 to from + count of the n-th packet.                      *)
Bytes(n, from, count) == [k \in 1 .. count |-> <<n, from + k>>]

WireLength_Slip(p) == IF Size[p] = 0 THEN HeaderBytes ELSE HeaderBytes + Size[p] - 1

(* What sendToSocket allocates, fills and sends.                           *)
WireLength(p) == HeaderBytes + Size[p]

-----------------------------------------------------------------------------
(* Tcp::sendToSocket on thread s.                                          *)

Room == Window - Len(stream)

Midway(s) == call[s] # Idle

Takes_Slip(s, n, p, from) ==
    /\ stream' = stream \o Bytes(n, from, Smaller(Room, WireLength(p) - from))
    /\ call' = [call EXCEPT ![s] = Idle]

(* send() goes on from byte from of packet n, which is p: it takes what    *)
(* there is room for, and returns when it has taken all.                   *)
Takes(s, n, p, from) ==
    LET count == Smaller(Room, WireLength(p) - from)
    IN  /\ stream' = stream \o Bytes(n, from, count)
        /\ call' = [call EXCEPT ![s] =
                      IF from + count = WireLength(p) THEN Idle
                      ELSE [packet |-> n, taken |-> from + count]]

(* Header and body are copied into one buffer, and sent.  A call no byte   *)
(* of which was taken yet has no effect, and counts as not made.           *)
SendBegins(s, p) ==
    /\ ~Midway(s)
    /\ link = "up"
    /\ Len(sent) < MaxSent
    /\ Room > 0
    /\ sent' = Append(sent, p)
    /\ torn' = (torn \/ \E t \in Senders : Midway(t))
    /\ Takes(s, Len(sent) + 1, p, 0)
    /\ UNCHANGED <<link, readerVars>>

SendContinues(s) ==
    /\ Midway(s)
    /\ link = "up"
    /\ Room > 0
    /\ Takes(s, call[s].packet, sent[call[s].packet], call[s].taken)
    /\ UNCHANGED <<sent, torn, link, readerVars>>

(* send() returns less than it was given, and nobody looks.                *)
SendInterrupted(s) ==
    /\ Interrupts
    /\ Midway(s)
    /\ call' = [call EXCEPT ![s] = Idle]
    /\ torn' = TRUE
    /\ UNCHANGED <<sent, stream, link, readerVars>>

(* The reader's end is gone: the exception is caught in sendToSocket, ...  *)
SendFails(s) ==
    /\ Midway(s)
    /\ link = "reset"
    /\ call' = [call EXCEPT ![s] = Idle]
    /\ UNCHANGED <<sent, torn, stream, link, readerVars>>

(* ... or SIGPIPE, which nobody ignores, ends the process.                 *)
SendKills ==
    /\ link = "reset"
    /\ link' = "killed"
    /\ call' = [s \in Senders |-> Idle]
    /\ UNCHANGED <<sent, torn, stream, readerVars>>

(* The sender's sockets are closed by ~Manager, when no call is left.      *)
SenderCloses ==
    /\ link = "up"
    /\ \A s \in Senders : ~Midway(s)
    /\ link' = "fin"
    /\ UNCHANGED <<senderVars, stream, readerVars>>

(* The reader's process ends.                                              *)
ReaderEnds ==
    /\ reader # "ended"
    /\ reader' = "ended"
    /\ link' = IF link = "up" THEN "reset" ELSE link
    /\ UNCHANGED <<senderVars, stream, header, due, delivered>>

-----------------------------------------------------------------------------
(* Tcp::readFromSocket, called by run() for a readable socket.             *)

(* recv() of up to wanted bytes returns count of them.                     *)
Recv(wanted, count) ==
    /\ count \in 1 .. Smaller(wanted, Len(stream))
    /\ stream' = SubSeq(stream, count + 1, Len(stream))

(* A header whose bytes are those of a header announces that packet's      *)
(* length; any other four bytes announce anything.                         *)
HeaderOf(bytes) ==
    {n \in 1 .. Len(sent) : bytes = Bytes(n, 0, HeaderBytes)}

Announced(bytes) ==
    IF HeaderOf(bytes) = {} THEN Lengths
    ELSE {Size[sent[n]] : n \in HeaderOf(bytes)}

(* The packet these bytes are, or 0.                                       *)
PacketOf(bytes) ==
    IF \E n \in 1 .. Len(sent) : bytes = Bytes(n, 0, WireLength(sent[n]))
      THEN bytes[1][1] ELSE 0

AfterShortRead_Slip == "header"

(* The server disconnects the client; a client does not look at what       *)
(* readFromSocket returns, and reads on.  Neither closes the descriptor.   *)
AfterShortRead == IF ReaderSide = "SERVER" THEN "gone" ELSE "header"

GivesUp_Slip ==
    /\ reader' = AfterShortRead
    /\ UNCHANGED <<header, due, delivered>>

GivesUp ==
    /\ reader' = AfterShortRead
    /\ header' = <<>>
    /\ due' = 0
    /\ UNCHANGED delivered

Delivers(bytes) ==
    /\ reader' = "header"
    /\ header' = <<>>
    /\ due' = 0
    /\ delivered' = Append(delivered, PacketOf(bytes))

ReadHeader_Slip ==
    /\ reader = "header"
    /\ \E count \in 1 .. HeaderBytes :
         /\ Recv(HeaderBytes, count)
         /\ IF count # HeaderBytes
              THEN GivesUp
              ELSE /\ reader' = "body"
                   /\ header' = SubSeq(stream, 1, count)
                   /\ due' \in Announced(header')
                   /\ UNCHANGED delivered
    /\ UNCHANGED <<senderVars, link>>

(* readHeader.  A packet without a body is whole with its header.          *)
ReadHeader ==
    /\ reader = "header"
    /\ \E count \in 1 .. HeaderBytes :
         /\ Recv(HeaderBytes, count)
         /\ IF count # HeaderBytes
              THEN GivesUp
              ELSE LET bytes == SubSeq(stream, 1, count) IN
                   \E length \in Announced(bytes) :
                     IF length = 0
                       THEN Delivers(bytes)
                       ELSE /\ reader' = "body"
                            /\ header' = bytes
                            /\ due' = length
                            /\ UNCHANGED delivered
    /\ UNCHANGED <<senderVars, link>>

(* readBody: recv() waits until there is at least one byte.                *)
ReadBody ==
    /\ reader = "body"
    /\ \E count \in 1 .. due :
         /\ Recv(due, count)
         /\ IF count # due
              THEN GivesUp
              ELSE Delivers(header \o SubSeq(stream, 1, count))
    /\ UNCHANGED <<senderVars, link>>

(* The sender has closed and all is read: recv() returns 0, in either      *)
(* place.  A client goes round its loop with that from then on.            *)
ReadEnd ==
    /\ reader \in {"header", "body"}
    /\ stream = <<>>
    /\ link = "fin"
    /\ GivesUp
    /\ UNCHANGED <<senderVars, stream, link>>

Reads == ReadHeader \/ ReadBody \/ ReadEnd

Next ==
    \/ \E s \in Senders, p \in Packets : SendBegins(s, p)
    \/ \E s \in Senders : SendContinues(s) \/ SendInterrupted(s) \/ SendFails(s)
    \/ SendKills \/ SenderCloses \/ ReaderEnds \/ Reads

Spec == Init /\ [][Next]_vars

(* The reader's thread runs, and so does a thread whose send() has room.   *)
Fairness ==
    /\ WF_vars(Reads)
    /\ \A s \in Senders : WF_vars(SendContinues(s) \/ SendFails(s))

FairSpec == Spec /\ Fairness

-----------------------------------------------------------------------------
TypeOK ==
    /\ call \in [Senders -> [packet : 0 .. Len(sent), taken : Nat]]
    /\ sent \in Seq(Packets)
    /\ torn \in BOOLEAN
    /\ stream \in Seq((1 .. Len(sent)) \X (Nat \ {0}))
    /\ Len(stream) <= Window
    /\ link \in {"up", "fin", "reset", "killed"}
    /\ reader \in {"header", "body", "gone", "ended"}
    /\ header \in Seq((1 .. Len(sent)) \X (Nat \ {0}))
    /\ due \in Nat
    /\ reader \in {"header", "gone"} => header = <<>> /\ due = 0
    /\ delivered \in Seq(0 .. Len(sent))

(* Unless a packet was torn by its senders, the callback gets what was     *)
(* sent, in that order and nothing else, however TCP cuts the stream: a    *)
(* server that has to give up midway delivers no more.                     *)
InStep == torn \/ \A k \in 1 .. Len(delivered) : delivered[k] = k

DeliveredPackets ==
    [k \in 1 .. Len(delivered) |->
       IF delivered[k] = 0 THEN "garbage" ELSE sent[delivered[k]]]

(* A connection is a Channel.                                              *)
C == INSTANCE Channel WITH delivered <- DeliveredPackets

ChannelSpec == C!Spec

(* A call of send() comes to an end, although it waits for room, if the    *)
(* reader keeps reading; the server stops when it disconnects the client,  *)
(* without closing its end.                                                *)
SendsReturn ==
    \A s \in Senders : Midway(s) ~> (~Midway(s) \/ reader = "gone")

(* What went into the stream is delivered, unless something was torn, the  *)
(* server gave up, or a process ended.                                     *)
EverySentIsDelivered ==
    \A n \in 1 .. MaxSent :
      (Len(sent) >= n)
        ~> (Len(delivered) >= n \/ torn \/ reader \in {"gone", "ended"})
=============================================================================
