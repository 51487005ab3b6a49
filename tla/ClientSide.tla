----------------------------- MODULE ClientSide -----------------------------
(***************************************************************************)
(* Processes on one host that use glnet as clients of one server: for each *)
(* of them the application's thread, with the Manager it calls, and        *)
(* Tcp::run on a thread of its own.                                        *)
(*                                                                         *)
(* A client picks a port for both of its sockets, because the server knows *)
(* the sender of a datagram by the endpoint of its TCP connection.  The    *)
(* port is found by binding a socket to port 0 and closing it again, and   *)
(* bound by Tcp and Udp later, with SO_REUSEADDR and SO_REUSEPORT.         *)
(*                                                                         *)
(* Manager::run of a client finds its queue empty forever and is left out; *)
(* so is the udp thread, which reads from its own socket only.  A name     *)
(* that ends in _Slip is a mistake the properties must notice.             *)
(***************************************************************************)
EXTENDS Naturals

CONSTANTS
    Clients,       \* processes
    Ports,         \* ports the kernel gives out for port 0
    MaxCalls,      \* bound: calls of connectToServer, for each client
    MaxMessages,   \* bound: packets the server sends to a client
    OneAtATime,    \* TRUE: a client starts when the others have their ports
    Sends          \* TRUE: the application calls sendToServer(TCP)

NoPort == "noport"

ASSUME ClientAssumption ==
    /\ NoPort \notin Ports
    /\ MaxCalls \in [Clients -> Nat]
    /\ MaxMessages \in Nat
    /\ OneAtATime \in BOOLEAN
    /\ Sends \in BOOLEAN

VARIABLES
    pc,             \* pc[c]: what c's application thread does next
    tcp,            \* tcp[c]: c's tcp thread
    running,        \* Tcp::running_
    joinable,       \* tcpThread_ has been started and not joined
    probe,          \* the port getAvailablePort's socket is bound to
    clientPort,     \* Manager::client_.clientPort
    tcpPort,        \* the port Tcp::socket_ is bound to
    udpPort,        \* the port Udp::socket_ is bound to
    link,           \* Tcp::socket_'s connection
    inbox,          \* packets of which bytes are to be read
    unsent,         \* packets the server may still send
    entry,          \* c's entry in the server's map of clients
    calls,          \* calls of connectToServer so far
    clientSocket,   \* Manager::client_.socket is set
    announced,      \* history: onConnection(0) has been called
    delivered,      \* history: onMessageReception has been called
    outOfStep,      \* history: bytes of a packet were read and thrown away
    closes          \* history: how often close() was called for the socket

portVars == <<probe, clientPort, tcpPort, udpPort>>
linkVars == <<link, inbox, unsent, entry>>
threadVars == <<tcp, running, joinable>>
toldVars == <<clientSocket, announced, delivered, outOfStep>>
vars == <<pc, threadVars, portVars, linkVars, calls, toldVars, closes>>

Labels == {"off", "probing", "createTcp", "createUdp", "up", "register",
           "announce", "startThread", "joinTcp", "closeTcp", "closeCopy",
           "gone", "dead"}

Init ==
    /\ pc = [c \in Clients |-> "off"]
    /\ tcp = [c \in Clients |-> "off"]
    /\ running = [c \in Clients |-> TRUE]
    /\ joinable = [c \in Clients |-> FALSE]
    /\ probe = [c \in Clients |-> NoPort]
    /\ clientPort = [c \in Clients |-> NoPort]
    /\ tcpPort = [c \in Clients |-> NoPort]
    /\ udpPort = [c \in Clients |-> NoPort]
    /\ link = [c \in Clients |-> "none"]
    /\ inbox = [c \in Clients |-> 0]
    /\ unsent = [c \in Clients |-> MaxMessages]
    /\ entry = [c \in Clients |-> "none"]
    /\ calls = [c \in Clients |-> 0]
    /\ clientSocket = [c \in Clients |-> FALSE]
    /\ announced = [c \in Clients |-> FALSE]
    /\ delivered = [c \in Clients |-> FALSE]
    /\ outOfStep = [c \in Clients |-> FALSE]
    /\ closes = [c \in Clients |-> 0]

Step(c, from, to) == pc[c] = from /\ pc' = [pc EXCEPT ![c] = to]

Alive(c) == pc[c] \notin {"off", "gone", "dead"}

-----------------------------------------------------------------------------
(* The kernel.  bind(0) finds a port no socket is bound to; a socket that  *)
(* allows reuse shares its port with others that allow it, but not with    *)
(* one that does not.                                                      *)

Unbound(port) == \A c \in Clients : Alive(c) => port \notin {probe[c], tcpPort[c]}

Shareable(port) == \A c \in Clients : Alive(c) => probe[c] # port

(* A second connection from one port to the same server is refused.        *)
Taken(c) ==
    \E d \in Clients \ {c} : Alive(d) /\ link[d] # "none" /\ tcpPort[d] = tcpPort[c]

-----------------------------------------------------------------------------
(* initialize(CLIENT): getAvailablePort binds its socket, ...              *)
AppInitialize(c) ==
    /\ OneAtATime =>
         \A d \in Clients : pc[d] \notin {"probing", "createTcp", "createUdp"}
    /\ Step(c, "off", "probing")
    /\ \E port \in Ports :
         /\ Unbound(port)
         /\ probe' = [probe EXCEPT ![c] = port]
    /\ UNCHANGED <<threadVars, clientPort, tcpPort, udpPort, linkVars, calls,
                   toldVars, closes>>

AppGetsPort_Slip(c) ==
    /\ Step(c, "probing", "createTcp")
    /\ probe' = [probe EXCEPT ![c] = NoPort]
    /\ clientPort' = [clientPort EXCEPT ![c] = probe'[c]]
    /\ UNCHANGED <<threadVars, tcpPort, udpPort, linkVars, calls, toldVars,
                   closes>>

(* ... reads its port, and closes it on return.                            *)
AppGetsPort(c) ==
    /\ Step(c, "probing", "createTcp")
    /\ probe' = [probe EXCEPT ![c] = NoPort]
    /\ clientPort' = [clientPort EXCEPT ![c] = probe[c]]
    /\ UNCHANGED <<threadVars, tcpPort, udpPort, linkVars, calls, toldVars,
                   closes>>

AppCreatesTcp_Slip(c) ==
    /\ Shareable(clientPort[c])
    /\ Step(c, "createTcp", "createUdp")
    /\ tcpPort' = [tcpPort EXCEPT ![c] = clientPort[c]]
    /\ tcp' = [tcp EXCEPT ![c] = "poll"]
    /\ joinable' = [joinable EXCEPT ![c] = TRUE]
    /\ UNCHANGED <<running, probe, clientPort, udpPort, linkVars, calls,
                   toldVars, closes>>

(* createConnection(TCP): the socket is bound; only a server starts the    *)
(* thread here.                                                            *)
AppCreatesTcp(c) ==
    /\ Shareable(clientPort[c])
    /\ Step(c, "createTcp", "createUdp")
    /\ tcpPort' = [tcpPort EXCEPT ![c] = clientPort[c]]
    /\ UNCHANGED <<threadVars, probe, clientPort, udpPort, linkVars, calls,
                   toldVars, closes>>

(* bind() fails: the exception leaves createConnection, and main.          *)
AppCreateFails(c) ==
    /\ ~Shareable(clientPort[c])
    /\ Step(c, "createTcp", "dead")
    /\ UNCHANGED <<threadVars, portVars, linkVars, calls, toldVars, closes>>

AppCreatesUdp_Slip(c) ==
    /\ Step(c, "createUdp", "up")
    /\ \E port \in Ports : udpPort' = [udpPort EXCEPT ![c] = port]
    /\ UNCHANGED <<threadVars, probe, clientPort, tcpPort, linkVars, calls,
                   toldVars, closes>>

(* createConnection(UDP): the same port, in the ports of UDP.              *)
AppCreatesUdp(c) ==
    /\ Step(c, "createUdp", "up")
    /\ udpPort' = [udpPort EXCEPT ![c] = clientPort[c]]
    /\ UNCHANGED <<threadVars, probe, clientPort, tcpPort, linkVars, calls,
                   toldVars, closes>>

-----------------------------------------------------------------------------
(* connectToServer.                                                        *)

CallsConnect(c, to) ==
    /\ calls[c] < MaxCalls[c]
    /\ calls' = [calls EXCEPT ![c] = @ + 1]
    /\ Step(c, "up", to)

AppConnects_Slip(c) ==
    /\ CallsConnect(c, "startThread")
    /\ link[c] = "none"
    /\ ~Taken(c)
    /\ link' = [link EXCEPT ![c] = "up"]
    /\ UNCHANGED <<threadVars, portVars, inbox, unsent, entry, toldVars, closes>>

(* The handler for the connection runs in the caller's thread.             *)
AppConnects(c) ==
    /\ CallsConnect(c, "register")
    /\ link[c] = "none"
    /\ ~Taken(c)
    /\ link' = [link EXCEPT ![c] = "up"]
    /\ UNCHANGED <<threadVars, portVars, inbox, unsent, entry, toldVars, closes>>

(* The server is not there, the port is taken, or the socket is connected  *)
(* already: the exception is caught, and the caller goes on as if nothing  *)
(* had happened.                                                           *)
AppConnectFails(c) ==
    /\ CallsConnect(c, "startThread")
    /\ UNCHANGED <<threadVars, portVars, linkVars, toldVars, closes>>

AppRegisters_Slip(c) ==
    /\ Step(c, "register", "announce")
    /\ UNCHANGED <<threadVars, portVars, linkVars, calls, toldVars, closes>>

(* callbackHandler(ON_CONNECTION) stores a copy of the socket, which owns  *)
(* the descriptor as the original does, ...                                *)
AppRegisters(c) ==
    /\ Step(c, "register", "announce")
    /\ clientSocket' = [clientSocket EXCEPT ![c] = TRUE]
    /\ UNCHANGED <<threadVars, portVars, linkVars, calls, announced, delivered,
                   outOfStep, closes>>

(* ... and calls onConnection(0).                                          *)
AppAnnounces(c) ==
    /\ Step(c, "announce", "startThread")
    /\ announced' = [announced EXCEPT ![c] = TRUE]
    /\ UNCHANGED <<threadVars, portVars, linkVars, calls, clientSocket,
                   delivered, outOfStep, closes>>

AppStartsThread_Slip(c) ==
    /\ ~joinable[c]
    /\ Step(c, "startThread", "up")
    /\ UNCHANGED <<threadVars, portVars, linkVars, calls, toldVars, closes>>

(* tcpThread_ = std::thread(&Tcp::run, tcp_) ends the process when         *)
(* tcpThread_ holds a thread that was not joined.                          *)
AppStartsThread(c) ==
    /\ ~joinable[c]
    /\ Step(c, "startThread", "up")
    /\ tcp' = [tcp EXCEPT ![c] = "poll"]
    /\ joinable' = [joinable EXCEPT ![c] = TRUE]
    /\ UNCHANGED <<running, portVars, linkVars, calls, toldVars, closes>>

AppOverwritesThread(c) ==
    /\ joinable[c]
    /\ Step(c, "startThread", "dead")
    /\ UNCHANGED <<threadVars, portVars, linkVars, calls, toldVars, closes>>

-----------------------------------------------------------------------------
(* sendToServer(TCP), from the application's own thread or a callback.  It *)
(* ends the process when client_.socket is an empty pointer, which it      *)
(* dereferences, or, by SIGPIPE, when the server has closed.  Of one that  *)
(* returns there is nothing to see here.                                   *)
InApplication(c) ==
    \/ pc[c] \in {"up", "announce"}
    \/ Alive(c) /\ tcp[c] = "read"

SendKills(c) ==
    /\ Sends
    /\ InApplication(c)
    /\ ~clientSocket[c] \/ link[c] = "fin"
    /\ pc' = [pc EXCEPT ![c] = "dead"]
    /\ UNCHANGED <<threadVars, portVars, linkVars, calls, toldVars, closes>>

-----------------------------------------------------------------------------
(* ~Manager: stop and join; then the members go, tcp_ before client_.      *)

AppDestroys_Slip(c) ==
    /\ Step(c, "up", "joinTcp")
    /\ UNCHANGED <<threadVars, portVars, linkVars, calls, toldVars, closes>>

AppDestroys(c) ==
    /\ Step(c, "up", "joinTcp")
    /\ running' = [running EXCEPT ![c] = FALSE]
    /\ UNCHANGED <<tcp, joinable, portVars, linkVars, calls, toldVars, closes>>

AppJoins_Slip(c) ==
    /\ Step(c, "joinTcp", "closeTcp")
    /\ joinable' = [joinable EXCEPT ![c] = FALSE]
    /\ UNCHANGED <<tcp, running, portVars, linkVars, calls, toldVars, closes>>

AppJoins(c) ==
    /\ tcp[c] \in {"off", "done"}
    /\ Step(c, "joinTcp", "closeTcp")
    /\ joinable' = [joinable EXCEPT ![c] = FALSE]
    /\ UNCHANGED <<tcp, running, portVars, linkVars, calls, toldVars, closes>>

AppClosesTcp(c) ==
    /\ Step(c, "closeTcp", "closeCopy")
    /\ closes' = [closes EXCEPT ![c] = @ + 1]
    /\ UNCHANGED <<threadVars, portVars, linkVars, calls, toldVars>>

(* ~Socket of the copy closes the number again.                            *)
AppClosesCopy(c) ==
    /\ Step(c, "closeCopy", "gone")
    /\ closes' = [closes EXCEPT ![c] = IF clientSocket[c] THEN @ + 1 ELSE @]
    /\ UNCHANGED <<threadVars, portVars, linkVars, calls, toldVars>>

-----------------------------------------------------------------------------
(* Tcp::run of a client.                                                   *)

(* Before a connection, and once the server has closed it and all is read, *)
(* the loop goes round without effect, because what readFromSocket returns *)
(* is not looked at.                                                       *)
TcpIdles(c) ==
    /\ Alive(c)
    /\ tcp[c] = "poll"
    /\ running[c]
    /\ inbox[c] = 0
    /\ UNCHANGED vars

(* What one recv() leaves.  A packet read in step is off the inbox when it  *)
(* is whole; out of step any bytes may be taken for any packet.            *)
Leaves(c, wholeRead) ==
    \E n \in IF outOfStep'[c] THEN 0 .. inbox[c]
             ELSE IF wholeRead THEN {inbox[c] - 1} ELSE {inbox[c]} :
      inbox' = [inbox EXCEPT ![c] = n]

Reads(c, to, wholeRead) ==
    /\ tcp' = [tcp EXCEPT ![c] = to]
    /\ Leaves(c, wholeRead)
    /\ UNCHANGED <<pc, running, joinable, portVars, link, unsent, entry, calls,
                   clientSocket, announced, delivered, closes>>

(* readHeader and readBody get the whole packet.                           *)
ReadsWhole(c) == UNCHANGED outOfStep /\ Reads(c, "read", TRUE)

(* recv() returns a part of what was asked for: readFromSocket returns     *)
(* false, which nobody looks at, and what was read is lost.                *)
ReadsShort(c) ==
    /\ outOfStep' = [outOfStep EXCEPT ![c] = TRUE]
    /\ Reads(c, "poll", FALSE)

(* The header is there and the body is not, so that readBody will wait.    *)
ReadsHeader(c) == UNCHANGED outOfStep /\ Reads(c, "body", FALSE)

(* readFromSocket, for a socket that is readable.                          *)
TcpReads(c) ==
    /\ Alive(c)
    /\ tcp[c] = "poll"
    /\ running[c]
    /\ inbox[c] > 0
    /\ ReadsWhole(c) \/ ReadsShort(c) \/ ReadsHeader(c)

(* recv() in readBody returns with some of the body, or, when the server   *)
(* has closed and nothing is left, with nothing.                           *)
TcpReadsBody(c) ==
    /\ Alive(c)
    /\ tcp[c] = "body"
    /\ \/ inbox[c] > 0 /\ (ReadsWhole(c) \/ ReadsShort(c))
       \/ inbox[c] = 0 /\ link[c] = "fin" /\ ReadsShort(c)

(* onMessageReception, whatever has happened since running_ was tested.    *)
TcpDelivers(c) ==
    /\ Alive(c)
    /\ tcp[c] = "read"
    /\ tcp' = [tcp EXCEPT ![c] = "poll"]
    /\ delivered' = [delivered EXCEPT ![c] = TRUE]
    /\ UNCHANGED <<pc, running, joinable, portVars, linkVars, calls,
                   clientSocket, announced, outOfStep, closes>>

TcpExits(c) ==
    /\ Alive(c)
    /\ tcp[c] = "poll"
    /\ ~running[c]
    /\ tcp' = [tcp EXCEPT ![c] = "done"]
    /\ UNCHANGED <<pc, running, joinable, portVars, linkVars, calls, toldVars,
                   closes>>

-----------------------------------------------------------------------------
(* The server, as far as its clients see it.                               *)

(* Tcp::acceptSocket, and callbackHandler(ON_CONNECTION) of the server.    *)
ServerAccepts(c) ==
    /\ link[c] = "up"
    /\ entry[c] = "none"
    /\ entry' = [entry EXCEPT ![c] = "held"]
    /\ UNCHANGED <<pc, threadVars, portVars, link, inbox, unsent, calls,
                   toldVars, closes>>

(* Manager::run erases the entry of a client that was found to be gone, or *)
(* whose packet was read short, at any time later; it does not close.      *)
ServerForgets(c) ==
    /\ entry[c] = "held"
    /\ entry' = [entry EXCEPT ![c] = "erased"]
    /\ UNCHANGED <<pc, threadVars, portVars, link, inbox, unsent, calls,
                   toldVars, closes>>

(* sendToClients(TCP): the packet begins to arrive.                        *)
ServerSends(c) ==
    /\ link[c] = "up"
    /\ entry[c] = "held"
    /\ unsent[c] > 0
    /\ inbox' = [inbox EXCEPT ![c] = @ + 1]
    /\ unsent' = [unsent EXCEPT ![c] = @ - 1]
    /\ UNCHANGED <<pc, threadVars, portVars, link, entry, calls, toldVars,
                   closes>>

(* The process ends, and its kernel closes the connection.                 *)
ServerCloses(c) ==
    /\ link[c] = "up"
    /\ link' = [link EXCEPT ![c] = "fin"]
    /\ entry' = [entry EXCEPT ![c] = "erased"]
    /\ UNCHANGED <<pc, threadVars, portVars, inbox, unsent, calls, toldVars,
                   closes>>

-----------------------------------------------------------------------------

AppNext(c) ==
    \/ AppInitialize(c) \/ AppGetsPort(c) \/ AppCreatesTcp(c)
    \/ AppCreateFails(c) \/ AppCreatesUdp(c)
    \/ AppConnects(c) \/ AppConnectFails(c) \/ AppRegisters(c)
    \/ AppAnnounces(c) \/ AppStartsThread(c) \/ AppOverwritesThread(c)
    \/ AppDestroys(c) \/ AppJoins(c) \/ AppClosesTcp(c) \/ AppClosesCopy(c)

Finished == (\A c \in Clients : pc[c] \in {"gone", "dead"}) /\ UNCHANGED vars

Next ==
    \/ \E c \in Clients :
         \/ AppNext(c) \/ SendKills(c)
         \/ TcpIdles(c) \/ TcpReads(c) \/ TcpReadsBody(c)
         \/ TcpDelivers(c) \/ TcpExits(c)
         \/ Alive(c) /\ (ServerSends(c) \/ ServerCloses(c))
         \/ ServerAccepts(c) \/ ServerForgets(c)
    \/ Finished

Spec == Init /\ [][Next]_vars

(* The tcp thread runs, the body of a packet arrives when its header has,  *)
(* and connectToServer and ~Manager go on once begun.  Nothing is assumed  *)
(* about how a packet is cut, or about the body of a misread header.       *)
Fairness ==
    \A c \in Clients :
      /\ WF_vars(TcpReads(c) \/ TcpReadsBody(c) \/ TcpDelivers(c) \/ TcpExits(c))
      /\ WF_vars(\/ AppRegisters(c) \/ AppAnnounces(c) \/ AppStartsThread(c)
                 \/ AppJoins(c) \/ AppClosesTcp(c) \/ AppClosesCopy(c))

FairSpec == Spec /\ Fairness

-----------------------------------------------------------------------------
TypeOK ==
    /\ pc \in [Clients -> Labels]
    /\ tcp \in [Clients -> {"off", "poll", "body", "read", "done"}]
    /\ running \in [Clients -> BOOLEAN]
    /\ joinable \in [Clients -> BOOLEAN]
    /\ probe \in [Clients -> Ports \cup {NoPort}]
    /\ clientPort \in [Clients -> Ports \cup {NoPort}]
    /\ tcpPort \in [Clients -> Ports \cup {NoPort}]
    /\ udpPort \in [Clients -> Ports \cup {NoPort}]
    /\ \A c \in Clients :
         clientPort[c] = NoPort <=> pc[c] \in {"off", "probing"}
    /\ link \in [Clients -> {"none", "up", "fin"}]
    /\ inbox \in [Clients -> 0 .. MaxMessages]
    /\ unsent \in [Clients -> 0 .. MaxMessages]
    /\ entry \in [Clients -> {"none", "held", "erased"}]
    /\ calls \in [Clients -> Nat]
    /\ \A c \in Clients : calls[c] <= MaxCalls[c]
    /\ clientSocket \in [Clients -> BOOLEAN]
    /\ announced \in [Clients -> BOOLEAN]
    /\ delivered \in [Clients -> BOOLEAN]
    /\ outOfStep \in [Clients -> BOOLEAN]
    /\ closes \in [Clients -> 0 .. 2]

(* Whose entries getClientIdBy<Endpoint> may take for the one c's          *)
(* datagrams come from: also those of clients that are gone, whose port    *)
(* the kernel has given out again.                                         *)
Attributed(c) == {d \in Clients : entry[d] = "held" /\ tcpPort[d] = udpPort[c]}

(* The server can find the datagrams of a connected client to be that      *)
(* client's, and never takes them for those of another one that is there,  *)
(* although ports are chosen, released and shared behind its back.         *)
DatagramsReachNoOther ==
    \A c \in Clients :
      Alive(c) /\ link[c] = "up" =>
        /\ entry[c] = "held" => c \in Attributed(c)
        /\ \A d \in Attributed(c) \ {c} : ~Alive(d)

(* A client whose first connectToServer makes the connection gets no       *)
(* packet before it was told that it is connected.                         *)
ConnectionComesFirst ==
    \A c \in Clients : delivered[c] /\ calls[c] = 1 => announced[c]

(* When connectToServer has returned with a connection, the application    *)
(* was told so and a thread listens to the server.                         *)
ConnectedIsServed ==
    \A c \in Clients :
      pc[c] = "up" /\ link[c] # "none" => announced[c] /\ tcp[c] \in {"poll", "body", "read"}

(* Calling the library in its order never ends the process.                *)
Survives == \A c \in Clients : pc[c] # "dead"

(* Sending does not end the process of a client that was told, by its      *)
(* first connectToServer, that it is connected, while the server is there. *)
ConnectedSurvives ==
    \A c \in Clients :
      announced[c] /\ calls[c] = 1 /\ link[c] = "up" => pc[c] # "dead"

(* The connection's descriptor is not closed while a thread reads from it. *)
ClosedAfterUse ==
    \A c \in Clients : Alive(c) /\ closes[c] > 0 => tcp[c] \in {"off", "done"}

(* What the server has sent reaches onMessageReception, even when it came  *)
(* before there was a thread to read it, unless the client ends first or   *)
(* has read a packet short, after which it is out of step for good.        *)
SentIsDelivered ==
    \A c \in Clients :
      (inbox[c] > 0)
        ~> \/ inbox[c] = 0 /\ delivered[c]
           \/ outOfStep[c] \/ ~running[c] \/ ~Alive(c)

(* ~Manager of a client comes to an end, also after a connection that      *)
(* failed, or that the server has closed.  Only a body whose length was    *)
(* misread can hold it up.                                                 *)
ClientsEnd ==
    \A c \in Clients :
      (pc[c] = "joinTcp")
        ~> (pc[c] \in {"gone", "dead"} \/ (outOfStep[c] /\ tcp[c] = "body"))
=============================================================================
