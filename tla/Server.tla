------------------------------- MODULE Server -------------------------------
(***************************************************************************)
(* A glnet server: the threads of one Manager (src/Manager.cpp) that was   *)
(* initialised as SERVER, with its Tcp and Udp instances, and the state    *)
(* they share without any lock.                                            *)
(*                                                                         *)
(*   "app"   the thread that owns the Manager: it initialises it, creates  *)
(*           the connections, sets the callbacks and destroys it           *)
(*   "main"  Manager::run, which turns queued disconnections into          *)
(*           onDisconnection calls and forgets the clients                 *)
(*   "tcp"   Tcp::run, which accepts, reads and disconnects                *)
(*   "udp"   Udp::run, which delivers datagrams of known endpoints         *)
(*                                                                         *)
(* A step is atomic when it touches the shared state once; what one thread *)
(* read before another one's step may be stale when it is used.            *)
(*                                                                         *)
(* A definition whose name ends in _Slip is not part of the model: it is   *)
(* the definition below it with a mistake, the properties must notice.     *)
(***************************************************************************)
EXTENDS TcpNetwork

CONSTANTS
    Endpoints,        \* peers' addresses
    EndpointOf,       \* EndpointOf[c]: the source address of connection c
    FdLimit,          \* descriptors the process has left for accept()
    IdModulus,        \* 2^16 in the code: ids pass through a queue<uint16_t>
    Throws,           \* user callbacks that may throw
    RacyContainers,   \* TRUE: a lookup may miss while another thread writes
    EarlyCallbacks,   \* callbacks the application sets before anything else
    AppCalls          \* what the application does besides

Absent == "absent"    \* what clients maps an id without an entry to

ASSUME ServerAssumption ==
    /\ Absent \notin Conns
    /\ EndpointOf \in [Conns -> Endpoints]
    /\ FdLimit \in Nat
    /\ IdModulus \in Nat \ {0}
    /\ Throws \subseteq {"onConnection", "onDisconnection"}
    /\ RacyContainers \in BOOLEAN
    /\ EarlyCallbacks \subseteq {"onConnection", "onDisconnection", "onMessageReception"}
    /\ AppCalls \subseteq {"createUdp", "broadcast", "stop", "destroy"}

VARIABLES
    pc,                   \* pc[t]: what thread t does next
    running,              \* running[t]: the running_ flag t's loop tests
    pollFds,              \* Tcp::pollFds_ after the listener's entry
    revents,              \* revents[c]: what the last poll reported for c
    i,                    \* the index of Tcp::run's loop over pollFds
    tcpId,                \* the id getClientIdBy returned to the tcp thread
    clients,              \* Manager::server_.clients, Absent for no entry
    nextClientId,         \* Manager::server_.nextClientId
    disconnectionQueue,   \* Manager::disconnectionQueue_
    udpId,                \* the id Udp::readFromSocket has looked up
    openFds,              \* accepted descriptors, none of which is ever closed
    callbacksSet,         \* the callbacks the application has set so far
    phase,                \* how far the session of an id has come
    cb                    \* the callback invoked last

tcpVars == <<pollFds, revents, i, tcpId, openFds>>
registryVars == <<clients, nextClientId, disconnectionQueue>>
observed == <<phase, cb>>
appVars == <<running, callbacksSet>>
sharedVars == <<registryVars, observed, appVars, udpId>>
vars == <<netVars, tcpVars, sharedVars, pc>>

(* At most FdLimit connections are ever accepted, and each gets one id.    *)
S == INSTANCE Sessions WITH MaxSessions <- FdLimit
Ids == S!Ids

Threads == {"app", "main", "tcp", "udp"}

AppLabels == {"initialize", "createTcp", "createUdp", "up", "stopTcp",
              "joinTcp", "joinUdp", "joinMain", "down", "dead"}

MainLabels == {"off", "outer", "inner", "onDisconnection", "erase", "pop",
               "done", "quit", "dead"}

TcpLabels == {"off", "poll", "accept", "register", "onConnection", "scan",
              "header", "body", "deliver", "find", "onMessage", "disconnect",
              "identify", "push", "unpoll", "done", "dead"}

UdpLabels == {"off", "recv", "find", "deliver", "done", "dead"}

PcTypeOK ==
    /\ pc \in [Threads -> AppLabels \cup MainLabels \cup TcpLabels \cup UdpLabels]
    /\ pc["app"] \in AppLabels
    /\ pc["main"] \in MainLabels
    /\ pc["tcp"] \in TcpLabels
    /\ pc["udp"] \in UdpLabels

TcpTypeOK ==
    /\ pollFds \in Seq(Conns)
    /\ revents \in [Conns -> SUBSET {"IN", "HUP"}]
    /\ i \in Nat \ {0}
    /\ tcpId \in Ids \cup {0}
    /\ openFds \in 0 .. FdLimit

RegistryTypeOK ==
    /\ clients \in [Ids -> Conns \cup {Absent}]
    /\ nextClientId \in 0 .. FdLimit
    /\ disconnectionQueue \in Seq(Ids)

ObservedTypeOK ==
    /\ phase \in [Ids -> S!Phases]
    /\ cb \in S!Callbacks

AppTypeOK ==
    /\ running \in [Threads \ {"app"} -> BOOLEAN]
    /\ callbacksSet \subseteq S!UserCallbacks

TypeOK ==
    /\ NetTypeOK
    /\ PcTypeOK
    /\ TcpTypeOK
    /\ RegistryTypeOK
    /\ ObservedTypeOK
    /\ AppTypeOK
    /\ udpId \in Ids \cup {0}

-----------------------------------------------------------------------------
(* Threads.                                                                *)

At(t, label) == pc[t] = label

Goto(t, label) == pc' = [pc EXCEPT ![t] = label]

Step(t, from, to) == At(t, from) /\ Goto(t, to)

(* std::terminate: an exception leaves a thread function.                  *)
Terminate == pc' = [t \in Threads |-> "dead"]

-----------------------------------------------------------------------------
(* The client map.                                                         *)

Registered(c) == \E id \in Ids : clients[id] = c

IdOf(c) == CHOOSE id \in Ids : clients[id] = c

(* When thread t is in code of the application.                            *)
InApplication(t) ==
    \/ t = "app" /\ At("app", "up")
    \/ /\ t = "main" /\ At("main", "onDisconnection")
       /\ "onDisconnection" \in callbacksSet
    \/ /\ t = "tcp" /\ At("tcp", "onConnection")
       /\ "onConnection" \in callbacksSet
    \/ /\ t = "tcp" /\ At("tcp", "onMessage")
       /\ "onMessageReception" \in callbacksSet
    \/ /\ t = "udp" /\ At("udp", "deliver")
       /\ "onMessageReception" \in callbacksSet

(* The unordered_map is shared without a lock.  While one thread is inside *)
(* an insertion or an erasure, another one's lookup may miss an entry; so  *)
(* it may while application code that broadcasts runs, for sendToClients   *)
(* may insert too.                                                         *)
Mutating(t) == \/ t = "tcp" /\ At("tcp", "register")
               \/ t = "main" /\ At("main", "erase")

MayMiss(t) ==
    /\ RacyContainers
    /\ \E u \in Threads \ {t} :
         Mutating(u) \/ ("broadcast" \in AppCalls /\ InApplication(u))

Misses(t, c) == ~Registered(c) \/ MayMiss(t)

-----------------------------------------------------------------------------
(* User callbacks: one that the application has not set is passed over.    *)

Notify(kind, id, newPhase) ==
    /\ cb' = IF S!UserCallback[kind] \in callbacksSet
                THEN [kind |-> kind, id |-> id]
                ELSE cb
    /\ phase' = [phase EXCEPT ![id] = newPhase]

MayThrow(callback) == callback \in callbacksSet \cap Throws

-----------------------------------------------------------------------------
(* Tcp::run on its own thread.                                             *)

Reported == [c \in Conns |-> IF c \in Range(pollFds) THEN PollEvents(c) ELSE {}]

ListenerReady_Slip == backlog # <<>> /\ pollFds # <<>>

ListenerReady == backlog # <<>>

(* poll() on the listener and on the clients; with nothing to report the   *)
(* loop goes round.                                                        *)
TcpPoll ==
    /\ At("tcp", "poll")
    /\ running["tcp"]
    /\ ListenerReady \/ \E c \in Conns : Reported[c] # {}
    /\ revents' = Reported
    /\ Goto("tcp", IF ListenerReady THEN "accept" ELSE "scan")
    /\ UNCHANGED <<netVars, sharedVars, pollFds, i, tcpId, openFds>>

(* The loop ends when stop() has cleared running_.                         *)
TcpExit ==
    /\ Step("tcp", "poll", "done")
    /\ ~running["tcp"]
    /\ UNCHANGED <<netVars, tcpVars, sharedVars>>

(* accept() takes the oldest connection of the backlog and its descriptor  *)
(* joins pollFds_; out of descriptors it throws, and acceptSocket returns. *)
TcpAccept ==
    /\ openFds < FdLimit
    /\ Step("tcp", "accept", "register")
    /\ pollFds' = Append(pollFds, Head(backlog))
    /\ backlog' = Tail(backlog)
    /\ openFds' = openFds + 1
    /\ UNCHANGED <<link, rx, due, unsent, revents, i, tcpId, sharedVars>>

TcpAcceptFails ==
    /\ openFds = FdLimit
    /\ Step("tcp", "accept", "scan")
    /\ UNCHANGED <<netVars, tcpVars, sharedVars>>

(* callbackHandler(ON_CONNECTION): the entry is made first, ...            *)
TcpRegister ==
    /\ Step("tcp", "register", "onConnection")
    /\ clients' = [clients EXCEPT ![nextClientId] = Last(pollFds)]
    /\ UNCHANGED <<netVars, tcpVars, observed, appVars, udpId, nextClientId,
                   disconnectionQueue>>

TcpOnConnection_Slip ==
    /\ Step("tcp", "onConnection", "scan")
    /\ Notify("connection", nextClientId + 1, "open")
    /\ nextClientId' = nextClientId + 1
    /\ UNCHANGED <<netVars, tcpVars, appVars, udpId, clients,
                   disconnectionQueue>>

(* ... then the callback runs, and only then the id is used up.            *)
TcpOnConnection ==
    /\ Step("tcp", "onConnection", "scan")
    /\ Notify("connection", nextClientId, "open")
    /\ nextClientId' = nextClientId + 1
    /\ UNCHANGED <<netVars, tcpVars, appVars, udpId, clients,
                   disconnectionQueue>>

(* An exception of the callback is caught in acceptSocket.                 *)
TcpOnConnectionThrows ==
    /\ MayThrow("onConnection")
    /\ Step("tcp", "onConnection", "scan")
    /\ Notify("connection", nextClientId, "open")
    /\ UNCHANGED <<netVars, tcpVars, registryVars, appVars, udpId>>

Polled == pollFds[i]

(* pollFds_.erase(begin() + id): the entry at that index and no other.     *)
WithoutEntry_KeptSlip(k) == pollFds

WithoutEntry_IndexSlip(k) == RemoveAt(pollFds, IF k = 1 THEN 1 ELSE k - 1)

WithoutEntry(k) == RemoveAt(pollFds, k)

(* The index is decremented after an erasure and incremented by the loop.  *)
IndexAfterErase_Slip == i - 1

IndexAfterErase == i

(* The loop passes over the entries with nothing reported; past the last   *)
(* one, what poll reported is not read again.                              *)
Pending(k) == k \in i .. Len(pollFds) /\ revents[pollFds[k]] # {}

NextPending(k) == Pending(k) /\ \A j \in 1 .. k - 1 : ~Pending(j)

TcpScanEnds ==
    /\ Step("tcp", "scan", "poll")
    /\ \A k \in 1 .. Len(pollFds) : ~Pending(k)
    /\ revents' = [c \in Conns |-> {}]
    /\ i' = 1
    /\ UNCHANGED <<netVars, sharedVars, pollFds, tcpId, openFds>>

(* A hang-up disconnects at once; data must first find its client, and a   *)
(* failed getClientSocketBy throws through run(), which ends the thread.   *)
TcpScanFinds(k) ==
    /\ At("tcp", "scan")
    /\ NextPending(k)
    /\ i' = k
    /\ \/ "HUP" \in revents[pollFds[k]] /\ Goto("tcp", "disconnect")
       \/ /\ revents[pollFds[k]] = {"IN"}
          /\ \/ Registered(pollFds[k]) /\ Goto("tcp", "header")
             \/ Misses("tcp", pollFds[k]) /\ Goto("tcp", "dead")
    /\ UNCHANGED <<netVars, sharedVars, pollFds, revents, tcpId, openFds>>

(* readFromSocket: stop() makes it return false at once; otherwise         *)
(* readHeader takes a whole header, or what there is of one.               *)
TcpReadHeader ==
    /\ At("tcp", "header")
    /\ running["tcp"]
    /\ \/ RecvPiece(Polled, "header") /\ Goto("tcp", "body")
       \/ RecvPiece(Polled, "empty") /\ Goto("tcp", "deliver")
       \/ RecvPiece(Polled, "part") /\ Goto("tcp", "disconnect")
       \/ RecvEnd(Polled) /\ Goto("tcp", "disconnect")
    /\ UNCHANGED <<tcpVars, sharedVars>>

TcpReadStopped ==
    /\ ~running["tcp"]
    /\ Step("tcp", "header", "disconnect")
    /\ UNCHANGED <<netVars, tcpVars, sharedVars>>

(* readBody blocks until some of the body, FIN or RST has arrived.         *)
TcpReadBody ==
    /\ At("tcp", "body")
    /\ \/ RecvPiece(Polled, "body") /\ Goto("tcp", "deliver")
       \/ RecvPiece(Polled, "part") /\ Goto("tcp", "disconnect")
       \/ RecvEnd(Polled) /\ Goto("tcp", "disconnect")
    /\ UNCHANGED <<tcpVars, sharedVars>>

(* recv() throws; readFromSocket catches it and returns true.              *)
TcpReadFails ==
    /\ (At("tcp", "header") /\ running["tcp"]) \/ At("tcp", "body")
    /\ RecvError(Polled)
    /\ Goto("tcp", "scan")
    /\ i' = i + 1
    /\ UNCHANGED <<pollFds, revents, tcpId, openFds, sharedVars>>

(* getClientIdBy looks the packet's client up, ...                         *)
TcpDeliver ==
    /\ Step("tcp", "deliver", "find")
    /\ Registered(Polled)
    /\ tcpId' = IdOf(Polled)
    /\ UNCHANGED <<netVars, pollFds, revents, i, openFds, sharedVars>>

(* ... callbackHandler(ON_MESSAGE_RECEPTION) looks it up again by its id,  *)
TcpFindsClient ==
    /\ Step("tcp", "find", "onMessage")
    /\ clients[tcpId] # Absent
    /\ UNCHANGED <<netVars, tcpVars, sharedVars>>

(* and the callback runs.  Whether it throws or not, readFromSocket        *)
(* returns true.                                                           *)
TcpOnMessage ==
    /\ Step("tcp", "onMessage", "scan")
    /\ Notify("tcpMessage", tcpId, phase[tcpId])
    /\ i' = i + 1
    /\ tcpId' = 0
    /\ UNCHANGED <<netVars, pollFds, revents, openFds, registryVars, appVars,
                   udpId>>

(* An entry not found, by either lookup, drops the packet.                 *)
TcpDrops ==
    /\ \/ Step("tcp", "deliver", "scan") /\ Misses("tcp", Polled)
       \/ /\ Step("tcp", "find", "scan")
          /\ clients[tcpId] = Absent \/ MayMiss("tcp")
    /\ i' = i + 1
    /\ tcpId' = 0
    /\ UNCHANGED <<netVars, pollFds, revents, openFds, sharedVars>>

(* disconnectSocket: getClientSocketBy, then getClientIdBy, ...            *)
TcpDisconnect ==
    /\ Step("tcp", "disconnect", "identify")
    /\ Registered(Polled)
    /\ UNCHANGED <<netVars, tcpVars, sharedVars>>

TcpIdentify ==
    /\ Step("tcp", "identify", "push")
    /\ Registered(Polled)
    /\ tcpId' = IdOf(Polled)
    /\ UNCHANGED <<netVars, pollFds, revents, i, openFds, sharedVars>>

(* A failed lookup is caught in disconnectSocket: the entry stays, and the *)
(* loop meets it again.                                                    *)
TcpDisconnectFails ==
    /\ Step("tcp", "disconnect", "scan") \/ Step("tcp", "identify", "scan")
    /\ Misses("tcp", Polled)
    /\ UNCHANGED <<netVars, tcpVars, sharedVars>>

TcpPush_Slip ==
    /\ Step("tcp", "push", "unpoll")
    /\ tcpId' = 0
    /\ UNCHANGED <<netVars, pollFds, revents, i, openFds, sharedVars>>

(* ... the id is queued, cut to 16 bits, ...                               *)
TcpPush ==
    /\ Step("tcp", "push", "unpoll")
    /\ disconnectionQueue' = Append(disconnectionQueue, tcpId % IdModulus)
    /\ tcpId' = 0
    /\ UNCHANGED <<netVars, pollFds, revents, i, openFds, clients, nextClientId,
                   observed, appVars, udpId>>

(* ... and only then the pollFds_ entry goes; the main thread may have     *)
(* seen the client off by now.  The loop goes on at the same index, where  *)
(* the next entry is.                                                      *)
TcpUnpoll ==
    /\ Step("tcp", "unpoll", "scan")
    /\ pollFds' = WithoutEntry(i)
    /\ i' = IndexAfterErase
    /\ UNCHANGED <<netVars, revents, tcpId, openFds, sharedVars>>

TcpNext ==
    \/ TcpPoll \/ TcpExit \/ TcpAccept \/ TcpAcceptFails
    \/ TcpRegister \/ TcpOnConnection \/ TcpOnConnectionThrows
    \/ TcpScanEnds \/ \E k \in 1 .. Len(pollFds) : TcpScanFinds(k)
    \/ TcpReadHeader \/ TcpReadStopped \/ TcpReadBody \/ TcpReadFails
    \/ TcpDeliver \/ TcpFindsClient \/ TcpOnMessage \/ TcpDrops
    \/ TcpDisconnect \/ TcpIdentify \/ TcpDisconnectFails
    \/ TcpPush \/ TcpUnpoll

-----------------------------------------------------------------------------
(* Manager::run on the main thread.                                        *)

MainOuter ==
    /\ At("main", "outer")
    /\ Goto("main", IF running["main"] THEN "inner" ELSE "done")
    /\ UNCHANGED <<netVars, tcpVars, sharedVars>>

MainQueueEmpty ==
    /\ disconnectionQueue = <<>>
    /\ Step("main", "inner", "outer")
    /\ UNCHANGED <<netVars, tcpVars, sharedVars>>

Leaving == Head(disconnectionQueue)

MainFindsClient ==
    /\ disconnectionQueue # <<>>
    /\ clients[Leaving] # Absent
    /\ Step("main", "inner", "onDisconnection")
    /\ UNCHANGED <<netVars, tcpVars, sharedVars>>

(* An id without an entry makes run() return: the thread is over.          *)
MainQuits ==
    /\ disconnectionQueue # <<>>
    /\ clients[Leaving] = Absent \/ MayMiss("main")
    /\ Step("main", "inner", "quit")
    /\ UNCHANGED <<netVars, tcpVars, sharedVars>>

MainOnDisconnection ==
    /\ Step("main", "onDisconnection", "erase")
    /\ Notify("disconnection", Leaving, "closed")
    /\ UNCHANGED <<netVars, tcpVars, registryVars, appVars, udpId>>

(* Nothing catches an exception of this callback.                          *)
MainOnDisconnectionThrows ==
    /\ MayThrow("onDisconnection")
    /\ At("main", "onDisconnection")
    /\ Notify("disconnection", Leaving, "closed")
    /\ Terminate
    /\ UNCHANGED <<netVars, tcpVars, registryVars, appVars, udpId>>

(* erase(id): until the pop, the queue's head has no entry.                *)
MainErase ==
    /\ Step("main", "erase", "pop")
    /\ clients' = [clients EXCEPT ![Leaving] = Absent]
    /\ UNCHANGED <<netVars, tcpVars, nextClientId, disconnectionQueue,
                   observed, appVars, udpId>>

MainPop_Slip ==
    /\ Step("main", "pop", "inner")
    /\ UNCHANGED <<netVars, tcpVars, sharedVars>>

(* pop(): this thread is the only one that takes ids out of the queue.     *)
MainPop ==
    /\ Step("main", "pop", "inner")
    /\ disconnectionQueue' = Tail(disconnectionQueue)
    /\ UNCHANGED <<netVars, tcpVars, clients, nextClientId, observed, appVars,
                   udpId>>

MainNext ==
    \/ MainOuter \/ MainQueueEmpty \/ MainFindsClient \/ MainQuits
    \/ MainOnDisconnection \/ MainOnDisconnectionThrows \/ MainErase \/ MainPop

-----------------------------------------------------------------------------
(* Udp::run on its own thread.  A datagram may come from any endpoint at   *)
(* any time.  Too short a one, or one of an endpoint getClientIdBy does    *)
(* not find, changes nothing.                                              *)

UdpReceive(endpoint) ==
    /\ running["udp"]
    /\ Step("udp", "recv", "find")
    /\ \E id \in Ids :
         /\ clients[id] \in Conns
         /\ EndpointOf[clients[id]] = endpoint
         /\ udpId' = id
    /\ UNCHANGED <<netVars, tcpVars, registryVars, observed, appVars>>

(* callbackHandler(ON_MESSAGE_RECEPTION) looks the id up again.            *)
UdpFindsClient ==
    /\ Step("udp", "find", "deliver")
    /\ clients[udpId] # Absent
    /\ UNCHANGED <<netVars, tcpVars, sharedVars>>

UdpDrops ==
    /\ Step("udp", "find", "recv")
    /\ clients[udpId] = Absent \/ MayMiss("udp")
    /\ udpId' = 0
    /\ UNCHANGED <<netVars, tcpVars, registryVars, observed, appVars>>

(* An exception of the callback is caught in readFromSocket.               *)
UdpDeliver ==
    /\ Step("udp", "deliver", "recv")
    /\ Notify("udpMessage", udpId, phase[udpId])
    /\ udpId' = 0
    /\ UNCHANGED <<netVars, tcpVars, registryVars, appVars>>

UdpExit ==
    /\ ~running["udp"]
    /\ Step("udp", "recv", "done")
    /\ UNCHANGED <<netVars, tcpVars, sharedVars>>

UdpNext ==
    \/ \E endpoint \in Endpoints : UdpReceive(endpoint)
    \/ UdpFindsClient \/ UdpDrops \/ UdpDeliver \/ UdpExit

-----------------------------------------------------------------------------
(* The application: example/server/server.cpp in outline.                  *)

(* initialize(SERVER) starts the main thread.                              *)
AppInitialize ==
    /\ At("app", "initialize")
    /\ pc' = [pc EXCEPT !["app"] = "createTcp", !["main"] = "outer"]
    /\ UNCHANGED <<netVars, tcpVars, sharedVars>>

(* createConnection for TCP, and then for UDP if the application wants it: *)
(* each binds (TCP also listens) and starts the thread of the protocol.    *)
AppCreateTcp ==
    /\ At("app", "createTcp")
    /\ pc' = [pc EXCEPT !["app"] = IF "createUdp" \in AppCalls
                                    THEN "createUdp" ELSE "up",
                        !["tcp"] = "poll"]
    /\ UNCHANGED <<netVars, tcpVars, sharedVars>>

AppCreateUdp ==
    /\ At("app", "createUdp")
    /\ pc' = [pc EXCEPT !["app"] = "up", !["udp"] = "recv"]
    /\ UNCHANGED <<netVars, tcpVars, sharedVars>>

(* The other callbacks are set one by one, before the threads run or, as   *)
(* the example does, after.                                                *)
AppSetCallback ==
    /\ pc["app"] \in {"initialize", "createTcp", "createUdp", "up"}
    /\ \E callback \in S!UserCallbacks \ callbacksSet :
         callbacksSet' = callbacksSet \cup {callback}
    /\ UNCHANGED <<netVars, tcpVars, registryVars, observed, pc, running,
                   udpId>>

(* Manager::stop ends the main thread only.                                *)
AppStop ==
    /\ "stop" \in AppCalls
    /\ At("app", "up")
    /\ running["main"]
    /\ running' = [running EXCEPT !["main"] = FALSE]
    /\ UNCHANGED <<netVars, tcpVars, registryVars, observed, pc, udpId,
                   callbacksSet>>

(* ~Manager: running_ = false, tcp_->stop(), join, udp_->stop(), join, and *)
(* join of the main thread.                                                *)
AppClears(flag, from, to) ==
    /\ Step("app", from, to)
    /\ running' = [running EXCEPT ![flag] = FALSE]
    /\ UNCHANGED <<netVars, tcpVars, registryVars, observed, udpId,
                   callbacksSet>>

(* Threads::join returns when the thread has ended or was never started.   *)
Ended(t) == pc[t] \in {"off", "done", "quit", "dead"}

AppDestroy == "destroy" \in AppCalls /\ AppClears("main", "up", "stopTcp")

AppStopTcp_Slip == AppClears("main", "stopTcp", "joinTcp")

AppStopTcp == AppClears("tcp", "stopTcp", "joinTcp")

AppJoinTcp == Ended("tcp") /\ AppClears("udp", "joinTcp", "joinUdp")

AppJoinUdp_Slip ==
    /\ Step("app", "joinUdp", "joinMain")
    /\ UNCHANGED <<netVars, tcpVars, sharedVars>>

AppJoinUdp ==
    /\ Ended("udp")
    /\ Step("app", "joinUdp", "joinMain")
    /\ UNCHANGED <<netVars, tcpVars, sharedVars>>

AppJoinMain ==
    /\ Ended("main")
    /\ Step("app", "joinMain", "down")
    /\ UNCHANGED <<netVars, tcpVars, sharedVars>>

AppShutdown == AppStopTcp \/ AppJoinTcp \/ AppJoinUdp \/ AppJoinMain

AppNext ==
    \/ AppInitialize \/ AppCreateTcp \/ AppCreateUdp \/ AppSetCallback
    \/ AppStop \/ AppDestroy \/ AppShutdown

-----------------------------------------------------------------------------
(* The peers, while there is a server for them to talk to.  What happens   *)
(* on a connection the server has stopped polling is left out: it is never *)
(* read, and nothing depends on it.                                        *)

Over == pc["app"] \in {"down", "dead"}

Served(c) == c \in Range(backlog) \cup Range(pollFds)

PeerNext ==
    /\ ~Over
    /\ ~At("tcp", "off")
    /\ \E c \in Conns :
         \/ PeerConnect(c)
         \/ Served(c) /\ (\/ PieceArrives(c) \/ PartArrives(c) \/ PeerClose(c)
                          \/ PeerAbort(c) \/ PeerVanish(c))
    /\ UNCHANGED <<tcpVars, sharedVars, pc>>

(* Nothing is left to do: not a deadlock.                                  *)
Finished == Over /\ UNCHANGED vars

Init ==
    /\ NetInit
    /\ pc = [t \in Threads |-> IF t = "app" THEN "initialize" ELSE "off"]
    /\ running = [t \in Threads \ {"app"} |-> TRUE]
    /\ pollFds = <<>>
    /\ revents = [c \in Conns |-> {}]
    /\ i = 1
    /\ tcpId = 0
    /\ clients = [id \in Ids |-> Absent]
    /\ nextClientId = 0
    /\ disconnectionQueue = <<>>
    /\ udpId = 0
    /\ openFds = 0
    /\ callbacksSet = EarlyCallbacks
    /\ S!Init

Next ==
    \/ TcpNext \/ MainNext \/ UdpNext \/ AppNext \/ PeerNext \/ Finished

Spec == Init /\ [][Next]_vars

(* The system schedules every thread, the destructor runs on once begun,   *)
(* and TCP delivers the rest of a packet whose header has arrived.         *)
RestArrives(c) ==
    /\ ~Over
    /\ Served(c)
    /\ due[c] = "body"
    /\ PieceArrives(c)
    /\ UNCHANGED <<tcpVars, sharedVars, pc>>

Fairness ==
    /\ WF_vars(TcpNext)
    /\ WF_vars(MainNext)
    /\ WF_vars(UdpNext)
    /\ WF_vars(AppShutdown)
    /\ \A c \in Conns : WF_vars(RestArrives(c))

FairSpec == Spec /\ Fairness

-----------------------------------------------------------------------------
(* Safety.                                                                 *)

(* Tcp::run has queued c's id, and drops its descriptor next.              *)
Leaves(c) == At("tcp", "unpoll") /\ c = Polled

(* Every polled descriptor belongs to a client of the map, so that the     *)
(* lookups of Tcp::run, which would end the thread, cannot fail.  The one  *)
(* just accepted is entered next; the one just queued may be forgotten by  *)
(* Manager::run, but is not looked up again.                               *)
RegistryAgrees ==
    \A k \in 1 .. Len(pollFds) :
      \/ Registered(pollFds[k])
      \/ At("tcp", "register") /\ k = Len(pollFds)
      \/ Leaves(pollFds[k])

(* A queued id is that of a client that is polled no more, or not once the *)
(* tcp thread has made its next step: Manager::run finds it, and forgets   *)
(* nobody who is still being served.  Only an id it has just erased, and   *)
(* is about to pop, has no entry.                                          *)
QueueAgrees ==
    \A k \in 1 .. Len(disconnectionQueue) :
      LET c == clients[disconnectionQueue[k]]
      IN  /\ c # Absent \/ (At("main", "pop") /\ k = 1)
          /\ c \in Range(pollFds) => Leaves(c)

(* A client of the map is polled or on its way out: an entry that is       *)
(* neither would stay, and take part in every lookup, for good.            *)
NoOrphans ==
    \A id \in Ids :
      \/ clients[id] \in {Absent} \cup Range(pollFds)
      \/ id \in Range(disconnectionQueue)

(* Tcp::run and Manager::run end only because they were told to stop, ...  *)
ThreadsSurvive == ~At("tcp", "dead") /\ ~At("main", "quit")

(* ... or, where lookups can miss, in a lookup beside another thread's     *)
(* insertion or erasure, and in no other step.                             *)
OnlyRacesKill ==
    [][/\ ~At("tcp", "dead") /\ At("tcp", "dead")' => MayMiss("tcp")
       /\ ~At("main", "quit") /\ At("main", "quit")' => MayMiss("main")]_vars

(* onDisconnection(id) is called for a client the server reads no more:    *)
(* its descriptor is polled no longer, or Tcp::run has given it up and     *)
(* erases it next.                                                         *)
DisconnectionsAreReal ==
    [][cb' # cb /\ cb'.kind = "disconnection"
         => \/ clients[cb'.id] \notin Range(pollFds)
            \/ Leaves(clients[cb'.id])]_vars

(* Neither onDisconnection nor a TCP packet carries an id for which        *)
(* onConnection has not been invoked.                                      *)
OnlyAnnounced ==
    [][cb' # cb /\ cb'.kind \in {"tcpMessage", "disconnection"}
         => S!Announced(cb'.id)]_vars

(* Once ~Manager has returned, no thread of it calls back.                 *)
SilentWhenDestroyed == [][At("app", "down") => cb' = cb]_vars

(* The callbacks see sessions as module Sessions promises them.            *)
SessionsSpec == S!Spec

-----------------------------------------------------------------------------
(* Liveness, under FairSpec.                                               *)

(* A client whose end is closed or reset leaves the map, unless the        *)
(* Manager is stopped first.                                               *)
DeadClientsLeave ==
    \A c \in Conns :
      (Registered(c) /\ link[c] \in {"fin", "rst"})
        ~> (~Registered(c) \/ ~running["main"])

(* A pending connection becomes a client, unless descriptors have run out  *)
(* or the Tcp instance is stopped.                                         *)
BacklogDrains ==
    \A c \in Conns :
      (c \in Range(backlog))
        ~> (Registered(c) \/ openFds = FdLimit \/ ~running["tcp"])

(* ~Manager comes to an end: every thread it joins ends.                   *)
ShutdownCompletes == At("app", "joinTcp") ~> Over
=============================================================================
