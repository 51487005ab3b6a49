---------------------------- MODULE SessionProofs ----------------------------
(***************************************************************************)
(* Proofs about module Server: what its callbacks are told, and that its   *)
(* threads keep the promises of module Sessions.                           *)
(***************************************************************************)
EXTENDS ServerProofs

-----------------------------------------------------------------------------
(* Announcements: an id is announced before it is used up, an entry of the *)
(* map is announced unless its onConnection has still to run (or the       *)
(* process ended before), and only announced ids are in the tcp thread's   *)
(* hand or queued.  An application that has not set onConnection by then   *)
(* does not hear of it.                                                    *)

Unfinished(id) == pc["tcp"] \in {"onConnection", "dead"} /\ id = nextClientId

AnnouncedInv ==
    /\ \A id \in Ids : id < nextClientId => S!Announced(id)
    /\ \A id \in Ids :
         clients[id] # Absent
           => id <= nextClientId /\ (S!Announced(id) \/ Unfinished(id))
    /\ InHand => tcpId <= nextClientId /\ S!Announced(tcpId)
    /\ \A k \in 1 .. Len(disconnectionQueue) : S!Announced(disconnectionQueue[k])

(* ~Manager goes on past a join when the thread has ended.                 *)
Joined ==
    /\ pc["app"] \in {"joinUdp", "joinMain", "down"} => Ended("tcp")
    /\ pc["app"] \in {"joinMain", "down"} => Ended("udp")
    /\ At("app", "down") => Ended("main")

-----------------------------------------------------------------------------
(* No entry is left without a descriptor that is polled or a place in the  *)
(* queue: the client that Tcp::run drops is queued, if it is still in the  *)
(* map, and the head of the queue has no entry when it is popped.          *)
Queues(id) ==
    \E k \in 1 .. Len(disconnectionQueue) : disconnectionQueue[k] = id

Seen == \A id \in Ids : clients[id] = Absent \/ Polling(clients[id]) \/ Queues(id)

Dropped == At("tcp", "unpoll") => \A id \in Ids : clients[id] = Polled => Queues(id)

Erased == At("main", "pop") => clients[Leaving] = Absent

Accounted == Seen /\ Dropped /\ Erased

-----------------------------------------------------------------------------
(* Sessions, for callbacks that do not throw and ids that fit the queue.   *)

(* An id is not announced before its turn.                                 *)
Counted == \A id \in Ids : S!Announced(id) => id < nextClientId

(* An entry of the map is that of an open session, but for the one whose   *)
(* onConnection has still to run, and the one whose onDisconnection has.   *)
OpenEntries ==
    \A id \in Ids :
      \/ clients[id] = Absent
      \/ phase[id] = "open"
      \/ At("tcp", "onConnection") /\ id = nextClientId
      \/ At("main", "erase") /\ id = Leaving

(* What Udp has in its hand was given out before.                          *)
GivenOut == pc["udp"] \in {"find", "deliver"} => udpId <= nextClientId

SessionInv == AnnouncedInv /\ Counted /\ OpenEntries /\ GivenOut

-----------------------------------------------------------------------------
(* What the callbacks have been told of an id is never taken back.         *)

USE DEF InHand, Serving, At, Goto, Step, Threads, AppLabels, MainLabels,
        TcpLabels, UdpLabels,
        sharedVars, tcpVars, registryVars, observed, appVars, netVars

LEMMA NotifyAnnounces ==
    ASSUME ObservedTypeOK, NEW kind, NEW id \in Ids, NEW newPhase,
           newPhase # "new" \/ newPhase = phase[id],
           Notify(kind, id, newPhase)
    PROVE  /\ \A x \in Ids : S!Announced(x) => S!Announced(x)'
           /\ newPhase # "new" => S!Announced(id)'
  BY DEF Notify, ObservedTypeOK, S!Announced

(* A message is of an id, and leaves its session where it is.              *)
LEMMA NotifyMessage ==
    ASSUME ObservedTypeOK, NEW kind, NEW id \in Ids,
           Notify(kind, id, phase[id])
    PROVE  phase' = phase
  BY DEF Notify, ObservedTypeOK

(* Steps that leave the registry to itself, and the tcp thread's place or  *)
(* what is in its hand.                                                    *)
LEMMA AnnouncedFrame ==
    ASSUME TypeInv, AnnouncedInv,
           UNCHANGED registryVars,
           \A x \in Ids : S!Announced(x) => S!Announced(x)',
           InHand' => InHand /\ tcpId' = tcpId,
           pc["tcp"] \in {"onConnection", "dead"}
             => pc'["tcp"] \in {"onConnection", "dead"}
    PROVE  AnnouncedInv'
<1>1. \A id \in Ids : Unfinished(id) => Unfinished(id)'
  BY DEF Unfinished
<1>2. \A k \in 1 .. Len(disconnectionQueue) : disconnectionQueue[k] \in Ids
  BY DEF TypeInv, TypeOK, RegistryTypeOK
<1>3. InHand => tcpId \in Ids
  BY DEF TypeInv, Positions
<1>. QED  BY <1>1, <1>2, <1>3 DEF AnnouncedInv

LEMMA AnnouncedInit == Init => AnnouncedInv
<1>. SUFFICES ASSUME Init PROVE AnnouncedInv
  OBVIOUS
<1>1. /\ ~InHand /\ nextClientId = 0 /\ Len(disconnectionQueue) = 0
      /\ \A id \in Ids : clients[id] = Absent
  BY DEF Init
<1>2. \A id \in Ids : ~(id < nextClientId)
  BY <1>1, ServerAssumption DEF Ids, S!Ids
<1>. QED  BY <1>1, <1>2 DEF AnnouncedInv

LEMMA AnnouncedTcpStep ==
    ASSUME TypeInv, AnnouncedInv, TcpNext
    PROVE  AnnouncedInv'
<1>. USE DEF TypeInv, TypeOK, PcTypeOK
<1>1. /\ ObservedTypeOK
      /\ disconnectionQueue \in Seq(Ids) /\ nextClientId \in Nat
      /\ clients \in [Ids -> Conns \cup {Absent}] /\ Ids \subseteq Nat
      /\ InHand => tcpId \in Ids
  BY ServerAssumption DEF RegistryTypeOK, Ids, S!Ids, Positions
<1>2. ASSUME NEW from, NEW to, Step("tcp", from, to),
             from \notin {"onConnection", "dead"},
             to \notin {"find", "onMessage", "push"},
             UNCHANGED <<registryVars, phase>>
      PROVE  AnnouncedInv'
  BY <1>2, AnnouncedFrame DEF S!Announced
<1>3. CASE TcpPoll \/ TcpExit \/ TcpAccept \/ TcpAcceptFails \/ TcpScanEnds
  BY <1>2, <1>3 DEF TcpPoll, TcpExit, TcpAccept, TcpAcceptFails, TcpScanEnds
<1>4. ASSUME NEW k \in 1 .. Len(pollFds), TcpScanFinds(k) PROVE AnnouncedInv'
  BY <1>2, <1>4 DEF TcpScanFinds
<1>5. CASE TcpReadHeader \/ TcpReadStopped \/ TcpReadBody \/ TcpReadFails
  BY <1>2, <1>5 DEF TcpReadHeader, TcpReadStopped, TcpReadBody, TcpReadFails
<1>6. CASE TcpDrops \/ TcpDisconnect \/ TcpDisconnectFails \/ TcpUnpoll
  BY <1>2, <1>6 DEF TcpDrops, TcpDisconnect, TcpDisconnectFails, TcpUnpoll
<1>7. CASE TcpFindsClient
  BY <1>1, <1>7, AnnouncedFrame DEF TcpFindsClient, S!Announced
<1>8. CASE TcpRegister
  <2>1. /\ At("tcp", "register") /\ At("tcp", "onConnection")'
        /\ clients' = [clients EXCEPT ![nextClientId] = Last(pollFds)]
        /\ UNCHANGED <<nextClientId, disconnectionQueue, phase>>
    BY <1>8 DEF TcpRegister
  <2>2. \A id \in Ids :
          /\ Unfinished(id)' <=> id = nextClientId
          /\ id # nextClientId => clients'[id] = clients[id]
    BY <1>1, <2>1 DEF Unfinished
  <2>. QED  BY <1>1, <2>1, <2>2 DEF AnnouncedInv, Unfinished, S!Announced
<1>9. CASE TcpOnConnection \/ TcpOnConnectionThrows
  <2>1. nextClientId \in Ids
    BY <1>9, ServerAssumption
    DEF TcpOnConnection, TcpOnConnectionThrows, Positions, Registering,
        IdsTaken, TcpTypeOK, RegistryTypeOK, Ids, S!Ids
  <2>2. /\ \A x \in Ids : S!Announced(x) => S!Announced(x)'
        /\ \A x \in Ids : x = nextClientId => S!Announced(x)'
    <3>1. Notify("connection", nextClientId, "open")
      BY <1>9 DEF TcpOnConnection, TcpOnConnectionThrows
    <3>. QED  BY <1>1, <2>1, <3>1, NotifyAnnounces
  <2>3. /\ UNCHANGED <<clients, disconnectionQueue>>
        /\ nextClientId' \in {nextClientId, nextClientId + 1}
        /\ ~InHand'
    BY <1>9 DEF TcpOnConnection, TcpOnConnectionThrows
  <2>4. \A id \in Ids : Unfinished(id) => S!Announced(id)'
    BY <2>2 DEF Unfinished
  <2>5. \A id \in Ids : id < nextClientId' => S!Announced(id)'
    <3>1. \A id \in Ids : id < nextClientId' => id < nextClientId \/ id = nextClientId
      BY <1>1, <2>3
    <3>. QED  BY <2>2, <3>1 DEF AnnouncedInv
  <2>6. \A id \in Ids :
          clients'[id] # Absent => id <= nextClientId' /\ S!Announced(id)'
    BY <1>1, <2>2, <2>3, <2>4 DEF AnnouncedInv
  <2>7. \A k \in 1 .. Len(disconnectionQueue) : disconnectionQueue[k] \in Ids
    BY <1>1
  <2>. QED  BY <2>2, <2>3, <2>5, <2>6, <2>7 DEF AnnouncedInv
<1>10. CASE TcpDeliver \/ TcpIdentify
  <2>1. /\ tcpId' \in Ids /\ clients[tcpId'] # Absent
        /\ pc["tcp"] \in {"deliver", "identify"} /\ InHand'
        /\ UNCHANGED <<registryVars, phase>>
    BY <1>10, PolledType, IdOfProperties, ServerAssumption
    DEF TcpDeliver, TcpIdentify
  <2>2. tcpId' <= nextClientId /\ S!Announced(tcpId')
    BY <2>1 DEF AnnouncedInv, Unfinished
  <2>3. \A id \in Ids : ~Unfinished(id)
    BY <2>1 DEF Unfinished
  <2>4. \A k \in 1 .. Len(disconnectionQueue) : disconnectionQueue[k] \in Ids
    BY <1>1
  <2>. QED  BY <2>1, <2>2, <2>3, <2>4 DEF AnnouncedInv, S!Announced
<1>11. CASE TcpOnMessage
  <2>1. phase' = phase
    BY <1>1, <1>11, NotifyMessage DEF TcpOnMessage
  <2>. QED  BY <1>2, <1>11, <2>1 DEF TcpOnMessage
<1>12. CASE TcpPush
  <2>. DEFINE queued == tcpId % IdModulus
  <2>1. /\ tcpId \in Ids /\ tcpId <= nextClientId /\ S!Announced(tcpId)
        /\ disconnectionQueue' = Append(disconnectionQueue, queued)
        /\ UNCHANGED <<clients, nextClientId, phase>>
        /\ At("tcp", "push") /\ ~InHand'
    BY <1>1, <1>12 DEF TcpPush, AnnouncedInv
  <2>2. queued \in 0 .. tcpId
    BY <1>1, <2>1, ModBound, ServerAssumption
  <2>3. queued \in Ids
    BY <2>1, <2>2, ServerAssumption DEF Ids, S!Ids
  <2>. HIDE DEF queued
  <2>4. S!Announced(queued)
    BY <1>1, <2>1, <2>2, <2>3 DEF AnnouncedInv
  <2>5. \A k \in 1 .. Len(disconnectionQueue') : S!Announced(disconnectionQueue'[k])
    BY <1>1, <2>1, <2>3, <2>4 DEF AnnouncedInv
  <2>. QED  BY <2>1, <2>5 DEF AnnouncedInv, Unfinished, S!Announced
<1>. QED
  BY <1>3, <1>4, <1>5, <1>6, <1>7, <1>8, <1>9, <1>10, <1>11, <1>12 DEF TcpNext

LEMMA AnnouncedMainStep ==
    ASSUME TypeInv, AnnouncedInv, MainNext
    PROVE  AnnouncedInv'
<1>. USE DEF TypeInv, TypeOK, PcTypeOK
<1>1. /\ ObservedTypeOK /\ disconnectionQueue \in Seq(Ids)
      /\ clients \in [Ids -> Conns \cup {Absent}]
  BY DEF RegistryTypeOK
<1>2. CASE MainOuter \/ MainQueueEmpty \/ MainFindsClient \/ MainQuits
  BY <1>2, AnnouncedFrame
  DEF MainOuter, MainQueueEmpty, MainFindsClient, MainQuits, S!Announced
<1>3. CASE MainOnDisconnection \/ MainOnDisconnectionThrows
  <2>1. Leaving \in Ids
    BY <1>3, LeavingType
    DEF MainOnDisconnection, MainOnDisconnectionThrows, Positions
  <2>2. \A x \in Ids : S!Announced(x) => S!Announced(x)'
    BY <1>1, <1>3, <2>1, NotifyAnnounces
    DEF MainOnDisconnection, MainOnDisconnectionThrows
  <2>3. CASE MainOnDisconnection
    BY <2>2, <2>3, AnnouncedFrame DEF MainOnDisconnection
  <2>4. CASE MainOnDisconnectionThrows
    <3>1. UNCHANGED registryVars /\ pc'["tcp"] = "dead"
      BY <2>4 DEF MainOnDisconnectionThrows, Terminate
    <3>. QED  BY <2>2, <3>1, AnnouncedFrame
  <2>. QED  BY <1>3, <2>3, <2>4
<1>4. CASE MainErase
  <2>1. /\ Leaving \in Ids
        /\ clients' = [clients EXCEPT ![Leaving] = Absent]
        /\ UNCHANGED <<nextClientId, disconnectionQueue, tcpId, phase>>
        /\ pc'["tcp"] = pc["tcp"]
    BY <1>4, LeavingType DEF MainErase, Positions
  <2>2. \A id \in Ids : clients'[id] # Absent => clients'[id] = clients[id]
    BY <1>1, <2>1
  <2>. QED  BY <2>1, <2>2 DEF AnnouncedInv, Unfinished, S!Announced
<1>5. CASE MainPop
  <2>1. /\ disconnectionQueue # <<>>
        /\ disconnectionQueue' = Tail(disconnectionQueue)
        /\ UNCHANGED <<clients, nextClientId, tcpId, phase>>
        /\ pc'["tcp"] = pc["tcp"]
    BY <1>5 DEF MainPop, Positions
  <2>2. \A k \in 1 .. Len(disconnectionQueue') :
          /\ k + 1 \in 1 .. Len(disconnectionQueue)
          /\ disconnectionQueue'[k] = disconnectionQueue[k + 1]
    BY <1>1, <2>1, HeadTailProperties
  <2>. QED  BY <2>1, <2>2 DEF AnnouncedInv, Unfinished, S!Announced
<1>. QED  BY <1>2, <1>3, <1>4, <1>5 DEF MainNext

LEMMA AnnouncedStep ==
    ASSUME TypeInv, AnnouncedInv, [Next]_vars
    PROVE  AnnouncedInv'
<1>. USE DEF TypeInv, TypeOK, PcTypeOK
<1>1. CASE UdpNext
  <2>1. phase' = phase
    <3>1. CASE UdpDeliver
      BY <3>1, NotifyMessage DEF UdpDeliver, Positions
    <3>. QED
      BY <1>1, <3>1 DEF UdpNext, UdpReceive, UdpFindsClient, UdpDrops, UdpExit
  <2>2. UNCHANGED <<registryVars, tcpId>> /\ pc'["tcp"] = pc["tcp"]
    BY <1>1
    DEF UdpNext, UdpReceive, UdpFindsClient, UdpDrops, UdpDeliver, UdpExit
  <2>. QED  BY <2>1, <2>2, AnnouncedFrame DEF S!Announced
<1>2. CASE AppNext
  <2>1. UNCHANGED <<registryVars, tcpId, phase>>
    BY <1>2
    DEF AppNext, AppInitialize, AppCreateTcp, AppCreateUdp, AppSetCallback,
        AppStop, AppDestroy, AppShutdown, AppStopTcp, AppJoinTcp, AppJoinUdp,
        AppJoinMain, AppClears
  <2>2. \/ pc'["tcp"] = pc["tcp"]
        \/ pc["tcp"] = "off" /\ pc'["tcp"] = "poll"
    BY <1>2
    DEF Positions, AppNext, AppInitialize, AppCreateTcp, AppCreateUdp,
        AppSetCallback, AppStop, AppDestroy, AppShutdown, AppStopTcp,
        AppJoinTcp, AppJoinUdp, AppJoinMain, AppClears
  <2>. QED  BY <2>1, <2>2, AnnouncedFrame DEF S!Announced
<1>3. CASE PeerNext \/ Finished \/ UNCHANGED vars
  BY <1>3, AnnouncedFrame DEF PeerNext, Finished, vars, S!Announced
<1>. QED  BY <1>1, <1>2, <1>3, AnnouncedTcpStep, AnnouncedMainStep DEF Next

-----------------------------------------------------------------------------
(* The callbacks, and the steps they are called in.                        *)

LEMMA WhoCallsBack ==
    ASSUME [Next]_vars
    PROVE  \/ UNCHANGED <<observed, callbacksSet>>
           \/ AppSetCallback
           \/ /\ TcpOnConnection \/ TcpOnConnectionThrows
              /\ Notify("connection", nextClientId, "open")
              /\ UNCHANGED callbacksSet
           \/ /\ TcpOnMessage
              /\ Notify("tcpMessage", tcpId, phase[tcpId])
              /\ UNCHANGED callbacksSet
           \/ /\ MainOnDisconnection \/ MainOnDisconnectionThrows
              /\ Notify("disconnection", Leaving, "closed")
              /\ UNCHANGED callbacksSet
           \/ /\ UdpDeliver
              /\ Notify("udpMessage", udpId, phase[udpId])
              /\ UNCHANGED callbacksSet
<1>1. CASE TcpNext
  <2>1. CASE TcpOnConnection \/ TcpOnConnectionThrows \/ TcpOnMessage
    BY <2>1 DEF TcpOnConnection, TcpOnConnectionThrows, TcpOnMessage
  <2>2. CASE ~(TcpOnConnection \/ TcpOnConnectionThrows \/ TcpOnMessage)
    BY <1>1, <2>2
    DEF TcpNext, TcpPoll, TcpExit, TcpAccept, TcpAcceptFails, TcpRegister,
        TcpScanEnds, TcpScanFinds, TcpReadHeader, TcpReadStopped, TcpReadBody,
        TcpReadFails, TcpDeliver, TcpFindsClient, TcpDrops, TcpDisconnect,
        TcpIdentify, TcpDisconnectFails, TcpPush, TcpUnpoll
  <2>. QED  BY <2>1, <2>2
<1>2. CASE MainNext
  BY <1>2
  DEF MainNext, MainOuter, MainQueueEmpty, MainFindsClient, MainQuits,
      MainOnDisconnection, MainOnDisconnectionThrows, MainErase, MainPop
<1>3. CASE UdpNext
  BY <1>3
  DEF UdpNext, UdpReceive, UdpFindsClient, UdpDrops, UdpDeliver, UdpExit
<1>4. CASE AppNext \/ PeerNext \/ Finished \/ UNCHANGED vars
  BY <1>4
  DEF AppNext, AppInitialize, AppCreateTcp, AppCreateUdp, AppStop, AppDestroy,
      AppShutdown, AppStopTcp, AppJoinTcp, AppJoinUdp, AppJoinMain, AppClears,
      PeerNext, Finished, vars
<1>. QED  BY <1>1, <1>2, <1>3, <1>4 DEF Next

(* Neither a TCP packet nor a disconnection ever carries an id that was    *)
(* not announced: whatever the callbacks throw, whenever they are set,     *)
(* however the lookups miss and however narrow the queued ids are.         *)
THEOREM NothingUnannounced == Spec => OnlyAnnounced
<1>1. Init => TypeInv /\ AnnouncedInv
  BY TypeInit, AnnouncedInit
<1>2. TypeInv /\ AnnouncedInv /\ [Next]_vars => (TypeInv /\ AnnouncedInv)'
  BY TypeStep, AnnouncedStep
<1>3. TypeInv /\ AnnouncedInv /\ [Next]_vars
        => [cb' # cb /\ cb'.kind \in {"tcpMessage", "disconnection"}
              => S!Announced(cb'.id)]_vars
  <2>. SUFFICES ASSUME TypeInv, AnnouncedInv, [Next]_vars, cb' # cb,
                       cb'.kind \in {"tcpMessage", "disconnection"}
                PROVE  S!Announced(cb'.id)
    OBVIOUS
  <2>1. CASE TcpOnMessage /\ cb'.id = tcpId
    BY <2>1 DEF TcpOnMessage, AnnouncedInv
  <2>2. CASE /\ MainOnDisconnection \/ MainOnDisconnectionThrows
             /\ cb'.id = Leaving
    <3>1. disconnectionQueue # <<>> /\ disconnectionQueue \in Seq(Ids)
      BY <2>2
      DEF MainOnDisconnection, MainOnDisconnectionThrows, TypeInv, TypeOK,
          Positions, RegistryTypeOK
    <3>2. Leaving = disconnectionQueue[1] /\ 1 \in 1 .. Len(disconnectionQueue)
      BY <3>1 DEF Leaving
    <3>. QED  BY <2>2, <3>2 DEF AnnouncedInv
  <2>3. \/ TcpOnMessage /\ cb' = [kind |-> "tcpMessage", id |-> tcpId]
        \/ /\ MainOnDisconnection \/ MainOnDisconnectionThrows
           /\ cb' = [kind |-> "disconnection", id |-> Leaving]
    BY WhoCallsBack DEF Notify, AppSetCallback
  <2>. QED  BY <2>1, <2>2, <2>3
<1>. QED  BY <1>1, <1>2, <1>3, PTL DEF Spec, OnlyAnnounced

-----------------------------------------------------------------------------
(* The destructor.                                                         *)

(* An ended thread is started again by the application only, and not once  *)
(* it is destroying the Manager.                                           *)
LEMMA EndedStays ==
    ASSUME TypeInv, [Next]_vars, NEW t \in Threads \ {"app"}, Ended(t),
           pc["app"] \notin {"initialize", "createTcp", "createUdp"}
    PROVE  Ended(t)'
<1>. USE DEF TypeInv, TypeOK, PcTypeOK, Ended
<1>1. CASE TcpNext
  BY <1>1
  DEF TcpNext, TcpPoll, TcpExit, TcpAccept, TcpAcceptFails, TcpRegister,
      TcpOnConnection, TcpOnConnectionThrows, TcpScanEnds, TcpScanFinds,
      TcpReadHeader, TcpReadStopped, TcpReadBody, TcpReadFails, TcpDeliver, TcpFindsClient, TcpOnMessage, TcpDrops, TcpDisconnect, TcpIdentify, TcpDisconnectFails, TcpPush, TcpUnpoll
<1>2. CASE MainNext
  BY <1>2
  DEF MainNext, MainOuter, MainQueueEmpty, MainFindsClient, MainQuits,
      MainOnDisconnection, MainOnDisconnectionThrows, MainErase, MainPop, Terminate
<1>3. CASE UdpNext
  BY <1>3
  DEF UdpNext, UdpReceive, UdpFindsClient, UdpDrops, UdpDeliver, UdpExit
<1>4. CASE AppNext
  BY <1>4
  DEF AppNext, AppInitialize, AppCreateTcp, AppCreateUdp, AppSetCallback,
      AppStop,
      AppDestroy, AppShutdown, AppStopTcp, AppJoinTcp, AppJoinUdp, AppJoinMain,
      AppClears
<1>5. CASE PeerNext \/ Finished \/ UNCHANGED vars
  BY <1>5 DEF PeerNext, Finished, vars
<1>. QED  BY <1>1, <1>2, <1>3, <1>4, <1>5 DEF Next

LEMMA JoinedStep == TypeInv /\ Joined /\ [Next]_vars => Joined'
<1>. SUFFICES ASSUME TypeInv, Joined, [Next]_vars PROVE Joined'
  OBVIOUS
<1>. USE DEF TypeInv, TypeOK, PcTypeOK
<1>1. CASE AppNext
  <2>1. CASE AppJoinTcp
    BY <2>1, EndedStays DEF AppJoinTcp, AppClears, Joined
  <2>2. CASE AppJoinUdp
    BY <2>2, EndedStays DEF AppJoinUdp, Joined
  <2>3. CASE AppJoinMain
    BY <2>3, EndedStays DEF AppJoinMain, Joined
  <2>4. CASE ~AppJoinTcp /\ ~AppJoinUdp /\ ~AppJoinMain
    <3>1. \/ pc'["app"] \notin {"joinUdp", "joinMain", "down"}
          \/ UNCHANGED pc
      BY <1>1, <2>4
      DEF AppNext, AppInitialize, AppCreateTcp, AppCreateUdp, AppSetCallback,
          AppStop, AppDestroy, AppShutdown, AppStopTcp, AppClears
    <3>. QED  BY <3>1 DEF Joined, Ended
  <2>. QED  BY <2>1, <2>2, <2>3, <2>4
<1>2. CASE ~AppNext
  <2>1. pc'["app"] \in {pc["app"], "dead"}
    <3>1. CASE TcpNext
      BY <3>1
      DEF TcpNext, TcpPoll, TcpExit, TcpAccept, TcpAcceptFails, TcpRegister,
          TcpOnConnection, TcpOnConnectionThrows, TcpScanEnds, TcpScanFinds,
          TcpReadHeader, TcpReadStopped, TcpReadBody, TcpReadFails, TcpDeliver, TcpFindsClient, TcpOnMessage, TcpDrops, TcpDisconnect, TcpIdentify, TcpDisconnectFails, TcpPush, TcpUnpoll
    <3>2. CASE MainNext
      BY <3>2
      DEF MainNext, MainOuter, MainQueueEmpty, MainFindsClient, MainQuits,
          MainOnDisconnection, MainOnDisconnectionThrows, MainErase, MainPop, Terminate
    <3>3. CASE UdpNext
      BY <3>3
      DEF UdpNext, UdpReceive, UdpFindsClient, UdpDrops, UdpDeliver, UdpExit
    <3>4. CASE PeerNext \/ Finished \/ UNCHANGED vars
      BY <3>4 DEF PeerNext, Finished, vars
    <3>. QED  BY <1>2, <3>1, <3>2, <3>3, <3>4 DEF Next
  <2>. QED  BY <2>1, EndedStays DEF Joined
<1>. QED  BY <1>1, <1>2

(* Once ~Manager has returned, no thread of it calls back: all were joined. *)
THEOREM SilenceAfterDestruction == Spec => SilentWhenDestroyed
<1>1. Init => TypeInv /\ Joined
  BY TypeInit DEF Init, Joined
<1>2. TypeInv /\ Joined /\ [Next]_vars => (TypeInv /\ Joined)'
  BY TypeStep, JoinedStep
<1>3. TypeInv /\ Joined /\ [Next]_vars => [At("app", "down") => cb' = cb]_vars
  <2>. SUFFICES ASSUME TypeInv, Joined, [Next]_vars, At("app", "down")
                PROVE  cb' = cb
    OBVIOUS
  <2>1. Ended("tcp") /\ Ended("main") /\ Ended("udp")
    BY DEF Joined
  <2>2. /\ ~TcpOnConnection /\ ~TcpOnConnectionThrows /\ ~TcpOnMessage
        /\ ~MainOnDisconnection /\ ~MainOnDisconnectionThrows /\ ~UdpDeliver
    BY <2>1
    DEF Ended, TcpOnConnection, TcpOnConnectionThrows, TcpOnMessage,
        MainOnDisconnection, MainOnDisconnectionThrows, UdpDeliver
  <2>. QED  BY <2>2, WhoCallsBack DEF AppSetCallback
<1>. QED  BY <1>1, <1>2, <1>3, PTL DEF Spec, SilentWhenDestroyed

-----------------------------------------------------------------------------
(* No entry is lost from sight.                                            *)

LEMMA AccountedInit == Init => Accounted
  BY DEF Init, Accounted, Seen, Dropped, Erased

(* Steps that leave map, array and queue alone.                            *)
LEMMA AccountedFrame ==
    ASSUME Accounted, UNCHANGED <<clients, pollFds, disconnectionQueue>>,
           At("tcp", "unpoll")' => At("tcp", "unpoll") /\ i' = i,
           At("main", "pop")' => At("main", "pop")
    PROVE  Accounted'
  BY DEF Accounted, Seen, Dropped, Erased, Polling, Polled, Queues, Leaving

LEMMA AccountedTcpStep ==
    ASSUME Throws = {}, FdLimit <= IdModulus, IInv, Accounted, TcpNext
    PROVE  Accounted'
<1>. USE DEF IInv, TypeInv, TypeOK, PcTypeOK
<1>1. /\ clients \in [Ids -> Conns \cup {Absent}]
      /\ disconnectionQueue \in Seq(Ids) /\ pollFds \in Seq(Conns)
      /\ Ids \subseteq Nat /\ nextClientId \in Nat
      /\ At("main", "pop") => Leaving \in Ids /\ Leaving < nextClientId
  <2>1. Ids \subseteq Nat
    BY ServerAssumption DEF Ids, S!Ids
  <2>2. ASSUME At("main", "pop") PROVE Leaving \in Ids /\ Leaving < nextClientId
    <3>1. disconnectionQueue # <<>> /\ Leaving \in Ids
      BY <2>2, LeavingType DEF Positions
    <3>2. Leaving = disconnectionQueue[1] /\ 1 \in 1 .. Len(disconnectionQueue)
      BY <3>1 DEF Leaving, RegistryTypeOK
    <3>. QED  BY <3>1, <3>2 DEF RegistryInv, Queued
  <2>. QED  BY <2>1, <2>2 DEF RegistryTypeOK, TcpTypeOK
<1>2. ASSUME NEW from, NEW to, Step("tcp", from, to), to # "unpoll",
             UNCHANGED <<clients, pollFds, disconnectionQueue>>
      PROVE  Accounted'
  BY <1>2, AccountedFrame
<1>3. CASE TcpAccept
  <2>1. /\ UNCHANGED <<clients, disconnectionQueue>>
        /\ \A k \in 1 .. Len(pollFds) :
             k \in 1 .. Len(pollFds') /\ pollFds'[k] = pollFds[k]
        /\ ~At("tcp", "unpoll")' /\ pc'["main"] = pc["main"]
    <3>1. Head(backlog) \in Conns
      BY <1>3 DEF TcpAccept, NetTypeOK, Positions
    <3>. QED  BY <1>1, <1>3, <3>1 DEF TcpAccept
  <2>. QED
    BY <2>1 DEF Accounted, Seen, Dropped, Erased, Polling, Queues, Leaving
<1>4. CASE TcpRegister
  <2>1. /\ clients' = [clients EXCEPT ![nextClientId] = Last(pollFds)]
        /\ UNCHANGED <<pollFds, disconnectionQueue>>
        /\ pollFds # <<>>
        /\ ~At("tcp", "unpoll")' /\ pc'["main"] = pc["main"]
    BY <1>4 DEF TcpRegister, Positions
  <2>2. Polling(Last(pollFds))
    BY <1>1, <2>1 DEF Polling, Last
  <2>3. \A id \in Ids : clients'[id] \in {clients[id], Last(pollFds)}
    BY <1>1, <2>1
  <2>4. At("main", "pop") => clients'[Leaving] = clients[Leaving]
    BY <1>1, <2>1
  <2>. QED
    BY <2>1, <2>2, <2>3, <2>4
    DEF Accounted, Seen, Dropped, Erased, Polling, Queues, Leaving
<1>5. CASE TcpPush
  <2>1. /\ tcpId \in Ids /\ clients[tcpId] = Polled /\ Polled \in Conns
        /\ At("tcp", "push")
    BY <1>5, PolledType DEF TcpPush, Positions, RegistryInv, Polls
  <2>2. tcpId % IdModulus = tcpId
    <3>1. tcpId \in Nat /\ IdModulus \in Nat /\ tcpId < IdModulus
      BY <2>1, ServerAssumption DEF Ids, S!Ids
    <3>. QED  BY <3>1, ModSmall
  <2>3. /\ disconnectionQueue' = Append(disconnectionQueue, tcpId)
        /\ UNCHANGED <<clients, pollFds, i>> /\ pc'["main"] = pc["main"]
    BY <1>5, <2>2 DEF TcpPush
  <2>4. /\ \A k \in 1 .. Len(disconnectionQueue) :
             /\ k \in 1 .. Len(disconnectionQueue')
             /\ disconnectionQueue'[k] = disconnectionQueue[k]
        /\ \E k \in 1 .. Len(disconnectionQueue') : disconnectionQueue'[k] = tcpId
    <3>1. /\ Len(disconnectionQueue') = Len(disconnectionQueue) + 1
          /\ Len(disconnectionQueue) \in Nat
          /\ disconnectionQueue'[Len(disconnectionQueue) + 1] = tcpId
          /\ \A k \in 1 .. Len(disconnectionQueue) :
               disconnectionQueue'[k] = disconnectionQueue[k]
      BY <1>1, <2>1, <2>3
    <3>. QED  BY <3>1
  <2>5. Seen'
    BY <2>3, <2>4 DEF Accounted, Seen, Polling, Queues
  <2>6. Dropped'
    <3>1. \A id \in Ids : clients[id] = Polled => id = tcpId
      BY <2>1, ServerAssumption DEF RegistryInv, Entries
    <3>. QED  BY <2>3, <2>4, <3>1 DEF Dropped, Polled, Queues
  <2>7. Erased'
    <3>1. At("main", "pop") => Leaving' = Leaving
      BY <1>1, <2>1, <2>3 DEF Leaving, Positions
    <3>. QED  BY <2>3, <3>1 DEF Accounted, Erased
  <2>. QED  BY <2>5, <2>6, <2>7 DEF Accounted
<1>6. CASE TcpUnpoll
  <2>. DEFINE c == Polled
  <2>1. /\ i \in 1 .. Len(pollFds) /\ c = pollFds[i] /\ At("tcp", "unpoll")
        /\ pollFds' = RemoveAt(pollFds, i)
        /\ UNCHANGED <<clients, disconnectionQueue>>
        /\ ~At("tcp", "unpoll")' /\ pc'["main"] = pc["main"]
    BY <1>6, PolledType DEF TcpUnpoll, WithoutEntry, Polled
  <2>2. \A id \in Ids : clients[id] = c => Queues(id)
    BY <2>1 DEF Accounted, Dropped
  <2>. HIDE DEF c
  <2>3. \A d : Polling(d) /\ d # c => Polling(d)'
    <3>. SUFFICES ASSUME NEW k \in 1 .. Len(pollFds), pollFds[k] # c
                  PROVE  \E j \in 1 .. Len(pollFds') : pollFds'[j] = pollFds[k]
      BY DEF Polling
    <3>1. /\ Len(pollFds') = Len(pollFds) - 1 /\ Len(pollFds) \in Nat
          /\ \A j \in 1 .. Len(pollFds) - 1 :
               pollFds'[j] = pollFds[IF j < i THEN j ELSE j + 1]
      <4>1. pollFds \in Seq(Conns) /\ i \in 1 .. Len(pollFds)
        BY <1>1, <2>1
      <4>2. /\ Len(RemoveAt(pollFds, i)) = Len(pollFds) - 1
            /\ \A j \in 1 .. Len(pollFds) - 1 :
                 RemoveAt(pollFds, i)[j] = pollFds[IF j < i THEN j ELSE j + 1]
        BY <4>1, RemoveAtProperties, Zenon
      <4>. QED  BY <2>1, <4>1, <4>2
    <3>2. CASE k < i
      BY <2>1, <3>1, <3>2
    <3>3. CASE k > i
      <4>1. k - 1 \in 1 .. Len(pollFds) - 1 /\ pollFds'[k - 1] = pollFds[k]
        BY <2>1, <3>1, <3>3
      <4>. QED  BY <3>1, <4>1
    <3>4. k # i
      BY <2>1
    <3>. QED  BY <2>1, <3>2, <3>3, <3>4
  <2>4. \A id : Queues(id) => Queues(id)'
    BY <2>1 DEF Queues
  <2>5. Seen'
    BY <2>1, <2>2, <2>3, <2>4 DEF Accounted, Seen
  <2>. QED  BY <2>1, <2>5 DEF Accounted, Dropped, Erased, Leaving
<1>7. CASE TcpPoll \/ TcpExit \/ TcpAcceptFails \/ TcpScanEnds
  BY <1>2, <1>7 DEF TcpPoll, TcpExit, TcpAcceptFails, TcpScanEnds
<1>8. CASE TcpOnConnection \/ TcpOnConnectionThrows
  BY <1>2, <1>8 DEF TcpOnConnection, TcpOnConnectionThrows
<1>9. ASSUME NEW k \in 1 .. Len(pollFds), TcpScanFinds(k) PROVE Accounted'
  BY <1>2, <1>9 DEF TcpScanFinds
<1>10. CASE TcpReadHeader \/ TcpReadStopped \/ TcpReadBody \/ TcpReadFails
  BY <1>2, <1>10 DEF TcpReadHeader, TcpReadStopped, TcpReadBody, TcpReadFails
<1>11. CASE TcpDeliver \/ TcpFindsClient \/ TcpOnMessage \/ TcpDrops
  BY <1>2, <1>11 DEF TcpDeliver, TcpFindsClient, TcpOnMessage, TcpDrops
<1>12. CASE TcpDisconnect \/ TcpIdentify \/ TcpDisconnectFails
  BY <1>2, <1>12 DEF TcpDisconnect, TcpIdentify, TcpDisconnectFails
<1>. QED
  BY <1>3, <1>4, <1>5, <1>6, <1>7, <1>8, <1>9, <1>10, <1>11, <1>12 DEF TcpNext

LEMMA AccountedMainStep ==
    ASSUME Throws = {}, IInv, Accounted, MainNext
    PROVE  Accounted'
<1>. USE DEF IInv, TypeInv, TypeOK, PcTypeOK
<1>1. /\ clients \in [Ids -> Conns \cup {Absent}]
      /\ disconnectionQueue \in Seq(Ids)
      /\ At("tcp", "unpoll") => Polled \in Conns
  BY PolledType DEF RegistryTypeOK
<1>2. CASE \/ MainOuter \/ MainQueueEmpty \/ MainFindsClient \/ MainQuits
           \/ MainOnDisconnection
  BY <1>2, AccountedFrame
  DEF MainOuter, MainQueueEmpty, MainFindsClient, MainQuits,
      MainOnDisconnection
<1>3. ~MainOnDisconnectionThrows
  BY DEF MainOnDisconnectionThrows, MayThrow
<1>4. CASE MainErase
  <2>1. /\ clients' = [clients EXCEPT ![Leaving] = Absent]
        /\ UNCHANGED <<disconnectionQueue, pollFds, i>>
        /\ pc'["tcp"] = pc["tcp"] /\ Leaving' = Leaving /\ Leaving \in Ids
    BY <1>4, LeavingType DEF MainErase, Leaving, Positions
  <2>2. \A id \in Ids : clients'[id] \in {Absent, clients[id]}
    BY <1>1, <2>1
  <2>3. Seen'
    BY <2>1, <2>2 DEF Accounted, Seen, Polling, Queues
  <2>4. Dropped'
    BY <1>1, <2>1, <2>2, ServerAssumption
    DEF Accounted, Dropped, Polled, Queues
  <2>5. Erased'
    BY <1>1, <2>1 DEF Erased
  <2>. QED  BY <2>3, <2>4, <2>5 DEF Accounted
<1>5. CASE MainPop
  <2>1. /\ disconnectionQueue # <<>> /\ Leaving = disconnectionQueue[1]
        /\ clients[Leaving] = Absent
        /\ disconnectionQueue' = Tail(disconnectionQueue)
        /\ UNCHANGED <<clients, pollFds, i>>
        /\ pc'["tcp"] = pc["tcp"] /\ ~At("main", "pop")'
    BY <1>5 DEF MainPop, Positions, Leaving, Accounted, Erased
  <2>2. /\ Len(disconnectionQueue) \in Nat \ {0}
        /\ Len(disconnectionQueue') = Len(disconnectionQueue) - 1
        /\ \A j \in 1 .. Len(disconnectionQueue') :
             disconnectionQueue'[j] = disconnectionQueue[j + 1]
    BY <1>1, <2>1, HeadTailProperties
  <2>3. ASSUME NEW id, Queues(id), id # Leaving PROVE Queues(id)'
    <3>1. PICK k \in 1 .. Len(disconnectionQueue) : disconnectionQueue[k] = id
      BY <2>3 DEF Queues
    <3>2. /\ k - 1 \in 1 .. Len(disconnectionQueue')
          /\ disconnectionQueue'[k - 1] = id
      BY <2>1, <2>2, <2>3, <3>1
    <3>. QED  BY <3>2 DEF Queues
  <2>4. \A id : clients[id] # Absent => id # Leaving
    BY <2>1
  <2>5. Seen'
    BY <2>1, <2>3, <2>4 DEF Accounted, Seen, Polling
  <2>6. Dropped'
    BY <1>1, <2>1, <2>3, <2>4, ServerAssumption DEF Accounted, Dropped, Polled
  <2>. QED  BY <2>1, <2>5, <2>6 DEF Accounted, Erased
<1>. QED  BY <1>2, <1>3, <1>4, <1>5 DEF MainNext

LEMMA AccountedStep ==
    ASSUME Throws = {}, FdLimit <= IdModulus, IInv, Accounted, [Next]_vars
    PROVE  Accounted'
<1>. USE DEF IInv, TypeInv, TypeOK, PcTypeOK
<1>1. CASE UdpNext
  BY <1>1, AccountedFrame
  DEF UdpNext, UdpReceive, UdpFindsClient, UdpDrops, UdpDeliver, UdpExit
<1>2. CASE AppNext
  BY <1>2, AccountedFrame
  DEF AppNext, AppInitialize, AppCreateTcp, AppCreateUdp, AppSetCallback,
      AppStop, AppDestroy, AppShutdown, AppStopTcp, AppJoinTcp, AppJoinUdp,
      AppJoinMain, AppClears
<1>3. CASE PeerNext \/ Finished \/ UNCHANGED vars
  BY <1>3, AccountedFrame DEF PeerNext, Finished, vars
<1>. QED  BY <1>1, <1>2, <1>3, AccountedTcpStep, AccountedMainStep DEF Next

(* An entry of the map is polled or queued for erasure: none stays for     *)
(* good, whatever stops, vanishes or misses a lookup.                      *)
THEOREM OrphansNever ==
    ASSUME Throws = {}, FdLimit <= IdModulus
    PROVE  Spec => []NoOrphans
<1>1. Init => Accounted
  BY AccountedInit
<1>2. IInv /\ Accounted /\ [Next]_vars => Accounted'
  BY AccountedStep
<1>3. IInv /\ Accounted => NoOrphans
  BY DEF IInv, TypeInv, TypeOK, TcpTypeOK, RegistryTypeOK, Accounted, Seen,
         Polling, Queues, NoOrphans, Range
<1>. QED  BY <1>1, <1>2, <1>3, InvariantHolds, PTL DEF Spec

(* Tcp::run ends without being told to, and Manager::run returns early,    *)
(* only in a lookup that another thread's write has made miss: IInv says   *)
(* that every descriptor met is in the map, and every id popped too.       *)
THEOREM ThreadsCorrect ==
    ASSUME Throws = {}, FdLimit <= IdModulus
    PROVE  Spec => OnlyRacesKill
<1>. DEFINE Kills ==
              /\ ~At("tcp", "dead") /\ At("tcp", "dead")' => MayMiss("tcp")
              /\ ~At("main", "quit") /\ At("main", "quit")' => MayMiss("main")
<1>1. IInv /\ [Next]_vars => [Kills]_vars
  <2>. SUFFICES ASSUME IInv, [Next]_vars PROVE Kills
    OBVIOUS
  <2>. USE DEF IInv, TypeInv, TypeOK, PcTypeOK
  <2>1. CASE TcpNext
    <3>1. \A k \in 1 .. Len(pollFds) :
            At("tcp", "scan") /\ Misses("tcp", pollFds[k]) => MayMiss("tcp")
      BY DEF RegistryInv, Polls, Misses, Leaves
    <3>2. ASSUME NEW k \in 1 .. Len(pollFds), TcpScanFinds(k) PROVE Kills
      BY <3>1, <3>2 DEF TcpScanFinds
    <3>3. ASSUME NEW to, Goto("tcp", to), to # "dead" PROVE Kills
      BY <3>3
    <3>4. CASE \/ TcpPoll \/ TcpExit \/ TcpAccept \/ TcpAcceptFails \/ TcpRegister
               \/ TcpOnConnection \/ TcpOnConnectionThrows \/ TcpScanEnds
      BY <3>3, <3>4
      DEF TcpPoll, TcpExit, TcpAccept, TcpAcceptFails, TcpRegister,
          TcpOnConnection, TcpOnConnectionThrows, TcpScanEnds
    <3>5. CASE \/ TcpReadHeader \/ TcpReadStopped \/ TcpReadBody \/ TcpReadFails
               \/ TcpDeliver \/ TcpFindsClient \/ TcpOnMessage \/ TcpDrops
      BY <3>3, <3>5
      DEF TcpReadHeader, TcpReadStopped, TcpReadBody, TcpReadFails, TcpDeliver,
          TcpFindsClient, TcpOnMessage, TcpDrops
    <3>6. CASE TcpDisconnect \/ TcpIdentify \/ TcpDisconnectFails \/ TcpPush \/ TcpUnpoll
      BY <3>3, <3>6
      DEF TcpDisconnect, TcpIdentify, TcpDisconnectFails, TcpPush, TcpUnpoll
    <3>. QED  BY <2>1, <3>2, <3>4, <3>5, <3>6 DEF TcpNext
  <2>2. CASE MainNext
    <3>1. disconnectionQueue # <<>> /\ At("main", "inner")
            => clients[Leaving] # Absent
      <4>. HAVE disconnectionQueue # <<>> /\ At("main", "inner")
      <4>1. Leaving = disconnectionQueue[1] /\ 1 \in 1 .. Len(disconnectionQueue)
        BY DEF Leaving, RegistryTypeOK
      <4>. QED  BY <4>1 DEF RegistryInv, Queued
    <3>2. MainQuits => MayMiss("main")
      BY <3>1 DEF MainQuits
    <3>3. ~MainOnDisconnectionThrows
      BY DEF MainOnDisconnectionThrows, MayThrow
    <3>4. CASE MainQuits
      BY <3>2, <3>4 DEF MainQuits
    <3>. QED
      BY <2>2, <3>3, <3>4
      DEF MainNext, MainOuter, MainQueueEmpty, MainFindsClient,
          MainOnDisconnection, MainErase, MainPop
  <2>3. CASE UdpNext
    BY <2>3
    DEF UdpNext, UdpReceive, UdpFindsClient, UdpDrops, UdpDeliver, UdpExit
  <2>4. CASE AppNext
    BY <2>4
    DEF AppNext, AppInitialize, AppCreateTcp, AppCreateUdp, AppSetCallback,
        AppStop, AppDestroy, AppShutdown, AppStopTcp, AppJoinTcp, AppJoinUdp,
        AppJoinMain, AppClears
  <2>5. CASE PeerNext \/ Finished \/ UNCHANGED vars
    BY <2>5 DEF PeerNext, Finished, vars
  <2>. QED  BY <2>1, <2>2, <2>3, <2>4, <2>5 DEF Next
<1>. QED  BY <1>1, InvariantHolds, PTL DEF Spec, OnlyRacesKill

(* onDisconnection(id) is called only for a client the server reads no     *)
(* more: the one at the head of the queue is out of the array, or the      *)
(* erasure of its entry is the next step of Tcp::run.                      *)
THEOREM DisconnectionsCorrect ==
    ASSUME Throws = {}, FdLimit <= IdModulus
    PROVE  Spec => DisconnectionsAreReal
<1>1. IInv /\ [Next]_vars
        => [cb' # cb /\ cb'.kind = "disconnection"
              => \/ clients[cb'.id] \notin Range(pollFds)
                 \/ Leaves(clients[cb'.id])]_vars
  <2>. SUFFICES ASSUME IInv, [Next]_vars, cb' # cb, cb'.kind = "disconnection"
                PROVE  \/ clients[cb'.id] \notin Range(pollFds)
                       \/ Leaves(clients[cb'.id])
    OBVIOUS
  <2>. USE DEF IInv, TypeInv, TypeOK
  <2>1. MainOnDisconnection /\ cb'.id = Leaving
    <3>1. ~MainOnDisconnectionThrows
      BY DEF MainOnDisconnectionThrows, MayThrow
    <3>2. MainOnDisconnection /\ cb' = [kind |-> "disconnection", id |-> Leaving]
      BY <3>1, WhoCallsBack DEF Notify, AppSetCallback
    <3>. QED  BY <3>2
  <2>2. Leaving = disconnectionQueue[1] /\ 1 \in 1 .. Len(disconnectionQueue)
    BY <2>1 DEF MainOnDisconnection, Positions, Leaving, RegistryTypeOK
  <2>3. Polling(clients[Leaving]) => Leaves(clients[Leaving])
    BY <2>2 DEF RegistryInv, Queued
  <2>. QED  BY <2>1, <2>3 DEF Polling, Range, TcpTypeOK
<1>. QED  BY <1>1, InvariantHolds, PTL DEF Spec, DisconnectionsAreReal

-----------------------------------------------------------------------------
(* The promise of module Sessions.                                         *)

LEMMA SessionInit == Init => SessionInv
<1>. SUFFICES ASSUME Init PROVE SessionInv
  OBVIOUS
<1>1. /\ At("udp", "off") /\ Len(disconnectionQueue) = 0
      /\ \A id \in Ids : clients[id] = Absent /\ ~S!Announced(id)
  BY DEF Init, S!Init, S!Announced, Ids
<1>. QED  BY <1>1, AnnouncedInit DEF SessionInv, Counted, OpenEntries, GivenOut

(* What the steps of the registry need of the types.                       *)
LEMMA SessionTypes ==
    ASSUME TypeInv
    PROVE  /\ clients \in [Ids -> Conns \cup {Absent}]
           /\ phase \in [Ids -> {"new", "open", "closed"}]
           /\ disconnectionQueue \in Seq(Ids)
           /\ nextClientId \in Nat /\ Ids \subseteq Nat
           /\ pc \in [Threads -> AppLabels \cup MainLabels \cup TcpLabels \cup UdpLabels]
           /\ At("main", "erase") => disconnectionQueue # <<>>
  BY ServerAssumption
  DEF TypeInv, TypeOK, PcTypeOK, RegistryTypeOK, ObservedTypeOK, Positions, Ids,
      S!Ids, S!Phases

(* Steps that leave map, queue, phases and counter alone.                  *)
LEMMA SessionFrame ==
    ASSUME SessionInv, UNCHANGED <<registryVars, phase>>,
           At("tcp", "onConnection") => At("tcp", "onConnection")',
           At("main", "erase") => At("main", "erase")',
           pc'["udp"] \in {"find", "deliver"}
             => pc["udp"] \in {"find", "deliver"} /\ udpId' = udpId
    PROVE  (Counted /\ OpenEntries /\ GivenOut)'
  BY DEF SessionInv, Counted, OpenEntries, GivenOut, Leaving, S!Announced

LEMMA OnConnectionKeepsSessions ==
    ASSUME TypeInv, SessionInv, TcpOnConnection
    PROVE  (Counted /\ OpenEntries /\ GivenOut)'
<1>1. /\ nextClientId \in Ids /\ nextClientId' = nextClientId + 1
      /\ phase' = [phase EXCEPT ![nextClientId] = "open"]
      /\ UNCHANGED <<clients, disconnectionQueue, udpId>>
      /\ pc'["main"] = pc["main"] /\ pc'["udp"] = pc["udp"]
  BY SessionTypes, ServerAssumption
  DEF TcpOnConnection, Notify, SessionInv, AnnouncedInv, TypeInv, TypeOK,
      Positions, Registering, IdsTaken, TcpTypeOK, Ids, S!Ids
<1>2. Counted'
  BY <1>1, SessionTypes DEF SessionInv, Counted, S!Announced
<1>3. OpenEntries'
  BY <1>1, SessionTypes DEF SessionInv, OpenEntries, Leaving
<1>4. GivenOut'
  <2>1. pc["udp"] \in {"find", "deliver"} => udpId \in Nat
    BY SessionTypes DEF TypeInv, Positions
  <2>. QED  BY <1>1, <2>1, SessionTypes DEF SessionInv, GivenOut
<1>. QED  BY <1>2, <1>3, <1>4

LEMMA TcpKeepsSessions ==
    ASSUME Throws = {}, IInv, SessionInv, TcpNext
    PROVE  (Counted /\ OpenEntries /\ GivenOut)'
<1>. USE SessionTypes DEF IInv
<1>1. ASSUME NEW from, NEW to, Step("tcp", from, to),
             from # "onConnection", UNCHANGED <<registryVars, phase, udpId>>
      PROVE  (Counted /\ OpenEntries /\ GivenOut)'
  BY <1>1, SessionFrame
<1>2. CASE TcpPoll \/ TcpExit \/ TcpAccept \/ TcpAcceptFails \/ TcpScanEnds
  BY <1>1, <1>2 DEF TcpPoll, TcpExit, TcpAccept, TcpAcceptFails, TcpScanEnds
<1>3. ASSUME NEW k \in 1 .. Len(pollFds), TcpScanFinds(k)
      PROVE  (Counted /\ OpenEntries /\ GivenOut)'
  BY <1>1, <1>3 DEF TcpScanFinds
<1>4. CASE TcpReadHeader \/ TcpReadStopped \/ TcpReadBody \/ TcpReadFails
  BY <1>1, <1>4 DEF TcpReadHeader, TcpReadStopped, TcpReadBody, TcpReadFails
<1>5. CASE TcpDeliver \/ TcpFindsClient \/ TcpOnMessage \/ TcpDrops
  <2>1. CASE TcpOnMessage
    <3>1. phase' = phase
      BY <2>1, NotifyMessage DEF TcpOnMessage, TypeInv, TypeOK, Positions
    <3>. QED  BY <1>1, <2>1, <3>1 DEF TcpOnMessage
  <2>. QED  BY <1>1, <1>5, <2>1 DEF TcpDeliver, TcpFindsClient, TcpDrops
<1>6. CASE TcpRegister
  <2>1. /\ clients' = [clients EXCEPT ![nextClientId] = Last(pollFds)]
        /\ At("tcp", "register") /\ At("tcp", "onConnection")'
        /\ pc'["main"] = pc["main"] /\ pc'["udp"] = pc["udp"]
        /\ UNCHANGED <<nextClientId, disconnectionQueue, phase, udpId>>
    BY <1>6 DEF TcpRegister
  <2>. QED
    BY <2>1 DEF SessionInv, Counted, OpenEntries, GivenOut, Leaving, S!Announced
<1>7. CASE TcpDisconnect \/ TcpIdentify \/ TcpDisconnectFails \/ TcpUnpoll
  BY <1>1, <1>7 DEF TcpDisconnect, TcpIdentify, TcpDisconnectFails, TcpUnpoll
<1>8. CASE TcpPush
  <2>1. /\ UNCHANGED <<clients, nextClientId, phase, udpId>>
        /\ At("tcp", "push")
        /\ pc'["main"] = pc["main"] /\ pc'["udp"] = pc["udp"]
        /\ At("main", "erase") => Leaving' = Leaving
    <3>1. ASSUME disconnectionQueue # <<>> PROVE Leaving' = Leaving
      <4>1. disconnectionQueue' = Append(disconnectionQueue, tcpId % IdModulus)
        BY <1>8 DEF TcpPush
      <4>. QED  BY <3>1, <4>1 DEF Leaving
    <3>. QED  BY <1>8, <3>1 DEF TcpPush
  <2>. QED
    BY <2>1 DEF SessionInv, Counted, OpenEntries, GivenOut, S!Announced
<1>9. ~TcpOnConnectionThrows
  BY DEF TcpOnConnectionThrows, MayThrow
<1>. QED
  BY <1>2, <1>3, <1>4, <1>5, <1>6, <1>7, <1>8, <1>9,
     OnConnectionKeepsSessions
  DEF TcpNext

LEMMA MainKeepsSessions ==
    ASSUME Throws = {}, IInv, SessionInv, MainNext
    PROVE  (Counted /\ OpenEntries /\ GivenOut)'
<1>. USE SessionTypes DEF IInv
<1>1. CASE MainOuter \/ MainQueueEmpty \/ MainFindsClient \/ MainQuits
  BY <1>1, SessionFrame
  DEF MainOuter, MainQueueEmpty, MainFindsClient, MainQuits
<1>2. CASE MainOnDisconnection
  <2>1. /\ disconnectionQueue # <<>> /\ Leaving \in Ids
        /\ Leaving = disconnectionQueue[1] /\ 1 \in 1 .. Len(disconnectionQueue)
    BY <1>2, LeavingType DEF MainOnDisconnection, TypeInv, Positions, Leaving
  <2>2. Leaving < nextClientId
    BY <2>1 DEF RegistryInv, Queued
  <2>3. /\ phase' = [phase EXCEPT ![Leaving] = "closed"]
        /\ At("main", "erase")' /\ Leaving' = Leaving
        /\ UNCHANGED <<registryVars, udpId>>
        /\ pc'["tcp"] = pc["tcp"] /\ pc'["udp"] = pc["udp"]
        /\ At("main", "onDisconnection")
    BY <1>2 DEF MainOnDisconnection, Notify, Leaving
  <2>4. Counted'
    BY <2>1, <2>2, <2>3 DEF SessionInv, Counted, S!Announced
  <2>5. OpenEntries'
    BY <2>1, <2>3 DEF SessionInv, OpenEntries
  <2>. QED  BY <2>3, <2>4, <2>5 DEF SessionInv, GivenOut
<1>3. CASE MainErase \/ MainPop
  <2>1. /\ \A id \in Ids : clients'[id] \in {Absent, clients[id]}
        /\ At("main", "erase") => clients'[Leaving] = Absent
        /\ UNCHANGED <<nextClientId, phase, udpId>>
        /\ pc'["tcp"] = pc["tcp"] /\ pc'["udp"] = pc["udp"]
    BY <1>3, LeavingType DEF MainErase, MainPop, TypeInv, Positions
  <2>2. Counted' /\ GivenOut'
    BY <2>1 DEF SessionInv, Counted, GivenOut, S!Announced
  <2>3. OpenEntries'
    BY <2>1 DEF SessionInv, OpenEntries
  <2>. QED  BY <2>2, <2>3
<1>4. ~MainOnDisconnectionThrows
  BY DEF MainOnDisconnectionThrows, MayThrow
<1>. QED  BY <1>1, <1>2, <1>3, <1>4 DEF MainNext

LEMMA UdpKeepsSessions ==
    ASSUME TypeInv, SessionInv, UdpNext
    PROVE  (Counted /\ OpenEntries /\ GivenOut)'
<1>. USE SessionTypes
<1>1. CASE UdpFindsClient \/ UdpDrops \/ UdpExit
  BY <1>1, SessionFrame DEF UdpFindsClient, UdpDrops, UdpExit
<1>2. CASE UdpDeliver
  <2>1. phase' = phase
    BY <1>2, NotifyMessage DEF UdpDeliver, TypeInv, TypeOK, Positions
  <2>. QED  BY <1>2, <2>1, SessionFrame DEF UdpDeliver
<1>3. ASSUME NEW endpoint \in Endpoints, UdpReceive(endpoint)
      PROVE  (Counted /\ OpenEntries /\ GivenOut)'
  <2>1. /\ UNCHANGED <<registryVars, phase>>
        /\ pc'["tcp"] = pc["tcp"] /\ pc'["main"] = pc["main"]
        /\ udpId' <= nextClientId
    BY <1>3, ServerAssumption DEF UdpReceive, SessionInv, AnnouncedInv
  <2>. QED
    BY <2>1 DEF SessionInv, Counted, OpenEntries, GivenOut, Leaving, S!Announced
<1>. QED  BY <1>1, <1>2, <1>3 DEF UdpNext

LEMMA SessionStep ==
    ASSUME Throws = {}, IInv, SessionInv, [Next]_vars
    PROVE  SessionInv'
<1>. USE SessionTypes DEF IInv
<1>1. AnnouncedInv'
  BY AnnouncedStep DEF SessionInv
<1>2. CASE AppNext
  <2>1. /\ UNCHANGED <<registryVars, phase, udpId>>
        /\ At("tcp", "onConnection") => At("tcp", "onConnection")'
        /\ At("main", "erase") => At("main", "erase")'
        /\ pc'["udp"] \in {pc["udp"], "recv"}
    BY <1>2
    DEF AppNext, AppInitialize, AppCreateTcp, AppCreateUdp, AppSetCallback,
        AppStop,
        AppDestroy, AppShutdown, AppStopTcp, AppJoinTcp, AppJoinUdp, AppJoinMain,
        AppClears, TypeInv, Positions
  <2>. QED  BY <1>1, <2>1, SessionFrame DEF SessionInv
<1>3. CASE PeerNext \/ Finished \/ UNCHANGED vars
  BY <1>1, <1>3, SessionFrame DEF PeerNext, Finished, vars, SessionInv
<1>. QED
  BY <1>1, <1>2, <1>3, TcpKeepsSessions, MainKeepsSessions, UdpKeepsSessions
  DEF Next, SessionInv

(* Every callback of a step is one the abstract server may make then.      *)
LEMMA SessionSimulation ==
    ASSUME Throws = {}, IInv, SessionInv, [Next]_vars
    PROVE  [S!Next]_<<phase, cb, callbacksSet>>
<1>. USE SessionTypes DEF IInv
<1>1. CASE UNCHANGED <<observed, callbacksSet>>
  BY <1>1
<1>2. CASE /\ TcpOnConnection
           /\ Notify("connection", nextClientId, "open")
           /\ UNCHANGED callbacksSet
  <2>1. nextClientId \in Ids
    BY <1>2, ServerAssumption
    DEF TcpOnConnection, TypeInv, TypeOK, Positions, Registering, IdsTaken,
        TcpTypeOK, Ids, S!Ids
  <2>2. ~S!Announced(nextClientId)
    BY <2>1 DEF SessionInv, Counted
  <2>3. S!Issued(nextClientId)
    <3>1. \A lower \in 0 .. nextClientId - 1 : lower \in Ids /\ lower < nextClientId
      BY <2>1, ServerAssumption DEF Ids, S!Ids
    <3>. QED  BY <3>1 DEF S!Issued, SessionInv, AnnouncedInv
  <2>4. S!Open(nextClientId)
    BY <1>2, <2>2, <2>3 DEF S!Open, S!Invoke, Notify
  <2>. QED  BY <2>1, <2>4 DEF S!Next, Ids
<1>3. CASE /\ TcpOnMessage
           /\ Notify("tcpMessage", tcpId, phase[tcpId])
           /\ UNCHANGED callbacksSet
  <2>1. /\ tcpId \in Ids /\ At("tcp", "onMessage")
        /\ clients[tcpId] # Absent /\ Polling(clients[tcpId])
    <3>1. tcpId \in Ids /\ At("tcp", "onMessage")
      BY <1>3 DEF TcpOnMessage, TypeInv, Positions
    <3>2. Polled \in Conns /\ i \in 1 .. Len(pollFds) /\ Polled = pollFds[i]
      BY <3>1, PolledType DEF Polled
    <3>3. clients[tcpId] = Polled
      BY <3>1 DEF RegistryInv, Polls
    <3>. QED  BY <3>1, <3>2, <3>3, ServerAssumption DEF Polling
  <2>2. ~(At("main", "erase") /\ tcpId = Leaving)
    <3>. SUFFICES ASSUME At("main", "erase"), tcpId = Leaving PROVE FALSE
      OBVIOUS
    <3>1. Leaving = disconnectionQueue[1] /\ 1 \in 1 .. Len(disconnectionQueue)
      BY DEF Leaving
    <3>2. ~Leaves(clients[tcpId])
      BY <2>1 DEF Leaves
    <3>. QED  BY <2>1, <3>1, <3>2 DEF RegistryInv, Queued
  <2>3. phase[tcpId] = "open"
    BY <2>1, <2>2 DEF SessionInv, OpenEntries
  <2>4. S!TcpMessage(tcpId)
    BY <1>3, <2>1, <2>3 DEF S!TcpMessage, S!Invoke, Notify
  <2>. QED  BY <2>1, <2>4 DEF S!Next, Ids
<1>4. CASE /\ MainOnDisconnection
           /\ Notify("disconnection", Leaving, "closed")
           /\ UNCHANGED callbacksSet
  <2>1. /\ Leaving = disconnectionQueue[1] /\ 1 \in 1 .. Len(disconnectionQueue)
        /\ Leaving \in Ids /\ At("main", "onDisconnection")
    BY <1>4, LeavingType DEF MainOnDisconnection, TypeInv, Positions, Leaving
  <2>2. clients[Leaving] # Absent /\ Leaving < nextClientId
    BY <2>1 DEF RegistryInv, Queued
  <2>3. phase[Leaving] = "open"
    BY <2>1, <2>2 DEF SessionInv, OpenEntries
  <2>4. S!Close(Leaving)
    BY <1>4, <2>3 DEF S!Close, S!Invoke, Notify
  <2>. QED  BY <2>1, <2>4 DEF S!Next, Ids
<1>5. CASE /\ UdpDeliver
           /\ Notify("udpMessage", udpId, phase[udpId])
           /\ UNCHANGED callbacksSet
  <2>1. udpId \in Ids /\ udpId <= nextClientId
    BY <1>5 DEF UdpDeliver, TypeInv, Positions, SessionInv, GivenOut
  <2>2. S!Issued(udpId)
    <3>1. \A lower \in 0 .. udpId - 1 : lower \in Ids /\ lower < nextClientId
      BY <2>1, ServerAssumption DEF Ids, S!Ids
    <3>. QED  BY <3>1 DEF S!Issued, SessionInv, AnnouncedInv
  <2>3. S!UdpMessage(udpId)
    BY <1>5, <2>1, <2>2 DEF S!UdpMessage, S!Invoke, Notify
  <2>. QED  BY <2>1, <2>3 DEF S!Next, Ids
<1>6. CASE AppSetCallback
  BY <1>6 DEF AppSetCallback, S!Next, S!SetCallback
<1>7. ~TcpOnConnectionThrows /\ ~MainOnDisconnectionThrows
  BY DEF TcpOnConnectionThrows, MainOnDisconnectionThrows, MayThrow
<1>. QED  BY <1>1, <1>2, <1>3, <1>4, <1>5, <1>6, <1>7, WhoCallsBack

(* The server implements Sessions: whatever its threads do to each other,  *)
(* however the lookups of the unlocked map miss and whenever the callbacks *)
(* are set, the application sees ids announced in turn, each session       *)
(* opened once and closed at most once, and TCP packets of open sessions   *)
(* only.                                                                   *)
THEOREM ServerImplementsSessions ==
    ASSUME Throws = {}, FdLimit <= IdModulus
    PROVE  Spec => SessionsSpec
<1>1. Init => SessionInv /\ S!Init
  BY SessionInit DEF Init
<1>2. IInv /\ SessionInv /\ [Next]_vars => SessionInv'
  BY SessionStep
<1>3. IInv /\ SessionInv /\ [Next]_vars
        => [S!Next]_<<phase, cb, callbacksSet>>
  BY SessionSimulation
<1>. QED  BY <1>1, <1>2, <1>3, InvariantHolds, PTL
          DEF Spec, SessionsSpec, S!Spec

-----------------------------------------------------------------------------
(* Conversely, the client of an open session is in the map: it enters it   *)
(* before onConnection and leaves it after onDisconnection.                *)

OpenInv ==
    /\ At("main", "erase") => phase[Leaving] = "closed"
    /\ At("tcp", "onConnection") => clients[nextClientId] # Absent
    /\ \A id \in Ids : phase[id] = "open" => clients[id] # Absent

LEMMA OpenInit == Init => OpenInv
  BY DEF Init, S!Init, OpenInv, Ids

LEMMA OpenFrame ==
    ASSUME OpenInv, UNCHANGED <<registryVars, phase>>,
           At("main", "erase")' => At("main", "erase"),
           At("tcp", "onConnection")' => At("tcp", "onConnection")
    PROVE  OpenInv'
  BY DEF OpenInv, Leaving

LEMMA OpenTcpStep ==
    ASSUME Throws = {}, IInv, SessionInv, OpenInv, TcpNext
    PROVE  OpenInv'
<1>. USE SessionTypes DEF IInv
<1>1. ASSUME NEW to, Goto("tcp", to), to # "onConnection",
             UNCHANGED <<registryVars, phase>>
      PROVE  OpenInv'
  BY <1>1, OpenFrame
<1>2. CASE TcpPoll \/ TcpExit \/ TcpAccept \/ TcpAcceptFails \/ TcpScanEnds
  BY <1>1, <1>2 DEF TcpPoll, TcpExit, TcpAccept, TcpAcceptFails, TcpScanEnds
<1>3. ASSUME NEW k \in 1 .. Len(pollFds), TcpScanFinds(k)
      PROVE  OpenInv'
  BY <1>1, <1>3 DEF TcpScanFinds
<1>4. CASE TcpReadHeader \/ TcpReadStopped \/ TcpReadBody \/ TcpReadFails
  BY <1>1, <1>4 DEF TcpReadHeader, TcpReadStopped, TcpReadBody, TcpReadFails
<1>5. CASE TcpDeliver \/ TcpFindsClient \/ TcpOnMessage \/ TcpDrops
  <2>1. CASE TcpOnMessage
    <3>1. phase' = phase
      BY <2>1, NotifyMessage DEF TcpOnMessage, TypeInv, TypeOK, Positions
    <3>. QED  BY <1>1, <2>1, <3>1 DEF TcpOnMessage
  <2>. QED  BY <1>1, <1>5, <2>1 DEF TcpDeliver, TcpFindsClient, TcpDrops
<1>6. CASE TcpDisconnect \/ TcpIdentify \/ TcpDisconnectFails \/ TcpUnpoll
  BY <1>1, <1>6 DEF TcpDisconnect, TcpIdentify, TcpDisconnectFails, TcpUnpoll
<1>7. At("main", "erase") => Leaving \in Ids /\ Leaving < nextClientId
  <2>. HAVE At("main", "erase")
  <2>1. Leaving = disconnectionQueue[1] /\ 1 \in 1 .. Len(disconnectionQueue)
    BY DEF Leaving
  <2>. QED  BY <2>1 DEF RegistryInv, Queued
<1>8. CASE TcpRegister
  <2>1. Last(pollFds) \in Conns /\ Last(pollFds) # Absent
    BY <1>8, ServerAssumption
    DEF TcpRegister, TypeInv, TypeOK, TcpTypeOK, Positions, Last
  <2>2. nextClientId \in Ids
    BY <1>8, ServerAssumption
    DEF TcpRegister, TypeInv, TypeOK, Positions, Registering, IdsTaken,
        TcpTypeOK, Ids, S!Ids
  <2>3. /\ clients' = [clients EXCEPT ![nextClientId] = Last(pollFds)]
        /\ UNCHANGED <<nextClientId, disconnectionQueue, phase>>
        /\ pc'["main"] = pc["main"]
    BY <1>8 DEF TcpRegister
  <2>. QED  BY <2>1, <2>2, <2>3 DEF OpenInv, Leaving
<1>9. CASE TcpOnConnection
  <2>1. nextClientId \in Ids
    BY <1>9, ServerAssumption
    DEF TcpOnConnection, TypeInv, TypeOK, Positions, Registering, IdsTaken,
        TcpTypeOK, Ids, S!Ids
  <2>2. /\ phase' = [phase EXCEPT ![nextClientId] = "open"]
        /\ UNCHANGED <<clients, disconnectionQueue>>
        /\ At("tcp", "onConnection") /\ ~At("tcp", "onConnection")'
        /\ pc'["main"] = pc["main"]
    BY <1>9 DEF TcpOnConnection, Notify
  <2>3. At("main", "erase") => phase'[Leaving] = phase[Leaving]
    BY <1>7, <2>1, <2>2
  <2>. QED  BY <2>1, <2>2, <2>3 DEF OpenInv, Leaving
<1>10. CASE TcpPush
  <2>1. /\ UNCHANGED <<clients, nextClientId, phase>>
        /\ ~At("tcp", "onConnection")'
        /\ pc'["main"] = pc["main"]
    BY <1>10 DEF TcpPush
  <2>2. At("main", "erase") => Leaving' = Leaving
    <3>. HAVE At("main", "erase")
    <3>1. disconnectionQueue' = Append(disconnectionQueue, tcpId % IdModulus)
      BY <1>10 DEF TcpPush
    <3>. QED  BY <3>1 DEF Leaving
  <2>. QED  BY <2>1, <2>2 DEF OpenInv
<1>11. ~TcpOnConnectionThrows
  BY DEF TcpOnConnectionThrows, MayThrow
<1>. QED
  BY <1>2, <1>3, <1>4, <1>5, <1>6, <1>8, <1>9, <1>10, <1>11 DEF TcpNext

LEMMA OpenMainStep ==
    ASSUME Throws = {}, IInv, SessionInv, OpenInv, MainNext
    PROVE  OpenInv'
<1>. USE SessionTypes DEF IInv
<1>1. CASE MainOuter \/ MainQueueEmpty \/ MainFindsClient \/ MainQuits
  BY <1>1, OpenFrame
  DEF MainOuter, MainQueueEmpty, MainFindsClient, MainQuits
<1>2. CASE MainOnDisconnection
  <2>1. disconnectionQueue # <<>> /\ Leaving \in Ids
    BY <1>2, LeavingType DEF MainOnDisconnection, TypeInv, Positions
  <2>2. /\ phase' = [phase EXCEPT ![Leaving] = "closed"]
        /\ UNCHANGED registryVars
        /\ pc'["tcp"] = pc["tcp"]
    BY <1>2 DEF MainOnDisconnection, Notify
  <2>. QED  BY <2>1, <2>2 DEF OpenInv, Leaving
<1>3. CASE MainErase
  <2>1. /\ Leaving \in Ids /\ Leaving < nextClientId
        /\ phase[Leaving] = "closed"
    <3>1. At("main", "erase")
      BY <1>3 DEF MainErase
    <3>2. Leaving = disconnectionQueue[1] /\ 1 \in 1 .. Len(disconnectionQueue)
      BY <3>1 DEF Leaving
    <3>. QED  BY <3>1, <3>2 DEF OpenInv, RegistryInv, Queued
  <2>2. /\ clients' = [clients EXCEPT ![Leaving] = Absent]
        /\ UNCHANGED <<nextClientId, phase>>
        /\ pc'["tcp"] = pc["tcp"] /\ ~At("main", "erase")'
    BY <1>3 DEF MainErase
  <2>. QED  BY <2>1, <2>2 DEF OpenInv
<1>4. CASE MainPop
  BY <1>4 DEF MainPop, OpenInv
<1>5. ~MainOnDisconnectionThrows
  BY DEF MainOnDisconnectionThrows, MayThrow
<1>. QED  BY <1>1, <1>2, <1>3, <1>4, <1>5 DEF MainNext

LEMMA OpenStep ==
    ASSUME Throws = {}, IInv, SessionInv, OpenInv, [Next]_vars
    PROVE  OpenInv'
<1>. USE SessionTypes DEF IInv
<1>1. CASE UdpNext
  <2>1. phase' = phase
    <3>1. CASE UdpDeliver
      BY <3>1, NotifyMessage DEF UdpDeliver, TypeInv, TypeOK, Positions
    <3>. QED
      BY <1>1, <3>1 DEF UdpNext, UdpReceive, UdpFindsClient, UdpDrops, UdpExit
  <2>2. /\ UNCHANGED registryVars
        /\ pc'["tcp"] = pc["tcp"] /\ pc'["main"] = pc["main"]
    BY <1>1
    DEF UdpNext, UdpReceive, UdpFindsClient, UdpDrops, UdpDeliver, UdpExit
  <2>. QED  BY <2>1, <2>2, OpenFrame
<1>2. CASE AppNext
  <2>1. UNCHANGED <<registryVars, phase>>
    BY <1>2
    DEF AppNext, AppInitialize, AppCreateTcp, AppCreateUdp, AppSetCallback,
        AppStop, AppDestroy, AppShutdown, AppStopTcp, AppJoinTcp, AppJoinUdp,
        AppJoinMain, AppClears
  <2>2. /\ pc'["main"] \in {pc["main"], "outer"}
        /\ pc'["tcp"] \in {pc["tcp"], "poll"}
    BY <1>2
    DEF AppNext, AppInitialize, AppCreateTcp, AppCreateUdp, AppSetCallback,
        AppStop, AppDestroy, AppShutdown, AppStopTcp, AppJoinTcp, AppJoinUdp,
        AppJoinMain, AppClears
  <2>. QED  BY <2>1, <2>2, OpenFrame
<1>3. CASE PeerNext \/ Finished \/ UNCHANGED vars
  BY <1>3, OpenFrame DEF PeerNext, Finished, vars
<1>. QED  BY <1>1, <1>2, <1>3, OpenTcpStep, OpenMainStep DEF Next
=============================================================================
