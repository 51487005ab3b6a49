---------------------------- MODULE BroadcastProofs ----------------------------
(***************************************************************************)
(* Proofs about module Broadcast.  To the threads of the server an empty   *)
(* entry is as good as none: with these taken away, what Broadcast does is *)
(* what Server does, and all that SessionProofs has shown of it holds.     *)
(***************************************************************************)
EXTENDS Broadcast, TLAPS

(* The map as the lookups of Tcp and Udp see it.                           *)
Visible == [id \in Ids |-> IF clients[id] = Null THEN Absent ELSE clients[id]]

V == INSTANCE SessionProofs WITH clients <- Visible

(* A lookup takes an empty entry for a client.  Server has no such steps.  *)
MeetsPhantom ==
    /\ UNCHANGED <<netVars, tcpVars, sharedVars>>
    /\ \/ /\ Step("main", "inner", "onDisconnection")
          /\ disconnectionQueue # <<>>
          /\ clients[Leaving] = Null
       \/ /\ Step("tcp", "find", "onMessage")
          /\ clients[tcpId] = Null
       \/ /\ Step("udp", "find", "deliver")
          /\ clients[udpId] = Null

(* A call ends the process.                                                *)
Dies ==
    /\ Terminate
    /\ UNCHANGED <<netVars, tcpVars, Visible, nextClientId, disconnectionQueue,
                   observed, appVars, udpId>>

Holding == step \in {"lookup", "endpoint", "send"}

(* Past find(), a call has an id in its list; it has served those before.  *)
CallInv ==
    /\ Holding => at <= Len(call.ids)
    /\ Len(served) = at - 1
    /\ step = "send" => target \in Conns
    /\ step = "none" => at = 1

(* A process that has ended has no thread that goes on.                    *)
DeadInv == At("app", "dead") => \A t \in Threads : At(t, "dead")

TypedInv == V!TypeInv /\ BroadcastTypeOK /\ CallInv /\ DeadInv

-----------------------------------------------------------------------------
USE DEF At, Goto, Step, Threads, AppLabels, MainLabels, TcpLabels, UdpLabels,
        sharedVars, tcpVars, registryVars, observed, appVars, netVars,
        V!At, V!Goto, V!Step, V!Threads, V!AppLabels, V!MainLabels,
        V!TcpLabels, V!UdpLabels, V!sharedVars, V!tcpVars, V!registryVars,
        V!observed, V!appVars, V!netVars, V!InHand, V!Serving

LEMMA SameIds == V!Ids = Ids /\ Absent = V!Absent /\ Null # Absent
  BY DEF Ids, S!Ids, V!Ids, V!S!Ids, Absent, V!Absent, Null

LEMMA SameClients ==
    ASSUME NEW c \in Conns
    PROVE  (V!Registered(c) <=> Registered(c)) /\ V!IdOf(c) = IdOf(c)
<1>1. \A id \in Ids : (clients[id] = c) <=> (Visible[id] = c)
  BY ServerAssumption, BroadcastAssumption DEF Visible
<1>. QED
  BY <1>1, SameIds DEF Registered, V!Registered, IdOf, V!IdOf

LEMMA SameMisses ==
    ASSUME NEW t, NEW c \in Conns
    PROVE  Misses(t, c) <=> V!Misses(t, c)
  BY SameClients
  DEF Misses, V!Misses, MayMiss, V!MayMiss, Mutating, V!Mutating, InApplication,
      V!InApplication

LEMMA VisibleFrame == clients' = clients => Visible' = Visible
  BY DEF Visible

LEMMA SameEntry ==
    ASSUME NEW id \in Ids, NEW entry, entry # Null,
           clients \in [Ids -> Conns \cup {Absent, Null}],
           clients' = [clients EXCEPT ![id] = entry]
    PROVE  Visible' = [Visible EXCEPT ![id] = entry]
  BY DEF Visible

LEMMA SameNotify ==
    ASSUME NEW kind, NEW id, NEW newPhase
    PROVE  Notify(kind, id, newPhase) <=> V!Notify(kind, id, newPhase)
  BY DEF Notify, V!Notify, S!UserCallback, V!S!UserCallback

LEMMA TcpSimulation ==
    ASSUME V!TypeInv, clients \in [Ids -> Conns \cup {Absent, Null}], TcpNext
    PROVE  V!TcpNext \/ MeetsPhantom
<1>. USE VisibleFrame, SameIds
<1>1. CASE TcpPoll
  BY <1>1
  DEF TcpPoll, V!TcpPoll, V!TcpNext, Reported, V!Reported, PollEvents,
      V!PollEvents, ListenerReady, V!ListenerReady, Range, V!Range
<1>2. CASE TcpExit
  BY <1>2 DEF TcpExit, V!TcpExit, V!TcpNext
<1>3. CASE TcpAccept
  BY <1>3 DEF TcpAccept, V!TcpAccept, V!TcpNext
<1>4. CASE TcpAcceptFails
  BY <1>4 DEF TcpAcceptFails, V!TcpAcceptFails, V!TcpNext
<1>5. CASE TcpRegister
  <2>1. nextClientId \in Ids /\ Last(pollFds) \in Conns
    BY <1>5, ServerAssumption, SameIds
    DEF TcpRegister, V!TypeInv, V!TypeOK, V!Positions, V!Registering,
        V!IdsTaken, V!TcpTypeOK, V!RegistryTypeOK, Ids, S!Ids, Last
  <2>2. Visible' = [Visible EXCEPT ![nextClientId] = V!Last(pollFds)]
    BY <1>5, <2>1, SameEntry, BroadcastAssumption
    DEF TcpRegister, Last, V!Last
  <2>. QED  BY <1>5, <2>2 DEF TcpRegister, V!TcpRegister, V!TcpNext
<1>6. CASE TcpOnConnection
  BY <1>6, SameNotify DEF TcpOnConnection, V!TcpOnConnection, V!TcpNext
<1>7. CASE TcpOnConnectionThrows
  BY <1>7, SameNotify
  DEF TcpOnConnectionThrows, V!TcpOnConnectionThrows, V!TcpNext, MayThrow,
      V!MayThrow
<1>8. CASE TcpScanEnds
  BY <1>8 DEF TcpScanEnds, V!TcpScanEnds, V!TcpNext, Pending, V!Pending
<1>9. ASSUME NEW k \in 1 .. Len(pollFds), TcpScanFinds(k) PROVE V!TcpNext
  <2>1. V!NextPending(k)
    BY <1>9
    DEF TcpScanFinds, NextPending, V!NextPending, Pending, V!Pending
  <2>2. pollFds[k] \in Conns
    BY DEF V!TypeInv, V!TypeOK, V!TcpTypeOK
  <2>3. Misses("tcp", pollFds[k]) <=> V!Misses("tcp", pollFds[k])
    BY <2>2, SameMisses
  <2>4. V!TcpScanFinds(k)
    BY <1>9, <2>1, <2>2, <2>3, SameClients DEF TcpScanFinds, V!TcpScanFinds
  <2>. QED  BY <2>4 DEF V!TcpNext
<1>10. CASE TcpReadHeader
  BY <1>10
  DEF TcpReadHeader, V!TcpReadHeader, V!TcpNext, RecvPiece, V!RecvPiece,
      RecvEnd, V!RecvEnd, Polled, V!Polled
<1>11. CASE TcpReadStopped
  BY <1>11 DEF TcpReadStopped, V!TcpReadStopped, V!TcpNext
<1>12. CASE TcpReadBody
  BY <1>12
  DEF TcpReadBody, V!TcpReadBody, V!TcpNext, RecvPiece, V!RecvPiece,
      RecvEnd, V!RecvEnd, Polled, V!Polled
<1>13. CASE TcpReadFails
  BY <1>13
  DEF TcpReadFails, V!TcpReadFails, V!TcpNext, RecvError, V!RecvError, Polled,
      V!Polled
<1>. DEFINE lookups == {"deliver", "disconnect", "identify"}
<1>14. ASSUME pc["tcp"] \in lookups
       PROVE  /\ V!Polled = Polled
              /\ Registered(Polled) <=> V!Registered(Polled)
              /\ IdOf(Polled) = V!IdOf(Polled)
              /\ Misses("tcp", Polled) <=> V!Misses("tcp", Polled)
  <2>1. Polled \in Conns /\ V!Polled = Polled
    BY <1>14 DEF V!TypeInv, V!TypeOK, V!TcpTypeOK, V!Positions, Polled, V!Polled
  <2>. QED  BY <2>1, SameMisses, SameClients
<1>15. CASE TcpDeliver
  BY <1>14, <1>15 DEF TcpDeliver, V!TcpDeliver, V!TcpNext
<1>16. CASE TcpFindsClient
  <2>1. tcpId \in Ids
    BY <1>16 DEF TcpFindsClient, V!TypeInv, V!Positions
  <2>2. clients[tcpId] # Null => Visible[tcpId] # Absent
    BY <1>16, <2>1 DEF TcpFindsClient, Visible
  <2>. QED
    BY <1>16, <2>2 DEF TcpFindsClient, V!TcpFindsClient, V!TcpNext, MeetsPhantom
<1>17. CASE TcpOnMessage
  BY <1>17, SameNotify DEF TcpOnMessage, V!TcpOnMessage, V!TcpNext
<1>18. CASE TcpDrops
  <2>1. At("tcp", "find") => tcpId \in Ids
    BY DEF V!TypeInv, V!Positions
  <2>2. At("tcp", "find") /\ clients[tcpId] = Absent => Visible[tcpId] = Absent
    BY <2>1 DEF Visible
  <2>3. MayMiss("tcp") <=> V!MayMiss("tcp")
    BY DEF MayMiss, V!MayMiss, Mutating, V!Mutating, InApplication,
           V!InApplication
  <2>. QED
    BY <1>14, <1>18, <2>2, <2>3 DEF TcpDrops, V!TcpDrops, V!TcpNext
<1>19. CASE TcpDisconnect
  BY <1>14, <1>19 DEF TcpDisconnect, V!TcpDisconnect, V!TcpNext
<1>20. CASE TcpIdentify
  BY <1>14, <1>20 DEF TcpIdentify, V!TcpIdentify, V!TcpNext
<1>21. CASE TcpDisconnectFails
  BY <1>14, <1>21 DEF TcpDisconnectFails, V!TcpDisconnectFails, V!TcpNext
<1>22. CASE TcpPush
  BY <1>22 DEF TcpPush, V!TcpPush, V!TcpNext
<1>23. CASE TcpUnpoll
  <2>1. WithoutEntry(i) = V!WithoutEntry(i) /\ IndexAfterErase = V!IndexAfterErase
    BY DEF WithoutEntry, V!WithoutEntry, RemoveAt, V!RemoveAt, IndexAfterErase,
       V!IndexAfterErase
  <2>. QED  BY <1>23, <2>1 DEF TcpUnpoll, V!TcpUnpoll, V!TcpNext
<1>. QED
  BY <1>1, <1>2, <1>3, <1>4, <1>5, <1>6, <1>7, <1>8, <1>9, <1>10, <1>11, <1>12,
     <1>13, <1>15, <1>16, <1>17, <1>18, <1>19, <1>20, <1>21, <1>22, <1>23
  DEF TcpNext

LEMMA MainSimulation ==
    ASSUME V!TypeInv, clients \in [Ids -> Conns \cup {Absent, Null}], MainNext
    PROVE  V!MainNext \/ MeetsPhantom
<1>. USE VisibleFrame, SameIds
<1>1. CASE MainOuter
  BY <1>1 DEF MainOuter, V!MainOuter, V!MainNext
<1>2. CASE MainQueueEmpty
  BY <1>2 DEF MainQueueEmpty, V!MainQueueEmpty, V!MainNext
<1>3. CASE MainFindsClient
  <2>1. Leaving \in Ids /\ V!Leaving = Leaving
    BY <1>3
    DEF MainFindsClient, V!TypeInv, V!TypeOK, V!RegistryTypeOK, Leaving,
        V!Leaving
  <2>2. clients[Leaving] # Null => Visible[Leaving] # Absent
    BY <1>3, <2>1 DEF MainFindsClient, Visible
  <2>. QED
    BY <1>3, <2>1, <2>2
    DEF MainFindsClient, V!MainFindsClient, V!MainNext, MeetsPhantom
<1>4. CASE MainQuits
  <2>1. Leaving \in Ids /\ V!Leaving = Leaving
    BY <1>4
    DEF MainQuits, V!TypeInv, V!TypeOK, V!RegistryTypeOK, Leaving, V!Leaving
  <2>2. clients[Leaving] = Absent => Visible[Leaving] = Absent
    BY <2>1 DEF Visible
  <2>. QED
    BY <1>4, <2>1, <2>2
    DEF MainQuits, V!MainQuits, V!MainNext, MayMiss, V!MayMiss, Mutating,
        V!Mutating, InApplication, V!InApplication
<1>5. CASE MainOnDisconnection
  BY <1>5, SameNotify
  DEF MainOnDisconnection, V!MainOnDisconnection, V!MainNext, Leaving, V!Leaving
<1>6. CASE MainOnDisconnectionThrows
  BY <1>6, SameNotify
  DEF MainOnDisconnectionThrows, V!MainOnDisconnectionThrows, V!MainNext,
      MayThrow, V!MayThrow, Terminate, V!Terminate, Leaving, V!Leaving
<1>7. CASE MainErase
  <2>1. Leaving \in Ids /\ V!Leaving = Leaving
    BY <1>7
    DEF MainErase, V!TypeInv, V!TypeOK, V!RegistryTypeOK, V!Positions, Leaving,
        V!Leaving
  <2>2. Visible' = [Visible EXCEPT ![Leaving] = Absent]
    BY <1>7, <2>1, SameEntry DEF MainErase
  <2>. QED  BY <1>7, <2>1, <2>2 DEF MainErase, V!MainErase, V!MainNext
<1>8. CASE MainPop
  BY <1>8 DEF MainPop, V!MainPop, V!MainNext
<1>. QED  BY <1>1, <1>2, <1>3, <1>4, <1>5, <1>6, <1>7, <1>8 DEF MainNext

LEMMA UdpSimulation ==
    ASSUME V!TypeInv, clients \in [Ids -> Conns \cup {Absent, Null}], UdpNext
    PROVE  V!UdpNext \/ MeetsPhantom
<1>. USE VisibleFrame, SameIds
<1>1. ASSUME NEW endpoint \in Endpoints, UdpReceive(endpoint) PROVE V!UdpNext
  <2>1. PICK id \in Ids : /\ clients[id] \in Conns
                          /\ EndpointOf[clients[id]] = endpoint
                          /\ udpId' = id
    BY <1>1 DEF UdpReceive
  <2>2. Visible[id] = clients[id]
    BY <2>1, BroadcastAssumption DEF Visible
  <2>3. V!UdpReceive(endpoint)
    BY <1>1, <2>1, <2>2 DEF UdpReceive, V!UdpReceive
  <2>. QED  BY <2>3 DEF V!UdpNext
<1>2. CASE UdpFindsClient
  <2>1. udpId \in Ids
    BY <1>2 DEF UdpFindsClient, V!TypeInv, V!Positions
  <2>2. clients[udpId] # Null => Visible[udpId] # Absent
    BY <1>2, <2>1 DEF UdpFindsClient, Visible
  <2>. QED
    BY <1>2, <2>2 DEF UdpFindsClient, V!UdpFindsClient, V!UdpNext, MeetsPhantom
<1>3. CASE UdpDrops
  <2>1. udpId \in Ids
    BY <1>3 DEF UdpDrops, V!TypeInv, V!Positions
  <2>2. clients[udpId] = Absent => Visible[udpId] = Absent
    BY <2>1 DEF Visible
  <2>. QED
    BY <1>3, <2>2
    DEF UdpDrops, V!UdpDrops, V!UdpNext, MayMiss, V!MayMiss, Mutating,
        V!Mutating, InApplication, V!InApplication
<1>4. CASE UdpDeliver
  BY <1>4, SameNotify DEF UdpDeliver, V!UdpDeliver, V!UdpNext
<1>5. CASE UdpExit
  BY <1>5 DEF UdpExit, V!UdpExit, V!UdpNext
<1>. QED  BY <1>1, <1>2, <1>3, <1>4, <1>5 DEF UdpNext

LEMMA AppSimulation ==
    ASSUME AppNext
    PROVE  V!AppNext
<1>. USE VisibleFrame DEF AppClears, V!AppClears, Ended, V!Ended
<1>1. CASE AppInitialize
  BY <1>1 DEF AppInitialize, V!AppInitialize, V!AppNext
<1>2. CASE AppCreateTcp \/ AppCreateUdp
  BY <1>2
  DEF AppCreateTcp, V!AppCreateTcp, AppCreateUdp, V!AppCreateUdp, V!AppNext
<1>3. CASE AppSetCallback
  BY <1>3
  DEF AppSetCallback, V!AppSetCallback, V!AppNext, S!UserCallbacks,
      V!S!UserCallbacks
<1>4. CASE AppStop \/ AppDestroy
  BY <1>4 DEF AppStop, V!AppStop, AppDestroy, V!AppDestroy, V!AppNext
<1>5. CASE AppStopTcp \/ AppJoinTcp
  BY <1>5
  DEF AppStopTcp, V!AppStopTcp, AppJoinTcp, V!AppJoinTcp, V!AppShutdown,
      V!AppNext
<1>6. CASE AppJoinUdp \/ AppJoinMain
  BY <1>6
  DEF AppJoinUdp, V!AppJoinUdp, AppJoinMain, V!AppJoinMain, V!AppShutdown,
      V!AppNext
<1>. QED  BY <1>1, <1>2, <1>3, <1>4, <1>5, <1>6 DEF AppNext, AppShutdown

LEMMA PeerSimulation ==
    ASSUME PeerNext
    PROVE  V!PeerNext
<1>1. PICK c \in Conns :
        \/ PeerConnect(c)
        \/ Served(c) /\ (\/ PieceArrives(c) \/ PartArrives(c) \/ PeerClose(c)
                         \/ PeerAbort(c) \/ PeerVanish(c))
  BY DEF PeerNext
<1>2. Served(c) <=> V!Served(c)
  BY DEF Served, V!Served, Range, V!Range
<1>3. PeerConnect(c) => V!PeerConnect(c)
  BY DEF PeerConnect, V!PeerConnect
<1>4. PieceArrives(c) => V!PieceArrives(c)
  BY DEF PieceArrives, V!PieceArrives, NextPieces, V!NextPieces, Settled,
     V!Settled, Last, V!Last, Front, V!Front
<1>5. PartArrives(c) => V!PartArrives(c)
  BY DEF PartArrives, V!PartArrives, Settled, V!Settled, Last, V!Last, Front,
     V!Front
<1>6. /\ PeerClose(c) => V!PeerClose(c)
      /\ PeerAbort(c) => V!PeerAbort(c)
      /\ PeerVanish(c) => V!PeerVanish(c)
  BY DEF PeerClose, V!PeerClose, PeerAbort, V!PeerAbort, PeerVanish,
         V!PeerVanish
<1>7. ~V!Over /\ ~V!At("tcp", "off")
  BY DEF PeerNext, Over, V!Over
<1>8. UNCHANGED <<V!tcpVars, V!sharedVars, pc>>
  BY VisibleFrame DEF PeerNext
<1>. QED
  BY <1>1, <1>2, <1>3, <1>4, <1>5, <1>6, <1>7, <1>8 DEF V!PeerNext

LEMMA ServerSimulation ==
    ASSUME TypedInv, ServerNext
    PROVE  V!Next \/ MeetsPhantom
<1>1. Finished => V!Finished
  BY VisibleFrame DEF Finished, V!Finished, Over, V!Over, vars, V!vars
<1>. QED
  BY <1>1, TcpSimulation, MainSimulation, UdpSimulation, AppSimulation,
     PeerSimulation
  DEF ServerNext, V!Next, TypedInv, BroadcastTypeOK

LEMMA SubscriptsKeepsVisible ==
    ASSUME TypedInv, Holding, Subscripts
    PROVE  Visible' = Visible
<1>1. Id \in Ids
  BY DEF TypedInv, BroadcastTypeOK, CallInv, Id
<1>. QED  BY <1>1, SameIds DEF TypedInv, BroadcastTypeOK, Subscripts, Visible

LEMMA SenderSimulation ==
    ASSUME TypedInv, SenderNext
    PROVE  UNCHANGED V!vars \/ Dies
<1>1. CASE \E t \in Callers : Calls(t)
  BY <1>1, VisibleFrame DEF Calls, vars, V!vars
<1>2. CASE Finds
  BY <1>2, VisibleFrame DEF Finds, vars, V!vars
<1>3. CASE LooksUp
  <2>1. Visible' = Visible
    BY <1>3, SubscriptsKeepsVisible DEF LooksUp, Holding
  <2>. QED
    BY <1>3, <2>1 DEF LooksUp, Subscripts, Crashes, Dies, V!vars
<1>4. CASE TakesEndpoint
  <2>1. Visible' = Visible
    BY <1>4, SubscriptsKeepsVisible DEF TakesEndpoint, Holding
  <2>. QED
    BY <1>4, <2>1 DEF TakesEndpoint, Subscripts, Crashes, Dies, V!vars
<1>5. CASE Sends
  BY <1>5, VisibleFrame DEF Sends, Crashes, Dies, V!vars
<1>. QED  BY <1>1, <1>2, <1>3, <1>4, <1>5 DEF SenderNext

(* Whatever sendToClients does, the server goes on as Server says, meets   *)
(* an empty entry, or is over.                                             *)
LEMMA Simulation ==
    ASSUME TypedInv, [BroadcastNext]_bcVars
    PROVE  [V!Next]_(V!vars) \/ MeetsPhantom \/ Dies
<1>1. UNCHANGED bcVars => UNCHANGED V!vars
  BY VisibleFrame DEF bcVars, vars, V!vars
<1>. QED  BY <1>1, ServerSimulation, SenderSimulation DEF BroadcastNext

-----------------------------------------------------------------------------
(* Type correctness.                                                       *)

LEMMA PhantomKeepsTypes ==
    ASSUME V!TypeInv, MeetsPhantom
    PROVE  V!TypeInv'
<1>1. UNCHANGED <<V!netVars, V!tcpVars, V!sharedVars>>
  BY VisibleFrame DEF MeetsPhantom
<1>2. V!PcTypeOK'
  BY DEF MeetsPhantom, V!TypeInv, V!TypeOK, V!PcTypeOK
<1>3. V!Positions'
  <2>. USE DEF V!TypeInv, V!TypeOK, V!PcTypeOK, V!Positions
  <2>1. /\ UNCHANGED <<pollFds, i, backlog, disconnectionQueue, openFds>>
        /\ UNCHANGED <<nextClientId, udpId, tcpId>>
        /\ pc'["app"] = pc["app"]
        /\ \/ pc'["tcp"] = pc["tcp"]
           \/ pc["tcp"] = "find" /\ pc'["tcp"] = "onMessage"
    BY DEF MeetsPhantom
  <2>2. \/ pc'["main"] = pc["main"]
        \/ At("main", "inner") /\ At("main", "onDisconnection")'
           /\ disconnectionQueue # <<>>
    BY DEF MeetsPhantom
  <2>3. \/ pc'["udp"] = pc["udp"]
        \/ At("udp", "find")
    BY DEF MeetsPhantom
  <2>4. V!IdsTaken' = V!IdsTaken
    BY <2>1 DEF V!IdsTaken, V!Registering
  <2>. QED
    BY <2>1, <2>2, <2>3, <2>4, SameIds
<1>. QED
  BY <1>1, <1>2, <1>3, V!ControlTypeStep, NetworkAssumption, ServerAssumption,
     SameIds

LEMMA DeathKeepsTypes ==
    ASSUME V!TypeInv, Dies
    PROVE  V!TypeInv'
<1>1. UNCHANGED <<V!netVars, V!tcpVars, V!sharedVars>>
  BY DEF Dies
<1>2. pc' = [t \in Threads |-> "dead"]
  BY DEF Dies, Terminate
<1>3. V!PcTypeOK'
  BY <1>2 DEF V!PcTypeOK
<1>4. V!Positions'
  <2>1. V!IdsTaken' <= openFds'
    BY <1>1, <1>2, ServerAssumption
    DEF V!TypeInv, V!TypeOK, V!RegistryTypeOK, V!TcpTypeOK, V!Positions,
        V!IdsTaken, V!Registering
  <2>. QED  BY <1>2, <2>1 DEF V!Positions
<1>. QED
  BY <1>1, <1>3, <1>4, V!ControlTypeStep, NetworkAssumption, ServerAssumption,
     SameIds

LEMMA ServerTypeStep ==
    ASSUME TypedInv, [BroadcastNext]_bcVars
    PROVE  V!TypeInv'
<1>1. [V!Next]_(V!vars) => V!TypeInv'
  BY V!TypeStep, NetworkAssumption, ServerAssumption, SameIds DEF TypedInv
<1>. QED
  BY <1>1, Simulation, PhantomKeepsTypes, DeathKeepsTypes DEF TypedInv

LEMMA MapTypeStep ==
    ASSUME TypedInv, BroadcastNext
    PROVE  clients' \in [Ids -> Conns \cup {Absent, Null}]
<1>. USE DEF TypedInv, BroadcastTypeOK
<1>1. CASE TcpNext
  <2>1. CASE TcpRegister
    <3>1. Last(pollFds) \in Conns
      BY <2>1
      DEF TcpRegister, V!TypeInv, V!TypeOK, V!TcpTypeOK, V!Positions, Last
    <3>. QED  BY <2>1, <3>1 DEF TcpRegister
  <2>2. CASE ~TcpRegister
    BY <1>1, <2>2
    DEF TcpNext, TcpPoll, TcpExit, TcpAccept, TcpAcceptFails, TcpOnConnection,
        TcpOnConnectionThrows, TcpScanEnds, TcpScanFinds, TcpReadHeader,
        TcpReadStopped, TcpReadBody, TcpReadFails, TcpDeliver, TcpFindsClient, TcpOnMessage, TcpDrops, TcpDisconnect, TcpIdentify, TcpDisconnectFails, TcpPush, TcpUnpoll
  <2>. QED  BY <2>1, <2>2
<1>2. CASE MainNext
  BY <1>2
  DEF MainNext, MainOuter, MainQueueEmpty, MainFindsClient, MainQuits,
      MainOnDisconnection, MainOnDisconnectionThrows, MainErase, MainPop
<1>3. CASE UdpNext \/ AppNext \/ PeerNext \/ Finished
  BY <1>3
  DEF UdpNext, UdpReceive, UdpFindsClient, UdpDrops, UdpDeliver, UdpExit,
      AppNext, AppInitialize, AppCreateTcp, AppCreateUdp, AppSetCallback, AppStop,
      AppDestroy, AppShutdown, AppStopTcp, AppJoinTcp, AppJoinUdp, AppJoinMain,
      AppClears, PeerNext, Finished, vars
<1>4. CASE SenderNext
  BY <1>4
  DEF SenderNext, Calls, Finds, LooksUp, TakesEndpoint, Sends, Subscripts, vars
<1>. QED  BY <1>1, <1>2, <1>3, <1>4 DEF BroadcastNext, ServerNext

LEMMA ReturnsType ==
    ASSUME Returns
    PROVE  /\ CallInv'
           /\ step' = "none"
           /\ call' \in [caller : Threads, type : {"TCP", "UDP"}, ids : Seq(Ids)]
           /\ at' \in 1 .. Len(call'.ids) + 1
           /\ target' = Absent
           /\ served' \in Seq(Conns)
           /\ calls' = calls
<1>1. NoCall.ids = <<>> /\ NoCall.caller \in Threads /\ Len(<<>>) = 0
  BY DEF NoCall
<1>. QED  BY <1>1 DEF Returns, NoCall, CallInv, Holding

LEMMA CallStep ==
    ASSUME TypedInv, SenderNext
    PROVE  /\ CallInv'
           /\ step' \in {"none", "find", "lookup", "endpoint", "send"}
           /\ call' \in [caller : Threads, type : {"TCP", "UDP"}, ids : Seq(Ids)]
           /\ at' \in 1 .. Len(call'.ids) + 1
           /\ target' \in Conns \cup {Absent}
           /\ served' \in Seq(Conns)
           /\ calls' \in 0 .. MaxCalls
<1>. USE DEF TypedInv, BroadcastTypeOK, CallInv, Holding
<1>1. CASE \E t \in Callers : Calls(t)
  <2>1. PICK t \in Callers, type \in {"TCP", "UDP"}, ids \in Lists :
          /\ call' = [caller |-> t, type |-> type, ids |-> ids]
          /\ step' = "find" /\ at' = 1
          /\ UNCHANGED <<target, served>>
          /\ calls' = calls + 1 /\ calls < MaxCalls
    BY <1>1 DEF Calls
  <2>2. ids \in Seq(Ids) /\ t \in Threads
    BY BroadcastAssumption
  <2>3. call'.ids = ids /\ Len(ids) \in Nat
    BY <2>1, <2>2
  <2>4. calls' \in 0 .. MaxCalls
    BY <2>1, BroadcastAssumption
  <2>5. at = 1 /\ Len(served) = 0
    BY <1>1 DEF Calls
  <2>. QED  BY <2>1, <2>2, <2>3, <2>4, <2>5
<1>2. CASE Finds
  BY <1>2, ReturnsType DEF Finds, Proceeds, Listed
<1>3. CASE LooksUp
  BY <1>3, ReturnsType DEF LooksUp, Crashes, Proceeds
<1>4. CASE TakesEndpoint
  BY <1>4, ReturnsType DEF TakesEndpoint, Crashes, Proceeds
<1>5. CASE Sends
  <2>1. CASE Crashes
    BY <1>5, <2>1, ReturnsType DEF Crashes
  <2>2. CASE /\ step' = "find"
             /\ at' = at + 1
             /\ served' = Append(served, target)
             /\ target' = Absent
             /\ UNCHANGED <<call, calls>>
    <3>1. /\ Len(served') = Len(served) + 1 /\ served' \in Seq(Conns)
          /\ at <= Len(call.ids) /\ Len(call.ids) \in Nat
      BY <1>5, <2>2 DEF Sends
    <3>2. at' \in 1 .. Len(call'.ids) + 1 /\ Len(served') = at' - 1
      BY <2>2, <3>1
    <3>. QED  BY <2>2, <3>1, <3>2
  <2>. QED  BY <1>5, <2>1, <2>2 DEF Sends
<1>. QED  BY <1>1, <1>2, <1>3, <1>4, <1>5 DEF SenderNext

LEMMA DeadStep ==
    ASSUME TypedInv, BroadcastNext
    PROVE  \/ UNCHANGED pc
           \/ Terminate
           \/ ~At("app", "dead") /\ ~At("app", "dead")'
<1>. USE DEF TypedInv, V!TypeInv, V!TypeOK, V!PcTypeOK
<1>1. CASE TcpNext
  <2>1. ~At("tcp", "dead") /\ pc'["app"] = pc["app"]
    BY <1>1
    DEF TcpNext, TcpPoll, TcpExit, TcpAccept, TcpAcceptFails, TcpRegister,
        TcpOnConnection, TcpOnConnectionThrows, TcpScanEnds, TcpScanFinds,
        TcpReadHeader, TcpReadStopped, TcpReadBody, TcpReadFails, TcpDeliver, TcpFindsClient, TcpOnMessage, TcpDrops, TcpDisconnect, TcpIdentify, TcpDisconnectFails, TcpPush, TcpUnpoll
  <2>. QED  BY <2>1 DEF DeadInv
<1>2. CASE MainNext
  <2>1. \/ Terminate
        \/ ~At("main", "dead") /\ pc'["app"] = pc["app"]
    BY <1>2
    DEF MainNext, MainOuter, MainQueueEmpty, MainFindsClient, MainQuits,
        MainOnDisconnection, MainOnDisconnectionThrows, MainErase, MainPop
  <2>. QED  BY <2>1 DEF DeadInv
<1>3. CASE UdpNext
  <2>1. ~At("udp", "dead") /\ pc'["app"] = pc["app"]
    BY <1>3
    DEF UdpNext, UdpReceive, UdpFindsClient, UdpDrops, UdpDeliver, UdpExit
  <2>. QED  BY <2>1 DEF DeadInv
<1>4. CASE AppNext
  BY <1>4
  DEF AppNext, AppInitialize, AppCreateTcp, AppCreateUdp, AppSetCallback,
      AppStop,
      AppDestroy, AppShutdown, AppStopTcp, AppJoinTcp, AppJoinUdp, AppJoinMain,
      AppClears
<1>5. CASE PeerNext \/ Finished
  BY <1>5 DEF PeerNext, Finished, vars
<1>6. CASE SenderNext
  BY <1>6
  DEF SenderNext, Calls, Finds, LooksUp, TakesEndpoint, Sends, Crashes, vars
<1>. QED  BY <1>1, <1>2, <1>3, <1>4, <1>5, <1>6 DEF BroadcastNext, ServerNext

LEMMA TypedInit == BroadcastInit => TypedInv
<1>. SUFFICES ASSUME BroadcastInit PROVE TypedInv
  OBVIOUS
<1>1. Visible = [id \in Ids |-> Absent]
  BY DEF BroadcastInit, Init, Visible
<1>2. V!Init
  BY <1>1, SameIds
  DEF BroadcastInit, Init, V!Init, NetInit, V!NetInit, S!Init, V!S!Init,
      S!NoCallback, V!S!NoCallback, S!UserCallbacks, V!S!UserCallbacks, Ids, V!Ids, S!Ids, V!S!Ids
<1>3. V!TypeInv
  BY <1>2, V!TypeInit, NetworkAssumption, ServerAssumption, SameIds
<1>. QED
  BY <1>3, BroadcastAssumption
  DEF BroadcastInit, Init, NoCall, TypedInv, BroadcastTypeOK, CallInv, DeadInv,
      Holding

LEMMA TypedStep == TypedInv /\ [BroadcastNext]_bcVars => TypedInv'
<1>. SUFFICES ASSUME TypedInv, [BroadcastNext]_bcVars PROVE TypedInv'
  OBVIOUS
<1>1. V!TypeInv'
  BY ServerTypeStep
<1>2. CASE UNCHANGED bcVars
  BY <1>1, <1>2
  DEF bcVars, vars, callVars, TypedInv, BroadcastTypeOK, CallInv, DeadInv,
      Holding
<1>3. CASE BroadcastNext
  <2>1. BroadcastTypeOK' /\ CallInv'
    <3>1. UNCHANGED callVars => CallInv'
      BY DEF callVars, TypedInv, CallInv, Holding
    <3>2. UNCHANGED callVars \/ SenderNext
      BY <1>3 DEF BroadcastNext, ServerNext
    <3>. QED
      BY <1>3, <3>1, <3>2, CallStep, MapTypeStep
      DEF callVars, TypedInv, BroadcastTypeOK
  <2>2. DeadInv'
    BY <1>3, DeadStep DEF TypedInv, DeadInv, Terminate
  <2>. QED  BY <1>1, <2>1, <2>2 DEF TypedInv
<1>. QED  BY <1>2, <1>3

(* Map, call and histories keep their types, whatever the callbacks throw, *)
(* however the lookups miss and whoever calls sendToClients: its index is  *)
(* one of its list, and it sends to clients only.                          *)
THEOREM BroadcastTyped == BroadcastSpec => []BroadcastTypeOK
<1>1. TypedInv => BroadcastTypeOK
  BY DEF TypedInv
<1>. QED  BY <1>1, TypedInit, TypedStep, PTL DEF BroadcastSpec

-----------------------------------------------------------------------------
(* What the server knows, while the process lives.                         *)

ServerInv == V!IInv /\ V!SessionInv /\ V!OpenInv

LEMMA ServerInvInit == BroadcastInit => ServerInv
<1>. SUFFICES ASSUME BroadcastInit PROVE ServerInv
  OBVIOUS
<1>1. V!Init
  BY SameIds
  DEF BroadcastInit, Init, V!Init, NetInit, V!NetInit, S!Init, V!S!Init,
      S!NoCallback, V!S!NoCallback, S!UserCallbacks, V!S!UserCallbacks, Ids, V!Ids, S!Ids, V!S!Ids, Visible
<1>. QED
  BY <1>1, TypedInit, V!RegistryInit, V!SessionInit, V!OpenInit,
     NetworkAssumption, ServerAssumption, SameIds
  DEF ServerInv, V!IInv, TypedInv

(* An empty entry is met neither by Manager::run nor by a packet of TCP; a *)
(* datagram that meets one is delivered late, and changes nothing else.    *)
LEMMA PhantomKeepsServer ==
    ASSUME TypedInv, ServerInv, MeetsPhantom
    PROVE  ServerInv'
<1>1. ~(/\ At("main", "inner")
        /\ disconnectionQueue # <<>>
        /\ clients[Leaving] = Null)
  <2>. SUFFICES ASSUME At("main", "inner"), disconnectionQueue # <<>>,
                       clients[Leaving] = Null
                PROVE  FALSE
    OBVIOUS
  <2>1. /\ Leaving = disconnectionQueue[1] /\ 1 \in 1 .. Len(disconnectionQueue)
        /\ Leaving \in Ids
    BY SameIds DEF TypedInv, V!TypeInv, V!TypeOK, V!RegistryTypeOK, Leaving
  <2>2. Visible[Leaving] = Absent
    BY <2>1 DEF Visible
  <2>. QED
    BY <2>1, <2>2, SameIds DEF ServerInv, V!IInv, V!RegistryInv, V!Queued
<1>2. ~(At("tcp", "find") /\ clients[tcpId] = Null)
  <2>. SUFFICES ASSUME At("tcp", "find"), clients[tcpId] = Null PROVE FALSE
    OBVIOUS
  <2>1. tcpId \in Ids /\ i \in 1 .. Len(pollFds) /\ pollFds \in Seq(Conns)
    BY SameIds
    DEF TypedInv, V!TypeInv, V!TypeOK, V!Positions, V!TcpTypeOK
  <2>2. Visible[tcpId] = Absent /\ Visible[tcpId] = V!Polled
    BY <2>1, SameIds DEF Visible, ServerInv, V!IInv, V!RegistryInv, V!Polls
  <2>3. V!Polled \in Conns
    BY <2>1 DEF V!Polled
  <2>. QED  BY <2>2, <2>3, ServerAssumption
<1>3. /\ UNCHANGED <<link, backlog, pollFds, V!registryVars, phase, udpId>>
      /\ UNCHANGED <<i, tcpId, callbacksSet>>
      /\ At("udp", "find") /\ At("udp", "deliver")'
      /\ pc'["tcp"] = pc["tcp"] /\ pc'["main"] = pc["main"]
  BY <1>1, <1>2, VisibleFrame
  DEF MeetsPhantom, TypedInv, V!TypeInv, V!TypeOK, V!PcTypeOK
<1>4. V!TypeInv'
  BY PhantomKeepsTypes DEF TypedInv
<1>5. V!RegistryInv'
  BY <1>3, V!RegistryFrame, NetworkAssumption, ServerAssumption, SameIds
  DEF ServerInv, V!IInv, V!SamePhases
<1>6. V!AnnouncedInv'
  <2>1. \A x \in V!Ids : V!S!Announced(x) => V!S!Announced(x)'
    BY <1>3 DEF V!S!Announced
  <2>. QED
    BY <1>3, <2>1, V!AnnouncedFrame, NetworkAssumption, ServerAssumption,
       SameIds
    DEF ServerInv, V!SessionInv, TypedInv
<1>7. (V!Counted /\ V!OpenEntries /\ V!GivenOut)'
  BY <1>3, V!SessionFrame, NetworkAssumption, ServerAssumption, SameIds
  DEF ServerInv
<1>8. V!OpenInv'
  BY <1>3, V!OpenFrame, NetworkAssumption, ServerAssumption, SameIds
  DEF ServerInv
<1>. QED  BY <1>4, <1>5, <1>6, <1>7, <1>8 DEF ServerInv, V!IInv, V!SessionInv

LEMMA ServerStep ==
    ASSUME Throws = {}, FdLimit <= IdModulus,
           TypedInv, ServerInv, [BroadcastNext]_bcVars, ~At("app", "dead")'
    PROVE  ServerInv'
<1>. USE NetworkAssumption, ServerAssumption, SameIds
<1>1. CASE [V!Next]_(V!vars)
  <2>1. V!RegistryInv'
    BY <1>1, V!RegistryStep DEF ServerInv, V!IInv
  <2>2. V!SessionInv'
    BY <1>1, V!SessionStep DEF ServerInv
  <2>3. V!OpenInv'
    BY <1>1, V!OpenStep DEF ServerInv
  <2>. QED  BY <2>1, <2>2, <2>3, ServerTypeStep DEF ServerInv, V!IInv
<1>2. ~Dies
  BY DEF Dies, Terminate
<1>. QED  BY <1>1, <1>2, Simulation, PhantomKeepsServer

(* What the application was told is never taken back.                      *)
LEMMA ClosedStays ==
    ASSUME Throws = {}, TypedInv, ServerInv, [BroadcastNext]_bcVars,
           NEW id \in Ids, phase[id] = "closed"
    PROVE  phase'[id] = "closed"
<1>1. CASE [V!Next]_(V!vars)
  <2>1. [V!S!Next]_<<phase, cb, callbacksSet>>
    BY <1>1, V!SessionSimulation, NetworkAssumption, ServerAssumption, SameIds
    DEF ServerInv
  <2>2. phase \in [Ids -> {"new", "open", "closed"}]
    BY SameIds
    DEF TypedInv, V!TypeInv, V!TypeOK, V!ObservedTypeOK, V!S!Phases
  <2>. QED
    BY <2>1, <2>2
    DEF V!S!Next, V!S!Open, V!S!TcpMessage, V!S!UdpMessage, V!S!Close,
        V!S!Invoke, V!S!Announced, V!S!SetCallback
<1>2. MeetsPhantom \/ Dies => UNCHANGED phase
  BY DEF MeetsPhantom, Dies
<1>. QED  BY <1>1, <1>2, Simulation

(* How an entry of the map may change under a call: the main thread erases *)
(* it, unless it waits for the call, or the tcp thread fills an empty one. *)
Erased(id) ==
    /\ Free("main")
    /\ clients'[id] = Absent
    /\ phase[id] = "closed"

Filled(id) == clients'[id] \in Conns /\ clients[id] \notin Conns

LEMMA EntryChanges ==
    ASSUME TypedInv, ServerInv, ServerNext, NEW id \in Ids
    PROVE  clients'[id] = clients[id] \/ Erased(id) \/ Filled(id)
<1>. USE SameIds DEF TypedInv, BroadcastTypeOK
<1>1. CASE TcpRegister
  <2>1. Last(pollFds) \in Conns
    BY <1>1
    DEF TcpRegister, V!TypeInv, V!TypeOK, V!TcpTypeOK, V!Positions, Last
  <2>2. id = nextClientId => Visible[id] = Absent
    BY <1>1, ServerAssumption
    DEF TcpRegister, ServerInv, V!IInv, V!RegistryInv, V!Entries, V!TypeInv,
        V!TypeOK, V!RegistryTypeOK
  <2>3. Visible[id] = Absent => clients[id] \notin Conns
    BY ServerAssumption, BroadcastAssumption DEF Visible
  <2>. QED  BY <1>1, <2>1, <2>2, <2>3 DEF TcpRegister, Filled
<1>2. CASE Free("main") /\ MainErase
  <2>1. clients' = [clients EXCEPT ![Leaving] = Absent]
    BY <1>2 DEF MainErase
  <2>2. phase[Leaving] = "closed"
    BY <1>2 DEF MainErase, ServerInv, V!OpenInv, Leaving, V!Leaving
  <2>. QED  BY <1>2, <2>1, <2>2 DEF Erased
<1>3. CASE TcpNext /\ ~TcpRegister
  BY <1>3
  DEF TcpNext, TcpPoll, TcpExit, TcpAccept, TcpAcceptFails, TcpOnConnection,
      TcpOnConnectionThrows, TcpScanEnds, TcpScanFinds, TcpReadHeader,
      TcpReadStopped, TcpReadBody, TcpReadFails, TcpDeliver, TcpFindsClient, TcpOnMessage, TcpDrops, TcpDisconnect, TcpIdentify, TcpDisconnectFails, TcpPush, TcpUnpoll
<1>4. CASE MainNext /\ ~MainErase
  BY <1>4
  DEF MainNext, MainOuter, MainQueueEmpty, MainFindsClient, MainQuits,
      MainOnDisconnection, MainOnDisconnectionThrows, MainPop
<1>5. CASE UdpNext \/ AppNext \/ PeerNext \/ Finished
  BY <1>5
  DEF UdpNext, UdpReceive, UdpFindsClient, UdpDrops, UdpDeliver, UdpExit,
      AppNext, AppInitialize, AppCreateTcp, AppCreateUdp, AppSetCallback, AppStop,
      AppDestroy, AppShutdown, AppStopTcp, AppJoinTcp, AppJoinUdp, AppJoinMain,
      AppClears, PeerNext, Finished, vars
<1>. QED  BY <1>1, <1>2, <1>3, <1>4, <1>5 DEF ServerNext

-----------------------------------------------------------------------------
(* What a call holds.                                                      *)

(* An id that was found has its entry until the application has seen its   *)
(* client leave; and so has the client that is sent to.                    *)
HeldInv ==
    /\ step \in {"lookup", "endpoint"}
         => clients[Id] # Absent \/ phase[Id] = "closed"
    /\ step = "send" => clients[Id] = target \/ phase[Id] = "closed"

EntryInv == PhantomsAreClosed /\ HeldInv /\ MainIsUndisturbed

LEMMA ListedId ==
    ASSUME TypedInv, Holding
    PROVE  Id \in Ids /\ at \in 1 .. Len(call.ids) /\ Id = call.ids[at]
  BY DEF TypedInv, BroadcastTypeOK, CallInv, Id

LEMMA SenderKeepsEntries ==
    ASSUME TypedInv, EntryInv, SenderNext
    PROVE  EntryInv'
<1>. USE DEF EntryInv, PhantomsAreClosed, HeldInv, MainIsUndisturbed
<1>1. CASE \E t \in Callers : Calls(t)
  BY <1>1 DEF Calls, vars
<1>2. CASE Finds
  BY <1>2 DEF Finds, Proceeds, Returns, Id, vars
<1>3. ASSUME Subscripts, Holding,
             \/ step' = "none"
             \/ UNCHANGED <<call, at>> /\ step' = "endpoint" /\ clients[Id] \in Conns
             \/ /\ UNCHANGED <<call, at>> /\ step' = "send"
                /\ clients[Id] \in Conns /\ target' = clients[Id],
             step \in {"lookup", "endpoint"}
      PROVE  EntryInv'
  <2>1. Id \in Ids
    BY <1>3, ListedId
  <2>2. /\ phase' = phase
        /\ clients' = [clients EXCEPT ![Id] = IF @ = Absent THEN Null ELSE @]
        /\ clients \in [Ids -> Conns \cup {Absent, Null}]
    BY <1>3 DEF Subscripts, TypedInv, BroadcastTypeOK
  <2>3. clients[Id] \in Conns => clients'[Id] = clients[Id] /\ clients[Id] # Absent
    BY <2>1, <2>2, ServerAssumption
  <2>4. PhantomsAreClosed'
    BY <1>3, <2>1, <2>2
  <2>5. step' # "none" => Id' = Id
    BY <1>3 DEF Id
  <2>. QED  BY <1>3, <2>3, <2>4, <2>5
<1>4. CASE LooksUp
  BY <1>3, <1>4 DEF LooksUp, Crashes, Proceeds, Returns, Holding
<1>5. CASE TakesEndpoint
  BY <1>3, <1>5 DEF TakesEndpoint, Crashes, Proceeds, Returns, Holding
<1>6. CASE Sends
  <2>1. step' \in {"none", "find"} /\ UNCHANGED <<clients, phase>>
    BY <1>6 DEF Sends, Crashes, Returns
  <2>. QED  BY <2>1
<1>. QED  BY <1>1, <1>2, <1>4, <1>5, <1>6 DEF SenderNext

LEMMA ServerKeepsEntries ==
    ASSUME Throws = {}, TypedInv, ServerInv, EntryInv, ServerNext
    PROVE  EntryInv'
<1>1. UNCHANGED <<step, call, at, target>> /\ Id' = Id
  BY DEF ServerNext, callVars, Id
<1>2. \A id \in Ids :
        /\ clients'[id] = clients[id] \/ Erased(id) \/ Filled(id)
        /\ phase[id] = "closed" => phase'[id] = "closed"
  BY EntryChanges, ClosedStays DEF BroadcastNext
<1>3. PhantomsAreClosed'
  BY <1>2, SameIds, BroadcastAssumption
  DEF EntryInv, PhantomsAreClosed, Erased, Filled
<1>4. ASSUME Holding PROVE HeldInv' /\ MainIsUndisturbed'
  <2>1. Id \in Ids
    BY <1>4, ListedId
  <2>2. step = "send" => target \in Conns
    BY DEF TypedInv, CallInv
  <2>3. HeldInv'
    BY <1>1, <1>2, <2>1, <2>2, ServerAssumption
    DEF EntryInv, HeldInv, Erased, Filled
  <2>4. MainIsUndisturbed'
    BY <1>1, <1>2, <1>4, <2>1, <2>2, ServerAssumption
    DEF EntryInv, MainIsUndisturbed, Erased, Filled, Free, Holding
  <2>. QED  BY <2>3, <2>4
<1>. QED  BY <1>1, <1>3, <1>4 DEF EntryInv, HeldInv, MainIsUndisturbed, Holding

(* Nothing follows the end of the process.                                 *)
LEMMA DeadStops ==
    ASSUME TypedInv, At("app", "dead"), BroadcastNext
    PROVE  UNCHANGED bcVars
<1>1. \A t \in Threads : At(t, "dead")
  BY DEF TypedInv, DeadInv
<1>2. ~TcpNext
  BY <1>1
  DEF TcpNext, TcpPoll, TcpExit, TcpAccept, TcpAcceptFails, TcpRegister,
      TcpOnConnection, TcpOnConnectionThrows, TcpScanEnds, TcpScanFinds,
      TcpReadHeader, TcpReadStopped, TcpReadBody, TcpReadFails, TcpDeliver, TcpFindsClient, TcpOnMessage, TcpDrops, TcpDisconnect, TcpIdentify, TcpDisconnectFails, TcpPush, TcpUnpoll
<1>3. ~MainNext
  BY <1>1
  DEF MainNext, MainOuter, MainQueueEmpty, MainFindsClient, MainQuits,
      MainOnDisconnection, MainOnDisconnectionThrows, MainErase, MainPop
<1>4. ~UdpNext
  BY <1>1
  DEF UdpNext, UdpReceive, UdpFindsClient, UdpDrops, UdpDeliver, UdpExit
<1>5. ~AppNext
  BY DEF AppNext, AppInitialize, AppCreateTcp, AppCreateUdp, AppSetCallback,
         AppStop,
      AppDestroy, AppShutdown, AppStopTcp, AppJoinTcp, AppJoinUdp, AppJoinMain,
      AppClears
<1>6. ~PeerNext
  BY DEF PeerNext, Over
<1>7. ~SenderNext
  BY <1>1 DEF SenderNext, Calls, InApplication, Over
<1>. QED
  BY <1>2, <1>3, <1>4, <1>5, <1>6, <1>7
  DEF BroadcastNext, ServerNext, Finished, bcVars

BroadcastInv == TypedInv /\ (At("app", "dead") \/ ServerInv) /\ EntryInv

LEMMA BroadcastInvStep ==
    ASSUME Throws = {}, FdLimit <= IdModulus
    PROVE  BroadcastInv /\ [BroadcastNext]_bcVars => BroadcastInv'
<1>. SUFFICES ASSUME BroadcastInv, [BroadcastNext]_bcVars PROVE BroadcastInv'
  OBVIOUS
<1>1. TypedInv'
  BY TypedStep DEF BroadcastInv
<1>2. CASE UNCHANGED bcVars
  <2>1. (At("app", "dead") \/ ServerInv)'
    BY <1>2, ServerStep DEF BroadcastInv, bcVars, vars
  <2>2. EntryInv'
    BY <1>2
    DEF BroadcastInv, EntryInv, PhantomsAreClosed, HeldInv, MainIsUndisturbed,
        Id, bcVars, vars, callVars
  <2>. QED  BY <1>1, <2>1, <2>2 DEF BroadcastInv
<1>3. CASE BroadcastNext /\ ~UNCHANGED bcVars
  <2>1. ServerInv
    BY <1>3, DeadStops DEF BroadcastInv
  <2>2. (At("app", "dead") \/ ServerInv)'
    BY <2>1, ServerStep DEF BroadcastInv
  <2>3. EntryInv'
    BY <1>3, <2>1, SenderKeepsEntries, ServerKeepsEntries
    DEF BroadcastInv, BroadcastNext
  <2>. QED  BY <1>1, <2>2, <2>3 DEF BroadcastInv
<1>. QED  BY <1>2, <1>3

LEMMA BroadcastInvHolds ==
    ASSUME Throws = {}, FdLimit <= IdModulus
    PROVE  BroadcastSpec => []BroadcastInv
<1>1. BroadcastInit => BroadcastInv
  BY TypedInit, ServerInvInit
  DEF BroadcastInv, EntryInv, PhantomsAreClosed, HeldInv, MainIsUndisturbed,
      BroadcastInit, Init, Null, Absent
<1>. QED  BY <1>1, BroadcastInvStep, PTL DEF BroadcastSpec

-----------------------------------------------------------------------------
(* What the invariant is for.                                              *)

(* The empty entries that operator[] of sendToClients leaves in the map    *)
(* have ids whose onDisconnection has run.                                 *)
THEOREM PhantomsCorrect ==
    ASSUME Throws = {}, FdLimit <= IdModulus
    PROVE  BroadcastSpec => []PhantomsAreClosed
<1>1. BroadcastInv => PhantomsAreClosed
  BY DEF BroadcastInv, EntryInv
<1>. QED  BY <1>1, BroadcastInvHolds, PTL

(* sendToClients called from onDisconnection finds what it has found       *)
(* again, and sends to it: nobody but its own thread erases.               *)
THEOREM MainCallsUndisturbed ==
    ASSUME Throws = {}, FdLimit <= IdModulus
    PROVE  BroadcastSpec => []MainIsUndisturbed
<1>1. BroadcastInv => MainIsUndisturbed
  BY DEF BroadcastInv, EntryInv
<1>. QED  BY <1>1, BroadcastInvHolds, PTL

(* A broadcast ends the process only at a client that has left or reset    *)
(* its connection, or because it is one over UDP and no Udp was created.   *)
THEOREM DeathsExplained ==
    ASSUME Throws = {}, FdLimit <= IdModulus
    PROVE  BroadcastSpec => OnlyTheDeadKill
<1>. DEFINE Explained == Gone(Id) \/ (call.type = "UDP" /\ ~UdpCreated)
<1>1. ASSUME BroadcastInv, [BroadcastNext]_bcVars,
             ~At("app", "dead"), At("app", "dead")'
      PROVE  Explained
  <2>. USE DEF BroadcastInv
  <2>1. SenderNext /\ ~UNCHANGED pc
    <3>. USE DEF TypedInv, V!TypeInv, V!TypeOK, V!PcTypeOK
    <3>1. ~UNCHANGED pc /\ ~UNCHANGED bcVars
      BY <1>1 DEF bcVars, vars
    <3>2. TcpNext => pc'["app"] = pc["app"]
      BY <1>1
      DEF TcpNext, TcpPoll, TcpExit, TcpAccept, TcpAcceptFails, TcpRegister,
        TcpOnConnection, TcpOnConnectionThrows, TcpScanEnds, TcpScanFinds,
        TcpReadHeader, TcpReadStopped, TcpReadBody, TcpReadFails, TcpDeliver, TcpFindsClient, TcpOnMessage, TcpDrops, TcpDisconnect, TcpIdentify, TcpDisconnectFails, TcpPush, TcpUnpoll
    <3>3. MainNext => pc'["app"] = pc["app"]
      BY <1>1
      DEF MainNext, MainOuter, MainQueueEmpty, MainFindsClient, MainQuits,
        MainOnDisconnection, MainOnDisconnectionThrows, MayThrow, MainErase, MainPop
    <3>4. UdpNext => pc'["app"] = pc["app"]
      BY <1>1
      DEF UdpNext, UdpReceive, UdpFindsClient, UdpDrops, UdpDeliver, UdpExit
    <3>5. AppNext => ~At("app", "dead")'
      BY <1>1
      DEF AppNext, AppInitialize, AppCreateTcp, AppCreateUdp, AppSetCallback,
          AppStop, AppDestroy, AppShutdown,
        AppStopTcp, AppJoinTcp, AppJoinUdp, AppJoinMain, AppClears
    <3>6. PeerNext \/ Finished => pc' = pc
      BY DEF PeerNext, Finished, vars
    <3>. QED
      BY <1>1, <3>1, <3>2, <3>3, <3>4, <3>5, <3>6 DEF BroadcastNext, ServerNext
  <2>2. \/ step \in {"lookup", "endpoint"} /\ clients[Id] \notin Conns
        \/ step = "send" /\ (clients[Id] # target \/ link[target] = "rst")
        \/ call.type = "UDP" /\ ~UdpCreated
    BY <2>1
    DEF SenderNext, Calls, Finds, LooksUp, TakesEndpoint, Sends, Crashes, vars
  <2>3. CASE step \in {"lookup", "endpoint", "send"}
    <3>1. /\ Id \in Ids /\ clients[Id] \in Conns \cup {Absent, Null}
          /\ step = "send" => target \in Conns
      BY <1>1, <2>3, ListedId DEF TypedInv, BroadcastTypeOK, CallInv, Holding
    <3>. QED
      BY <1>1, <2>2, <3>1 DEF EntryInv, PhantomsAreClosed, HeldInv, Gone
  <2>. QED  BY <2>2, <2>3
<1>. HIDE DEF Explained
<1>2. BroadcastInv /\ [BroadcastNext]_bcVars
        => [~At("app", "dead") /\ At("app", "dead")' => Explained]_bcVars
  BY <1>1
<1>3. [][~At("app", "dead") /\ At("app", "dead")' => Explained]_bcVars
        => OnlyTheDeadKill
  BY PTL DEF Explained, OnlyTheDeadKill
<1>. QED  BY <1>2, <1>3, BroadcastInvHolds, PTL DEF BroadcastSpec

(* sendToClients does not pass over an open session unless it has met an   *)
(* id whose session is not open, or its find() ran beside a thread that    *)
(* was writing the map.                                                    *)
THEOREM OpenServed ==
    ASSUME Throws = {}, FdLimit <= IdModulus
    PROVE  BroadcastSpec => OpenClientsAreServed
<1>. DEFINE AllServed == \/ Len(served) = Len(call.ids)
                         \/ phase[Id] # "open"
                         \/ FindMisses
<1>1. ASSUME BroadcastInv, [BroadcastNext]_bcVars,
             step # "none", step' = "none", ~Over'
      PROVE  AllServed
  <2>. USE DEF BroadcastInv
  <2>1. SenderNext
    BY <1>1 DEF BroadcastNext, ServerNext, callVars, bcVars
  <2>2. ~Over
    BY <1>1, <2>1 DEF SenderNext, Calls
  <2>3. ~Terminate
    BY <1>1 DEF Terminate, Over
  <2>4. /\ at \in 1 .. Len(call.ids) + 1 /\ Len(served) = at - 1
        /\ Len(call.ids) \in Nat /\ Len(served) \in Nat
    BY <1>1 DEF TypedInv, BroadcastTypeOK, CallInv
  <2>5. \/ ~Listed
        \/ Listed /\ clients[Id] \notin Conns
        \/ FindMisses
    <3>1. step \in {"lookup", "endpoint"} => Listed
      BY <1>1 DEF TypedInv, CallInv, Holding, Listed
    <3>2. ~(\E t \in Callers : Calls(t)) /\ ~TakesEndpoint /\ ~Sends
      BY <1>1, <2>3 DEF Calls, TakesEndpoint, Sends, Crashes, Proceeds
    <3>3. CASE Finds
      BY <1>1, <3>3, ServerAssumption DEF Finds, Proceeds
    <3>4. CASE LooksUp
      BY <1>1, <2>3, <3>1, <3>4 DEF LooksUp, Proceeds, Crashes
    <3>. QED  BY <2>1, <3>2, <3>3, <3>4 DEF SenderNext
  <2>6. CASE ~Listed
    BY <2>4, <2>6 DEF Listed
  <2>7. CASE Listed /\ clients[Id] \notin Conns
    <3>1. Id \in Ids
      BY <1>1, <2>4, <2>7 DEF Listed, Id, TypedInv, BroadcastTypeOK
    <3>2. Visible[Id] = Absent
      BY <1>1, <2>7, <3>1 DEF Visible, TypedInv, BroadcastTypeOK
    <3>3. V!OpenInv
      BY <1>1, <2>2 DEF Over, ServerInv
    <3>. QED  BY <3>1, <3>2, <3>3, SameIds DEF V!OpenInv
  <2>. QED  BY <2>5, <2>6, <2>7
<1>. HIDE DEF AllServed
<1>2. BroadcastInv /\ [BroadcastNext]_bcVars
        => [step # "none" /\ step' = "none" /\ ~Over' => AllServed]_bcVars
  BY <1>1
<1>3. [][step # "none" /\ step' = "none" /\ ~Over' => AllServed]_bcVars
        => OpenClientsAreServed
  BY PTL DEF AllServed, OpenClientsAreServed
<1>. QED  BY <1>2, <1>3, BroadcastInvHolds, PTL DEF BroadcastSpec

(* What a call of sendToClients, from whatever thread of the process, does *)
(* to the map does not show in what the application is told: a server that *)
(* broadcasts is still one of Sessions.                                    *)
THEOREM BroadcastImplementsSessions ==
    ASSUME Throws = {}, FdLimit <= IdModulus
    PROVE  BroadcastSpec => SessionsSpec
<1>1. BroadcastInit => S!Init
  BY DEF BroadcastInit, Init
<1>2. BroadcastInv /\ [BroadcastNext]_bcVars => [S!Next]_<<phase, cb, callbacksSet>>
  <2>. SUFFICES ASSUME BroadcastInv, [BroadcastNext]_bcVars
                PROVE  [S!Next]_<<phase, cb, callbacksSet>>
    OBVIOUS
  <2>1. CASE ServerInv /\ [V!Next]_(V!vars)
    <3>1. [V!S!Next]_<<phase, cb, callbacksSet>>
      BY <2>1, V!SessionSimulation, NetworkAssumption, ServerAssumption, SameIds
      DEF ServerInv
    <3>. QED
      BY <3>1
      DEF V!S!Next, V!S!Open, V!S!TcpMessage, V!S!UdpMessage, V!S!Close,
          V!S!Invoke, V!S!Announced, V!S!Issued, V!S!Ids, V!S!SetCallback,
          V!S!UserCallback, V!S!UserCallbacks, S!Next, S!Open, S!TcpMessage,
          S!UdpMessage, S!Close, S!Invoke, S!Announced, S!Issued, S!Ids,
          S!SetCallback, S!UserCallback, S!UserCallbacks
  <2>2. CASE ServerInv /\ (MeetsPhantom \/ Dies)
    BY <2>2 DEF MeetsPhantom, Dies
  <2>3. CASE ~ServerInv
    BY <2>3, DeadStops DEF BroadcastInv, bcVars, vars
  <2>. QED  BY <2>1, <2>2, <2>3, Simulation DEF BroadcastInv
<1>. QED
  BY <1>1, <1>2, BroadcastInvHolds, PTL DEF BroadcastSpec, SessionsSpec, S!Spec
=============================================================================
