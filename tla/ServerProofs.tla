----------------------------- MODULE ServerProofs -----------------------------
(***************************************************************************)
(* Proofs about module Server, for any number of connections, descriptors  *)
(* and packets.                                                            *)
(***************************************************************************)
EXTENDS Server, SequenceTheorems, TLAPS

-----------------------------------------------------------------------------
(* What a thread relies on at each label, and the descriptors that bound   *)
(* the ids: part of why the types are kept.                                *)

Registering == pc["tcp"] \in {"register", "onConnection"}

IdsTaken == IF Registering THEN nextClientId + 1 ELSE nextClientId

(* Tcp::run is busy with the client at its index.                          *)
Serving == {"header", "body", "deliver", "find", "onMessage", "disconnect",
            "identify", "push", "unpoll"}

(* It holds an id that it has read from the map.                           *)
InHand == pc["tcp"] \in {"find", "onMessage", "push"}

Positions ==
    /\ At("app", "initialize") => At("main", "off")
    /\ pc["app"] \in {"initialize", "createTcp"} => At("tcp", "off")
    /\ At("tcp", "accept") => backlog # <<>>
    /\ At("tcp", "register") => pollFds # <<>>
    /\ pc["tcp"] \in Serving => i \in 1 .. Len(pollFds)
    /\ InHand => tcpId \in Ids
    /\ pc["main"] \in {"onDisconnection", "erase", "pop"}
         => disconnectionQueue # <<>>
    /\ pc["udp"] \in {"find", "deliver"} => udpId \in Ids
    /\ IdsTaken <= openFds

TypeInv == TypeOK /\ Positions

-----------------------------------------------------------------------------
(* Who knows a connection: the backlog, the pollfd array, the map and the  *)
(* queue hold it one after the other, each at most once.                   *)

NoRepetition(seq) == \A j, k \in 1 .. Len(seq) : seq[j] = seq[k] => j = k

Polling(c) == \E k \in 1 .. Len(pollFds) : pollFds[k] = c

Waiting(c) == \E k \in 1 .. Len(backlog) : backlog[k] = c

(* A connection that was never made is known to nobody, and one that waits *)
(* to be accepted to the kernel only.                                      *)
Newcomers ==
    /\ \A c \in Conns : Waiting(c) \/ Polling(c) \/ Registered(c) => link[c] # "none"
    /\ \A c \in Conns : Waiting(c) => ~Polling(c) /\ ~Registered(c)
    /\ NoRepetition(backlog)

(* The pollfd array; its last entry is not in the map before TcpRegister,  *)
(* and the one that is queued may leave the map before it leaves the       *)
(* array.  Until it is queued, the id that was read for it remains its id. *)
Polls ==
    /\ NoRepetition(pollFds)
    /\ At("tcp", "register") => ~Registered(Last(pollFds))
    /\ InHand => clients[tcpId] = Polled
    /\ \A k \in 1 .. Len(pollFds) :
         \/ Registered(pollFds[k])
         \/ At("tcp", "register") /\ k = Len(pollFds)
         \/ Leaves(pollFds[k])

(* The map: one id per connection, and none that is still to be given.     *)
Entries ==
    /\ \A id1, id2 \in Ids :
         clients[id1] = clients[id2] /\ clients[id1] # Absent => id1 = id2
    /\ \A id \in Ids :
         clients[id] # Absent
           => \/ id < nextClientId
              \/ At("tcp", "onConnection") /\ id = nextClientId

(* The queue: each id once and none still to be given, with its entry      *)
(* until just before the pop, and polled no more or not much longer.       *)
Queued ==
    /\ NoRepetition(disconnectionQueue)
    /\ \A k \in 1 .. Len(disconnectionQueue) :
         disconnectionQueue[k] < nextClientId
    /\ \A k \in 1 .. Len(disconnectionQueue) :
         LET c == clients[disconnectionQueue[k]]
         IN  /\ c # Absent \/ (At("main", "pop") /\ k = 1)
             /\ Polling(c) => Leaves(c)

RegistryInv == Newcomers /\ Polls /\ Entries /\ Queued

IInv == TypeInv /\ RegistryInv
-----------------------------------------------------------------------------
(* About the operators the model is built from.                            *)

LEMMA ModBound ==
    ASSUME NEW a \in Nat, NEW b \in Nat \ {0}
    PROVE  a % b \in 0 .. a
<1>1. CASE a < b
  BY <1>1
<1>2. CASE a >= b
  BY <1>2
<1>. QED  BY <1>1, <1>2

LEMMA ModSmall ==
    ASSUME NEW a \in Nat, NEW b \in Nat, a < b
    PROVE  a % b = a
  BY SMT

LEMMA RemoveAtProperties ==
    ASSUME NEW T, NEW seq \in Seq(T), NEW k \in 1 .. Len(seq)
    PROVE  /\ RemoveAt(seq, k) \in Seq(T)
           /\ Len(RemoveAt(seq, k)) = Len(seq) - 1
           /\ \A j \in 1 .. Len(seq) - 1 :
                RemoveAt(seq, k)[j] = seq[IF j < k THEN j ELSE j + 1]
<1>. DEFINE low == SubSeq(seq, 1, k - 1)
            high == SubSeq(seq, k + 1, Len(seq))
<1>1. /\ low \in Seq(T) /\ Len(low) = k - 1
      /\ \A j \in 1 .. k - 1 : low[j] = seq[j]
  BY SubSeqProperties
<1>2. /\ high \in Seq(T) /\ Len(high) = Len(seq) - k
      /\ \A j \in 1 .. Len(seq) - k : high[j] = seq[k + j]
  BY SubSeqProperties
<1>3. RemoveAt(seq, k) = low \o high
  BY DEF RemoveAt
<1>. HIDE DEF low, high
<1>4. /\ low \o high \in Seq(T)
      /\ Len(low \o high) = Len(low) + Len(high)
      /\ \A j \in 1 .. Len(low) + Len(high) :
           (low \o high)[j] = IF j <= Len(low) THEN low[j] ELSE high[j - Len(low)]
  BY <1>1, <1>2, ConcatProperties, Zenon
<1>. QED  BY <1>1, <1>2, <1>3, <1>4, SMTT(20)

LEMMA IdOfProperties ==
    ASSUME NEW c, Registered(c)
    PROVE  IdOf(c) \in Ids /\ clients[IdOf(c)] = c
  BY DEF Registered, IdOf

-----------------------------------------------------------------------------
(* Type correctness.  Each thread's steps are taken in turn; a part of the *)
(* state that a step leaves alone keeps its type.                          *)

USE DEF InHand, At, Goto, Step, Threads, AppLabels, MainLabels, TcpLabels,
        UdpLabels,
        sharedVars, tcpVars, registryVars, observed, appVars, netVars, Serving

LEMMA TypeInit == Init => TypeInv
<1>. SUFFICES ASSUME Init PROVE TypeInv
  OBVIOUS
<1>1. NetTypeOK
  BY NetworkAssumption DEF Init, NetInit, NetTypeOK, LinkStates
<1>2. PcTypeOK
  BY DEF Init, PcTypeOK
<1>3. TcpTypeOK /\ RegistryTypeOK
  BY ServerAssumption DEF Init, TcpTypeOK, RegistryTypeOK
<1>4. ObservedTypeOK
  BY DEF Init, ObservedTypeOK, S!Init, S!Phases, S!Callbacks, S!NoCallback, Ids
<1>5. AppTypeOK
  BY ServerAssumption DEF Init, AppTypeOK, S!UserCallbacks
<1>6. udpId \in Ids \cup {0} /\ Positions
  BY DEF Init, Positions, Registering, IdsTaken
<1>. QED  BY <1>1, <1>2, <1>3, <1>4, <1>5, <1>6 DEF TypeInv, TypeOK

LEMMA TypeFrame ==
    ASSUME TypeInv
    PROVE  /\ UNCHANGED netVars => NetTypeOK'
           /\ UNCHANGED tcpVars => TcpTypeOK'
           /\ UNCHANGED registryVars => RegistryTypeOK'
           /\ UNCHANGED observed => ObservedTypeOK'
           /\ UNCHANGED appVars => AppTypeOK'
           /\ UNCHANGED udpId => (udpId \in Ids \cup {0})'
<1>. USE DEF TypeInv, TypeOK
<1>1. UNCHANGED netVars => NetTypeOK'
  BY DEF NetTypeOK
<1>2. UNCHANGED tcpVars => TcpTypeOK'
  BY DEF TcpTypeOK
<1>3. UNCHANGED registryVars => RegistryTypeOK'
  BY DEF RegistryTypeOK
<1>4. UNCHANGED observed => ObservedTypeOK'
  BY DEF ObservedTypeOK
<1>5. UNCHANGED appVars => AppTypeOK'
  BY Zenon DEF AppTypeOK
<1>6. UNCHANGED udpId => (udpId \in Ids \cup {0})'
  OBVIOUS
<1>. QED  BY <1>1, <1>2, <1>3, <1>4, <1>5, <1>6

(* Steps that only move one thread on.                                     *)
LEMMA ControlTypeStep ==
    ASSUME TypeInv, UNCHANGED <<netVars, tcpVars, sharedVars>>,
           PcTypeOK', Positions'
    PROVE  TypeInv'
  BY TypeFrame DEF TypeInv, TypeOK

(* A callback of an id in Ids keeps the types of what has been observed.   *)
LEMMA NotifyType ==
    ASSUME ObservedTypeOK,
           NEW kind \in S!CallbackKinds, NEW id \in Ids, NEW newPhase \in S!Phases,
           Notify(kind, id, newPhase)
    PROVE  ObservedTypeOK'
<1>1. cb' \in S!Callbacks
  <2>1. [kind |-> kind, id |-> id] \in S!Callbacks
    BY DEF S!Callbacks, Ids
  <2>. QED  BY <2>1 DEF Notify, ObservedTypeOK
<1>2. phase' \in [Ids -> S!Phases]
  BY DEF Notify, ObservedTypeOK
<1>. QED  BY <1>1, <1>2 DEF ObservedTypeOK

LEMMA RecvType ==
    ASSUME NetTypeOK, NEW c \in Conns, NEW piece,
           RecvPiece(c, piece) \/ RecvEnd(c) \/ RecvError(c)
    PROVE  NetTypeOK'
<1>1. CASE RecvPiece(c, piece)
  <2>1. Tail(rx[c]) \in Seq(Pieces)
    BY <1>1 DEF RecvPiece, NetTypeOK
  <2>2. rx' \in [Conns -> Seq(Pieces)]
    BY <1>1, <2>1 DEF RecvPiece, NetTypeOK
  <2>3. due' \in [Conns -> {"header", "body"}]
    BY <1>1 DEF RecvPiece, NetTypeOK
  <2>. QED  BY <1>1, <2>2, <2>3 DEF RecvPiece, NetTypeOK
<1>2. CASE RecvEnd(c) \/ RecvError(c)
  BY <1>2 DEF RecvEnd, RecvError, NetTypeOK
<1>. QED  BY <1>1, <1>2

LEMMA PolledType ==
    ASSUME TypeInv, pc["tcp"] \in Serving
    PROVE  Polled \in Conns /\ i \in 1 .. Len(pollFds)
  BY DEF TypeInv, TypeOK, TcpTypeOK, Positions, Polled

LEMMA LeavingType ==
    ASSUME TypeInv, disconnectionQueue # <<>>
    PROVE  Leaving \in Ids
  BY DEF TypeInv, TypeOK, RegistryTypeOK, Leaving

LEMMA TcpTypeStep ==
    ASSUME TypeInv, TcpNext
    PROVE  TypeInv'
<1>. USE DEF TypeInv, TypeOK
<1>1. CASE TcpPoll
  <2>1. TcpTypeOK'
    BY <1>1 DEF TcpPoll, TcpTypeOK, Reported, PollEvents
  <2>2. PcTypeOK' /\ Positions'
    BY <1>1 DEF TcpPoll, PcTypeOK, Positions, Registering, IdsTaken,
                ListenerReady
  <2>. QED  BY <1>1, <2>1, <2>2, TypeFrame DEF TcpPoll
<1>2. CASE \/ TcpExit \/ TcpAcceptFails \/ TcpReadStopped \/ TcpFindsClient
           \/ TcpDisconnect \/ TcpDisconnectFails
  <2>1. PcTypeOK' /\ Positions'
    BY <1>2
    DEF TcpExit, TcpAcceptFails, TcpReadStopped, TcpFindsClient, TcpDisconnect,
        TcpDisconnectFails, PcTypeOK, Positions, Registering, IdsTaken
  <2>. QED
    BY <1>2, <2>1, ControlTypeStep
    DEF TcpExit, TcpAcceptFails, TcpReadStopped, TcpFindsClient, TcpDisconnect,
        TcpDisconnectFails
<1>3. CASE TcpAccept
  <2>1. Head(backlog) \in Conns /\ Tail(backlog) \in Seq(Conns)
    BY <1>3 DEF TcpAccept, NetTypeOK, Positions
  <2>2. /\ Append(pollFds, Head(backlog)) \in Seq(Conns)
        /\ Append(pollFds, Head(backlog)) # <<>>
    BY <2>1 DEF TcpTypeOK
  <2>3. NetTypeOK' /\ TcpTypeOK'
    <3>1. openFds + 1 \in 0 .. FdLimit
      BY <1>3, ServerAssumption DEF TcpAccept, TcpTypeOK
    <3>2. NetTypeOK'
      BY <1>3, <2>1 DEF TcpAccept, NetTypeOK
    <3>3. TcpTypeOK'
      BY <1>3, <2>2, <3>1 DEF TcpAccept, TcpTypeOK
    <3>. QED  BY <3>2, <3>3
  <2>4. PcTypeOK' /\ Positions'
    BY <1>3, <2>2
    DEF TcpAccept, PcTypeOK, TcpTypeOK, RegistryTypeOK, Positions, Registering,
        IdsTaken
  <2>. QED  BY <1>3, <2>3, <2>4, TypeFrame DEF TcpAccept
<1>4. CASE TcpRegister
  <2>1. nextClientId \in Ids /\ Last(pollFds) \in Conns
    BY <1>4, ServerAssumption
    DEF TcpRegister, Positions, Registering, IdsTaken, TcpTypeOK,
        RegistryTypeOK, Last, Ids, S!Ids
  <2>2. RegistryTypeOK'
    BY <1>4, <2>1 DEF TcpRegister, RegistryTypeOK
  <2>3. PcTypeOK' /\ Positions'
    BY <1>4 DEF TcpRegister, PcTypeOK, Positions, Registering, IdsTaken
  <2>. QED  BY <1>4, <2>2, <2>3, TypeFrame DEF TcpRegister
<1>5. CASE TcpOnConnection \/ TcpOnConnectionThrows
  <2>1. nextClientId \in Ids /\ nextClientId + 1 \in 0 .. FdLimit
    BY <1>5, ServerAssumption
    DEF TcpOnConnection, TcpOnConnectionThrows, Positions, Registering,
        IdsTaken, TcpTypeOK, RegistryTypeOK, Ids, S!Ids
  <2>2. ObservedTypeOK'
    BY <1>5, <2>1, NotifyType
    DEF TcpOnConnection, TcpOnConnectionThrows, S!CallbackKinds, S!Phases
  <2>3. RegistryTypeOK'
    BY <1>5, <2>1 DEF TcpOnConnection, TcpOnConnectionThrows, RegistryTypeOK
  <2>4. PcTypeOK' /\ Positions'
    BY <1>5
    DEF TcpOnConnection, TcpOnConnectionThrows, PcTypeOK, RegistryTypeOK,
        TcpTypeOK, Positions, Registering, IdsTaken
  <2>. QED
    BY <1>5, <2>2, <2>3, <2>4, TypeFrame
    DEF TcpOnConnection, TcpOnConnectionThrows
<1>6. CASE TcpScanEnds
  <2>1. TcpTypeOK'
    BY <1>6 DEF TcpScanEnds, TcpTypeOK
  <2>2. PcTypeOK' /\ Positions'
    BY <1>6 DEF TcpScanEnds, PcTypeOK, Positions, Registering, IdsTaken
  <2>. QED  BY <1>6, <2>1, <2>2, TypeFrame DEF TcpScanEnds
<1>7. ASSUME NEW k \in 1 .. Len(pollFds), TcpScanFinds(k) PROVE TypeInv'
  <2>1. TcpTypeOK'
    BY <1>7 DEF TcpScanFinds, TcpTypeOK
  <2>2. PcTypeOK' /\ Positions'
    BY <1>7 DEF TcpScanFinds, PcTypeOK, Positions, Registering, IdsTaken
  <2>. QED  BY <1>7, <2>1, <2>2, TypeFrame DEF TcpScanFinds
<1>8. CASE TcpReadHeader \/ TcpReadBody
  <2>1. NetTypeOK'
    BY <1>8, PolledType, RecvType DEF TcpReadHeader, TcpReadBody
  <2>2. backlog' = backlog
    BY <1>8 DEF TcpReadHeader, TcpReadBody, RecvPiece, RecvEnd
  <2>3. PcTypeOK' /\ Positions'
    BY <1>8, <2>2
    DEF TcpReadHeader, TcpReadBody, PcTypeOK, Positions, Registering, IdsTaken
  <2>. QED  BY <1>8, <2>1, <2>3, TypeFrame DEF TcpReadHeader, TcpReadBody
<1>9. CASE TcpReadFails
  <2>1. NetTypeOK' /\ TcpTypeOK'
    BY <1>9 DEF TcpReadFails, RecvError, NetTypeOK, TcpTypeOK
  <2>2. PcTypeOK' /\ Positions'
    BY <1>9
    DEF TcpReadFails, RecvError, PcTypeOK, Positions, Registering, IdsTaken
  <2>. QED  BY <1>9, <2>1, <2>2, TypeFrame DEF TcpReadFails
<1>10. CASE TcpDeliver \/ TcpIdentify
  <2>1. tcpId' \in Ids
    BY <1>10, IdOfProperties DEF TcpDeliver, TcpIdentify
  <2>2. TcpTypeOK'
    BY <1>10, <2>1 DEF TcpDeliver, TcpIdentify, TcpTypeOK, Ids
  <2>3. PcTypeOK' /\ Positions'
    BY <1>10, <2>1
    DEF TcpDeliver, TcpIdentify, PcTypeOK, Positions, Registering, IdsTaken, Ids
  <2>. QED  BY <1>10, <2>2, <2>3, TypeFrame DEF TcpDeliver, TcpIdentify
<1>11. CASE TcpOnMessage \/ TcpDrops
  <2>1. ObservedTypeOK'
    <3>1. CASE TcpDrops
      BY <3>1, TypeFrame DEF TcpDrops
    <3>2. CASE TcpOnMessage
      <4>1. tcpId \in Ids /\ phase[tcpId] \in S!Phases
        BY <3>2 DEF TcpOnMessage, Positions, ObservedTypeOK
      <4>. QED  BY <3>2, <4>1, NotifyType DEF TcpOnMessage, S!CallbackKinds
    <3>. QED  BY <1>11, <3>1, <3>2
  <2>2. TcpTypeOK'
    BY <1>11 DEF TcpOnMessage, TcpDrops, TcpTypeOK
  <2>3. PcTypeOK' /\ Positions'
    BY <1>11
    DEF TcpOnMessage, TcpDrops, PcTypeOK, Positions, Registering, IdsTaken
  <2>. QED  BY <1>11, <2>1, <2>2, <2>3, TypeFrame DEF TcpOnMessage, TcpDrops
<1>12. CASE TcpPush
  <2>1. tcpId % IdModulus \in Ids
    <3>1. tcpId \in Ids /\ tcpId \in Nat /\ IdModulus \in Nat \ {0}
      BY <1>12, ServerAssumption DEF TcpPush, Positions, Ids, S!Ids
    <3>2. tcpId % IdModulus \in 0 .. tcpId
      BY <3>1, ModBound
    <3>. QED  BY <3>1, <3>2, ServerAssumption DEF Ids, S!Ids
  <2>2. disconnectionQueue' \in Seq(Ids) /\ disconnectionQueue' # <<>>
    BY <1>12, <2>1 DEF TcpPush, RegistryTypeOK
  <2>3. RegistryTypeOK' /\ TcpTypeOK'
    BY <1>12, <2>2 DEF TcpPush, RegistryTypeOK, TcpTypeOK
  <2>4. PcTypeOK' /\ Positions'
    BY <1>12, <2>2 DEF TcpPush, PcTypeOK, Positions, Registering, IdsTaken
  <2>. QED  BY <1>12, <2>3, <2>4, TypeFrame DEF TcpPush
<1>13. CASE TcpUnpoll
  <2>1. i \in 1 .. Len(pollFds)
    BY <1>13, PolledType DEF TcpUnpoll
  <2>2. pollFds' \in Seq(Conns)
    BY <1>13, <2>1, RemoveAtProperties DEF TcpUnpoll, WithoutEntry, TcpTypeOK
  <2>3. TcpTypeOK'
    BY <1>13, <2>2 DEF TcpUnpoll, TcpTypeOK, IndexAfterErase
  <2>4. PcTypeOK' /\ Positions'
    BY <1>13 DEF TcpUnpoll, PcTypeOK, Positions, Registering, IdsTaken
  <2>. QED  BY <1>13, <2>3, <2>4, TypeFrame DEF TcpUnpoll
<1>. QED
  BY <1>1, <1>2, <1>3, <1>4, <1>5, <1>6, <1>7, <1>8, <1>9, <1>10, <1>11, <1>12,
     <1>13
  DEF TcpNext

LEMMA MainTypeStep ==
    ASSUME TypeInv, MainNext
    PROVE  TypeInv'
<1>. USE DEF TypeInv, TypeOK
<1>1. CASE MainOuter \/ MainQueueEmpty \/ MainFindsClient \/ MainQuits
  <2>1. PcTypeOK' /\ Positions'
    BY <1>1
    DEF MainOuter, MainQueueEmpty, MainFindsClient, MainQuits, PcTypeOK,
        Positions, Registering, IdsTaken
  <2>. QED
    BY <1>1, <2>1, ControlTypeStep
    DEF MainOuter, MainQueueEmpty, MainFindsClient, MainQuits
<1>2. CASE MainOnDisconnection \/ MainOnDisconnectionThrows
  <2>1. ObservedTypeOK'
    BY <1>2, LeavingType, NotifyType
    DEF MainOnDisconnection, MainOnDisconnectionThrows, Positions,
        S!CallbackKinds, S!Phases
  <2>2. PcTypeOK' /\ Positions'
    <3>1. CASE MainOnDisconnection
      BY <3>1 DEF MainOnDisconnection, PcTypeOK, Positions, Registering,
                  IdsTaken
    <3>2. CASE MainOnDisconnectionThrows
      <4>1. \A t \in Threads : pc'[t] = "dead"
        BY <3>2 DEF MainOnDisconnectionThrows, Terminate
      <4>2. nextClientId <= openFds
        BY DEF Positions, Registering, IdsTaken, RegistryTypeOK, TcpTypeOK
      <4>3. PcTypeOK'
        BY <3>2 DEF MainOnDisconnectionThrows, Terminate, PcTypeOK
      <4>4. nextClientId' <= openFds'
        BY <3>2, <4>2 DEF MainOnDisconnectionThrows
      <4>. QED  BY <4>1, <4>3, <4>4 DEF Positions, Registering, IdsTaken
    <3>. QED  BY <1>2, <3>1, <3>2
  <2>. QED
    BY <1>2, <2>1, <2>2, TypeFrame
    DEF MainOnDisconnection, MainOnDisconnectionThrows
<1>3. CASE MainErase
  <2>1. Leaving \in Ids
    BY <1>3, LeavingType DEF MainErase, Positions
  <2>2. RegistryTypeOK'
    BY <1>3, <2>1 DEF MainErase, RegistryTypeOK
  <2>3. PcTypeOK' /\ Positions'
    BY <1>3 DEF MainErase, PcTypeOK, Positions, Registering, IdsTaken
  <2>. QED  BY <1>3, <2>2, <2>3, TypeFrame DEF MainErase
<1>4. CASE MainPop
  <2>1. Tail(disconnectionQueue) \in Seq(Ids)
    BY <1>4, HeadTailProperties DEF MainPop, Positions, RegistryTypeOK
  <2>2. RegistryTypeOK'
    BY <1>4, <2>1 DEF MainPop, RegistryTypeOK
  <2>3. PcTypeOK' /\ Positions'
    BY <1>4 DEF MainPop, PcTypeOK, Positions, Registering, IdsTaken
  <2>. QED  BY <1>4, <2>2, <2>3, TypeFrame DEF MainPop
<1>. QED  BY <1>1, <1>2, <1>3, <1>4 DEF MainNext

LEMMA UdpTypeStep ==
    ASSUME TypeInv, UdpNext
    PROVE  TypeInv'
<1>. USE DEF TypeInv, TypeOK
<1>1. ASSUME NEW endpoint \in Endpoints, UdpReceive(endpoint) PROVE TypeInv'
  <2>1. udpId' \in Ids
    BY <1>1 DEF UdpReceive
  <2>2. PcTypeOK' /\ Positions'
    BY <1>1, <2>1 DEF UdpReceive, PcTypeOK, Positions, Registering, IdsTaken,
                      Ids
  <2>. QED  BY <1>1, <2>1, <2>2, TypeFrame DEF UdpReceive, Ids
<1>2. CASE UdpFindsClient \/ UdpExit
  <2>1. PcTypeOK' /\ Positions'
    BY <1>2
    DEF UdpFindsClient, UdpExit, PcTypeOK, Positions, Registering, IdsTaken
  <2>. QED  BY <1>2, <2>1, ControlTypeStep DEF UdpFindsClient, UdpExit
<1>3. CASE UdpDrops \/ UdpDeliver
  <2>1. ObservedTypeOK'
    <3>1. CASE UdpDrops
      BY <3>1, TypeFrame DEF UdpDrops
    <3>2. CASE UdpDeliver
      <4>1. udpId \in Ids /\ phase[udpId] \in S!Phases
        BY <3>2 DEF UdpDeliver, Positions, ObservedTypeOK
      <4>. QED  BY <3>2, <4>1, NotifyType DEF UdpDeliver, S!CallbackKinds
    <3>. QED  BY <1>3, <3>1, <3>2
  <2>2. PcTypeOK' /\ Positions'
    BY <1>3
    DEF UdpDrops, UdpDeliver, PcTypeOK, Positions, Registering, IdsTaken
  <2>. QED  BY <1>3, <2>1, <2>2, TypeFrame DEF UdpDrops, UdpDeliver
<1>. QED  BY <1>1, <1>2, <1>3 DEF UdpNext

LEMMA AppTypeStep ==
    ASSUME TypeInv, AppNext
    PROVE  TypeInv'
<1>. USE DEF TypeInv, TypeOK
<1>1. CASE AppInitialize \/ AppCreateTcp \/ AppCreateUdp
  <2>1. PcTypeOK'
    BY <1>1 DEF AppInitialize, AppCreateTcp, AppCreateUdp, PcTypeOK
  <2>2. /\ pc'["tcp"] \in {pc["tcp"], "poll"}
        /\ pc'["main"] \in {pc["main"], "outer"}
        /\ pc'["udp"] \in {pc["udp"], "recv"}
        /\ pc'["app"] = "createTcp" => pc'["tcp"] = "off"
        /\ pc'["app"] # "initialize"
    BY <1>1
    DEF AppInitialize, AppCreateTcp, AppCreateUdp, PcTypeOK, Positions
  <2>3. Positions'
    BY <1>1, <2>2
    DEF AppInitialize, AppCreateTcp, AppCreateUdp, Positions, Registering,
        IdsTaken, RegistryTypeOK, TcpTypeOK
  <2>. QED
    BY <1>1, <2>1, <2>3, ControlTypeStep
    DEF AppInitialize, AppCreateTcp, AppCreateUdp
<1>2. CASE AppJoinUdp \/ AppJoinMain
  <2>1. PcTypeOK' /\ Positions'
    BY <1>2 DEF AppJoinUdp, AppJoinMain, PcTypeOK, Positions, Registering,
                IdsTaken
  <2>. QED  BY <1>2, <2>1, ControlTypeStep DEF AppJoinUdp, AppJoinMain
<1>3. CASE AppSetCallback \/ AppStop
  <2>1. AppTypeOK'
    BY <1>3 DEF AppSetCallback, AppStop, AppTypeOK
  <2>2. PcTypeOK' /\ Positions'
    BY <1>3
    DEF AppSetCallback, AppStop, PcTypeOK, Positions, Registering, IdsTaken
  <2>. QED  BY <1>3, <2>1, <2>2, TypeFrame DEF AppSetCallback, AppStop
<1>4. CASE AppDestroy \/ AppStopTcp \/ AppJoinTcp
  <2>1. PICK flag \in Threads \ {"app"}, from \in AppLabels,
             to \in {"stopTcp", "joinTcp", "joinUdp"} :
          AppClears(flag, from, to)
    BY <1>4 DEF AppDestroy, AppStopTcp, AppJoinTcp
  <2>2. AppTypeOK'
    BY <2>1 DEF AppClears, AppTypeOK
  <2>3. PcTypeOK' /\ Positions'
    BY <2>1 DEF AppClears, PcTypeOK, Positions, Registering, IdsTaken
  <2>. QED  BY <2>1, <2>2, <2>3, TypeFrame DEF AppClears
<1>. QED  BY <1>1, <1>2, <1>3, <1>4 DEF AppNext, AppShutdown

LEMMA PeerTypeStep ==
    ASSUME TypeInv, PeerNext
    PROVE  TypeInv'
<1>. USE DEF TypeInv, TypeOK
<1>1. PICK c \in Conns :
        \/ PeerConnect(c) \/ PieceArrives(c) \/ PartArrives(c)
        \/ PeerClose(c) \/ PeerAbort(c) \/ PeerVanish(c)
  BY DEF PeerNext
<1>2. NetTypeOK'
  <2>1. CASE PeerConnect(c)
    BY <2>1 DEF PeerConnect, NetTypeOK, LinkStates
  <2>2. CASE PieceArrives(c)
    <3>1. Settled(rx[c]) \in Seq(Pieces)
      BY DEF Settled, Front, NetTypeOK
    <3>2. PICK piece \in Pieces :
            rx' = [rx EXCEPT ![c] = Append(Settled(@), piece)]
      BY <2>2 DEF PieceArrives, NextPieces, Pieces
    <3>3. rx' \in [Conns -> Seq(Pieces)]
      BY <3>1, <3>2 DEF NetTypeOK
    <3>4. due' \in [Conns -> {"header", "body"}] /\ unsent' \in [Conns -> Nat]
      BY <2>2 DEF PieceArrives, NetTypeOK
    <3>. QED  BY <2>2, <3>3, <3>4 DEF PieceArrives, NetTypeOK
  <2>3. CASE PartArrives(c)
    BY <2>3 DEF PartArrives, NetTypeOK, Pieces
  <2>4. CASE PeerClose(c) \/ PeerAbort(c) \/ PeerVanish(c)
    BY <2>4 DEF PeerClose, PeerAbort, PeerVanish, NetTypeOK, LinkStates
  <2>. QED  BY <1>1, <2>1, <2>2, <2>3, <2>4
<1>3. Positions'
  <2>1. backlog # <<>> => backlog' # <<>>
    BY <1>1
    DEF PeerConnect, PieceArrives, PartArrives, PeerClose, PeerAbort,
        PeerVanish,
        NetTypeOK
  <2>. QED  BY <2>1 DEF PeerNext, Positions, Registering, IdsTaken
<1>. QED  BY <1>2, <1>3, TypeFrame DEF PeerNext, PcTypeOK

LEMMA TypeStep == TypeInv /\ [Next]_vars => TypeInv'
<1>. SUFFICES ASSUME TypeInv, [Next]_vars PROVE TypeInv'
  OBVIOUS
<1>1. CASE UNCHANGED vars
  <2>1. PcTypeOK' /\ Positions'
    BY <1>1 DEF vars, TypeInv, TypeOK, PcTypeOK, Positions, Registering,
                IdsTaken
  <2>. QED  BY <1>1, <2>1, ControlTypeStep DEF vars
<1>2. CASE Finished
  BY <1>1, <1>2 DEF Finished
<1>. QED
  BY <1>1, <1>2, TcpTypeStep, MainTypeStep, UdpTypeStep, AppTypeStep,
     PeerTypeStep
  DEF Next

(* Every variable keeps its type, and every thread finds at each label what *)
(* it relies on there: whatever the callbacks throw, however the lookups    *)
(* miss and however narrow the queued ids are.                              *)
THEOREM TypeCorrect == Spec => [](TypeOK /\ Positions)
  BY TypeInit, TypeStep, PTL DEF Spec, TypeInv

-----------------------------------------------------------------------------
(* The registry.  From here on no callback throws, and the ids fit the     *)
(* width of the queue: without the first an entry can be overwritten, or   *)
(* the process end between two steps; without the second the queue can     *)
(* name another client.                                                    *)

LEMMA RegistryInit == Init => RegistryInv
<1>. SUFFICES ASSUME Init PROVE RegistryInv
  OBVIOUS
<1>1. /\ Len(backlog) = 0 /\ Len(pollFds) = 0 /\ Len(disconnectionQueue) = 0
      /\ \A id \in Ids : clients[id] = Absent
      /\ ~At("tcp", "register") /\ ~InHand
  BY DEF Init, NetInit
<1>2. \A c \in Conns : ~Waiting(c) /\ ~Polling(c) /\ ~Registered(c)
  BY <1>1, ServerAssumption DEF Waiting, Polling, Registered
<1>3. Newcomers /\ Polls
  BY <1>1, <1>2 DEF Newcomers, Polls, NoRepetition
<1>4. Entries /\ Queued
  BY <1>1 DEF Entries, Queued, NoRepetition
<1>. QED  BY <1>3, <1>4 DEF RegistryInv

(* Before a step the tcp thread is where it is after it, if that is inside *)
(* a registration or a disconnection or it holds an id, and the main       *)
(* thread, if that is between erase and pop.                               *)
SamePhases ==
    /\ At("tcp", "register")' <=> At("tcp", "register")
    /\ At("tcp", "onConnection")' <=> At("tcp", "onConnection")
    /\ At("tcp", "unpoll")' <=> At("tcp", "unpoll")
    /\ InHand' => InHand
    /\ InHand' \/ At("tcp", "unpoll") => UNCHANGED <<i, tcpId>>
    /\ At("main", "pop")' <=> At("main", "pop")

(* Steps that touch none of the parts and are in none of these phases.     *)
LEMMA RegistryFrame ==
    ASSUME RegistryInv, SamePhases,
           UNCHANGED <<link, backlog, pollFds, registryVars>>
    PROVE  RegistryInv'
<1>. USE DEF SamePhases
<1>1. Newcomers'
  BY DEF RegistryInv, Newcomers, NoRepetition, Polling, Waiting, Registered
<1>2. \A c : Leaves(c)' <=> Leaves(c)
  BY DEF Leaves, Polled
<1>3. Polls'
  BY <1>2 DEF RegistryInv, Polls, NoRepetition, Registered, Polled
<1>4. Entries'
  BY DEF RegistryInv, Entries
<1>5. Queued'
  BY <1>2 DEF RegistryInv, Queued, NoRepetition, Polling
<1>. QED  BY <1>1, <1>3, <1>4, <1>5 DEF RegistryInv

LEMMA AcceptKeepsRegistry ==
    ASSUME TypeInv, RegistryInv, TcpAccept
    PROVE  RegistryInv'
<1>. DEFINE c == Head(backlog)
<1>1. /\ backlog \in Seq(Conns) /\ backlog # <<>> /\ pollFds \in Seq(Conns)
      /\ pollFds' = Append(pollFds, c) /\ backlog' = Tail(backlog)
      /\ UNCHANGED <<link, registryVars>>
      /\ At("tcp", "accept") /\ At("tcp", "register")'
      /\ At("main", "pop")' <=> At("main", "pop")
      /\ \A d : ~Leaves(d)
  BY DEF TcpAccept, TypeInv, TypeOK, PcTypeOK, NetTypeOK, TcpTypeOK, Positions,
         Leaves
<1>2. /\ c = backlog[1] /\ c \in Conns /\ Len(backlog) \in Nat \ {0}
      /\ Len(backlog') = Len(backlog) - 1
      /\ \A j \in 1 .. Len(backlog') : backlog'[j] = backlog[j + 1]
  BY <1>1, HeadTailProperties
<1>3. /\ Len(pollFds) \in Nat /\ Len(pollFds') = Len(pollFds) + 1
      /\ \A j \in 1 .. Len(pollFds) : pollFds'[j] = pollFds[j]
      /\ pollFds'[Len(pollFds')] = c
  BY <1>1, <1>2
<1>. HIDE DEF c
<1>4. Waiting(c) /\ ~Polling(c) /\ ~Registered(c)
  BY <1>2 DEF Waiting, RegistryInv, Newcomers
<1>5. \A d : Registered(d)' <=> Registered(d)
  BY <1>1 DEF Registered
<1>6. \A d : Polling(d)' <=> Polling(d) \/ d = c
  BY <1>3 DEF Polling
<1>7. \A d : Waiting(d)' => Waiting(d) /\ d # c
  BY <1>2 DEF Waiting, RegistryInv, Newcomers, NoRepetition
<1>8. Newcomers'
  <2>1. NoRepetition(backlog)'
    BY <1>2 DEF RegistryInv, Newcomers, NoRepetition
  <2>. QED
    BY <1>1, <1>4, <1>5, <1>6, <1>7, <2>1 DEF RegistryInv, Newcomers
<1>9. Polls'
  <2>1. NoRepetition(pollFds)'
    BY <1>3, <1>4 DEF RegistryInv, Polls, NoRepetition, Polling
  <2>2. ~Registered(Last(pollFds))'
    BY <1>3, <1>4, <1>5 DEF Last, Registered
  <2>3. \A k \in 1 .. Len(pollFds') :
          Registered(pollFds[k])' \/ k = Len(pollFds')
    <3>1. ASSUME NEW k \in 1 .. Len(pollFds) PROVE Registered(pollFds[k])
      BY <1>1 DEF RegistryInv, Polls, At
    <3>2. ASSUME NEW k \in 1 .. Len(pollFds'), k # Len(pollFds')
          PROVE  k \in 1 .. Len(pollFds) /\ pollFds'[k] = pollFds[k]
      BY <1>3, <3>2
    <3>3. ASSUME NEW k \in 1 .. Len(pollFds'), k # Len(pollFds')
          PROVE  Registered(pollFds[k])'
      <4>1. Registered(pollFds'[k])
        BY <3>1, <3>2, <3>3
      <4>. QED  BY <1>5, <4>1
    <3>. QED  BY <3>3
  <2>. QED  BY <1>1, <2>1, <2>2, <2>3 DEF Polls
<1>10. Entries'
  BY <1>1 DEF RegistryInv, Entries
<1>11. Queued'
  <2>1. \A k \in 1 .. Len(disconnectionQueue) : clients[disconnectionQueue[k]] # c
    BY <1>4 DEF Registered, RegistryInv, Queued, TypeInv, TypeOK, RegistryTypeOK
  <2>2. \A k \in 1 .. Len(disconnectionQueue) :
          ~Polling(clients[disconnectionQueue[k]])'
    BY <1>1, <1>6, <2>1 DEF RegistryInv, Queued
  <2>. QED  BY <1>1, <2>2 DEF RegistryInv, Queued, NoRepetition
<1>. QED  BY <1>8, <1>9, <1>10, <1>11 DEF RegistryInv

LEMMA RegisterKeepsRegistry ==
    ASSUME TypeInv, RegistryInv, TcpRegister
    PROVE  RegistryInv'
<1>. DEFINE c == Last(pollFds)
<1>1. /\ pollFds \in Seq(Conns) /\ pollFds # <<>>
      /\ clients \in [Ids -> Conns \cup {Absent}]
      /\ nextClientId \in Ids /\ clients' = [clients EXCEPT ![nextClientId] = c]
      /\ UNCHANGED <<link, backlog, pollFds, nextClientId, disconnectionQueue>>
      /\ At("tcp", "register") /\ At("tcp", "onConnection")'
      /\ At("main", "pop")' <=> At("main", "pop")
      /\ \A d : ~Leaves(d)
  BY ServerAssumption
  DEF TcpRegister, TypeInv, TypeOK, PcTypeOK, TcpTypeOK, RegistryTypeOK,
      Positions, Registering, IdsTaken, Ids, S!Ids, Leaves
<1>2. c = pollFds[Len(pollFds)] /\ Len(pollFds) \in 1 .. Len(pollFds) /\ c \in Conns
  BY <1>1 DEF Last
<1>3. clients[nextClientId] = Absent
  BY <1>1 DEF RegistryInv, Entries, Ids, S!Ids
<1>4. Polling(c) /\ ~Registered(c) /\ c # Absent
  BY <1>1, <1>2, ServerAssumption DEF Polling, RegistryInv, Polls
<1>. HIDE DEF c
<1>5. \A d \in Conns : Registered(d)' <=> Registered(d) \/ d = c
  BY <1>1, <1>3, ServerAssumption DEF Registered
<1>6. \A d : (Polling(d)' <=> Polling(d)) /\ (Waiting(d)' <=> Waiting(d))
  BY <1>1 DEF Polling, Waiting
<1>7. Newcomers'
  BY <1>1, <1>2, <1>4, <1>5, <1>6 DEF RegistryInv, Newcomers, NoRepetition
<1>8. Polls'
  <2>1. \A k \in 1 .. Len(pollFds) : Registered(pollFds[k])'
    BY <1>1, <1>2, <1>5 DEF RegistryInv, Polls
  <2>2. ~At("tcp", "register")' /\ ~InHand'
    BY <1>1
  <2>. QED  BY <1>1, <2>1, <2>2 DEF RegistryInv, Polls, NoRepetition
<1>9. Entries'
  BY <1>1, <1>4 DEF RegistryInv, Entries, Registered
<1>10. Queued'
  <2>1. ASSUME NEW k \in 1 .. Len(disconnectionQueue)
        PROVE  LET d == clients'[disconnectionQueue[k]]
               IN  /\ d # Absent \/ (At("main", "pop") /\ k = 1)
                   /\ ~Polling(d)
    <3>1. disconnectionQueue[k] \in Ids
      BY DEF TypeInv, TypeOK, RegistryTypeOK
    <3>2. CASE disconnectionQueue[k] # nextClientId
      BY <1>1, <2>1, <3>1, <3>2 DEF RegistryInv, Queued
    <3>3. CASE disconnectionQueue[k] = nextClientId
      BY <1>1, <2>1, <3>3
      DEF RegistryInv, Queued, TypeInv, TypeOK, RegistryTypeOK
    <3>. QED  BY <3>2, <3>3
  <2>. QED  BY <1>1, <1>6, <2>1 DEF RegistryInv, Queued, NoRepetition
<1>. QED  BY <1>7, <1>8, <1>9, <1>10 DEF RegistryInv

LEMMA OnConnectionKeepsRegistry ==
    ASSUME TypeInv, RegistryInv, TcpOnConnection
    PROVE  RegistryInv'
<1>1. /\ UNCHANGED <<link, backlog, pollFds, clients, disconnectionQueue>>
      /\ nextClientId \in Nat /\ nextClientId' = nextClientId + 1
      /\ pc["tcp"] = "onConnection" /\ pc'["tcp"] = "scan"
      /\ At("main", "pop")' <=> At("main", "pop")
  BY ServerAssumption
  DEF TcpOnConnection, TypeInv, TypeOK, PcTypeOK, RegistryTypeOK
<1>2. \A d : ~Leaves(d) /\ ~Leaves(d)'
  BY <1>1 DEF Leaves
<1>3. Newcomers'
  BY <1>1 DEF RegistryInv, Newcomers, NoRepetition, Polling, Waiting, Registered
<1>4. Polls'
  BY <1>1, <1>2 DEF RegistryInv, Polls, NoRepetition, Registered
<1>5. Entries'
  BY <1>1, ServerAssumption DEF RegistryInv, Entries, Ids, S!Ids
<1>6. Queued'
  <2>1. \A k \in 1 .. Len(disconnectionQueue) :
          disconnectionQueue[k] < nextClientId'
    <3>1. \A k \in 1 .. Len(disconnectionQueue) : disconnectionQueue[k] \in Nat
      <4>1. disconnectionQueue \in Seq(Ids)
        BY DEF TypeInv, TypeOK, RegistryTypeOK
      <4>2. \A k \in 1 .. Len(disconnectionQueue) : disconnectionQueue[k] \in Ids
        BY <4>1
      <4>. QED  BY <4>2, ServerAssumption DEF Ids, S!Ids
    <3>2. \A k \in 1 .. Len(disconnectionQueue) :
            disconnectionQueue[k] < nextClientId
      BY DEF RegistryInv, Queued
    <3>. QED  BY <1>1, <3>1, <3>2
  <2>. QED
    BY <1>1, <1>2, <2>1 DEF RegistryInv, Queued, NoRepetition, Polling
<1>. QED  BY <1>3, <1>4, <1>5, <1>6 DEF RegistryInv

(* The id that is read for a client stays its id while it is in hand.      *)
LEMMA IdentifyKeepsRegistry ==
    ASSUME TypeInv, RegistryInv, TcpDeliver \/ TcpIdentify
    PROVE  RegistryInv'
<1>1. /\ UNCHANGED <<link, backlog, pollFds, registryVars, i>>
      /\ pc["tcp"] \in {"deliver", "identify"}
      /\ pc'["tcp"] \in {"find", "push"}
      /\ At("main", "pop")' <=> At("main", "pop")
      /\ clients[tcpId'] = Polled
  BY IdOfProperties DEF TcpDeliver, TcpIdentify, TypeInv, TypeOK, PcTypeOK
<1>2. \A d : ~Leaves(d) /\ ~Leaves(d)'
  BY <1>1 DEF Leaves
<1>3. Newcomers'
  BY <1>1 DEF RegistryInv, Newcomers, NoRepetition, Polling, Waiting, Registered
<1>4. Polls'
  BY <1>1, <1>2 DEF RegistryInv, Polls, NoRepetition, Registered, Polled
<1>5. Entries'
  BY <1>1 DEF RegistryInv, Entries
<1>6. Queued'
  BY <1>1, <1>2 DEF RegistryInv, Queued, NoRepetition, Polling
<1>. QED  BY <1>3, <1>4, <1>5, <1>6 DEF RegistryInv

(* It is not queued yet, for its client is still polled; with the push the *)
(* client starts to leave.                                                 *)
LEMMA PushKeepsRegistry ==
    ASSUME FdLimit <= IdModulus, TypeInv, RegistryInv, TcpPush
    PROVE  RegistryInv'
<1>1. /\ pollFds \in Seq(Conns) /\ i \in 1 .. Len(pollFds)
      /\ Polled = pollFds[i] /\ Polled \in Conns
      /\ tcpId \in Ids /\ clients[tcpId] = Polled
  <2>1. i \in 1 .. Len(pollFds) /\ Polled = pollFds[i] /\ Polled \in Conns
    BY PolledType DEF TcpPush, Polled
  <2>2. pollFds \in Seq(Conns) /\ tcpId \in Ids
    BY DEF TcpPush, TypeInv, TypeOK, TcpTypeOK, Positions
  <2>3. clients[tcpId] = Polled
    BY DEF TcpPush, RegistryInv, Polls
  <2>. QED  BY <2>1, <2>2, <2>3
<1>2. tcpId % IdModulus = tcpId
  <2>1. tcpId \in Nat /\ IdModulus \in Nat /\ tcpId < IdModulus
    BY <1>1, ServerAssumption DEF Ids, S!Ids
  <2>. QED  BY <2>1, ModSmall
<1>3. /\ disconnectionQueue \in Seq(Ids)
      /\ disconnectionQueue' = Append(disconnectionQueue, tcpId)
      /\ UNCHANGED <<link, backlog, pollFds, i, clients, nextClientId>>
      /\ pc["tcp"] = "push" /\ pc'["tcp"] = "unpoll"
      /\ At("main", "pop")' <=> At("main", "pop")
  BY <1>2 DEF TcpPush, TypeInv, TypeOK, PcTypeOK, RegistryTypeOK
<1>4. /\ Len(disconnectionQueue') = Len(disconnectionQueue) + 1
      /\ Len(disconnectionQueue) \in Nat
      /\ \A j \in 1 .. Len(disconnectionQueue) :
           disconnectionQueue'[j] = disconnectionQueue[j]
      /\ disconnectionQueue'[Len(disconnectionQueue) + 1] = tcpId
  BY <1>1, <1>3
<1>5. Polling(Polled) /\ Polled # Absent
  BY <1>1, ServerAssumption DEF Polling
<1>6. \A d : ~Leaves(d) /\ (Leaves(d)' <=> d = Polled)
  BY <1>3 DEF Leaves, Polled
<1>7. Newcomers'
  BY <1>3 DEF RegistryInv, Newcomers, NoRepetition, Polling, Waiting, Registered
<1>8. Polls'
  BY <1>3, <1>6 DEF RegistryInv, Polls, NoRepetition, Registered
<1>9. Entries'
  BY <1>3 DEF RegistryInv, Entries
<1>10. Queued'
  <2>1. ASSUME NEW j \in 1 .. Len(disconnectionQueue)
        PROVE  disconnectionQueue[j] # tcpId
    BY <1>1, <1>5, <1>6 DEF RegistryInv, Queued
  <2>2. NoRepetition(disconnectionQueue)'
    BY <1>4, <2>1 DEF RegistryInv, Queued, NoRepetition
  <2>3. ASSUME NEW k \in 1 .. Len(disconnectionQueue')
        PROVE  LET c == clients[disconnectionQueue'[k]]
               IN  /\ c # Absent \/ (At("main", "pop") /\ k = 1)
                   /\ Polling(c) => c = Polled
    <3>1. CASE k = Len(disconnectionQueue) + 1
      BY <1>1, <1>4, <1>5, <3>1
    <3>2. CASE k \in 1 .. Len(disconnectionQueue)
      BY <1>4, <1>6, <3>2 DEF RegistryInv, Queued
    <3>. QED  BY <1>4, <3>1, <3>2
  <2>4. \A c : Polling(c)' <=> Polling(c)
    BY <1>3 DEF Polling
  <2>5. tcpId < nextClientId
    BY <1>1, <1>3, <1>5 DEF RegistryInv, Entries
  <2>6. \A k \in 1 .. Len(disconnectionQueue') :
          disconnectionQueue'[k] < nextClientId
    BY <1>4, <2>5 DEF RegistryInv, Queued
  <2>. QED  BY <1>3, <1>6, <2>2, <2>3, <2>4, <2>6 DEF Queued
<1>. QED  BY <1>7, <1>8, <1>9, <1>10 DEF RegistryInv

(* The client that leaves may be in the map or out of it by now.           *)
LEMMA UnpollKeepsRegistry ==
    ASSUME TypeInv, RegistryInv, TcpUnpoll
    PROVE  RegistryInv'
<1>. DEFINE c == Polled
<1>1. i \in 1 .. Len(pollFds) /\ c = pollFds[i] /\ pollFds \in Seq(Conns)
  BY PolledType DEF TcpUnpoll, Polled, TypeInv, TypeOK, TcpTypeOK
<1>2. /\ pollFds' = RemoveAt(pollFds, i)
      /\ UNCHANGED <<link, backlog, registryVars>>
      /\ pc["tcp"] = "unpoll" /\ pc'["tcp"] = "scan"
      /\ At("main", "pop")' <=> At("main", "pop")
  BY DEF TcpUnpoll, WithoutEntry, TypeInv, TypeOK, PcTypeOK
<1>3. /\ Len(pollFds') = Len(pollFds) - 1 /\ Len(pollFds) \in Nat
      /\ \A j \in 1 .. Len(pollFds) - 1 :
           pollFds'[j] = pollFds[IF j < i THEN j ELSE j + 1]
  <2>1. Len(pollFds) \in Nat
    BY <1>1
  <2>. HIDE DEF c
  <2>. QED  BY <1>1, <1>2, <2>1, RemoveAtProperties
<1>4. \A d : (Leaves(d) <=> d = c) /\ ~Leaves(d)'
  BY <1>2 DEF Leaves
<1>. HIDE DEF c
<1>5. \A d : Polling(d)' => Polling(d) /\ d # c
  <2>1. ASSUME NEW j \in 1 .. Len(pollFds')
        PROVE  \E k \in 1 .. Len(pollFds) : pollFds'[j] = pollFds[k] /\ k # i
    <3>1. CASE j < i
      BY <1>1, <1>3, <3>1
    <3>2. CASE ~(j < i)
      <4>1. j + 1 \in 1 .. Len(pollFds) /\ j + 1 # i /\ pollFds'[j] = pollFds[j + 1]
        BY <1>1, <1>3, <3>2
      <4>. QED  BY <4>1
    <3>. QED  BY <3>1, <3>2
  <2>. QED  BY <1>1, <2>1 DEF Polling, RegistryInv, Polls, NoRepetition
<1>6. \A d : (Registered(d)' <=> Registered(d)) /\ (Waiting(d)' <=> Waiting(d))
  BY <1>2 DEF Registered, Waiting
<1>7. Newcomers'
  <2>1. NoRepetition(backlog)'
    BY <1>2 DEF RegistryInv, Newcomers, NoRepetition
  <2>2. UNCHANGED link
    BY <1>2
  <2>. QED  BY <1>5, <1>6, <2>1, <2>2 DEF RegistryInv, Newcomers
<1>8. Polls'
  <2>1. NoRepetition(pollFds)'
    <3>1. \A j, k \in 1 .. Len(pollFds) : pollFds[j] = pollFds[k] => j = k
      BY DEF RegistryInv, Polls, NoRepetition
    <3>2. SUFFICES ASSUME NEW j \in 1 .. Len(pollFds'), NEW k \in 1 .. Len(pollFds'),
                          pollFds'[j] = pollFds'[k]
                   PROVE  j = k
      BY DEF NoRepetition
    <3>3. (IF j < i THEN j ELSE j + 1) = (IF k < i THEN k ELSE k + 1)
      <4>. DEFINE before(n) == IF n < i THEN n ELSE n + 1
      <4>1. before(j) \in 1 .. Len(pollFds) /\ before(k) \in 1 .. Len(pollFds)
        BY <1>1, <1>3
      <4>2. pollFds[before(j)] = pollFds[before(k)]
        BY <1>3, <3>2
      <4>. QED  BY <3>1, <4>1, <4>2
    <3>. QED  BY <1>1, <3>3
  <2>2. \A k \in 1 .. Len(pollFds') : Registered(pollFds[k])'
    <3>1. ASSUME NEW d, Polling(d)' PROVE Registered(d)'
      BY <1>2, <1>4, <1>5, <1>6, <3>1 DEF RegistryInv, Polls, Polling
    <3>. QED  BY <3>1 DEF Polling
  <2>. QED  BY <1>2, <2>1, <2>2 DEF Polls
<1>9. Entries'
  BY <1>2 DEF RegistryInv, Entries
<1>10. Queued'
  BY <1>2, <1>4, <1>5 DEF RegistryInv, Queued, NoRepetition
<1>. QED  BY <1>7, <1>8, <1>9, <1>10 DEF RegistryInv

(* Manager::run forgets a client that is polled no more, or that Tcp::run  *)
(* is about to drop: not one whose id is still to be queued.               *)
LEMMA EraseKeepsRegistry ==
    ASSUME TypeInv, RegistryInv, MainErase
    PROVE  RegistryInv'
<1>. DEFINE id == Leaving
            c == clients[Leaving]
<1>1. /\ disconnectionQueue \in Seq(Ids) /\ disconnectionQueue # <<>>
      /\ clients \in [Ids -> Conns \cup {Absent}]
      /\ clients' = [clients EXCEPT ![id] = Absent]
      /\ UNCHANGED <<link, backlog, pollFds, i, tcpId, nextClientId,
                     disconnectionQueue>>
      /\ pc'["tcp"] = pc["tcp"]
      /\ At("main", "erase") /\ At("main", "pop")'
  BY DEF MainErase, TypeInv, TypeOK, PcTypeOK, RegistryTypeOK, Positions
<1>2. /\ id = disconnectionQueue[1] /\ id \in Ids
      /\ 1 \in 1 .. Len(disconnectionQueue)
  BY <1>1, HeadTailProperties DEF Leaving
<1>3. /\ c = clients[id] /\ c # Absent /\ c \in Conns
      /\ Polling(c) => Leaves(c)
  BY <1>1, <1>2 DEF RegistryInv, Queued
<1>. HIDE DEF id, c
<1>4. \A d \in Conns : Registered(d)' <=> Registered(d) /\ d # c
  BY <1>1, <1>2, <1>3, ServerAssumption DEF Registered, RegistryInv, Entries
<1>5. \A d : /\ (Polling(d)' <=> Polling(d)) /\ (Waiting(d)' <=> Waiting(d))
            /\ (Leaves(d)' <=> Leaves(d))
  BY <1>1 DEF Polling, Waiting, Leaves, Polled
<1>6. Newcomers'
  BY <1>1, <1>4, <1>5 DEF RegistryInv, Newcomers, NoRepetition
<1>7. Polls'
  <2>1. /\ pollFds \in Seq(Conns) /\ (At("tcp", "register") => pollFds # <<>>)
        /\ InHand => i \in 1 .. Len(pollFds) /\ tcpId \in Ids
    BY DEF TypeInv, TypeOK, TcpTypeOK, Positions
  <2>2. \A k \in 1 .. Len(pollFds) :
          pollFds[k] \in Conns /\ (pollFds[k] = c => Leaves(c))
    BY <1>3, <2>1 DEF Polling
  <2>3. At("tcp", "register") => ~Registered(Last(pollFds))'
    BY <1>1, <1>4, <2>1 DEF RegistryInv, Polls, Last
  <2>4. InHand => clients'[tcpId] = Polled
    <3>1. SUFFICES ASSUME InHand PROVE tcpId # id
      BY <1>1, <1>2, <2>1 DEF RegistryInv, Polls
    <3>2. ~Leaves(c) /\ Polling(Polled)
      BY <2>1, <3>1 DEF Leaves, Polling, Polled
    <3>. QED  BY <1>3, <3>1, <3>2 DEF RegistryInv, Polls
  <2>5. \A k \in 1 .. Len(pollFds) :
          Registered(pollFds[k]) => Registered(pollFds[k])' \/ Leaves(pollFds[k])
    BY <1>1, <1>4, <2>2
  <2>. QED
    BY <1>1, <1>5, <2>3, <2>4, <2>5 DEF RegistryInv, Polls, NoRepetition, Polled
<1>8. Entries'
  BY <1>1 DEF RegistryInv, Entries
<1>9. Queued'
  <2>1. ASSUME NEW k \in 1 .. Len(disconnectionQueue), k # 1
        PROVE  clients'[disconnectionQueue[k]] = clients[disconnectionQueue[k]]
    <3>1. disconnectionQueue[k] # id
      BY <1>2, <2>1 DEF RegistryInv, Queued, NoRepetition
    <3>. QED  BY <1>1, <3>1
  <2>2. clients'[disconnectionQueue[1]] = Absent /\ ~Polling(Absent)
    <3>1. \A k \in 1 .. Len(pollFds) : pollFds[k] # Absent
      BY ServerAssumption DEF TypeInv, TypeOK, TcpTypeOK
    <3>. QED  BY <1>1, <1>2, <3>1 DEF Polling
  <2>3. ASSUME NEW k \in 1 .. Len(disconnectionQueue)
        PROVE  LET d == clients'[disconnectionQueue[k]]
               IN  (d # Absent \/ k = 1) /\ (Polling(d) => Leaves(d))
    BY <1>1, <2>1, <2>2 DEF RegistryInv, Queued
  <2>. QED  BY <1>1, <1>5, <2>3 DEF RegistryInv, Queued, NoRepetition
<1>. QED  BY <1>6, <1>7, <1>8, <1>9 DEF RegistryInv

(* The id popped is the one whose entry is gone.                           *)
LEMMA PopKeepsRegistry ==
    ASSUME TypeInv, RegistryInv, MainPop
    PROVE  RegistryInv'
<1>1. /\ disconnectionQueue \in Seq(Ids) /\ disconnectionQueue # <<>>
      /\ disconnectionQueue' = Tail(disconnectionQueue)
      /\ UNCHANGED <<link, backlog, pollFds, i, tcpId, clients, nextClientId>>
      /\ pc'["tcp"] = pc["tcp"]
      /\ At("main", "pop") /\ At("main", "inner")'
  BY DEF MainPop, TypeInv, TypeOK, PcTypeOK, RegistryTypeOK, Positions
<1>2. /\ Len(disconnectionQueue) \in Nat \ {0}
      /\ Len(disconnectionQueue') = Len(disconnectionQueue) - 1
      /\ \A k \in 1 .. Len(disconnectionQueue') :
           disconnectionQueue'[k] = disconnectionQueue[k + 1]
  BY <1>1, HeadTailProperties
<1>3. \A d : /\ (Polling(d)' <=> Polling(d)) /\ (Leaves(d)' <=> Leaves(d))
            /\ (Registered(d)' <=> Registered(d)) /\ (Waiting(d)' <=> Waiting(d))
  BY <1>1 DEF Polling, Waiting, Leaves, Polled, Registered
<1>4. Newcomers'
  BY <1>1, <1>3 DEF RegistryInv, Newcomers, NoRepetition
<1>5. Polls'
  BY <1>1, <1>3 DEF RegistryInv, Polls, NoRepetition, Polled
<1>6. Entries'
  BY <1>1 DEF RegistryInv, Entries
<1>7. Queued'
  <2>1. NoRepetition(disconnectionQueue)'
    BY <1>2 DEF RegistryInv, Queued, NoRepetition
  <2>2. ASSUME NEW k \in 1 .. Len(disconnectionQueue')
        PROVE  LET c == clients[disconnectionQueue'[k]]
               IN  c # Absent /\ (Polling(c) => Leaves(c))
    <3>1. k + 1 \in 1 .. Len(disconnectionQueue) /\ k + 1 # 1
      BY <1>2
    <3>. QED  BY <1>2, <3>1 DEF RegistryInv, Queued
  <2>3. \A k \in 1 .. Len(disconnectionQueue') :
          disconnectionQueue'[k] < nextClientId
    BY <1>2 DEF RegistryInv, Queued
  <2>. QED  BY <1>1, <1>3, <2>1, <2>2, <2>3 DEF Queued
<1>. QED  BY <1>4, <1>5, <1>6, <1>7 DEF RegistryInv

LEMMA PeersKeepRegistry ==
    ASSUME TypeInv, RegistryInv, PeerNext
    PROVE  RegistryInv'
<1>. USE DEF TypeInv, TypeOK
<1>1. /\ UNCHANGED <<tcpVars, registryVars, pc>>
      /\ \A d : /\ (Registered(d)' <=> Registered(d))
               /\ (Polling(d)' <=> Polling(d))
               /\ (Leaves(d)' <=> Leaves(d))
  BY DEF PeerNext, Registered, Polling, Leaves, Polled
<1>2. Newcomers'
  <2>1. PICK c \in Conns :
          \/ PeerConnect(c) \/ PieceArrives(c) \/ PartArrives(c)
          \/ PeerClose(c) \/ PeerAbort(c) \/ PeerVanish(c)
    BY DEF PeerNext
  <2>2. CASE PeerConnect(c)
    <3>1. /\ backlog \in Seq(Conns) /\ backlog' = Append(backlog, c)
          /\ link[c] = "none" /\ link' = [link EXCEPT ![c] = "up"]
      BY <2>2 DEF PeerConnect, NetTypeOK
    <3>2. ~Waiting(c) /\ ~Polling(c) /\ ~Registered(c)
      BY <3>1 DEF RegistryInv, Newcomers
    <3>3. /\ Len(backlog) \in Nat /\ Len(backlog') = Len(backlog) + 1
          /\ \A j \in 1 .. Len(backlog) : backlog'[j] = backlog[j]
          /\ backlog'[Len(backlog) + 1] = c
      BY <3>1
    <3>4. \A d : Waiting(d)' <=> Waiting(d) \/ d = c
      BY <3>3 DEF Waiting
    <3>5. NoRepetition(backlog)'
      BY <3>2, <3>3 DEF RegistryInv, Newcomers, NoRepetition, Waiting
    <3>6. \A d \in Conns : link'[d] = "none" => link[d] = "none" /\ d # c
      BY <3>1 DEF NetTypeOK
    <3>. QED  BY <1>1, <3>2, <3>4, <3>5, <3>6 DEF RegistryInv, Newcomers
  <2>3. CASE ~PeerConnect(c)
    <3>1. /\ backlog' = backlog
          /\ \A d \in Conns : link'[d] = "none" => link[d] = "none"
      BY <2>1, <2>3
      DEF PieceArrives, PartArrives, PeerClose, PeerAbort, PeerVanish, NetTypeOK
    <3>. QED  BY <1>1, <3>1 DEF RegistryInv, Newcomers, NoRepetition, Waiting
  <2>. QED  BY <2>2, <2>3
<1>3. Polls'
  BY <1>1 DEF RegistryInv, Polls, NoRepetition, Polled
<1>4. Entries'
  BY <1>1 DEF RegistryInv, Entries
<1>5. Queued'
  BY <1>1 DEF RegistryInv, Queued, NoRepetition
<1>. QED  BY <1>2, <1>3, <1>4, <1>5 DEF RegistryInv

LEMMA RegistryStep ==
    ASSUME Throws = {}, FdLimit <= IdModulus, TypeInv, RegistryInv, [Next]_vars
    PROVE  RegistryInv'
<1>. DEFINE Inside == {"register", "onConnection", "push", "unpoll"}
<1>1. ASSUME NEW from, NEW to, Step("tcp", from, to),
             from \notin Inside, to \notin Inside \cup {"find", "onMessage"},
             UNCHANGED <<link, backlog, pollFds, registryVars>>
      PROVE  RegistryInv'
  <2>1. SamePhases
    BY <1>1 DEF SamePhases, TypeInv, TypeOK, PcTypeOK
  <2>. QED  BY <1>1, <2>1, RegistryFrame
<1>2. ASSUME NEW t \in {"main", "udp"}, NEW from, NEW to, Step(t, from, to),
             t = "main" => from # "pop" /\ to # "pop",
             UNCHANGED <<link, backlog, tcpVars, registryVars>>
      PROVE  RegistryInv'
  <2>1. SamePhases
    BY <1>2 DEF SamePhases, TypeInv, TypeOK, PcTypeOK
  <2>. QED  BY <1>2, <2>1, RegistryFrame
<1>3. CASE TcpNext
  <2>1. CASE TcpPoll \/ TcpExit \/ TcpAcceptFails \/ TcpScanEnds
    BY <1>1, <2>1 DEF TcpPoll, TcpExit, TcpAcceptFails, TcpScanEnds
  <2>2. ASSUME NEW k \in 1 .. Len(pollFds), TcpScanFinds(k) PROVE RegistryInv'
    BY <1>1, <2>2 DEF TcpScanFinds
  <2>3. CASE TcpReadHeader \/ TcpReadStopped \/ TcpReadBody \/ TcpReadFails
    BY <1>1, <2>3
    DEF TcpReadHeader, TcpReadStopped, TcpReadBody, TcpReadFails, RecvPiece,
        RecvEnd, RecvError
  <2>4. CASE TcpFindsClient
    <3>1. SamePhases
      BY <2>4 DEF TcpFindsClient, SamePhases, TypeInv, TypeOK, PcTypeOK
    <3>. QED  BY <2>4, <3>1, RegistryFrame DEF TcpFindsClient
  <2>5. CASE TcpOnMessage \/ TcpDrops \/ TcpDisconnect \/ TcpDisconnectFails
    BY <1>1, <2>5 DEF TcpOnMessage, TcpDrops, TcpDisconnect, TcpDisconnectFails
  <2>6. ~TcpOnConnectionThrows
    BY DEF TcpOnConnectionThrows, MayThrow
  <2>. QED
    BY <1>3, <2>1, <2>2, <2>3, <2>4, <2>5, <2>6, AcceptKeepsRegistry,
       RegisterKeepsRegistry, OnConnectionKeepsRegistry, IdentifyKeepsRegistry,
       PushKeepsRegistry, UnpollKeepsRegistry
    DEF TcpNext
<1>4. CASE MainNext
  <2>1. CASE MainOuter \/ MainQueueEmpty \/ MainFindsClient \/ MainQuits
    BY <1>2, <2>1 DEF MainOuter, MainQueueEmpty, MainFindsClient, MainQuits
  <2>2. CASE MainOnDisconnection
    BY <1>2, <2>2 DEF MainOnDisconnection
  <2>3. ~MainOnDisconnectionThrows
    BY DEF MainOnDisconnectionThrows, MayThrow
  <2>. QED
    BY <1>4, <2>1, <2>2, <2>3, EraseKeepsRegistry, PopKeepsRegistry DEF MainNext
<1>5. CASE UdpNext
  <2>1. ASSUME NEW endpoint \in Endpoints, UdpReceive(endpoint)
        PROVE  RegistryInv'
    BY <1>2, <2>1 DEF UdpReceive
  <2>2. CASE UdpFindsClient \/ UdpDrops \/ UdpDeliver \/ UdpExit
    BY <1>2, <2>2 DEF UdpFindsClient, UdpDrops, UdpDeliver, UdpExit
  <2>. QED  BY <1>5, <2>1, <2>2 DEF UdpNext
<1>6. CASE AppNext
  <2>1. UNCHANGED <<link, backlog, tcpVars, registryVars>>
    BY <1>6
    DEF AppNext, AppInitialize, AppCreateTcp, AppCreateUdp, AppSetCallback,
        AppStop, AppDestroy, AppShutdown, AppStopTcp, AppJoinTcp, AppJoinUdp,
        AppJoinMain, AppClears
  <2>2. /\ \/ pc'["tcp"] = pc["tcp"]
           \/ pc["tcp"] = "off" /\ pc'["tcp"] = "poll"
        /\ \/ pc'["main"] = pc["main"]
           \/ pc["main"] = "off" /\ pc'["main"] = "outer"
    BY <1>6
    DEF Positions, TypeInv, TypeOK, PcTypeOK, AppNext, AppInitialize,
        AppCreateTcp, AppCreateUdp, AppSetCallback, AppStop, AppDestroy,
        AppShutdown, AppStopTcp, AppJoinTcp, AppJoinUdp, AppJoinMain, AppClears
  <2>. QED  BY <2>1, <2>2, RegistryFrame DEF SamePhases
<1>7. CASE Finished \/ UNCHANGED vars
  BY <1>7, RegistryFrame DEF Finished, vars, SamePhases
<1>. QED  BY <1>3, <1>4, <1>5, <1>6, <1>7, PeersKeepRegistry DEF Next

(* The invariant, for any number of connections and descriptors.           *)
THEOREM InvariantHolds ==
    ASSUME Throws = {}, FdLimit <= IdModulus
    PROVE  Spec => []IInv
<1>1. Init => IInv
  BY TypeInit, RegistryInit DEF IInv
<1>2. IInv /\ [Next]_vars => IInv'
  BY TypeStep, RegistryStep DEF IInv
<1>. QED  BY <1>1, <1>2, PTL DEF Spec

(* Every polled descriptor that Tcp::run still looks up belongs to a       *)
(* client of the map, so its lookups can fail only through the unlocked    *)
(* map.                                                                    *)
THEOREM RegistryCorrect ==
    ASSUME Throws = {}, FdLimit <= IdModulus
    PROVE  Spec => []RegistryAgrees
<1>1. IInv => RegistryAgrees
  BY DEF IInv, RegistryInv, Polls, RegistryAgrees
<1>. QED  BY <1>1, InvariantHolds, PTL

(* Manager::run finds every client whose id is queued, and forgets nobody  *)
(* whom Tcp::run still serves.                                             *)
THEOREM QueueCorrect ==
    ASSUME Throws = {}, FdLimit <= IdModulus
    PROVE  Spec => []QueueAgrees
<1>1. IInv => QueueAgrees
  BY DEF IInv, RegistryInv, Queued, Polling, QueueAgrees, Range
<1>. QED  BY <1>1, InvariantHolds, PTL
=============================================================================
