-------------------------- MODULE ClientSideProofs --------------------------
(***************************************************************************)
(* Proofs about module ClientSide, for any number of processes and ports.  *)
(***************************************************************************)
EXTENDS ClientSide, TLAPS

-----------------------------------------------------------------------------
(* The invariant of one client.                                            *)

Early == {"off", "probing", "createTcp", "createUdp"}

Connecting == {"register", "announce", "startThread"}

(* Both sockets end up on the port that was found.                         *)
PortsInv(c) ==
    /\ probe[c] # NoPort <=> pc[c] = "probing"
    /\ pc[c] = "createUdp" => tcpPort[c] = clientPort[c]
    /\ pc[c] \notin Early \cup {"dead"} => udpPort[c] = tcpPort[c]

(* Nothing has happened before the first call.                             *)
CallsInv(c) ==
    /\ pc[c] \in Early => calls[c] = 0
    /\ pc[c] \in Connecting => calls[c] > 0
    /\ calls[c] = 0
         => tcp[c] = "off" /\ ~joinable[c] /\ link[c] = "none" /\ ~announced[c]

(* The first call starts the thread, and it runs until ~Manager.           *)
ThreadInv(c) ==
    /\ pc[c] \in Early \cup Connecting \cup {"up"} => running[c]
    /\ tcp[c] = "done" => ~running[c]
    /\ pc[c] \in Connecting /\ calls[c] = 1 => tcp[c] = "off" /\ ~joinable[c]
    /\ pc[c] = "up" /\ calls[c] > 0 => tcp[c] # "off"
    /\ pc[c] \in {"closeTcp", "closeCopy", "gone"} => tcp[c] \in {"off", "done"}

(* The application is told of a connection in the call that made it, and   *)
(* before there is a thread, if that was the first.                        *)
ToldInv(c) ==
    /\ link[c] # "none" /\ pc[c] \notin {"register", "announce", "dead"} => announced[c]
    /\ link[c] # "none" /\ calls[c] = 1 => announced[c] \/ tcp[c] = "off"
    /\ announced[c] \/ pc[c] = "announce" => clientSocket[c]
    /\ announced[c] /\ calls[c] = 1 /\ link[c] = "up" => pc[c] # "dead"

(* There is something to read, and an entry, only for a connection.        *)
ReadInv(c) ==
    /\ inbox[c] > 0 \/ tcp[c] \in {"body", "read"} \/ delivered[c] \/ entry[c] # "none"
         => link[c] # "none"
    /\ delivered[c] => tcp[c] # "off"
    /\ inbox[c] + unsent[c] <= MaxMessages

ClosedInv(c) ==
    /\ closes[c] > 0 => pc[c] \in {"closeCopy", "gone"}
    /\ pc[c] = "closeCopy" => closes[c] <= 1

ClientInv(c) ==
    /\ PortsInv(c) /\ CallsInv(c) /\ ThreadInv(c)
    /\ ToldInv(c) /\ ReadInv(c) /\ ClosedInv(c)

(* No two clients are connected from the same port.                        *)
EndpointsDiffer ==
    \A c, d \in Clients :
      /\ c # d
      /\ Alive(c) /\ link[c] # "none"
      /\ Alive(d) /\ link[d] # "none"
      => tcpPort[c] # tcpPort[d]

ClientsInv == TypeOK /\ (\A c \in Clients : ClientInv(c)) /\ EndpointsDiffer

-----------------------------------------------------------------------------
(* A step of one client leaves the others alone.                           *)

Same(d) ==
    /\ pc'[d] = pc[d] /\ tcp'[d] = tcp[d]
    /\ running'[d] = running[d] /\ joinable'[d] = joinable[d]
    /\ probe'[d] = probe[d] /\ clientPort'[d] = clientPort[d]
    /\ tcpPort'[d] = tcpPort[d] /\ udpPort'[d] = udpPort[d]
    /\ link'[d] = link[d] /\ inbox'[d] = inbox[d] /\ unsent'[d] = unsent[d]
    /\ calls'[d] = calls[d] /\ clientSocket'[d] = clientSocket[d]
    /\ announced'[d] = announced[d] /\ delivered'[d] = delivered[d]
    /\ entry'[d] = entry[d] /\ outOfStep'[d] = outOfStep[d]
    /\ closes'[d] = closes[d]

(* It keeps the port it is connected from, or connects from a free one.    *)
Keeps(c) ==
    \/ link'[c] = "none" \/ ~Alive(c)'
    \/ /\ tcpPort'[c] = tcpPort[c]
       /\ (Alive(c) /\ link[c] # "none") \/ ~Taken(c)

LEMMA OneClientSteps ==
    ASSUME ClientsInv, NEW c \in Clients, \A d \in Clients \ {c} : Same(d),
           TypeOK', ClientInv(c)', Keeps(c)
    PROVE  ClientsInv'
<1>1. ASSUME NEW d \in Clients
      PROVE  ClientInv(d)'
  <2>1. CASE d = c
    BY <2>1
  <2>2. CASE d # c
    <3>1. Same(d) /\ ClientInv(d)
      BY <2>2 DEF ClientsInv
    <3>. QED  BY <3>1
              DEF Same, ClientInv, PortsInv, CallsInv, ThreadInv, ToldInv,
                          ReadInv, ClosedInv
  <2>. QED  BY <2>1, <2>2
<1>2. ASSUME NEW d \in Clients, d # c,
             Alive(d)', link'[d] # "none", Alive(c)', link'[c] # "none"
      PROVE  tcpPort'[d] # tcpPort'[c]
  <2>1. Alive(d) /\ link[d] # "none" /\ tcpPort'[d] = tcpPort[d] /\ d \in Clients \ {c}
    BY <1>2 DEF Same, Alive
  <2>2. tcpPort'[c] = tcpPort[c] /\ ((Alive(c) /\ link[c] # "none") \/ ~Taken(c))
    BY <1>2 DEF Keeps
  <2>. QED  BY <2>1, <2>2 DEF ClientsInv, EndpointsDiffer, Taken
<1>3. ASSUME NEW d \in Clients, NEW e \in Clients, d # e, d # c, e # c,
             Alive(d)', link'[d] # "none", Alive(e)', link'[e] # "none"
      PROVE  tcpPort'[d] # tcpPort'[e]
  BY <1>3 DEF Same, Alive, ClientsInv, EndpointsDiffer
<1>4. EndpointsDiffer'
  BY <1>2, <1>3 DEF EndpointsDiffer
<1>. QED  BY <1>1, <1>4 DEF ClientsInv

LEMMA ClientsInvInit == Init => ClientsInv
<1>. SUFFICES ASSUME Init PROVE ClientsInv
  OBVIOUS
<1>1. TypeOK
  BY ClientAssumption DEF Init, TypeOK, Labels
<1>2. ASSUME NEW c \in Clients
      PROVE  ClientInv(c)
  BY ClientAssumption
  DEF Init, ClientInv, PortsInv, CallsInv, ThreadInv, ToldInv,
     ReadInv, ClosedInv, Early, Connecting
<1>3. EndpointsDiffer
  BY DEF Init, EndpointsDiffer
<1>. QED  BY <1>1, <1>2, <1>3 DEF ClientsInv

LEMMA ClientsInvStep ==
    ASSUME ClientsInv, [Next]_vars
    PROVE  ClientsInv'
<1>. USE ClientAssumption DEF Step, portVars, linkVars, threadVars, toldVars
<1>0. TypeOK /\ \A c \in Clients : ClientInv(c)
  BY DEF ClientsInv
<1>1. ASSUME NEW c \in Clients, AppInitialize(c)
      PROVE  ClientsInv'
  <2>1. \A d \in Clients \ {c} : Same(d)
    BY <1>0, <1>1 DEF Same, TypeOK, AppInitialize
  <2>2. TypeOK'
    BY <1>0, <1>1 DEF TypeOK, Labels, AppInitialize
  <2>3. ClientInv(c)'
    BY <1>0, <1>1 DEF TypeOK, Alive, ClientInv, PortsInv, CallsInv, ThreadInv,
       ToldInv, ReadInv, ClosedInv, Early, Connecting, AppInitialize
  <2>4. Keeps(c)
    BY <1>0, <1>1 DEF TypeOK, Keeps, ClientInv, CallsInv, Early, AppInitialize
  <2>. QED  BY <2>1, <2>2, <2>3, <2>4, OneClientSteps
<1>2. ASSUME NEW c \in Clients, AppGetsPort(c)
      PROVE  ClientsInv'
  <2>1. \A d \in Clients \ {c} : Same(d)
    BY <1>0, <1>2 DEF Same, TypeOK, AppGetsPort
  <2>2. TypeOK'
    BY <1>0, <1>2 DEF TypeOK, Labels, ClientInv, PortsInv, AppGetsPort
  <2>3. ClientInv(c)'
    BY <1>0, <1>2 DEF TypeOK, Alive, ClientInv, PortsInv, CallsInv, ThreadInv,
       ToldInv, ReadInv, ClosedInv, Early, Connecting, AppGetsPort
  <2>4. Keeps(c)
    BY <1>0, <1>2 DEF TypeOK, Keeps, ClientInv, CallsInv, Early, AppGetsPort
  <2>. QED  BY <2>1, <2>2, <2>3, <2>4, OneClientSteps
<1>3. ASSUME NEW c \in Clients, AppCreatesTcp(c)
      PROVE  ClientsInv'
  <2>1. \A d \in Clients \ {c} : Same(d)
    BY <1>0, <1>3 DEF Same, TypeOK, AppCreatesTcp
  <2>2. TypeOK'
    BY <1>0, <1>3 DEF TypeOK, Labels, AppCreatesTcp
  <2>3. ClientInv(c)'
    BY <1>0, <1>3 DEF TypeOK, Alive, ClientInv, PortsInv, CallsInv, ThreadInv,
       ToldInv, ReadInv, ClosedInv, Early, Connecting, AppCreatesTcp
  <2>4. Keeps(c)
    BY <1>0, <1>3 DEF TypeOK, Keeps, ClientInv, CallsInv, Early, AppCreatesTcp
  <2>. QED  BY <2>1, <2>2, <2>3, <2>4, OneClientSteps
<1>4. ASSUME NEW c \in Clients, AppCreateFails(c)
      PROVE  ClientsInv'
  <2>1. \A d \in Clients \ {c} : Same(d)
    BY <1>0, <1>4 DEF Same, TypeOK, AppCreateFails
  <2>2. TypeOK'
    BY <1>0, <1>4 DEF TypeOK, Labels, AppCreateFails
  <2>3. ClientInv(c)'
    BY <1>0, <1>4 DEF TypeOK, Alive, ClientInv, PortsInv, CallsInv, ThreadInv,
       ToldInv, ReadInv, ClosedInv, Early, Connecting, AppCreateFails
  <2>4. Keeps(c)
    BY <1>0, <1>4 DEF TypeOK, Keeps, Alive, AppCreateFails
  <2>. QED  BY <2>1, <2>2, <2>3, <2>4, OneClientSteps
<1>5. ASSUME NEW c \in Clients, AppCreatesUdp(c)
      PROVE  ClientsInv'
  <2>1. \A d \in Clients \ {c} : Same(d)
    BY <1>0, <1>5 DEF Same, TypeOK, AppCreatesUdp
  <2>2. TypeOK'
    BY <1>0, <1>5 DEF TypeOK, Labels, AppCreatesUdp
  <2>3. ClientInv(c)'
    BY <1>0, <1>5 DEF TypeOK, Alive, ClientInv, PortsInv, CallsInv, ThreadInv,
       ToldInv, ReadInv, ClosedInv, Early, Connecting, AppCreatesUdp
  <2>4. Keeps(c)
    BY <1>0, <1>5 DEF TypeOK, Keeps, ClientInv, CallsInv, Early, AppCreatesUdp
  <2>. QED  BY <2>1, <2>2, <2>3, <2>4, OneClientSteps
<1>6. ASSUME NEW c \in Clients, AppConnects(c)
      PROVE  ClientsInv'
  <2>1. \A d \in Clients \ {c} : Same(d)
    BY <1>0, <1>6 DEF Same, TypeOK, AppConnects, CallsConnect
  <2>2. TypeOK'
    BY <1>0, <1>6 DEF TypeOK, Labels, AppConnects, CallsConnect
  <2>3. ClientInv(c)'
    BY <1>0, <1>6 DEF TypeOK, Alive, ClientInv, PortsInv, CallsInv, ThreadInv,
       ToldInv, ReadInv, ClosedInv, Early, Connecting, AppConnects,
       CallsConnect
  <2>4. Keeps(c)
    BY <1>0, <1>6 DEF TypeOK, Keeps, Alive, AppConnects, CallsConnect
  <2>. QED  BY <2>1, <2>2, <2>3, <2>4, OneClientSteps
<1>7. ASSUME NEW c \in Clients, AppConnectFails(c)
      PROVE  ClientsInv'
  <2>1. \A d \in Clients \ {c} : Same(d)
    BY <1>0, <1>7 DEF Same, TypeOK, AppConnectFails, CallsConnect
  <2>2. TypeOK'
    BY <1>0, <1>7 DEF TypeOK, Labels, AppConnectFails, CallsConnect
  <2>3. ClientInv(c)'
    BY <1>0, <1>7 DEF TypeOK, Alive, ClientInv, PortsInv, CallsInv, ThreadInv,
       ToldInv, ReadInv, ClosedInv, Early, Connecting, AppConnectFails,
       CallsConnect
  <2>4. Keeps(c)
    BY <1>0, <1>7 DEF TypeOK, Keeps, Alive, AppConnectFails, CallsConnect
  <2>. QED  BY <2>1, <2>2, <2>3, <2>4, OneClientSteps
<1>8. ASSUME NEW c \in Clients, AppRegisters(c)
      PROVE  ClientsInv'
  <2>1. \A d \in Clients \ {c} : Same(d)
    BY <1>0, <1>8 DEF Same, TypeOK, AppRegisters
  <2>2. TypeOK'
    BY <1>0, <1>8 DEF TypeOK, Labels, AppRegisters
  <2>3. ClientInv(c)'
    BY <1>0, <1>8 DEF TypeOK, Alive, ClientInv, PortsInv, CallsInv, ThreadInv,
       ToldInv, ReadInv, ClosedInv, Early, Connecting, AppRegisters
  <2>4. Keeps(c)
    BY <1>0, <1>8 DEF TypeOK, Keeps, Alive, AppRegisters
  <2>. QED  BY <2>1, <2>2, <2>3, <2>4, OneClientSteps
<1>9. ASSUME NEW c \in Clients, AppAnnounces(c)
      PROVE  ClientsInv'
  <2>1. \A d \in Clients \ {c} : Same(d)
    BY <1>0, <1>9 DEF Same, TypeOK, AppAnnounces
  <2>2. TypeOK'
    BY <1>0, <1>9 DEF TypeOK, Labels, AppAnnounces
  <2>3. ClientInv(c)'
    BY <1>0, <1>9 DEF TypeOK, Alive, ClientInv, PortsInv, CallsInv, ThreadInv,
       ToldInv, ReadInv, ClosedInv, Early, Connecting, AppAnnounces
  <2>4. Keeps(c)
    BY <1>0, <1>9 DEF TypeOK, Keeps, Alive, AppAnnounces
  <2>. QED  BY <2>1, <2>2, <2>3, <2>4, OneClientSteps
<1>10. ASSUME NEW c \in Clients, AppStartsThread(c)
      PROVE  ClientsInv'
  <2>1. \A d \in Clients \ {c} : Same(d)
    BY <1>0, <1>10 DEF Same, TypeOK, AppStartsThread
  <2>2. TypeOK'
    BY <1>0, <1>10 DEF TypeOK, Labels, AppStartsThread
  <2>3. ClientInv(c)'
    BY <1>0, <1>10 DEF TypeOK, Alive, ClientInv, PortsInv, CallsInv, ThreadInv,
       ToldInv, ReadInv, ClosedInv, Early, Connecting, AppStartsThread
  <2>4. Keeps(c)
    BY <1>0, <1>10 DEF TypeOK, Keeps, Alive, AppStartsThread
  <2>. QED  BY <2>1, <2>2, <2>3, <2>4, OneClientSteps
<1>11. ASSUME NEW c \in Clients, AppOverwritesThread(c)
      PROVE  ClientsInv'
  <2>1. \A d \in Clients \ {c} : Same(d)
    BY <1>0, <1>11 DEF Same, TypeOK, AppOverwritesThread
  <2>2. TypeOK'
    BY <1>0, <1>11 DEF TypeOK, Labels, AppOverwritesThread
  <2>3. ClientInv(c)'
    BY <1>0, <1>11 DEF TypeOK, Alive, ClientInv, PortsInv, CallsInv, ThreadInv,
       ToldInv, ReadInv, ClosedInv, Early, Connecting, AppOverwritesThread
  <2>4. Keeps(c)
    BY <1>0, <1>11 DEF TypeOK, Keeps, Alive, AppOverwritesThread
  <2>. QED  BY <2>1, <2>2, <2>3, <2>4, OneClientSteps
<1>12. ASSUME NEW c \in Clients, AppDestroys(c)
      PROVE  ClientsInv'
  <2>1. \A d \in Clients \ {c} : Same(d)
    BY <1>0, <1>12 DEF Same, TypeOK, AppDestroys
  <2>2. TypeOK'
    BY <1>0, <1>12 DEF TypeOK, Labels, AppDestroys
  <2>3. ClientInv(c)'
    BY <1>0, <1>12 DEF TypeOK, Alive, ClientInv, PortsInv, CallsInv, ThreadInv,
       ToldInv, ReadInv, ClosedInv, Early, Connecting, AppDestroys
  <2>4. Keeps(c)
    BY <1>0, <1>12 DEF TypeOK, Keeps, Alive, AppDestroys
  <2>. QED  BY <2>1, <2>2, <2>3, <2>4, OneClientSteps
<1>13. ASSUME NEW c \in Clients, AppJoins(c)
      PROVE  ClientsInv'
  <2>1. \A d \in Clients \ {c} : Same(d)
    BY <1>0, <1>13 DEF Same, TypeOK, AppJoins
  <2>2. TypeOK'
    BY <1>0, <1>13 DEF TypeOK, Labels, AppJoins
  <2>3. ClientInv(c)'
    BY <1>0, <1>13 DEF TypeOK, Alive, ClientInv, PortsInv, CallsInv, ThreadInv,
       ToldInv, ReadInv, ClosedInv, Early, Connecting, AppJoins
  <2>4. Keeps(c)
    BY <1>0, <1>13 DEF TypeOK, Keeps, Alive, AppJoins
  <2>. QED  BY <2>1, <2>2, <2>3, <2>4, OneClientSteps
<1>14. ASSUME NEW c \in Clients, AppClosesTcp(c)
      PROVE  ClientsInv'
  <2>1. \A d \in Clients \ {c} : Same(d)
    BY <1>0, <1>14 DEF Same, TypeOK, AppClosesTcp
  <2>2. TypeOK'
    <3>1. closes[c] = 0
      BY <1>0, <1>14 DEF TypeOK, AppClosesTcp, ClientInv, ClosedInv
    <3>. QED
      BY <1>0, <1>14, <3>1 DEF TypeOK, Labels, AppClosesTcp
  <2>3. ClientInv(c)'
    BY <1>0, <1>14 DEF TypeOK, Alive, ClientInv, PortsInv, CallsInv, ThreadInv,
       ToldInv, ReadInv, ClosedInv, Early, Connecting, AppClosesTcp
  <2>4. Keeps(c)
    BY <1>0, <1>14 DEF TypeOK, Keeps, Alive, AppClosesTcp
  <2>. QED  BY <2>1, <2>2, <2>3, <2>4, OneClientSteps
<1>15. ASSUME NEW c \in Clients, AppClosesCopy(c)
      PROVE  ClientsInv'
  <2>1. \A d \in Clients \ {c} : Same(d)
    BY <1>0, <1>15 DEF Same, TypeOK, AppClosesCopy
  <2>2. TypeOK'
    BY <1>0, <1>15 DEF TypeOK, Labels, ClientInv, ClosedInv, AppClosesCopy
  <2>3. ClientInv(c)'
    BY <1>0, <1>15 DEF TypeOK, Alive, ClientInv, PortsInv, CallsInv, ThreadInv,
       ToldInv, ReadInv, ClosedInv, Early, Connecting, AppClosesCopy
  <2>4. Keeps(c)
    BY <1>0, <1>15 DEF TypeOK, Keeps, Alive, AppClosesCopy
  <2>. QED  BY <2>1, <2>2, <2>3, <2>4, OneClientSteps
<1>16. ASSUME NEW c \in Clients, SendKills(c)
      PROVE  ClientsInv'
  <2>1. \A d \in Clients \ {c} : Same(d)
    BY <1>0, <1>16 DEF Same, TypeOK, SendKills
  <2>2. TypeOK'
    BY <1>0, <1>16 DEF TypeOK, Labels, ClientInv, InApplication, Alive,
       CallsInv, Early, PortsInv, SendKills
  <2>3. ClientInv(c)'
    BY <1>0, <1>16 DEF TypeOK, Alive, ClientInv, PortsInv, CallsInv, ThreadInv,
       ToldInv, ReadInv, ClosedInv, Early, Connecting, InApplication, SendKills
  <2>4. Keeps(c)
    BY <1>0, <1>16 DEF TypeOK, Keeps, Alive, InApplication, SendKills
  <2>. QED  BY <2>1, <2>2, <2>3, <2>4, OneClientSteps
<1>17. ASSUME NEW c \in Clients, TcpIdles(c)
      PROVE  UNCHANGED vars
  BY <1>17 DEF TcpIdles
<1>18. ASSUME NEW c \in Clients, TcpReads(c) \/ TcpReadsBody(c)
      PROVE  ClientsInv'
  <2>1. PICK to \in {"read", "poll", "body"}, n \in 0 .. inbox[c], b \in BOOLEAN :
          /\ tcp' = [tcp EXCEPT ![c] = to]
          /\ inbox' = [inbox EXCEPT ![c] = n]
          /\ outOfStep' = [outOfStep EXCEPT ![c] = b]
          /\ to = "body" => inbox[c] > 0
    <3>1. inbox[c] \in Nat /\ outOfStep \in [Clients -> BOOLEAN]
      BY <1>0 DEF TypeOK
    <3>2. UNCHANGED outOfStep => outOfStep' = [outOfStep EXCEPT ![c] = outOfStep[c]]
      BY <3>1
    <3>3. ASSUME NEW wholeRead \in BOOLEAN, Leaves(c, wholeRead), wholeRead => inbox[c] > 0
          PROVE  \E n \in 0 .. inbox[c] : inbox' = [inbox EXCEPT ![c] = n]
      <4>. DEFINE left == IF outOfStep'[c] THEN 0 .. inbox[c]
                          ELSE IF wholeRead THEN {inbox[c] - 1} ELSE {inbox[c]}
      <4>1. \A n \in left : n \in 0 .. inbox[c]
        BY <3>1, <3>3
      <4>2. \E n \in left : inbox' = [inbox EXCEPT ![c] = n]
        BY <3>3 DEF Leaves
      <4>. HIDE DEF left
      <4>. QED  BY <4>1, <4>2
    <3>4. CASE ReadsWhole(c) /\ inbox[c] > 0
      BY <3>1, <3>2, <3>3, <3>4 DEF ReadsWhole, Reads
    <3>5. CASE ReadsShort(c)
      BY <3>1, <3>3, <3>5 DEF ReadsShort, Reads
    <3>6. CASE ReadsHeader(c) /\ inbox[c] > 0
      BY <3>1, <3>2, <3>3, <3>6 DEF ReadsHeader, Reads
    <3>. QED  BY <1>18, <3>4, <3>5, <3>6 DEF TcpReads, TcpReadsBody
  <2>2. /\ Alive(c) /\ tcp[c] \in {"poll", "body"}
        /\ inbox[c] > 0 \/ tcp[c] = "body"
        /\ UNCHANGED <<pc, running, joinable, portVars, link, unsent, entry,
                       calls, clientSocket, announced, delivered, closes>>
    BY <1>18 DEF TcpReads, TcpReadsBody, ReadsWhole, ReadsShort, ReadsHeader, Reads
  <2>3. \A d \in Clients \ {c} : Same(d)
    BY <1>0, <2>1, <2>2 DEF Same, TypeOK
  <2>4. TypeOK'
    BY <1>0, <2>1, <2>2 DEF TypeOK, Labels
  <2>5. ClientInv(c)'
    BY <1>0, <2>1, <2>2 DEF TypeOK, Alive, ClientInv, PortsInv, CallsInv,
       ThreadInv, ToldInv, ReadInv, ClosedInv, Early, Connecting
  <2>6. Keeps(c)
    BY <2>1, <2>2 DEF Keeps, Alive
  <2>. QED  BY <2>3, <2>4, <2>5, <2>6, OneClientSteps
<1>19. ASSUME NEW c \in Clients, TcpDelivers(c)
      PROVE  ClientsInv'
  <2>1. \A d \in Clients \ {c} : Same(d)
    BY <1>0, <1>19 DEF Same, TypeOK, TcpDelivers
  <2>2. TypeOK'
    BY <1>0, <1>19 DEF TypeOK, Labels, TcpDelivers
  <2>3. ClientInv(c)'
    BY <1>0, <1>19 DEF TypeOK, Alive, ClientInv, PortsInv, CallsInv, ThreadInv,
       ToldInv, ReadInv, ClosedInv, Early, Connecting, TcpDelivers
  <2>4. Keeps(c)
    BY <1>0, <1>19 DEF TypeOK, Keeps, Alive, TcpDelivers
  <2>. QED  BY <2>1, <2>2, <2>3, <2>4, OneClientSteps
<1>20. ASSUME NEW c \in Clients, TcpExits(c)
      PROVE  ClientsInv'
  <2>1. \A d \in Clients \ {c} : Same(d)
    BY <1>0, <1>20 DEF Same, TypeOK, TcpExits
  <2>2. TypeOK'
    BY <1>0, <1>20 DEF TypeOK, Labels, TcpExits
  <2>3. ClientInv(c)'
    BY <1>0, <1>20 DEF TypeOK, Alive, ClientInv, PortsInv, CallsInv, ThreadInv,
       ToldInv, ReadInv, ClosedInv, Early, Connecting, TcpExits
  <2>4. Keeps(c)
    BY <1>0, <1>20 DEF TypeOK, Keeps, Alive, TcpExits
  <2>. QED  BY <2>1, <2>2, <2>3, <2>4, OneClientSteps
<1>21. ASSUME NEW c \in Clients, Alive(c), ServerSends(c)
      PROVE  ClientsInv'
  <2>1. \A d \in Clients \ {c} : Same(d)
    BY <1>0, <1>21 DEF Same, TypeOK, ServerSends
  <2>2. TypeOK'
    BY <1>0, <1>21 DEF TypeOK, Labels, ClientInv, ReadInv, ServerSends
  <2>3. ClientInv(c)'
    BY <1>0, <1>21 DEF TypeOK, Alive, ClientInv, PortsInv, CallsInv, ThreadInv,
       ToldInv, ReadInv, ClosedInv, Early, Connecting, ServerSends
  <2>4. Keeps(c)
    BY <1>0, <1>21 DEF TypeOK, Keeps, Alive, ServerSends
  <2>. QED  BY <2>1, <2>2, <2>3, <2>4, OneClientSteps
<1>22. ASSUME NEW c \in Clients, Alive(c), ServerCloses(c)
      PROVE  ClientsInv'
  <2>1. \A d \in Clients \ {c} : Same(d)
    BY <1>0, <1>22 DEF Same, TypeOK, ServerCloses
  <2>2. TypeOK'
    BY <1>0, <1>22 DEF TypeOK, Labels, ServerCloses
  <2>3. ClientInv(c)'
    BY <1>0, <1>22 DEF TypeOK, Alive, ClientInv, PortsInv, CallsInv, ThreadInv,
       ToldInv, ReadInv, ClosedInv, Early, Connecting, ServerCloses
  <2>4. Keeps(c)
    BY <1>0, <1>22 DEF TypeOK, Keeps, Alive, ServerCloses
  <2>. QED  BY <2>1, <2>2, <2>3, <2>4, OneClientSteps
<1>23. ASSUME NEW c \in Clients, ServerAccepts(c)
      PROVE  ClientsInv'
  <2>1. \A d \in Clients \ {c} : Same(d)
    BY <1>0, <1>23 DEF Same, TypeOK, ServerAccepts
  <2>2. TypeOK'
    BY <1>0, <1>23 DEF TypeOK, Labels, ServerAccepts
  <2>3. ClientInv(c)'
    BY <1>0, <1>23 DEF TypeOK, Alive, ClientInv, PortsInv, CallsInv, ThreadInv,
       ToldInv, ReadInv, ClosedInv, Early, Connecting, ServerAccepts
  <2>4. Keeps(c)
    BY <1>0, <1>23 DEF TypeOK, Keeps, Alive, ServerAccepts
  <2>. QED  BY <2>1, <2>2, <2>3, <2>4, OneClientSteps
<1>24. ASSUME NEW c \in Clients, ServerForgets(c)
      PROVE  ClientsInv'
  <2>1. \A d \in Clients \ {c} : Same(d)
    BY <1>0, <1>24 DEF Same, TypeOK, ServerForgets
  <2>2. TypeOK'
    BY <1>0, <1>24 DEF TypeOK, Labels, ServerForgets
  <2>3. ClientInv(c)'
    BY <1>0, <1>24 DEF TypeOK, Alive, ClientInv, PortsInv, CallsInv, ThreadInv,
       ToldInv, ReadInv, ClosedInv, Early, Connecting, ServerForgets
  <2>4. Keeps(c)
    BY <1>0, <1>24 DEF TypeOK, Keeps, Alive, ServerForgets
  <2>. QED  BY <2>1, <2>2, <2>3, <2>4, OneClientSteps
<1>25. ASSUME UNCHANGED vars
      PROVE  ClientsInv'
  <2>1. \A d \in Clients : Same(d)
    BY <1>25 DEF Same, vars
  <2>2. TypeOK'
    BY <1>0, <1>25 DEF TypeOK, vars
  <2>3. ASSUME NEW d \in Clients
        PROVE  ClientInv(d)'
    BY <1>0, <2>1 DEF Same, ClientInv, PortsInv, CallsInv, ThreadInv, ToldInv,
                      ReadInv, ClosedInv
  <2>4. EndpointsDiffer'
    BY <2>1 DEF ClientsInv, EndpointsDiffer, Same, Alive
  <2>. QED  BY <2>2, <2>3, <2>4 DEF ClientsInv
<1>. QED
  BY <1>1, <1>2, <1>3, <1>4, <1>5, <1>6, <1>7, <1>8, <1>9, <1>10, <1>11, <1>12,
     <1>13, <1>14, <1>15, <1>16, <1>17, <1>18, <1>19, <1>20, <1>21, <1>22,
     <1>23, <1>24, <1>25
  DEF Next, AppNext, Finished

LEMMA ClientsInvHolds == Spec => []ClientsInv
<1>1. Init => ClientsInv
  BY ClientsInvInit
<1>2. ClientsInv /\ [Next]_vars => ClientsInv'
  BY ClientsInvStep
<1>. QED  BY <1>1, <1>2, PTL DEF Spec

-----------------------------------------------------------------------------
(* What the invariant is for.                                              *)

(* Sockets, threads and counters of any number of clients keep their       *)
(* types; no descriptor is closed more than twice.                         *)
THEOREM ClientsTyped == Spec => []TypeOK
<1>1. ClientsInv => TypeOK
  BY DEF ClientsInv
<1>. QED  BY <1>1, ClientsInvHolds, PTL

(* What Manager::callbackHandler finds out about a datagram's sender from  *)
(* its endpoint: both sockets of a connected client are bound to the port  *)
(* the server sees, and the kernel refuses a second connection from there. *)
(* An entry that is as good belongs to a process that has ended.           *)
THEOREM DatagramsAttributed == Spec => []DatagramsReachNoOther
<1>1. ClientsInv => DatagramsReachNoOther
  <2>. SUFFICES ASSUME ClientsInv, NEW c \in Clients, Alive(c), link[c] = "up"
                PROVE  /\ entry[c] = "held" => c \in Attributed(c)
                       /\ \A d \in Attributed(c) \ {c} : ~Alive(d)
    BY DEF DatagramsReachNoOther
  <2>1. ClientInv(c)
    BY DEF ClientsInv
  <2>2. calls[c] # 0
    BY <2>1 DEF ClientInv, CallsInv
  <2>3. pc[c] \notin Early
    BY <2>1, <2>2 DEF ClientInv, CallsInv
  <2>4. udpPort[c] = tcpPort[c]
    BY <2>1, <2>3 DEF ClientInv, PortsInv, Alive
  <2>5. ASSUME NEW d \in Clients, Alive(d), entry[d] = "held", tcpPort[d] = tcpPort[c]
        PROVE  d = c
    <3>1. link[d] # "none"
      BY <2>5 DEF ClientsInv, ClientInv, ReadInv
    <3>. QED  BY <2>5, <3>1 DEF ClientsInv, EndpointsDiffer
  <2>. QED  BY <2>4, <2>5 DEF Attributed
<1>. QED  BY <1>1, ClientsInvHolds, PTL

(* onConnection runs in the caller's thread before Tcp::run is started,    *)
(* so that it comes before every packet, if the first call connects.       *)
THEOREM AnnouncedFirst == Spec => []ConnectionComesFirst
<1>1. ClientsInv => ConnectionComesFirst
  BY DEF ClientsInv, ClientInv, ToldInv, ReadInv, ConnectionComesFirst
<1>. QED  BY <1>1, ClientsInvHolds, PTL

(* connectToServer leaves no connection behind that was not announced or   *)
(* that no thread reads from, also when other processes connect meanwhile. *)
THEOREM ConnectionsServed == Spec => []ConnectedIsServed
<1>1. ClientsInv => ConnectedIsServed
  <2>. SUFFICES ASSUME ClientsInv, NEW c \in Clients, pc[c] = "up", link[c] # "none"
                PROVE  announced[c] /\ tcp[c] \in {"poll", "body", "read"}
    BY DEF ConnectedIsServed
  <2>1. ClientInv(c) /\ tcp[c] \in {"off", "poll", "body", "read", "done"}
    BY DEF ClientsInv, TypeOK
  <2>2. announced[c] /\ calls[c] # 0 /\ calls[c] \in Nat
    BY <2>1, ClientAssumption
    DEF ClientInv, ToldInv, CallsInv, ClientsInv, TypeOK
  <2>3. tcp[c] # "off" /\ tcp[c] # "done"
    BY <2>1, <2>2 DEF ClientInv, ThreadInv
  <2>. QED  BY <2>1, <2>2, <2>3
<1>. QED  BY <1>1, ClientsInvHolds, PTL

(* A process whose first call connected it, and told it so, has a          *)
(* client_.socket to send with: sending ends it neither in the callback    *)
(* nor later, until the server closes.                                     *)
THEOREM AnnouncedSurvives == Spec => []ConnectedSurvives
<1>1. ClientsInv => ConnectedSurvives
  BY DEF ClientsInv, ClientInv, ToldInv, ConnectedSurvives
<1>. QED  BY <1>1, ClientsInvHolds, PTL

(* ~Manager joins Tcp::run before ~Tcp closes the descriptor it reads.     *)
THEOREM ReadsBeforeClose == Spec => []ClosedAfterUse
<1>1. ClientsInv => ClosedAfterUse
  BY DEF ClientsInv, ClientInv, ThreadInv, ClosedInv, ClosedAfterUse
<1>. QED  BY <1>1, ClientsInvHolds, PTL

-----------------------------------------------------------------------------
(* When calling the library in its order does not end the process.         *)

Creating == {"probing", "createTcp", "createUdp"}

Alone == \A c, d \in Clients : pc[c] \in Creating /\ pc[d] \in Creating => c = d

SurvivalInv == Alone /\ Survives

LEMMA SurvivalStep ==
    ASSUME \A c \in Clients : MaxCalls[c] <= 1, OneAtATime, ~Sends, ClientsInv, SurvivalInv, [Next]_vars
    PROVE  SurvivalInv'
<1>. USE DEF Step, Creating
<1>0. pc \in [Clients -> Labels]
  BY DEF ClientsInv, TypeOK
<1>1. ASSUME NEW c \in Clients, AppInitialize(c)
      PROVE  SurvivalInv'
  BY <1>0, <1>1 DEF SurvivalInv, Alone, Survives, AppInitialize
(* The port was another's probe: that process would be creating, too.      *)
<1>2. ASSUME NEW c \in Clients, AppCreateFails(c)
      PROVE  FALSE
  <2>1. PICK d \in Clients : Alive(d) /\ probe[d] = clientPort[c]
    BY <1>2 DEF AppCreateFails, Shareable
  <2>2. clientPort[c] # NoPort
    BY <1>2 DEF AppCreateFails, ClientsInv, TypeOK
  <2>3. pc[d] = "probing"
    BY <2>1, <2>2 DEF ClientsInv, ClientInv, PortsInv
  <2>. QED  BY <1>2, <2>3 DEF SurvivalInv, Alone, AppCreateFails
(* A thread to overwrite comes from an earlier call.                       *)
<1>3. ASSUME NEW c \in Clients, AppOverwritesThread(c)
      PROVE  FALSE
  <2>1. ClientInv(c) /\ calls[c] \in Nat /\ calls[c] <= MaxCalls[c] /\ MaxCalls[c] \in Nat
    BY ClientAssumption DEF ClientsInv, TypeOK
  <2>2. calls[c] = 1
    BY <1>3, <2>1, ClientAssumption
    DEF AppOverwritesThread, ClientInv, CallsInv, Connecting
  <2>. QED
    BY <1>3, <2>1, <2>2
    DEF AppOverwritesThread, ClientInv, ThreadInv, Connecting
<1>4. ASSUME NEW c \in Clients,
             \/ AppGetsPort(c) \/ AppCreatesTcp(c) \/ AppCreatesUdp(c)
             \/ AppConnects(c) \/ AppConnectFails(c) \/ AppRegisters(c)
             \/ AppAnnounces(c) \/ AppStartsThread(c)
             \/ AppDestroys(c) \/ AppJoins(c) \/ AppClosesTcp(c)
             \/ AppClosesCopy(c)
      PROVE  SurvivalInv'
  <2>1. PICK to \in Labels \ {"dead"} :
          /\ pc' = [pc EXCEPT ![c] = to]
          /\ to \in Creating => pc[c] \in Creating
    BY <1>4
    DEF Labels, AppGetsPort, AppCreatesTcp, AppCreatesUdp, AppConnects,
        AppConnectFails, CallsConnect, AppRegisters, AppAnnounces,
        AppStartsThread, AppDestroys, AppJoins, AppClosesTcp, AppClosesCopy
  <2>. QED  BY <1>0, <2>1 DEF SurvivalInv, Alone, Survives
<1>5. ASSUME NEW c \in Clients, SendKills(c)
      PROVE  FALSE
  BY <1>5 DEF SendKills
<1>6. ASSUME UNCHANGED pc
      PROVE  SurvivalInv'
  BY <1>6 DEF SurvivalInv, Alone, Survives
<1>7. ASSUME NEW c \in Clients,
             \/ TcpIdles(c) \/ TcpReads(c) \/ TcpReadsBody(c)
             \/ TcpDelivers(c) \/ TcpExits(c)
             \/ ServerSends(c) \/ ServerCloses(c)
             \/ ServerAccepts(c) \/ ServerForgets(c)
      PROVE  UNCHANGED pc
  BY <1>7 DEF TcpIdles, TcpReads, TcpReadsBody, ReadsWhole, ReadsShort,
              ReadsHeader, Reads, TcpDelivers, TcpExits, ServerSends,
              ServerCloses, ServerAccepts, ServerForgets, vars
<1>. QED
  BY <1>1, <1>2, <1>3, <1>4, <1>5, <1>6, <1>7
  DEF Next, AppNext, Finished, vars

(* A client process ends of itself for three reasons only: it binds a port *)
(* that another process is just finding, it calls connectToServer again,   *)
(* or it sends.                                                            *)
THEOREM SingleCallSurvives ==
    ASSUME \A c \in Clients : MaxCalls[c] <= 1, OneAtATime, ~Sends
    PROVE  Spec => []Survives
<1>1. Init => SurvivalInv
  BY DEF Init, SurvivalInv, Alone, Survives, Creating
<1>2. ClientsInv /\ SurvivalInv /\ [Next]_vars => SurvivalInv'
  BY SurvivalStep
<1>3. SurvivalInv => Survives
  BY DEF SurvivalInv
<1>. QED  BY <1>1, <1>2, <1>3, ClientsInvHolds, PTL DEF Spec
=============================================================================
