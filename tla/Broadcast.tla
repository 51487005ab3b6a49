------------------------------ MODULE Broadcast ------------------------------
(***************************************************************************)
(* Manager::sendToClients while the server runs.  The application may call *)
(* it from its own thread, or from a callback, and so from the thread the  *)
(* callback runs on: AppCalls has "broadcast".  Meanwhile the other threads*)
(* of Server go on, and take entries out of the map it reads.              *)
(*                                                                         *)
(* It asks find(id) first, and then uses operator[], which enters an empty *)
(* pointer for an id that is no longer there: Null.  The lookups of Server *)
(* skip such an entry, as getClientSocketBy and getClientIdBy do; only the *)
(* find() of Manager::run takes it for a client.  The insertion is one     *)
(* step: what becomes of two threads' writes at once is left out.          *)
(***************************************************************************)
EXTENDS Server

CONSTANTS
    Callers,    \* threads that call sendToClients
    Lists,      \* lists of ids they call it with
    MaxCalls    \* bound: calls, one at a time

Null == "null"

ASSUME BroadcastAssumption ==
    /\ Null \notin Conns
    /\ "broadcast" \in AppCalls
    /\ Callers \subseteq Threads
    /\ Lists \subseteq Seq(Ids)
    /\ MaxCalls \in Nat

VARIABLES
    step,     \* what sendToClients does next, "none" between the calls
    call,     \* its caller and its arguments
    at,       \* the index of its loop over the ids
    target,   \* the client whose Socket or Endpoint it holds
    served,   \* history: the clients the call has sent to
    calls     \* calls so far

callVars == <<step, call, at, target, served, calls>>

bcVars == <<vars, callVars>>

NoCall == [caller |-> "app", type |-> "TCP", ids |-> <<>>]

BroadcastInit ==
    /\ Init
    /\ step = "none"
    /\ call = NoCall
    /\ at = 1
    /\ target = Absent
    /\ served = <<>>
    /\ calls = 0

-----------------------------------------------------------------------------
Calls(t) ==
    /\ step = "none"
    /\ calls < MaxCalls
    /\ InApplication(t)
    /\ step' = "find"
    /\ \E type \in {"TCP", "UDP"}, ids \in Lists :
         call' = [caller |-> t, type |-> type, ids |-> ids]
    /\ calls' = calls + 1
    /\ UNCHANGED <<vars, at, target, served>>

Id == call.ids[at]

Listed == at <= Len(call.ids)

(* sendToClients returns.                                                  *)
Returns ==
    /\ step' = "none"
    /\ call' = NoCall
    /\ at' = 1
    /\ target' = Absent
    /\ served' = <<>>
    /\ UNCHANGED calls

(* The process ends: an empty pointer is dereferenced, a Socket is used    *)
(* that exists no more, or send() raises SIGPIPE.                          *)
Crashes ==
    /\ Terminate
    /\ Returns

Proceeds(next, socket) ==
    /\ step' = next
    /\ target' = socket
    /\ UNCHANGED <<call, at, served, calls>>

(* find(id) beside an insertion or erasure of another thread.              *)
FindMisses ==
    RacyContainers /\ \E t \in Threads \ {call.caller} : Mutating(t)

Finds_Slip ==
    /\ step = "find"
    /\ IF Listed THEN Proceeds("lookup", Absent) ELSE Returns
    /\ UNCHANGED vars

(* clients.find(id): at the first id without an entry all is over.         *)
Finds ==
    /\ step = "find"
    /\ \/ Listed /\ clients[Id] # Absent /\ Proceeds("lookup", Absent)
       \/ Listed /\ (clients[Id] = Absent \/ FindMisses) /\ Returns
       \/ ~Listed /\ Returns
    /\ UNCHANGED vars

(* clients[id] makes an entry where there is none.                         *)
Subscripts ==
    /\ clients' = [clients EXCEPT ![Id] = IF @ = Absent THEN Null ELSE @]
    /\ UNCHANGED <<netVars, tcpVars, nextClientId, disconnectionQueue, observed,
                   appVars, udpId>>

LooksUp_Slip ==
    /\ step = "lookup"
    /\ Subscripts
    /\ Proceeds(IF call.type = "TCP" THEN "send" ELSE "endpoint", clients'[Id])
    /\ UNCHANGED pc

(* For TCP the pointer is dereferenced as it is; for UDP it is tested, ... *)
LooksUp ==
    /\ step = "lookup"
    /\ \/ /\ call.type = "TCP"
          /\ \/ clients[Id] \in Conns /\ Proceeds("send", clients[Id]) /\ UNCHANGED pc
             \/ clients[Id] \notin Conns /\ Crashes
       \/ /\ call.type = "UDP"
          /\ \/ clients[Id] \in Conns /\ Proceeds("endpoint", Absent)
             \/ clients[Id] \notin Conns /\ Returns
          /\ UNCHANGED pc
    /\ Subscripts

(* ... and then looked up once more, for its endpoint.                     *)
TakesEndpoint ==
    /\ step = "endpoint"
    /\ \/ clients[Id] \in Conns /\ Proceeds("send", clients[Id]) /\ UNCHANGED pc
       \/ clients[Id] \notin Conns /\ Crashes
    /\ Subscripts

Sends_Slip ==
    /\ step = "send"
    /\ Returns
    /\ UNCHANGED vars

(* udp_ is set by createConnection(UDP), which starts the udp thread.      *)
UdpCreated == ~At("udp", "off")

(* sendToEndpoint has a copy of the endpoint; sendToSocket a reference to  *)
(* the Socket, which is destroyed with its entry.  What they throw, they   *)
(* catch; a reset connection may also raise SIGPIPE, and there may be no   *)
(* Udp to send with.                                                       *)
Sends ==
    /\ step = "send"
    /\ \/ /\ call.type = "TCP" \/ UdpCreated
          /\ step' = "find"
          /\ at' = at + 1
          /\ served' = Append(served, target)
          /\ target' = Absent
          /\ UNCHANGED <<call, calls, pc>>
       \/ /\ call.type = "UDP" /\ ~UdpCreated
          /\ Crashes
       \/ /\ call.type = "TCP"
          /\ clients[Id] # target \/ link[target] = "rst"
          /\ Crashes
    /\ UNCHANGED <<netVars, tcpVars, sharedVars>>

SenderNext ==
    \/ \E t \in Callers : Calls(t)
    \/ ~Over /\ (Finds \/ LooksUp \/ TakesEndpoint \/ Sends)

(* The caller's thread waits for sendToClients to return.                  *)
Free(t) == step = "none" \/ call.caller # t

ServerNext ==
    /\ \/ Free("tcp") /\ TcpNext
       \/ Free("main") /\ MainNext
       \/ Free("app") /\ AppNext
       \/ Free("udp") /\ UdpNext
       \/ PeerNext
       \/ Finished
    /\ UNCHANGED callVars

BroadcastNext == SenderNext \/ ServerNext

BroadcastSpec == BroadcastInit /\ [][BroadcastNext]_bcVars

-----------------------------------------------------------------------------
BroadcastTypeOK ==
    /\ clients \in [Ids -> Conns \cup {Absent, Null}]
    /\ step \in {"none", "find", "lookup", "endpoint", "send"}
    /\ call \in [caller : Threads, type : {"TCP", "UDP"}, ids : Seq(Ids)]
    /\ at \in 1 .. Len(call.ids) + 1
    /\ target \in Conns \cup {Absent}
    /\ served \in Seq(Conns)
    /\ calls \in 0 .. MaxCalls

(* The empty entries that sendToClients leaves behind have the ids of      *)
(* clients the application saw leave: none hides a client it may still     *)
(* hear of, and none is in the way of one that comes.                      *)
PhantomsAreClosed == \A id \in Ids : clients[id] = Null => phase[id] = "closed"

(* Called from onDisconnection, sendToClients runs on the thread that      *)
(* erases: what it has found stays until it has been sent to.              *)
MainIsUndisturbed ==
    step \in {"lookup", "endpoint", "send"} /\ call.caller = "main"
      => clients[Id] # Absent /\ (step = "send" => clients[Id] = target)

(* sendToClients passes over an open session only after it has met an id   *)
(* whose session is not open, or looked beside a writer of the map.        *)
OpenClientsAreServed ==
    [][step # "none" /\ step' = "none" /\ ~Over'
         => \/ Len(served) = Len(call.ids)
            \/ phase[Id] # "open"
            \/ FindMisses]_bcVars

(* A call ends the process only at a client that has left the application, *)
(* or reset its connection, or for want of a Udp.                          *)
Gone(id) ==
    \/ phase[id] = "closed"
    \/ clients[id] \in Conns /\ link[clients[id]] = "rst"

OnlyTheDeadKill ==
    [][~At("app", "dead") /\ At("app", "dead")'
         => Gone(Id) \/ (call.type = "UDP" /\ ~UdpCreated)]_bcVars
=============================================================================
