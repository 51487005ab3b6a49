------------------------------ MODULE Sessions ------------------------------
(***************************************************************************)
(* What a glnet server promises to the callbacks of the application that   *)
(* uses it (include/Callback.hpp), whatever its threads do: ids are given  *)
(* to onConnection one after the other; a session is opened once and       *)
(* closed at most once; TCP packets belong to an open session.  A UDP      *)
(* packet may overtake the opening of its session and may outlive the      *)
(* session's end, but it never carries an id beyond the next one to be     *)
(* given out.  Of all this the application hears what happens after it has *)
(* set the callback for it, and from then on it misses nothing.            *)
(***************************************************************************)
EXTENDS Naturals

CONSTANT MaxSessions    \* number of ids the server can ever hand out, in Nat

VARIABLES
    phase,          \* phase[id]: "new", then "open", then "closed"
    cb,             \* the callback the application saw last
    callbacksSet    \* the callbacks it has set

Ids == 0 .. MaxSessions - 1

Phases == {"new", "open", "closed"}

CallbackKinds == {"connection", "tcpMessage", "udpMessage", "disconnection"}

UserCallbacks == {"onConnection", "onDisconnection", "onMessageReception"}

(* Which of the three an event goes to.                                    *)
UserCallback ==
    [connection |-> "onConnection", disconnection |-> "onDisconnection",
     tcpMessage |-> "onMessageReception", udpMessage |-> "onMessageReception"]

NoCallback == [kind |-> "none", id |-> 0]

Callbacks == [kind : CallbackKinds, id : Ids] \cup {NoCallback}

Announced(id) == phase[id] # "new"

(* id is announced, or it is the next one to be.                           *)
Issued(id) == \A lower \in 0 .. id - 1 : Announced(lower)

Invoke(kind, id) ==
    /\ cb' = IF UserCallback[kind] \in callbacksSet
                THEN [kind |-> kind, id |-> id]
                ELSE cb
    /\ UNCHANGED callbacksSet

Init ==
    /\ phase = [id \in Ids |-> "new"]
    /\ cb = NoCallback
    /\ callbacksSet \in SUBSET UserCallbacks

SetCallback ==
    /\ \E callback \in UserCallbacks \ callbacksSet :
         callbacksSet' = callbacksSet \cup {callback}
    /\ UNCHANGED <<phase, cb>>

Open(id) ==
    /\ ~Announced(id)
    /\ Issued(id)
    /\ phase' = [phase EXCEPT ![id] = "open"]
    /\ Invoke("connection", id)

TcpMessage(id) ==
    /\ phase[id] = "open"
    /\ Invoke("tcpMessage", id)
    /\ UNCHANGED phase

UdpMessage(id) ==
    /\ Issued(id)
    /\ Invoke("udpMessage", id)
    /\ UNCHANGED phase

Close(id) ==
    /\ phase[id] = "open"
    /\ phase' = [phase EXCEPT ![id] = "closed"]
    /\ Invoke("disconnection", id)

Next ==
    \/ SetCallback
    \/ \E id \in Ids : Open(id) \/ TcpMessage(id) \/ UdpMessage(id) \/ Close(id)

Spec == Init /\ [][Next]_<<phase, cb, callbacksSet>>
=============================================================================
