# glnet in TLA+

glnet is a small C++ library for TCP and UDP servers and clients.  Its heart is
the singleton `Manager`, which runs up to three threads (its own loop, `Tcp::run`
and `Udp::run`) and calls the application back.  The threads share a map of
clients, a queue of disconnections and a few flags, and there is not one mutex or
atomic in the library.  This directory models that, checks it with TLC and, but for
liveness, proves with TLAPS what TLC has checked.

`PROJECT.json` names, for every definition that models code, the file and the
lines it models.

## 1. Inventory

| Part | State | Operations | Talks to |
|---|---|---|---|
| `Manager`, server side (`src/Manager.cpp`) | `running_`, `server_.clients` (id -> `shared_ptr<Socket>`), `server_.nextClientId`, `disconnectionQueue_`, the three threads | `initialize`, `createConnection`, `stop`, `run`, `sendToClients`, three `callbackHandler`s, `getClientSocketBy`, `getClientIdBy`, destructor | creates and joins the threads; its map is read by the tcp and udp threads, written by the tcp thread (insert) and the main thread (erase); its queue is pushed by the tcp thread and popped by the main thread |
| `Manager`, client side | `client_.server`, `client_.socket`, `client_.clientPort` | `getAvailablePort`, `connectToServer`, `sendToServer`, client branches of the above | starts the tcp thread on each `connectToServer` |
| `Tcp` (`src/Protocol/Tcp.cpp`) | `running_`, `pollFds_` (listener first), `socket_` | `run`, `acceptSocket`, `disconnectSocket`, `readHeader`, `readBody`, `readFromSocket`, `connectToServer`, `sendToSocket` | kernel (`poll`, `accept`, `recv`, `send`), `Manager` handlers and lookups |
| `Udp` (`src/Protocol/Udp.cpp`) | `running_`, `pollFds_`, `socket_` | `run`, `readDatagram`, `readFromSocket`, `sendToEndpoint` | the same map, by endpoint |
| `Callback` (`src/Callback.cpp`) | three `std::function`s | a setter and an invocation each; an unset one is silently skipped | application code, which may throw |
| `Packet`, `Converter` | bytes, `length`, write and read offset | `<<` and `>>` for values and strings | packed by the sender, unpacked in the callback |
| `Socket` (`src/Socket.cpp`) | descriptor, `isOwner_`, endpoint | one system call each | kernel |
| `utils::Threads`, `Singleton`, `Endpoint`, enums | none | `join` if joinable | |
| Examples | none | the order in which an application calls the library | everything |

What is hard here, and the property that would make each part correct:

* **Three threads, one map, no lock.**  `pollFds_`, `clients` and the queue must
  keep describing the same set of clients whatever the interleaving: a polled
  descriptor has an entry, a queued id has an entry that is no longer polled, an
  entry is polled or queued (`RegistryAgrees`, `QueueAgrees`, `NoOrphans`).  A
  disconnection passes through all three, and the two threads that handle it meet
  halfway: the id is queued before its descriptor leaves `pollFds_`, and the entry
  is erased before the id is popped.  If the three ever disagree, a lookup throws
  out of `Tcp::run`, or `Manager::run` returns, and the server is dead without a
  word (`ThreadsSurvive`, `OnlyRacesKill`).
* **A scan that erases from the vector it iterates over** (`Tcp.cpp:48-60`).
* **Ids** are 32 bits in the map and 16 bits in the queue
  (`DisconnectionsAreReal`), and are used up only after a callback that may throw
  (`OnlyAnnounced`).
* **What the application sees**: each id announced once and in order, closed at
  most once, TCP packets only in between, from the moment the callbacks are set
  (`SessionsSpec`, `SilentWhenDestroyed`).
* **Blocking `recv` on the only tcp thread**: one slow peer holds up accept, all
  reads and the destructor (`DeadClientsLeave`, `BacklogDrains`,
  `ShutdownCompletes`).
* **Packets cut by TCP**, resets, closes, silent hosts, descriptors that run out.
* **A port found, released and bound again** on the client, for two sockets whose
  datagrams and connection must have the same endpoint, while the server keeps
  entries of clients that have gone (`DatagramsReachNoOther`).
* **A thread started by a call that may have failed**, and that may be made again
  (`Survives`, `ConnectionComesFirst`, `ConnectedIsServed`), and reads
  from the descriptor until its owners go (`ClosedAfterUse`).  It spins without a
  connection and loses its place when a packet comes in parts, yet must deliver
  what it reads in step and end when told (`SentIsDelivered`, `ClientsEnd`);
  sending without a connection ends the process (`ConnectedSurvives`).
* **A packet that keeps three numbers** beside its bytes, which the receiver fills
  in from outside (`SizesAgree`, `ReadBack`, `NothingLeft`, `ValuesStayInside`).
* **A stream that both ends cut as they like**: `send` may take a packet in
  parts, `recv` may return one in parts, and only a server gives up when it does
  (`InStep`, `ChannelSpec`).  Whoever sends waits for whoever reads
  (`SendsReturn`, `EverySentIsDelivered`).
* **`sendToClients` reads the map while the main thread erases from it**, and its
  `operator[]` writes to it (`PhantomsAreClosed`, `OnlyTheDeadKill`,
  `MainIsUndisturbed`); its loop ends at the first unknown id
  (`OpenClientsAreServed`); a callback may call it before there is a `Udp` to send
  with.

The full list, with a line for each, is `hazards` in `PROJECT.json`.

## 2. Modules

| Module | Models |
|---|---|
| `TcpNetwork` | external: the kernel's TCP and the peers, as `poll`, `accept` and `recv` show them |
| `Sessions` | abstract specification: what a server promises to the application's callbacks |
| `Server` | the app, main, tcp and udp threads of a server and everything they share; extends `TcpNetwork`, instantiates `Sessions` |
| `MCServer` | `Server` with the definitions the configurations need |
| `ServerProofs` | theorems about `Server`: its types, and that array, map and queue agree |
| `SessionProofs` | theorems about `Server`: what its callbacks see, up to the refinement of `Sessions`; extends `ServerProofs` |
| `Broadcast` | `sendToClients`, on the application's thread or in a callback, beside everything in `Server`, which it extends |
| `MCBroadcast` | `Broadcast` with a list of ids and its symmetry |
| `BroadcastProofs` | theorems about `Broadcast`; instantiates `SessionProofs` |
| `Channel` | abstract specification: packets come out in the order in which they went in, until one is torn |
| `Stream` | one direction of a TCP connection byte by byte, from `sendToSocket` to `readFromSocket`; instantiates `Channel` |
| `MCStream` | `Stream` with three packets |
| `StreamProofs` | theorems about `Stream` |
| `ClientSide` | processes of one host that use the library as clients of one server |
| `MCClientSide` | `ClientSide` with a bound on the calls of each process |
| `ClientSideProofs` | theorems about `ClientSide` |
| `Packet` | a packet from the first `<<` of the sender to the last `>>` of the receiver |
| `MCPacket` | `Packet` with small values and strings |
| `PacketProofs` | theorems about `Packet` |

`Server`, `ClientSide`, `Stream` and `Packet` do not share state: to `Server` a
client is a peer of `TcpNetwork`, to `ClientSide` the server is one that accepts,
sends, forgets and ends, and to both a packet is a thing that arrives, whole or in
part.  `Stream` is about that part, with either of them at the reading end
(`ReaderSide`), and `Packet` about what is in it.

### How `Server` corresponds to the code

| TLA+ | Code |
|---|---|
| `pc["app"]` | the application's thread: `initialize`, `createConnection` for TCP and UDP (`createTcp`, `createUdp`), `stop`, `~Manager` line by line (`stopTcp`, `joinTcp`, `joinUdp`, `joinMain`) |
| `pc["main"]` | `Manager::run`: `outer`, `inner` are its loops; `onDisconnection`, `erase`, `pop` its three steps on an id (lines 51, 52 and 54); `quit` its `return` at `Manager.cpp:49` |
| `pc["tcp"]` | `Tcp::run`: `poll`; `accept`, `register`, `onConnection` inside `acceptSocket`; `scan` the loop over `pollFds_`; `header`, `body` inside `readFromSocket`, then `deliver` (`getClientIdBy`), `find` and `onMessage` (`callbackHandler`); `disconnect` (`getClientSocketBy`), `identify` (`getClientIdBy`), `push` and `unpoll` inside `disconnectSocket` (lines 114 to 117); `dead` after an exception |
| `pc["udp"]` | `Udp::run`: `recv`, then the two lookups |
| `running[t]` | `Manager::running_`, `Tcp::running_`, `Udp::running_` |
| `tcpId`, `udpId` | the id that `getClientIdBy` has returned to the tcp or the udp thread, 0 when it holds none |
| `pollFds`, `i`, `revents` | `Tcp::pollFds_` without its first entry, the loop index, the `revents` fields |
| `clients`, `nextClientId`, `disconnectionQueue` | the members of the same names (`nextClientId` starts at 0 because the Manager is a function-local static) |
| `openFds` | accepted descriptors: `Socket(Fd, isOwner = false)` never closes one |
| `callbacksSet` | which of the three `setOn...` calls have run; `EarlyCallbacks` before anything else, each of the others at any time while the Manager is up, as in the example server, which sets all three when its threads already run |
| `phase`, `cb` | history of callbacks; the variables of `Sessions`, no state of the code |

A step is atomic when it touches shared state once.  A lookup, a push, an erasure,
a pop and a callback are each a step of their own, so everything one thread read
can be stale when it is used: `acceptSocket` is four steps, `disconnectSocket` four,
a packet is followed by two lookups and the callback, and `Manager::run` takes four
steps for an id.  So the main thread may call `onDisconnection`, erase the entry and
pop the id while the descriptor is still in `pollFds_`, and the queue's head is
without an entry between `erase` and `pop`; the properties say so.

The containers are not thread-safe, so a concurrent lookup is undefined
behaviour.  `RacyContainers` models the outcome that matters: while one thread is
between the start and the end of an insertion or an erasure, another thread's
lookup may miss an entry that is there.  Where the application broadcasts, which
may insert an entry as well, it may miss during any code of the application: that
is more than can happen.  Single operations on the queue, and the insertion made by
`operator[]`, are steps that other threads do not see the middle of.  Other outcomes
(a crash inside `std::unordered_map`, torn `std::deque` bookkeeping, a flag the
optimiser hoists out of its loop, a `std::function` called while it is assigned, a
`Socket&` whose entry was erased because its id was cut to 16 bits) would make every
property vacuous and are left out.

Data is abstract: a packet is a header and a body that arrive whole or in part;
its bytes do not matter to the threads.  A peer sends, closes, aborts or falls
silent when it wants, while the server polls its connection.

### How `Broadcast` corresponds to the code

| TLA+ | Code |
|---|---|
| `call`, `at` | the caller's thread, the protocol and the ids of a call; the index of the loop (`Manager.cpp:107`) |
| `step` | `find` at `Manager.cpp:111`; `lookup` at `operator[]`, lines 116 and 119; `endpoint` at the second `operator[]` of UDP, line 122; `send` in `sendToSocket` or `sendToEndpoint` |
| `Null` | an entry whose `shared_ptr` is empty, made by `operator[]` for an id that is gone |
| `target` | the `Socket&` or the `Endpoint` in hand |
| `UdpCreated` | `udp_` is set: `createConnection(UDP)` has run |
| `served`, `calls` | history: the clients sent to, the number of calls |

A call may come from the application's thread, from `onConnection` and
`onMessageReception` (the tcp thread, and the udp thread for datagrams) and from
`onDisconnection` (the main thread): `InApplication`; the caller's thread then waits
for it (`Free`).  Before the Udp exists only the tcp and main threads can be in a
callback.  `Crashes` ends the process when an empty pointer is dereferenced (an
entry's, or `udp_`), a destroyed `Socket` is used, or `send` raises SIGPIPE; the
last two may also go unnoticed.

### How `Stream` corresponds to the code

| TLA+ | Code |
|---|---|
| `call[s]`, `sent` | a thread inside `send` in `Tcp::sendToSocket`, how much of its buffer was taken; the packets in the order they entered |
| `stream`, `Window`, `link` | the two kernels' buffers and what is on the way; their size; the connection as the sender sees it |
| `reader` | `header`, `body` in `readFromSocket`; `gone` after `disconnectSocket` (a server, `Tcp.cpp:55`); `ended` when the process is gone |
| `header`, `due` | the bytes in `Packet::length`; its value, as `readBody` takes it |
| `delivered`, `torn` | history: the packets handed to the callback; some packet's bytes were separated |

The sockets block, so that `send` waits with the kernel's lock on the socket
released, which is how the bytes of two threads mix.  A byte is the place it has in
its packet: the reader sees only what a header says, `Announced`, and four bytes
that are no header may say anything in `Lengths`.

### How `ClientSide` corresponds to the code

| TLA+ | Code |
|---|---|
| `pc[c]` | the thread of process `c` that calls the library: `probing` inside `getAvailablePort`, `createTcp` and `createUdp` in the two `createConnection`s, `up` between calls, `register` and `announce` in `callbackHandler`, `startThread` at `Manager.cpp:84`, then `~Manager` |
| `tcp[c]`, `running[c]`, `joinable[c]` | `Tcp::run` of a client, `Tcp::running_`, `tcpThread_.joinable()` |
| `probe`, `clientPort`, `tcpPort`, `udpPort` | the ports that `getAvailablePort`'s socket, the field, and the two sockets have |
| `clientSocket`, `closes` | `client_.socket` is set; how often `close` has been called for the descriptor of `Tcp::socket_` |
| `link`, `inbox`, `unsent` | the connection, the packets of which bytes are to be read, and those the server may still send |
| `tcp[c] = "body"` | `recv` in `readBody`, which waits for the body of the header just read |
| `entry` | the client's entry in the server's map: none yet, held, or erased.  An entry is held until `Manager::run` of the server erases it, which may be long after the client has gone: such a stale entry still takes part in `getClientIdBy` |
| `Attributed(c)` | the clients whose entry `getClientIdBy<Endpoint>` may find for a datagram of `c`: all held ones with its endpoint |
| `announced`, `delivered`, `outOfStep` | history: of the callbacks, and that a short read threw bytes away |
| `TcpReads`, `TcpReadsBody` | a read returns a whole packet, a part of one (`ReadsShort`: lost, since `Tcp.cpp:44` does not look at the result), or its header before its body is there |
| `TcpIdles` | a turn of `Tcp::run` that reads nothing, or an end of stream it does not look at |
| `SendKills` | `*client_.socket` of an empty pointer (`Manager.cpp:95`), or SIGPIPE; what a `sendToServer` that returns has sent is `Stream`'s subject |

Once out of step a client takes any bytes for headers and bodies, so that from then
on a read may leave any number of packets, and may wait for a body that nobody
sends.

Which port the kernel gives out, whether `connect` fails, and when the server
sends or closes is open.  A process whose port is bound exclusively by somebody's
probe cannot bind it and ends; one that assigns to a joinable `std::thread` ends
too (`dead`).

### How `Packet` corresponds to the code

`bytes`, `length`, `writeOffset` and `readOffset` are the members of `Packet`;
`WriteValue`, `WriteString`, `ReadValue` and `ReadString` its four operators, with
their guards and the order of their effects.  `Transmit` is `sendToSocket`
followed by `readHeader` and `readBody`: `length` bytes arrive in a new packet
whose `bytes` and `length` are set and whose offsets are 0.  `items`, `taken` and
`got` are history: what was written, how much was read and the last item read.
`Memory` reads past the vector's end as an arbitrary byte.  A byte has `Base`
values.  `numberToBytes` and `bytesToNumber` are the loops of `Converter` for the
two bytes that `Packet`, its only caller, asks for.

## 3. What the runs check

Bounds common to the runs of `Server` and `Broadcast`: two peers (three in
`server_atomic` and `server_truncated`), `FdLimit = 2` accepted descriptors (3 in
`server_truncated`), and one packet from one of the peers (none in `server_stops`,
`broadcast` and `server_truncated`), which may be empty and which TCP may cut in its header or body.
Two clients are what the interesting cases need: an erase at index 1 that moves the
other entry into its place, an id that could be mistaken for the other, a client
blocked while another one waits.  `IdModulus` is 2^16 as in the code, except in
`server_truncated`, where 2 stands for it.  Constants are in the `.cfg` files; the
safety runs use the symmetry of peers that send alike.

| Run | Setting | Shows |
|---|---|---|
| `server_atomic` | map lookups atomic, no exception; three peers, of which one sends, and descriptors for two, so that `accept` fails for the third; `onConnection` set at any time | type invariant; array, map and queue agree at every step; no entry is orphaned; no thread ends; implements `Sessions`; a disconnection names a client the server reads no more |
| `server_stops` | both protocols, lookups that may miss, `~Manager` at any moment | a scan is cut short; threads end early, but only in a lookup that missed; array, map, queue and sessions stay right, with UDP ahead of the announcement and behind the end, and no callback comes after `~Manager` |
| `server_throws` | `onConnection` and `onDisconnection`, set at any time, may throw; hosts may fall silent; lookups may miss; `stop()` at any moment | entries get lost, threads or the process end, yet no id reaches the application, by TCP packet or disconnection, for which `onConnection` was not invoked |
| `server_lives` | fair scheduling; `~Manager` at any moment | a closed or reset client leaves the map; a connection in the backlog becomes a client; the destructor returns, and the live clients with data that it has queued halfway through a scan are in the map and polled no more |
| `broadcast` | two calls of `sendToClients`, over TCP or UDP, from callbacks on any of the three threads of the Manager, also before the Udp exists, for the ids 1 and 0 in this order; lookups that may miss | empty entries have ids whose clients the application saw leave; a call from `onDisconnection` is not disturbed; a client with an open session is passed over only behind one without, or after a lookup beside a writer; only clients that left or reset, or a missing Udp, end the process; the callbacks still see the sessions of `Sessions` |
| `packet` | a byte of one bit, so that 3 is the greatest size of a string and one of the four strings is too long; up to 9 bytes; values and strings in any order | what is read is what was written, to the last byte |
| `clients` | two processes that start at once, two ports, two calls of `connectToServer` by one and one call by the other, one packet to each, cut anywhere; stale entries; fair scheduling | the server never takes a connected client's datagrams for those of another one that is there; `onConnection` precedes the first packet at the first call; whoever returns connected was told and has a running thread; sending does not end a client connected at the first call while the server is there; no descriptor is closed under a reader; what is read in step is delivered, and the destructor returns unless a misread body holds it up: all this although creation may fail and processes may end |
| `stream` | a server reads; two threads send up to three packets of 0, 1 or 3 bytes behind a header of two; buffers of 4 bytes, interrupted calls, ends that close | a connection is a `Channel`; what it delivers until a packet is torn is what was sent; calls of `send` return and packets arrive |

In `broadcast` id 1 comes first because it may be not yet given out, given out,
or gone while id 0 is open; two calls are enough for the second to meet the empty
entry the first has left.  A call from the application's own thread is left to the
theorems: beside the server's threads it is what a call from the udp thread is.  In `packet` nine bytes
hold two strings of the greatest size or five small items, enough for an item
behind one that moved the offset wrongly.  In `clients` two processes are enough to
share a port, and two ports to have one each; a second call by one of them is enough
for every way a retry can go, beside another client that behaves.  In `stream` the
longest packet has five bytes and the buffers hold four, so a call may stay in
`send`, after which another one tears the packet; a header of two bytes can be cut;
and of the three packets one can arrive in step, one be cut and one be out of step.

`server_stops`, `server_throws`, `broadcast`, `stream` and `stream_client` switch
deadlock checking off because the system can really stop in them: all threads may be
gone or wait for ever (`Tcp::run` left by an exception, `Manager::run` by its
`return`, the process terminated, `~Manager` in a join of a thread that waits for a
body), all packets may have been sent and read, and a sender may wait for room at a
server that has disconnected it.

`SessionsSpec` is a refinement: with the same `phase`, `cb` and `callbacksSet`, every
step of `Server`, and of `Broadcast`, is a step of `Sessions` or leaves them
unchanged.  So is `ChannelSpec`: with the same `sent` and `torn`, and the packets that
`delivered` numbers, every step of `Stream` is one of `Channel` or a stutter.

Every property of a passing run has a mutant, a definition of its module with a
plausible mistake (the operators ending in `_Slip`: a forgotten `pop`, the entry
before the right one erased, the erased entry kept, an index not corrected, an id
not queued, a callback with the next id, a missing `stop()` or `join`, a listener
that is not looked at, a header not counted, a string of one byte too many, a
client's thread started before the connection, another port for the datagrams, a
`find` left out, a loop that ends after its first client, a partial `send` taken for
a whole one, a flag that is not cleared, a thread that is not started, a server that
reads on after a short read, an empty body waited for), under which TLC finds the
property violated.

### Fairness

`FairSpec` of `Server` assumes weak fairness of the tcp thread, the main thread, the udp
thread and the destructor once begun: the operating system runs every thread, and
none of their loops waits on another thread.  It also assumes that TCP delivers
the body of a packet whose header has arrived (`RestArrives`), because `recv` in
`readBody` has no timeout: without this assumption liveness is false, as
`MayVanish` shows below.  Peers are not fair: they need not connect, send or
close.  Nor is `stop()` or the decision to destroy the Manager.

`FairSpec` of `ClientSide` assumes weak fairness of the tcp thread and of
`connectToServer` and `~Manager` once begun.  The rest of a packet read in step is
taken to arrive, as above.  Nothing is assumed about the body of a header that was
misread: `ClientsEnd` excepts a thread that waits for one.  Nobody has to connect,
send, close or begin the destructor.

`FairSpec` of `Stream` assumes weak fairness of the reading thread, which has
nothing else to do while there are bytes, and of a `send` that has room or whose
connection is reset.  Nobody has to begin sending, to close or to end.

### Where code and promise differ

Each of these runs checks one property and finds it violated.

* `server_truncated`: with a queue element narrower than the ids (modulus 2 for
  2^16), the wrong client is reported as disconnected and erased.
* `clients_retry`: a second `connectToServer`, made because the first failed, ends
  the process: the failure was caught, the thread started all the same, and a
  joinable `std::thread` is assigned to.
* `packet_overread`: `>>` of a value looks at the size of the whole packet, so that
  reading a value twice goes past its end.  `>>` of a string looks at nothing
  (`Packet.cpp:32`): its two header bytes are read beyond the end of a packet that
  has none left, and no comment says otherwise.
* `stream_client`: `stream` with a client at the reading end, which reads on
  after half a header and delivers a packet nobody sent.

Other settings of the constants show more that holds only under the stated
settings:

* `Throws = {"onConnection"}` in `server_atomic`: when `onConnection` throws, the
  id is not used up; the next client overwrites the first one's entry while its
  descriptor is still polled (`RegistryAgrees`).
* `MayVanish = TRUE` in `server_lives`: a peer that falls silent inside a packet
  keeps `~Manager` from returning; TLC reports the deadlock, with `tcp` in `recv`
  and `app` in `join`.
* `RacyContainers = TRUE` in `server_atomic`: one missed lookup ends `Tcp::run` for
  all clients (`ThreadsSurvive`).
* In every run of `Server` whose `EarlyCallbacks` lacks `onConnection`, which is the
  order of the example server: a client that connects before the callback is set is
  never announced to the application, though its packets arrive.  `Sessions` says as
  much.
* `Relays = TRUE` in `packet`: a value appended to a received packet overwrites its
  beginning (`ReadBack`).
* In `clients`, two processes that start together may get one port; the second
  cannot connect, and its datagrams are taken for the first's.  A datagram of a
  connected client may also be taken for that of one that has gone and had its port
  before, while the server still holds that entry.  A client that connected closes
  its descriptor twice, because the socket handed to `callbackHandler` is copied with
  its ownership (`closes` reaches 2).
* In `broadcast`, an empty entry stays for the life of the server, so that an
  entry need not be polled or queued (`NoOrphans`); `sendToClients` does end the
  process, and does leave clients out: the run says when.
* In `stream`, a packet is torn as soon as two threads send and the buffers are full,
  or a signal interrupts `send`; and a sender waits for ever at a server that has
  disconnected it after a short read, since no descriptor is closed.

## 4. What is proved

Every invariant, action property and refinement of the passing runs is stated by a
theorem that TLAPS checks, for every value of the constants but for the conditions
in the third column.  These are conditions on constants only, which the code can
meet; what happens where one of them does not hold is in section 3.

| Module | Theorems | Conditions |
|---|---|---|
| `ServerProofs` | `TypeCorrect` (with `Positions`) | none |
| | `InvariantHolds`, `RegistryCorrect`, `QueueCorrect` | no exception, ids fit |
| `SessionProofs` | `NothingUnannounced`, `SilenceAfterDestruction` | none |
| | `OrphansNever`, `ThreadsCorrect`, `DisconnectionsCorrect`, `ServerImplementsSessions` | no exception, ids fit |
| `BroadcastProofs` | `BroadcastTyped` | none |
| | `PhantomsCorrect`, `MainCallsUndisturbed`, `DeathsExplained`, `OpenServed`, `BroadcastImplementsSessions` | no exception, ids fit |
| `StreamProofs` | `StreamTyped` | none |
| | `DeliveriesInStep`, `ConnectionImplementsChannel` | a server reads |
| `ClientSideProofs` | `ClientsTyped`, `DatagramsAttributed`, `AnnouncedFirst`, `ConnectionsServed`, `AnnouncedSurvives`, `ReadsBeforeClose` | none |
| | `SingleCallSurvives` | one call, one at a time, no sending |
| `PacketProofs` | `PacketTyped`, `SizesCorrect` | none |
| | `ReadBackCorrect`, `EveryByteIsRead`, `ReadsCorrect` | the reader follows the writer |

*No exception* is `Throws = {}`; *ids fit* is `FdLimit <= IdModulus`, fewer
descriptors than the queue's element has values; *a server reads* is
`ReaderSide = "SERVER"`; *one call, one at a time, no sending* is
`MaxCalls[c] <= 1` for every client, `OneAtATime`, `~Sends`; *the reader follows the
writer* is `~Relays` and `InStep`: nothing is appended to a received packet, and the
types that were written are read in their order.  When the callbacks are set, and
whether lookups miss, is left open throughout.  `ThreadsSurvive`, which only
`server_atomic` checks, holds for lookups that do not miss; `ThreadsCorrect` says what
is true without that: a thread ends of itself only in a lookup that ran beside
another one's write.

### The server's registry

`RegistryAgrees` alone is not inductive.  When the main thread erases an entry it
must be known that no polled descriptor has it, or only one that tcp drops in its
next step (`Queued`), which after a push needs each connection polled once (`Polls`)
and mapped once (`Entries`), which after `accept` needs that the backlog holds no
connection that is already polled, mapped or waiting (`Newcomers`).  Between a lookup
and the push that uses it, `Polls` keeps the id in tcp's hand (`InHand`) equal to that
of the polled client.  The head of the queue may be without an entry before its pop,
and `Queued` excepts it: that no second place in the queue has the same id, and that
the pop takes the head, close the gap again.  `IInv` is the conjunction of these with
`TypeOK` and `Positions`: which program counters go with which state, e.g. that `i` is
an index of `pollFds` while a client is read or dropped, that the main thread is past
its test only with a queue that is not empty, and that the ids taken never exceed the
descriptors.  `TypeStep` and `RegistryStep` take the steps of each thread in turn;
frame lemmas carry the parts a step does not touch.

### The server's sessions

Two invariants stand on `TypeInv` alone, so that they hold when callbacks throw and
threads end: `AnnouncedInv` (an id is announced before it is used up, and an entry,
an id in tcp's hand or a place in the queue has an announced id, but for the one entry
whose `onConnection` has still to run) and `Joined` (how far `~Manager` is says which
threads have ended).  `Accounted` adds to `IInv` that an entry is polled or queued,
that the client tcp is dropping is queued if it still has an entry, and that main pops
an id without one.

For the refinement, `SessionInv` adds to `AnnouncedInv` that ids are announced in
turn (`Counted`), that an entry belongs to an open session, but for the one
that tcp has still to announce and the one that main has reported and not yet erased
(`OpenEntries`), and that what waits in the queue or in Udp's hand was given out
before (`GivenOut`).  Each of the four kinds of callback is then a step of
`Sessions` whose guard the invariant provides, and every other step leaves `phase`
and `cb` alone.

`OpenInv` is the converse of `OpenEntries`: an open session has an entry.

### Sending beside the server

`operator[]` leaves entries with an empty pointer in the map, of which `Server` knows
nothing.  Its lookups (`getClientIdBy`, and `find` on an id that was queued) treat
them as if they were not there.  So `BroadcastProofs` maps the state of
`Broadcast` to one of `Server` by taking the empty entries away (`Visible`), and
instantiates all of `SessionProofs` with it.  Lemma `Simulation`: a step of
`Broadcast` is a step or a stutter of `Server` under this mapping, or ends the
process (`Dies`), or is one of two lookups that take an empty entry for a client
(`MeetsPhantom`).  Of these the one of `Manager::run` cannot happen, since the id it
looks up has a real entry, and the one of `Udp` does no harm.  Thus the server's
invariants hold in `Broadcast` without being proved again.  What a call itself needs is `EntryInv`: an
empty entry's session is closed, and what `find` or `operator[]` has returned is
still in the map unless its session has been closed since (`HeldInv`).

### The stream

Without recursion over packets, `InLine` says of a sequence of bytes that each packet
that begins in it goes on without a gap, and that where it ends the next one begins.
`StreamInv` says that until a packet is torn at most one call is under way, with the
last packet (`OneAtWork`), that `header` followed by `stream` is in line and begins
with the packet after those delivered (`ReaderInLine`), and that the byte to be sent
next goes on from there (`Frontier`).  A partial read keeps a server from reading
ever after, and that is where the proof uses `ReaderSide = "SERVER"`:
`stream_client` shows that for a client the theorem is false.

### Clients

`ClientsInv` is a part for each client (`ClientInv`: ports, calls, the thread, what
was announced, what there is to read, what is closed) and one about two of them,
that connected clients have different ports (`EndpointsDiffer`).  A step moves
one client and keeps the parts of the others (`Same`); `EndpointsDiffer` comes from
`connect`, which fails from a port that is already connected to the same server.  For
`DatagramsAttributed` it goes with the part that every entry the server holds was made
by a connection: two clients with one port cannot both be there, so a second entry
with the port is a stale one.

`SingleCallSurvives` is the other side of the violation in `clients_retry`: a process
ends only because it binds a port another one's probe holds, calls
`connectToServer` again, or sends.  Without the first (`Alone`), the second and the
third, `Survives` holds.

### Packets

What was read says nothing about what will be, so the invariant is about the bytes:
each item lies where the items before it end (`Layout`), and `readOffset` is the
place of the next one (`Reading`).  Its only arithmetic is that a size below
`Base * Base` comes back from its two digits (`DigitsOfNumber`, `HeaderRoundTrip`).
`packet_overread` and `Relays` above show that both conditions are needed.

### What stays with TLC

Liveness and all that depends on fairness: `DeadClientsLeave`, `BacklogDrains`,
`ShutdownCompletes`, `SentIsDelivered`, `ClientsEnd`, `SendsReturn` and
`EverySentIsDelivered`.  Their proofs need `ENABLED` of the fair actions, which
TLAPS does not support here.  The violations of section 3 are TLC's too; a
theorem can only say that the property holds under the opposite condition.

## 5. What is not modelled

* Datagrams on the wire: what `readDatagram` copies and `sendToEndpoint` sends.  UDP
  loses, repeats and reorders datagrams, the library does nothing about it, and no
  shared state is involved.  `readDatagram` copies as many bytes as the datagram
  announces from a buffer of 1024 (`Udp.cpp:53`): beyond it the behaviour is
  undefined, and a model has nothing to say.  Who is found to have sent a datagram
  is in `Server` and `ClientSide`.
* Both directions of one connection at once: when two ends send from
  `onMessageReception`, which runs on their only reading threads, and fill the
  buffers, they wait for each other.
* The order in which an `unordered_map` is visited: which of two entries with one
  endpoint a datagram goes to, the live one or a stale one.
* On the client: its main thread, whose queue stays empty; its udp thread, which
  only reads its own socket; a server endpoint that changes
  (`setServerEndpoint`).
* More than one call of `sendToClients` at a time, and what becomes of two threads'
  writes to the map at once.
* `Converter` for widths other than two, where the shift of an `int` would extend
  the sign at four bytes.  Of `Packet`, `>>` into a pointer, which hands out the
  vector's address, and the textual output.
* The Windows branch; memory exhaustion by a huge announced length; errors of
  `poll`, of `bind` on the server and of thread creation.
* `Singleton`, `Endpoint` and the enums, which have no behaviour of their own;
  the build files.

## 6. Plan

Modelled: the server with its network and sessions, its sending, the client side,
the stream between them, and what is in a packet.  Proved: what the passing runs
check, except liveness, and `ThreadsSurvive`, of which `ThreadsCorrect` is the
form that holds for every setting.  Left are results beyond the runs:

1. The safety half of liveness: that a thread which is not done has an enabled step,
   or waits for what another one will do (for `Tcp::run` in `recv`, for `~Manager` in
   a `join`).
2. `ServerImplementsSessions` and the theorems of `BroadcastProofs` when only
   `onDisconnection` throws.  TLC finds that `Broadcast` still implements `Sessions`
   then; but `RegistryAgrees` fails in the last state when the process ends between
   `accept` and the insertion, so that the registry's invariant must be stated for a
   process that has not ended.
