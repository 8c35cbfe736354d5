# Verification of socket-io

TLA+ models of the Rust implementation of Engine.IO (`src/engineio`) and Socket.IO
(`src/socketio`), the TLC configurations that check them on small instances, and TLAPS
proofs for every value of the constants.  `PROJECT.json` lists components, runs, mutants,
hazards, findings and theorems, and maps every definition to the lines it models.

## 1. The system

The repository is two crates on tokio.  Engine.IO gives a client a *session* over HTTP
long polling or a websocket; Socket.IO puts namespaces, events, acknowledgements and rooms
on top.  Everything is a task; state is shared through `Arc`s of DashMaps, mutexes,
RwLocks, atomics and bounded channels.

| Component | State | Operations | Interacts through |
|---|---|---|---|
| Engine server (`engineio/src/server/server.rs`) | `sockets`, `polling_handles` (DashMaps), the event channel, a sid counter | `store_transport`, `start_ping_pong`, `close_socket`, `emit`, `drain_polling` | event channel to the Socket.IO server; called by the HTTP handlers |
| Engine socket (`engineio/src/socket/socket.rs`) | `connected`, `transport` and `generator` (mutexes), `last_pong` | `connect`, `emit`, `emit_multi`, `disconnect`, `upgrade`, `poll_next` with `handle_incoming_packet` | sends events; polled by its owner |
| HTTP and websocket handlers (`server/http.rs`) | none of their own | open, GET, POST, probe and upgrade | the two tables of the server, the polling channels |
| Transports (`transports/*.rs`) | two bounded channels (polling) or a websocket | `emit`, `poll_next` | queues |
| Socket.IO server (`socketio/src/server/server.rs`) | `clients`, `rooms` (DashMaps) | event loop `recv_event`, `create_client`, `handle_connect` under `CONNECT_TIMEOUT`, `insert_clients`, `drop_client`, `join`, `leave`, `emit_to` | engine events; callbacks of user code |
| Socket.IO socket (`socketio/src/socket.rs`) | `is_connected`, `outstanding_acks` (RwLock), callbacks | `emit`, `emit_with_ack`, `handle_ack`, `disconnect`, `poll_packet`, attachments | the engine socket |
| Socket.IO client (`socketio/src/client/client.rs`) | `socket`, `connected` (RwLocks), backoff | `poll_callback`, `reconnect`, `disconnect`, `emit` | replaces its socket |
| Callbacks (`socketio/src/callback.rs`, `on` of the socket) | the table `on` (DashMap), one spawned task per event | `on`, `callback` | user code, which emits and asks for acks |
| Engine client (`engineio/src/socket/builder.rs`) | url and `handshake`; then an engine socket | `build`, `build_with_fallback`, `build_polling`, `build_websocket`, `build_websocket_with_upgrade` | requests to the handlers |
| Codecs (`packet.rs` of both) | none | pure | every transport |
| Header map, options of the builders, errors | none | pure | – |

What is hard here:

* guards and mutexes that live across an `.await` (the ping task keeps a DashMap guard
  while it sends, `disconnect` of the client keeps one lock and waits for another);
* futures that are dropped half way: `poll_next` polls `handle_incoming_packet` once, the
  connect timeout cancels a handshake wherever it is;
* several tasks that close the same session, and the event loop that closes it again
  because one of them told it to;
* bounded channels: the event channel, and both polling channels of a session;
* a DashMap guard held over a callback's awaits, for which other tasks wait by blocking
  their thread of the runtime;
* a build of several requests, each of which may fail on either side of its answer;
* bytes cut in other places than the sender's: a request is read once, a response is
  parsed in the pieces it comes in;
* steps that are not atomic together: announce and register, look for a namespace and
  insert it, find an ack and remove it, drop the polling handle and replace the stream.

What makes each component correct: a session is announced once and closed for good; it is
timed out when its client is gone, so it may never be registered without a ping task; one
task disconnects it; the packets of one message stay together; an upgrade neither loses
nor resurrects a session; a client is listed once per session, its rooms keep it, and
emits stay in their namespace; every ack callback runs at most once; the client has one
connection and gives it up when told to; a packet arrives whole, in order and once
whatever the transport; a build opens no session too many and leaves none for ever; a
callback gives its guard back.

## 2. Modules

| Module | Models | Used by |
|---|---|---|
| `SessionLifecycle` | abstract: what the engine promises the owner of the event channel (new, open, closed) | refined by `EngineServer`, assumed by `SioServer` |
| `EngineServer` | engine server, socket, handlers, server transports | `MCEngineServer`, `EngineServerProofs` |
| `EngineServerProofs` | theorems about `EngineServer` | – |
| `EngineWire` | Engine.IO packets and payloads as bytes, over POST, GET and websocket | `MCEngineWire`, `EngineWireProofs` |
| `EngineWireProofs` | theorems about `EngineWire` | – |
| `EngineClient` | `SocketBuilder` against the handlers, pings on the client's side | `MCEngineClient`, `EngineClientProofs` |
| `EngineClientProofs` | theorems about `EngineClient` | – |
| `SioServer` | Socket.IO server, its clients, poll tasks, callbacks and rooms | `MCSioServer`, `SioServerProofs` |
| `SioServerProofs` | theorems about `SioServer` | – |
| `SioAcks` | acknowledgements of one Socket.IO socket | `SioCallbacks`, `SioAcksProofs` |
| `SioAcksProofs` | the invariant of `SioAcks` | `SioCallbacksProofs` |
| `SioCallbacks` | callbacks of one Socket.IO socket, composed with `SioAcks` | `MCSioCallbacks`, `SioCallbacksProofs` |
| `SioCallbacksProofs` | `SioCallbacks` implements `SioAcks`, and theorems about both | – |
| `SioClient` | the reconnecting client | `MCSioClient`, `SioClientProofs` |
| `SioClientProofs` | theorems about `SioClient` | – |
| `SioPayload` | payloads, the packet codec's fields, attachments | `MCSioPayload`, `SioPayloadProofs` |
| `SioPayloadProofs` | theorems about `SioPayload` | – |

### EngineServer

One step is what a task does between two points where another task can interfere.  A
session `s` has nine tasks: `open` (the request that creates it), `ping`
(`start_ping_pong`), `reader` (whoever polls the socket's stream), `loop` (the Socket.IO
event loop while it handles an event of `s`), `timer` (the connect timeout), `app` (user
code), `up` (`handle_probe` and the upgrade), `get` and `post` (the client's HTTP requests).
`pc[s][t]` is where a task stands, `pkt[s][t]` what it is sending.  `emit`, `emit_multi`
and `disconnect` are written once (`EmitCheck` … `OnError`, `Remove` … `ClearConnected`)
and run by every task that calls them; `AfterSend` and `AfterError` say how each caller
goes on.

* `events` is the bounded event channel: `Notify` is not enabled when it is full.
* DashMap guards across an await are `ReadsSockets`, `WritesSockets` and the POST's guard
  in `CanUseHandles`; they block every session of the same `Shard`.
* `holder[s]` is the transport mutex, which `emit_multi` keeps from header to last
  attachment and `upgrade` while it waits for the generator's mutex.
* `missed[s]` counts ping ticks since `last_pong` was set; `MissLimit` of them are a
  timeout.  It saturates.
* Dropping a future is an action: `ReaderGivesUp`, `ReaderYields` (the single poll of
  `handle_incoming_packet`), `TimerFires`.
* `told[s]` is history: what the event loop has been told.  It is the refinement mapping
  to `SessionLifecycle`.

Packets are their kinds (`In`, `Out`); their bytes are `EngineWire`'s subject.  A task waits
for ever in two ways.  `Blocked(s)`: it sends to a client that takes no packets (`Stalled`),
its own or one of another session of the shard, in whose name a guard of `sockets` is kept
meanwhile.  `Wedged`: the event loop waits so, or for room in the channel that it alone
drains.  The liveness properties name these as exceptions (`PostAnswered` also a reader
without a waker).  What each client sends, whether it polls (`Polls`) and which sessions
are upgraded are constants.  The client's websocket holds at most `WsBuffer` unread packets
(a bound of the model).  Simplified: `Dropped`, the end of the last clone of a `Socket`,
takes no account of clones that the application keeps in the Socket.IO clients of sessions
that have ended; they keep a websocket open longer than the model does.

### EngineWire

A byte is a pair: the number of base64 encodings it has been through, and its class (the
separator, a packet type's digit, `b`, not UTF-8, anything else), which is all the codec
looks at.  `PacketBytes`, `TryPacket`, `TryPayload`, `PollingPayload` are the codec;
`PollingBytes`, `WebsocketBytes` what the transports do; `ServerReads` the one read of a
request, of any length up to `ReadSize`, which `polling_post` hands on (`PostTaken`) or, when
the session is over, drops with the same answer (`PostIgnored`); `GetAnswer` and `ReadChunk` a response and the
pieces it is handed on in.  What was joined and what is cut are recursive functions of
their length.  `Orders` are the selections of emits, in order, that the receiver may come
to see: each has every emit that returned Ok.  `Portable` and `Sane` state what the code can carry; the
packets they exclude are in the model and in the run, and section 4 says what becomes of
them.  `ChunkSize` is an assumption about the network: a response up to this size comes in
one piece, a longer one is cut anywhere.  A POST of the client is answered before the next
(the transport mutex).  Bound: `MaxSent` packets.

### EngineClient

`Start` chooses one of the five functions of `SocketBuilder`; each request is an action
that succeeds, fails, or (`HandshakeLost`) succeeds without an answer, and an error goes
where `Fail` says: to the caller, or into `build_with_fallback`'s second build.
`Classify` is `parse_request_type`, `handler[s]` the server's `handle_probe` and upgrade.
The sessions are those of `EngineServer` without its interleavings inside one emit or
close.  On the client, `handle_incoming_packet` is polled once from `poll_next`:
`AnswerPing` and `LosePing` are the two outcomes.  A tick of `start_ping_pong` comes at any
point of a build or an upgrade, also between `close_polling` and the swap of the transport:
there the ping cannot be sent (`Unsendable`) and the task leaves its loop to close the
session (`PingFails`, `failing`), even under a client that polls it.  Two assumptions about
time are left: the interval is long compared with a ping and its answer (`Pending`), and
the timeout with a message that somebody is about to take (`Settled`, in `Overdue`).  When
the first Pong of `connect` fails, the `Socket` keeps its flag and nobody polls it
(`SocketConnectFails`).  Bounds: two sessions, which is all a build can open, and `MaxEmit`
emits.

### SioServer

The engine appears as its promise.  `conn[e]` walks through `handle_connect`,
`do_handle_connect` and `insert_clients` of a session, `drop` through the event loop's
`drop_client`, `poller[e]` and `stream[e]` are the client's poll task and its packet
stream, `user[e]` a callback.  `rooms` and `members` are the two levels of `Server.rooms`.
`join` is one step when the namespace has an entry and two (`JoinFirst`, `JoinInsert`) when
it has none, as in the code.  Closing a session sends a Close packet: its stream may end
with it (`StreamMayEnd`) or later (`StreamCloses`), since the poll task has a clone of the
`Socket`.  Bound: one callback per client at a time.

### SioAcks

Any number of callers take an id, push the ack and send; one poll task scans, calls back
under the write lock, and removes by index under a second lock.  The peer acknowledges
late, twice, or never, and sends packets of the other types (`PollOther`), of which a
Disconnect ends the socket; the stream may end with an error (`PollFails`).  Bounds:
`MaxId` ids, `MaxInbox` packets waiting.

### SioCallbacks

The callers of `SioAcks` are the tasks that `callback` spawns, one per packet with an
event.  A task enters when the shard of its event in `on` is free, runs its callback under
the write guard, and returns; a task that finds the shard taken occupies one of `Workers`
threads until it gets the guard.  Callbacks that suspend (`emit_with_ack`) give their
thread up but not their guard.  The registrations of `ClientBuilder::on` are tasks of the
same kind; the server's are in place from the start.  A caller is a slot: the number of
callbacks at once is a bound.

### SioClient

Sockets are numbered.  The poll task polls the current one under a read guard of `socket`;
an engine error makes it hang up and reconnect, any other error or the end of the stream
does not.  `disconnect` keeps the write guard of `connected` over its whole body.  Neither it
nor the server's Close packet closes the transport: the link is then `closing`, still
`IsOpen`, and breaks or not.  Bounds: `MaxSocket` sockets, of which the last only fails
after a disconnect.

### SioPayload

A message is a payload (`Binary` or `Json`: one item; `Multi`: any number), an event name
or none (an ack), an id or none, and a namespace.  `BuildPacket` gives the packet with its
numbered placeholders and its count modulo `U8` (256 in the code), `Encode` and `Decode` say which fields the
text of a packet carries and which defaults are read back, `DecodePlain` and `DecodeBinary`
are the two decoders.  An `Option` is `Absent` or `Present` of a value.  `Selected` takes
the elements at given positions: the binaries of a payload, the messages for one
namespace; it goes by halves.  The sender puts one packet on the wire per step, as
`emit_multi` does (`Send`, `SendAttachment`), and may fail behind the header on a connection
that goes on (`SendFails`); what `MultiAtomic` of `EngineServer` gives is that nothing else
comes between.  The receiver takes one engine packet per step (`SkipOther`, `TakePacket`,
`TakeAttachment`, `TakeError`, `StreamEnds`), or loses the one it has taken (`PollDrops`: the
single poll of `handle_incoming_packet`), after which it may be `deaf`.  `got` is what was
handed to callbacks, in the order of the packets; an event's callback runs in a task of its
own, so that `CallbackRuns` takes them in any order.  `broken` has the messages that were cut
short in one of these ways, `Intact` those before the first that was, or that does not
`Fit`.  `Promise`, the
reference, is written from the emitted items without any of these operators.  Left out:
JSON objects with a key `_placeholder` (which the receiver takes for placeholders),
binaries whose bytes are the text of a packet, namespaces with a comma.  Bounds: `MaxSent`
messages, `MaxPing` other engine packets.

## 3. Runs

| Run | Bounds | Shows |
|---|---|---|
| `engine_close` | 1 websocket session, event channel of 1; the client sends and closes, the application sends attachments and disconnects | `Watched`, `SingleCloser`, `ClosedUnregistered`, `MultiAtomic`, the inductive `IInv`, refinement of `SessionLifecycle` while everybody closes the session at once |
| `engine_reap` | 2 polling sessions of one shard, one from its first request on or both in service, channels of 1, a client that sends Close packets, none that polls | `LoopComesBack`, `PostAnswered`, liveness |
| `engine_swap` | 2 polling sessions of one shard, of which one polls and is upgraded and the other takes nothing, channels of 1 | `DeadClientReaped`, `UnreadIsReaped`, liveness |
| `engine_on_open` | 1 session | violation: `OnOpen` before registration |
| `sio_rooms` | 2 sessions, 2 namespaces, 1 room | `NamespaceIsolation`, `OneClientPerSession`, `RoomsKeepMembers`, the inductive `IInv` |
| `sio_connect` | 1 session, all faults | `ConnectedOrClosed`, liveness |
| `wire` | 3 of 9 packets on each path, channel of 2, reads of 5 bytes after headers of 2, pieces of 9 | `TypeOK`, `ArrivesAsSent`, `NeverChokes`, `AcceptedArrives` |
| `engine_client` | 5 builds, 2 unanswered pings, buffer of 3, 2 emits | `OneSessionPerBuild`, `FallbackSurvivesWebsocket`, `ServedStays`, `ServedOrReaped`, the inductive `IInv` |
| `acks` | 2 callbacks at once on 2 threads, 2 ids, 1 packet waiting, 2 handled events | `CalledOnce`, `RemovesItsAck`, `OneCallbackPerShard`, `CallbackReturnsAgain`, `AckSettled`, the inductive `AckInv` |
| `client` | 2 users, 3 sockets, limit 1 | `OneConnection`, `LostIsReplaced`, `DisconnectReturns`, `PollerStops`, the inductive `IInv` |
| `payload` | 2 of 19 messages: every shape up to 3 items, a counter of 4 values with 3 and 4 attachments | `TypeOK`, `DeliveredAsSent`, `StreamSurvives`, `AllDelivered` |
| `client_disconnect` | 1 user, 2 sockets | violation: a socket installed after disconnect |

`TypeOK` is the first conjunct of every `IInv` and of `AckInv`: a run that checks one of
these checks it too.

Why the bounds are enough.  The races for one session's state are between its own tasks, so
`engine_close` has one session with all of them; that safety holds for any number of
sessions, which share the channel and the shards of the tables, is proved (section 5).
For liveness one session is not enough: a guard kept in another session's name blocks the
shard, so `engine_reap` and `engine_swap` have a second one, whose client takes no packets
(`InService`, with a message in its buffer or not).  These runs begin with a session alone,
from its first request on, or with both in service; that one is opened while the other
stalls is left out, to bound the states.  Channels of one make
"full" reachable in a few steps; a buffer of three on the client's side holds the pings of
one timeout and a Noop.  In `wire`, three packets give a payload with a first, a middle and
a last piece; a read of 5 takes the headers and a short body but not a long one, and 9
bytes are two short packets with their separator but not three long ones, so that both
sides of each limit occur.  Two callbacks and two registrations on two threads are enough
to block both; the peer's other packets are Event packets there, the other types differing
from them only in `connected`, which `Disconnect` clears as well, and in the event.  Two callers and two ids give an ack pushed between the scan and the
removal of another; two messages show whether the first takes exactly its own attachments,
and `U8 - 1` and `U8` attachments are the two sides of the counter's limit, whose size is a
parameter that the proofs leave open; two users give two disconnects;
three sockets give a reconnect after a reconnect.  The liveness properties carry their
exceptions themselves (`Wedged`, `Blocked`, a full buffer, a nested callback); without them
TLC finds each of them violated.  Symmetry (sessions) is used in `sio_rooms` only, which
checks safety.

Deadlock is not checked: all these systems may stop.  A client that is gone, a session
that is closed and a poll task that has ended leave no step to take once the bounds (ids,
sockets, fresh sids) are used up; where waiting for ever would be wrong, a liveness
property says so.

Fairness.  Everywhere: a task that can go on is polled (weak), and one that is ready again
and again is polled in the end (strong, where another task may take the thread or the
lock first); nothing is assumed of clients and of what they send.

* `EngineServer`: weak fairness for each task, strong for the waits of the tasks that close
  sessions (transport mutex, room in the event channel, the guard of `close_socket`),
  because tokio's mutexes and channels queue first in, first out; a DashMap's guards do
  not, and there it is an assumption.  None for a send over a websocket, which may wait for
  as long as the peer does not read, and none for clients.
* `EngineWire`: the server serves its connections and somebody polls the receiving stream.
* `EngineClient`: the build, the handlers, the ping tasks and the readers run.
* `SioServer`: its tasks run; an engine session nobody reads is eventually reported closed,
  which `DeadClientReaped` and `UnreadIsReaped` show with the exceptions of `EngineServer`:
  `ConnectedOrClosed` is about the Socket.IO server above an engine that is not stalled.
* `SioCallbacks`: tasks that are ready again and again get a thread, user code returns.
  The guards of a DashMap are handed out in no order: `Unblocked` is only weakly fair.
* `SioPayload`: the transport takes a packet or refuses it, the receiver polls, spawned
  tasks run.
* `SioClient`: tasks run, locks are fair, a broken transport ends its stream (one that is
  merely told to close need not), and a server that is asked again and again accepts once (strong fairness of `ConnectOk`, an
  assumption about the network).

## 4. Findings

The two violation runs, with the lines they contradict, are in `PROJECT.json`:

1. `OnOpen` is sent before the socket is registered; a receiver that looks the session up
   at once (as the engine's own test server does, with `unwrap`) finds nothing.
2. `poll_callback` reconnects before it looks at `connected`, and `reconnect` never does.  In
   TLC's trace the user's `disconnect` runs from beginning to end while the poll task waits
   in `poll_packet`; then the transport breaks, the poll task takes the error for a lost
   connection and reconnects (`client.rs:232-236`), `do_reconnect` installs the new socket,
   and only now the poll task sees `connected` = false and stops.  The new connection stays.
   A disconnect that comes while the poll task is already reconnecting ends the same way.

Other behaviour of the code that the models contain and no run singles out:

* `Server::emit` keeps its read guard of `sockets` while `on_error` waits for room in the
  event channel; the event loop, which alone makes room, waits for the write guard in
  `close_socket` (`server.rs:71`, `server.rs:89`, `socket.rs:206`; part of `Wedged`);
* a POST that waits for room in the reader's channel keeps the write guard of
  `polling_handles`, and every GET of the shard waits behind it (`CanUseHandles`);
* `close_polling` ends the polling stream before `upgrade` replaces it; a reader polled in
  between stops reading the session (`ReaderEnds` between `Upgraded` and
  `UpgradeGenerator`);
* a request is read once, into 1000 bytes, although the handshake announces a
  `max_payload` of 102400: a larger body, or one that comes in two segments, is refused
  (`http.rs:237`, `RequestComplete`);
* a binary packet that the server sends over polling is in base64 already when
  `build_polling_payload` encodes it again together with its `b` (`packet.rs:245`,
  `Piece`): the client finds no packet type;
* text that is not UTF-8 is left out of a polling payload while its separator is not, and
  alone leaves a response without a body; a separator inside a text packet cuts it in two;
  an empty Message does not parse (all `Portable`);
* the client's polling stream parses each piece of a response body by itself
  (`polling.rs:89`, `ReadChunk`);
* a polling client that has connected is deaf after its first Ping: the Pong is a POST,
  which the single poll of `handle_incoming_packet` cannot complete (`socket.rs:294`,
  `LosePing`); its session is then reaped;
* a fallback, and a handshake whose answer is lost, leave a session on the server until
  it is reaped;
* the callbacks of one shard of `on` run one at a time and block threads of the runtime
  while they wait: enough of them, or one on a single-threaded runtime, stop every task,
  the one that would release the guard included (`socket.rs:315`; `Wedged` of
  `SioCallbacks`);
* an event that comes before its registration of `ClientBuilder::on` has run is ignored
  (`Entered`);
* `on("connect", ..)` of the client registers a custom event: `Event::from` maps `open` to
  Connect, the doc of `on` names `connect` (`client/builder.rs:115`, `event.rs:16`);
* the age of an ack is measured when it is handled, not when it arrives: one that came in
  time may be dropped behind a slow one (`Expire`);
* the engine's ping between `close_polling` and the swap of an upgrade fails, and its task
  closes a session that its client polls (`PingFails`; the exception that `ServedStays`
  names);
* a stalled send to one client keeps a guard that every other session of its shard waits
  for in `close_socket`, and with it the event loop (`Blocked`);
* an attachment that is refused behind its header (a POST of more than 1000 bytes) leaves
  the header alone on a connection that goes on: the receiver takes the next message for
  the attachment, so that this message never arrives and its own attachments end the
  stream (`SendFails`, `TakeAttachment`, `TakeError`); a packet that `poll_next` drops has
  the same effect (`PollDrops`);
* callbacks of events run in tasks of their own: their order is not that of the events
  (`CallbackRuns`);
* neither end closes the transport after a Close packet: after `disconnect` the poll task of
  the client may wait in `poll_packet` for ever (`Waiting`; the exception that `PollerStops`
  names);
* a POST for a session that is over is answered 200, like any other (`PostIgnored`);
* 256 attachments are announced as none: the callback gets no payload and the first
  attachment, which is no packet, ends the stream (`Count`, `TakeError`);
* an event emitted with an empty `Multi` arrives as a `message` whose payload is the name
  of the event (`EventName`, `DecodePlain`); these two are what `Fit` excludes;
* a transport that ends between a packet and its attachments panics the task that polls
  (`StreamEnds`);
* with the event channel full, `poll_next` drops the packet it has just taken and leaves
  the reader without a waker (`ReaderGivesUp`);
* a Connect callback may join a room and not be found by its own `emit_to`, because the
  client is listed after its callback and poll task are started (`InsertClient`);
* two first joins of a namespace at once: the second discards the first (`JoinInsert`;
  it is the exception that `RoomsKeepMembers` names);
* `emit_to` by client id reaches nobody until the namespace has a room (`SidsToEmit`);
* a packet that does not parse ends the poll task's stream for good (`PollError`), on the
  client without a reconnect (`PollEnds`);
* an ack callback that itself calls `emit_with_ack` waits for the lock it runs under
  (`CallbackNests`; the exception that `AckSettled` names);
* a limit of n reconnect attempts makes n + 1 of them (`GivesUp`).

## 5. Proofs

Every theorem holds for every value of the constants that satisfies the named assumptions
of its module: any sets of sessions, namespaces, rooms, tasks and messages, any channel
sizes, limits and shards.  No safety property is inductive by itself; each module
conjoins what its own properties need to `IInv` (`AckInv` in `SioAcks`), proves one lemma
per conjunct and, inside it, one step per action, and draws the theorems from
`Invariance` (`Spec => []IInv`).  The runs check the same `IInv` on their instances, except
those of `EngineWire` and `SioPayload`, which quantify over positions on the wire and live
in their modules of proofs.

### EngineServerProofs

| Theorem | Statement |
|---|---|
| `Invariance`, `TypeCorrect` | `Spec => []IInv`, `Spec => []TypeOK` |
| `AlwaysWatched` | `Spec => []Watched` |
| `OneCloser` | `Spec => []SingleCloser` |
| `ClosedStaysOut` | `Spec => []ClosedUnregistered` |
| `MultiIsAtomic` | `Spec => MultiAtomic` |
| `Refinement` | `Spec => LifecycleSpec` |

`IInv` adds

* `Places`: each task is at a place of its own code and sends only its own packets, so
  that, for instance, a ping task inside `emit` is either pinging or closing;
* `Mutex`: a task between lock and unlock is the `holder`, which gives `MultiAtomic`:
  while the header is sent and the last attachment is not, `app` holds the mutex, and
  both another `EmitSend` and `UpgradeTransport` need it;
* `Booting` and `QuietIsUnknown`: until `store_transport` is through, nobody else works on
  the session and nothing about it but its `OnOpen` is in the channel.  This is what keeps
  a late registration from following a close (`ClosedUnregistered`);
* `Announced`: the `OnOpen` is in the channel or has been received, once, and precedes
  every `OnClose`.  This gives the refinement: an `OnClose` is received only when `told`
  is no longer `new`.

`AsideStep` disposes of the actions that leave the variables of a conjunct alone;
`NotifyQueued`, `TakeQueued`, `NotifyAt` and `TakeAt` say what appending to and taking from
the channel do.

### EngineClientProofs

| Theorem | Statement |
|---|---|
| `Invariance`, `TypeCorrect` | `Spec => []IInv`, `Spec => []TypeOK` |
| `OneSession` | `Spec => []OneSessionPerBuild` |
| `FallbackSurvives` | `Spec => []FallbackSurvivesWebsocket` |
| `ServedClientStays` | `Spec => ServedStays` |

* `Course` says how far a build has come and what it may still ask for; it gives
  `OneSession`, since a step that opens a session has budget left.
* `SocketIsBuilt` and `OnlyIssued` keep the two sides' names apart: nothing exists on the
  server that was not issued, and a `Socket` is on the session of its handshake.
* `Agreed` is the heart: for each place of the build and each transport, where the
  server's handler may be and what is still on the websocket (`Before`, `Probing`,
  `Opening`, `OnWebsocket`).  The Upgrade packet is before the client's first Pong, which
  is why a served client never finds its session on the other transport.
* `Answering`: while pings are unanswered, the Pong, or the Ping that will cause it, is on
  its way; so the count never reaches the limit with nothing to reset it.  `CloseIsLast`:
  a Close on its way means that the client has given the session up.  Both are what
  `ServedStays`, an action property, needs of the states before a step.

### SioServerProofs

| Theorem | Statement |
|---|---|
| `Invariance`, `TypeCorrect` | `Spec => []IInv`, `Spec => []TypeOK` |
| `EmitStaysInNamespace` | `Spec => []NamespaceIsolation` |
| `OneClient` | `Spec => []OneClientPerSession` |
| `MembersStay` | `Spec => RoomsKeepMembers` |

`Numbered` bounds the ids by the sessions heard of.  `NothingBefore` says that a session
without a Connect packet has no client, no callback and nothing emitted to it, `Named` that
from then on its id decodes to it and its namespace is settled, `ListedAsNamed` that what
is listed for it is this one client: together they give `OneClient`, and `NamespaceIsolation`
because the namespace an emit was checked against cannot change before the packet is sent.
`Arguments` types what callbacks hold between their steps.  `MembersStay` is an action
property proved per action (`MembersStep`).

### SioAcksProofs and SioCallbacksProofs

| Theorem | Statement |
|---|---|
| `AckInvariance` | `Spec => []AckInv` (`SioAcks`) |
| `CallbacksImplementAcks` | `CSpec => Spec`: the callback table implements the acks |
| `AckTypeCorrect`, `CallbackTypeCorrect` | `CSpec => []TypeOK`, `CSpec => []CallbackTypeOK` |
| `AckCalledOnce` | `CSpec => []CalledOnce` |
| `AckRemoved` | `CSpec => []RemovesItsAck` |
| `CallbacksExclude` | `CSpec => []OneCallbackPerShard` |

`handle_ack` finds an index under one lock and removes it under another; that it is still
the index of the same ack needs `DistinctAcks` (an id is in the vector once), which needs
`OwnIds` (an id has one caller and is pushed once), and that only the poll task removes.
`LockedByCallback` says when the write lock is kept, and `CalledIsHandled` that an ack whose
callback was called is outstanding only while it is being handled, hence `CalledOnce` also
for duplicated acks.  These are proved of `SioAcks` alone and carried over by the
refinement (`AckStep`: every step of the composition is a step of `SioAcks` or leaves its
variables unchanged).

### SioClientProofs

| Theorem | Statement |
|---|---|
| `Invariance`, `TypeCorrect` | `Spec => []IInv`, `Spec => []TypeOK` |
| `SingleConnection` | `Spec => []OneConnection` |

`LiveIsUp` (a transport that nobody has closed has its engine's flag) makes a hangup that
skips the Close packet harmless; `Abandoned` keeps the old connection dead from `reconnect` to the
installation of the new socket, across any disconnect of another task.

### EngineWireProofs

| Theorem | Statement |
|---|---|
| `TypeCorrect` | `Spec => []TypeOK` |
| `NeverChokesAlways` | `Spec => []NeverChokes` |
| `ArrivesAsSentAlways` | `Spec => []ArrivesAsSent` |
| `NothingMissingAlways` | `Spec => []NothingMissing`: with an open connection and nothing queued, in a response or pending, every packet whose emit returned Ok has arrived, in order; the safety half of `AcceptedArrives` |

These are for packets of any bytes and any number, for any channel, read and piece sizes,
from `WireAssumption`: packets have a type and bytes, and the sizes are positive.

The codec comes first.  `Cut` and `PollingPayload` are recursive functions; `CutExists` and
`JoinExists` show that their recursions define functions, by the least
counterexample (`Least`, `Induct`).  `CutWhole` and `CutJoin` say what `Cut` does to bytes without a
separator and to such bytes behind a separator, and `CutPayload` follows: cutting a
polling payload gives back the queued pieces, when none has a separator in it.  `ParsePacket` and `ParseBinary` say that `TryPacket`
undoes `PacketBytes`, and `PortablePost`, `PortableWebsocket` and `PortableGet` what that
makes of a portable packet on each path.

The inductive invariant is `Shape` (the types, also of the queue, the body and what is
pending) and `InTransit`: while `Sane`, there are a sequence `J` of emits and a number `b`
such that `J` is in order, has every emit that returned Ok and none that still waits
(`Ordered`), and its packets are, in this order, received, pending, `b` of them in the
body, and the rest in the queue (`Carried`).  None of the properties is inductive without
it: a stream that has yielded the right packets so far may have the wrong ones in its
queue.  On a GET `J` is all emits, so that the body is the payload of consecutive emits;
`PayloadPart` bounds it by the payload of all of them, which `Sane` keeps within
`ChunkSize`, and `ReadChunk` takes it whole.  A POST whose answer was lost is where `J` is
chosen: its emit joins `J` when its body was taken (`OrderedAnswered`), though it returns an
error.  `SaneBefore` lets the invariant speak of sane histories only: an emit can end
`Sane`, and none restores it.

### SioPayloadProofs

| Theorem | Statement |
|---|---|
| `RoundTrip` | what is decoded from a message's packet and attachments is what was emitted, for every message that fits |
| `Invariance`, `TypeCorrect` | `Spec => []IInv`, `Spec => []TypeOK` |
| `Delivered` | `Spec => []DeliveredAsSent` |
| `Survives` | `Spec => []StreamSurvives` |

These are for payloads of any length, any messages and any size of the counter (`U8`, 256 in
the code), where the run has payloads of up to four items and a counter of four values.
They need to know what the recursive function
`Selected` computes.  `Least` (every nonempty set of naturals has a least element, from
the library's well-founded order) allows induction by the least counterexample:
`PartExists` shows that the recursion defines a function, `PartPicks` that it holds the
elements at the right positions, and `SelectedSpec` states the result with `Rank`, the
number of selected positions up to a given one.  Since `Number` is such a rank, each
placeholder's number is the place of its binary among the attachments (`Attached`), and
`RoundTrip` follows field by field.

`IInv` is `Shape`, which holds for all messages, and `InOrder`.  As long as the receiver has
not come past a message that does not fit or was cut short, `Reading` says that it is
between two messages or inside one whose attachments are those taken followed by those
still to come, and `Clean` that what the wire holds next, followed by what the emit in
progress has still to send, is `Frames`: each message that is left as a packet with its
attachments behind it, in order, and otherwise only engine packets of other kinds.  A
refused attachment and a dropped packet shorten the part that is clean (`FramesTear`)
without touching what is before it.  Once the receiver is `Past`, all it needs to know is
that the messages before were handed over, which no later step undoes, whatever it makes
of the rest.  `FramesMessage`, `FramesEngine`, `FramesAttachment`, `FramesOtherNext` and
`FramesMessageNext` say what each step does to the frames, `Received` and `Handed` relate
what the callbacks got to the messages taken.  `Fit` (as many attachments as the counter can
count, an event with data) and `Intact` are hypotheses of the properties themselves:
section 4 says what the code does with the others.

### Only model-checked

Every safety property of the runs that expect to pass is proved.  All liveness is only
model-checked (`LoopComesBack`, `PostAnswered`, `DeadClientReaped`, `UnreadIsReaped`,
`AcceptedArrives`, `ServedOrReaped`, `ConnectedOrClosed`, `CallbackReturnsAgain`,
`AckSettled`, `LostIsReplaced`, `DisconnectReturns`, `PollerStops`, `AllDelivered`), since
fairness and ENABLED are outside the prover's reach.

## 6. Not modelled, and the plan

Not modelled: the characters of the Socket.IO packet text (its fields and defaults are in
`SioPayload`), the header map, the options the builders collect, error types, the accept
loop, TLS, HTTP status codes other than "refused", tracing, real time (timeouts are steps
that may happen), process restarts (nothing is persisted).  Two models of one thing are
related by their promises, not composed into one state space: `SioServer` assumes
`SessionLifecycle`, `SioPayload` assumes `MultiAtomic` and a transport that carries its packets
(which, as `EngineWire` says, binary packets of a polling server do not find), `EngineServer`
and `EngineClient` take packets to be what `EngineWire` delivers.  `EngineClient` leaves out
the other sessions of the server, whose stalled sends are `EngineServer`'s subject.

What is left: the text of Socket.IO packets as operators against a reference, with the
packets that do not parse.
