---------------------------- MODULE EngineClient ----------------------------
(***************************************************************************)
(* The Engine.IO client: how SocketBuilder gets from a URL to a Socket,    *)
(* request by request, against the server's HTTP and WebSocket handlers,   *)
(* and how the Socket keeps its session by answering pings.                *)
(*                                                                         *)
(* The server's sessions are those of EngineServer, reduced to what a      *)
(* client can tell apart: the transport they are on, their ping count and  *)
(* whether somebody still reads them.                                      *)
(***************************************************************************)
EXTENDS Naturals, Sequences

CONSTANTS
    Builds,         \* functions of SocketBuilder the application calls
    Offers,         \* does the server offer the websocket as an upgrade? (values tried)
    MissLimit,      \* unanswered pings that end a session
    PollingBuffer,  \* packets a polling session keeps for the next GET
    MaxEmit         \* bound: packets the application emits

ASSUME ClientAssumption ==
    /\ Builds \subseteq {"build", "fallback", "upgrade", "websocket", "polling"}
    /\ Offers \subseteq BOOLEAN
    /\ {MissLimit, PollingBuffer} \subseteq Nat \ {0} /\ MaxEmit \in Nat

MaxSid == 2         \* a build with a fallback opens at most two sessions
Sids == 1..MaxSid
NoSid == 0

VARIABLES
    asked,      \* the function the application called
    how,        \* the function that is running: a fallback goes on as "polling"
    pc,         \* where the building task stands
    offer,      \* the server's upgrades
    handshake,  \* SocketBuilder.handshake: NoSid or the sid, which the url then has too
    upgradable, \* the upgrades of that handshake contain "websocket"
    failures,   \* "http", "ws": kinds of failures so far (history)
    issued,     \* sids the server has generated
    session,    \* the server's side of a session
    handler,    \* the server task that handles the session's websocket
    unread,     \* sessions whose server-side reader has ended
    failing,    \* sessions whose ping task could not send a ping and is to close them
    missed,     \* pings since the server last heard of the client
    polls,      \* packets waiting for a GET
    posts,      \* POSTed packets waiting for the server's reader
    link,       \* the websocket of a session
    up, down,   \* what is on it, to the server and to the client
    socket,     \* the built Socket: its transport and sid
    got,        \* polling: packets of the last GET the stream has still to yield
    reader,     \* the task that polls the Socket's stream
    connected,  \* Socket.connected
    lock,       \* the packet whose emit holds the Socket's transport mutex, if any
    emits       \* number of packets the application has emitted

builder == <<asked, how, pc, offer, handshake, upgradable, failures>>
server  == <<issued, session, handler, unread, failing, missed, polls, posts>>
wire    == <<link, up, down>>
client  == <<socket, got, reader, connected, lock, emits>>
vars    == <<builder, server, wire, client>>

NoSocket == [transport |-> "none", sid |-> NoSid]

Init ==
    /\ asked = "none" /\ how = "none" /\ pc = "start" /\ failures = {}
    /\ offer \in Offers
    /\ handshake = NoSid /\ upgradable = FALSE
    /\ issued = 0 /\ unread = {} /\ failing = {}
    /\ session = [s \in Sids |-> "none"]
    /\ handler = [s \in Sids |-> "none"]
    /\ missed = [s \in Sids |-> 0]
    /\ polls = [s \in Sids |-> <<>>]
    /\ posts = [s \in Sids |-> <<>>]
    /\ link = [s \in Sids |-> "none"]
    /\ up = [s \in Sids |-> <<>>]
    /\ down = [s \in Sids |-> <<>>]
    /\ socket = NoSocket /\ got = <<>> /\ reader = "off" /\ connected = FALSE
    /\ lock = "free" /\ emits = 0

Alive(s) == session[s] \in {"polling", "ws"}

-----------------------------------------------------------------------------
(* Requests *)

Request(transport, sid) ==
    [method |-> "GET", transport |-> transport, sid |-> sid, upgrade |-> transport = "websocket"]

ClassifyForgetsSid(r) ==
    IF r.transport = "websocket" /\ r.upgrade /\ r.method = "GET"
    THEN [type |-> "WsUpgrade", sid |-> NoSid]
    ELSE IF r.sid = NoSid THEN [type |-> "PollingOpen", sid |-> NoSid]
    ELSE [type |-> IF r.method = "POST" THEN "PollingPost" ELSE "PollingGet", sid |-> r.sid]

\* parse_request_type of a well-formed request of this protocol version; handle_http
\* gives the websocket handler what it peeks as WsUpgrade and the rest to Polling::handle.
Classify(r) ==
    IF r.transport = "websocket" /\ r.upgrade /\ r.method = "GET"
    THEN [type |-> "WsUpgrade", sid |-> r.sid]
    ELSE IF r.sid = NoSid THEN [type |-> "PollingOpen", sid |-> NoSid]
    ELSE [type |-> IF r.method = "POST" THEN "PollingPost" ELSE "PollingGet", sid |-> r.sid]

-----------------------------------------------------------------------------
(* SocketBuilder *)

Start(b) ==
    /\ pc = "start"
    /\ asked' = b /\ how' = b
    /\ pc' = IF b = "websocket" THEN "connect" ELSE "handshake"
    /\ UNCHANGED <<offer, handshake, upgradable, failures, server, wire, client>>

FailStops(kind) ==
    /\ failures' = failures \cup {kind}
    /\ pc' = "failed"
    /\ UNCHANGED <<asked, how, offer, handshake, upgradable>>

\* An error ends the build; build_with_fallback starts anew with build_polling on the
\* builder it was given, which has no handshake.
Fail(kind) ==
    /\ failures' = failures \cup {kind}
    /\ IF how = "fallback"
       THEN pc' = "handshake" /\ how' = "polling" /\ handshake' = NoSid /\ upgradable' = FALSE
       ELSE pc' = "failed" /\ UNCHANGED <<how, handshake, upgradable>>
    /\ UNCHANGED <<asked, offer>>

\* Polling::handle (PollingOpen) and store_transport.
OpenPolling(s) ==
    /\ issued' = s
    /\ session' = [session EXCEPT ![s] = "polling"]
    /\ UNCHANGED <<handler, unread, failing, missed, polls, posts>>

\* handshake, handshake_with_transport: the first GET, its answer the Open packet.
Handshake ==
    /\ pc = "handshake" /\ Classify(Request("polling", handshake)).type = "PollingOpen"
    /\ OpenPolling(issued + 1)
    /\ handshake' = issued + 1 /\ upgradable' = offer
    /\ pc' = "decide"
    /\ UNCHANGED <<asked, how, offer, failures, wire, client>>

\* The answer is lost: the session exists, its client does not know it.
HandshakeLost ==
    /\ pc = "handshake"
    /\ OpenPolling(issued + 1) /\ Fail("http")
    /\ UNCHANGED <<wire, client>>

HandshakeFails ==
    /\ pc = "handshake"
    /\ Fail("http")
    /\ UNCHANGED <<server, wire, client>>

Built(transport, sid) ==
    /\ socket' = [transport |-> transport, sid |-> sid]
    /\ pc' = "built"
    /\ UNCHANGED <<got, reader, connected, lock, emits>>

\* build and build_websocket_with_upgrade look at the upgrades, build_polling does not.
DecideUpgrade ==
    /\ pc = "decide" /\ how # "polling" /\ upgradable
    /\ pc' = "connect"
    /\ UNCHANGED <<asked, how, offer, handshake, upgradable, failures, server, wire, client>>

DecidePolling ==
    /\ pc = "decide" /\ (how = "polling" \/ (how \in {"build", "fallback"} /\ ~upgradable))
    /\ Built("polling", handshake)
    /\ UNCHANGED <<asked, how, offer, handshake, upgradable, failures, server, wire>>

IllegalUpgrade ==
    /\ pc = "decide" /\ how = "upgrade" /\ ~upgradable
    /\ Fail("ws")
    /\ UNCHANGED <<server, wire, client>>

\* WebsocketTransport::connect, then with a sid the probe of upgrade ...
ConnectProbe ==
    /\ pc = "connect"
    /\ LET r == Classify(Request("websocket", handshake)) IN
         /\ r.type = "WsUpgrade" /\ r.sid # NoSid
         /\ link' = [link EXCEPT ![r.sid] = "open"]
         /\ up' = [up EXCEPT ![r.sid] = <<"probe">>]
         /\ handler' = [handler EXCEPT ![r.sid] = "probe"]
    /\ pc' = "probe"
    /\ UNCHANGED <<asked, how, offer, handshake, upgradable, failures,
                   issued, session, unread, failing, missed, polls, posts, down, client>>

\* ... or without one the Open packet the server's handshake sends.
ConnectDirect ==
    /\ pc = "connect"
    /\ LET r == Classify(Request("websocket", handshake)) IN
         r.type = "WsUpgrade" /\ r.sid = NoSid
    /\ issued' = issued + 1
    /\ link' = [link EXCEPT ![issued + 1] = "open"]
    /\ down' = [down EXCEPT ![issued + 1] = <<"Open">>]
    /\ handler' = [handler EXCEPT ![issued + 1] = "store"]
    /\ pc' = "open"
    /\ UNCHANGED <<asked, how, offer, handshake, upgradable, failures,
                   session, unread, failing, missed, polls, posts, up, client>>

ConnectFails ==
    /\ pc = "connect"
    /\ Fail("ws")
    /\ UNCHANGED <<server, wire, client>>

\* upgrade: the Pong of the probe is answered with the Upgrade packet, and the build is
\* done before the server has seen it.
ProbeAnswered ==
    /\ pc = "probe" /\ down[handshake] # <<>> /\ Head(down[handshake]) = "probe"
    /\ down' = [down EXCEPT ![handshake] = Tail(@)]
    /\ up' = [up EXCEPT ![handshake] = Append(@, "5")]
    /\ Built("ws", handshake)
    /\ UNCHANGED <<asked, how, offer, handshake, upgradable, failures, server, link>>

OpenReceived ==
    /\ pc = "open"
    /\ down' = [down EXCEPT ![issued] = <<>>]
    /\ handshake' = issued /\ upgradable' = FALSE
    /\ Built("ws", issued)
    /\ UNCHANGED <<asked, how, offer, failures, server, link, up>>

\* The websocket breaks during the handshake.
ProbeFails ==
    /\ pc \in {"probe", "open"}
    /\ link' = [link EXCEPT ![IF pc = "probe" THEN handshake ELSE issued] = "broken"]
    /\ Fail("ws")
    /\ UNCHANGED <<server, up, down, client>>

-----------------------------------------------------------------------------
(* The server's websocket handler *)

\* handle_probe: answer the first message ...
HandleProbe(s) ==
    /\ handler[s] = "probe" /\ up[s] # <<>>
    /\ up' = [up EXCEPT ![s] = Tail(@)]
    /\ down' = [down EXCEPT ![s] = IF Head(up[s]) = "probe" THEN Append(@, "probe") ELSE @]
    /\ handler' = [handler EXCEPT ![s] = "drain"]
    /\ UNCHANGED <<builder, issued, session, unread, failing, missed, polls, posts, link, client>>

\* ... send the session a Noop to release a GET, and wait for the next message.
DrainPolling(s) ==
    /\ handler[s] = "drain"
    /\ IF session[s] = "polling"
       THEN Len(polls[s]) < PollingBuffer /\ polls' = [polls EXCEPT ![s] = Append(@, "Noop")]
       ELSE UNCHANGED polls
    /\ handler' = [handler EXCEPT ![s] = "await5"]
    /\ UNCHANGED <<builder, issued, session, unread, failing, missed, posts, wire, client>>

\* "5": close_polling drops the handle ...
HandleUpgrade(s) ==
    /\ handler[s] = "await5" /\ up[s] # <<>> /\ Head(up[s]) = "5"
    /\ up' = [up EXCEPT ![s] = Tail(@)]
    /\ polls' = [polls EXCEPT ![s] = <<>>]
    /\ handler' = [handler EXCEPT ![s] = "swap"]
    /\ UNCHANGED <<builder, issued, session, unread, failing, missed, posts, link, down, client>>

\* ... which ends the old stream under the session's reader, if it looks now.
ReaderSeesEnd(s) ==
    /\ handler[s] = "swap" /\ session[s] = "polling" /\ s \notin unread
    /\ unread' = unread \cup {s}
    /\ UNCHANGED <<builder, issued, session, handler, failing, missed, polls, posts, wire, client>>

SwapNothing(s) ==
    /\ handler[s] = "swap"
    /\ handler' = [handler EXCEPT ![s] = "done"]
    /\ UNCHANGED <<builder, issued, session, unread, failing, missed, polls, posts, wire, client>>

\* store_transport of an upgrade: a session closed in the meantime drops the websocket.
Swap(s) ==
    /\ handler[s] = "swap"
    /\ session' = [session EXCEPT ![s] = IF @ = "polling" THEN "ws" ELSE @]
    /\ link' = [link EXCEPT ![s] = IF session[s] = "polling" THEN @ ELSE "broken"]
    /\ handler' = [handler EXCEPT ![s] = "done"]
    /\ UNCHANGED <<builder, issued, unread, failing, missed, polls, posts, up, down, client>>

\* store_transport of a websocket that opened its session.
Store(s) ==
    /\ handler[s] = "store"
    /\ session' = [session EXCEPT ![s] = "ws"]
    /\ handler' = [handler EXCEPT ![s] = "done"]
    /\ UNCHANGED <<builder, issued, unread, failing, missed, polls, posts, wire, client>>

\* The peer is gone: InvalidHandShake.
HandlerGivesUp(s) ==
    /\ handler[s] \in {"probe", "await5"} /\ up[s] = <<>> /\ link[s] = "broken"
    /\ handler' = [handler EXCEPT ![s] = "done"]
    /\ UNCHANGED <<builder, issued, session, unread, failing, missed, polls, posts, wire, client>>

-----------------------------------------------------------------------------
(* Pings *)

\* Where the session's packets for its client go, if there still is a way.
Deliver(s, p) ==
    IF session[s] = "polling"
    THEN /\ polls' = [polls EXCEPT ![s] = IF Len(@) < PollingBuffer /\ handler[s] # "swap"
                                         THEN Append(@, p) ELSE @]
         /\ UNCHANGED down
    ELSE /\ down' = [down EXCEPT ![s] = IF link[s] = "open" THEN Append(@, p) ELSE @]
         /\ UNCHANGED polls

\* What the client's stream will yield, and the server's.
Incoming == IF socket.transport = "ws" THEN down[socket.sid]
            ELSE IF got # <<>> THEN got ELSE polls[socket.sid]
Outgoing(s) == IF session[s] = "polling" THEN posts[s] ELSE up[s]

\* Nothing is on its way that somebody will take: a message, or a step of a task.
Settled(s) == /\ handler[s] \notin {"swap", "store"}
              /\ handler[s] \in {"probe", "drain", "await5"} => up[s] = <<>>
              /\ Outgoing(s) # <<>> => s \in unread
              /\ ~(pc = "probe" /\ handshake = s /\ down[s] # <<>>)
              /\ ~(pc = "built" /\ socket.sid = s)
              /\ ~(reader = "poll" /\ socket.sid = s /\ Incoming # <<>>)

\* start_ping_pong closes a session when a ping could not be sent, or when too many went
\* unanswered: the timeout is long compared with a message on its way.
Overdue(s) == s \in failing \/ (missed[s] = MissLimit /\ Settled(s))

\* The session has lost its way to the client: its handle, before an upgrade has swapped
\* the transport, or its websocket.
Unsendable(s) == \/ session[s] = "polling" /\ handler[s] = "swap"
                 \/ session[s] = "ws" /\ link[s] = "broken"

\* A ping or its answer is with somebody who will take it.
Has(q, p) == \E k \in DOMAIN q : q[k] = p
Pending(s) == \/ reader = "poll" /\ socket.sid = s /\ Has(Incoming, "Ping")
              \/ s \notin unread /\ Has(Outgoing(s), "Pong")

\* A tick may come at any time of a build or an upgrade; the interval is long compared
\* with a ping and its answer.  A full polling buffer stalls the task.
PingTick(s) ==
    /\ Alive(s) /\ s \notin failing /\ missed[s] < MissLimit /\ ~Unsendable(s) /\ ~Pending(s)
    /\ session[s] = "polling" => Len(polls[s]) < PollingBuffer
    /\ missed' = [missed EXCEPT ![s] = @ + 1]
    /\ Deliver(s, "Ping")
    /\ UNCHANGED <<builder, issued, session, handler, unread, failing, posts, link, up, client>>

\* A tick whose ping cannot be sent: the task leaves its loop, to close the session.
PingFails(s) ==
    /\ Alive(s) /\ s \notin failing /\ Unsendable(s)
    /\ failing' = failing \cup {s}
    /\ UNCHANGED <<builder, issued, session, handler, unread, missed, polls, posts, wire, client>>

\* close_socket: the session is gone, a Close packet goes out if it can, and with the
\* Socket its websocket.
CloseSession(s) ==
    /\ session' = [session EXCEPT ![s] = "closed"]
    /\ Deliver(s, "Close")
    /\ link' = [link EXCEPT ![s] = IF session[s] = "ws" THEN "broken" ELSE @]

PingForgives(s) ==
    /\ Alive(s) /\ Overdue(s)
    /\ missed' = [missed EXCEPT ![s] = 0] /\ failing' = failing \ {s}
    /\ UNCHANGED <<builder, issued, session, handler, unread, polls, posts, wire, client>>

PingTimeout(s) ==
    /\ Alive(s) /\ Overdue(s)
    /\ CloseSession(s)
    /\ UNCHANGED <<builder, issued, handler, unread, failing, missed, posts, up, client>>

\* The server's reader takes a packet; after a Close the owner closes the session.
ServerReads(s) ==
    /\ Alive(s) /\ s \notin unread /\ Outgoing(s) # <<>>
    /\ IF session[s] = "polling" THEN posts' = [posts EXCEPT ![s] = Tail(@)] /\ UNCHANGED up
       ELSE up' = [up EXCEPT ![s] = Tail(@)] /\ UNCHANGED posts
    /\ missed' = [missed EXCEPT ![s] = 0]
    /\ IF Head(Outgoing(s)) = "Close" THEN CloseSession(s)
       ELSE UNCHANGED <<session, link, polls, down>>
    /\ UNCHANGED <<builder, issued, handler, unread, failing, client>>

-----------------------------------------------------------------------------
(* The Socket *)

\* A packet of the client is on its way: polling_post ignores an unknown sid, a broken
\* websocket takes nothing.
Transmit(p) ==
    LET s == socket.sid IN
    IF socket.transport = "polling"
    THEN posts' = [posts EXCEPT ![s] = Append(@, p)] /\ UNCHANGED up
    ELSE /\ up' = [up EXCEPT ![s] = IF link[s] = "open" THEN Append(@, p) ELSE @]
         /\ UNCHANGED posts

\* Socket::connect: the flag, and the first Pong.
SocketConnect ==
    /\ pc = "built"
    /\ Transmit("Pong")
    /\ connected' = TRUE /\ reader' = "poll" /\ pc' = "user"
    /\ UNCHANGED <<asked, how, offer, handshake, upgradable, failures, issued, session,
                   handler, unread, failing, missed, polls, link, down, socket, got, lock, emits>>

\* The first Pong fails, though a POST may have arrived: nobody polls the Socket, whose
\* flag stays set.
SocketConnectFails ==
    /\ pc = "built" /\ (socket.transport = "ws" => link[socket.sid] = "broken")
    /\ Transmit("Pong") \/ UNCHANGED <<up, posts>>
    /\ connected' = TRUE /\ pc' = "user"
    /\ UNCHANGED <<asked, how, offer, handshake, upgradable, failures, issued, session, handler,
                   unread, failing, missed, polls, link, down, socket, got, reader, lock, emits>>

\* Socket::emit of a message, or of the Close packet of disconnect, holds the mutex until
\* it is sent: over polling, until the POST is answered.
EmitLocks(p) ==
    /\ pc = "user" /\ connected /\ emits < MaxEmit
    /\ lock' = p /\ pc' = "emit" /\ emits' = emits + 1
    /\ UNCHANGED <<asked, how, offer, handshake, upgradable, failures, server, wire,
                   socket, got, reader, connected>>

EmitKeepsLock ==
    /\ pc = "emit"
    /\ Transmit(lock)
    /\ pc' = "user"
    /\ UNCHANGED <<asked, how, offer, handshake, upgradable, failures, issued, session,
                   handler, unread, failing, missed, polls, link, down, client>>

EmitDone ==
    /\ pc = "emit"
    /\ Transmit(lock)
    /\ connected' = (connected /\ lock # "Close")
    /\ lock' = "free" /\ pc' = "user"
    /\ UNCHANGED <<asked, how, offer, handshake, upgradable, failures, issued, session,
                   handler, unread, failing, missed, polls, link, down, socket, got, reader, emits>>

\* The stream yields the next packet; a GET empties the session's buffer.
TakeIncoming ==
    IF socket.transport = "ws"
    THEN down' = [down EXCEPT ![socket.sid] = Tail(@)] /\ UNCHANGED <<got, polls>>
    ELSE /\ got' = Tail(Incoming)
         /\ polls' = IF got = <<>> THEN [polls EXCEPT ![socket.sid] = <<>>] ELSE polls
         /\ UNCHANGED down

\* handle_incoming_packet is polled once from poll_next: the Pong gets out only if that
\* takes no waiting, neither for the transport mutex nor for the answer to a POST; emit
\* fails at once on a Socket that is not connected.
PongsAtOnce == ~connected \/ (socket.transport = "ws" /\ lock = "free")

\* A Ping that is answered.
AnswerPing ==
    /\ reader = "poll" /\ Incoming # <<>> /\ Head(Incoming) = "Ping" /\ PongsAtOnce
    /\ TakeIncoming
    /\ IF connected THEN Transmit("Pong") ELSE UNCHANGED <<up, posts>>
    /\ UNCHANGED <<builder, issued, session, handler, unread, failing, missed, link,
                   socket, reader, connected, lock, emits>>

\* A Ping that is not: the packet and the stream's waker are dropped.
LosePing ==
    /\ reader = "poll" /\ Incoming # <<>> /\ Head(Incoming) = "Ping" /\ ~PongsAtOnce
    /\ reader' = "lost"
    /\ TakeIncoming
    /\ UNCHANGED <<builder, issued, session, handler, unread, failing, missed, posts, link, up,
                   socket, connected, lock, emits>>

\* A Noop, or a Close: handle_close clears the flag.
TakeOther ==
    /\ reader = "poll" /\ Incoming # <<>> /\ Head(Incoming) \in {"Noop", "Close"}
    /\ TakeIncoming
    /\ connected' = (connected /\ Head(Incoming) # "Close")
    /\ UNCHANGED <<builder, issued, session, handler, unread, failing, missed, posts, link, up,
                   socket, reader, lock, emits>>

\* The network takes the websocket away.
LinkBreaks ==
    /\ socket.transport = "ws" /\ link[socket.sid] = "open"
    /\ link' = [link EXCEPT ![socket.sid] = "broken"]
    /\ UNCHANGED <<builder, server, up, down, client>>

\* The stream ends with the websocket, or with the answer to a GET of a session that is
\* closed.
StreamEnds ==
    /\ reader = "poll" /\ Incoming = <<>>
    /\ IF socket.transport = "ws" THEN link[socket.sid] = "broken"
       ELSE session[socket.sid] = "closed"
    /\ reader' = "ended"
    /\ UNCHANGED <<builder, server, wire, socket, got, connected, lock, emits>>

-----------------------------------------------------------------------------
Build == \/ Handshake \/ HandshakeLost \/ HandshakeFails
         \/ DecideUpgrade \/ DecidePolling \/ IllegalUpgrade
         \/ ConnectProbe \/ ConnectDirect \/ ConnectFails
         \/ ProbeAnswered \/ OpenReceived \/ ProbeFails
Handle(s) == \/ HandleProbe(s) \/ DrainPolling(s) \/ HandleUpgrade(s)
             \/ Swap(s) \/ Store(s) \/ HandlerGivesUp(s)
Ping(s) == PingTick(s) \/ PingFails(s) \/ PingTimeout(s)
Poll == AnswerPing \/ LosePing \/ TakeOther \/ StreamEnds

Next ==
    \/ \E b \in Builds : Start(b)
    \/ Build \/ SocketConnect \/ SocketConnectFails \/ EmitDone \/ Poll \/ LinkBreaks
    \/ \E p \in {"Msg", "Close"} : EmitLocks(p)
    \/ \E s \in Sids : Handle(s) \/ ReaderSeesEnd(s) \/ Ping(s) \/ ServerReads(s)

Spec == Init /\ [][Next]_vars

\* Every task is polled while it can go on; the application polls the stream.
Fairness ==
    /\ WF_vars(Build) /\ WF_vars(SocketConnect \/ SocketConnectFails \/ EmitDone) /\ WF_vars(Poll)
    /\ \A s \in Sids : WF_vars(Handle(s)) /\ WF_vars(Ping(s)) /\ WF_vars(ServerReads(s))

FairSpec == Spec /\ Fairness

-----------------------------------------------------------------------------
(* Properties *)

\* Every variable has its type: the mutex is held exactly while an emit is under way, and
\* the built Socket is on the session of its handshake (SocketBuilder, Socket::emit).
TypeOK ==
    /\ asked \in Builds \cup {"none"} /\ how \in Builds \cup {"none", "polling"}
    /\ pc \in {"start", "handshake", "decide", "connect", "probe", "open", "built",
               "user", "emit", "failed"}
    /\ handshake \in 0..issued /\ issued \in 0..MaxSid
    /\ socket.sid = handshake \/ socket = NoSocket
    /\ lock \in {"free", "Msg", "Close"} /\ (lock = "free" <=> pc # "emit")
    /\ \A s \in Sids : /\ session[s] \in {"none", "polling", "ws", "closed"}
                       /\ missed[s] \in 0..MissLimit
                       /\ Len(polls[s]) <= PollingBuffer
                       /\ session[s] # "none" => s <= issued

\* A build opens one session, and only one that falls back a second one: the websocket
\* of an upgrade joins the session of the handshake, it does not open another
\* (parse_request_type, handle_http).
OneSessionPerBuild == issued <= IF asked = "fallback" THEN 2 ELSE 1

\* "websocket errors suppressed": build_with_fallback gives up only when HTTP fails too.
FallbackSurvivesWebsocket == asked = "fallback" /\ pc = "failed" => "http" \in failures

\* Somebody reads the session's packets on either side: the application polls the Socket,
\* which is connected, and the server's reader has not taken an upgrade for the stream's end.
Served(s) == socket.sid = s /\ reader = "poll" /\ connected /\ s \notin unread

\* The server does not close a session that is read on both sides: after a build the two
\* agree on the transport the pings take.  The two exceptions are a websocket that breaks
\* and a ping that fell between close_polling and the swap of an upgrade.
ServedStays ==
    [][\A s \in Sids : Served(s) /\ Alive(s)
                         => Alive(s)' \/ link[s] = "broken" \/ s \in failing]_vars

\* A session that its client does not know, has given up, or does not hear any more does
\* not stay for ever, unless its polling buffer is full for good.
ServedOrReaped ==
    \A s \in Sids : <>[](Len(polls[s]) = PollingBuffer) \/ []<>(~Alive(s) \/ Served(s))

-----------------------------------------------------------------------------
(* The inductive invariant behind these properties *)

\* Packets and messages, and the queues they are in.
Packet == {"Open", "Ping", "Pong", "Msg", "Close", "Noop", "probe", "5"}

Shape ==
    /\ upgradable \in BOOLEAN /\ connected \in BOOLEAN /\ offer \in BOOLEAN /\ emits \in Nat
    /\ unread \subseteq Sids /\ failing \subseteq Sids /\ failures \subseteq {"http", "ws"}
    /\ session \in [Sids -> {"none", "polling", "ws", "closed"}]
    /\ handler \in [Sids -> {"none", "probe", "drain", "await5", "swap", "store", "done"}]
    /\ link \in [Sids -> {"none", "open", "broken"}]
    /\ missed \in [Sids -> Nat]
    /\ polls \in [Sids -> Seq(Packet)] /\ posts \in [Sids -> Seq(Packet)]
    /\ up \in [Sids -> Seq(Packet)] /\ down \in [Sids -> Seq(Packet)]
    /\ got \in Seq(Packet) /\ reader \in {"off", "poll", "lost", "ended"}
    /\ socket \in [transport : {"none", "polling", "ws"}, sid : 0..MaxSid]

\* How far a build has come: what it has asked the server for, and what it knows.
Finished == pc \in {"built", "user", "emit"}
Budget   == IF how = asked THEN 1 ELSE 2
Course ==
    /\ how = asked \/ (asked = "fallback" /\ how = "polling")
    /\ (asked = "none" <=> pc = "start") /\ (pc = "start" => issued = 0)
    /\ how = "polling" => pc \notin {"connect", "probe", "open"}
    /\ how = "websocket" => pc \notin {"handshake", "decide", "probe"}
    /\ issued <= Budget
    /\ pc \in {"start", "handshake"} => issued < Budget /\ handshake = NoSid
    /\ pc = "connect" /\ how = "websocket" => issued = 0 /\ handshake = NoSid
    /\ pc = "open" => how = "websocket" /\ issued = 1 /\ handshake = NoSid
    /\ pc \in {"decide", "probe"} \/ (pc = "connect" /\ how # "websocket") \/ Finished
         => handshake = issued /\ issued # 0

\* There is a Socket when the build is through, and it is used only then.
SocketIsBuilt ==
    /\ IF Finished THEN socket.transport \in {"polling", "ws"} /\ socket.sid = handshake
                   ELSE socket = NoSocket
    /\ pc \notin {"user", "emit"} => reader = "off" /\ ~connected

\* The server knows what it has issued, and nothing else.
OnlyIssued ==
    \A s \in Sids : s > issued => /\ session[s] = "none" /\ handler[s] = "none"
                                  /\ link[s] = "none" /\ down[s] = <<>>

\* The session of the handshake before its websocket, while it is probed, and while a
\* websocket opens one.
Before(s)  == /\ session[s] \in {"polling", "closed"} /\ handler[s] = "none"
              /\ link[s] = "none" /\ down[s] = <<>>
Probing(s) == /\ session[s] \in {"polling", "closed"} /\ link[s] = "open"
              /\ \/ handler[s] = "probe" /\ up[s] = <<"probe">> /\ down[s] = <<>>
                 \/ handler[s] \in {"drain", "await5"} /\ up[s] = <<>>
Opening(s) == \/ link[s] = "broken"
              \/ link[s] = "open" /\ handler[s] = "store" /\ session[s] = "none"
              \/ link[s] = "open" /\ handler[s] = "done" /\ session[s] = "ws"

\* A built websocket: the server has the Upgrade packet before the Socket's first Pong, and
\* swaps the session's transport between the two.
OnWebsocket(s) ==
    \/ link[s] = "broken"
    \/ link[s] = "open" /\ session[s] \in {"polling", "closed"}
       /\ handler[s] \in {"drain", "await5"} /\ up[s] # <<>> /\ Head(up[s]) = "5"
       /\ (pc # "built" => Tail(up[s]) # <<>>)
    \/ link[s] = "open" /\ session[s] \in {"polling", "closed"}
       /\ handler[s] = "swap" /\ (pc # "built" => up[s] # <<>>)
    \/ link[s] = "open" /\ session[s] = "none"
       /\ handler[s] = "store" /\ (pc # "built" => up[s] # <<>>)
    \/ link[s] = "open" /\ handler[s] = "done" /\ session[s] = "ws"

\* Both sides of a session are on the same transport, or on their way there.
Agreed ==
    /\ pc = "decide" \/ (pc = "connect" /\ how # "websocket") => Before(handshake)
    /\ pc = "probe" => Probing(handshake)
    /\ pc = "open" => Opening(issued)
    /\ Finished /\ socket.transport = "polling" => Before(handshake)
    /\ Finished /\ socket.transport = "ws" => OnWebsocket(handshake)

\* A client that is served answers: its Pong or the Ping it will answer is on the way.
Answering ==
    \A s \in Sids : Served(s) /\ Alive(s) /\ link[s] # "broken" /\ missed[s] > 0 =>
      IF socket.transport = "ws" THEN up[s] # <<>> \/ Has(down[s], "Ping")
      ELSE posts[s] # <<>> \/ Has(got, "Ping") \/ Has(polls[s], "Ping")

\* The client sends Close with its flag cleared (disconnect).
CloseIsLast ==
    \A s \in Sids : Has(up[s], "Close") \/ Has(posts[s], "Close")
                      => pc \in {"user", "emit"} /\ ~connected

\* The invariant that every step keeps.
IInv == /\ TypeOK /\ Shape /\ Course /\ SocketIsBuilt /\ OnlyIssued /\ Agreed
        /\ Answering /\ CloseIsLast /\ FallbackSurvivesWebsocket
=============================================================================
