---------------------------- MODULE EngineServer ----------------------------
(***************************************************************************)
(* The Engine.IO server: sessions, the tasks that serve them, and the      *)
(* bounded event channel through which their owner (the event loop of the  *)
(* Socket.IO server) learns of them.                                       *)
(*                                                                         *)
(* A step is what a task does between two points where another task can    *)
(* interfere: an `.await` that may suspend, or a read of shared state.     *)
(* Every session s has the tasks of Task; pc[s][t] is where task t of s    *)
(* stands and pkt[s][t] the packet it is sending.                          *)
(***************************************************************************)
EXTENDS Naturals, Sequences

CONSTANTS
    Sid,            \* session ids; SidGenerator hands each out once
    EventSize,      \* capacity of the event channel (ServerBuilder.event_size)
    PollingBuffer,  \* capacity of both polling channels of a session
    MissLimit,      \* ping ticks without a packet that make last_pong too old
    Shard,          \* shard of a session id in the DashMaps sockets, polling_handles
    Transports,     \* transports a session's client may open it with
    ClientSends,    \* packets it may send
    Polls,          \* sessions whose client may poll for packets
    AppSends,       \* what the application does with a session
    Upgrading       \* sessions whose client may try to upgrade from polling

Task     == {"open", "ping", "reader", "loop", "timer", "app", "up", "get", "post"}
NoTask   == "none"
Closers  == {"ping", "loop", "timer"}
Emitters == Closers \cup {"app", "up"}

\* Packets from the client.  "Bad" is a payload that does not parse.
In  == {"Pong", "Msg", "Close", "Bad"}
\* Packets to the client.  "Multi" is the header of an emit_multi whose second
\* packet is "Attach"; "Bye" is the Socket.IO Disconnect packet.
Out == {"Ping", "Close", "Noop", "Msg", "Multi", "Attach", "Bye"}

ASSUME SidAssumption    == Sid # {}
ASSUME SizeAssumption   == /\ EventSize \in Nat \ {0}
                           /\ PollingBuffer \in Nat \ {0}
                           /\ MissLimit \in Nat \ {0}
ASSUME ShardAssumption  == Shard \in [Sid -> Nat]
ASSUME ClientAssumption == /\ Transports \in [Sid -> SUBSET {"polling", "ws"}]
                           /\ ClientSends \in [Sid -> SUBSET In]
                           /\ AppSends \in [Sid -> SUBSET {"Msg", "Multi", "Bye"}]
                           /\ Polls \subseteq Sid /\ Upgrading \subseteq Sid

VARIABLES
    events,     \* the event channel
    told,       \* what the event loop has heard of each session (history)
    sockets,    \* ServerInner.sockets: the registered sessions
    handles,    \* ServerInner.polling_handles
    connected,  \* sessions whose Socket.connected is true
    transport,  \* Socket.transport
    generator,  \* Socket.generator: the transport its stream reads
    holder,     \* the task that holds the transport mutex
    missed,     \* ping ticks since last_pong was set
    sendq,      \* polling: packets waiting for a GET
    recvq,      \* polling: POSTed packets waiting for the reader
    wsq,        \* websocket: packets waiting for the reader
    wsUp,       \* sessions with a websocket whose peer is there
    pc, pkt

chan == <<events, told>>
sess == <<connected, transport, generator, missed>>
wire == <<sendq, recvq, wsq, wsUp>>
vars == <<events, told, sockets, handles, connected, transport, generator,
          holder, missed, sendq, recvq, wsq, wsUp, pc, pkt>>

WsBuffer == 1   \* bound: packets of one websocket the reader has not taken

OpenPc    == {"off", "onopen", "insert", "done"}
EmitPc    == {"emit", "lock", "send", "refused", "failed"}
ClosePc   == {"remove", "disc", "onclose", "clear"}
UpgradePc == {"await5", "getmut", "swap", "gen", "gen2"}
\* Inside handle_incoming_packet; a packet's name: with that packet, before OnPacket.
HandlePc  == {"Pong", "Msg", "Close", "data", "close", "rclear"}
\* A POST waits with its body in the send to the reader.
PostPc    == In
Label     == OpenPc \cup EmitPc \cup ClosePc \cup UpgradePc \cup HandlePc \cup PostPc
               \cup {"idle", "tick", "check", "armed", "wait", "poll", "lost", "ended"}

Ev(k, s) == [kind |-> k, sid |-> s]
\* "other" stands for OnPacket, OnData and OnError, which the event loop ignores.
Event == [kind : {"OnOpen", "OnClose", "other"}, sid : Sid]

Start(t) == IF t \in {"loop", "app", "up", "get", "post"} THEN "idle" ELSE "off"

Init ==
    /\ events = <<>>
    /\ told = [s \in Sid |-> "new"]
    /\ sockets = {} /\ handles = {} /\ connected = {} /\ wsUp = {}
    /\ transport = [s \in Sid |-> "none"]
    /\ generator = [s \in Sid |-> "none"]
    /\ holder = [s \in Sid |-> NoTask]
    /\ missed = [s \in Sid |-> 0]
    /\ sendq = [s \in Sid |-> <<>>]
    /\ recvq = [s \in Sid |-> <<>>]
    /\ wsq = [s \in Sid |-> <<>>]
    /\ pc = [s \in Sid |-> [t \in Task |-> Start(t)]]
    /\ pkt = [s \in Sid |-> [t \in Emitters |-> "Msg"]]

-----------------------------------------------------------------------------
(* Helpers *)

At(s, t, l)   == pc[s][t] = l
Goto(s, t, l) == pc' = [pc EXCEPT ![s][t] = l]

NotifyUnbounded(e) == events' = Append(events, e)

\* event_tx.send(e).await: a full channel suspends the sender.
Notify(e) == Len(events) < EventSize /\ events' = Append(events, e)

\* DashMap guards that live across an await.  Server::emit keeps the read guard
\* of sockets while the ping packet is sent, store_transport the write guard
\* while the socket is upgraded, polling_post the write guard of polling_handles
\* while the body is queued.
ReadsSockets(s)  == pc[s]["ping"] \in EmitPc /\ pkt[s]["ping"] = "Ping"
WritesSockets(s) == pc[s]["up"] \in {"swap", "gen", "gen2"}
CanRead(s)       == \A u \in Sid : Shard[u] = Shard[s] => ~WritesSockets(u)
CanWrite(s)      == \A u \in Sid : Shard[u] = Shard[s]
                                     => ~WritesSockets(u) /\ ~ReadsSockets(u)
CanUseHandles(s) == \A u \in Sid : Shard[u] = Shard[s] => At(u, "post", "idle")

\* The receiving half of the polling send channel is in polling_handles, and in
\* the clone a GET in progress made of it.
RxAlive(s) == s \in handles \/ At(s, "get", "wait")

\* No clone of the Socket is left: not in sockets, not in a task.  An application that
\* keeps a Socket.IO client of an ended session keeps such a clone; it is left out.
Dropped(s) == /\ At(s, "open", "done") /\ s \notin sockets
              /\ pc[s]["reader"] \in {"off", "ended"}
              /\ \A t \in Emitters : pc[s][t] \in {"idle", "done", "off", "await5", "getmut"}

-----------------------------------------------------------------------------
(* Opening a session *)

OpenRegisters(s, tr) ==
    /\ At(s, "open", "off")
    /\ handles' = handles \cup {s}
    /\ transport' = [transport EXCEPT ![s] = tr]
    /\ generator' = [generator EXCEPT ![s] = tr]
    /\ connected' = connected \cup {s}
    /\ sockets' = sockets \cup {s}
    /\ pc' = [pc EXCEPT ![s]["open"] = "onopen", ![s]["ping"] = "tick"]
    /\ UNCHANGED <<events, told, holder, missed, sendq, recvq, wsq, wsUp, pkt>>

\* Polling::handle (PollingOpen), Websocket::handle without a sid: a fresh sid,
\* its channels or its websocket, Socket::new, and connect up to its first await.
OpenSession(s, tr) ==
    /\ At(s, "open", "off") /\ (tr = "polling" => CanUseHandles(s))
    /\ handles' = IF tr = "polling" THEN handles \cup {s} ELSE handles
    /\ wsUp' = IF tr = "ws" THEN wsUp \cup {s} ELSE wsUp
    /\ transport' = [transport EXCEPT ![s] = tr]
    /\ generator' = [generator EXCEPT ![s] = tr]
    /\ connected' = connected \cup {s}
    /\ Goto(s, "open", "onopen")
    /\ UNCHANGED <<events, told, sockets, holder, missed, sendq, recvq, wsq, pkt>>

\* A websocket peer that goes away before it is sent the Open packet costs a sid.
OpenFails(s) ==
    /\ "ws" \in Transports[s] /\ At(s, "open", "off")
    /\ Goto(s, "open", "done")
    /\ UNCHANGED <<chan, sess, wire, sockets, handles, holder, pkt>>

\* Socket::connect tells the event loop ...
SendOnOpen(s) ==
    /\ At(s, "open", "onopen")
    /\ Notify(Ev("OnOpen", s))
    /\ Goto(s, "open", "insert")
    /\ UNCHANGED <<told, sess, wire, sockets, handles, holder, pkt>>

\* ... before store_transport registers the socket and starts its ping task.
Register(s) ==
    /\ At(s, "open", "insert") /\ CanWrite(s)
    /\ sockets' = sockets \cup {s}
    /\ pc' = [pc EXCEPT ![s]["open"] = "done", ![s]["ping"] = "tick"]
    /\ UNCHANGED <<chan, sess, wire, handles, holder, pkt>>

-----------------------------------------------------------------------------
(* Socket::emit and Socket::emit_multi, as every caller runs them *)

Rest(t) == IF t \in {"loop", "app"} THEN "idle" ELSE "done"

\* Where the caller of emit(p) goes on after Ok: the ping task checks last_pong,
\* disconnect clears `connected`, handle_probe waits for the client's "5", the
\* application's disconnect goes on to the engine's.
AfterSend(t, p) == CASE p = "Ping"  -> "check"
                     [] p = "Close" -> "clear"
                     [] p = "Noop"  -> "await5"
                     [] p = "Bye"   -> "disc"
                     [] OTHER       -> Rest(t)

AfterErrorForgets(t, p) == IF p = "Noop" THEN "await5" ELSE Rest(t)

\* And after Err: the ping task closes the session, handle_probe ignores the result,
\* everyone else gives up (`?`).
AfterError(t, p) == CASE p = "Ping" -> "remove"
                      [] p = "Noop" -> "await5"
                      [] OTHER      -> Rest(t)

EmitCheck(s, t) ==
    /\ At(s, t, "emit")
    /\ Goto(s, t, IF s \in connected THEN "lock" ELSE "refused")
    /\ UNCHANGED <<chan, sess, wire, sockets, handles, holder, pkt>>

EmitLock(s, t) ==
    /\ At(s, t, "lock") /\ holder[s] = NoTask
    /\ holder' = [holder EXCEPT ![s] = t]
    /\ Goto(s, t, "send")
    /\ UNCHANGED <<chan, sess, wire, sockets, handles, pkt>>

\* A polling transport queues the packet and suspends while the queue is full; a
\* websocket may suspend for as long as its peer does not read (see Fairness).
CanSend(s) == \/ transport[s] = "polling" /\ RxAlive(s) /\ Len(sendq[s]) < PollingBuffer
              \/ transport[s] = "ws" /\ s \in wsUp
SendFails(s) == \/ transport[s] = "polling" /\ ~RxAlive(s)
                \/ transport[s] = "ws" /\ s \notin wsUp

KeepsNoLock(p) == FALSE
KeepsEveryLock(p) == TRUE

\* emit_multi keeps the mutex from its first packet to its last.
KeepsLock(p) == p = "Multi"

EmitSend(s, t) ==
    /\ At(s, t, "send") /\ CanSend(s)
    /\ sendq' = IF transport[s] = "polling"
                THEN [sendq EXCEPT ![s] = Append(@, pkt[s][t])] ELSE sendq
    /\ IF pkt[s][t] = "Multi"
       THEN pkt' = [pkt EXCEPT ![s][t] = "Attach"] /\ UNCHANGED pc
       ELSE Goto(s, t, AfterSend(t, pkt[s][t])) /\ UNCHANGED pkt
    /\ holder' = IF KeepsLock(pkt[s][t]) THEN holder ELSE [holder EXCEPT ![s] = NoTask]
    /\ UNCHANGED <<chan, sess, recvq, wsq, wsUp, sockets, handles>>

EmitFail(s, t) ==
    /\ At(s, t, "send") /\ SendFails(s)
    /\ Goto(s, t, "failed")
    /\ UNCHANGED <<chan, sess, wire, sockets, handles, holder, pkt>>

\* on_error, then Err to the caller.  After a failed send it runs under the mutex.
OnError(s, t) ==
    /\ pc[s][t] \in {"refused", "failed"}
    /\ Notify(Ev("other", s))
    /\ holder' = IF At(s, t, "failed") THEN [holder EXCEPT ![s] = NoTask] ELSE holder
    /\ Goto(s, t, AfterError(t, pkt[s][t]))
    /\ UNCHANGED <<told, sess, wire, sockets, handles, pkt>>

-----------------------------------------------------------------------------
(* Closing a session: Server::close_socket and Socket::disconnect *)

RemoveNothing(s, t) ==
    /\ At(s, t, "remove") /\ CanRead(s)
    /\ Goto(s, t, IF s \in sockets THEN "disc" ELSE Rest(t))
    /\ UNCHANGED <<chan, sess, wire, sockets, handles, holder, pkt>>

\* close_socket: whoever takes the socket out of the map disconnects it.
Remove(s, t) ==
    /\ At(s, t, "remove") /\ CanWrite(s)
    /\ sockets' = sockets \ {s}
    /\ Goto(s, t, IF s \in sockets THEN "disc" ELSE Rest(t))
    /\ UNCHANGED <<chan, sess, wire, handles, holder, pkt>>

Disconnect(s, t) ==
    /\ At(s, t, "disc")
    /\ Goto(s, t, IF s \in connected THEN "onclose" ELSE Rest(t))
    /\ UNCHANGED <<chan, sess, wire, sockets, handles, holder, pkt>>

SendOnClose(s, t) ==
    /\ At(s, t, "onclose")
    /\ Notify(Ev("OnClose", s))
    /\ Goto(s, t, "emit")
    /\ pkt' = [pkt EXCEPT ![s][t] = "Close"]
    /\ UNCHANGED <<told, sess, wire, sockets, handles, holder>>

ClearConnected(s, t) ==
    /\ At(s, t, "clear")
    /\ connected' = connected \ {s}
    /\ Goto(s, t, Rest(t))
    /\ UNCHANGED <<chan, transport, generator, missed, wire, sockets, handles, holder, pkt>>

-----------------------------------------------------------------------------
(* The ping task *)

PingTick(s) ==
    /\ At(s, "ping", "tick") /\ CanRead(s)
    /\ missed' = [missed EXCEPT ![s] = IF @ < MissLimit THEN @ + 1 ELSE @]
    /\ IF s \in sockets
       THEN Goto(s, "ping", "emit") /\ pkt' = [pkt EXCEPT ![s]["ping"] = "Ping"]
       ELSE Goto(s, "ping", "check") /\ UNCHANGED pkt
    /\ UNCHANGED <<chan, connected, transport, generator, wire, sockets, handles, holder>>

PingChecksNothing(s) ==
    /\ At(s, "ping", "check") /\ CanRead(s)
    /\ Goto(s, "ping", IF s \in sockets THEN "tick" ELSE "remove")
    /\ UNCHANGED <<chan, sess, wire, sockets, handles, holder, pkt>>

PingCheck(s) ==
    /\ At(s, "ping", "check") /\ CanRead(s)
    /\ Goto(s, "ping", IF s \in sockets /\ missed[s] < MissLimit THEN "tick" ELSE "remove")
    /\ UNCHANGED <<chan, sess, wire, sockets, handles, holder, pkt>>

-----------------------------------------------------------------------------
(* The event loop (Server::recv_event of socketio) and the connect timeout *)

LoopIdle == \A u \in Sid : At(u, "loop", "idle")

\* create_client looks the socket up; without one it silently does nothing.
RecvOpen(s) ==
    /\ LoopIdle /\ events # <<>> /\ Head(events) = Ev("OnOpen", s) /\ CanRead(s)
    /\ events' = Tail(events)
    /\ told' = [told EXCEPT ![s] = IF @ = "new" THEN "open" ELSE "reopened"]
    /\ pc' = IF s \in sockets
             THEN [pc EXCEPT ![s]["reader"] = "poll", ![s]["timer"] = "armed"] ELSE pc
    /\ UNCHANGED <<sess, wire, sockets, handles, holder, pkt>>

\* drop_client runs in the loop: no other event is taken until it has returned.
RecvClose(s) ==
    /\ LoopIdle /\ events # <<>> /\ Head(events) = Ev("OnClose", s)
    /\ events' = Tail(events)
    /\ told' = [told EXCEPT ![s] = "closed"]
    /\ Goto(s, "loop", "remove")
    /\ UNCHANGED <<sess, wire, sockets, handles, holder, pkt>>

RecvOther(s) ==
    /\ LoopIdle /\ events # <<>> /\ Head(events) = Ev("other", s)
    /\ events' = Tail(events)
    /\ UNCHANGED <<told, sess, wire, sockets, handles, holder, pc, pkt>>

\* The five seconds for a Connect packet: it came (or the stream ended) ...
TimerStops(s) ==
    /\ At(s, "timer", "armed")
    /\ Goto(s, "timer", "done")
    /\ UNCHANGED <<chan, sess, wire, sockets, handles, holder, pkt>>

\* ... or they elapsed.  The cancelled future is the reader itself, or, once
\* insert_clients has spawned the poll task, only its caller.
TimerFires(s) ==
    /\ At(s, "timer", "armed")
    /\ \E r \in {pc[s]["reader"]} \cup (IF pc[s]["reader"] \in {"poll", "lost"}
                                       THEN {"ended"} ELSE {}) :
          pc' = [pc EXCEPT ![s]["timer"] = "remove", ![s]["reader"] = r]
    /\ UNCHANGED <<chan, sess, wire, sockets, handles, holder, pkt>>

-----------------------------------------------------------------------------
(* The reader: Stream for Socket, polled by the owner of the session *)

Queue(s) == IF generator[s] = "polling" THEN recvq[s] ELSE wsq[s]

\* poll_next takes the next packet.  The generator mutex is only ever tried: when
\* upgrade holds it, the lock future is dropped, and with it the task's waker.
ReaderTake(s) ==
    /\ At(s, "reader", "poll") /\ ~At(s, "up", "gen2") /\ Queue(s) # <<>>
    /\ Goto(s, "reader", IF Head(Queue(s)) = "Bad" THEN "ended" ELSE Head(Queue(s)))
    /\ recvq' = IF generator[s] = "polling" THEN [recvq EXCEPT ![s] = Tail(@)] ELSE recvq
    /\ wsq' = IF generator[s] = "polling" THEN wsq ELSE [wsq EXCEPT ![s] = Tail(@)]
    /\ UNCHANGED <<chan, sess, sendq, wsUp, sockets, handles, holder, pkt>>

ReaderMissesLock(s) ==
    /\ At(s, "reader", "poll") /\ At(s, "up", "gen2")
    /\ Goto(s, "reader", "lost")
    /\ UNCHANGED <<chan, sess, wire, sockets, handles, holder, pkt>>

\* The stream of a transport ends when its sending half is gone.
ReaderEnds(s) ==
    /\ At(s, "reader", "poll") /\ ~At(s, "up", "gen2") /\ Queue(s) = <<>>
    /\ IF generator[s] = "polling" THEN ~RxAlive(s) ELSE s \notin wsUp
    /\ Goto(s, "reader", "ended")
    /\ UNCHANGED <<chan, sess, wire, sockets, handles, holder, pkt>>

\* handle_incoming_packet is polled once: a send that would have to wait is
\* cancelled, the packet is dropped and nothing will wake the task.
Full == Len(events) >= EventSize

MaySend(s) == \/ pc[s]["reader"] \in {"Pong", "Msg", "Close", "data"}
              \/ At(s, "reader", "close") /\ s \in connected

ReaderGivesUp(s) ==
    /\ MaySend(s)
    /\ Full
    /\ missed' = IF pc[s]["reader"] \in In THEN [missed EXCEPT ![s] = 0] ELSE missed
    /\ Goto(s, "reader", "lost")
    /\ UNCHANGED <<chan, connected, transport, generator, wire, sockets, handles, holder, pkt>>

\* The same when the task has used up its cooperative budget, but tokio wakes it.
ReaderYields(s) ==
    /\ MaySend(s)
    /\ missed' \in {missed} \cup (IF pc[s]["reader"] \in In
                                THEN {[missed EXCEPT ![s] = 0]} ELSE {})
    /\ Goto(s, "reader", "poll")
    /\ UNCHANGED <<chan, connected, transport, generator, wire, sockets, handles, holder, pkt>>

\* A message goes on to handle_data, a Close to handle_close.
AfterPacket(p) == CASE p = "Msg"   -> "data"
                    [] p = "Close" -> "close"
                    [] OTHER       -> "poll"

\* ponged, then OnPacket.
ReaderPacket(s) ==
    /\ pc[s]["reader"] \in In
    /\ missed' = [missed EXCEPT ![s] = 0]
    /\ Notify(Ev("other", s))
    /\ Goto(s, "reader", AfterPacket(pc[s]["reader"]))
    /\ UNCHANGED <<told, connected, transport, generator, wire, sockets, handles, holder, pkt>>

ReaderData(s) ==
    /\ At(s, "reader", "data")
    /\ Notify(Ev("other", s))
    /\ Goto(s, "reader", "poll")
    /\ UNCHANGED <<told, sess, wire, sockets, handles, holder, pkt>>

\* handle_close: nothing to do when the session is already closed ...
ReaderSkipsClose(s) ==
    /\ At(s, "reader", "close") /\ s \notin connected
    /\ Goto(s, "reader", "poll")
    /\ UNCHANGED <<chan, sess, wire, sockets, handles, holder, pkt>>

\* ... or OnClose, and then `connected` is cleared.
ReaderClose(s) ==
    /\ At(s, "reader", "close") /\ s \in connected
    /\ Notify(Ev("OnClose", s))
    /\ Goto(s, "reader", "rclear")
    /\ UNCHANGED <<told, sess, wire, sockets, handles, holder, pkt>>

ReaderClear(s) ==
    /\ At(s, "reader", "rclear")
    /\ connected' = connected \ {s}
    /\ Goto(s, "reader", "poll")
    /\ UNCHANGED <<chan, transport, generator, missed, wire, sockets, handles, holder, pkt>>

-----------------------------------------------------------------------------
(* The upgrade from polling to websocket: handle_probe and store_transport *)

\* Accept the websocket, read the first message (the probe or whatever it is),
\* and look the session up to send it a Noop.
Probe(s) ==
    /\ s \in Upgrading
    /\ At(s, "up", "idle") /\ At(s, "open", "done") /\ transport[s] = "polling" /\ CanRead(s)
    /\ wsUp' = wsUp \cup {s}
    /\ Goto(s, "up", IF s \in sockets THEN "emit" ELSE "await5")
    /\ pkt' = [pkt EXCEPT ![s]["up"] = "Noop"]
    /\ UNCHANGED <<chan, sess, sendq, recvq, wsq, sockets, handles, holder>>

\* "5": close_polling drops the handle, and with it, unless a GET holds a clone,
\* whatever is still queued for the client.
Upgraded(s) ==
    /\ At(s, "up", "await5") /\ CanUseHandles(s)
    /\ handles' = handles \ {s}
    /\ sendq' = IF At(s, "get", "wait") THEN sendq ELSE [sendq EXCEPT ![s] = <<>>]
    /\ Goto(s, "up", "getmut")
    /\ UNCHANGED <<chan, sess, recvq, wsq, wsUp, sockets, holder, pkt>>

\* Anything else, or the end of the websocket, is an InvalidHandShake.
UpgradeAborts(s) ==
    /\ At(s, "up", "await5")
    /\ wsUp' = wsUp \ {s}
    /\ Goto(s, "up", "idle")
    /\ UNCHANGED <<chan, sess, sendq, recvq, wsq, sockets, handles, holder, pkt>>

\* sockets.get_mut: a session closed in the meantime is not brought back.
UpgradeLookup(s) ==
    /\ At(s, "up", "getmut") /\ CanWrite(s)
    /\ Goto(s, "up", IF s \in sockets THEN "swap" ELSE "done")
    /\ wsUp' = IF s \in sockets THEN wsUp ELSE wsUp \ {s}
    /\ UNCHANGED <<chan, sess, sendq, recvq, wsq, sockets, handles, holder, pkt>>

\* Socket::upgrade: the transport under its mutex, then the generator under its own.
UpgradeTransport(s) ==
    /\ At(s, "up", "swap") /\ holder[s] = NoTask
    /\ holder' = [holder EXCEPT ![s] = "up"]
    /\ transport' = [transport EXCEPT ![s] = "ws"]
    /\ Goto(s, "up", "gen")
    /\ UNCHANGED <<chan, connected, generator, missed, wire, sockets, handles, pkt>>

UpgradeLockGenerator(s) ==
    /\ At(s, "up", "gen") /\ pc[s]["reader"] \notin HandlePc
    /\ Goto(s, "up", "gen2")
    /\ UNCHANGED <<chan, sess, wire, sockets, handles, holder, pkt>>

\* The old stream goes, and with it what it had not yet read.
UpgradeGenerator(s) ==
    /\ At(s, "up", "gen2")
    /\ generator' = [generator EXCEPT ![s] = "ws"]
    /\ recvq' = [recvq EXCEPT ![s] = <<>>]
    /\ holder' = [holder EXCEPT ![s] = NoTask]
    /\ Goto(s, "up", "done")
    /\ UNCHANGED <<chan, connected, transport, missed, sendq, wsq, wsUp, sockets, handles, pkt>>

-----------------------------------------------------------------------------
(* The application, through a Socket.IO client of the session *)

\* RawSocket::send: checked for `connected` before emit checks again.
AppSend(s, p) ==
    /\ At(s, "app", "idle") /\ pc[s]["reader"] # "off" /\ s \in connected
    /\ pkt' = [pkt EXCEPT ![s]["app"] = p]
    /\ Goto(s, "app", "emit")
    /\ UNCHANGED <<chan, sess, wire, sockets, handles, holder>>

-----------------------------------------------------------------------------
(* The client's requests: polling_get, polling_post, the websocket *)

GetStart(s) ==
    /\ s \in Polls /\ At(s, "get", "idle") /\ At(s, "open", "done")
    /\ s \in handles /\ CanUseHandles(s)
    /\ Goto(s, "get", "wait")
    /\ UNCHANGED <<chan, sess, wire, sockets, handles, holder, pkt>>

\* recv waits for the first packet, try_recv takes the others.
GetReturns(s) ==
    /\ At(s, "get", "wait")
    /\ sendq[s] # <<>> \/ Dropped(s) \/ generator[s] = "ws"
    /\ sendq' = [sendq EXCEPT ![s] = <<>>]
    /\ Goto(s, "get", "idle")
    /\ UNCHANGED <<chan, sess, recvq, wsq, wsUp, sockets, handles, holder, pkt>>

PostStart(s, p) ==
    /\ At(s, "post", "idle") /\ At(s, "open", "done")
    /\ s \in handles /\ CanUseHandles(s)
    /\ Goto(s, "post", p)
    /\ UNCHANGED <<chan, sess, wire, sockets, handles, holder, pkt>>

PostRetries(s) ==
    /\ ~At(s, "post", "idle")
    /\ Len(recvq[s]) < PollingBuffer
    /\ recvq' = [recvq EXCEPT ![s] = Append(@, pc[s]["post"])]
    /\ Goto(s, "post", "idle")
    /\ UNCHANGED <<chan, sess, sendq, wsq, wsUp, sockets, handles, holder, pkt>>

PostReturns(s) ==
    /\ ~At(s, "post", "idle")
    /\ \/ Len(recvq[s]) < PollingBuffer
          /\ recvq' = [recvq EXCEPT ![s] = Append(@, pc[s]["post"])]
       \/ Dropped(s) /\ UNCHANGED recvq
    /\ Goto(s, "post", "idle")
    /\ UNCHANGED <<chan, sess, sendq, wsq, wsUp, sockets, handles, holder, pkt>>

WsSend(s, p) ==
    /\ s \in wsUp /\ transport[s] = "ws" /\ Len(wsq[s]) < WsBuffer
    /\ wsq' = [wsq EXCEPT ![s] = Append(@, p)]
    /\ UNCHANGED <<chan, sess, sendq, recvq, wsUp, sockets, handles, holder, pc, pkt>>

WsDrop(s) ==
    /\ s \in wsUp /\ transport[s] = "ws"
    /\ wsUp' = wsUp \ {s}
    /\ UNCHANGED <<chan, sess, sendq, recvq, wsq, sockets, handles, holder, pc, pkt>>

-----------------------------------------------------------------------------
Emit(s, t) == \/ EmitCheck(s, t) \/ EmitLock(s, t) \/ EmitSend(s, t)
              \/ EmitFail(s, t) \/ OnError(s, t)
Close(s, t) == \/ Remove(s, t) \/ Disconnect(s, t) \/ SendOnClose(s, t) \/ ClearConnected(s, t)
Ping(s) == PingTick(s) \/ PingCheck(s)
Loop(s) == RecvOpen(s) \/ RecvClose(s) \/ RecvOther(s)
Timer(s) == TimerStops(s) \/ TimerFires(s)
Reader(s) == \/ ReaderTake(s) \/ ReaderMissesLock(s) \/ ReaderEnds(s) \/ ReaderGivesUp(s)
             \/ ReaderYields(s) \/ ReaderPacket(s) \/ ReaderData(s)
             \/ ReaderSkipsClose(s) \/ ReaderClose(s) \/ ReaderClear(s)
UpgradeSteps(s) == \/ UpgradeLookup(s) \/ UpgradeTransport(s)
                   \/ UpgradeLockGenerator(s) \/ UpgradeGenerator(s)
Upgrade(s) == Probe(s) \/ Upgraded(s) \/ UpgradeAborts(s) \/ UpgradeSteps(s)
Client(s) == \/ GetStart(s) \/ GetReturns(s) \/ PostReturns(s) \/ WsDrop(s)
             \/ \E p \in ClientSends[s] : PostStart(s, p) \/ WsSend(s, p)

Next == \E s \in Sid :
          \/ \E tr \in Transports[s] : OpenSession(s, tr)
          \/ OpenFails(s) \/ SendOnOpen(s) \/ Register(s)
          \/ \E t \in Emitters : Emit(s, t) \/ Close(s, t)
          \/ \E p \in AppSends[s] : AppSend(s, p)
          \/ Ping(s) \/ Loop(s) \/ Timer(s) \/ Reader(s) \/ Upgrade(s) \/ Client(s)

Spec == Init /\ [][Next]_vars

\* A step of a task that emits, but for a send over a websocket, which waits for as
\* long as the peer does not read.
Run(s, t) == \/ transport[s] = "polling" /\ EmitSend(s, t)
             \/ EmitCheck(s, t) \/ EmitLock(s, t) \/ EmitFail(s, t) \/ OnError(s, t)
             \/ Close(s, t)
             \/ t = "ping" /\ Ping(s)
             \/ t = "loop" /\ Loop(s)
             \/ t = "up" /\ UpgradeSteps(s)

\* A step that waits for a mutex, a guard or room in the channel, which others may
\* take first.
Contends(s, t) == EmitLock(s, t) \/ OnError(s, t) \/ SendOnClose(s, t) \/ Remove(s, t)

\* The tasks that a session's client and its application give cause to run.
Acting(s) == Closers \cup (IF AppSends[s] # {} THEN {"app"} ELSE {})
                     \cup (IF s \in Upgrading THEN {"up"} ELSE {})

\* The runtime polls every task that can go on; the channel and the mutex serve their
\* waiters in order, so that others cannot pass the tasks that close sessions for
\* ever.  Nothing is assumed of clients or of the application.
Fairness ==
    /\ SF_vars(\E s \in Sid : Contends(s, "loop"))
    /\ \A s \in Sid :
         /\ SF_vars(Contends(s, "ping") \/ Contends(s, "timer"))
         /\ WF_vars(SendOnOpen(s) \/ Register(s))
         /\ WF_vars(Reader(s)) /\ WF_vars(PostReturns(s))
         /\ \A t \in Acting(s) : WF_vars(Run(s, t))

FairSpec == Spec /\ Fairness

-----------------------------------------------------------------------------
(* Properties *)

\* Every variable has its type, and no channel outgrows its capacity.
TypeOK ==
    /\ events \in Seq(Event) /\ Len(events) <= EventSize
    /\ told \in [Sid -> {"new", "open", "closed", "reopened"}]
    /\ sockets \subseteq Sid /\ handles \subseteq Sid
    /\ connected \subseteq Sid /\ wsUp \subseteq Sid
    /\ transport \in [Sid -> {"none", "polling", "ws"}]
    /\ generator \in [Sid -> {"none", "polling", "ws"}]
    /\ holder \in [Sid -> Task \cup {NoTask}]
    /\ missed \in [Sid -> 0..MissLimit]
    /\ sendq \in [Sid -> Seq(Out)] /\ \A s \in Sid : Len(sendq[s]) <= PollingBuffer
    /\ recvq \in [Sid -> Seq(In)] /\ \A s \in Sid : Len(recvq[s]) <= PollingBuffer
    /\ wsq \in [Sid -> Seq(In)] /\ \A s \in Sid : Len(wsq[s]) <= WsBuffer
    /\ pc \in [Sid -> [Task -> Label]]
    /\ pkt \in [Sid -> [Emitters -> Out]]

\* A registered session always has a ping task that will still look at it, so that
\* no session is left that nobody can time out (start_ping_pong, close_socket).
Watched ==
    \A s \in sockets : pc[s]["ping"] \in {"tick", "check", "remove"} \/ ReadsSockets(s)

\* The task is inside the disconnect that its close_socket won.
Closing(s, t) == \/ pc[s][t] \in {"disc", "onclose", "clear"}
                 \/ pc[s][t] \in EmitPc /\ pkt[s][t] = "Close"

\* Of the ping task, the event loop and the connect timeout, whatever their order,
\* at most one disconnects a session, and only after unregistering it (close_socket).
SingleCloser ==
    \A s \in Sid : \A t \in Closers :
      Closing(s, t) => s \notin sockets /\ \A u \in Closers : Closing(s, u) => u = t

\* Once the event loop has dealt with the OnClose of a session, the session is not
\* registered, neither by a late store_transport nor by an upgrade that was under way.
ClosedUnregistered ==
    \A s \in Sid : told[s] = "closed" /\ ~At(s, "loop", "remove") => s \notin sockets

\* The application has sent the first packet of an emit_multi and not the last.
HeaderSent(s) == At(s, "app", "send") /\ pkt[s]["app"] = "Attach"

\* "atomic send attachments": between the packets of one emit_multi no other task
\* puts a packet on the session's transport, and an upgrade does not replace it.
MultiAtomic ==
    [][\A s \in Sid : HeaderSent(s) =>
          /\ transport'[s] = transport[s]
          /\ \A t \in Emitters \ {"app"} : ~EmitSend(s, t)]_vars

\* To the event loop every session is announced once, before anything else, and
\* closed for good: duplicates of OnClose change nothing (connect, disconnect,
\* handle_close).
Lifecycle == INSTANCE SessionLifecycle WITH state <- told
LifecycleSpec == Lifecycle!Spec

-----------------------------------------------------------------------------
(* The inductive invariant behind these properties *)

\* Every task is at a place of its own code, sending a packet of its own.
Places ==
    \A s \in Sid :
      /\ pc[s]["open"] \in OpenPc
      /\ pc[s]["ping"] \in {"off", "tick", "check", "done"} \cup EmitPc \cup ClosePc
      /\ pc[s]["loop"] \in {"idle"} \cup EmitPc \cup ClosePc
      /\ pc[s]["timer"] \in {"off", "armed", "done"} \cup EmitPc \cup ClosePc
      /\ pc[s]["app"] \in {"idle", "disc", "onclose", "clear"} \cup EmitPc
      /\ pc[s]["up"] \in {"idle", "done"} \cup EmitPc \cup UpgradePc
      /\ pc[s]["reader"] \in {"off", "poll", "lost", "ended"} \cup HandlePc
      /\ pc[s]["get"] \in {"idle", "wait"}
      /\ pc[s]["post"] \in {"idle"} \cup PostPc
      /\ pc[s]["ping"] \in EmitPc => pkt[s]["ping"] \in {"Ping", "Close"}
      /\ pc[s]["loop"] \in EmitPc => pkt[s]["loop"] = "Close"
      /\ pc[s]["timer"] \in EmitPc => pkt[s]["timer"] = "Close"
      /\ pc[s]["app"] \in EmitPc
           => pkt[s]["app"] \in {"Msg", "Multi", "Attach", "Bye", "Close"}
      /\ pc[s]["up"] \in EmitPc => pkt[s]["up"] = "Noop"

\* A task between taking the transport mutex and releasing it is the mutex's holder.
InMutex(s, t) == \/ pc[s][t] \in {"send", "failed"}
                 \/ t = "up" /\ pc[s][t] \in {"gen", "gen2"}
Mutex == \A s \in Sid : \A t \in Emitters : InMutex(s, t) => holder[s] = t

\* The event is in the channel.
Queued(k, s) == \E i \in DOMAIN events : events[i] = Ev(k, s)

\* Until store_transport returns, nobody else works on the session, which has its
\* transport from its first step on.
Booting ==
    \A s \in Sid : pc[s]["open"] # "done" =>
      /\ s \notin sockets /\ told[s] # "closed"
      /\ transport[s] = "none" <=> pc[s]["open"] = "off"
      /\ \A t \in Task \ {"open"} : pc[s][t] = Start(t)
      /\ ~Queued("OnClose", s)

\* A session that was never announced, because it is not yet or could not be opened.
Quiet(s) == pc[s]["open"] \in {"off", "onopen"} \/ transport[s] = "none"
QuietIsUnknown ==
    \A s \in Sid : Quiet(s) =>
      /\ told[s] = "new" /\ s \notin sockets
      /\ transport[s] = "none" => s \notin handles
      /\ \A t \in Task \ {"open"} : pc[s][t] = Start(t)
      /\ \A k \in {"OnOpen", "OnClose", "other"} : ~Queued(k, s)

\* An announced session has its OnOpen in the channel or received, once, and before
\* any OnClose.
Announced ==
    \A s \in Sid :
      /\ told[s] # "reopened"
      /\ ~Quiet(s) /\ told[s] = "new" => Queued("OnOpen", s)
      /\ told[s] # "new" => ~Queued("OnOpen", s)
      /\ \A i, j \in DOMAIN events :
            events[i] = Ev("OnOpen", s) /\ events[j] = Ev("OnOpen", s) => i = j
      /\ \A j \in DOMAIN events : told[s] = "new" /\ events[j] = Ev("OnClose", s)
            => \E i \in DOMAIN events : i < j /\ events[i] = Ev("OnOpen", s)

\* The invariant that every step keeps.
IInv == /\ TypeOK /\ Places /\ Mutex /\ Booting /\ QuietIsUnknown /\ Announced
        /\ Watched /\ SingleCloser /\ ClosedUnregistered

-----------------------------------------------------------------------------
(* Liveness, and what the repository's tests expect *)

\* A task waits, under the transport mutex, for the client to take packets.
Stalled(s) == /\ \E t \in Emitters : At(s, t, "send")
              /\ ~SendFails(s)
              /\ transport[s] = "ws" \/ Len(sendq[s]) = PollingBuffer

\* What keeps a task of the session waiting for a client: its own, or one for whose
\* sake a guard of the session's shard is kept (Server::emit, store_transport).
Blocked(s) ==
    \/ Stalled(s)
    \/ \E u \in Sid : /\ Shard[u] = Shard[s] /\ Stalled(u)
                      /\ ReadsSockets(u) \/ WritesSockets(u)

\* The event loop is opening or closing a session ...
Busy(s) == \/ ~At(s, "loop", "idle")
           \/ events # <<>> /\ Head(events) = Ev("OnOpen", s) /\ ~CanRead(s)

\* ... and waits for a client, or for room in the channel it alone drains, itself or
\* through the task whose mutex or guard it wants.
Wedged == \E s \in Sid : Busy(s) /\ (Full \/ Blocked(s))

\* The event loop always comes back to its channel, unless it is wedged for good
\* (drop_client, close_socket).
LoopComesBack == []<>LoopIdle \/ <>[]Wedged

\* A session whose client sends nothing any more is unregistered and the event loop
\* is told so, unless a client of the shard that takes no packets stalls a task for
\* good or the loop is wedged (start_ping_pong).
DeadClientReaped ==
    \A s \in Sid : <>[](Wedged \/ Blocked(s))
       \/ []((s \in sockets /\ missed[s] > 0)
              => <>(missed[s] = 0 \/ (s \notin sockets /\ told[s] = "closed")))

\* With the same exceptions, a session that nobody reads any more, because poll_next
\* lost its waker or took the end of the polling stream for the end of the session,
\* does not stay registered.
UnreadIsReaped ==
    \A s \in Sid : <>[](Wedged \/ Blocked(s))
       \/ []((s \in sockets /\ pc[s]["reader"] \in {"lost", "ended"})
              => <>(s \notin sockets))

\* A POST is answered, and the guard of polling_handles it keeps is released, unless
\* the session's reader lost its waker or something keeps the session from ending.
PostAnswered ==
    \A s \in Sid : <>[](Wedged \/ Blocked(s))
       \/ [](~At(s, "post", "idle")
              => <>(At(s, "post", "idle") \/ At(s, "reader", "lost")))

\* The owner finds the socket of a session it has just been told is open
\* (`socket.unwrap()` of the engine's own test server).
OpenFindsSocket ==
    [][\A s \in Sid : told[s] = "new" /\ told'[s] = "open" => s \in sockets]_vars
=============================================================================
