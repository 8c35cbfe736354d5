------------------------------ MODULE SioServer ------------------------------
(***************************************************************************)
(* The Socket.IO server above the engine: the event loop, the connect      *)
(* handshake with its timeout, the table of clients, the poll task of each *)
(* client, the callbacks that user code runs in, and the rooms.            *)
(*                                                                         *)
(* The engine is its promise (SessionLifecycle): a session is announced    *)
(* once, its end at least once.  DashMap operations are atomic; the steps  *)
(* between them are not.                                                   *)
(***************************************************************************)
EXTENDS Naturals, FiniteSets

CONSTANTS
    Esid,       \* engine sessions
    Nsp,        \* namespaces clients ask for
    On,         \* namespaces the server has callbacks for
    Room,       \* room names of the application
    Faults,     \* what may go wrong: "close", "timeout", "bad" (a packet that does not parse)
    EmitBy,     \* how callbacks address an emit_to: "room", "sid"
    None        \* no value

\* SidGenerator: a client id is the engine id it can be decoded to and a number.
Sid == Esid \X (0..Cardinality(Esid))
Decode(c) == c[1]

ASSUME EsidAssumption == IsFiniteSet(Esid) /\ Esid # {}
ASSUME NspAssumption  == On \subseteq Nsp
ASSUME EmitAssumption == EmitBy \subseteq {"room", "sid"}
ASSUME FaultAssumption == Faults \subseteq {"close", "timeout", "bad"}

VARIABLES
    heard,      \* what the loop has heard of each session
    registered, \* sessions the engine has a socket for
    closing,    \* sessions with an OnClose in the event channel
    seq,        \* SidGenerator.seq
    sid,        \* the id do_handle_connect generated for a session
    nsp,        \* the namespace of its Connect packet
    conn,       \* the task of handle_connect, one per session
    drop,       \* the drop_client the event loop is in: its step and its session
    poller,     \* the poll task of each session's client
    stream,     \* the packet stream of each session
    clients,    \* Server.clients
    rooms,      \* Server.rooms: its keys, <<namespace, room>>
    members,    \* Server.rooms: its contents, <<namespace, room, client id>>
    user,       \* where a callback of the session's client stands
    arg,        \* the room a callback is joining, or the clients it still emits to
    sent        \* <<namespace, client id>> of every emit spawned by emit_to (history)

vars == <<heard, registered, closing, seq, sid, nsp, conn, drop, poller, stream,
          clients, rooms, members, user, arg, sent>>
engine == <<heard, registered, closing>>
names  == <<seq, sid, nsp>>
tables == <<clients, rooms, members>>
cb     == <<user, arg, sent>>

Idle == [step |-> "idle", esid |-> None]

Init ==
    /\ heard = [e \in Esid |-> "new"]
    /\ registered = {} /\ closing = {} /\ seq = 0
    /\ sid = [e \in Esid |-> None]
    /\ nsp = [e \in Esid |-> None]
    /\ conn = [e \in Esid |-> "off"]
    /\ drop = Idle
    /\ poller = [e \in Esid |-> "off"]
    /\ stream = [e \in Esid |-> "live"]
    /\ clients = [e \in Esid |-> {}]
    /\ rooms = {} /\ members = {}
    /\ user = [e \in Esid |-> "none"]
    /\ arg = [e \in Esid |-> {}]
    /\ sent = {}

-----------------------------------------------------------------------------
(* The engine, and the event loop: recv_event *)

\* Closing a session sends a Close packet; its transport may outlast it.
StreamMayEnd(e) == \E v \in {stream[e], "closed"} : stream' = [stream EXCEPT ![e] = v]

\* The engine reports a session's end, having unregistered it or not yet.
EngineCloses(e) ==
    /\ "close" \in Faults /\ heard[e] = "open"
    /\ closing' = closing \cup {e}
    /\ \/ UNCHANGED <<registered, stream>>
       \/ registered' = registered \ {e} /\ StreamMayEnd(e)
    /\ UNCHANGED <<heard, names, conn, drop, poller, tables, cb>>

\* A closed session's stream, which others still hold, ends with its transport.
StreamCloses(e) ==
    /\ heard[e] # "new" /\ e \notin registered /\ stream[e] = "live"
    /\ stream' = [stream EXCEPT ![e] = "closed"]
    /\ UNCHANGED <<engine, names, conn, drop, poller, tables, cb>>

\* create_client, with the socket found, or not yet registered.
RecvOpen(e) ==
    /\ drop = Idle /\ heard[e] = "new"
    /\ heard' = [heard EXCEPT ![e] = "open"]
    /\ registered' = registered \cup {e}
    /\ \/ /\ conn' = [conn EXCEPT ![e] = "wait"]
          /\ sid' = [sid EXCEPT ![e] = <<e, seq>>]
          /\ seq' = seq + 1
       \/ UNCHANGED <<conn, sid, seq>>
    /\ UNCHANGED <<closing, nsp, drop, poller, stream, tables, cb>>

RecvClose(e) ==
    /\ drop = Idle /\ e \in closing
    /\ heard' = [heard EXCEPT ![e] = "closed"]
    /\ closing' = closing \ {e}
    /\ drop' = [step |-> "close", esid |-> e]
    /\ UNCHANGED <<registered, names, conn, poller, stream, tables, cb>>

-----------------------------------------------------------------------------
(* drop_client, by the event loop or by the connect timeout *)

\* close_socket: a session that was still registered announces its end, unless it has
\* done so before and is disconnected by now.
CloseSocket(e) ==
    /\ registered' = registered \ {e}
    /\ \/ e \in registered /\ closing' = closing \cup {e}
       \/ (e \notin registered \/ heard[e] = "closed") /\ UNCHANGED closing
    /\ StreamMayEnd(e)

ForgetNamespace(e) == members' = {m \in members : m[1] # nsp[e]}

\* Every room of every namespace forgets the client ids that decode to e.
ForgetRooms(e) == members' = {m \in members : Decode(m[3]) # e}

LoopDrops ==
    LET e == drop.esid IN
    \/ /\ drop.step = "close" /\ CloseSocket(e)
       /\ drop' = [drop EXCEPT !.step = "clients"]
       /\ UNCHANGED <<heard, names, conn, poller, tables, cb>>
    \/ /\ drop.step = "clients" /\ clients' = [clients EXCEPT ![e] = {}]
       /\ drop' = [drop EXCEPT !.step = "rooms"]
       /\ UNCHANGED <<engine, names, conn, poller, stream, rooms, members, cb>>
    \/ /\ drop.step = "rooms" /\ ForgetRooms(e)
       /\ drop' = Idle
       /\ UNCHANGED <<engine, names, conn, poller, stream, clients, rooms, cb>>

TimeoutDrops(e) ==
    \/ /\ conn[e] = "close" /\ CloseSocket(e)
       /\ conn' = [conn EXCEPT ![e] = "clients"]
       /\ UNCHANGED <<heard, names, drop, poller, tables, cb>>
    \/ /\ conn[e] = "clients" /\ clients' = [clients EXCEPT ![e] = {}]
       /\ conn' = [conn EXCEPT ![e] = "rooms"]
       /\ UNCHANGED <<engine, names, drop, poller, stream, rooms, members, cb>>
    \/ /\ conn[e] = "rooms" /\ ForgetRooms(e)
       /\ conn' = [conn EXCEPT ![e] = "done"]
       /\ UNCHANGED <<engine, names, drop, poller, stream, clients, rooms, cb>>

-----------------------------------------------------------------------------
(* handle_connect, do_handle_connect and insert_clients *)

ConnectUnnamed(e, n) ==
    /\ conn[e] = "wait" /\ stream[e] = "live"
    /\ conn' = [conn EXCEPT ![e] = IF n \in On THEN "callback" ELSE "done"]
    /\ UNCHANGED <<engine, names, drop, poller, stream, tables, cb>>

\* After the first Connect packet no other is waited for.
ConnectPacket(e, n) ==
    /\ conn[e] = "wait" /\ stream[e] = "live"
    /\ nsp' = [nsp EXCEPT ![e] = n]
    /\ conn' = [conn EXCEPT ![e] = IF n \in On THEN "callback" ELSE "done"]
    /\ UNCHANGED <<engine, seq, sid, drop, poller, stream, tables, cb>>

\* A packet that does not parse, or the end of the stream, ends the wait.
ConnectFails(e) ==
    /\ conn[e] = "wait" /\ (stream[e] = "live" => "bad" \in Faults)
    /\ stream' = [stream EXCEPT ![e] = IF @ = "live" THEN "failed" ELSE @]
    /\ conn' = [conn EXCEPT ![e] = "done"]
    /\ UNCHANGED <<engine, names, drop, poller, tables, cb>>

\* The Connect callback is spawned first, ...
ConnectCallback(e) ==
    /\ conn[e] = "callback"
    /\ user' = [user EXCEPT ![e] = "run"]
    /\ conn' = [conn EXCEPT ![e] = "poll"]
    /\ UNCHANGED <<engine, names, drop, poller, stream, tables, arg, sent>>

\* ... then the poll task, ...
StartPoll(e) ==
    /\ conn[e] = "poll"
    /\ poller' = [poller EXCEPT ![e] = "run"]
    /\ conn' = [conn EXCEPT ![e] = "handshake"]
    /\ UNCHANGED <<engine, names, drop, stream, tables, cb>>

\* ... the client gets its Connect packet, whether or not the send succeeds, ...
Handshake(e) ==
    /\ conn[e] = "handshake"
    /\ conn' = [conn EXCEPT ![e] = "insert"]
    /\ UNCHANGED <<engine, names, drop, poller, stream, tables, cb>>

InsertAndWait(e) ==
    /\ conn[e] = "insert"
    /\ clients' = [clients EXCEPT ![e] = @ \cup {<<sid[e], nsp[e]>>}]
    /\ conn' = [conn EXCEPT ![e] = "wait"]
    /\ UNCHANGED <<engine, names, drop, poller, stream, rooms, members, cb>>

\* ... and only then is it listed.
InsertClient(e) ==
    /\ conn[e] = "insert"
    /\ clients' = [clients EXCEPT ![e] = @ \cup {<<sid[e], nsp[e]>>}]
    /\ conn' = [conn EXCEPT ![e] = "done"]
    /\ UNCHANGED <<engine, names, drop, poller, stream, rooms, members, cb>>

TimeoutForgets(e) ==
    /\ "timeout" \in Faults /\ conn[e] \in {"wait", "handshake"}
    /\ conn' = [conn EXCEPT ![e] = "clients"]
    /\ UNCHANGED <<engine, names, drop, poller, stream, tables, cb>>

\* The timeout cancels the handshake where it is suspended.
ConnectTimeout(e) ==
    /\ "timeout" \in Faults /\ conn[e] \in {"wait", "handshake"}
    /\ conn' = [conn EXCEPT ![e] = "close"]
    /\ UNCHANGED <<engine, names, drop, poller, stream, tables, cb>>

-----------------------------------------------------------------------------
(* poll: Socket::poll_packet over RawSocket::stream *)

\* An event starts its callback; one callback per client at a time is the bound.
PollEvent(e) ==
    /\ poller[e] = "run" /\ stream[e] = "live" /\ user[e] = "none"
    /\ user' = [user EXCEPT ![e] = "run"]
    /\ UNCHANGED <<engine, names, conn, drop, poller, stream, tables, arg, sent>>

\* A packet that does not parse is returned as an error, and the try_stream is over.
PollError(e) ==
    /\ "bad" \in Faults /\ poller[e] = "run" /\ stream[e] = "live"
    /\ stream' = [stream EXCEPT ![e] = "failed"]
    /\ UNCHANGED <<engine, names, conn, drop, poller, tables, cb>>

PollEnds(e) ==
    /\ poller[e] = "run" /\ stream[e] # "live"
    /\ poller' = [poller EXCEPT ![e] = "ended"]
    /\ UNCHANGED <<engine, names, conn, drop, stream, tables, cb>>

-----------------------------------------------------------------------------
(* Callbacks: what user code does with its client *)

\* Server::join: a room of a namespace that has an entry is joined under its guard.
Join(e, r) ==
    /\ user[e] = "run" /\ \E k \in rooms : k[1] = nsp[e]
    /\ rooms' = rooms \cup {<<nsp[e], r>>}
    /\ members' = members \cup {<<nsp[e], r, sid[e]>>}
    /\ UNCHANGED <<engine, names, conn, drop, poller, stream, clients, cb>>

\* For the first join of a namespace, looking for the entry and inserting it are two
\* operations of the map; the second replaces whatever is there by then.
JoinFirst(e, r) ==
    /\ user[e] = "run" /\ ~\E k \in rooms : k[1] = nsp[e]
    /\ user' = [user EXCEPT ![e] = "join"]
    /\ arg' = [arg EXCEPT ![e] = {r}]
    /\ UNCHANGED <<engine, names, conn, drop, poller, stream, tables, sent>>

JoinInsert(e) ==
    /\ user[e] = "join"
    /\ rooms' = {k \in rooms : k[1] # nsp[e]} \cup {<<nsp[e], r>> : r \in arg[e]}
    /\ members' = {m \in members : m[1] # nsp[e]} \cup {<<nsp[e], r, sid[e]>> : r \in arg[e]}
    /\ user' = [user EXCEPT ![e] = "run"]
    /\ arg' = [arg EXCEPT ![e] = {}]
    /\ UNCHANGED <<engine, names, conn, drop, poller, stream, clients, sent>>

Leave(e, r) ==
    /\ user[e] = "run"
    /\ members' = members \ {<<nsp[e], r, sid[e]>>}
    /\ UNCHANGED <<engine, names, conn, drop, poller, stream, clients, rooms, cb>>

\* sids_to_emit: the members of the room, or, when there is no such room, the client
\* whose id was given in its place.
SidsToEmit(n, r) ==
    IF ~\E k \in rooms : k[1] = n THEN {}
    ELSE IF <<n, r>> \in rooms THEN {c \in Sid : <<n, r, c>> \in members}
    ELSE {r} \cap Sid

\* emit_to, first half: whom to emit to.
EmitTo(e, r) ==
    /\ user[e] = "run"
    /\ arg' = [arg EXCEPT ![e] = SidsToEmit(nsp[e], r)]
    /\ user' = [user EXCEPT ![e] = "emit"]
    /\ UNCHANGED <<engine, names, conn, drop, poller, stream, tables, sent>>

ListedAnywhere(c, n) == \E l \in clients[Decode(c)] : l[1] = c

\* Server::client: the client of an id in a namespace, if it is listed.
Listed(c, n) == <<c, n>> \in clients[Decode(c)]

\* Second half, one id at a time: look the client up and spawn the emit to it.
EmitOne(e, c) ==
    /\ user[e] = "emit" /\ c \in arg[e]
    /\ arg' = [arg EXCEPT ![e] = @ \ {c}]
    /\ sent' = IF Listed(c, nsp[e]) THEN sent \cup {<<nsp[e], c>>} ELSE sent
    /\ UNCHANGED <<engine, names, conn, drop, poller, stream, tables, user>>

EmitDone(e) ==
    /\ user[e] = "emit" /\ arg[e] = {}
    /\ user' = [user EXCEPT ![e] = "run"]
    /\ UNCHANGED <<engine, names, conn, drop, poller, stream, tables, arg, sent>>

Return(e) ==
    /\ user[e] = "run"
    /\ user' = [user EXCEPT ![e] = "none"]
    /\ UNCHANGED <<engine, names, conn, drop, poller, stream, tables, arg, sent>>

-----------------------------------------------------------------------------
Connect(e) == \/ \E n \in Nsp : ConnectPacket(e, n)
              \/ ConnectFails(e) \/ ConnectCallback(e) \/ StartPoll(e)
              \/ Handshake(e) \/ InsertClient(e)
Poll(e) == PollEvent(e) \/ PollError(e) \/ PollEnds(e)
Callback(e) == \/ \E r \in Room : Join(e, r) \/ JoinFirst(e, r) \/ Leave(e, r)
               \/ \E r \in Room : "room" \in EmitBy /\ EmitTo(e, r)
               \/ \E u \in Esid : "sid" \in EmitBy /\ sid[u] # None /\ EmitTo(e, sid[u])
               \/ \E c \in arg[e] : EmitOne(e, c)
               \/ JoinInsert(e) \/ EmitDone(e) \/ Return(e)

Next == \/ LoopDrops
        \/ \E e \in Esid : \/ EngineCloses(e) \/ StreamCloses(e) \/ RecvOpen(e) \/ RecvClose(e)
                            \/ Connect(e) \/ ConnectTimeout(e) \/ TimeoutDrops(e)
                            \/ Poll(e) \/ Callback(e)

Spec == Init /\ [][Next]_vars

\* Every task is polled; the timer fires if the handshake is not through by then; an
\* engine session that nobody reads any more is reaped and its end reported
\* (EngineServer, DeadClientReaped).
Unread(e) == heard[e] = "open" /\ poller[e] # "run" /\ conn[e] \in {"off", "done"}
Fairness ==
    /\ WF_vars(LoopDrops)
    /\ \A e \in Esid : /\ WF_vars(RecvOpen(e)) /\ SF_vars(RecvClose(e))
                       /\ WF_vars(Connect(e) \/ ConnectTimeout(e) \/ TimeoutDrops(e))
                       /\ WF_vars(Unread(e) /\ EngineCloses(e) /\ e \notin registered')

FairSpec == Spec /\ Fairness

-----------------------------------------------------------------------------
(* Properties *)

\* Every variable has its type.
TypeOK ==
    /\ heard \in [Esid -> {"new", "open", "closed"}]
    /\ registered \subseteq Esid /\ closing \subseteq Esid
    /\ seq \in 0..Cardinality(Esid)
    /\ sid \in [Esid -> Sid \cup {None}]
    /\ nsp \in [Esid -> Nsp \cup {None}]
    /\ conn \in [Esid -> {"off", "wait", "callback", "poll", "handshake", "insert",
                          "close", "clients", "rooms", "done"}]
    /\ drop \in {Idle} \cup [step : {"close", "clients", "rooms"}, esid : Esid]
    /\ poller \in [Esid -> {"off", "run", "ended"}]
    /\ stream \in [Esid -> {"live", "failed", "closed"}]
    /\ clients \in [Esid -> SUBSET (Sid \X Nsp)]
    /\ rooms \subseteq Nsp \X Room
    /\ members \subseteq Nsp \X Room \X Sid
    /\ user \in [Esid -> {"none", "run", "join", "emit"}]
    /\ arg \in [Esid -> SUBSET (Room \cup Sid)]
    /\ sent \subseteq Nsp \X Sid

\* "currently one esid mapping to one sid, one sid mapping one nsp", and that sid
\* decodes to the esid, which is what drop_client relies on.
OneClientPerSession ==
    \A e \in Esid : \A c1, c2 \in clients[e] : c1 = c2 /\ Decode(c1[1]) = e

\* emit_to reaches only clients of the caller's namespace, even when it is given the
\* id of a client of another namespace in place of a room.
NamespaceIsolation ==
    \A m \in sent : nsp[Decode(m[2])] = m[1] /\ sid[Decode(m[2])] = m[2]

\* The member is taken out by a leave of its own or by its session's drop_client.
MemberLeavesItself(m) ==
    LET e == Decode(m[3]) IN
    \/ user[e] = "run" /\ UNCHANGED user
    \/ drop = [step |-> "rooms", esid |-> e] /\ drop' = Idle
    \/ conn[e] = "rooms" /\ conn'[e] = "done"

\* A client leaves a room by its own leave or with its session; the one other way is
\* that another callback's first join of the namespace is just being inserted (join).
RoomsKeepMembers ==
    [][\A m \in members \ members' :
          \/ MemberLeavesItself(m)
          \/ \E u \in Esid : user[u] = "join" /\ user'[u] = "run" /\ nsp[u] = m[1]]_vars

\* A session that is announced ends up with a listed client or is closed, whatever
\* its client sends or fails to send (CONNECT_TIMEOUT).
ConnectedOrClosed ==
    \A e \in Esid : heard[e] = "open" ~> (clients[e] # {} \/ heard[e] = "closed")

-----------------------------------------------------------------------------
(* The inductive invariant behind these properties *)

\* An id is generated once for a session, so the generator's numbers suffice.
Numbered ==
    /\ seq <= Cardinality({e \in Esid : heard[e] # "new"})
    /\ \A e \in Esid : heard[e] = "new" => conn[e] = "off"

\* Until its first Connect packet a session has no client, no callback and no poll task,
\* and nothing was emitted to it.
Unconnected(e) == conn[e] \in {"off", "wait"}
NothingBefore ==
    \A e \in Esid : Unconnected(e) =>
      /\ clients[e] = {} /\ user[e] = "none" /\ poller[e] = "off"
      /\ \A m \in sent : Decode(m[2]) # e

\* A handshake knows the client's id, which decodes to the session; beyond the Connect
\* packet, callbacks and poll tasks included, it knows the namespace.
Served(e) == \/ conn[e] \in {"callback", "poll", "handshake", "insert"}
             \/ user[e] # "none" \/ poller[e] = "run"
Named ==
    \A e \in Esid : /\ conn[e] # "off" => sid[e] \in Sid /\ Decode(sid[e]) = e
                    /\ Served(e) => nsp[e] \in Nsp

\* What is listed for a session is its client, under the one id and namespace.
ListedAsNamed == \A e \in Esid : clients[e] \subseteq {<<sid[e], nsp[e]>>}

\* A join holds rooms, an emit_to ids.
Arguments == \A e \in Esid : /\ user[e] = "join" => arg[e] \subseteq Room
                             /\ user[e] = "emit" => arg[e] \subseteq Sid

\* The invariant that every step keeps; it implies OneClientPerSession.
IInv == /\ TypeOK /\ Numbered /\ NothingBefore /\ Named /\ ListedAsNamed /\ Arguments
        /\ NamespaceIsolation
=============================================================================
