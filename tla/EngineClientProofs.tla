------------------------ MODULE EngineClientProofs ------------------------
(***************************************************************************)
(* Theorems about EngineClient, for any functions of SocketBuilder, any    *)
(* limit of unanswered pings and any size of the polling buffer.           *)
(***************************************************************************)
EXTENDS EngineClient, SequenceTheorems, TLAPS

-----------------------------------------------------------------------------
(* Queues, session ids and requests *)

LEMMA Appended ==
    ASSUME NEW q \in Seq(Packet), NEW p \in Packet
    PROVE  /\ Append(q, p) \in Seq(Packet) /\ Append(q, p) # <<>>
           /\ Len(Append(q, p)) = Len(q) + 1
           /\ q # <<>> => Head(Append(q, p)) = Head(q) /\ Tail(Append(q, p)) # <<>>
           /\ \A x : Has(Append(q, p), x) <=> Has(q, x) \/ x = p
<1>1. /\ Append(q, p) \in Seq(Packet) /\ Append(q, p) # <<>>
      /\ Len(Append(q, p)) = Len(q) + 1
  <2>1. Append(q, p) \in Seq(Packet) /\ Len(Append(q, p)) = Len(q) + 1 /\ Len(q) \in Nat
      OBVIOUS
  <2>2. Len(Append(q, p)) # 0
      BY <2>1
  <2> QED BY <2>1, <2>2, EmptySeq
<1>2. ASSUME q # <<>> PROVE Head(Append(q, p)) = Head(q) /\ Tail(Append(q, p)) # <<>>
    BY <1>1, <1>2
<1>3. ASSUME NEW x PROVE Has(Append(q, p), x) <=> Has(q, x) \/ x = p
    BY DEF Has
<1> QED BY <1>1, <1>2, <1>3

LEMMA Taken ==
    ASSUME NEW q \in Seq(Packet), q # <<>>
    PROVE  /\ Head(q) \in Packet /\ Tail(q) \in Seq(Packet) /\ Len(Tail(q)) <= Len(q)
           /\ \A x : Has(q, x) <=> Head(q) = x \/ Has(Tail(q), x)
<1>1. /\ Head(q) = q[1] /\ Head(q) \in Packet /\ Tail(q) \in Seq(Packet)
      /\ Len(Tail(q)) = Len(q) - 1 /\ Len(q) \in Nat /\ Len(q) >= 1
    OBVIOUS
<1>2. \A k \in 1..Len(Tail(q)) : Tail(q)[k] = q[k + 1]
    OBVIOUS
<1>3. DOMAIN q = 1..Len(q) /\ DOMAIN Tail(q) = 1..(Len(q) - 1)
    BY <1>1
<1>4. ASSUME NEW x PROVE Has(q, x) <=> Head(q) = x \/ Has(Tail(q), x)
  <2>1. ASSUME NEW k \in 1..Len(q), q[k] = x, k # 1 PROVE Has(Tail(q), x)
    <3>1. k - 1 \in DOMAIN Tail(q) /\ Tail(q)[k - 1] = q[(k - 1) + 1] /\ (k - 1) + 1 = k
        BY <1>1, <1>2, <1>3, <2>1
    <3> QED BY <2>1, <3>1 DEF Has
  <2>2. ASSUME NEW k \in DOMAIN Tail(q), Tail(q)[k] = x PROVE Has(q, x)
    <3>1. k + 1 \in DOMAIN q /\ q[k + 1] = x
        BY <1>1, <1>2, <1>3, <2>2
    <3> QED BY <3>1 DEF Has
  <2>3. Head(q) = x => Has(q, x)
      BY <1>1, <1>3 DEF Has
  <2> QED BY <1>1, <1>3, <2>1, <2>2, <2>3 DEF Has
<1> QED BY <1>1, <1>4

LEMMA NothingIn ==
    /\ <<>> \in Seq(Packet) /\ Len(<<>>) = 0 /\ \A x : ~Has(<<>>, x)
    /\ \A p \in Packet : /\ <<p>> \in Seq(Packet) /\ <<p>> # <<>> /\ Head(<<p>>) = p
                         /\ Tail(<<p>>) = <<>> /\ \A x : Has(<<p>>, x) <=> x = p
BY DEF Has

LEMMA SidNumbers == Sids \subseteq Nat \ {0} /\ MaxSid = 2 /\ 1 \in Sids /\ 2 \in Sids
BY DEF Sids, MaxSid

\* The server tells the client's requests apart by what the builder knows.
LEMMA Classified ==
    /\ \A h : Classify(Request("websocket", h)) = [type |-> "WsUpgrade", sid |-> h]
    /\ \A h : Classify(Request("polling", h)).type = "PollingOpen" => h = NoSid
<1>1. ASSUME NEW h PROVE Classify(Request("websocket", h)) = [type |-> "WsUpgrade", sid |-> h]
  <2>1. /\ Request("websocket", h).transport = "websocket" /\ Request("websocket", h).upgrade
        /\ Request("websocket", h).method = "GET" /\ Request("websocket", h).sid = h
      BY DEF Request
  <2> QED BY <2>1 DEF Classify
<1>2. ASSUME NEW h, h # NoSid PROVE Classify(Request("polling", h)).type = "PollingGet"
  <2>1. /\ Request("polling", h).transport = "polling"
        /\ Request("polling", h).method = "GET" /\ Request("polling", h).sid = h
      BY DEF Request
  <2>2. Classify(Request("polling", h)) = [type |-> "PollingGet", sid |-> h]
      BY <1>2, <2>1 DEF Classify
  <2> QED BY <2>2
<1> QED BY <1>1, <1>2

-----------------------------------------------------------------------------
(* Three kinds of steps, and what each leaves alone *)

ServerStep(s) == Handle(s) \/ ReaderSeesEnd(s) \/ Ping(s) \/ ServerReads(s)
SocketStep == \/ SocketConnect \/ SocketConnectFails \/ EmitDone \/ Poll \/ LinkBreaks
              \/ \E p \in {"Msg", "Close"} : EmitLocks(p)

LEMMA Steps ==
    ASSUME [Next]_vars
    PROVE  \/ \E b \in Builds : Start(b)
           \/ Build \/ SocketStep \/ \E s \in Sids : ServerStep(s)
           \/ UNCHANGED vars
BY DEF Next, SocketStep, ServerStep

LEMMA CloseSessionFrame ==
    ASSUME Shape, NEW s \in Sids, CloseSession(s)
    PROVE  /\ session' = [session EXCEPT ![s] = "closed"]
           /\ \A u \in Sids : u # s => UNCHANGED <<link[u], down[u], polls[u]>>
           /\ session[s] = "polling" => UNCHANGED <<link, down>>
           /\ session[s] # "polling" => polls' = polls
           /\ session[s] = "ws" => link'[s] = "broken"
BY DEF CloseSession, Deliver, Shape

\* A server task leaves the client and its builder alone, and the other sessions.
LEMMA ServerFrame ==
    ASSUME Shape, NEW s \in Sids, ServerStep(s)
    PROVE  /\ UNCHANGED <<builder, client, issued>>
           /\ \A u \in Sids : u # s =>
                UNCHANGED <<session[u], handler[u], missed[u], polls[u], posts[u], link[u],
                            up[u], down[u]>>
           /\ handler[s] # "none" \/ Alive(s)
<1> USE DEF wire
<1>1. CASE HandleProbe(s) \/ DrainPolling(s) \/ HandleUpgrade(s)
    BY <1>1 DEF HandleProbe, DrainPolling, HandleUpgrade, Shape
<1>2. CASE Swap(s) \/ Store(s) \/ HandlerGivesUp(s) \/ ReaderSeesEnd(s) \/ PingFails(s)
    BY <1>2 DEF Swap, Store, HandlerGivesUp, ReaderSeesEnd, PingFails, Shape
<1>3. CASE PingTick(s)
    BY <1>3 DEF PingTick, Deliver, Shape
<1>4. CASE PingTimeout(s)
    BY <1>4, CloseSessionFrame DEF PingTimeout, Shape
<1>5. CASE ServerReads(s)
  <2>1. CASE CloseSession(s)
      BY <1>5, <2>1, CloseSessionFrame DEF ServerReads, Shape
  <2>2. CASE UNCHANGED <<session, link, polls, down>>
      BY <1>5, <2>2 DEF ServerReads, Shape
  <2> QED BY <1>5, <2>1, <2>2 DEF ServerReads
<1> QED BY <1>1, <1>2, <1>3, <1>4, <1>5 DEF ServerStep, Handle, Ping

\* The Socket leaves the builder alone, and the server's sessions but for their queues.
LEMMA SocketFrame ==
    ASSUME SocketIsBuilt, SocketStep
    PROVE  /\ UNCHANGED <<asked, how, offer, handshake, upgradable, failures, issued, session,
                          handler, unread, failing, missed, socket>>
           /\ Finished /\ Finished'
           /\ socket.transport \in {"polling", "ws"} /\ socket.sid = handshake
<1> USE DEF builder, server, wire, client, Finished, SocketIsBuilt
<1>1. CASE SocketConnect \/ SocketConnectFails \/ EmitDone
    BY <1>1 DEF SocketConnect, SocketConnectFails, EmitDone
<1>2. ASSUME NEW p, EmitLocks(p)
      PROVE  /\ UNCHANGED <<asked, how, offer, handshake, upgradable, failures, issued, session,
                            handler, unread, failing, missed, socket>>
             /\ Finished /\ Finished'
    BY <1>2 DEF EmitLocks
<1>3. CASE Poll
    BY <1>3 DEF Poll, AnswerPing, LosePing, TakeOther, StreamEnds
<1>4. CASE LinkBreaks
    BY <1>4 DEF LinkBreaks, NoSocket
<1> QED BY <1>1, <1>2, <1>3, <1>4 DEF SocketStep

\* The builder leaves the Socket, the pings and the polling queues alone.
LEMMA BuildFrame ==
    ASSUME Build
    PROVE  /\ UNCHANGED <<got, reader, connected, lock, emits, unread, failing, missed, polls, posts,
                          asked, offer>>
           /\ pc \in {"handshake", "decide", "connect", "probe", "open"}
<1> USE DEF builder, server, wire, client, Fail, OpenPolling, Built
<1>1. CASE Handshake \/ HandshakeLost \/ HandshakeFails
    BY <1>1 DEF Handshake, HandshakeLost, HandshakeFails
<1>2. CASE DecideUpgrade \/ DecidePolling \/ IllegalUpgrade
    BY <1>2 DEF DecideUpgrade, DecidePolling, IllegalUpgrade
<1>3. CASE ConnectProbe \/ ConnectDirect \/ ConnectFails
    BY <1>3 DEF ConnectProbe, ConnectDirect, ConnectFails
<1>4. CASE ProbeAnswered \/ OpenReceived \/ ProbeFails
    BY <1>4 DEF ProbeAnswered, OpenReceived, ProbeFails
<1> QED BY <1>1, <1>2, <1>3, <1>4 DEF Build

-----------------------------------------------------------------------------
(* The course of a build *)

\* Numbers that a build can have reached.
LEMMA Numbers ==
    ASSUME TypeOK
    PROVE  issued \in Nat /\ handshake \in Nat /\ issued <= 2 /\ Budget \in {1, 2} /\ NoSid = 0
BY DEF TypeOK, MaxSid, Budget, NoSid

LEMMA CourseStep ==
    TypeOK /\ Shape /\ Course /\ SocketIsBuilt /\ [Next]_vars => Course'
<1> SUFFICES ASSUME TypeOK, Shape, Course, SocketIsBuilt, [Next]_vars PROVE Course'
    OBVIOUS
<1>0. issued \in Nat /\ handshake \in Nat /\ issued <= 2 /\ NoSid = 0
    BY Numbers
<1>1. ASSUME NEW b \in Builds, Start(b) PROVE Course'
    BY <1>0, <1>1, ClientAssumption DEF Start, Course, Budget, Finished, server
<1>2. ASSUME UNCHANGED <<asked, how, issued, handshake>>, pc' = pc \/ (Finished /\ Finished')
      PROVE  Course'
    BY <1>2 DEF Course, Budget, Finished
<1>3. CASE Build
  <2>1. ASSUME NEW k, Fail(k), pc # "start", issued' \in Nat,
               issued' <= IF pc = "handshake" THEN issued + 1 ELSE issued
        PROVE  Course'
      BY <1>0, <2>1 DEF Fail, Course, Budget, Finished
  <2>2. CASE Handshake
      BY <1>0, <2>2 DEF Handshake, OpenPolling, Course, Budget, Finished
  <2>3. CASE HandshakeLost \/ HandshakeFails \/ IllegalUpgrade \/ ConnectFails \/ ProbeFails
      BY <1>0, <2>1, <2>3 DEF HandshakeLost, HandshakeFails, IllegalUpgrade, ConnectFails,
                              ProbeFails, OpenPolling, server
  <2>4. CASE DecideUpgrade
      BY <1>0, <2>4 DEF DecideUpgrade, Course, Budget, Finished, server
  <2>5. CASE DecidePolling
      BY <1>0, <2>5 DEF DecidePolling, Built, Course, Budget, Finished, server
  <2>6. CASE ConnectProbe
      BY <1>0, <2>6, Classified DEF ConnectProbe, Course, Budget, Finished
  <2>7. CASE ConnectDirect
      BY <1>0, <2>7, Classified DEF ConnectDirect, Course, Budget, Finished
  <2>8. CASE ProbeAnswered
      BY <1>0, <2>8 DEF ProbeAnswered, Built, Course, Budget, Finished, server
  <2>9. CASE OpenReceived
      BY <1>0, <2>9 DEF OpenReceived, Built, Course, Budget, Finished, server
  <2> QED BY <1>3, <2>2, <2>3, <2>4, <2>5, <2>6, <2>7, <2>8, <2>9 DEF Build
<1>4. CASE SocketStep
    BY <1>2, <1>4, SocketFrame
<1>5. ASSUME NEW s \in Sids, ServerStep(s) PROVE Course'
    BY <1>2, <1>5, ServerFrame DEF builder
<1>6. CASE UNCHANGED vars
    BY <1>2, <1>6 DEF vars, builder, server
<1> QED BY <1>1, <1>3, <1>4, <1>5, <1>6, Steps

\* A build that falls back goes on with polling, which only HTTP can end.
LEMMA FallbackStep ==
    TypeOK /\ Shape /\ Course /\ SocketIsBuilt /\ FallbackSurvivesWebsocket /\ [Next]_vars
      => FallbackSurvivesWebsocket'
<1> SUFFICES ASSUME TypeOK, Shape, Course, SocketIsBuilt, FallbackSurvivesWebsocket, [Next]_vars
             PROVE  FallbackSurvivesWebsocket'
    OBVIOUS
<1> USE DEF FallbackSurvivesWebsocket
<1>1. ASSUME NEW b \in Builds, Start(b) PROVE FallbackSurvivesWebsocket'
    BY <1>1 DEF Start
<1>2. CASE Build
  <2>1. ASSUME NEW k, Fail(k), k = "http" \/ how # "polling" PROVE FallbackSurvivesWebsocket'
      BY <2>1 DEF Fail, Course
  <2>2. CASE Handshake \/ DecideUpgrade \/ DecidePolling \/ ConnectProbe \/ ConnectDirect
               \/ ProbeAnswered \/ OpenReceived
      BY <2>2 DEF Handshake, DecideUpgrade, DecidePolling, ConnectProbe, ConnectDirect,
                  ProbeAnswered, OpenReceived, Built
  <2>3. CASE HandshakeLost \/ HandshakeFails
      BY <2>1, <2>3 DEF HandshakeLost, HandshakeFails
  <2>4. CASE IllegalUpgrade \/ ConnectFails \/ ProbeFails
      BY <2>1, <2>4 DEF IllegalUpgrade, ConnectFails, ProbeFails, Course
  <2> QED BY <1>2, <2>2, <2>3, <2>4 DEF Build
<1>3. CASE SocketStep
    BY <1>3, SocketFrame DEF Finished
<1>4. ASSUME NEW s \in Sids, ServerStep(s) PROVE FallbackSurvivesWebsocket'
    BY <1>4, ServerFrame DEF builder
<1>5. CASE UNCHANGED vars
    BY <1>5 DEF vars, builder
<1> QED BY <1>1, <1>2, <1>3, <1>4, <1>5, Steps

\* The Socket is the last thing a build makes.
LEMMA SocketIsBuiltStep ==
    TypeOK /\ Shape /\ Course /\ SocketIsBuilt /\ [Next]_vars => SocketIsBuilt'
<1> SUFFICES ASSUME TypeOK, Shape, Course, SocketIsBuilt, [Next]_vars PROVE SocketIsBuilt'
    OBVIOUS
<1>1. ASSUME NEW b \in Builds, Start(b) PROVE SocketIsBuilt'
    BY <1>1 DEF Start, SocketIsBuilt, Finished, client
<1>2. CASE Build
  <2>1. ASSUME socket' = socket, ~Finished' PROVE SocketIsBuilt'
      BY <1>2, <2>1, BuildFrame DEF SocketIsBuilt, Finished
  <2>2. CASE Handshake \/ HandshakeLost \/ HandshakeFails \/ DecideUpgrade \/ IllegalUpgrade
      BY <2>1, <2>2 DEF Handshake, HandshakeLost, HandshakeFails, DecideUpgrade, IllegalUpgrade,
                        Fail, Finished, client
  <2>3. CASE ConnectProbe \/ ConnectDirect \/ ConnectFails \/ ProbeFails
      BY <2>1, <2>3 DEF ConnectProbe, ConnectDirect, ConnectFails, ProbeFails, Fail, Finished,
                        client
  <2>4. CASE DecidePolling \/ ProbeAnswered \/ OpenReceived
      BY <2>4 DEF DecidePolling, ProbeAnswered, OpenReceived, Built, SocketIsBuilt, Finished
  <2> QED BY <1>2, <2>2, <2>3, <2>4 DEF Build
<1>3. CASE SocketStep
  <2>0. UNCHANGED <<handshake, socket>> /\ Finished /\ Finished'
      BY <1>3, SocketFrame
  <2>1. pc' \notin {"user", "emit"} => reader' = "off" /\ ~connected'
    <3>1. CASE SocketConnect \/ SocketConnectFails \/ EmitDone
        BY <3>1 DEF SocketConnect, SocketConnectFails, EmitDone
    <3>2. ASSUME NEW p, EmitLocks(p) PROVE pc' = "emit"
        BY <3>2 DEF EmitLocks
    <3>3. CASE Poll
        BY <3>3 DEF Poll, AnswerPing, LosePing, TakeOther, StreamEnds, SocketIsBuilt, builder
    <3>4. CASE LinkBreaks
        BY <3>4 DEF LinkBreaks, SocketIsBuilt, builder, client
    <3> QED BY <1>3, <3>1, <3>2, <3>3, <3>4 DEF SocketStep
  <2> QED BY <2>0, <2>1 DEF SocketIsBuilt
<1>4. ASSUME NEW s \in Sids, ServerStep(s) PROVE SocketIsBuilt'
    BY <1>4, ServerFrame DEF builder, client, SocketIsBuilt, Finished
<1>5. CASE UNCHANGED vars
    BY <1>5 DEF vars, builder, client, SocketIsBuilt, Finished
<1> QED BY <1>1, <1>2, <1>3, <1>4, <1>5, Steps

-----------------------------------------------------------------------------
(* The queues *)

Queues == [Sids -> Seq(Packet)]

\* Where a packet of the client goes.
LEMMA Transmitted ==
    ASSUME Shape, NEW s \in Sids, socket.sid = s, socket.transport \in {"polling", "ws"},
           NEW p \in Packet, Transmit(p)
    PROVE  /\ posts' \in Queues /\ up' \in Queues
           /\ \A u \in Sids : u # s => posts'[u] = posts[u] /\ up'[u] = up[u]
           /\ socket.transport = "polling" => posts'[s] = Append(posts[s], p) /\ up' = up
           /\ socket.transport = "ws" /\ link[s] = "open" => up'[s] = Append(up[s], p)
           /\ socket.transport = "ws" => posts' = posts
           /\ up'[s] = up[s] \/ up'[s] = Append(up[s], p)
           /\ posts'[s] = posts[s] \/ posts'[s] = Append(posts[s], p)
<1>1. posts \in Queues /\ up \in Queues
    BY DEF Shape, Queues
<1>2. Append(posts[s], p) \in Seq(Packet) /\ Append(up[s], p) \in Seq(Packet)
    BY <1>1, Appended DEF Queues
<1> QED BY <1>1, <1>2 DEF Transmit, Queues

\* What the stream yields, and what is left.
LEMMA TookIncoming ==
    ASSUME Shape, NEW s \in Sids, socket.sid = s, socket.transport \in {"polling", "ws"},
           Incoming # <<>>, TakeIncoming
    PROVE  /\ down' \in Queues /\ polls' \in Queues /\ got' \in Seq(Packet)
           /\ Incoming \in Seq(Packet)
           /\ \A u \in Sids : u # s => down'[u] = down[u] /\ polls'[u] = polls[u]
           /\ socket.transport = "ws" =>
                /\ down[s] # <<>> /\ Incoming = down[s] /\ down'[s] = Tail(down[s])
                /\ UNCHANGED <<got, polls>>
           /\ socket.transport = "polling" => down' = down
           /\ socket.transport = "polling" /\ got # <<>> =>
                Incoming = got /\ got' = Tail(got) /\ polls' = polls
           /\ socket.transport = "polling" /\ got = <<>> =>
                Incoming = polls[s] /\ got' = Tail(polls[s]) /\ polls'[s] = <<>>
<1>1. down \in Queues /\ polls \in Queues /\ got \in Seq(Packet)
    BY DEF Shape, Queues
<1>2. Incoming \in Seq(Packet)
    BY <1>1 DEF Incoming, Queues
<1>3. Tail(Incoming) \in Seq(Packet) /\ <<>> \in Seq(Packet)
    BY <1>2, Taken, NothingIn
<1>4. CASE socket.transport = "ws"
  <2>1. Incoming = down[s] /\ down' = [down EXCEPT ![s] = Tail(Incoming)] /\ UNCHANGED <<got, polls>>
      BY <1>1, <1>4 DEF Incoming, TakeIncoming, Queues
  <2> QED BY <1>1, <1>2, <1>3, <1>4, <2>1 DEF Queues
<1>5. CASE socket.transport = "polling" /\ got # <<>>
    BY <1>1, <1>2, <1>3, <1>5 DEF Incoming, TakeIncoming, Queues
<1>6. CASE socket.transport = "polling" /\ got = <<>>
  <2>1. /\ Incoming = polls[s] /\ got' = Tail(Incoming) /\ down' = down
        /\ polls' = [polls EXCEPT ![s] = <<>>]
      BY <1>6 DEF Incoming, TakeIncoming
  <2> QED BY <1>1, <1>2, <1>3, <1>6, <2>1 DEF Queues
<1> QED BY <1>4, <1>5, <1>6

\* Where a packet of the server goes.
LEMMA Delivered ==
    ASSUME Shape, NEW s \in Sids, NEW p \in Packet, Deliver(s, p)
    PROVE  /\ polls' \in Queues /\ down' \in Queues
           /\ \A u \in Sids : u # s => polls'[u] = polls[u] /\ down'[u] = down[u]
           /\ session[s] = "polling" =>
                /\ down' = down
                /\ polls'[s] = IF Len(polls[s]) < PollingBuffer /\ handler[s] # "swap"
                               THEN Append(polls[s], p) ELSE polls[s]
           /\ session[s] # "polling" =>
                /\ polls' = polls
                /\ down'[s] = IF link[s] = "open" THEN Append(down[s], p) ELSE down[s]
<1>1. polls \in Queues /\ down \in Queues
    BY DEF Shape, Queues
<1>2. Append(polls[s], p) \in Seq(Packet) /\ Append(down[s], p) \in Seq(Packet)
    BY <1>1, Appended DEF Queues
<1> QED BY <1>1, <1>2 DEF Deliver, Queues

LEMMA ClosedSession ==
    ASSUME Shape, NEW s \in Sids, CloseSession(s)
    PROVE  /\ session' = [session EXCEPT ![s] = "closed"]
           /\ link' = [link EXCEPT ![s] = IF session[s] = "ws" THEN "broken" ELSE @]
           /\ Deliver(s, "Close") /\ "Close" \in Packet
BY DEF CloseSession, Packet

LEMMA ClosedType ==
    ASSUME Shape, NEW s \in Sids, CloseSession(s)
    PROVE  /\ session' \in [Sids -> {"none", "polling", "ws", "closed"}]
           /\ link' \in [Sids -> {"none", "open", "broken"}]
<1>1. /\ session \in [Sids -> {"none", "polling", "ws", "closed"}]
      /\ link \in [Sids -> {"none", "open", "broken"}]
    BY DEF Shape
<1>2. /\ session' = [session EXCEPT ![s] = "closed"]
      /\ link' \in {link, [link EXCEPT ![s] = "broken"]}
  <2>1. CASE session[s] = "ws"
      BY <2>1, ClosedSession
  <2>2. CASE session[s] # "ws"
    <3>1. link' = [link EXCEPT ![s] = link[s]]
        BY <2>2, ClosedSession
    <3> QED BY <1>1, <3>1, ClosedSession
  <2> QED BY <2>1, <2>2
<1> QED BY ONLY <1>1, <1>2, s \in Sids

\* What the server's reader takes.
LEMMA ReadByServer ==
    ASSUME Shape, NEW s \in Sids, ServerReads(s)
    PROVE  /\ posts' \in Queues /\ up' \in Queues
           /\ session[s] = "polling" =>
                /\ posts[s] # <<>> /\ posts' = [posts EXCEPT ![s] = Tail(posts[s])] /\ up' = up
           /\ session[s] = "ws" =>
                /\ up[s] # <<>> /\ up' = [up EXCEPT ![s] = Tail(up[s])] /\ posts' = posts
           /\ missed' = [missed EXCEPT ![s] = 0]
           /\ \/ CloseSession(s) /\ (Has(posts[s], "Close") \/ Has(up[s], "Close"))
              \/ UNCHANGED <<session, link, polls, down>>
<1>1. posts \in Queues /\ up \in Queues /\ posts[s] \in Seq(Packet) /\ up[s] \in Seq(Packet)
    BY DEF Shape, Queues
<1>2. CASE session[s] = "polling"
  <2>1. /\ posts[s] # <<>> /\ posts' = [posts EXCEPT ![s] = Tail(posts[s])] /\ up' = up
        /\ Outgoing(s) = posts[s]
      BY <1>1, <1>2 DEF ServerReads, Outgoing, Queues
  <2>2. Tail(posts[s]) \in Seq(Packet) /\ (Head(posts[s]) = "Close" => Has(posts[s], "Close"))
      BY <1>1, <2>1, Taken
  <2> QED BY <1>1, <1>2, <2>1, <2>2 DEF ServerReads, Queues
<1>3. CASE session[s] = "ws"
  <2>1. /\ up[s] # <<>> /\ up' = [up EXCEPT ![s] = Tail(up[s])] /\ posts' = posts
        /\ Outgoing(s) = up[s]
      BY <1>1, <1>3 DEF ServerReads, Outgoing, Queues
  <2>2. Tail(up[s]) \in Seq(Packet) /\ (Head(up[s]) = "Close" => Has(up[s], "Close"))
      BY <1>1, <2>1, Taken
  <2> QED BY <1>1, <1>3, <2>1, <2>2 DEF ServerReads, Queues
<1> QED BY <1>2, <1>3 DEF ServerReads, Alive

-----------------------------------------------------------------------------
(* Shapes, and what the server has issued *)

LEMMA SidInUse ==
    ASSUME TypeOK, Course
    PROVE  /\ Finished \/ pc \in {"decide", "probe"} => handshake \in Sids /\ handshake = issued
           /\ pc = "connect" /\ handshake # NoSid => handshake \in Sids /\ handshake = issued
           /\ pc = "handshake" => issued + 1 \in Sids
           /\ pc = "connect" /\ handshake = NoSid => issued + 1 \in Sids /\ issued = 0
           /\ pc = "open" => issued \in Sids
<1>1. issued \in Nat /\ handshake \in Nat /\ issued <= 2 /\ NoSid = 0 /\ Budget \in {1, 2}
    BY Numbers
<1> QED BY <1>1 DEF Course, Sids, MaxSid

LEMMA ShapeStep == TypeOK /\ Shape /\ Course /\ SocketIsBuilt /\ [Next]_vars => Shape'
<1> SUFFICES ASSUME TypeOK, Shape, Course, SocketIsBuilt, [Next]_vars PROVE Shape'
    OBVIOUS
<1> USE DEF server, wire, client, builder
<1>0. /\ {"Ping", "Pong", "Noop", "Close", "Open", "probe", "5", "Msg"} \subseteq Packet
      /\ \A p \in Packet : <<p>> \in Seq(Packet)
    BY NothingIn DEF Packet
<1>1. ASSUME NEW b \in Builds, Start(b) PROVE Shape'
    BY <1>1 DEF Start, Shape
<1>2. CASE Build
  <2>0. UNCHANGED <<got, reader, connected, emits, unread, failing, missed, polls, posts, offer>>
      BY <1>2, BuildFrame
  <2>1. ASSUME NEW k \in {"http", "ws"}, Fail(k)
        PROVE  upgradable' \in BOOLEAN /\ failures' \subseteq {"http", "ws"}
      BY <2>1 DEF Fail, Shape
  <2>2. CASE Handshake \/ HandshakeLost
    <3>1. issued + 1 \in Sids
        BY <2>2, SidInUse DEF Handshake, HandshakeLost
    <3>2. /\ session' = [session EXCEPT ![issued + 1] = "polling"]
          /\ UNCHANGED <<handler, wire, socket>>
        BY <2>2 DEF Handshake, HandshakeLost, OpenPolling
    <3>3. upgradable' \in BOOLEAN /\ failures' \subseteq {"http", "ws"}
        BY <2>1, <2>2 DEF Handshake, HandshakeLost, Shape
    <3> QED BY <2>0, <3>1, <3>2, <3>3 DEF Shape
  <2>3. CASE HandshakeFails \/ IllegalUpgrade \/ ConnectFails
      BY <2>0, <2>1, <2>3 DEF HandshakeFails, IllegalUpgrade, ConnectFails, Shape
  <2>4. CASE DecideUpgrade
      BY <2>4 DEF DecideUpgrade, Shape
  <2>5. CASE DecidePolling
    <3>1. handshake \in 0..MaxSid
        BY DEF TypeOK, MaxSid
    <3> QED BY <2>5, <3>1 DEF DecidePolling, Built, Shape
  <2>6. CASE ConnectProbe
    <3>1. handshake \in Sids
        BY <2>6, SidInUse, Classified DEF ConnectProbe
    <3> QED BY <1>0, <2>6, <3>1, Classified DEF ConnectProbe, Shape
  <2>7. CASE ConnectDirect
    <3>1. issued + 1 \in Sids
        BY <2>7, SidInUse, Classified DEF ConnectDirect
    <3> QED BY <1>0, <2>7, <3>1 DEF ConnectDirect, Shape
  <2>8. CASE ProbeAnswered
    <3>1. handshake \in Sids /\ handshake \in 0..MaxSid
        BY <2>8, SidInUse DEF ProbeAnswered, TypeOK, MaxSid
    <3>2. down[handshake] \in Seq(Packet) /\ up[handshake] \in Seq(Packet)
        BY <3>1 DEF Shape
    <3>3. Tail(down[handshake]) \in Seq(Packet) /\ Append(up[handshake], "5") \in Seq(Packet)
        BY <1>0, <2>8, <3>2, Taken, Appended DEF ProbeAnswered
    <3> QED BY <2>8, <3>1, <3>3 DEF ProbeAnswered, Built, Shape
  <2>9. CASE OpenReceived
    <3>1. issued \in Sids /\ issued \in 0..MaxSid
        BY <2>9, SidInUse DEF OpenReceived, TypeOK, MaxSid
    <3> QED BY <2>9, <3>1, NothingIn DEF OpenReceived, Built, Shape
  <2>10. CASE ProbeFails
      BY <2>0, <2>1, <2>10 DEF ProbeFails, Shape
  <2> QED BY <1>2, <2>2, <2>3, <2>4, <2>5, <2>6, <2>7, <2>8, <2>9, <2>10 DEF Build
<1>3. CASE SocketStep
  <2>0. /\ UNCHANGED <<offer, upgradable, failures, session, handler, unread, failing, missed, socket>>
        /\ socket.transport \in {"polling", "ws"} /\ socket.sid \in Sids
      BY <1>3, SocketFrame, SidInUse
  <2>1. CASE SocketConnect
    <3>1. posts' \in Queues /\ up' \in Queues
        BY <1>0, <2>0, <2>1, Transmitted DEF SocketConnect
    <3> QED BY <2>0, <2>1, <3>1 DEF SocketConnect, Shape, Queues
  <2>7. CASE SocketConnectFails
    <3>1. posts' \in Queues /\ up' \in Queues
      <4>1. CASE Transmit("Pong")
          BY <1>0, <2>0, <4>1, Transmitted
      <4>2. CASE UNCHANGED <<up, posts>>
          BY <4>2 DEF Shape, Queues
      <4> QED BY <2>7, <4>1, <4>2 DEF SocketConnectFails
    <3> QED BY <2>0, <2>7, <3>1 DEF SocketConnectFails, Shape, Queues
  <2>2. CASE EmitDone
    <3>1. lock \in Packet
        BY <1>0, <2>2 DEF EmitDone, TypeOK
    <3>2. posts' \in Queues /\ up' \in Queues
        BY <2>0, <2>2, <3>1, Transmitted DEF EmitDone
    <3> QED BY <2>0, <2>2, <3>2 DEF EmitDone, Shape, Queues
  <2>3. ASSUME NEW p, EmitLocks(p) PROVE Shape'
      BY <2>3 DEF EmitLocks, Shape
  <2>4. CASE AnswerPing
    <3>1. down' \in Queues /\ polls' \in Queues /\ got' \in Seq(Packet)
        BY <2>0, <2>4, TookIncoming DEF AnswerPing
    <3>2. posts' \in Queues /\ up' \in Queues
      <4>1. CASE connected
          BY <1>0, <2>0, <2>4, <4>1, Transmitted DEF AnswerPing
      <4>2. CASE ~connected
          BY <2>4, <4>2 DEF AnswerPing, Shape, Queues
      <4> QED BY <4>1, <4>2
    <3> QED BY <2>0, <2>4, <3>1, <3>2 DEF AnswerPing, Shape, Queues
  <2>5. CASE LosePing \/ TakeOther
    <3>1. down' \in Queues /\ polls' \in Queues /\ got' \in Seq(Packet)
        BY <2>0, <2>5, TookIncoming DEF LosePing, TakeOther
    <3>2. connected' \in BOOLEAN
        BY <2>5 DEF LosePing, TakeOther, Shape
    <3> QED BY <2>0, <2>5, <3>1, <3>2 DEF LosePing, TakeOther, Shape, Queues
  <2>6. CASE StreamEnds \/ LinkBreaks
      BY <2>0, <2>6 DEF StreamEnds, LinkBreaks, Shape
  <2> QED BY <1>3, <2>1, <2>2, <2>3, <2>4, <2>5, <2>6, <2>7 DEF SocketStep, Poll
<1>4. ASSUME NEW s \in Sids, ServerStep(s) PROVE Shape'
  <2>0. up[s] \in Seq(Packet) /\ down[s] \in Seq(Packet) /\ polls[s] \in Seq(Packet)
      BY DEF Shape
  <2>1. CASE HandleProbe(s)
    <3>1. Tail(up[s]) \in Seq(Packet) /\ Append(down[s], "probe") \in Seq(Packet)
        BY <1>0, <2>0, <2>1, Taken, Appended DEF HandleProbe
    <3> QED BY <2>1, <3>1 DEF HandleProbe, Shape
  <2>2. CASE DrainPolling(s)
    <3>1. Append(polls[s], "Noop") \in Seq(Packet)
        BY <1>0, <2>0, Appended
    <3>2. polls' \in [Sids -> Seq(Packet)]
        BY <2>2, <3>1 DEF DrainPolling, Shape
    <3> QED BY <2>2, <3>2 DEF DrainPolling, Shape
  <2>3. CASE HandleUpgrade(s)
    <3>1. Tail(up[s]) \in Seq(Packet)
        BY <2>0, <2>3, Taken DEF HandleUpgrade
    <3> QED BY <2>3, <3>1, NothingIn DEF HandleUpgrade, Shape
  <2>4. CASE Swap(s) \/ Store(s) \/ HandlerGivesUp(s) \/ ReaderSeesEnd(s) \/ PingFails(s)
      BY <2>4 DEF Swap, Store, HandlerGivesUp, ReaderSeesEnd, PingFails, Shape
  <2>5. CASE PingTick(s)
    <3>1. polls' \in Queues /\ down' \in Queues
        BY <1>0, <2>5, Delivered DEF PingTick
    <3>2. missed' \in [Sids -> Nat]
        BY <2>5 DEF PingTick, Shape
    <3> QED BY <2>5, <3>1, <3>2 DEF PingTick, Shape, Queues
  <2>6. CASE PingTimeout(s)
    <3>1. CloseSession(s) /\ polls' \in Queues /\ down' \in Queues
        BY <2>6, ClosedSession, Delivered DEF PingTimeout
    <3>2. /\ session' \in [Sids -> {"none", "polling", "ws", "closed"}]
          /\ link' \in [Sids -> {"none", "open", "broken"}]
        BY <3>1, ClosedType
    <3> QED BY <2>6, <3>1, <3>2 DEF PingTimeout, Shape, Queues
  <2>7. CASE ServerReads(s)
    <3>0. missed' \in [Sids -> Nat]
        BY <2>7 DEF ServerReads, Shape
    <3>1. posts' \in Queues /\ up' \in Queues
        BY <2>7, ReadByServer
    <3>2. CASE CloseSession(s)
      <4>1. polls' \in Queues /\ down' \in Queues
          BY <3>2, ClosedSession, Delivered
      <4>2. /\ session' \in [Sids -> {"none", "polling", "ws", "closed"}]
            /\ link' \in [Sids -> {"none", "open", "broken"}]
          BY <3>2, ClosedType
      <4> QED BY <2>7, <3>0, <3>1, <4>1, <4>2 DEF ServerReads, Shape, Queues
    <3>3. CASE UNCHANGED <<session, link, polls, down>>
        BY <2>7, <3>0, <3>1, <3>3 DEF ServerReads, Shape, Queues
    <3> QED BY <2>7, <3>2, <3>3, ReadByServer
  <2> QED BY <1>4, <2>1, <2>2, <2>3, <2>4, <2>5, <2>6, <2>7 DEF ServerStep, Handle, Ping
<1>5. CASE UNCHANGED vars
    BY <1>5 DEF vars, Shape
<1> QED BY <1>1, <1>2, <1>3, <1>4, <1>5, Steps

\* Sessions, handlers and websockets exist only under ids the server has issued.
LEMMA OnlyIssuedStep ==
    TypeOK /\ Shape /\ Course /\ SocketIsBuilt /\ OnlyIssued /\ [Next]_vars => OnlyIssued'
<1> SUFFICES ASSUME TypeOK, Shape, Course, SocketIsBuilt, OnlyIssued, [Next]_vars,
                    NEW u \in Sids, u > issued'
             PROVE  /\ session'[u] = "none" /\ handler'[u] = "none"
                    /\ link'[u] = "none" /\ down'[u] = <<>>
    BY DEF OnlyIssued
<1> USE DEF server, wire, client, builder
<1>0. issued \in Nat /\ handshake \in Nat /\ handshake <= issued /\ Sids \subseteq Nat
    BY SidNumbers DEF TypeOK, MaxSid
<1>1. ASSUME issued' \in Nat, issued' >= issued,
             UNCHANGED <<session[u], handler[u], link[u], down[u]>>
      PROVE  /\ session'[u] = "none" /\ handler'[u] = "none"
             /\ link'[u] = "none" /\ down'[u] = <<>>
    BY <1>0, <1>1 DEF OnlyIssued
<1>2. ASSUME NEW b \in Builds, Start(b)
      PROVE  issued' = issued /\ UNCHANGED <<session, handler, link, down>>
    BY <1>2 DEF Start
<1>3. CASE Build
  <2>1. CASE Handshake \/ HandshakeLost
    <3>1. issued' = issued + 1 /\ UNCHANGED <<handler, link, down>>
        BY <2>1 DEF Handshake, HandshakeLost, OpenPolling
    <3>2. u # issued + 1 /\ u > issued
        BY <1>0, <3>1
    <3>3. session'[u] = session[u]
        BY <2>1, <3>2 DEF Handshake, HandshakeLost, OpenPolling, Shape
    <3> QED BY <3>1, <3>2, <3>3 DEF OnlyIssued
  <2>2. CASE HandshakeFails \/ DecideUpgrade \/ DecidePolling \/ IllegalUpgrade \/ ConnectFails
      BY <1>0, <1>1, <2>2 DEF HandshakeFails, DecideUpgrade, DecidePolling, IllegalUpgrade,
                              ConnectFails
  <2>3. CASE ConnectProbe
    <3>1. issued' = issued /\ u # handshake
        BY <1>0, <2>3 DEF ConnectProbe
    <3> QED BY <1>0, <1>1, <2>3, <3>1, Classified DEF ConnectProbe, Shape
  <2>4. CASE ConnectDirect
    <3>1. issued' = issued + 1
        BY <2>4 DEF ConnectDirect
    <3>2. u # issued + 1 /\ u > issued
        BY <1>0, <3>1
    <3>3. UNCHANGED <<session[u], handler[u], link[u], down[u]>>
        BY <2>4, <3>2 DEF ConnectDirect, Shape
    <3> QED BY <3>2, <3>3 DEF OnlyIssued
  <2>5. CASE ProbeAnswered \/ OpenReceived \/ ProbeFails
    <3>1. issued' = issued /\ u # issued /\ u # handshake
        BY <1>0, <2>5 DEF ProbeAnswered, OpenReceived, ProbeFails
    <3> QED BY <1>0, <1>1, <2>5, <3>1 DEF ProbeAnswered, OpenReceived, ProbeFails, Shape
  <2> QED BY <1>3, <2>1, <2>2, <2>3, <2>4, <2>5 DEF Build
<1>4. CASE SocketStep
  <2>0. /\ UNCHANGED <<issued, session, handler>> /\ socket.transport \in {"polling", "ws"}
        /\ socket.sid \in Sids /\ socket.sid = handshake
      BY <1>4, SocketFrame, SidInUse
  <2>1. u # socket.sid
      BY <1>0, <2>0
  <2>2. CASE SocketConnect \/ SocketConnectFails \/ EmitDone
      BY <1>0, <1>1, <2>0, <2>2 DEF SocketConnect, SocketConnectFails, EmitDone
  <2>3. ASSUME NEW p, EmitLocks(p) PROVE UNCHANGED <<link, down>>
      BY <2>3 DEF EmitLocks
  <2>4. CASE AnswerPing \/ LosePing \/ TakeOther
    <3>1. link' = link /\ down'[u] = down[u]
        BY <2>0, <2>1, <2>4, TookIncoming DEF AnswerPing, LosePing, TakeOther
    <3> QED BY <1>0, <1>1, <2>0, <3>1
  <2>5. CASE StreamEnds \/ LinkBreaks
    <3>1. link'[u] = link[u] /\ down' = down
        BY <2>1, <2>5 DEF StreamEnds, LinkBreaks, Shape
    <3> QED BY <1>0, <1>1, <2>0, <3>1
  <2> QED BY <1>0, <1>1, <1>4, <2>0, <2>2, <2>3, <2>4, <2>5 DEF SocketStep, Poll
<1>5. ASSUME NEW s \in Sids, ServerStep(s)
      PROVE  issued' = issued /\ UNCHANGED <<session[u], handler[u], link[u], down[u]>>
  <2>1. issued' = issued /\ u > issued
      BY <1>5, ServerFrame
  <2>2. u # s
      BY <1>5, <2>1, ServerFrame DEF OnlyIssued, Alive
  <2> QED BY <1>5, <2>1, <2>2, ServerFrame
<1>6. CASE UNCHANGED vars
    BY <1>0, <1>1, <1>6 DEF vars
<1> QED BY <1>0, <1>1, <1>2, <1>3, <1>4, <1>5, <1>6, Steps

-----------------------------------------------------------------------------
(* Type correctness *)

\* Where the builder and the Socket stand, and who holds the transport mutex.
LEMMA LockStep ==
    ASSUME TypeOK, Shape, SocketIsBuilt, [Next]_vars
    PROVE  /\ pc' \in {"start", "handshake", "decide", "connect", "probe", "open", "built",
                       "user", "emit", "failed"}
           /\ lock' \in {"free", "Msg", "Close"} /\ (lock' = "free" <=> pc' # "emit")
<1> USE DEF server, wire, client, builder
<1>0. /\ lock \in {"free", "Msg", "Close"} /\ (lock = "free" <=> pc # "emit")
      /\ pc \in {"start", "handshake", "decide", "connect", "probe", "open", "built",
                 "user", "emit", "failed"}
    BY DEF TypeOK
<1>1. ASSUME NEW b \in Builds, Start(b)
      PROVE  lock' = lock /\ pc # "emit" /\ pc' \in {"connect", "handshake"}
    BY <1>1 DEF Start
<1>2. CASE Build
  <2>1. pc' \in {"handshake", "decide", "connect", "probe", "open", "built", "failed"}
    <3>1. CASE Handshake \/ HandshakeLost \/ HandshakeFails \/ DecideUpgrade
        BY <3>1 DEF Handshake, HandshakeLost, HandshakeFails, DecideUpgrade, Fail
    <3>2. CASE IllegalUpgrade \/ ConnectProbe \/ ConnectDirect \/ ConnectFails \/ ProbeFails
        BY <3>2 DEF IllegalUpgrade, ConnectProbe, ConnectDirect, ConnectFails, ProbeFails, Fail
    <3>3. CASE DecidePolling \/ ProbeAnswered \/ OpenReceived
        BY <3>3 DEF DecidePolling, ProbeAnswered, OpenReceived, Built
    <3> QED BY <1>2, <3>1, <3>2, <3>3 DEF Build
  <2> QED BY <1>0, <1>2, <2>1, BuildFrame
<1>3. CASE SocketStep
  <2>1. CASE SocketConnect \/ SocketConnectFails \/ EmitDone
      BY <1>0, <2>1 DEF SocketConnect, SocketConnectFails, EmitDone
  <2>2. ASSUME NEW p \in {"Msg", "Close"}, EmitLocks(p)
        PROVE  lock' = p /\ pc' = "emit"
      BY <2>2 DEF EmitLocks
  <2>3. CASE Poll \/ LinkBreaks
      BY <1>0, <2>3 DEF Poll, AnswerPing, LosePing, TakeOther, StreamEnds, LinkBreaks
  <2> QED BY <1>3, <2>1, <2>2, <2>3 DEF SocketStep
<1>4. ASSUME NEW s \in Sids, ServerStep(s) PROVE UNCHANGED <<lock, pc>>
    BY <1>4, ServerFrame
<1>5. CASE UNCHANGED vars
    BY <1>0, <1>5 DEF vars
<1> QED BY <1>0, <1>1, <1>2, <1>3, <1>4, <1>5, Steps

\* No session misses more pings than the limit, or is sent more than its buffer holds.
LEMMA BoundsStep ==
    ASSUME TypeOK, Shape, Course, SocketIsBuilt, [Next]_vars, NEW u \in Sids
    PROVE  missed'[u] \in 0..MissLimit /\ Len(polls'[u]) <= PollingBuffer
<1> USE DEF server, wire, client, builder
<1>0. /\ missed[u] \in 0..MissLimit /\ Len(polls[u]) <= PollingBuffer
      /\ polls[u] \in Seq(Packet) /\ Len(polls[u]) \in Nat
      /\ MissLimit \in Nat /\ PollingBuffer \in Nat /\ MissLimit # 0 /\ Len(<<>>) = 0
    BY ClientAssumption, NothingIn DEF TypeOK, Shape
<1>1. CASE UNCHANGED <<missed, polls>>
    BY <1>0, <1>1
<1>2. ASSUME NEW b \in Builds, Start(b) PROVE UNCHANGED <<missed, polls>>
    BY <1>2 DEF Start
<1>3. CASE SocketStep
  <2>0. missed' = missed /\ socket.transport \in {"polling", "ws"} /\ socket.sid \in Sids
      BY <1>3, SocketFrame, SidInUse
  <2>1. CASE AnswerPing \/ LosePing \/ TakeOther
    <3>1. polls'[u] = polls[u] \/ polls'[u] = <<>>
        BY <2>0, <2>1, TookIncoming DEF AnswerPing, LosePing, TakeOther
    <3> QED BY <1>0, <2>0, <3>1
  <2>2. CASE SocketConnect \/ SocketConnectFails \/ EmitDone \/ StreamEnds \/ LinkBreaks
      BY <1>1, <2>2 DEF SocketConnect, SocketConnectFails, EmitDone, StreamEnds, LinkBreaks
  <2>3. ASSUME NEW p, EmitLocks(p) PROVE UNCHANGED <<missed, polls>>
      BY <2>3 DEF EmitLocks
  <2> QED BY <1>1, <1>3, <2>1, <2>2, <2>3 DEF SocketStep, Poll
<1>4. ASSUME NEW s \in Sids, ServerStep(s), u # s PROVE UNCHANGED <<missed[u], polls[u]>>
    BY <1>4, ServerFrame
<1>5. CASE ServerStep(u)
  <2>1. \A p \in Packet : Len(Append(polls[u], p)) = Len(polls[u]) + 1
      BY <1>0, Appended
  <2>2. {"Ping", "Close", "Noop"} \subseteq Packet
      BY DEF Packet
  <2>3. CASE \/ HandleProbe(u) \/ Swap(u) \/ Store(u) \/ HandlerGivesUp(u)
             \/ ReaderSeesEnd(u) \/ PingFails(u)
      BY <1>1, <2>3 DEF HandleProbe, Swap, Store, HandlerGivesUp, ReaderSeesEnd, PingFails
  <2>4. CASE HandleUpgrade(u)
      BY <1>0, <2>4 DEF HandleUpgrade, Shape
  <2>5. CASE DrainPolling(u)
    <3>1. missed' = missed
        BY <2>5 DEF DrainPolling
    <3>2. \/ polls'[u] = polls[u]
          \/ Len(polls[u]) < PollingBuffer /\ polls'[u] = Append(polls[u], "Noop")
        BY <2>5 DEF DrainPolling, Shape
    <3> QED BY <1>0, <2>1, <2>2, <3>1, <3>2
  <2>6. ASSUME NEW p \in Packet, Deliver(u, p) PROVE Len(polls'[u]) <= PollingBuffer
    <3>1. \/ polls'[u] = polls[u]
          \/ Len(polls[u]) < PollingBuffer /\ polls'[u] = Append(polls[u], p)
        BY <2>6, Delivered
    <3> QED BY <1>0, <2>1, <3>1
  <2>7. CASE PingTick(u)
    <3>1. missed[u] < MissLimit /\ missed'[u] = missed[u] + 1
        BY <2>7 DEF PingTick, Shape
    <3>2. missed'[u] \in 0..MissLimit
        BY <1>0, <3>1
    <3> QED BY <2>2, <2>6, <2>7, <3>2 DEF PingTick
  <2>8. CASE PingTimeout(u)
      BY <1>0, <2>6, <2>8, ClosedSession DEF PingTimeout
  <2>9. CASE ServerReads(u)
    <3>1. missed'[u] = 0
        BY <2>9 DEF ServerReads, Shape
    <3>2. Len(polls'[u]) <= PollingBuffer
        BY <1>0, <2>6, <2>9, ClosedSession DEF ServerReads
    <3> QED BY <1>0, <3>1, <3>2
  <2> QED BY <1>5, <2>3, <2>4, <2>5, <2>7, <2>8, <2>9 DEF ServerStep, Handle, Ping
<1>6. CASE UNCHANGED vars
    BY <1>1, <1>6 DEF vars
<1>7. CASE Build
    BY <1>1, <1>7, BuildFrame
<1> QED BY <1>0, <1>1, <1>2, <1>3, <1>4, <1>5, <1>6, <1>7, Steps

\* What the builder was asked for, and the id it knows.
LEMMA NamesStep ==
    ASSUME TypeOK, Shape, Course, SocketIsBuilt, [Next]_vars
    PROVE  /\ asked' \in Builds \cup {"none"} /\ how' \in Builds \cup {"none", "polling"}
           /\ issued' \in Nat /\ handshake' \in 0..issued'
<1> USE DEF server, wire, client, builder
<1>0. /\ asked \in Builds \cup {"none"} /\ how \in Builds \cup {"none", "polling"}
      /\ issued \in Nat /\ handshake \in 0..issued /\ NoSid = 0
    BY Numbers DEF TypeOK
<1>1. CASE UNCHANGED <<asked, how, issued, handshake>>
    BY <1>0, <1>1
<1>2. ASSUME NEW b \in Builds, Start(b)
      PROVE  asked' = b /\ how' = b /\ UNCHANGED <<issued, handshake>>
    BY <1>2 DEF Start
<1>3. CASE Build
  <2>1. ASSUME NEW k, Fail(k)
        PROVE  /\ asked' = asked /\ how' \in {how, "polling"} /\ handshake' \in {handshake, NoSid}
      BY <2>1 DEF Fail
  <2>2. CASE Handshake
      BY <1>0, <2>2 DEF Handshake, OpenPolling
  <2>3. CASE HandshakeLost
      BY <1>0, <2>1, <2>3 DEF HandshakeLost, OpenPolling
  <2>4. CASE HandshakeFails \/ IllegalUpgrade \/ ConnectFails \/ ProbeFails
      BY <1>0, <2>1, <2>4 DEF HandshakeFails, IllegalUpgrade, ConnectFails, ProbeFails
  <2>5. CASE DecideUpgrade \/ DecidePolling \/ ConnectProbe \/ ProbeAnswered
      BY <1>1, <2>5 DEF DecideUpgrade, DecidePolling, ConnectProbe, ProbeAnswered
  <2>6. CASE ConnectDirect
      BY <1>0, <2>6 DEF ConnectDirect
  <2>7. CASE OpenReceived
      BY <1>0, <2>7 DEF OpenReceived
  <2> QED BY <1>3, <2>2, <2>3, <2>4, <2>5, <2>6, <2>7 DEF Build
<1>4. CASE SocketStep
    BY <1>1, <1>4, SocketFrame
<1>5. ASSUME NEW s \in Sids, ServerStep(s) PROVE UNCHANGED <<asked, how, issued, handshake>>
    BY <1>5, ServerFrame
<1>6. CASE UNCHANGED vars
    BY <1>1, <1>6 DEF vars
<1> QED BY <1>0, <1>1, <1>2, <1>3, <1>4, <1>5, <1>6, Steps

LEMMA TypeStep ==
    TypeOK /\ Shape /\ Course /\ SocketIsBuilt /\ OnlyIssued /\ [Next]_vars => TypeOK'
<1> SUFFICES ASSUME TypeOK, Shape, Course, SocketIsBuilt, OnlyIssued, [Next]_vars PROVE TypeOK'
    OBVIOUS
<1>1. Shape' /\ Course' /\ SocketIsBuilt' /\ OnlyIssued'
    BY ShapeStep, CourseStep, SocketIsBuiltStep, OnlyIssuedStep
<1>2. /\ asked' \in Builds \cup {"none"} /\ how' \in Builds \cup {"none", "polling"}
      /\ issued' \in Nat /\ handshake' \in 0..issued'
    BY NamesStep
<1>3. issued' \in 0..MaxSid
    BY <1>1, <1>2 DEF Course, Budget, MaxSid
<1>4. socket'.sid = handshake' \/ socket' = NoSocket
    BY <1>1 DEF SocketIsBuilt, NoSocket
<1>5. \A s \in Sids : /\ session'[s] \in {"none", "polling", "ws", "closed"}
                      /\ session'[s] # "none" => s <= issued'
  <2>1. ASSUME NEW s \in Sids, session'[s] # "none" PROVE s <= issued'
      BY <1>1, <1>2, <2>1, SidNumbers DEF OnlyIssued
  <2> QED BY <1>1, <2>1 DEF Shape
<1>6. \A s \in Sids : missed'[s] \in 0..MissLimit /\ Len(polls'[s]) <= PollingBuffer
    BY BoundsStep
<1> QED BY <1>2, <1>3, <1>4, <1>5, <1>6, LockStep DEF TypeOK, NoSocket

-----------------------------------------------------------------------------
(* The two sides agree on the transport *)

\* A server task of the session itself: what it finds and leaves in each phase.
LEMMA BeforeStep ==
    ASSUME Shape, NEW s \in Sids, ServerStep(s), Before(s)
    PROVE  Before(s)'
<1> USE DEF wire
<1>1. CASE PingTick(s) \/ PingFails(s)
    BY <1>1 DEF PingTick, PingFails, Deliver, Before, Alive
<1>2. CASE PingTimeout(s)
    BY <1>2, CloseSessionFrame DEF PingTimeout, Before, Alive, Shape
<1>3. CASE ServerReads(s)
  <2>1. CASE CloseSession(s)
      BY <1>3, <2>1, CloseSessionFrame DEF ServerReads, Before, Alive, Shape
  <2>2. CASE UNCHANGED <<session, link, polls, down>>
      BY <1>3, <2>2 DEF ServerReads, Before
  <2> QED BY <1>3, <2>1, <2>2 DEF ServerReads
<1>4. ~Handle(s) /\ ~ReaderSeesEnd(s)
    BY DEF Before, Handle, HandleProbe, DrainPolling, HandleUpgrade, Swap, Store,
           HandlerGivesUp, ReaderSeesEnd
<1> QED BY <1>1, <1>2, <1>3, <1>4 DEF ServerStep, Ping

LEMMA ProbingStep ==
    ASSUME Shape, NEW s \in Sids, ServerStep(s), Probing(s)
    PROVE  Probing(s)'
<1> USE DEF wire
<1>1. CASE PingTick(s) \/ PingFails(s)
    BY <1>1 DEF PingTick, PingFails, Deliver, Probing, Alive
<1>2. CASE PingTimeout(s)
    BY <1>2, CloseSessionFrame DEF PingTimeout, Probing, Alive, Shape
<1>3. CASE ServerReads(s)
  <2>0. up' = up /\ handler' = handler
      BY <1>3, ReadByServer DEF ServerReads, Probing, Alive
  <2>1. CASE CloseSession(s)
      BY <1>3, <2>0, <2>1, CloseSessionFrame DEF ServerReads, Probing, Alive, Shape
  <2>2. CASE UNCHANGED <<session, link, polls, down>>
      BY <2>0, <2>2 DEF Probing
  <2> QED BY <1>3, <2>1, <2>2 DEF ServerReads
<1>4. CASE HandleProbe(s)
  <2>1. up[s] = <<"probe">> /\ Tail(<<"probe">>) = <<>>
      BY <1>4 DEF HandleProbe, Probing
  <2> QED BY <1>4, <2>1 DEF HandleProbe, Probing, Shape
<1>5. CASE DrainPolling(s)
    BY <1>5 DEF DrainPolling, Probing, Shape
<1>6. ~HandleUpgrade(s) /\ ~Swap(s) /\ ~Store(s) /\ ~HandlerGivesUp(s) /\ ~ReaderSeesEnd(s)
    BY DEF Probing, HandleUpgrade, Swap, Store, HandlerGivesUp, ReaderSeesEnd
<1> QED BY <1>1, <1>2, <1>3, <1>4, <1>5, <1>6 DEF ServerStep, Ping, Handle

LEMMA BrokenStays ==
    ASSUME Shape, NEW s \in Sids, ServerStep(s), link[s] = "broken"
    PROVE  link'[s] = "broken"
<1> USE DEF wire
<1>1. CASE Handle(s) \/ ReaderSeesEnd(s)
    BY <1>1 DEF Handle, HandleProbe, DrainPolling, HandleUpgrade, Swap, Store,
                HandlerGivesUp, ReaderSeesEnd, Shape
<1>2. CASE Ping(s) \/ ServerReads(s)
    BY <1>2 DEF Ping, PingTick, PingFails, PingTimeout, ServerReads, CloseSession, Shape
<1> QED BY <1>1, <1>2 DEF ServerStep

LEMMA OpeningStep ==
    ASSUME Shape, NEW s \in Sids, ServerStep(s), Opening(s)
    PROVE  Opening(s)'
<1> USE DEF wire
<1> SUFFICES ASSUME link[s] # "broken" PROVE Opening(s)'
    BY BrokenStays DEF Opening
<1>1. CASE PingTick(s) \/ PingFails(s)
    BY <1>1 DEF PingTick, PingFails, Opening
<1>2. CASE PingTimeout(s)
    BY <1>2, CloseSessionFrame DEF PingTimeout, Opening, Alive
<1>3. CASE ServerReads(s)
    BY <1>3, CloseSessionFrame DEF ServerReads, Opening, Alive
<1>4. CASE Store(s)
    BY <1>4 DEF Store, Opening, Shape
<1>5. /\ ~HandleProbe(s) /\ ~DrainPolling(s) /\ ~HandleUpgrade(s) /\ ~Swap(s)
      /\ ~HandlerGivesUp(s) /\ ~ReaderSeesEnd(s)
    BY DEF Opening, HandleProbe, DrainPolling, HandleUpgrade, Swap, HandlerGivesUp,
           ReaderSeesEnd
<1> QED BY <1>1, <1>2, <1>3, <1>4, <1>5 DEF ServerStep, Ping, Handle

LEMMA OnWebsocketStep ==
    ASSUME Shape, NEW s \in Sids, ServerStep(s), OnWebsocket(s)
    PROVE  OnWebsocket(s)'
<1> USE DEF wire
<1> SUFFICES ASSUME link[s] = "open" PROVE OnWebsocket(s)'
    BY BrokenStays DEF OnWebsocket
<1>0. pc' = pc
    BY ServerFrame DEF builder
<1>1. CASE PingTick(s) \/ PingFails(s)
    BY <1>0, <1>1 DEF PingTick, PingFails, OnWebsocket
<1>2. CASE PingTimeout(s)
    BY <1>0, <1>2, CloseSessionFrame DEF PingTimeout, OnWebsocket, Alive, Shape
<1>3. CASE ServerReads(s)
  <2>1. CASE session[s] = "polling"
    <3>1. up' = up /\ handler' = handler
        BY <1>3, <2>1, ReadByServer DEF ServerReads
    <3>2. CASE CloseSession(s)
        BY <1>0, <2>1, <3>1, <3>2, CloseSessionFrame DEF OnWebsocket, Shape
    <3>3. CASE UNCHANGED <<session, link, polls, down>>
        BY <1>0, <3>1, <3>3 DEF OnWebsocket
    <3> QED BY <1>3, <3>2, <3>3 DEF ServerReads
  <2>2. CASE session[s] = "ws"
    <3>1. handler' = handler /\ handler[s] = "done"
        BY <1>3, <2>2 DEF ServerReads, OnWebsocket
    <3>2. CASE CloseSession(s)
        BY <2>2, <3>2, CloseSessionFrame DEF OnWebsocket
    <3>3. CASE UNCHANGED <<session, link, polls, down>>
        BY <2>2, <3>1, <3>3 DEF OnWebsocket
    <3> QED BY <1>3, <3>2, <3>3 DEF ServerReads
  <2> QED BY <1>3, <2>1, <2>2 DEF ServerReads, Alive
<1>4. CASE DrainPolling(s)
    BY <1>0, <1>4 DEF DrainPolling, OnWebsocket, Shape
<1>5. CASE HandleUpgrade(s)
    BY <1>0, <1>5 DEF HandleUpgrade, OnWebsocket, Shape
<1>6. CASE Swap(s)
    BY <1>0, <1>6 DEF Swap, OnWebsocket, Shape
<1>7. CASE Store(s)
    BY <1>0, <1>7 DEF Store, OnWebsocket, Shape
<1>8. CASE ReaderSeesEnd(s)
    BY <1>0, <1>8 DEF ReaderSeesEnd, OnWebsocket
<1>9. ~HandleProbe(s) /\ ~HandlerGivesUp(s)
    BY DEF HandleProbe, HandlerGivesUp, OnWebsocket
<1> QED BY <1>1, <1>2, <1>3, <1>4, <1>5, <1>6, <1>7, <1>8, <1>9 DEF ServerStep, Ping, Handle

\* The builder and the server's handler come to the websocket together.
LEMMA AgreedStep ==
    /\ TypeOK /\ Shape /\ Course /\ SocketIsBuilt /\ OnlyIssued /\ Agreed /\ [Next]_vars
    => Agreed'
<1> SUFFICES ASSUME TypeOK, Shape, Course, SocketIsBuilt, OnlyIssued, Agreed, [Next]_vars
             PROVE  Agreed'
    OBVIOUS
<1> USE DEF server, wire, client, builder
<1>0. issued \in Nat /\ NoSid = 0 /\ Sids \subseteq Nat
    BY Numbers, SidNumbers
<1>1. ASSUME NEW b \in Builds, Start(b) PROVE Agreed'
    BY <1>1, ClientAssumption DEF Start, Agreed, Finished
<1>2. CASE Build
  <2>1. ASSUME pc' \in {"handshake", "failed"} PROVE Agreed'
      BY <2>1 DEF Agreed, Finished
  <2>2. CASE HandshakeLost \/ HandshakeFails \/ IllegalUpgrade \/ ConnectFails \/ ProbeFails
      BY <2>1, <2>2 DEF HandshakeLost, HandshakeFails, IllegalUpgrade, ConnectFails, ProbeFails,
                        Fail
  <2>3. CASE Handshake
    <3>1. issued + 1 \in Sids /\ issued + 1 > issued
        BY <1>0, <2>3, SidInUse DEF Handshake
    <3>2. /\ handler[issued + 1] = "none" /\ link[issued + 1] = "none"
          /\ down[issued + 1] = <<>>
        BY <3>1 DEF OnlyIssued
    <3>3. Before(handshake)'
        BY <2>3, <3>1, <3>2 DEF Handshake, OpenPolling, Before, Shape
    <3> QED BY <2>3, <3>3 DEF Handshake, Agreed, Finished
  <2>4. CASE DecideUpgrade \/ DecidePolling
    <3>1. Before(handshake)'
        BY <2>4 DEF DecideUpgrade, DecidePolling, Agreed, Before
    <3>2. CASE DecideUpgrade
        BY <3>1, <3>2 DEF DecideUpgrade, Agreed, Finished
    <3>3. CASE DecidePolling
        BY <3>1, <3>3 DEF DecidePolling, Built, Agreed, Finished
    <3> QED BY <2>4, <3>2, <3>3
  <2>5. CASE ConnectProbe
    <3>1. handshake # NoSid /\ handshake \in Sids /\ how # "websocket"
        BY <2>5, SidInUse, Classified DEF ConnectProbe, Course
    <3>2. Before(handshake)
        BY <2>5, <3>1 DEF ConnectProbe, Agreed
    <3>3. Probing(handshake)'
        BY <2>5, <3>1, <3>2, Classified DEF ConnectProbe, Before, Probing, Shape
    <3> QED BY <2>5, <3>3 DEF ConnectProbe, Agreed, Finished
  <2>6. CASE ConnectDirect
    <3>1. issued + 1 \in Sids /\ issued + 1 > issued
        BY <1>0, <2>6, SidInUse, Classified DEF ConnectDirect
    <3>2. session[issued + 1] = "none"
        BY <3>1 DEF OnlyIssued
    <3>3. Opening(issued)'
        BY <2>6, <3>1, <3>2 DEF ConnectDirect, Opening, Shape
    <3> QED BY <2>6, <3>3 DEF ConnectDirect, Agreed, Finished
  <2>7. CASE ProbeAnswered
    <3> DEFINE s == handshake
    <3>1. s \in Sids /\ Probing(s)
        BY <2>7, SidInUse DEF ProbeAnswered, Agreed
    <3>2. handler[s] \in {"drain", "await5"} /\ up[s] = <<>>
        BY <2>7, <3>1 DEF ProbeAnswered, Probing
    <3>3. up'[s] = <<"5">>
        BY <2>7, <3>1, <3>2 DEF ProbeAnswered, Shape
    <3>4. UNCHANGED <<handshake, session, handler, link>> /\ pc' = "built"
        BY <2>7 DEF ProbeAnswered, Built
    <3>5. <<"5">> # <<>> /\ Head(<<"5">>) = "5"
        OBVIOUS
    <3>6. OnWebsocket(handshake)'
        BY <3>1, <3>2, <3>3, <3>4, <3>5 DEF OnWebsocket, Probing
    <3> QED BY <2>7, <3>6 DEF ProbeAnswered, Built, Agreed, Finished
  <2>8. CASE OpenReceived
    <3>1. issued \in Sids /\ Opening(issued)
        BY <2>8, SidInUse DEF OpenReceived, Agreed
    <3>2. OnWebsocket(handshake)'
        BY <2>8, <3>1 DEF OpenReceived, Built, Opening, OnWebsocket
    <3> QED BY <2>8, <3>2 DEF OpenReceived, Built, Agreed, Finished
  <2> QED BY <1>2, <2>2, <2>3, <2>4, <2>5, <2>6, <2>7, <2>8 DEF Build
<1>3. CASE SocketStep
  <2> DEFINE s == handshake
  <2>0. /\ UNCHANGED <<how, handshake, issued, session, handler, socket>>
        /\ Finished /\ Finished' /\ socket.transport \in {"polling", "ws"}
        /\ s \in Sids /\ socket.sid = s
      BY <1>3, SocketFrame, SidInUse
  <2>1. CASE socket.transport = "polling"
    <3>1. Before(s)
        BY <2>0, <2>1 DEF Agreed
    <3>2. link' = link /\ down'[s] = down[s]
      <4>1. CASE SocketConnect \/ SocketConnectFails \/ EmitDone \/ StreamEnds
          BY <4>1 DEF SocketConnect, SocketConnectFails, EmitDone, StreamEnds
      <4>2. ASSUME NEW p, EmitLocks(p) PROVE UNCHANGED <<link, down>>
          BY <4>2 DEF EmitLocks
      <4>3. CASE AnswerPing \/ LosePing \/ TakeOther
          BY <2>0, <2>1, <4>3, TookIncoming DEF AnswerPing, LosePing, TakeOther
      <4>4. ~LinkBreaks
          BY <2>1 DEF LinkBreaks
      <4> QED BY <1>3, <4>1, <4>2, <4>3, <4>4 DEF SocketStep, Poll
    <3>3. Before(s)'
        BY <2>0, <3>1, <3>2 DEF Before
    <3> QED BY <2>0, <2>1, <3>3 DEF Agreed, Finished
  <2>2. CASE socket.transport = "ws"
    <3>1. OnWebsocket(s) /\ up[s] \in Seq(Packet)
        BY <2>0, <2>2 DEF Agreed, Shape
    <3>2. ASSUME link'[s] = link[s], up'[s] = up[s], pc' = pc \/ pc # "built"
          PROVE  OnWebsocket(s)'
        BY <2>0, <3>1, <3>2 DEF OnWebsocket
    <3>3. ASSUME NEW p \in Packet, link'[s] = link[s],
                 link[s] = "open" => up'[s] = Append(up[s], p)
          PROVE  OnWebsocket(s)'
      <4>1. /\ Append(up[s], p) # <<>>
            /\ up[s] # <<>> => Head(Append(up[s], p)) = Head(up[s]) /\ Tail(Append(up[s], p)) # <<>>
          BY <3>1, Appended
      <4> QED BY <2>0, <3>1, <3>3, <4>1 DEF OnWebsocket
    <3>4. OnWebsocket(s)'
      <4>1. CASE SocketConnect
        <5>1. "Pong" \in Packet /\ link' = link /\ Transmit("Pong")
            BY <4>1 DEF SocketConnect, Packet
        <5> QED BY <2>0, <2>2, <3>3, <5>1, Transmitted
      <4>7. CASE SocketConnectFails
          BY <2>0, <2>2, <4>7 DEF SocketConnectFails, OnWebsocket
      <4>2. CASE EmitDone
        <5>1. lock \in Packet /\ link' = link /\ Transmit(lock)
            BY <4>2 DEF EmitDone, TypeOK, Packet
        <5> QED BY <2>0, <2>2, <3>3, <5>1, Transmitted
      <4>3. ASSUME NEW p, EmitLocks(p) PROVE OnWebsocket(s)'
          BY <3>2, <4>3 DEF EmitLocks
      <4>4. CASE AnswerPing
        <5>1. CASE connected
          <6>1. "Pong" \in Packet /\ link' = link /\ Transmit("Pong")
              BY <4>4, <5>1 DEF AnswerPing, Packet
          <6> QED BY <2>0, <2>2, <3>3, <6>1, Transmitted
        <5>2. CASE ~connected
            BY <3>2, <4>4, <5>2 DEF AnswerPing
        <5> QED BY <5>1, <5>2
      <4>5. CASE LosePing \/ TakeOther \/ StreamEnds
          BY <3>2, <4>5 DEF LosePing, TakeOther, StreamEnds
      <4>6. CASE LinkBreaks
          BY <2>0, <4>6 DEF LinkBreaks, OnWebsocket, Shape
      <4> QED BY <1>3, <4>1, <4>2, <4>3, <4>4, <4>5, <4>6, <4>7 DEF SocketStep, Poll
    <3> QED BY <2>0, <2>2, <3>4 DEF Agreed, Finished
  <2> QED BY <2>0, <2>1, <2>2
<1>4. ASSUME NEW s \in Sids, ServerStep(s) PROVE Agreed'
  <2>0. UNCHANGED <<pc, how, handshake, issued, socket>>
      BY <1>4, ServerFrame
  <2>1. ASSUME NEW u \in Sids
        PROVE  /\ Before(u) => Before(u)'
               /\ Probing(u) => Probing(u)'
               /\ Opening(u) => Opening(u)'
               /\ OnWebsocket(u) => OnWebsocket(u)'
    <3>1. CASE u = s
        BY <1>4, <3>1, BeforeStep, ProbingStep, OpeningStep, OnWebsocketStep
    <3>2. CASE u # s
        BY <1>4, <2>0, <3>2, ServerFrame DEF Before, Probing, Opening, OnWebsocket
    <3> QED BY <3>1, <3>2
  <2>2. /\ pc = "open" => issued \in Sids
        /\ pc = "connect" /\ how # "websocket" => handshake \in Sids
        /\ Finished \/ pc \in {"decide", "probe"} => handshake \in Sids
      BY <1>0, SidInUse DEF Course
  <2>3. /\ pc = "decide" \/ (pc = "connect" /\ how # "websocket") => Before(handshake)'
        /\ pc = "probe" => Probing(handshake)'
        /\ pc = "open" => Opening(issued)'
        /\ Finished /\ socket.transport = "polling" => Before(handshake)'
        /\ Finished /\ socket.transport = "ws" => OnWebsocket(handshake)'
    <3>1. \A u \in Sids : handshake' = u => (Before(u)' => Before(handshake)')
        BY DEF Before
    <3>2. \A u \in Sids : handshake' = u => (Probing(u)' => Probing(handshake)')
        BY DEF Probing
    <3>3. \A u \in Sids : issued' = u => (Opening(u)' => Opening(issued)')
        BY DEF Opening
    <3>4. \A u \in Sids : handshake' = u => (OnWebsocket(u)' => OnWebsocket(handshake)')
        BY DEF OnWebsocket
    <3> QED BY <2>0, <2>1, <2>2, <3>1, <3>2, <3>3, <3>4 DEF Agreed
  <2> QED BY <2>0, <2>3 DEF Agreed, Finished
<1>5. CASE UNCHANGED vars
    BY <1>5 DEF vars, Agreed, Finished, Before, Probing, Opening, OnWebsocket
<1> QED BY <1>1, <1>2, <1>3, <1>4, <1>5, Steps

-----------------------------------------------------------------------------
(* Who closes a session *)

\* The server's tasks take packets off the client's queues and put none there.
LEMMA ClientQueuesShrink ==
    ASSUME Shape, NEW s \in Sids, ServerStep(s), NEW u \in Sids, NEW x
    PROVE  (Has(up'[u], x) => Has(up[u], x)) /\ (Has(posts'[u], x) => Has(posts[u], x))
<1> USE DEF wire
<1>0. up[s] \in Seq(Packet) /\ posts[s] \in Seq(Packet)
    BY DEF Shape
<1>1. CASE u # s
    BY <1>1, ServerFrame
<1>2. CASE u = s
  <2>1. CASE HandleProbe(s) \/ HandleUpgrade(s)
    <3>1. up[s] # <<>> /\ up'[s] = Tail(up[s]) /\ posts' = posts
        BY <2>1 DEF HandleProbe, HandleUpgrade, Shape
    <3> QED BY <1>0, <1>2, <3>1, Taken
  <2>2. CASE DrainPolling(s) \/ Swap(s) \/ Store(s) \/ HandlerGivesUp(s) \/ ReaderSeesEnd(s)
      BY <1>2, <2>2 DEF DrainPolling, Swap, Store, HandlerGivesUp, ReaderSeesEnd
  <2>3. CASE PingTick(s) \/ PingFails(s) \/ PingTimeout(s)
      BY <1>2, <2>3 DEF PingTick, PingFails, PingTimeout
  <2>4. CASE ServerReads(s)
    <3>1. \/ posts[s] # <<>> /\ posts'[s] = Tail(posts[s]) /\ up' = up
          \/ up[s] # <<>> /\ up'[s] = Tail(up[s]) /\ posts' = posts
        BY <2>4, ReadByServer DEF ServerReads, Alive, Shape
    <3> QED BY <1>0, <1>2, <3>1, Taken
  <2> QED BY <2>1, <2>2, <2>3, <2>4 DEF ServerStep, Handle, Ping
<1> QED BY <1>1, <1>2

\* The client's Close is on its way only when its flag is cleared for good.
LEMMA CloseIsLastStep ==
    TypeOK /\ Shape /\ Course /\ SocketIsBuilt /\ CloseIsLast /\ [Next]_vars => CloseIsLast'
<1> SUFFICES ASSUME TypeOK, Shape, Course, SocketIsBuilt, CloseIsLast, [Next]_vars
             PROVE  CloseIsLast'
    OBVIOUS
<1> USE DEF server, wire, client, builder
<1>0. {"Pong", "Msg", "Close", "probe", "5"} \subseteq Packet
    BY DEF Packet
<1>1. ASSUME \A u \in Sids : /\ Has(up'[u], "Close") => Has(up[u], "Close")
                             /\ Has(posts'[u], "Close") => Has(posts[u], "Close"),
             pc \in {"user", "emit"} /\ ~connected => pc' \in {"user", "emit"} /\ ~connected'
      PROVE  CloseIsLast'
    BY <1>1 DEF CloseIsLast
<1>2. ASSUME NEW b \in Builds, Start(b) PROVE CloseIsLast'
    BY <1>1, <1>2 DEF Start
<1>3. CASE Build
  <2>0. posts' = posts /\ pc \notin {"user", "emit"}
      BY <1>3, BuildFrame
  <2>1. ASSUME NEW u \in Sids PROVE Has(up'[u], "Close") => Has(up[u], "Close")
    <3>1. CASE \/ Handshake \/ HandshakeLost \/ HandshakeFails \/ DecideUpgrade \/ DecidePolling
               \/ IllegalUpgrade \/ ConnectDirect \/ ConnectFails \/ OpenReceived \/ ProbeFails
        BY <3>1 DEF Handshake, HandshakeLost, HandshakeFails, DecideUpgrade, DecidePolling,
                    IllegalUpgrade, ConnectDirect, ConnectFails, OpenReceived, ProbeFails
    <3>2. CASE ConnectProbe
      <4>1. up'[u] = up[u] \/ up'[u] = <<"probe">>
          BY <3>2 DEF ConnectProbe, Shape
      <4>2. ~Has(<<"probe">>, "Close")
          BY DEF Has
      <4> QED BY <4>1, <4>2
    <3>3. CASE ProbeAnswered
      <4>1. up'[u] = up[u] \/ up'[u] = Append(up[u], "5")
          BY <3>3 DEF ProbeAnswered, Shape
      <4>2. up[u] \in Seq(Packet)
          BY DEF Shape
      <4> QED BY <1>0, <4>1, <4>2, Appended
    <3> QED BY <1>3, <3>1, <3>2, <3>3 DEF Build
  <2> QED BY <1>1, <2>0, <2>1
<1>4. CASE SocketStep
  <2>0. socket.transport \in {"polling", "ws"} /\ socket.sid \in Sids
      BY <1>4, SocketFrame, SidInUse
  <2>1. ASSUME NEW p \in Packet, p # "Close", Transmit(p), NEW u \in Sids
        PROVE  /\ Has(up'[u], "Close") => Has(up[u], "Close")
               /\ Has(posts'[u], "Close") => Has(posts[u], "Close")
    <3>1. /\ up'[u] = up[u] \/ up'[u] = Append(up[u], p)
          /\ posts'[u] = posts[u] \/ posts'[u] = Append(posts[u], p)
        BY <2>0, <2>1, Transmitted
    <3>2. up[u] \in Seq(Packet) /\ posts[u] \in Seq(Packet)
        BY DEF Shape
    <3>3. /\ Has(Append(up[u], p), "Close") => Has(up[u], "Close")
          /\ Has(Append(posts[u], p), "Close") => Has(posts[u], "Close")
        BY <2>1, <3>2, Appended
    <3> QED BY <3>1, <3>3
  <2>2. CASE SocketConnect
    <3>1. pc = "built" /\ Transmit("Pong")
        BY <2>2 DEF SocketConnect
    <3> QED BY <1>0, <1>1, <2>1, <3>1
  <2>8. CASE SocketConnectFails
    <3>1. pc = "built" /\ (Transmit("Pong") \/ UNCHANGED <<up, posts>>)
        BY <2>8 DEF SocketConnectFails
    <3> QED BY <1>0, <1>1, <2>1, <3>1
  <2>3. CASE EmitDone
    <3>0. pc' = "user" /\ Transmit(lock) /\ lock \in Packet
        BY <1>0, <2>3 DEF EmitDone, TypeOK
    <3>1. (lock = "Close" => ~connected') /\ (~connected => ~connected')
        BY <2>3 DEF EmitDone
    <3>2. CASE lock = "Close"
        BY <3>0, <3>1, <3>2 DEF CloseIsLast
    <3>3. CASE lock # "Close"
        BY <1>1, <2>1, <3>0, <3>1, <3>3
    <3> QED BY <3>2, <3>3
  <2>4. ASSUME NEW p, EmitLocks(p) PROVE CloseIsLast'
      BY <1>1, <2>4 DEF EmitLocks
  <2>5. CASE AnswerPing
    <3>1. CASE connected
        BY <1>0, <1>1, <2>1, <2>5, <3>1 DEF AnswerPing
    <3>2. CASE ~connected
        BY <1>1, <2>5, <3>2 DEF AnswerPing
    <3> QED BY <3>1, <3>2
  <2>6. CASE LosePing \/ StreamEnds \/ LinkBreaks
      BY <1>1, <2>6 DEF LosePing, StreamEnds, LinkBreaks
  <2>7. CASE TakeOther
    <3>1. ~connected => ~connected'
        BY <2>7 DEF TakeOther
    <3>2. UNCHANGED <<pc, up, posts>>
        BY <2>7 DEF TakeOther
    <3> QED BY <1>1, <3>1, <3>2
  <2> QED BY <1>4, <2>2, <2>3, <2>4, <2>5, <2>6, <2>7, <2>8 DEF SocketStep, Poll
<1>5. ASSUME NEW s \in Sids, ServerStep(s) PROVE CloseIsLast'
    BY <1>1, <1>5, ServerFrame, ClientQueuesShrink
<1>6. CASE UNCHANGED vars
    BY <1>1, <1>6 DEF vars
<1> QED BY <1>2, <1>3, <1>4, <1>5, <1>6, Steps

\* What a served session that misses a ping has on its way.
Coming(s) == IF socket.transport = "ws" THEN up[s] # <<>> \/ Has(down[s], "Ping")
             ELSE posts[s] # <<>> \/ Has(got, "Ping") \/ Has(polls[s], "Ping")

LEMMA ServedSocket ==
    ASSUME TypeOK, Shape, Course, SocketIsBuilt, Agreed, NEW s \in Sids, Served(s)
    PROVE  /\ Finished /\ pc # "built" /\ handshake = s
           /\ \/ socket.transport = "polling" /\ Before(s)
              \/ socket.transport = "ws" /\ OnWebsocket(s)
BY DEF Served, SocketIsBuilt, Agreed, Finished

\* A Pong or a Ping stays on its way until it is taken, and then the count starts anew,
\* the other one follows, or nobody is served any more.
LEMMA AnsweringStep ==
    /\ TypeOK /\ Shape /\ Course /\ SocketIsBuilt /\ Agreed /\ Answering /\ [Next]_vars
    => Answering'
<1> SUFFICES ASSUME TypeOK, Shape, Course, SocketIsBuilt, Agreed, Answering, [Next]_vars,
                    NEW u \in Sids, Served(u)', Alive(u)', link'[u] # "broken", missed'[u] > 0
             PROVE  Coming(u)'
    BY DEF Answering, Coming
<1> USE DEF server, wire, client, builder
<1>0. socket'.sid = u /\ reader' = "poll" /\ connected' /\ u \notin unread'
    BY DEF Served
<1>1. ASSUME Served(u), Alive(u), link[u] # "broken", missed[u] > 0 PROVE Coming(u)
    BY <1>1 DEF Answering, Coming
<1>2. ASSUME NEW b \in Builds, Start(b) PROVE FALSE
    BY <1>0, <1>2 DEF Start, SocketIsBuilt
<1>3. CASE Build
    BY <1>0, <1>3, BuildFrame DEF SocketIsBuilt
<1>4. CASE SocketStep
  <2>0. /\ UNCHANGED <<session, handler, unread, failing, missed, socket>>
        /\ Finished /\ socket.transport \in {"polling", "ws"} /\ socket.sid = u /\ handshake = u
      BY <1>0, <1>4, SocketFrame
  <2>1. ASSUME reader = "poll", connected, link[u] # "broken" PROVE Coming(u)
      BY <1>0, <1>1, <2>0, <2>1 DEF Served, Alive
  <2>2. socket.transport = "ws" /\ link[u] # "broken" => link[u] = "open"
      BY <2>0 DEF Agreed, OnWebsocket
  <2>3. up[u] \in Seq(Packet) /\ posts[u] \in Seq(Packet) /\ down[u] \in Seq(Packet)
        /\ polls[u] \in Seq(Packet) /\ got \in Seq(Packet)
      BY DEF Shape
  <2>4. ASSUME NEW p \in Packet, Transmit(p), link[u] # "broken"
        PROVE  IF socket.transport = "ws" THEN up'[u] # <<>> ELSE posts'[u] # <<>>
    <3>1. Append(up[u], p) # <<>> /\ Append(posts[u], p) # <<>>
        BY <2>3, Appended
    <3> QED BY <2>0, <2>2, <2>4, <3>1, Transmitted
  <2>5. CASE SocketConnect
    <3>1. "Pong" \in Packet /\ Transmit("Pong") /\ link' = link
        BY <2>5 DEF SocketConnect, Packet
    <3> QED BY <2>0, <2>4, <3>1 DEF Coming
  <2>6. CASE EmitDone
    <3>1. lock \in Packet /\ Transmit(lock) /\ link' = link
        BY <2>6 DEF EmitDone, TypeOK, Packet
    <3> QED BY <2>0, <2>4, <3>1 DEF Coming
  <2>7. ASSUME NEW p, EmitLocks(p) PROVE Coming(u)'
      BY <1>0, <2>1, <2>7 DEF EmitLocks, Coming
  <2>8. CASE AnswerPing
    <3>1. connected /\ link' = link
        BY <1>0, <2>8 DEF AnswerPing
    <3>2. "Pong" \in Packet /\ Transmit("Pong")
        BY <2>8, <3>1 DEF AnswerPing, Packet
    <3> QED BY <2>0, <2>4, <3>1, <3>2 DEF Coming
  <2>9. CASE LosePing \/ StreamEnds
      BY <1>0, <2>9 DEF LosePing, StreamEnds
  <2>10. CASE TakeOther
    <3>1. connected /\ Head(Incoming) # "Ping" /\ reader = "poll" /\ Incoming # <<>>
          /\ UNCHANGED <<link, up, posts>> /\ TakeIncoming
      <4>1. connected' = (connected /\ Head(Incoming) # "Close")
          BY <2>10 DEF TakeOther
      <4>2. connected
          BY <1>0, <4>1
      <4> QED BY <2>10, <4>2 DEF TakeOther
    <3>2. Coming(u)
        BY <2>1, <3>1
    <3>3. CASE socket.transport = "ws"
      <4>1. down[u] # <<>> /\ Incoming = down[u] /\ down'[u] = Tail(down[u])
          BY <2>0, <3>1, <3>3, TookIncoming
      <4>2. Has(down[u], "Ping") => Has(down'[u], "Ping")
          BY <2>3, <3>1, <4>1, Taken
      <4> QED BY <2>0, <3>1, <3>2, <3>3, <4>2 DEF Coming
    <3>4. CASE socket.transport = "polling" /\ got # <<>>
      <4>1. Incoming = got /\ got' = Tail(got) /\ polls' = polls
          BY <2>0, <3>1, <3>4, TookIncoming
      <4>2. Has(got, "Ping") => Has(got', "Ping")
          BY <2>3, <3>1, <3>4, <4>1, Taken
      <4> QED BY <2>0, <3>1, <3>2, <3>4, <4>1, <4>2 DEF Coming
    <3>5. CASE socket.transport = "polling" /\ got = <<>>
      <4>1. Incoming = polls[u] /\ got' = Tail(polls[u])
          BY <2>0, <3>1, <3>5, TookIncoming
      <4>2. Has(polls[u], "Ping") => Has(got', "Ping")
          BY <2>3, <3>1, <4>1, Taken
      <4>3. ~Has(got, "Ping")
          BY <3>5, NothingIn
      <4> QED BY <2>0, <3>1, <3>2, <3>5, <4>2, <4>3 DEF Coming
    <3> QED BY <2>0, <3>3, <3>4, <3>5
  <2>11. CASE LinkBreaks
      BY <2>0, <2>11 DEF LinkBreaks, Shape
  <2>12. CASE SocketConnectFails
      BY <1>0, <2>12 DEF SocketConnectFails, SocketIsBuilt
  <2> QED BY <1>4, <2>5, <2>6, <2>7, <2>8, <2>9, <2>10, <2>11, <2>12 DEF SocketStep, Poll
<1>5. ASSUME NEW s \in Sids, ServerStep(s) PROVE Coming(u)'
  <2>0. UNCHANGED <<pc, how, handshake, issued, socket, reader, connected, got>>
      BY <1>5, ServerFrame
  <2>1. unread \subseteq unread'
    <3>1. CASE Handle(s) \/ Ping(s)
        BY <3>1 DEF Handle, HandleProbe, DrainPolling, HandleUpgrade, Swap, Store,
                    HandlerGivesUp, Ping, PingTick, PingFails, PingTimeout
    <3>2. CASE ReaderSeesEnd(s) \/ ServerReads(s)
        BY <3>2 DEF ReaderSeesEnd, ServerReads
    <3> QED BY <1>5, <3>1, <3>2 DEF ServerStep
  <2>2. Served(u)
      BY <1>0, <2>0, <2>1 DEF Served
  <2>3. CASE u # s
    <3>1. UNCHANGED <<session[u], missed[u], polls[u], posts[u], link[u], up[u], down[u]>>
        BY <1>5, <2>3, ServerFrame
    <3>2. Coming(u)
        BY <1>1, <2>2, <3>1 DEF Alive
    <3> QED BY <2>0, <3>1, <3>2 DEF Coming
  <2>4. CASE u = s
    <3>0. /\ pc # "built" /\ link[u] # "broken"
          /\ \/ socket.transport = "polling" /\ Before(u)
             \/ socket.transport = "ws" /\ OnWebsocket(u)
        BY <1>5, <2>2, <2>4, BrokenStays, ServedSocket
    <3>1. ASSUME Handle(u) PROVE socket.transport = "ws"
        BY <3>0, <3>1 DEF Handle, HandleProbe, DrainPolling, HandleUpgrade, Swap, Store,
                          HandlerGivesUp, Before
    <3>2. CASE HandleProbe(u) \/ HandlerGivesUp(u)
        BY <3>0, <3>1, <3>2 DEF Handle, HandleProbe, HandlerGivesUp, OnWebsocket
    <3>3. CASE DrainPolling(u) \/ Swap(u) \/ Store(u)
        BY <2>0, <3>0, <3>1, <3>3 DEF Handle, DrainPolling, Swap, Store, OnWebsocket, Coming
    <3>4. CASE HandleUpgrade(u)
        BY <2>0, <3>0, <3>1, <3>4 DEF Handle, HandleUpgrade, OnWebsocket, Coming, Shape
    <3>5. CASE ReaderSeesEnd(u)
        BY <1>0, <3>5 DEF ReaderSeesEnd
    <3>6. CASE PingTick(u)
      <4>0. "Ping" \in Packet /\ Deliver(u, "Ping") /\ Alive(u)
          BY <3>6 DEF PingTick, Packet
      <4>1. Has(Append(polls[u], "Ping"), "Ping") /\ Has(Append(down[u], "Ping"), "Ping")
          BY <4>0, Appended DEF Shape
      <4>2. CASE socket.transport = "polling"
        <5>1. session[u] = "polling" /\ Len(polls[u]) < PollingBuffer /\ handler[u] # "swap"
            BY <3>0, <3>6, <4>0, <4>2 DEF Before, Alive, PingTick
        <5>2. polls'[u] = Append(polls[u], "Ping")
            BY <4>0, <5>1, Delivered
        <5> QED BY <2>0, <4>1, <4>2, <5>2 DEF Coming
      <4>3. CASE socket.transport = "ws" /\ session[u] = "polling"
          BY <2>0, <3>0, <3>6, <4>3 DEF OnWebsocket, PingTick, Unsendable, Coming
      <4>4. CASE socket.transport = "ws" /\ session[u] = "ws"
        <5>1. session[u] = "ws" /\ link[u] = "open"
            BY <3>0, <4>4 DEF OnWebsocket
        <5>2. down'[u] = Append(down[u], "Ping")
            BY <4>0, <5>1, Delivered
        <5> QED BY <2>0, <4>1, <4>4, <5>2 DEF Coming
      <4> QED BY <3>0, <4>0, <4>2, <4>3, <4>4 DEF Alive
    <3>9. CASE PingFails(u)
      <4>1. UNCHANGED <<session, missed, polls, posts, wire>> /\ Coming(u)
          BY <1>1, <2>2, <3>0, <3>9 DEF PingFails, Alive
      <4> QED BY <2>0, <4>1 DEF Coming
    <3>7. CASE PingTimeout(u)
        BY <3>7, ClosedSession DEF PingTimeout, Alive, Shape
    <3>8. CASE ServerReads(u)
        BY <3>8 DEF ServerReads, Shape
    <3> QED BY <1>5, <2>4, <3>2, <3>3, <3>4, <3>5, <3>6, <3>7, <3>8, <3>9
          DEF ServerStep, Handle, Ping
  <2> QED BY <2>3, <2>4
<1>6. CASE UNCHANGED vars
    BY <1>0, <1>1, <1>6 DEF vars, Served, Alive, Coming
<1> QED BY <1>2, <1>3, <1>4, <1>5, <1>6, Steps

-----------------------------------------------------------------------------
(* The invariant, and what follows from it *)

LEMMA InitIInv == Init => IInv
<1> SUFFICES ASSUME Init PROVE IInv
    OBVIOUS
<1> USE DEF Init
<1>0. issued = 0 /\ handshake = 0 /\ NoSid = 0 /\ MaxSid = 2 /\ <<>> \in Seq(Packet)
      /\ Len(<<>>) = 0 /\ \A x : ~Has(<<>>, x)
    BY NothingIn DEF NoSid, MaxSid
<1>1. TypeOK
    BY <1>0, ClientAssumption DEF TypeOK
<1>2. Shape
  <2>1. /\ offer \in BOOLEAN /\ upgradable \in BOOLEAN /\ connected \in BOOLEAN
      BY ClientAssumption
  <2>2. socket \in [transport : {"none", "polling", "ws"}, sid : 0..MaxSid]
      BY <1>0 DEF NoSocket
  <2>3. /\ missed \in [Sids -> Nat] /\ emits \in Nat /\ got \in Seq(Packet)
        /\ polls \in [Sids -> Seq(Packet)] /\ posts \in [Sids -> Seq(Packet)]
        /\ up \in [Sids -> Seq(Packet)] /\ down \in [Sids -> Seq(Packet)]
      BY <1>0
  <2> QED BY <2>1, <2>2, <2>3 DEF Shape
<1>3. Course
    BY <1>0 DEF Course, Budget, Finished
<1>4. SocketIsBuilt /\ OnlyIssued /\ Agreed /\ FallbackSurvivesWebsocket
    BY DEF SocketIsBuilt, OnlyIssued, Agreed, Finished, FallbackSurvivesWebsocket
<1>5. Answering
    BY DEF Answering, Served
<1>6. CloseIsLast
    BY <1>0 DEF CloseIsLast
<1> QED BY <1>1, <1>2, <1>3, <1>4, <1>5, <1>6 DEF IInv

LEMMA IInvStep == IInv /\ [Next]_vars => IInv'
BY TypeStep, ShapeStep, CourseStep, SocketIsBuiltStep, OnlyIssuedStep, AgreedStep,
   AnsweringStep, CloseIsLastStep, FallbackStep DEF IInv

\* IInv is an inductive invariant of the builder, its Socket and the server's sessions.
THEOREM Invariance == Spec => []IInv
BY InitIInv, IInvStep, PTL DEF Spec

\* Every variable keeps its type: the transport mutex is held exactly while an emit is
\* under way, and a built Socket is on the session of its handshake.
THEOREM TypeCorrect == Spec => []TypeOK
<1>1. IInv => TypeOK
    BY DEF IInv
<1> QED BY <1>1, Invariance, PTL

\* Whatever function of SocketBuilder is called, and however its requests fail: a build
\* opens one session, and build_with_fallback at most a second one, because the websocket
\* of an upgrade joins the session of its handshake (parse_request_type, handle_http).
THEOREM OneSession == Spec => []OneSessionPerBuild
<1>1. IInv => OneSessionPerBuild
  <2> SUFFICES ASSUME IInv PROVE OneSessionPerBuild
      OBVIOUS
  <2>1. issued \in Nat /\ issued <= Budget
      BY Numbers DEF IInv, Course
  <2>2. how = asked \/ asked = "fallback"
      BY DEF IInv, Course
  <2> QED BY <2>1, <2>2 DEF OneSessionPerBuild, Budget
<1> QED BY <1>1, Invariance, PTL

\* build_with_fallback gives up only when a request over HTTP has failed.
THEOREM FallbackSurvives == Spec => []FallbackSurvivesWebsocket
<1>1. IInv => FallbackSurvivesWebsocket
    BY DEF IInv
<1> QED BY <1>1, Invariance, PTL

\* The steps of the builder and of the Socket close no session.
LEMMA ClientKeepsSessions ==
    ASSUME IInv, NEW s \in Sids, Alive(s),
           Build \/ SocketStep \/ \E b \in Builds : Start(b)
    PROVE  Alive(s)'
<1> USE DEF server, wire, client, builder, Alive, IInv
<1>1. CASE Handshake \/ HandshakeLost
  <2>1. session' = [session EXCEPT ![issued + 1] = "polling"]
      BY <1>1 DEF Handshake, HandshakeLost, OpenPolling
  <2>2. session \in [Sids -> {"none", "polling", "ws", "closed"}]
      BY DEF Shape
  <2> QED BY <2>1, <2>2
<1>2. CASE HandshakeFails \/ DecideUpgrade \/ DecidePolling \/ IllegalUpgrade
    BY <1>2 DEF HandshakeFails, DecideUpgrade, DecidePolling, IllegalUpgrade
<1>3. CASE ConnectProbe \/ ConnectDirect \/ ConnectFails
    BY <1>3 DEF ConnectProbe, ConnectDirect, ConnectFails
<1>4. CASE ProbeAnswered \/ OpenReceived \/ ProbeFails
    BY <1>4 DEF ProbeAnswered, OpenReceived, ProbeFails
<1>5. CASE SocketStep
    BY <1>5, SocketFrame
<1>6. ASSUME NEW b \in Builds, Start(b) PROVE Alive(s)'
    BY <1>6 DEF Start
<1> QED BY <1>1, <1>2, <1>3, <1>4, <1>5, <1>6 DEF Build

\* A ping is overdue only when nothing is on its way any more: not to a served client,
\* which has its answer or the ping in some queue.
LEMMA ServedInTime ==
    ASSUME IInv, NEW s \in Sids, Served(s), Alive(s), link[s] # "broken", s \notin failing,
           PingTimeout(s)
    PROVE  FALSE
<1> USE DEF IInv
<1>1. missed[s] > 0 /\ Settled(s)
    BY ClientAssumption DEF PingTimeout, Overdue
<1>2. Coming(s)
    BY <1>1 DEF Answering, Coming
<1>3. reader = "poll" /\ socket.sid = s /\ s \notin unread
    BY DEF Served
<1>4. Incoming = <<>> /\ Outgoing(s) = <<>>
    BY <1>1, <1>3 DEF Settled
<1>5. CASE socket.transport = "polling" /\ Before(s)
  <2>1. posts[s] = <<>> /\ got = <<>> /\ polls[s] = <<>>
      BY <1>3, <1>4, <1>5 DEF Incoming, Outgoing, Before, Alive
  <2> QED BY <1>2, <1>5, <2>1, NothingIn DEF Coming
<1>6. CASE socket.transport = "ws" /\ OnWebsocket(s)
  <2>1. down[s] = <<>> /\ handler[s] \notin {"swap", "store"}
        /\ (handler[s] \in {"drain", "await5"} => up[s] = <<>>)
      BY <1>1, <1>3, <1>4, <1>6 DEF Incoming, Settled
  <2>2. session[s] = "ws"
      BY <1>6, <2>1 DEF OnWebsocket
  <2>3. up[s] = <<>>
      BY <1>4, <2>2 DEF Outgoing
  <2> QED BY <1>2, <1>6, <2>1, <2>3, NothingIn DEF Coming
<1> QED BY <1>5, <1>6, ServedSocket

LEMMA ServedStaysStep ==
    ASSUME IInv, [Next]_vars, NEW s \in Sids, Served(s), Alive(s), link[s] # "broken",
           s \notin failing
    PROVE  Alive(s)'
<1>1. CASE Build \/ SocketStep \/ \E b \in Builds : Start(b)
    BY <1>1, ClientKeepsSessions
<1>2. ASSUME NEW u \in Sids, ServerStep(u) PROVE Alive(s)'
  <2>0. Shape /\ CloseIsLast
      BY DEF IInv
  <2>1. CASE u # s
      BY <1>2, <2>0, <2>1, ServerFrame DEF Alive
  <2>2. CASE HandleProbe(s) \/ DrainPolling(s) \/ HandleUpgrade(s) \/ HandlerGivesUp(s)
             \/ ReaderSeesEnd(s) \/ PingTick(s) \/ PingFails(s)
      BY <2>2 DEF HandleProbe, DrainPolling, HandleUpgrade, HandlerGivesUp, ReaderSeesEnd,
                  PingTick, PingFails, Alive
  <2>3. CASE Swap(s) \/ Store(s)
      BY <2>0, <2>3 DEF Swap, Store, Alive, Shape
  <2>4. CASE PingTimeout(s)
      BY <2>4, ServedInTime
  <2>5. CASE ServerReads(s)
    <3>1. ~Has(posts[s], "Close") /\ ~Has(up[s], "Close")
        BY <2>0 DEF CloseIsLast, Served
    <3>2. session' = session
        BY <2>0, <2>5, <3>1, ReadByServer
    <3> QED BY <3>2 DEF Alive
  <2> QED BY <1>2, <2>1, <2>2, <2>3, <2>4, <2>5 DEF ServerStep, Handle, Ping
<1>3. CASE UNCHANGED vars
    BY <1>3 DEF vars, server, Alive
<1> QED BY <1>1, <1>2, <1>3, Steps

\* The server does not close a session that is read on both sides: by an application that
\* polls a connected Socket, and by a server whose reader has not taken the upgrade for the
\* end of the stream.  Whatever function built the Socket, both sides agree on the transport
\* the pings take, and a ping or its answer is always on the way; a tick may come anywhere
\* in an upgrade.  The exceptions are a websocket that breaks and a ping that fell between
\* close_polling and the swap of the transport (start_ping_pong, handle_probe).
THEOREM ServedClientStays == Spec => ServedStays
<1>1. IInv /\ [Next]_vars =>
        [\A s \in Sids : Served(s) /\ Alive(s)
                           => Alive(s)' \/ link[s] = "broken" \/ s \in failing]_vars
    BY ServedStaysStep
<1> QED BY <1>1, Invariance, PTL DEF Spec, ServedStays
=============================================================================
