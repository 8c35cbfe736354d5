-------------------------- MODULE SioServerProofs --------------------------
(***************************************************************************)
(* Theorems about SioServer, for any number of sessions, namespaces and    *)
(* rooms, and whatever goes wrong.                                         *)
(***************************************************************************)
EXTENDS SioServer, FiniteSetTheorems, TLAPS

-----------------------------------------------------------------------------
(* Client ids, and how many there can be *)

LEMMA SidFields ==
    /\ \A e \in Esid, n \in 0..Cardinality(Esid) : <<e, n>> \in Sid /\ Decode(<<e, n>>) = e
    /\ \A c \in Sid : Decode(c) \in Esid
BY DEF Sid, Decode

LEMMA SessionCount == Cardinality(Esid) \in Nat
BY EsidAssumption, FS_CardinalityType

\* A session that is heard of is one more.
LEMMA OneMoreHeard ==
    ASSUME NEW S \in SUBSET Esid, NEW e \in Esid, e \notin S
    PROVE  /\ Cardinality(S) \in Nat /\ Cardinality(S \cup {e}) = Cardinality(S) + 1
           /\ Cardinality(S \cup {e}) <= Cardinality(Esid)
<1>1. IsFiniteSet(S)
    BY EsidAssumption, FS_Subset
<1>2. Cardinality(S \cup {e}) = Cardinality(S) + 1
    BY <1>1, FS_AddElement
<1>3. S \cup {e} \subseteq Esid
    OBVIOUS
<1> QED BY <1>1, <1>2, <1>3, EsidAssumption, FS_Subset, FS_CardinalityType

LEMMA OpenedInBounds ==
    ASSUME TypeOK, Numbered, NEW e \in Esid, RecvOpen(e)
    PROVE  /\ seq + 1 \in 0..Cardinality(Esid)
           /\ seq + 1 <= Cardinality({u \in Esid : heard'[u] # "new"})
<1> DEFINE S == {u \in Esid : heard[u] # "new"}
<1>1. S \in SUBSET Esid /\ e \notin S
    BY DEF RecvOpen
<1>2. {u \in Esid : heard'[u] # "new"} = S \cup {e}
    BY DEF RecvOpen, TypeOK
<1>3. seq \in Nat /\ seq <= Cardinality(S)
    BY SessionCount DEF Numbered, TypeOK
<1> HIDE DEF S
<1>4. /\ Cardinality(S) \in Nat /\ Cardinality(S \cup {e}) = Cardinality(S) + 1
      /\ Cardinality(S \cup {e}) <= Cardinality(Esid)
    BY <1>1, OneMoreHeard
<1> QED BY <1>2, <1>3, <1>4, SessionCount

\* Whom an emit_to is for.
LEMMA SidsType == \A n, r : SidsToEmit(n, r) \subseteq Sid
BY DEF SidsToEmit

-----------------------------------------------------------------------------
(* Type correctness *)

\* Who acts in a callback has an id and a namespace.
LEMMA CallbackNames ==
    ASSUME NothingBefore, Named, NEW e \in Esid, user[e] # "none"
    PROVE  sid[e] \in Sid /\ Decode(sid[e]) = e /\ nsp[e] \in Nsp
BY DEF NothingBefore, Named, Served, Unconnected

LEMMA CloseSocketType ==
    ASSUME TypeOK, NEW e \in Esid, CloseSocket(e)
    PROVE  /\ registered' \subseteq Esid /\ closing' \subseteq Esid
           /\ stream' \in [Esid -> {"live", "failed", "closed"}]
BY DEF TypeOK, CloseSocket, StreamMayEnd

LEMMA TypeStep ==
    TypeOK /\ Numbered /\ NothingBefore /\ Named /\ Arguments /\ [Next]_vars => TypeOK'
<1> SUFFICES ASSUME TypeOK, Numbered, NothingBefore, Named, Arguments, [Next]_vars
             PROVE  TypeOK'
    OBVIOUS
<1> USE DEF engine, names, tables, cb
<1>1. CASE LoopDrops
  <2>1. CASE drop.step = "close"
    <3>1. drop.esid \in Esid /\ drop' \in [step : {"close", "clients", "rooms"}, esid : Esid]
        BY <1>1, <2>1 DEF TypeOK, LoopDrops, Idle
    <3> QED BY <1>1, <2>1, <3>1, CloseSocketType DEF TypeOK, LoopDrops
  <2>2. CASE drop.step = "clients"
    <3>1. drop.esid \in Esid /\ drop' \in [step : {"close", "clients", "rooms"}, esid : Esid]
        BY <1>1, <2>2 DEF TypeOK, LoopDrops, Idle
    <3> QED BY <1>1, <2>2, <3>1 DEF TypeOK, LoopDrops
  <2>3. CASE drop.step = "rooms"
      BY <1>1, <2>3 DEF TypeOK, LoopDrops, ForgetRooms
  <2> QED BY <1>1, <2>1, <2>2, <2>3 DEF LoopDrops
<1>2. ASSUME NEW e \in Esid, EngineCloses(e) \/ StreamCloses(e) PROVE TypeOK'
    BY <1>2 DEF TypeOK, EngineCloses, StreamCloses, StreamMayEnd, engine, names, tables, cb
<1>3. ASSUME NEW e \in Esid, RecvOpen(e) PROVE TypeOK'
  <2>1. seq + 1 \in 0..Cardinality(Esid) /\ <<e, seq>> \in Sid
      BY <1>3, OpenedInBounds, SidFields DEF TypeOK
  <2> QED BY <1>3, <2>1 DEF TypeOK, RecvOpen
<1>4. ASSUME NEW e \in Esid, RecvClose(e) PROVE TypeOK'
    BY <1>4 DEF TypeOK, RecvClose
<1>5. ASSUME NEW e \in Esid, TimeoutDrops(e) PROVE TypeOK'
  <2>1. CASE conn[e] = "close"
      BY <1>5, <2>1, CloseSocketType DEF TypeOK, TimeoutDrops
  <2>2. CASE conn[e] = "clients"
      BY <1>5, <2>2 DEF TypeOK, TimeoutDrops
  <2>3. CASE conn[e] = "rooms"
      BY <1>5, <2>3 DEF TypeOK, TimeoutDrops, ForgetRooms
  <2> QED BY <1>5, <2>1, <2>2, <2>3 DEF TimeoutDrops
<1>6. ASSUME NEW e \in Esid, NEW n \in Nsp, ConnectPacket(e, n) PROVE TypeOK'
    BY <1>6 DEF TypeOK, ConnectPacket
<1>7. ASSUME NEW e \in Esid, ConnectFails(e) \/ ConnectCallback(e) \/ StartPoll(e)
                              \/ Handshake(e) \/ ConnectTimeout(e)
      PROVE  TypeOK'
    BY <1>7 DEF TypeOK, ConnectFails, ConnectCallback, StartPoll, Handshake, ConnectTimeout
<1>8. ASSUME NEW e \in Esid, InsertClient(e) PROVE TypeOK'
  <2>1. sid[e] \in Sid /\ nsp[e] \in Nsp
      BY <1>8 DEF InsertClient, Named, Served
  <2> QED BY <1>8, <2>1 DEF TypeOK, InsertClient
<1>9. ASSUME NEW e \in Esid, Poll(e) PROVE TypeOK'
    BY <1>9 DEF TypeOK, Poll, PollEvent, PollError, PollEnds
<1>10. ASSUME NEW e \in Esid, NEW r \in Room, Join(e, r) \/ JoinFirst(e, r) \/ Leave(e, r)
       PROVE  TypeOK'
  <2>1. sid[e] \in Sid /\ nsp[e] \in Nsp
      BY <1>10, CallbackNames DEF Join, JoinFirst, Leave
  <2> QED BY <1>10, <2>1 DEF TypeOK, Join, JoinFirst, Leave
<1>11. ASSUME NEW e \in Esid, JoinInsert(e) PROVE TypeOK'
  <2>1. sid[e] \in Sid /\ nsp[e] \in Nsp /\ arg[e] \subseteq Room
      BY <1>11, CallbackNames DEF JoinInsert, Arguments
  <2>2. rooms' \subseteq Nsp \X Room /\ members' \subseteq Nsp \X Room \X Sid
      BY <1>11, <2>1 DEF TypeOK, JoinInsert
  <2> QED BY <1>11, <2>2 DEF TypeOK, JoinInsert
<1>12. ASSUME NEW e \in Esid, NEW r, EmitTo(e, r) PROVE TypeOK'
    BY <1>12, SidsType DEF TypeOK, EmitTo
<1>13. ASSUME NEW e \in Esid, NEW c \in arg[e], EmitOne(e, c) PROVE TypeOK'
  <2>1. nsp[e] \in Nsp /\ c \in Sid
      BY <1>13, CallbackNames DEF EmitOne, Arguments
  <2> QED BY <1>13, <2>1 DEF TypeOK, EmitOne
<1>14. ASSUME NEW e \in Esid, EmitDone(e) \/ Return(e) PROVE TypeOK'
    BY <1>14 DEF TypeOK, EmitDone, Return
<1>15. CASE UNCHANGED vars
    BY <1>15 DEF TypeOK, vars
<1> QED BY <1>1, <1>2, <1>3, <1>4, <1>5, <1>6, <1>7, <1>8, <1>9, <1>10, <1>11, <1>12, <1>13,
           <1>14, <1>15 DEF Next, Connect, Callback

-----------------------------------------------------------------------------
(* The sessions *)

\* A session's step: it opens or ends, connects, gives up, is polled, or its callback acts.
LEMMA Steps ==
    ASSUME [Next]_vars
    PROVE  \/ LoopDrops
           \/ UNCHANGED vars
           \/ \E e \in Esid :
                \/ EngineCloses(e) \/ StreamCloses(e) \/ RecvOpen(e) \/ RecvClose(e) \/ TimeoutDrops(e)
                \/ \E n \in Nsp : ConnectPacket(e, n)
                \/ ConnectFails(e) \/ ConnectCallback(e) \/ StartPoll(e) \/ Handshake(e)
                \/ InsertClient(e) \/ ConnectTimeout(e) \/ Poll(e) \/ Callback(e)
BY DEF Next, Connect

\* The callbacks leave the sessions alone, and act only where there is one.
LEMMA CallbackFrame ==
    ASSUME NEW e \in Esid, Callback(e), TypeOK
    PROVE  /\ UNCHANGED <<heard, seq, sid, nsp, conn, poller, clients>>
           /\ user[e] # "none"
           /\ \A u \in Esid : u # e => user'[u] = user[u] /\ arg'[u] = arg[u]
<1> USE DEF engine, names, tables, cb
<1>1. ASSUME NEW r \in Room, Join(e, r) \/ JoinFirst(e, r) \/ Leave(e, r)
      PROVE  /\ UNCHANGED <<heard, seq, sid, nsp, conn, poller, clients>> /\ user[e] # "none"
             /\ \A u \in Esid : u # e => user'[u] = user[u] /\ arg'[u] = arg[u]
    BY <1>1 DEF TypeOK, Join, JoinFirst, Leave
<1>2. ASSUME NEW r, EmitTo(e, r)
      PROVE  /\ UNCHANGED <<heard, seq, sid, nsp, conn, poller, clients>> /\ user[e] # "none"
             /\ \A u \in Esid : u # e => user'[u] = user[u] /\ arg'[u] = arg[u]
    BY <1>2 DEF TypeOK, EmitTo
<1>3. ASSUME NEW c, EmitOne(e, c)
      PROVE  /\ UNCHANGED <<heard, seq, sid, nsp, conn, poller, clients>> /\ user[e] # "none"
             /\ \A u \in Esid : u # e => user'[u] = user[u] /\ arg'[u] = arg[u]
    BY <1>3 DEF TypeOK, EmitOne
<1>4. CASE JoinInsert(e) \/ EmitDone(e) \/ Return(e)
    BY <1>4 DEF TypeOK, JoinInsert, EmitDone, Return
<1> QED BY <1>1, <1>2, <1>3, <1>4 DEF Callback

\* The generator is asked once for a session that is new.
LEMMA NumberedStep == TypeOK /\ Numbered /\ [Next]_vars => Numbered'
<1> SUFFICES ASSUME TypeOK, Numbered, [Next]_vars PROVE Numbered'
    OBVIOUS
<1> USE DEF engine, names, tables, cb
<1>1. ASSUME NEW e \in Esid, RecvOpen(e) PROVE Numbered'
  <2>1. /\ seq \in Nat /\ Cardinality({u \in Esid : heard'[u] # "new"}) >= seq + 1
        /\ Cardinality({u \in Esid : heard'[u] # "new"}) \in Nat
    <3>1. {u \in Esid : heard'[u] # "new"} \subseteq Esid
        OBVIOUS
    <3> QED BY <1>1, <3>1, OpenedInBounds, SessionCount, EsidAssumption, FS_Subset,
               FS_CardinalityType DEF TypeOK
  <2>2. seq' \in Nat /\ seq' <= seq + 1
      BY <1>1, <2>1 DEF RecvOpen
  <2>3. \A u \in Esid : heard'[u] = "new" => conn'[u] = "off"
      BY <1>1 DEF RecvOpen, Numbered, TypeOK
  <2> QED BY <2>1, <2>2, <2>3 DEF Numbered
<1>2. ASSUME NEW e \in Esid, RecvClose(e) PROVE Numbered'
  <2>1. seq' = seq /\ conn' = conn
      BY <1>2 DEF RecvClose
  <2> DEFINE S == {u \in Esid : heard[u] # "new"}
             T == {u \in Esid : heard'[u] # "new"}
  <2>2. S \subseteq T /\ T \subseteq Esid
      BY <1>2 DEF RecvClose, TypeOK
  <2>3. IsFiniteSet(T) /\ Cardinality(S) <= Cardinality(T)
      BY <2>2, EsidAssumption, FS_Subset
  <2>4. IsFiniteSet(S) /\ Cardinality(S) \in Nat /\ Cardinality(T) \in Nat
      BY <2>2, <2>3, FS_Subset, FS_CardinalityType
  <2>5. seq <= Cardinality(S) /\ seq \in Nat
      BY DEF Numbered, TypeOK
  <2>6. seq <= Cardinality(T)
      BY <2>3, <2>4, <2>5
  <2>7. \A u \in Esid : heard'[u] = "new" => conn'[u] = "off"
      BY <1>2, <2>1 DEF RecvClose, Numbered, TypeOK
  <2> QED BY <2>1, <2>6, <2>7 DEF Numbered
<1>3. ASSUME UNCHANGED <<heard, seq>>,
             \A e \in Esid : conn[e] = "off" => conn'[e] = "off"
      PROVE  Numbered'
    BY <1>3 DEF Numbered
<1>4. CASE LoopDrops
    BY <1>3, <1>4 DEF LoopDrops, CloseSocket
<1>5. ASSUME NEW e \in Esid, EngineCloses(e) \/ StreamCloses(e) \/ TimeoutDrops(e) PROVE Numbered'
    BY <1>3, <1>5 DEF EngineCloses, StreamCloses, TimeoutDrops, CloseSocket, TypeOK
<1>6. ASSUME NEW e \in Esid, NEW n \in Nsp, ConnectPacket(e, n) PROVE Numbered'
    BY <1>3, <1>6 DEF ConnectPacket, TypeOK
<1>7. ASSUME NEW e \in Esid, \/ ConnectFails(e) \/ ConnectCallback(e) \/ StartPoll(e)
                             \/ Handshake(e) \/ InsertClient(e) \/ ConnectTimeout(e)
      PROVE  Numbered'
    BY <1>3, <1>7 DEF ConnectFails, ConnectCallback, StartPoll, Handshake, InsertClient,
                      ConnectTimeout, TypeOK
<1>8. ASSUME NEW e \in Esid, Poll(e) PROVE Numbered'
    BY <1>3, <1>8 DEF Poll, PollEvent, PollError, PollEnds
<1>9. ASSUME NEW e \in Esid, Callback(e) PROVE Numbered'
    BY <1>3, <1>9, CallbackFrame
<1>10. CASE UNCHANGED vars
    BY <1>3, <1>10 DEF vars
<1> QED BY <1>1, <1>2, <1>4, <1>5, <1>6, <1>7, <1>8, <1>9, <1>10, Steps

\* What an emit_to has just spawned went to the one client listed under that id.
LEMMA EmittedToListed ==
    ASSUME TypeOK, NothingBefore, Named, ListedAsNamed, Arguments,
           NEW e \in Esid, NEW c \in arg[e], EmitOne(e, c)
    PROVE  \A m \in sent' \ sent :
             /\ Decode(m[2]) \in Esid /\ ~Unconnected(Decode(m[2]))
             /\ nsp[Decode(m[2])] = m[1] /\ sid[Decode(m[2])] = m[2]
<1>1. c \in Sid /\ Decode(c) \in Esid
    BY SidFields DEF EmitOne, Arguments
<1>2. CASE ~Listed(c, nsp[e])
    BY <1>2 DEF EmitOne
<1>3. CASE Listed(c, nsp[e])
  <2>1. ~Unconnected(Decode(c)) /\ <<c, nsp[e]>> = <<sid[Decode(c)], nsp[Decode(c)]>>
      BY <1>1, <1>3 DEF Listed, NothingBefore, ListedAsNamed
  <2>2. \A m \in sent' \ sent : m = <<nsp[e], c>>
      BY <1>3 DEF EmitOne
  <2> QED BY <1>1, <2>1, <2>2
<1> QED BY <1>2, <1>3

\* Only EmitOne sends.
LEMMA CallbackSends ==
    ASSUME TypeOK, NothingBefore, Named, ListedAsNamed, Arguments, NEW e \in Esid, Callback(e)
    PROVE  \A m \in sent' \ sent :
             /\ Decode(m[2]) \in Esid /\ ~Unconnected(Decode(m[2]))
             /\ nsp[Decode(m[2])] = m[1] /\ sid[Decode(m[2])] = m[2]
<1> USE DEF cb
<1>1. ASSUME NEW r \in Room, Join(e, r) \/ JoinFirst(e, r) \/ Leave(e, r) PROVE sent' = sent
    BY <1>1 DEF Join, JoinFirst, Leave
<1>2. ASSUME NEW r, EmitTo(e, r) PROVE sent' = sent
    BY <1>2 DEF EmitTo
<1>3. CASE JoinInsert(e) \/ EmitDone(e) \/ Return(e)
    BY <1>3 DEF JoinInsert, EmitDone, Return
<1> QED BY <1>1, <1>2, <1>3, EmittedToListed DEF Callback

\* Nothing is listed, run or emitted for a session before its Connect packet.
LEMMA NothingBeforeStep ==
    TypeOK /\ Numbered /\ NothingBefore /\ Named /\ ListedAsNamed /\ Arguments /\ [Next]_vars
      => NothingBefore'
<1> SUFFICES ASSUME TypeOK, Numbered, NothingBefore, Named, ListedAsNamed, Arguments,
                    [Next]_vars
             PROVE  NothingBefore'
    OBVIOUS
<1> USE DEF engine, names, tables, cb
<1>1. ASSUME UNCHANGED <<user, poller, sent>>,
             \A e \in Esid : /\ Unconnected(e)' => Unconnected(e)
                             /\ Unconnected(e)' => clients'[e] \subseteq clients[e]
      PROVE  NothingBefore'
    BY <1>1 DEF NothingBefore, Unconnected
<1>2. CASE LoopDrops
  <2>1. \A e \in Esid : clients'[e] \subseteq clients[e]
      BY <1>2 DEF LoopDrops, TypeOK
  <2>2. UNCHANGED <<user, poller, sent, conn>>
      BY <1>2 DEF LoopDrops
  <2> QED BY <1>1, <2>1, <2>2 DEF Unconnected
<1>3. ASSUME NEW e \in Esid, EngineCloses(e) \/ StreamCloses(e) \/ RecvClose(e) PROVE NothingBefore'
    BY <1>1, <1>3 DEF EngineCloses, StreamCloses, RecvClose, Unconnected
<1>4. ASSUME NEW e \in Esid, RecvOpen(e) PROVE NothingBefore'
  <2>1. conn[e] = "off"
      BY <1>4 DEF RecvOpen, Numbered
  <2> QED BY <1>1, <1>4, <2>1 DEF RecvOpen, Unconnected, TypeOK
<1>5. ASSUME NEW e \in Esid, TimeoutDrops(e) PROVE NothingBefore'
    BY <1>1, <1>5 DEF TimeoutDrops, Unconnected, TypeOK
<1>6. ASSUME NEW e \in Esid, NEW n \in Nsp, ConnectPacket(e, n) PROVE NothingBefore'
    BY <1>1, <1>6 DEF ConnectPacket, Unconnected, TypeOK
<1>7. ASSUME NEW e \in Esid, ConnectFails(e) \/ Handshake(e) \/ InsertClient(e) \/ ConnectTimeout(e)
      PROVE  NothingBefore'
    BY <1>1, <1>7 DEF ConnectFails, Handshake, InsertClient, ConnectTimeout, Unconnected, TypeOK
<1>8. ASSUME NEW e \in Esid, ConnectCallback(e) \/ StartPoll(e) \/ Poll(e) PROVE NothingBefore'
  <2>1. /\ ~Unconnected(e) /\ ~Unconnected(e)' /\ UNCHANGED <<clients, sent>>
        /\ \A u \in Esid : u # e => UNCHANGED <<conn[u], user[u], poller[u]>>
      BY <1>8 DEF ConnectCallback, StartPoll, Poll, PollEvent, PollError, PollEnds, Unconnected,
                  NothingBefore, TypeOK
  <2> QED BY <2>1 DEF NothingBefore, Unconnected
<1>9. ASSUME NEW e \in Esid, Callback(e) PROVE NothingBefore'
  <2>1. ~Unconnected(e) /\ UNCHANGED <<conn, poller, clients>>
      BY <1>9, CallbackFrame DEF NothingBefore
  <2>2. \A u \in Esid : u # e => user'[u] = user[u]
      BY <1>9, CallbackFrame
  <2>3. \A m \in sent' \ sent : ~Unconnected(Decode(m[2]))
      BY <1>9, CallbackSends
  <2> QED BY <2>1, <2>2, <2>3 DEF NothingBefore, Unconnected
<1>10. CASE UNCHANGED vars
    BY <1>1, <1>10 DEF vars, Unconnected
<1> QED BY <1>2, <1>3, <1>4, <1>5, <1>6, <1>7, <1>8, <1>9, <1>10, Steps

\* Id and namespace are known where they are used.
LEMMA NamedStep ==
    TypeOK /\ Numbered /\ NothingBefore /\ Named /\ [Next]_vars => Named'
<1> SUFFICES ASSUME TypeOK, Numbered, NothingBefore, Named, [Next]_vars PROVE Named'
    OBVIOUS
<1> USE DEF engine, names, tables, cb
<1>1. ASSUME UNCHANGED <<sid, nsp>>,
             \A e \in Esid : /\ conn[e] = "off" => conn'[e] = "off"
                             /\ Served(e)' => Served(e)
      PROVE  Named'
    BY <1>1 DEF Named
<1>2. CASE LoopDrops
    BY <1>1, <1>2 DEF LoopDrops, Served
<1>3. ASSUME NEW e \in Esid, EngineCloses(e) \/ StreamCloses(e) \/ RecvClose(e) PROVE Named'
    BY <1>1, <1>3 DEF EngineCloses, StreamCloses, RecvClose, Served
<1>4. ASSUME NEW e \in Esid, RecvOpen(e) PROVE Named'
  <2>1. conn[e] = "off" /\ Unconnected(e)
      BY <1>4 DEF RecvOpen, Numbered, Unconnected
  <2>2. <<e, seq>> \in Sid /\ Decode(<<e, seq>>) = e
      BY SidFields DEF TypeOK
  <2>3. ~Served(e)' /\ \A u \in Esid : Served(u)' => Served(u)
      BY <1>4, <2>1 DEF RecvOpen, NothingBefore, Served, TypeOK
  <2>4. conn'[e] # "off" => sid'[e] = <<e, seq>>
      BY <1>4, <2>1 DEF RecvOpen, TypeOK
  <2>5. nsp' = nsp /\ \A u \in Esid : u # e => conn'[u] = conn[u] /\ sid'[u] = sid[u]
      BY <1>4 DEF RecvOpen, TypeOK
  <2> QED BY <2>2, <2>3, <2>4, <2>5 DEF Named
<1>5. ASSUME NEW e \in Esid, TimeoutDrops(e) PROVE Named'
    BY <1>1, <1>5 DEF TimeoutDrops, Served, TypeOK
<1>6. ASSUME NEW e \in Esid, NEW n \in Nsp, ConnectPacket(e, n) PROVE Named'
    BY <1>6 DEF ConnectPacket, Named, Served, TypeOK
<1>7. ASSUME NEW e \in Esid, ConnectFails(e) \/ Handshake(e) \/ InsertClient(e) \/ ConnectTimeout(e)
      PROVE  Named'
    BY <1>1, <1>7 DEF ConnectFails, Handshake, InsertClient, ConnectTimeout, Served, TypeOK
<1>8. ASSUME NEW e \in Esid, ConnectCallback(e) \/ StartPoll(e) \/ Poll(e) PROVE Named'
    BY <1>1, <1>8 DEF ConnectCallback, StartPoll, Poll, PollEvent, PollError, PollEnds, Served,
                      TypeOK
<1>9. ASSUME NEW e \in Esid, Callback(e) PROVE Named'
  <2>1. UNCHANGED <<sid, nsp, conn, poller>> /\ Served(e)
      BY <1>9, CallbackFrame DEF Served
  <2>2. \A u \in Esid : u # e => user'[u] = user[u]
      BY <1>9, CallbackFrame
  <2> QED BY <1>1, <2>1, <2>2 DEF Served
<1>10. CASE UNCHANGED vars
    BY <1>1, <1>10 DEF vars, Served
<1> QED BY <1>2, <1>3, <1>4, <1>5, <1>6, <1>7, <1>8, <1>9, <1>10, Steps

\* Id and namespace of a session change only before its Connect packet.
LEMMA NamesSettle ==
    ASSUME TypeOK, Numbered, [Next]_vars, NEW e \in Esid, ~Unconnected(e)
    PROVE  sid'[e] = sid[e] /\ nsp'[e] = nsp[e]
<1> USE DEF engine, names, tables, cb
<1>1. CASE LoopDrops
    BY <1>1 DEF LoopDrops
<1>2. ASSUME NEW u \in Esid, EngineCloses(u) \/ StreamCloses(u) \/ RecvClose(u) \/ TimeoutDrops(u)
      PROVE  UNCHANGED <<sid, nsp>>
    BY <1>2 DEF EngineCloses, StreamCloses, RecvClose, TimeoutDrops
<1>3. ASSUME NEW u \in Esid, RecvOpen(u) PROVE sid'[e] = sid[e] /\ nsp'[e] = nsp[e]
    BY <1>3 DEF RecvOpen, Numbered, Unconnected, TypeOK
<1>4. ASSUME NEW u \in Esid, NEW n \in Nsp, ConnectPacket(u, n)
      PROVE  sid'[e] = sid[e] /\ nsp'[e] = nsp[e]
    BY <1>4 DEF ConnectPacket, Unconnected, TypeOK
<1>5. ASSUME NEW u \in Esid, \/ ConnectFails(u) \/ ConnectCallback(u) \/ StartPoll(u)
                             \/ Handshake(u) \/ InsertClient(u) \/ ConnectTimeout(u) \/ Poll(u)
      PROVE  UNCHANGED <<sid, nsp>>
    BY <1>5 DEF ConnectFails, ConnectCallback, StartPoll, Handshake, InsertClient,
                ConnectTimeout, Poll, PollEvent, PollError, PollEnds
<1>6. ASSUME NEW u \in Esid, Callback(u) PROVE UNCHANGED <<sid, nsp>>
    BY <1>6, CallbackFrame
<1>7. CASE UNCHANGED vars
    BY <1>7 DEF vars
<1> QED BY <1>1, <1>2, <1>3, <1>4, <1>5, <1>6, <1>7, Steps

\* A client is listed by InsertClient only, when its session is connected.
LEMMA ListedStep ==
    ASSUME TypeOK, [Next]_vars, NEW e \in Esid
    PROVE  \/ clients'[e] \subseteq clients[e]
           \/ /\ clients'[e] = clients[e] \cup {<<sid[e], nsp[e]>>}
              /\ ~Unconnected(e)
<1> USE DEF engine, names, tables, cb
<1>1. CASE LoopDrops
    BY <1>1 DEF LoopDrops, TypeOK
<1>2. ASSUME NEW u \in Esid, TimeoutDrops(u) PROVE clients'[e] \subseteq clients[e]
    BY <1>2 DEF TimeoutDrops, TypeOK
<1>3. ASSUME NEW u \in Esid, InsertClient(u)
      PROVE  \/ clients'[e] \subseteq clients[e]
             \/ clients'[e] = clients[e] \cup {<<sid[e], nsp[e]>>} /\ ~Unconnected(e)
    BY <1>3 DEF InsertClient, Unconnected, TypeOK
<1>4. ASSUME NEW u \in Esid, NEW n \in Nsp, ConnectPacket(u, n) PROVE clients' = clients
    BY <1>4 DEF ConnectPacket
<1>5. ASSUME NEW u \in Esid, \/ EngineCloses(u) \/ StreamCloses(u) \/ RecvOpen(u) \/ RecvClose(u) \/ ConnectFails(u)
                             \/ ConnectCallback(u) \/ StartPoll(u) \/ Handshake(u)
                             \/ ConnectTimeout(u) \/ Poll(u)
      PROVE  clients' = clients
    BY <1>5 DEF EngineCloses, StreamCloses, RecvOpen, RecvClose, ConnectFails, ConnectCallback, StartPoll,
                Handshake, ConnectTimeout, Poll, PollEvent, PollError, PollEnds
<1>6. ASSUME NEW u \in Esid, Callback(u) PROVE clients' = clients
    BY <1>6, CallbackFrame
<1>7. CASE UNCHANGED vars
    BY <1>7 DEF vars
<1> QED BY <1>1, <1>2, <1>3, <1>4, <1>5, <1>6, <1>7, Steps

LEMMA ListedAsNamedStep ==
    TypeOK /\ Numbered /\ NothingBefore /\ ListedAsNamed /\ [Next]_vars => ListedAsNamed'
<1> SUFFICES ASSUME TypeOK, Numbered, NothingBefore, ListedAsNamed, [Next]_vars, NEW e \in Esid
             PROVE  clients'[e] \subseteq {<<sid'[e], nsp'[e]>>}
    BY DEF ListedAsNamed
<1>1. CASE Unconnected(e)
  <2>1. clients[e] = {}
      BY <1>1 DEF NothingBefore
  <2> QED BY <1>1, <2>1, ListedStep
<1>2. CASE ~Unconnected(e)
  <2>1. clients[e] \subseteq {<<sid[e], nsp[e]>>}
      BY DEF ListedAsNamed
  <2>2. clients'[e] \subseteq {<<sid[e], nsp[e]>>}
      BY <1>2, <2>1, ListedStep
  <2> QED BY <1>2, <2>2, NamesSettle
<1> QED BY <1>1, <1>2

\* Apart from callbacks, nothing is emitted and no callback's argument changes.
LEMMA QuietOutside ==
    ASSUME [Next]_vars, \A e \in Esid : ~Callback(e), TypeOK
    PROVE  /\ sent' = sent /\ arg' = arg
           /\ \A e \in Esid : user'[e] \in {"none", "run"} \/ user'[e] = user[e]
<1> USE DEF engine, names, tables, cb
<1>1. CASE LoopDrops
    BY <1>1 DEF LoopDrops
<1>2. ASSUME NEW u \in Esid, NEW n \in Nsp, ConnectPacket(u, n) PROVE UNCHANGED <<sent, arg, user>>
    BY <1>2 DEF ConnectPacket
<1>3. ASSUME NEW u \in Esid, \/ EngineCloses(u) \/ StreamCloses(u) \/ RecvOpen(u) \/ RecvClose(u) \/ ConnectFails(u)
                             \/ StartPoll(u) \/ Handshake(u) \/ InsertClient(u)
                             \/ ConnectTimeout(u) \/ TimeoutDrops(u)
      PROVE  UNCHANGED <<sent, arg, user>>
    BY <1>3 DEF EngineCloses, StreamCloses, RecvOpen, RecvClose, ConnectFails, StartPoll, Handshake,
                InsertClient, ConnectTimeout, TimeoutDrops
<1>4. ASSUME NEW u \in Esid, ConnectCallback(u) \/ Poll(u)
      PROVE  /\ sent' = sent /\ arg' = arg
             /\ \A e \in Esid : user'[e] \in {"none", "run"} \/ user'[e] = user[e]
    BY <1>4 DEF ConnectCallback, Poll, PollEvent, PollError, PollEnds, TypeOK
<1>5. CASE UNCHANGED vars
    BY <1>5 DEF vars
<1> QED BY <1>1, <1>2, <1>3, <1>4, <1>5, Steps

LEMMA ArgumentsStep == TypeOK /\ Arguments /\ [Next]_vars => Arguments'
<1> SUFFICES ASSUME TypeOK, Arguments, [Next]_vars PROVE Arguments'
    OBVIOUS
<1> USE DEF engine, names, tables, cb
<1>1. ASSUME NEW e \in Esid, NEW r \in Room, Join(e, r) \/ JoinFirst(e, r) \/ Leave(e, r)
      PROVE  Arguments'
    BY <1>1 DEF Join, JoinFirst, Leave, Arguments, TypeOK
<1>2. ASSUME NEW e \in Esid, NEW r, EmitTo(e, r) PROVE Arguments'
    BY <1>2, SidsType DEF EmitTo, Arguments, TypeOK
<1>3. ASSUME NEW e \in Esid, NEW c, EmitOne(e, c) PROVE Arguments'
    BY <1>3 DEF EmitOne, Arguments, TypeOK
<1>4. ASSUME NEW e \in Esid, JoinInsert(e) \/ EmitDone(e) \/ Return(e) PROVE Arguments'
    BY <1>4 DEF JoinInsert, EmitDone, Return, Arguments, TypeOK
<1>5. CASE \A e \in Esid : ~Callback(e)
    BY <1>5, QuietOutside DEF Arguments
<1> QED BY <1>1, <1>2, <1>3, <1>4, <1>5 DEF Callback

\* What emit_to has spawned goes to a client of the caller's namespace, and stays so.
LEMMA NamespaceIsolationStep ==
    /\ TypeOK /\ Numbered /\ NothingBefore /\ Named /\ ListedAsNamed /\ Arguments
    /\ NamespaceIsolation /\ [Next]_vars
    => NamespaceIsolation'
<1> SUFFICES ASSUME TypeOK, Numbered, NothingBefore, Named, ListedAsNamed, Arguments,
                    NamespaceIsolation, [Next]_vars, NEW m \in sent'
             PROVE  nsp'[Decode(m[2])] = m[1] /\ sid'[Decode(m[2])] = m[2]
    BY DEF NamespaceIsolation
<1>1. CASE m \in sent
  <2>1. Decode(m[2]) \in Esid /\ ~Unconnected(Decode(m[2]))
    <3>1. m[2] \in Sid
        BY <1>1 DEF TypeOK
    <3> QED BY <1>1, <3>1, SidFields DEF NothingBefore
  <2>2. nsp[Decode(m[2])] = m[1] /\ sid[Decode(m[2])] = m[2]
      BY <1>1 DEF NamespaceIsolation
  <2> QED BY <2>1, <2>2, NamesSettle
<1>2. CASE m \notin sent
  <2>1. PICK e \in Esid : Callback(e)
      BY <1>2, QuietOutside
  <2>2. UNCHANGED <<sid, nsp>>
      BY <2>1, CallbackFrame
  <2> QED BY <1>2, <2>1, <2>2, CallbackSends
<1> QED BY <1>1, <1>2

-----------------------------------------------------------------------------
(* The theorems *)

LEMMA InitIInv == Init => IInv
<1> SUFFICES ASSUME Init PROVE IInv
    OBVIOUS
<1>1. TypeOK
    BY SessionCount DEF Init, TypeOK
<1>2. Numbered
  <2>1. {e \in Esid : heard[e] # "new"} = {}
      BY DEF Init
  <2>2. Cardinality({e \in Esid : heard[e] # "new"}) = 0
      BY <2>1, FS_EmptySet
  <2> QED BY <2>2 DEF Init, Numbered
<1>3. NothingBefore /\ Named /\ ListedAsNamed /\ Arguments /\ NamespaceIsolation
    BY DEF Init, NothingBefore, Unconnected, Named, Served, ListedAsNamed, Arguments,
           NamespaceIsolation
<1> QED BY <1>1, <1>2, <1>3 DEF IInv

LEMMA IInvStep == IInv /\ [Next]_vars => IInv'
BY TypeStep, NumberedStep, NothingBeforeStep, NamedStep, ListedAsNamedStep, ArgumentsStep,
   NamespaceIsolationStep DEF IInv

\* The inductive invariant holds for any sessions, namespaces and rooms.
THEOREM Invariance == Spec => []IInv
BY InitIInv, IInvStep, PTL DEF Spec

\* Every variable keeps its type: the generator of ids never needs more numbers than
\* there are sessions, and callbacks run only for clients that have an id and a namespace.
THEOREM TypeCorrect == Spec => []TypeOK
<1>1. IInv => TypeOK
    BY DEF IInv
<1> QED BY <1>1, Invariance, PTL

\* emit_to reaches only clients of the caller's namespace, whatever room or id it is given
\* and however sessions come and go meanwhile.
THEOREM EmitStaysInNamespace == Spec => []NamespaceIsolation
<1>1. IInv => NamespaceIsolation
    BY DEF IInv
<1> QED BY <1>1, Invariance, PTL

\* A session lists at most one client, under an id that decodes to the session, as
\* drop_client and Server::client rely on.
THEOREM OneClient == Spec => []OneClientPerSession
<1>1. IInv => OneClientPerSession
  <2> SUFFICES ASSUME IInv, NEW e \in Esid, NEW c1 \in clients[e], NEW c2 \in clients[e]
               PROVE  c1 = c2 /\ Decode(c1[1]) = e
      BY DEF OneClientPerSession
  <2>1. c1 = <<sid[e], nsp[e]>> /\ c2 = <<sid[e], nsp[e]>>
      BY DEF IInv, ListedAsNamed
  <2>2. conn[e] # "off"
      BY DEF IInv, NothingBefore, Unconnected
  <2> QED BY <2>1, <2>2 DEF IInv, Named
<1> QED BY <1>1, Invariance, PTL

\* A client that is no longer in a room has left it itself, or its session was dropped,
\* or the first join of its namespace replaced the namespace's entry.
LEMMA MembersStep ==
    ASSUME IInv, [Next]_vars, NEW m \in members \ members'
    PROVE  \/ MemberLeavesItself(m)
           \/ \E u \in Esid : user[u] = "join" /\ user'[u] = "run" /\ nsp[u] = m[1]
<1> USE DEF engine, names, tables, cb
<1>0. TypeOK /\ NothingBefore /\ Named
    BY DEF IInv
<1>1. CASE LoopDrops
  <2>1. drop.step = "rooms" /\ drop.esid = Decode(m[3]) /\ drop' = Idle
      BY <1>1 DEF LoopDrops, ForgetRooms
  <2>2. drop = [step |-> "rooms", esid |-> Decode(m[3])]
      BY <1>0, <2>1 DEF TypeOK, Idle
  <2> QED BY <2>1, <2>2 DEF MemberLeavesItself
<1>2. ASSUME NEW e \in Esid, TimeoutDrops(e) PROVE MemberLeavesItself(m)
  <2>1. conn[e] = "rooms" /\ conn'[e] = "done" /\ e = Decode(m[3])
      BY <1>0, <1>2 DEF TimeoutDrops, ForgetRooms, TypeOK
  <2> QED BY <2>1 DEF MemberLeavesItself
<1>3. ASSUME NEW e \in Esid, NEW r \in Room, Leave(e, r) PROVE MemberLeavesItself(m)
  <2>1. m = <<nsp[e], r, sid[e]>> /\ user[e] = "run" /\ user' = user
      BY <1>3 DEF Leave
  <2>2. Decode(sid[e]) = e
      BY <1>0, <2>1, CallbackNames
  <2> QED BY <2>1, <2>2 DEF MemberLeavesItself
<1>4. ASSUME NEW e \in Esid, JoinInsert(e)
      PROVE  user[e] = "join" /\ user'[e] = "run" /\ nsp[e] = m[1]
    BY <1>0, <1>4 DEF JoinInsert, TypeOK
<1>5. ASSUME NEW e \in Esid, NEW r \in Room, Join(e, r) \/ JoinFirst(e, r) PROVE FALSE
    BY <1>5 DEF Join, JoinFirst
<1>6. ASSUME NEW e \in Esid, NEW r, EmitTo(e, r) \/ EmitOne(e, r) PROVE FALSE
    BY <1>6 DEF EmitTo, EmitOne
<1>7. ASSUME NEW e \in Esid, EmitDone(e) \/ Return(e) PROVE FALSE
    BY <1>7 DEF EmitDone, Return
<1>8. ASSUME NEW e \in Esid, NEW n \in Nsp, ConnectPacket(e, n) PROVE FALSE
    BY <1>8 DEF ConnectPacket
<1>9. ASSUME NEW e \in Esid, \/ EngineCloses(e) \/ StreamCloses(e) \/ RecvOpen(e) \/ RecvClose(e) \/ ConnectFails(e)
                             \/ ConnectCallback(e) \/ StartPoll(e) \/ Handshake(e)
                             \/ InsertClient(e) \/ ConnectTimeout(e) \/ Poll(e)
      PROVE  FALSE
    BY <1>9 DEF EngineCloses, StreamCloses, RecvOpen, RecvClose, ConnectFails, ConnectCallback, StartPoll,
                Handshake, InsertClient, ConnectTimeout, Poll, PollEvent, PollError, PollEnds
<1>10. CASE UNCHANGED vars
    BY <1>10 DEF vars
<1> QED BY <1>1, <1>2, <1>3, <1>4, <1>5, <1>6, <1>7, <1>8, <1>9, <1>10, Steps DEF Callback

\* No client is taken out of a room by what another does, except by the first join of its
\* namespace, whose insert replaces the entry that was made in between (Server::join).
THEOREM MembersStay == Spec => RoomsKeepMembers
<1>1. IInv /\ [Next]_vars =>
        [\A m \in members \ members' :
            \/ MemberLeavesItself(m)
            \/ \E u \in Esid : user[u] = "join" /\ user'[u] = "run" /\ nsp[u] = m[1]]_vars
    BY MembersStep
<1> QED BY <1>1, Invariance, PTL DEF Spec, RoomsKeepMembers
=============================================================================
