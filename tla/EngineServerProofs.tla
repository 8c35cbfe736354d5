------------------------- MODULE EngineServerProofs -------------------------
(***************************************************************************)
(* Theorems about EngineServer, for any sessions, sizes and clients.       *)
(*                                                                         *)
(* Each part of IInv has a lemma that every step preserves it, with one    *)
(* step per action of the specification.                                   *)
(***************************************************************************)
EXTENDS EngineServer, TLAPS

-----------------------------------------------------------------------------
(* Names, and where a task goes on *)

LEMMA TaskNames ==
    /\ Task = {"open", "ping", "reader", "loop", "timer", "app", "up", "get", "post"}
    /\ Emitters = {"ping", "loop", "timer", "app", "up"}
    /\ Emitters \subseteq Task
BY DEF Task, Emitters, Closers

LEMMA LabelNames ==
    {"off", "onopen", "insert", "done", "emit", "lock", "send", "refused", "failed", "remove",
     "disc", "onclose", "clear", "await5", "getmut", "swap", "gen", "gen2", "data", "close",
     "rclear", "idle", "tick", "check", "armed", "wait", "poll", "lost", "ended"}
      \cup In \subseteq Label
BY DEF Label, OpenPc, EmitPc, ClosePc, UpgradePc, HandlePc, PostPc, In

LEMMA RestPlace == \A t : Rest(t) = IF t \in {"loop", "app"} THEN "idle" ELSE "done"
BY DEF Rest

LEMMA AfterSendPlace ==
    ASSUME NEW t, NEW p
    PROVE  /\ AfterSend(t, p) \in {"check", "clear", "await5", "disc", "idle", "done"}
           /\ p = "Ping" => AfterSend(t, p) = "check"
           /\ p = "Close" => AfterSend(t, p) = "clear"
           /\ p = "Noop" => AfterSend(t, p) = "await5"
           /\ p = "Bye" => AfterSend(t, p) = "disc"
           /\ p \in {"Msg", "Multi", "Attach"} => AfterSend(t, p) = Rest(t)
BY DEF AfterSend, Rest

LEMMA AfterErrorPlace ==
    ASSUME NEW t, NEW p
    PROVE  /\ AfterError(t, p) \in {"remove", "await5", "idle", "done"}
           /\ p = "Ping" => AfterError(t, p) = "remove"
           /\ p = "Noop" => AfterError(t, p) = "await5"
           /\ p \notin {"Ping", "Noop"} => AfterError(t, p) = Rest(t)
BY DEF AfterError, Rest

LEMMA AfterPacketPlace == \A p : AfterPacket(p) \in {"data", "close", "poll"}
BY DEF AfterPacket

LEMMA EvType == \A s \in Sid : \A k \in {"OnOpen", "OnClose", "other"} : Ev(k, s) \in Event
BY DEF Ev, Event

LEMMA NotifyType ==
    ASSUME TypeOK, NEW e \in Event, Notify(e)
    PROVE  events' \in Seq(Event) /\ Len(events') <= EventSize
BY SizeAssumption DEF TypeOK, Notify

LEMMA GotoType ==
    ASSUME TypeOK, NEW s \in Sid, NEW t \in Task, NEW l \in Label, Goto(s, t, l)
    PROVE  pc' \in [Sid -> [Task -> Label]]
BY DEF TypeOK, Goto

LEMMA PktType ==
    ASSUME TypeOK, NEW s \in Sid, NEW t \in Emitters, NEW p \in Out,
           pkt' = [pkt EXCEPT ![s][t] = p]
    PROVE  pkt' \in [Sid -> [Emitters -> Out]]
BY DEF TypeOK

(* The event channel *)

LEMMA EvEqual ==
    ASSUME NEW j, NEW k, NEW s, NEW u
    PROVE  Ev(j, s) = Ev(k, u) <=> j = k /\ s = u
BY DEF Ev

LEMMA NotifyQueued ==
    ASSUME TypeOK, NEW e, Notify(e), NEW k, NEW s
    PROVE  Queued(k, s)' <=> Queued(k, s) \/ e = Ev(k, s)
<1>1. /\ DOMAIN events = 1..Len(events) /\ DOMAIN events' = 1..(Len(events) + 1)
      /\ events'[Len(events) + 1] = e
      /\ \A i \in 1..Len(events) : events'[i] = events[i]
    BY DEF TypeOK, Notify
<1>2. Len(events) \in Nat
    BY DEF TypeOK
<1> QED BY <1>1, <1>2 DEF Queued, Ev

LEMMA TakeQueued ==
    ASSUME TypeOK, events # <<>>, events' = Tail(events), NEW k, NEW s
    PROVE  Queued(k, s) <=> Queued(k, s)' \/ Head(events) = Ev(k, s)
<1>1. /\ DOMAIN events = 1..Len(events) /\ DOMAIN events' = 1..(Len(events) - 1)
      /\ events[1] = Head(events)
      /\ \A i \in 1..(Len(events) - 1) : events'[i] = events[i + 1]
    BY DEF TypeOK
<1>2. Len(events) \in Nat \ {0}
    BY DEF TypeOK
<1>3. \A i \in 2..Len(events) : i - 1 \in 1..(Len(events) - 1) /\ events[i] = events'[i - 1]
    BY <1>1, <1>2
<1>4. ASSUME Queued(k, s) PROVE Queued(k, s)' \/ Head(events) = Ev(k, s)
  <2>1. PICK i \in DOMAIN events : events[i] = Ev(k, s)
      BY <1>4 DEF Queued
  <2>2. CASE i = 1
      BY <2>1, <2>2, <1>1
  <2>3. CASE i # 1
    <3>1. i \in 2..Len(events)
        BY <2>3, <1>1, <1>2
    <3>2. i - 1 \in DOMAIN events' /\ events'[i - 1] = Ev(k, s)
        BY <3>1, <2>1, <1>1, <1>3
    <3> QED BY <3>2 DEF Queued, Ev
  <2> QED BY <2>2, <2>3
<1>5. Queued(k, s)' => Queued(k, s)
    BY <1>1, <1>2 DEF Queued, Ev
<1>6. Head(events) = Ev(k, s) => Queued(k, s)
    BY <1>1, <1>2 DEF Queued
<1> QED BY <1>4, <1>5, <1>6

-----------------------------------------------------------------------------
(* Type correctness.  What a POST carries to the reader is a packet because a *)
(* POST is at a place of its own, so the two are preserved together.          *)

LEMMA TypeStep == TypeOK /\ Places /\ [Next]_vars => TypeOK'
<1> SUFFICES ASSUME TypeOK, Places, [Next]_vars PROVE TypeOK'
    OBVIOUS
<1> /\ Emitters \subseteq Task /\ {"ping", "loop", "timer", "app", "up"} \subseteq Emitters
    /\ {"open", "ping", "reader", "loop", "timer", "app", "up", "get", "post"} \subseteq Task
    BY TaskNames
<1> USE LabelNames, SizeAssumption, ClientAssumption DEF TypeOK, chan, sess, wire, At
<1>1. ASSUME NEW s \in Sid, NEW tr \in Transports[s], OpenSession(s, tr) PROVE TypeOK'
    BY <1>1 DEF OpenSession, Goto
<1>2. ASSUME NEW s \in Sid, OpenFails(s) PROVE TypeOK'
    BY <1>2, GotoType DEF OpenFails
<1>3. ASSUME NEW s \in Sid, SendOnOpen(s) PROVE TypeOK'
  <2>1. events' \in Seq(Event) /\ Len(events') <= EventSize
      BY <1>3, NotifyType, EvType DEF SendOnOpen
  <2> QED BY <1>3, <2>1, GotoType DEF SendOnOpen
<1>4. ASSUME NEW s \in Sid, Register(s) PROVE TypeOK'
    BY <1>4 DEF Register
<1>5. ASSUME NEW s \in Sid, NEW t \in Emitters, EmitCheck(s, t) PROVE TypeOK'
    BY <1>5, GotoType DEF EmitCheck
<1>6. ASSUME NEW s \in Sid, NEW t \in Emitters, EmitLock(s, t) PROVE TypeOK'
    BY <1>6, GotoType DEF EmitLock
<1>7. ASSUME NEW s \in Sid, NEW t \in Emitters, EmitSend(s, t) PROVE TypeOK'
  <2>1. sendq' \in [Sid -> Seq(Out)] /\ \A u \in Sid : Len(sendq'[u]) <= PollingBuffer
      BY <1>7 DEF EmitSend, CanSend
  <2>2. AfterSend(t, pkt[s][t]) \in Label
      BY AfterSendPlace
  <2>3. pc' \in [Sid -> [Task -> Label]]
      BY <1>7, <2>2, GotoType DEF EmitSend
  <2>4. pkt' \in [Sid -> [Emitters -> Out]]
      BY <1>7, PktType DEF EmitSend, Out
  <2> QED BY <1>7, <2>1, <2>3, <2>4 DEF EmitSend, NoTask
<1>8. ASSUME NEW s \in Sid, NEW t \in Emitters, EmitFail(s, t) PROVE TypeOK'
    BY <1>8, GotoType DEF EmitFail
<1>9. ASSUME NEW s \in Sid, NEW t \in Emitters, OnError(s, t) PROVE TypeOK'
  <2>1. events' \in Seq(Event) /\ Len(events') <= EventSize
      BY <1>9, NotifyType, EvType DEF OnError
  <2>2. AfterError(t, pkt[s][t]) \in Label
      BY AfterErrorPlace
  <2>3. pc' \in [Sid -> [Task -> Label]]
      BY <1>9, <2>2, GotoType DEF OnError
  <2> QED BY <1>9, <2>1, <2>3 DEF OnError, NoTask
<1>10. ASSUME NEW s \in Sid, NEW t \in Emitters, Remove(s, t) PROVE TypeOK'
    BY <1>10, GotoType, RestPlace DEF Remove
<1>11. ASSUME NEW s \in Sid, NEW t \in Emitters, Disconnect(s, t) PROVE TypeOK'
    BY <1>11, GotoType, RestPlace DEF Disconnect
<1>12. ASSUME NEW s \in Sid, NEW t \in Emitters, SendOnClose(s, t) PROVE TypeOK'
  <2>1. events' \in Seq(Event) /\ Len(events') <= EventSize
      BY <1>12, NotifyType, EvType DEF SendOnClose
  <2>2. pkt' \in [Sid -> [Emitters -> Out]]
      BY <1>12, PktType DEF SendOnClose, Out
  <2> QED BY <1>12, <2>1, <2>2, GotoType DEF SendOnClose
<1>13. ASSUME NEW s \in Sid, NEW t \in Emitters, ClearConnected(s, t) PROVE TypeOK'
    BY <1>13, GotoType, RestPlace DEF ClearConnected
<1>14. ASSUME NEW s \in Sid, NEW p \in AppSends[s], AppSend(s, p) PROVE TypeOK'
    BY <1>14, GotoType, PktType DEF AppSend, Out
<1>15. ASSUME NEW s \in Sid, PingTick(s) PROVE TypeOK'
  <2>1. pc' \in [Sid -> [Task -> Label]]
      BY <1>15, GotoType DEF PingTick
  <2>2. pkt' \in [Sid -> [Emitters -> Out]]
      BY <1>15, PktType DEF PingTick, Out, Emitters, Closers
  <2>3. missed' \in [Sid -> 0..MissLimit]
      BY <1>15 DEF PingTick
  <2> QED BY <1>15, <2>1, <2>2, <2>3 DEF PingTick
<1>16. ASSUME NEW s \in Sid, PingCheck(s) PROVE TypeOK'
    BY <1>16, GotoType DEF PingCheck
<1>17. ASSUME NEW s \in Sid, RecvOpen(s) PROVE TypeOK'
  <2>1. pc' \in [Sid -> [Task -> Label]]
      BY <1>17 DEF RecvOpen
  <2>2. events' \in Seq(Event) /\ Len(events') <= EventSize
      BY <1>17 DEF RecvOpen
  <2>3. told' \in [Sid -> {"new", "open", "closed", "reopened"}]
      BY <1>17 DEF RecvOpen
  <2> QED BY <1>17, <2>1, <2>2, <2>3 DEF RecvOpen
<1>18. ASSUME NEW s \in Sid, RecvClose(s) PROVE TypeOK'
  <2>1. events' \in Seq(Event) /\ Len(events') <= EventSize
      BY <1>18 DEF RecvClose
  <2>2. told' \in [Sid -> {"new", "open", "closed", "reopened"}]
      BY <1>18 DEF RecvClose
  <2> QED BY <1>18, <2>1, <2>2, GotoType DEF RecvClose
<1>19. ASSUME NEW s \in Sid, RecvOther(s) PROVE TypeOK'
  <2>1. events' \in Seq(Event) /\ Len(events') <= EventSize
      BY <1>19 DEF RecvOther
  <2> QED BY <1>19, <2>1 DEF RecvOther
<1>20. ASSUME NEW s \in Sid, TimerStops(s) PROVE TypeOK'
    BY <1>20, GotoType DEF TimerStops
<1>21. ASSUME NEW s \in Sid, TimerFires(s) PROVE TypeOK'
  <2>1. PICK r \in {pc[s]["reader"], "ended"} :
            pc' = [pc EXCEPT ![s]["timer"] = "remove", ![s]["reader"] = r]
      BY <1>21 DEF TimerFires
  <2>2. r \in Label
      OBVIOUS
  <2>3. pc' \in [Sid -> [Task -> Label]]
      BY <2>1, <2>2
  <2> QED BY <1>21, <2>3 DEF TimerFires
<1>22. ASSUME NEW s \in Sid, ReaderTake(s) PROVE TypeOK'
  <2>1. Head(Queue(s)) \in In
      BY <1>22 DEF ReaderTake, Queue
  <2>2. pc' \in [Sid -> [Task -> Label]]
      BY <1>22, <2>1, GotoType DEF ReaderTake
  <2>3. recvq' \in [Sid -> Seq(In)] /\ \A u \in Sid : Len(recvq'[u]) <= PollingBuffer
      BY <1>22 DEF ReaderTake, Queue
  <2>4. wsq' \in [Sid -> Seq(In)] /\ \A u \in Sid : Len(wsq'[u]) <= WsBuffer
      BY <1>22 DEF ReaderTake, Queue, WsBuffer
  <2> QED BY <1>22, <2>2, <2>3, <2>4 DEF ReaderTake
<1>23. ASSUME NEW s \in Sid, ReaderMissesLock(s) PROVE TypeOK'
    BY <1>23, GotoType DEF ReaderMissesLock
<1>24. ASSUME NEW s \in Sid, ReaderEnds(s) PROVE TypeOK'
    BY <1>24, GotoType DEF ReaderEnds
<1>25. ASSUME NEW s \in Sid, ReaderGivesUp(s) PROVE TypeOK'
    BY <1>25, GotoType DEF ReaderGivesUp
<1>26. ASSUME NEW s \in Sid, ReaderYields(s) PROVE TypeOK'
  <2>0. /\ pc' \in [Sid -> [Task -> Label]]
        /\ UNCHANGED <<chan, connected, transport, generator, wire, sockets, handles, holder, pkt>>
      BY <1>26, GotoType DEF ReaderYields
  <2>1. missed' = missed \/ missed' = [missed EXCEPT ![s] = 0]
      BY <1>26 DEF ReaderYields
  <2>2. missed' \in [Sid -> 0..MissLimit]
    <3>1. missed \in [Sid -> 0..MissLimit] /\ 0 \in 0..MissLimit
        BY SizeAssumption DEF TypeOK
    <3> QED BY <2>1, <3>1
  <2> QED BY <2>0, <2>2 DEF TypeOK, chan, wire
<1>27. ASSUME NEW s \in Sid, ReaderPacket(s) PROVE TypeOK'
  <2>1. events' \in Seq(Event) /\ Len(events') <= EventSize
      BY <1>27, NotifyType, EvType DEF ReaderPacket
  <2>2. AfterPacket(pc[s]["reader"]) \in Label
      BY AfterPacketPlace
  <2>3. pc' \in [Sid -> [Task -> Label]]
      BY <1>27, <2>2, GotoType DEF ReaderPacket
  <2>4. missed' \in [Sid -> 0..MissLimit]
      BY <1>27 DEF ReaderPacket
  <2> QED BY <1>27, <2>1, <2>3, <2>4 DEF ReaderPacket
<1>28. ASSUME NEW s \in Sid, ReaderData(s) PROVE TypeOK'
  <2>1. events' \in Seq(Event) /\ Len(events') <= EventSize
      BY <1>28, NotifyType, EvType DEF ReaderData
  <2> QED BY <1>28, <2>1, GotoType DEF ReaderData
<1>29. ASSUME NEW s \in Sid, ReaderSkipsClose(s) PROVE TypeOK'
    BY <1>29, GotoType DEF ReaderSkipsClose
<1>30. ASSUME NEW s \in Sid, ReaderClose(s) PROVE TypeOK'
  <2>1. events' \in Seq(Event) /\ Len(events') <= EventSize
      BY <1>30, NotifyType, EvType DEF ReaderClose
  <2> QED BY <1>30, <2>1, GotoType DEF ReaderClose
<1>31. ASSUME NEW s \in Sid, ReaderClear(s) PROVE TypeOK'
    BY <1>31, GotoType DEF ReaderClear
<1>32. ASSUME NEW s \in Sid, Probe(s) PROVE TypeOK'
    BY <1>32, GotoType, PktType DEF Probe, Out
<1>33. ASSUME NEW s \in Sid, Upgraded(s) PROVE TypeOK'
    BY <1>33, GotoType DEF Upgraded
<1>34. ASSUME NEW s \in Sid, UpgradeAborts(s) PROVE TypeOK'
    BY <1>34, GotoType DEF UpgradeAborts
<1>35. ASSUME NEW s \in Sid, UpgradeLookup(s) PROVE TypeOK'
    BY <1>35, GotoType DEF UpgradeLookup
<1>36. ASSUME NEW s \in Sid, UpgradeTransport(s) PROVE TypeOK'
    BY <1>36, GotoType DEF UpgradeTransport, NoTask
<1>37. ASSUME NEW s \in Sid, UpgradeLockGenerator(s) PROVE TypeOK'
    BY <1>37, GotoType DEF UpgradeLockGenerator
<1>38. ASSUME NEW s \in Sid, UpgradeGenerator(s) PROVE TypeOK'
    BY <1>38, GotoType DEF UpgradeGenerator, NoTask
<1>39. ASSUME NEW s \in Sid, GetStart(s) PROVE TypeOK'
    BY <1>39, GotoType DEF GetStart
<1>40. ASSUME NEW s \in Sid, GetReturns(s) PROVE TypeOK'
    BY <1>40, GotoType DEF GetReturns
<1>41. ASSUME NEW s \in Sid, PostReturns(s) PROVE TypeOK'
  <2>1. pc[s]["post"] \in In
      BY <1>41 DEF PostReturns, Places, PostPc
  <2>2. recvq' \in [Sid -> Seq(In)] /\ \A u \in Sid : Len(recvq'[u]) <= PollingBuffer
    <3>1. CASE /\ Len(recvq[s]) < PollingBuffer
               /\ recvq' = [recvq EXCEPT ![s] = Append(@, pc[s]["post"])]
        BY <3>1, <2>1
    <3>2. CASE UNCHANGED recvq
        BY <3>2
    <3> QED BY <1>41, <3>1, <3>2 DEF PostReturns
  <2>3. pc' \in [Sid -> [Task -> Label]]
      BY <1>41, GotoType DEF PostReturns
  <2> QED BY <1>41, <2>2, <2>3 DEF PostReturns
<1>42. ASSUME NEW s \in Sid, WsDrop(s) PROVE TypeOK'
    BY <1>42 DEF WsDrop
<1>43. ASSUME NEW s \in Sid, NEW p \in ClientSends[s], PostStart(s, p) PROVE TypeOK'
    BY <1>43, GotoType DEF PostStart
<1>44. ASSUME NEW s \in Sid, NEW p \in ClientSends[s], WsSend(s, p) PROVE TypeOK'
    BY <1>44 DEF WsSend, WsBuffer
<1>45. CASE UNCHANGED vars
    BY <1>45 DEF vars
<1> QED BY <1>1, <1>2, <1>3, <1>4, <1>5, <1>6, <1>7, <1>8, <1>9, <1>10, <1>11, <1>12, <1>13,
        <1>14, <1>15, <1>16, <1>17, <1>18, <1>19, <1>20, <1>21, <1>22, <1>23, <1>24, <1>25, <1>26,
        <1>27, <1>28, <1>29, <1>30, <1>31, <1>32, <1>33, <1>34, <1>35, <1>36, <1>37, <1>38, <1>39,
        <1>40, <1>41, <1>42, <1>43, <1>44, <1>45
    DEF Next, Emit, Close, Ping, Loop, Timer, Reader, UpgradeSteps, Upgrade, Client

LEMMA PlacesStep == TypeOK /\ Places /\ [Next]_vars => Places'
<1> SUFFICES ASSUME TypeOK, Places, [Next]_vars PROVE Places'
    OBVIOUS
<1> pc \in [Sid -> [Task -> Label]] /\ pkt \in [Sid -> [Emitters -> Out]]
    BY DEF TypeOK
<1> USE TaskNames DEF Places, Goto, At, OpenPc, EmitPc, ClosePc, UpgradePc, HandlePc, PostPc
<1>1. ASSUME NEW s \in Sid, NEW tr \in Transports[s], OpenSession(s, tr) PROVE Places'
    BY <1>1 DEF OpenSession
<1>2. ASSUME NEW s \in Sid, OpenFails(s) PROVE Places'
    BY <1>2 DEF OpenFails
<1>3. ASSUME NEW s \in Sid, SendOnOpen(s) PROVE Places'
    BY <1>3 DEF SendOnOpen
<1>4. ASSUME NEW s \in Sid, Register(s) PROVE Places'
    BY <1>4 DEF Register
<1>5. ASSUME NEW s \in Sid, NEW t \in Emitters, EmitCheck(s, t) PROVE Places'
    BY <1>5 DEF EmitCheck
<1>6. ASSUME NEW s \in Sid, NEW t \in Emitters, EmitLock(s, t) PROVE Places'
    BY <1>6 DEF EmitLock
<1>7. ASSUME NEW s \in Sid, NEW t \in Emitters, EmitSend(s, t) PROVE Places'
  <2>1. CASE pkt[s][t] = "Multi"
      BY <1>7, <2>1 DEF EmitSend
  <2>2. CASE pkt[s][t] # "Multi"
    <3>1. pc' = [pc EXCEPT ![s][t] = AfterSend(t, pkt[s][t])] /\ pkt' = pkt
        BY <1>7, <2>2 DEF EmitSend
    <3>2. /\ t = "ping" => AfterSend(t, pkt[s][t]) \in {"check", "clear"}
          /\ t \in {"loop", "timer"} => AfterSend(t, pkt[s][t]) = "clear"
          /\ t = "app" => AfterSend(t, pkt[s][t]) \in {"idle", "disc", "clear"}
          /\ t = "up" => AfterSend(t, pkt[s][t]) = "await5"
        BY <1>7, AfterSendPlace, RestPlace DEF EmitSend
    <3> QED BY <3>1, <3>2
  <2> QED BY <2>1, <2>2
<1>8. ASSUME NEW s \in Sid, NEW t \in Emitters, EmitFail(s, t) PROVE Places'
    BY <1>8 DEF EmitFail
<1>9. ASSUME NEW s \in Sid, NEW t \in Emitters, OnError(s, t) PROVE Places'
  <2>1. pc' = [pc EXCEPT ![s][t] = AfterError(t, pkt[s][t])] /\ pkt' = pkt
      BY <1>9 DEF OnError
  <2>2. /\ t = "ping" => AfterError(t, pkt[s][t]) \in {"remove", "done"}
        /\ t = "loop" => AfterError(t, pkt[s][t]) = "idle"
        /\ t = "timer" => AfterError(t, pkt[s][t]) = "done"
        /\ t = "app" => AfterError(t, pkt[s][t]) = "idle"
        /\ t = "up" => AfterError(t, pkt[s][t]) = "await5"
      BY <1>9, AfterErrorPlace, RestPlace DEF OnError
  <2> QED BY <2>1, <2>2
<1>10. ASSUME NEW s \in Sid, NEW t \in Emitters, Remove(s, t) PROVE Places'
    BY <1>10, RestPlace DEF Remove
<1>11. ASSUME NEW s \in Sid, NEW t \in Emitters, Disconnect(s, t) PROVE Places'
    BY <1>11, RestPlace DEF Disconnect
<1>12. ASSUME NEW s \in Sid, NEW t \in Emitters, SendOnClose(s, t) PROVE Places'
    BY <1>12 DEF SendOnClose
<1>13. ASSUME NEW s \in Sid, NEW t \in Emitters, ClearConnected(s, t) PROVE Places'
    BY <1>13, RestPlace DEF ClearConnected
<1>14. ASSUME NEW s \in Sid, NEW p \in AppSends[s], AppSend(s, p) PROVE Places'
  <2>1. p \in {"Msg", "Multi", "Bye"}
      BY ClientAssumption
  <2> QED BY <1>14, <2>1 DEF AppSend
<1>15. ASSUME NEW s \in Sid, PingTick(s) PROVE Places'
  <2>1. CASE s \in sockets
      BY <1>15, <2>1 DEF PingTick
  <2>2. CASE s \notin sockets
      BY <1>15, <2>2 DEF PingTick
  <2> QED BY <2>1, <2>2
<1>16. ASSUME NEW s \in Sid, PingCheck(s) PROVE Places'
    BY <1>16 DEF PingCheck
<1>17. ASSUME NEW s \in Sid, RecvOpen(s) PROVE Places'
    BY <1>17 DEF RecvOpen
<1>18. ASSUME NEW s \in Sid, RecvClose(s) PROVE Places'
    BY <1>18 DEF RecvClose
<1>19. ASSUME NEW s \in Sid, RecvOther(s) PROVE Places'
    BY <1>19 DEF RecvOther
<1>20. ASSUME NEW s \in Sid, TimerStops(s) PROVE Places'
    BY <1>20 DEF TimerStops
<1>21. ASSUME NEW s \in Sid, TimerFires(s) PROVE Places'
    BY <1>21 DEF TimerFires
<1>22. ASSUME NEW s \in Sid, ReaderTake(s) PROVE Places'
  <2>1. Head(Queue(s)) \in In
      BY <1>22 DEF ReaderTake, Queue, TypeOK
  <2> QED BY <1>22, <2>1 DEF ReaderTake, In
<1>23. ASSUME NEW s \in Sid, ReaderMissesLock(s) PROVE Places'
    BY <1>23 DEF ReaderMissesLock
<1>24. ASSUME NEW s \in Sid, ReaderEnds(s) PROVE Places'
    BY <1>24 DEF ReaderEnds
<1>25. ASSUME NEW s \in Sid, ReaderGivesUp(s) PROVE Places'
    BY <1>25 DEF ReaderGivesUp
<1>26. ASSUME NEW s \in Sid, ReaderYields(s) PROVE Places'
    BY <1>26 DEF ReaderYields
<1>27. ASSUME NEW s \in Sid, ReaderPacket(s) PROVE Places'
    BY <1>27, AfterPacketPlace DEF ReaderPacket
<1>28. ASSUME NEW s \in Sid, ReaderData(s) PROVE Places'
    BY <1>28 DEF ReaderData
<1>29. ASSUME NEW s \in Sid, ReaderSkipsClose(s) PROVE Places'
    BY <1>29 DEF ReaderSkipsClose
<1>30. ASSUME NEW s \in Sid, ReaderClose(s) PROVE Places'
    BY <1>30 DEF ReaderClose
<1>31. ASSUME NEW s \in Sid, ReaderClear(s) PROVE Places'
    BY <1>31 DEF ReaderClear
<1>32. ASSUME NEW s \in Sid, Probe(s) PROVE Places'
    BY <1>32 DEF Probe
<1>33. ASSUME NEW s \in Sid, Upgraded(s) PROVE Places'
    BY <1>33 DEF Upgraded
<1>34. ASSUME NEW s \in Sid, UpgradeAborts(s) PROVE Places'
    BY <1>34 DEF UpgradeAborts
<1>35. ASSUME NEW s \in Sid, UpgradeLookup(s) PROVE Places'
    BY <1>35 DEF UpgradeLookup
<1>36. ASSUME NEW s \in Sid, UpgradeTransport(s) PROVE Places'
    BY <1>36 DEF UpgradeTransport
<1>37. ASSUME NEW s \in Sid, UpgradeLockGenerator(s) PROVE Places'
    BY <1>37 DEF UpgradeLockGenerator
<1>38. ASSUME NEW s \in Sid, UpgradeGenerator(s) PROVE Places'
    BY <1>38 DEF UpgradeGenerator
<1>39. ASSUME NEW s \in Sid, GetStart(s) PROVE Places'
    BY <1>39 DEF GetStart
<1>40. ASSUME NEW s \in Sid, GetReturns(s) PROVE Places'
    BY <1>40 DEF GetReturns
<1>41. ASSUME NEW s \in Sid, PostReturns(s) PROVE Places'
    BY <1>41 DEF PostReturns
<1>42. ASSUME NEW s \in Sid, WsDrop(s) PROVE Places'
    BY <1>42 DEF WsDrop
<1>43. ASSUME NEW s \in Sid, NEW p \in ClientSends[s], PostStart(s, p) PROVE Places'
  <2>1. p \in In
      BY ClientAssumption
  <2> QED BY <1>43, <2>1 DEF PostStart
<1>44. ASSUME NEW s \in Sid, NEW p \in ClientSends[s], WsSend(s, p) PROVE Places'
    BY <1>44 DEF WsSend
<1>45. CASE UNCHANGED vars
    BY <1>45 DEF vars
<1> HIDE TaskNames DEF Places, Goto, At, OpenPc, EmitPc, ClosePc, UpgradePc, HandlePc, PostPc
<1> QED BY <1>1, <1>2, <1>3, <1>4, <1>5, <1>6, <1>7, <1>8, <1>9, <1>10, <1>11, <1>12, <1>13,
        <1>14, <1>15, <1>16, <1>17, <1>18, <1>19, <1>20, <1>21, <1>22, <1>23, <1>24, <1>25, <1>26,
        <1>27, <1>28, <1>29, <1>30, <1>31, <1>32, <1>33, <1>34, <1>35, <1>36, <1>37, <1>38, <1>39,
        <1>40, <1>41, <1>42, <1>43, <1>44, <1>45
    DEF Next, Emit, Close, Ping, Loop, Timer, Reader, UpgradeSteps, Upgrade, Client

-----------------------------------------------------------------------------
(* What the reader and the client's requests leave alone *)

Aside == /\ \A s \in Sid : \A t \in Emitters \cup {"open"} : pc'[s][t] = pc[s][t]
         /\ UNCHANGED <<told, sockets, holder, pkt>>

LEMMA AsideStep == ASSUME TypeOK, NEW s \in Sid, Reader(s) \/ Client(s) PROVE Aside
<1> pc \in [Sid -> [Task -> Label]]
    BY DEF TypeOK
<1> USE TaskNames DEF Aside, Goto, chan
<1>1. ASSUME ReaderTake(s) PROVE Aside
    BY <1>1 DEF ReaderTake
<1>2. ASSUME ReaderMissesLock(s) PROVE Aside
    BY <1>2 DEF ReaderMissesLock
<1>3. ASSUME ReaderEnds(s) PROVE Aside
    BY <1>3 DEF ReaderEnds
<1>4. ASSUME ReaderGivesUp(s) PROVE Aside
    BY <1>4 DEF ReaderGivesUp
<1>5. ASSUME ReaderYields(s) PROVE Aside
    BY <1>5 DEF ReaderYields
<1>6. ASSUME ReaderPacket(s) PROVE Aside
    BY <1>6 DEF ReaderPacket
<1>7. ASSUME ReaderData(s) PROVE Aside
    BY <1>7 DEF ReaderData
<1>8. ASSUME ReaderSkipsClose(s) PROVE Aside
    BY <1>8 DEF ReaderSkipsClose
<1>9. ASSUME ReaderClose(s) PROVE Aside
    BY <1>9 DEF ReaderClose
<1>10. ASSUME ReaderClear(s) PROVE Aside
    BY <1>10 DEF ReaderClear
<1>11. ASSUME GetStart(s) PROVE Aside
    BY <1>11 DEF GetStart
<1>12. ASSUME GetReturns(s) PROVE Aside
    BY <1>12 DEF GetReturns
<1>13. ASSUME PostReturns(s) PROVE Aside
    BY <1>13 DEF PostReturns
<1>14. ASSUME WsDrop(s) PROVE Aside
    BY <1>14 DEF WsDrop
<1>15. ASSUME NEW p \in ClientSends[s], PostStart(s, p) PROVE Aside
    BY <1>15 DEF PostStart
<1>16. ASSUME NEW p \in ClientSends[s], WsSend(s, p) PROVE Aside
    BY <1>16 DEF WsSend
<1> QED BY <1>1, <1>2, <1>3, <1>4, <1>5, <1>6, <1>7, <1>8, <1>9, <1>10, <1>11, <1>12, <1>13,
        <1>14, <1>15, <1>16 DEF Reader, Client

LEMMA MutexStep == TypeOK /\ Places /\ Mutex /\ [Next]_vars => Mutex'
<1> SUFFICES ASSUME TypeOK, Places, Mutex, [Next]_vars
             PROVE  Mutex'
    OBVIOUS
<1> pc \in [Sid -> [Task -> Label]] /\ holder \in [Sid -> Task \cup {NoTask}]
    BY DEF TypeOK
<1> USE TaskNames DEF Mutex, InMutex, Goto, At
<1>1. ASSUME Aside PROVE Mutex'
    BY <1>1 DEF Aside
<1>2. ASSUME NEW s \in Sid, NEW tr \in Transports[s], OpenSession(s, tr) PROVE Mutex'
    BY <1>2 DEF OpenSession
<1>3. ASSUME NEW s \in Sid, OpenFails(s) PROVE Mutex'
    BY <1>3 DEF OpenFails
<1>4. ASSUME NEW s \in Sid, SendOnOpen(s) PROVE Mutex'
    BY <1>4 DEF SendOnOpen
<1>5. ASSUME NEW s \in Sid, Register(s) PROVE Mutex'
    BY <1>5 DEF Register
<1>6. ASSUME NEW s \in Sid, NEW t \in Emitters, EmitCheck(s, t) PROVE Mutex'
    BY <1>6 DEF EmitCheck
<1>7. ASSUME NEW s \in Sid, NEW t \in Emitters, EmitLock(s, t) PROVE Mutex'
    BY <1>7 DEF EmitLock, NoTask
<1>8. ASSUME NEW s \in Sid, NEW t \in Emitters, EmitSend(s, t) PROVE Mutex'
    BY <1>8, AfterSendPlace DEF EmitSend, KeepsLock
<1>9. ASSUME NEW s \in Sid, NEW t \in Emitters, EmitFail(s, t) PROVE Mutex'
    BY <1>9 DEF EmitFail
<1>10. ASSUME NEW s \in Sid, NEW t \in Emitters, OnError(s, t) PROVE Mutex'
    BY <1>10, AfterErrorPlace DEF OnError
<1>11. ASSUME NEW s \in Sid, NEW t \in Emitters, Remove(s, t) PROVE Mutex'
    BY <1>11, RestPlace DEF Remove
<1>12. ASSUME NEW s \in Sid, NEW t \in Emitters, Disconnect(s, t) PROVE Mutex'
    BY <1>12, RestPlace DEF Disconnect
<1>13. ASSUME NEW s \in Sid, NEW t \in Emitters, SendOnClose(s, t) PROVE Mutex'
    BY <1>13 DEF SendOnClose
<1>14. ASSUME NEW s \in Sid, NEW t \in Emitters, ClearConnected(s, t) PROVE Mutex'
    BY <1>14, RestPlace DEF ClearConnected
<1>15. ASSUME NEW s \in Sid, NEW p \in AppSends[s], AppSend(s, p) PROVE Mutex'
    BY <1>15 DEF AppSend
<1>16. ASSUME NEW s \in Sid, PingTick(s) PROVE Mutex'
    BY <1>16 DEF PingTick
<1>17. ASSUME NEW s \in Sid, PingCheck(s) PROVE Mutex'
    BY <1>17 DEF PingCheck
<1>18. ASSUME NEW s \in Sid, RecvOpen(s) PROVE Mutex'
    BY <1>18 DEF RecvOpen
<1>19. ASSUME NEW s \in Sid, RecvClose(s) PROVE Mutex'
    BY <1>19 DEF RecvClose
<1>20. ASSUME NEW s \in Sid, RecvOther(s) PROVE Mutex'
    BY <1>20 DEF RecvOther
<1>21. ASSUME NEW s \in Sid, TimerStops(s) PROVE Mutex'
    BY <1>21 DEF TimerStops
<1>22. ASSUME NEW s \in Sid, TimerFires(s) PROVE Mutex'
    BY <1>22 DEF TimerFires
<1>23. ASSUME NEW s \in Sid, Probe(s) PROVE Mutex'
    BY <1>23 DEF Probe
<1>24. ASSUME NEW s \in Sid, Upgraded(s) PROVE Mutex'
    BY <1>24 DEF Upgraded
<1>25. ASSUME NEW s \in Sid, UpgradeAborts(s) PROVE Mutex'
    BY <1>25 DEF UpgradeAborts
<1>26. ASSUME NEW s \in Sid, UpgradeLookup(s) PROVE Mutex'
    BY <1>26 DEF UpgradeLookup
<1>27. ASSUME NEW s \in Sid, UpgradeTransport(s) PROVE Mutex'
    BY <1>27 DEF UpgradeTransport, NoTask
<1>28. ASSUME NEW s \in Sid, UpgradeLockGenerator(s) PROVE Mutex'
    BY <1>28 DEF UpgradeLockGenerator
<1>29. ASSUME NEW s \in Sid, UpgradeGenerator(s) PROVE Mutex'
    BY <1>29 DEF UpgradeGenerator
<1>30. CASE UNCHANGED vars
    BY <1>30 DEF vars
<1> QED BY <1>1, <1>2, <1>3, <1>4, <1>5, <1>6, <1>7, <1>8, <1>9, <1>10, <1>11, <1>12, <1>13,
        <1>14, <1>15, <1>16, <1>17, <1>18, <1>19, <1>20, <1>21, <1>22, <1>23, <1>24, <1>25, <1>26,
        <1>27, <1>28, <1>29, AsideStep, <1>30
    DEF Next, Emit, Close, Ping, Loop, Timer, UpgradeSteps, Upgrade

-----------------------------------------------------------------------------
(* A session that is being opened *)

LEMMA BootingStep == TypeOK /\ Places /\ Booting /\ [Next]_vars => Booting'
<1> SUFFICES ASSUME TypeOK, Places, Booting, [Next]_vars PROVE Booting'
    OBVIOUS
<1> /\ pc \in [Sid -> [Task -> Label]] /\ told \in [Sid -> {"new", "open", "closed", "reopened"}]
    /\ transport \in [Sid -> {"none", "polling", "ws"}]
    BY DEF TypeOK
<1> USE TaskNames DEF Booting, Start, Goto, At, sess
<1>1. ASSUME NEW s \in Sid, NEW tr \in Transports[s], OpenSession(s, tr) PROVE Booting'
  <2>1. tr \in {"polling", "ws"}
      BY ClientAssumption
  <2> QED BY <1>1, <2>1 DEF OpenSession, Queued
<1>2. ASSUME NEW s \in Sid, OpenFails(s) PROVE Booting'
    BY <1>2 DEF OpenFails, Queued, chan
<1>3. ASSUME NEW s \in Sid, SendOnOpen(s) PROVE Booting'
    BY <1>3, NotifyQueued, EvEqual DEF SendOnOpen
<1>4. ASSUME NEW s \in Sid, Register(s) PROVE Booting'
    BY <1>4 DEF Register, Queued, chan
<1>5. ASSUME NEW s \in Sid, NEW t \in Emitters, EmitCheck(s, t) PROVE Booting'
    BY <1>5 DEF EmitCheck, Queued, chan
<1>6. ASSUME NEW s \in Sid, NEW t \in Emitters, EmitLock(s, t) PROVE Booting'
    BY <1>6 DEF EmitLock, Queued, chan
<1>7. ASSUME NEW s \in Sid, NEW t \in Emitters, EmitSend(s, t) PROVE Booting'
  <2>1. pc[s]["open"] = "done"
      BY <1>7 DEF EmitSend
  <2>2. pc'[s]["open"] = "done" /\ \A u \in Sid : u # s => pc'[u] = pc[u]
      BY <1>7, <2>1 DEF EmitSend
  <2> QED BY <1>7, <2>2 DEF EmitSend, Queued, chan
<1>8. ASSUME NEW s \in Sid, NEW t \in Emitters, EmitFail(s, t) PROVE Booting'
    BY <1>8 DEF EmitFail, Queued, chan
<1>9. ASSUME NEW s \in Sid, NEW t \in Emitters, OnError(s, t) PROVE Booting'
    BY <1>9, AfterErrorPlace, NotifyQueued, EvEqual DEF OnError
<1>10. ASSUME NEW s \in Sid, NEW t \in Emitters, Remove(s, t) PROVE Booting'
    BY <1>10 DEF Remove, Queued, chan
<1>11. ASSUME NEW s \in Sid, NEW t \in Emitters, Disconnect(s, t) PROVE Booting'
    BY <1>11 DEF Disconnect, Queued, chan
<1>12. ASSUME NEW s \in Sid, NEW t \in Emitters, SendOnClose(s, t) PROVE Booting'
    BY <1>12, NotifyQueued, EvEqual DEF SendOnClose
<1>13. ASSUME NEW s \in Sid, NEW t \in Emitters, ClearConnected(s, t) PROVE Booting'
    BY <1>13 DEF ClearConnected, Queued, chan
<1>14. ASSUME NEW s \in Sid, NEW p \in AppSends[s], AppSend(s, p) PROVE Booting'
    BY <1>14 DEF AppSend, Queued, chan
<1>15. ASSUME NEW s \in Sid, PingTick(s) PROVE Booting'
    BY <1>15 DEF PingTick, Queued, chan
<1>16. ASSUME NEW s \in Sid, PingCheck(s) PROVE Booting'
    BY <1>16 DEF PingCheck, Queued, chan
<1>17. ASSUME NEW s \in Sid, RecvOpen(s) PROVE Booting'
    BY <1>17, TakeQueued, EvEqual DEF RecvOpen
<1>18. ASSUME NEW s \in Sid, RecvClose(s) PROVE Booting'
    BY <1>18, TakeQueued, EvEqual DEF RecvClose
<1>19. ASSUME NEW s \in Sid, RecvOther(s) PROVE Booting'
    BY <1>19, TakeQueued, EvEqual DEF RecvOther
<1>20. ASSUME NEW s \in Sid, TimerStops(s) PROVE Booting'
    BY <1>20 DEF TimerStops, Queued, chan
<1>21. ASSUME NEW s \in Sid, TimerFires(s) PROVE Booting'
    BY <1>21 DEF TimerFires, Queued, chan
<1>22. ASSUME NEW s \in Sid, ReaderTake(s) PROVE Booting'
    BY <1>22 DEF ReaderTake, Queued, chan
<1>23. ASSUME NEW s \in Sid, ReaderMissesLock(s) PROVE Booting'
    BY <1>23 DEF ReaderMissesLock, Queued, chan
<1>24. ASSUME NEW s \in Sid, ReaderEnds(s) PROVE Booting'
    BY <1>24 DEF ReaderEnds, Queued, chan
<1>25. ASSUME NEW s \in Sid, ReaderGivesUp(s) PROVE Booting'
    BY <1>25 DEF ReaderGivesUp, Queued, chan, MaySend, In
<1>26. ASSUME NEW s \in Sid, ReaderYields(s) PROVE Booting'
    BY <1>26 DEF ReaderYields, Queued, chan, MaySend, In
<1>27. ASSUME NEW s \in Sid, ReaderPacket(s) PROVE Booting'
    BY <1>27, NotifyQueued, EvEqual DEF ReaderPacket, In
<1>28. ASSUME NEW s \in Sid, ReaderData(s) PROVE Booting'
    BY <1>28, NotifyQueued, EvEqual DEF ReaderData
<1>29. ASSUME NEW s \in Sid, ReaderSkipsClose(s) PROVE Booting'
    BY <1>29 DEF ReaderSkipsClose, Queued, chan
<1>30. ASSUME NEW s \in Sid, ReaderClose(s) PROVE Booting'
    BY <1>30, NotifyQueued, EvEqual DEF ReaderClose
<1>31. ASSUME NEW s \in Sid, ReaderClear(s) PROVE Booting'
    BY <1>31 DEF ReaderClear, Queued, chan
<1>32. ASSUME NEW s \in Sid, Probe(s) PROVE Booting'
    BY <1>32 DEF Probe, Queued, chan
<1>33. ASSUME NEW s \in Sid, Upgraded(s) PROVE Booting'
    BY <1>33 DEF Upgraded, Queued, chan
<1>34. ASSUME NEW s \in Sid, UpgradeAborts(s) PROVE Booting'
    BY <1>34 DEF UpgradeAborts, Queued, chan
<1>35. ASSUME NEW s \in Sid, UpgradeLookup(s) PROVE Booting'
    BY <1>35 DEF UpgradeLookup, Queued, chan
<1>36. ASSUME NEW s \in Sid, UpgradeTransport(s) PROVE Booting'
    BY <1>36 DEF UpgradeTransport, Queued, chan
<1>37. ASSUME NEW s \in Sid, UpgradeLockGenerator(s) PROVE Booting'
    BY <1>37 DEF UpgradeLockGenerator, Queued, chan
<1>38. ASSUME NEW s \in Sid, UpgradeGenerator(s) PROVE Booting'
    BY <1>38 DEF UpgradeGenerator, Queued, chan
<1>39. ASSUME NEW s \in Sid, GetStart(s) PROVE Booting'
    BY <1>39 DEF GetStart, Queued, chan
<1>40. ASSUME NEW s \in Sid, GetReturns(s) PROVE Booting'
    BY <1>40 DEF GetReturns, Queued, chan
<1>41. ASSUME NEW s \in Sid, PostReturns(s) PROVE Booting'
    BY <1>41 DEF PostReturns, Queued, chan
<1>42. ASSUME NEW s \in Sid, WsDrop(s) PROVE Booting'
    BY <1>42 DEF WsDrop, Queued, chan
<1>43. ASSUME NEW s \in Sid, NEW p \in ClientSends[s], PostStart(s, p) PROVE Booting'
    BY <1>43 DEF PostStart, Queued, chan
<1>44. ASSUME NEW s \in Sid, NEW p \in ClientSends[s], WsSend(s, p) PROVE Booting'
    BY <1>44 DEF WsSend, Queued, chan
<1>45. CASE UNCHANGED vars
    BY <1>45 DEF vars, Queued
<1> QED BY <1>1, <1>2, <1>3, <1>4, <1>5, <1>6, <1>7, <1>8, <1>9, <1>10, <1>11, <1>12, <1>13,
        <1>14, <1>15, <1>16, <1>17, <1>18, <1>19, <1>20, <1>21, <1>22, <1>23, <1>24, <1>25, <1>26,
        <1>27, <1>28, <1>29, <1>30, <1>31, <1>32, <1>33, <1>34, <1>35, <1>36, <1>37, <1>38, <1>39,
        <1>40, <1>41, <1>42, <1>43, <1>44, <1>45
    DEF Next, Emit, Close, Ping, Loop, Timer, Reader, UpgradeSteps, Upgrade, Client

LEMMA WatchedStep == TypeOK /\ Places /\ Watched /\ [Next]_vars => Watched'
<1> SUFFICES ASSUME TypeOK, Places, Watched, [Next]_vars
             PROVE  Watched'
    OBVIOUS
<1> pc \in [Sid -> [Task -> Label]] /\ pkt \in [Sid -> [Emitters -> Out]] /\ sockets \subseteq Sid
    BY DEF TypeOK
<1> USE TaskNames DEF Watched, ReadsSockets, EmitPc, Goto, At
<1>1. ASSUME Aside PROVE Watched'
    BY <1>1 DEF Aside
<1>2. ASSUME NEW s \in Sid, NEW tr \in Transports[s], OpenSession(s, tr) PROVE Watched'
    BY <1>2 DEF OpenSession
<1>3. ASSUME NEW s \in Sid, OpenFails(s) PROVE Watched'
    BY <1>3 DEF OpenFails
<1>4. ASSUME NEW s \in Sid, SendOnOpen(s) PROVE Watched'
    BY <1>4 DEF SendOnOpen
<1>5. ASSUME NEW s \in Sid, Register(s) PROVE Watched'
    BY <1>5 DEF Register
<1>6. ASSUME NEW s \in Sid, NEW t \in Emitters, EmitCheck(s, t) PROVE Watched'
    BY <1>6 DEF EmitCheck
<1>7. ASSUME NEW s \in Sid, NEW t \in Emitters, EmitLock(s, t) PROVE Watched'
    BY <1>7 DEF EmitLock
<1>8. ASSUME NEW s \in Sid, NEW t \in Emitters, EmitSend(s, t) PROVE Watched'
    BY <1>8, AfterSendPlace DEF EmitSend, Places
<1>9. ASSUME NEW s \in Sid, NEW t \in Emitters, EmitFail(s, t) PROVE Watched'
    BY <1>9 DEF EmitFail
<1>10. ASSUME NEW s \in Sid, NEW t \in Emitters, OnError(s, t) PROVE Watched'
    BY <1>10, AfterErrorPlace DEF OnError, Places
<1>11. ASSUME NEW s \in Sid, NEW t \in Emitters, Remove(s, t) PROVE Watched'
    BY <1>11, RestPlace DEF Remove
<1>12. ASSUME NEW s \in Sid, NEW t \in Emitters, Disconnect(s, t) PROVE Watched'
    BY <1>12, RestPlace DEF Disconnect
<1>13. ASSUME NEW s \in Sid, NEW t \in Emitters, SendOnClose(s, t) PROVE Watched'
    BY <1>13 DEF SendOnClose
<1>14. ASSUME NEW s \in Sid, NEW t \in Emitters, ClearConnected(s, t) PROVE Watched'
    BY <1>14, RestPlace DEF ClearConnected
<1>15. ASSUME NEW s \in Sid, NEW p \in AppSends[s], AppSend(s, p) PROVE Watched'
    BY <1>15 DEF AppSend
<1>16. ASSUME NEW s \in Sid, PingTick(s) PROVE Watched'
    BY <1>16 DEF PingTick
<1>17. ASSUME NEW s \in Sid, PingCheck(s) PROVE Watched'
    BY <1>17 DEF PingCheck
<1>18. ASSUME NEW s \in Sid, RecvOpen(s) PROVE Watched'
    BY <1>18 DEF RecvOpen
<1>19. ASSUME NEW s \in Sid, RecvClose(s) PROVE Watched'
    BY <1>19 DEF RecvClose
<1>20. ASSUME NEW s \in Sid, RecvOther(s) PROVE Watched'
    BY <1>20 DEF RecvOther
<1>21. ASSUME NEW s \in Sid, TimerStops(s) PROVE Watched'
    BY <1>21 DEF TimerStops
<1>22. ASSUME NEW s \in Sid, TimerFires(s) PROVE Watched'
    BY <1>22 DEF TimerFires
<1>23. ASSUME NEW s \in Sid, Probe(s) PROVE Watched'
    BY <1>23 DEF Probe
<1>24. ASSUME NEW s \in Sid, Upgraded(s) PROVE Watched'
    BY <1>24 DEF Upgraded
<1>25. ASSUME NEW s \in Sid, UpgradeAborts(s) PROVE Watched'
    BY <1>25 DEF UpgradeAborts
<1>26. ASSUME NEW s \in Sid, UpgradeLookup(s) PROVE Watched'
    BY <1>26 DEF UpgradeLookup
<1>27. ASSUME NEW s \in Sid, UpgradeTransport(s) PROVE Watched'
    BY <1>27 DEF UpgradeTransport
<1>28. ASSUME NEW s \in Sid, UpgradeLockGenerator(s) PROVE Watched'
    BY <1>28 DEF UpgradeLockGenerator
<1>29. ASSUME NEW s \in Sid, UpgradeGenerator(s) PROVE Watched'
    BY <1>29 DEF UpgradeGenerator
<1>30. CASE UNCHANGED vars
    BY <1>30 DEF vars
<1> QED BY <1>1, <1>2, <1>3, <1>4, <1>5, <1>6, <1>7, <1>8, <1>9, <1>10, <1>11, <1>12, <1>13,
        <1>14, <1>15, <1>16, <1>17, <1>18, <1>19, <1>20, <1>21, <1>22, <1>23, <1>24, <1>25, <1>26,
        <1>27, <1>28, <1>29, AsideStep, <1>30
    DEF Next, Emit, Close, Ping, Loop, Timer, UpgradeSteps, Upgrade

LEMMA SingleCloserStep ==
    TypeOK /\ Places /\ Booting /\ SingleCloser /\ [Next]_vars => SingleCloser'
<1> SUFFICES ASSUME TypeOK, Places, Booting, SingleCloser, [Next]_vars
             PROVE  SingleCloser'
    OBVIOUS
<1> pc \in [Sid -> [Task -> Label]] /\ pkt \in [Sid -> [Emitters -> Out]]
    BY DEF TypeOK
<1> USE TaskNames DEF SingleCloser, Closing, Closers, EmitPc, Goto, At
<1>1. ASSUME Aside PROVE SingleCloser'
    BY <1>1 DEF Aside
<1>2. ASSUME NEW s \in Sid, NEW tr \in Transports[s], OpenSession(s, tr) PROVE SingleCloser'
    BY <1>2 DEF OpenSession
<1>3. ASSUME NEW s \in Sid, OpenFails(s) PROVE SingleCloser'
    BY <1>3 DEF OpenFails
<1>4. ASSUME NEW s \in Sid, SendOnOpen(s) PROVE SingleCloser'
    BY <1>4 DEF SendOnOpen
<1>5. ASSUME NEW s \in Sid, Register(s) PROVE SingleCloser'
    BY <1>5 DEF Register, Booting, Start
<1>6. ASSUME NEW s \in Sid, NEW t \in Emitters, EmitCheck(s, t) PROVE SingleCloser'
    BY <1>6 DEF EmitCheck
<1>7. ASSUME NEW s \in Sid, NEW t \in Emitters, EmitLock(s, t) PROVE SingleCloser'
    BY <1>7 DEF EmitLock
<1>8. ASSUME NEW s \in Sid, NEW t \in Emitters, EmitSend(s, t) PROVE SingleCloser'
  <2>1. CASE pkt[s][t] = "Multi"
      BY <1>8, <2>1 DEF EmitSend, Places
  <2>2. CASE pkt[s][t] # "Multi"
    <3>1. pc' = [pc EXCEPT ![s][t] = AfterSend(t, pkt[s][t])] /\ UNCHANGED <<pkt, sockets>>
        BY <1>8, <2>2 DEF EmitSend
    <3>2. t \in Closers => \/ pkt[s][t] = "Close" /\ AfterSend(t, pkt[s][t]) = "clear"
                           \/ pkt[s][t] = "Ping" /\ AfterSend(t, pkt[s][t]) = "check"
        BY <1>8, AfterSendPlace DEF EmitSend, Places
    <3> QED BY <1>8, <3>1, <3>2 DEF EmitSend
  <2> QED BY <2>1, <2>2
<1>9. ASSUME NEW s \in Sid, NEW t \in Emitters, EmitFail(s, t) PROVE SingleCloser'
    BY <1>9 DEF EmitFail
<1>10. ASSUME NEW s \in Sid, NEW t \in Emitters, OnError(s, t) PROVE SingleCloser'
    BY <1>10, AfterErrorPlace, RestPlace DEF OnError, Places
<1>11. ASSUME NEW s \in Sid, NEW t \in Emitters, Remove(s, t) PROVE SingleCloser'
    BY <1>11, RestPlace DEF Remove
<1>12. ASSUME NEW s \in Sid, NEW t \in Emitters, Disconnect(s, t) PROVE SingleCloser'
    BY <1>12, RestPlace DEF Disconnect
<1>13. ASSUME NEW s \in Sid, NEW t \in Emitters, SendOnClose(s, t) PROVE SingleCloser'
    BY <1>13 DEF SendOnClose
<1>14. ASSUME NEW s \in Sid, NEW t \in Emitters, ClearConnected(s, t) PROVE SingleCloser'
    BY <1>14, RestPlace DEF ClearConnected
<1>15. ASSUME NEW s \in Sid, NEW p \in AppSends[s], AppSend(s, p) PROVE SingleCloser'
    BY <1>15 DEF AppSend
<1>16. ASSUME NEW s \in Sid, PingTick(s) PROVE SingleCloser'
    BY <1>16 DEF PingTick
<1>17. ASSUME NEW s \in Sid, PingCheck(s) PROVE SingleCloser'
    BY <1>17 DEF PingCheck
<1>18. ASSUME NEW s \in Sid, RecvOpen(s) PROVE SingleCloser'
    BY <1>18 DEF RecvOpen
<1>19. ASSUME NEW s \in Sid, RecvClose(s) PROVE SingleCloser'
    BY <1>19 DEF RecvClose
<1>20. ASSUME NEW s \in Sid, RecvOther(s) PROVE SingleCloser'
    BY <1>20 DEF RecvOther
<1>21. ASSUME NEW s \in Sid, TimerStops(s) PROVE SingleCloser'
    BY <1>21 DEF TimerStops
<1>22. ASSUME NEW s \in Sid, TimerFires(s) PROVE SingleCloser'
    BY <1>22 DEF TimerFires
<1>23. ASSUME NEW s \in Sid, Probe(s) PROVE SingleCloser'
    BY <1>23 DEF Probe
<1>24. ASSUME NEW s \in Sid, Upgraded(s) PROVE SingleCloser'
    BY <1>24 DEF Upgraded
<1>25. ASSUME NEW s \in Sid, UpgradeAborts(s) PROVE SingleCloser'
    BY <1>25 DEF UpgradeAborts
<1>26. ASSUME NEW s \in Sid, UpgradeLookup(s) PROVE SingleCloser'
    BY <1>26 DEF UpgradeLookup
<1>27. ASSUME NEW s \in Sid, UpgradeTransport(s) PROVE SingleCloser'
    BY <1>27 DEF UpgradeTransport
<1>28. ASSUME NEW s \in Sid, UpgradeLockGenerator(s) PROVE SingleCloser'
    BY <1>28 DEF UpgradeLockGenerator
<1>29. ASSUME NEW s \in Sid, UpgradeGenerator(s) PROVE SingleCloser'
    BY <1>29 DEF UpgradeGenerator
<1>30. CASE UNCHANGED vars
    BY <1>30 DEF vars
<1> QED BY <1>1, <1>2, <1>3, <1>4, <1>5, <1>6, <1>7, <1>8, <1>9, <1>10, <1>11, <1>12, <1>13,
        <1>14, <1>15, <1>16, <1>17, <1>18, <1>19, <1>20, <1>21, <1>22, <1>23, <1>24, <1>25, <1>26,
        <1>27, <1>28, <1>29, AsideStep, <1>30
    DEF Next, Emit, Close, Ping, Loop, Timer, UpgradeSteps, Upgrade

LEMMA ClosedStep ==
    TypeOK /\ Places /\ Booting /\ ClosedUnregistered /\ [Next]_vars => ClosedUnregistered'
<1> SUFFICES ASSUME TypeOK, Places, Booting, ClosedUnregistered, [Next]_vars
             PROVE  ClosedUnregistered'
    OBVIOUS
<1> pc \in [Sid -> [Task -> Label]] /\ pkt \in [Sid -> [Emitters -> Out]]
    /\ told \in [Sid -> {"new", "open", "closed", "reopened"}]
    BY DEF TypeOK
<1> USE TaskNames DEF ClosedUnregistered, chan, Goto, At
<1>1. ASSUME Aside PROVE ClosedUnregistered'
    BY <1>1 DEF Aside
<1>2. ASSUME NEW s \in Sid, NEW tr \in Transports[s], OpenSession(s, tr) PROVE ClosedUnregistered'
    BY <1>2 DEF OpenSession
<1>3. ASSUME NEW s \in Sid, OpenFails(s) PROVE ClosedUnregistered'
    BY <1>3 DEF OpenFails
<1>4. ASSUME NEW s \in Sid, SendOnOpen(s) PROVE ClosedUnregistered'
    BY <1>4 DEF SendOnOpen
<1>5. ASSUME NEW s \in Sid, Register(s) PROVE ClosedUnregistered'
    BY <1>5 DEF Register, Booting
<1>6. ASSUME NEW s \in Sid, NEW t \in Emitters, EmitCheck(s, t) PROVE ClosedUnregistered'
    BY <1>6 DEF EmitCheck
<1>7. ASSUME NEW s \in Sid, NEW t \in Emitters, EmitLock(s, t) PROVE ClosedUnregistered'
    BY <1>7 DEF EmitLock
<1>8. ASSUME NEW s \in Sid, NEW t \in Emitters, EmitSend(s, t) PROVE ClosedUnregistered'
    BY <1>8, AfterSendPlace DEF EmitSend
<1>9. ASSUME NEW s \in Sid, NEW t \in Emitters, EmitFail(s, t) PROVE ClosedUnregistered'
    BY <1>9 DEF EmitFail
<1>10. ASSUME NEW s \in Sid, NEW t \in Emitters, OnError(s, t) PROVE ClosedUnregistered'
    BY <1>10, AfterErrorPlace DEF OnError
<1>11. ASSUME NEW s \in Sid, NEW t \in Emitters, Remove(s, t) PROVE ClosedUnregistered'
    BY <1>11, RestPlace DEF Remove
<1>12. ASSUME NEW s \in Sid, NEW t \in Emitters, Disconnect(s, t) PROVE ClosedUnregistered'
    BY <1>12, RestPlace DEF Disconnect
<1>13. ASSUME NEW s \in Sid, NEW t \in Emitters, SendOnClose(s, t) PROVE ClosedUnregistered'
    BY <1>13 DEF SendOnClose
<1>14. ASSUME NEW s \in Sid, NEW t \in Emitters, ClearConnected(s, t) PROVE ClosedUnregistered'
    BY <1>14, RestPlace DEF ClearConnected
<1>15. ASSUME NEW s \in Sid, NEW p \in AppSends[s], AppSend(s, p) PROVE ClosedUnregistered'
    BY <1>15 DEF AppSend
<1>16. ASSUME NEW s \in Sid, PingTick(s) PROVE ClosedUnregistered'
  <2>1. \A u \in Sid : pc'[u]["loop"] = pc[u]["loop"]
      BY <1>16 DEF PingTick
  <2> QED BY <1>16, <2>1 DEF PingTick
<1>17. ASSUME NEW s \in Sid, PingCheck(s) PROVE ClosedUnregistered'
    BY <1>17 DEF PingCheck
<1>18. ASSUME NEW s \in Sid, RecvOpen(s) PROVE ClosedUnregistered'
    BY <1>18 DEF RecvOpen, Booting
<1>19. ASSUME NEW s \in Sid, RecvClose(s) PROVE ClosedUnregistered'
    BY <1>19 DEF RecvClose
<1>20. ASSUME NEW s \in Sid, RecvOther(s) PROVE ClosedUnregistered'
    BY <1>20 DEF RecvOther
<1>21. ASSUME NEW s \in Sid, TimerStops(s) PROVE ClosedUnregistered'
    BY <1>21 DEF TimerStops
<1>22. ASSUME NEW s \in Sid, TimerFires(s) PROVE ClosedUnregistered'
    BY <1>22 DEF TimerFires
<1>23. ASSUME NEW s \in Sid, Probe(s) PROVE ClosedUnregistered'
    BY <1>23 DEF Probe
<1>24. ASSUME NEW s \in Sid, Upgraded(s) PROVE ClosedUnregistered'
    BY <1>24 DEF Upgraded
<1>25. ASSUME NEW s \in Sid, UpgradeAborts(s) PROVE ClosedUnregistered'
    BY <1>25 DEF UpgradeAborts
<1>26. ASSUME NEW s \in Sid, UpgradeLookup(s) PROVE ClosedUnregistered'
    BY <1>26 DEF UpgradeLookup
<1>27. ASSUME NEW s \in Sid, UpgradeTransport(s) PROVE ClosedUnregistered'
    BY <1>27 DEF UpgradeTransport
<1>28. ASSUME NEW s \in Sid, UpgradeLockGenerator(s) PROVE ClosedUnregistered'
    BY <1>28 DEF UpgradeLockGenerator
<1>29. ASSUME NEW s \in Sid, UpgradeGenerator(s) PROVE ClosedUnregistered'
    BY <1>29 DEF UpgradeGenerator
<1>30. CASE UNCHANGED vars
    BY <1>30 DEF vars
<1> QED BY <1>1, <1>2, <1>3, <1>4, <1>5, <1>6, <1>7, <1>8, <1>9, <1>10, <1>11, <1>12, <1>13,
        <1>14, <1>15, <1>16, <1>17, <1>18, <1>19, <1>20, <1>21, <1>22, <1>23, <1>24, <1>25, <1>26,
        <1>27, <1>28, <1>29, AsideStep, <1>30
    DEF Next, Emit, Close, Ping, Loop, Timer, UpgradeSteps, Upgrade

-----------------------------------------------------------------------------
(* The order of events *)

LEMMA QuietStep == TypeOK /\ Places /\ Booting /\ QuietIsUnknown /\ [Next]_vars => QuietIsUnknown'
<1> SUFFICES ASSUME TypeOK, Places, Booting, QuietIsUnknown, [Next]_vars PROVE QuietIsUnknown'
    OBVIOUS
<1> /\ pc \in [Sid -> [Task -> Label]] /\ told \in [Sid -> {"new", "open", "closed", "reopened"}]
    /\ transport \in [Sid -> {"none", "polling", "ws"}]
    BY DEF TypeOK
<1> USE TaskNames DEF QuietIsUnknown, Quiet, Start, Goto, At, sess
<1>1. ASSUME NEW s \in Sid, NEW tr \in Transports[s], OpenSession(s, tr) PROVE QuietIsUnknown'
    BY <1>1, ClientAssumption DEF OpenSession, Queued, Booting
<1>2. ASSUME NEW s \in Sid, OpenFails(s) PROVE QuietIsUnknown'
    BY <1>2 DEF OpenFails, Booting, Queued, chan
<1>3. ASSUME NEW s \in Sid, SendOnOpen(s) PROVE QuietIsUnknown'
    BY <1>3, NotifyQueued, EvEqual DEF SendOnOpen, Booting
<1>4. ASSUME NEW s \in Sid, Register(s) PROVE QuietIsUnknown'
    BY <1>4 DEF Register, Booting, Queued, chan
<1>5. ASSUME NEW s \in Sid, NEW t \in Emitters, EmitCheck(s, t) PROVE QuietIsUnknown'
    BY <1>5 DEF EmitCheck, Queued, chan
<1>6. ASSUME NEW s \in Sid, NEW t \in Emitters, EmitLock(s, t) PROVE QuietIsUnknown'
    BY <1>6 DEF EmitLock, Queued, chan
<1>7. ASSUME NEW s \in Sid, NEW t \in Emitters, EmitSend(s, t) PROVE QuietIsUnknown'
    BY <1>7 DEF EmitSend, Queued, chan
<1>8. ASSUME NEW s \in Sid, NEW t \in Emitters, EmitFail(s, t) PROVE QuietIsUnknown'
    BY <1>8 DEF EmitFail, Queued, chan
<1>9. ASSUME NEW s \in Sid, NEW t \in Emitters, OnError(s, t) PROVE QuietIsUnknown'
    BY <1>9, NotifyQueued, EvEqual DEF OnError
<1>10. ASSUME NEW s \in Sid, NEW t \in Emitters, Remove(s, t) PROVE QuietIsUnknown'
    BY <1>10 DEF Remove, Queued, chan
<1>11. ASSUME NEW s \in Sid, NEW t \in Emitters, Disconnect(s, t) PROVE QuietIsUnknown'
    BY <1>11 DEF Disconnect, Queued, chan
<1>12. ASSUME NEW s \in Sid, NEW t \in Emitters, SendOnClose(s, t) PROVE QuietIsUnknown'
    BY <1>12, NotifyQueued, EvEqual DEF SendOnClose
<1>13. ASSUME NEW s \in Sid, NEW t \in Emitters, ClearConnected(s, t) PROVE QuietIsUnknown'
    BY <1>13 DEF ClearConnected, Queued, chan
<1>14. ASSUME NEW s \in Sid, NEW p \in AppSends[s], AppSend(s, p) PROVE QuietIsUnknown'
  <2>1. ~Quiet(s)
      BY <1>14 DEF AppSend
  <2> QED BY <1>14, <2>1 DEF AppSend, Queued, chan
<1>15. ASSUME NEW s \in Sid, PingTick(s) PROVE QuietIsUnknown'
    BY <1>15 DEF PingTick, Queued, chan
<1>16. ASSUME NEW s \in Sid, PingCheck(s) PROVE QuietIsUnknown'
    BY <1>16 DEF PingCheck, Queued, chan
<1>17. ASSUME NEW s \in Sid, RecvOpen(s) PROVE QuietIsUnknown'
    BY <1>17, TakeQueued, EvEqual DEF RecvOpen
<1>18. ASSUME NEW s \in Sid, RecvClose(s) PROVE QuietIsUnknown'
    BY <1>18, TakeQueued, EvEqual DEF RecvClose
<1>19. ASSUME NEW s \in Sid, RecvOther(s) PROVE QuietIsUnknown'
    BY <1>19, TakeQueued, EvEqual DEF RecvOther
<1>20. ASSUME NEW s \in Sid, TimerStops(s) PROVE QuietIsUnknown'
    BY <1>20 DEF TimerStops, Queued, chan
<1>21. ASSUME NEW s \in Sid, TimerFires(s) PROVE QuietIsUnknown'
    BY <1>21 DEF TimerFires, Queued, chan
<1>22. ASSUME NEW s \in Sid, ReaderTake(s) PROVE QuietIsUnknown'
    BY <1>22 DEF ReaderTake, Queued, chan
<1>23. ASSUME NEW s \in Sid, ReaderMissesLock(s) PROVE QuietIsUnknown'
    BY <1>23 DEF ReaderMissesLock, Queued, chan
<1>24. ASSUME NEW s \in Sid, ReaderEnds(s) PROVE QuietIsUnknown'
    BY <1>24 DEF ReaderEnds, Queued, chan
<1>25. ASSUME NEW s \in Sid, ReaderGivesUp(s) PROVE QuietIsUnknown'
    BY <1>25 DEF ReaderGivesUp, Queued, chan, MaySend, In
<1>26. ASSUME NEW s \in Sid, ReaderYields(s) PROVE QuietIsUnknown'
    BY <1>26 DEF ReaderYields, Queued, chan, MaySend, In
<1>27. ASSUME NEW s \in Sid, ReaderPacket(s) PROVE QuietIsUnknown'
    BY <1>27, NotifyQueued, EvEqual DEF ReaderPacket, In
<1>28. ASSUME NEW s \in Sid, ReaderData(s) PROVE QuietIsUnknown'
    BY <1>28, NotifyQueued, EvEqual DEF ReaderData
<1>29. ASSUME NEW s \in Sid, ReaderSkipsClose(s) PROVE QuietIsUnknown'
    BY <1>29 DEF ReaderSkipsClose, Queued, chan
<1>30. ASSUME NEW s \in Sid, ReaderClose(s) PROVE QuietIsUnknown'
    BY <1>30, NotifyQueued, EvEqual DEF ReaderClose
<1>31. ASSUME NEW s \in Sid, ReaderClear(s) PROVE QuietIsUnknown'
    BY <1>31 DEF ReaderClear, Queued, chan
<1>32. ASSUME NEW s \in Sid, Probe(s) PROVE QuietIsUnknown'
    BY <1>32 DEF Probe, Queued, chan
<1>33. ASSUME NEW s \in Sid, Upgraded(s) PROVE QuietIsUnknown'
    BY <1>33 DEF Upgraded, Queued, chan
<1>34. ASSUME NEW s \in Sid, UpgradeAborts(s) PROVE QuietIsUnknown'
    BY <1>34 DEF UpgradeAborts, Queued, chan
<1>35. ASSUME NEW s \in Sid, UpgradeLookup(s) PROVE QuietIsUnknown'
    BY <1>35 DEF UpgradeLookup, Queued, chan
<1>36. ASSUME NEW s \in Sid, UpgradeTransport(s) PROVE QuietIsUnknown'
    BY <1>36 DEF UpgradeTransport, Queued, chan
<1>37. ASSUME NEW s \in Sid, UpgradeLockGenerator(s) PROVE QuietIsUnknown'
    BY <1>37 DEF UpgradeLockGenerator, Queued, chan
<1>38. ASSUME NEW s \in Sid, UpgradeGenerator(s) PROVE QuietIsUnknown'
    BY <1>38 DEF UpgradeGenerator, Queued, chan
<1>39. ASSUME NEW s \in Sid, GetStart(s) PROVE QuietIsUnknown'
    BY <1>39 DEF GetStart, Queued, chan
<1>40. ASSUME NEW s \in Sid, GetReturns(s) PROVE QuietIsUnknown'
    BY <1>40 DEF GetReturns, Queued, chan
<1>41. ASSUME NEW s \in Sid, PostReturns(s) PROVE QuietIsUnknown'
    BY <1>41 DEF PostReturns, Queued, chan
<1>42. ASSUME NEW s \in Sid, WsDrop(s) PROVE QuietIsUnknown'
    BY <1>42 DEF WsDrop, Queued, chan
<1>43. ASSUME NEW s \in Sid, NEW p \in ClientSends[s], PostStart(s, p) PROVE QuietIsUnknown'
    BY <1>43 DEF PostStart, Queued, chan
<1>44. ASSUME NEW s \in Sid, NEW p \in ClientSends[s], WsSend(s, p) PROVE QuietIsUnknown'
    BY <1>44 DEF WsSend, Queued, chan
<1>45. CASE UNCHANGED vars
    BY <1>45 DEF vars, Queued
<1> QED BY <1>1, <1>2, <1>3, <1>4, <1>5, <1>6, <1>7, <1>8, <1>9, <1>10, <1>11, <1>12, <1>13,
        <1>14, <1>15, <1>16, <1>17, <1>18, <1>19, <1>20, <1>21, <1>22, <1>23, <1>24, <1>25, <1>26,
        <1>27, <1>28, <1>29, <1>30, <1>31, <1>32, <1>33, <1>34, <1>35, <1>36, <1>37, <1>38, <1>39,
        <1>40, <1>41, <1>42, <1>43, <1>44, <1>45
    DEF Next, Emit, Close, Ping, Loop, Timer, Reader, UpgradeSteps, Upgrade, Client

LEMMA NotifyAt ==
    ASSUME TypeOK, NEW e, Notify(e)
    PROVE  /\ Len(events) \in Nat
           /\ DOMAIN events = 1..Len(events) /\ DOMAIN events' = 1..(Len(events) + 1)
           /\ events'[Len(events) + 1] = e
           /\ \A i \in 1..Len(events) : events'[i] = events[i]
BY DEF TypeOK, Notify

LEMMA TakeAt ==
    ASSUME TypeOK, events # <<>>, events' = Tail(events)
    PROVE  /\ Len(events) \in Nat \ {0}
           /\ DOMAIN events = 1..Len(events) /\ DOMAIN events' = 1..(Len(events) - 1)
           /\ events[1] = Head(events)
           /\ \A i \in 1..(Len(events) - 1) : events'[i] = events[i + 1]
BY DEF TypeOK

\* A task that has left its start belongs to an announced session.
LEMMA ActiveIsAnnounced ==
    ASSUME QuietIsUnknown, NEW s \in Sid, NEW t \in Task \ {"open"}, pc[s][t] # Start(t)
    PROVE  ~Quiet(s)
BY DEF QuietIsUnknown

\* An event that is not about opening goes to the end of the channel.
LEMMA AnnouncedNotify ==
    ASSUME TypeOK, Announced, NEW s \in Sid, NEW k \in {"OnClose", "other"}, ~Quiet(s),
           Notify(Ev(k, s)), UNCHANGED told, \A u \in Sid : Quiet(u)' <=> Quiet(u)
    PROVE  Announced'
<1> USE EvEqual
<1>1. ASSUME NEW u \in Sid PROVE Queued("OnOpen", u)' <=> Queued("OnOpen", u)
    BY NotifyQueued
<1>2. ASSUME NEW u \in Sid, NEW i \in DOMAIN events', NEW j \in DOMAIN events',
             events'[i] = Ev("OnOpen", u), events'[j] = Ev("OnOpen", u)
      PROVE  i = j
    BY <1>2, NotifyAt DEF Announced
<1>3. ASSUME NEW u \in Sid, NEW j \in DOMAIN events', told[u] = "new",
             events'[j] = Ev("OnClose", u)
      PROVE  \E i \in DOMAIN events' : i < j /\ events'[i] = Ev("OnOpen", u)
  <2>1. CASE j \in DOMAIN events
      BY <1>3, <2>1, NotifyAt DEF Announced
  <2>2. CASE j \notin DOMAIN events
    <3>1. u = s /\ j = Len(events) + 1
        BY <1>3, <2>2, NotifyAt
    <3>2. PICK i \in DOMAIN events : events[i] = Ev("OnOpen", s)
        BY <1>3, <3>1 DEF Announced, Queued
    <3> QED BY <3>1, <3>2, NotifyAt
  <2> QED BY <2>1, <2>2
<1> QED BY <1>1, <1>2, <1>3 DEF Announced, Ev

\* Taking an event keeps the order of the others.
LEMMA AnnouncedTake ==
    ASSUME TypeOK, Announced, NEW s \in Sid, events # <<>>, events' = Tail(events),
           \A u \in Sid : Quiet(u)' <=> Quiet(u),
           \/ Head(events) = Ev("other", s) /\ UNCHANGED told
           \/ Head(events) = Ev("OnOpen", s)
              /\ told' = [told EXCEPT ![s] = IF @ = "new" THEN "open" ELSE "reopened"]
           \/ Head(events) = Ev("OnClose", s) /\ told' = [told EXCEPT ![s] = "closed"]
    PROVE  Announced'
<1> USE EvEqual, TakeAt
<1> told \in [Sid -> {"new", "open", "closed", "reopened"}]
    BY DEF TypeOK
<1>1. Head(events) = Ev("OnOpen", s) => told[s] = "new"
    BY DEF Announced, Queued
<1>2. Head(events) = Ev("OnClose", s) => told[s] # "new"
    BY DEF Announced
<1>3. \A u \in Sid : u # s => told'[u] = told[u]
    OBVIOUS
<1>4. /\ \A u \in Sid : told'[u] # "reopened"
      /\ \A u \in Sid : told'[u] = "new" => told[u] = "new" /\ Head(events) # Ev("OnOpen", u)
    BY <1>1, <1>2, <1>3 DEF Announced
<1>5. ASSUME NEW u \in Sid, ~Quiet(u), told'[u] = "new" PROVE Queued("OnOpen", u)'
    BY <1>4, <1>5, TakeQueued DEF Announced
<1>6. ASSUME NEW u \in Sid, told'[u] # "new" PROVE ~Queued("OnOpen", u)'
  <2>1. CASE told[u] # "new"
      BY <2>1, TakeQueued DEF Announced
  <2>2. CASE told[u] = "new"
    <3>1. u = s /\ Head(events) = Ev("OnOpen", s)
        BY <1>2, <1>3, <1>6, <2>2
    <3>2. \A i \in DOMAIN events' : events'[i] # Ev("OnOpen", u)
        BY <3>1 DEF Announced
    <3> QED BY <3>2 DEF Queued, Ev
  <2> QED BY <2>1, <2>2
<1>7. ASSUME NEW u \in Sid, NEW i \in DOMAIN events', NEW j \in DOMAIN events',
             events'[i] = Ev("OnOpen", u), events'[j] = Ev("OnOpen", u)
      PROVE  i = j
    BY <1>7 DEF Announced
<1>8. ASSUME NEW u \in Sid, NEW j \in DOMAIN events', told'[u] = "new",
             events'[j] = Ev("OnClose", u)
      PROVE  \E i \in DOMAIN events' : i < j /\ events'[i] = Ev("OnOpen", u)
  <2>1. j + 1 \in DOMAIN events /\ events[j + 1] = Ev("OnClose", u) /\ told[u] = "new"
      BY <1>4, <1>8
  <2>2. PICK i \in DOMAIN events : i < j + 1 /\ events[i] = Ev("OnOpen", u)
      BY <2>1 DEF Announced
  <2>3. i # 1
      BY <2>2, <1>4, <1>8
  <2>4. i - 1 \in DOMAIN events' /\ i - 1 < j /\ events'[i - 1] = Ev("OnOpen", u)
      BY <2>2, <2>3
  <2> QED BY <2>4
<1> QED BY <1>4, <1>5, <1>6, <1>7, <1>8 DEF Announced, Ev

LEMMA AnnouncedStep ==
    TypeOK /\ Places /\ Booting /\ QuietIsUnknown /\ Announced /\ [Next]_vars => Announced'
<1> SUFFICES ASSUME TypeOK, Places, Booting, QuietIsUnknown, Announced, [Next]_vars
             PROVE  Announced'
    OBVIOUS
<1> /\ pc \in [Sid -> [Task -> Label]]
    /\ transport \in [Sid -> {"none", "polling", "ws"}]
    BY DEF TypeOK
<1> DEFINE SameQuiet == \A u \in Sid : Quiet(u)' <=> Quiet(u)
<1>1. ASSUME UNCHANGED <<events, told>>, SameQuiet PROVE Announced'
    BY <1>1 DEF Announced, Queued, Ev
<1> USE TaskNames DEF Goto, At, chan, sess
<1>2. ASSUME NEW s \in Sid, NEW tr \in Transports[s], OpenSession(s, tr) PROVE Announced'
  <2>1. SameQuiet
      BY <1>2, ClientAssumption DEF OpenSession, Quiet, Booting
  <2> QED BY <1>1, <1>2, <2>1 DEF OpenSession
<1>3. ASSUME NEW s \in Sid, OpenFails(s) PROVE Announced'
  <2>1. SameQuiet
      BY <1>3 DEF OpenFails, Quiet, Booting
  <2> QED BY <1>1, <1>3, <2>1 DEF OpenFails
<1>4. ASSUME NEW s \in Sid, Register(s) PROVE Announced'
  <2>1. SameQuiet
      BY <1>4 DEF Register, Quiet
  <2> QED BY <1>1, <1>4, <2>1 DEF Register
<1>5. ASSUME NEW s \in Sid, SendOnOpen(s) PROVE Announced'
  <2>1. /\ told[s] = "new" /\ \A k \in {"OnOpen", "OnClose"} : ~Queued(k, s)
        BY <1>5 DEF SendOnOpen, Quiet, QuietIsUnknown
  <2>2. \A u \in Sid : u # s => (Quiet(u)' <=> Quiet(u))
      BY <1>5 DEF SendOnOpen, Quiet
  <2>3. Notify(Ev("OnOpen", s)) /\ told' = told
      BY <1>5 DEF SendOnOpen
  <2>4. ASSUME NEW u \in Sid, ~Quiet(u)', told[u] = "new" PROVE Queued("OnOpen", u)'
      BY <2>2, <2>3, <2>4, NotifyQueued DEF Announced
  <2>5. ASSUME NEW u \in Sid, told[u] # "new" PROVE ~Queued("OnOpen", u)'
      BY <2>1, <2>3, <2>5, NotifyQueued, EvEqual DEF Announced
  <2>6. ASSUME NEW u \in Sid, NEW i \in DOMAIN events', NEW j \in DOMAIN events',
               events'[i] = Ev("OnOpen", u), events'[j] = Ev("OnOpen", u)
        PROVE  i = j
      BY <2>1, <2>3, <2>6, NotifyAt, EvEqual DEF Announced, Queued
  <2>7. ASSUME NEW u \in Sid, NEW j \in DOMAIN events', told[u] = "new",
               events'[j] = Ev("OnClose", u)
        PROVE  \E i \in DOMAIN events' : i < j /\ events'[i] = Ev("OnOpen", u)
      BY <2>1, <2>3, <2>7, NotifyAt, EvEqual DEF Announced, Queued
  <2> QED BY <2>3, <2>4, <2>5, <2>6, <2>7 DEF Announced, Ev
<1>6. ASSUME NEW s \in Sid, NEW t \in Emitters, OnError(s, t) \/ SendOnClose(s, t) PROVE Announced'
  <2>1. SameQuiet
      BY <1>6 DEF OnError, SendOnClose, Quiet
  <2>2. ~Quiet(s)
      BY <1>6, ActiveIsAnnounced DEF OnError, SendOnClose, Start
  <2> QED BY <1>6, <2>1, <2>2, AnnouncedNotify DEF OnError, SendOnClose
<1>7. ASSUME NEW s \in Sid, ReaderPacket(s) \/ ReaderData(s) \/ ReaderClose(s) PROVE Announced'
  <2>1. SameQuiet
      BY <1>7 DEF ReaderPacket, ReaderData, ReaderClose, Quiet
  <2>2. ~Quiet(s)
      BY <1>7, ActiveIsAnnounced DEF ReaderPacket, ReaderData, ReaderClose, Start, In
  <2> QED BY <1>7, <2>1, <2>2, AnnouncedNotify DEF ReaderPacket, ReaderData, ReaderClose
<1>8. ASSUME NEW s \in Sid, RecvOpen(s) PROVE Announced'
  <2>1. SameQuiet
      BY <1>8 DEF RecvOpen, Quiet
  <2> QED BY <1>8, <2>1, AnnouncedTake DEF RecvOpen
<1>9. ASSUME NEW s \in Sid, RecvClose(s) \/ RecvOther(s) PROVE Announced'
  <2>1. SameQuiet
      BY <1>9 DEF RecvClose, RecvOther, Quiet
  <2> QED BY <1>9, <2>1, AnnouncedTake DEF RecvClose, RecvOther
<1>10. ASSUME NEW s \in Sid, UpgradeTransport(s) PROVE Announced'
  <2>1. transport[s] # "none"
      BY <1>10 DEF UpgradeTransport, QuietIsUnknown, Quiet, Start
  <2>2. SameQuiet
      BY <1>10, <2>1 DEF UpgradeTransport, Quiet
  <2> QED BY <1>1, <1>10, <2>2 DEF UpgradeTransport
<1>11. ASSUME NEW s \in Sid, NEW t \in Emitters, EmitCheck(s, t) PROVE Announced'
    BY <1>11, <1>1 DEF EmitCheck, Quiet
<1>12. ASSUME NEW s \in Sid, NEW t \in Emitters, EmitLock(s, t) PROVE Announced'
    BY <1>12, <1>1 DEF EmitLock, Quiet
<1>13. ASSUME NEW s \in Sid, NEW t \in Emitters, EmitSend(s, t) PROVE Announced'
    BY <1>13, <1>1 DEF EmitSend, Quiet
<1>14. ASSUME NEW s \in Sid, NEW t \in Emitters, EmitFail(s, t) PROVE Announced'
    BY <1>14, <1>1 DEF EmitFail, Quiet
<1>15. ASSUME NEW s \in Sid, NEW t \in Emitters, Remove(s, t) PROVE Announced'
    BY <1>15, <1>1 DEF Remove, Quiet
<1>16. ASSUME NEW s \in Sid, NEW t \in Emitters, Disconnect(s, t) PROVE Announced'
    BY <1>16, <1>1 DEF Disconnect, Quiet
<1>17. ASSUME NEW s \in Sid, NEW t \in Emitters, ClearConnected(s, t) PROVE Announced'
    BY <1>17, <1>1 DEF ClearConnected, Quiet
<1>18. ASSUME NEW s \in Sid, NEW p \in AppSends[s], AppSend(s, p) PROVE Announced'
    BY <1>18, <1>1 DEF AppSend, Quiet
<1>19. ASSUME NEW s \in Sid, PingTick(s) PROVE Announced'
    BY <1>19, <1>1 DEF PingTick, Quiet
<1>20. ASSUME NEW s \in Sid, PingCheck(s) PROVE Announced'
    BY <1>20, <1>1 DEF PingCheck, Quiet
<1>21. ASSUME NEW s \in Sid, TimerStops(s) PROVE Announced'
    BY <1>21, <1>1 DEF TimerStops, Quiet
<1>22. ASSUME NEW s \in Sid, TimerFires(s) PROVE Announced'
    BY <1>22, <1>1 DEF TimerFires, Quiet
<1>23. ASSUME NEW s \in Sid, ReaderTake(s) PROVE Announced'
    BY <1>23, <1>1 DEF ReaderTake, Quiet
<1>24. ASSUME NEW s \in Sid, ReaderMissesLock(s) PROVE Announced'
    BY <1>24, <1>1 DEF ReaderMissesLock, Quiet
<1>25. ASSUME NEW s \in Sid, ReaderEnds(s) PROVE Announced'
    BY <1>25, <1>1 DEF ReaderEnds, Quiet
<1>26. ASSUME NEW s \in Sid, ReaderGivesUp(s) PROVE Announced'
    BY <1>26, <1>1 DEF ReaderGivesUp, Quiet
<1>27. ASSUME NEW s \in Sid, ReaderYields(s) PROVE Announced'
    BY <1>27, <1>1 DEF ReaderYields, Quiet
<1>28. ASSUME NEW s \in Sid, ReaderSkipsClose(s) PROVE Announced'
    BY <1>28, <1>1 DEF ReaderSkipsClose, Quiet
<1>29. ASSUME NEW s \in Sid, ReaderClear(s) PROVE Announced'
    BY <1>29, <1>1 DEF ReaderClear, Quiet
<1>30. ASSUME NEW s \in Sid, Probe(s) PROVE Announced'
    BY <1>30, <1>1 DEF Probe, Quiet
<1>31. ASSUME NEW s \in Sid, Upgraded(s) PROVE Announced'
    BY <1>31, <1>1 DEF Upgraded, Quiet
<1>32. ASSUME NEW s \in Sid, UpgradeAborts(s) PROVE Announced'
    BY <1>32, <1>1 DEF UpgradeAborts, Quiet
<1>33. ASSUME NEW s \in Sid, UpgradeLookup(s) PROVE Announced'
    BY <1>33, <1>1 DEF UpgradeLookup, Quiet
<1>34. ASSUME NEW s \in Sid, UpgradeLockGenerator(s) PROVE Announced'
    BY <1>34, <1>1 DEF UpgradeLockGenerator, Quiet
<1>35. ASSUME NEW s \in Sid, UpgradeGenerator(s) PROVE Announced'
    BY <1>35, <1>1 DEF UpgradeGenerator, Quiet
<1>36. ASSUME NEW s \in Sid, GetStart(s) PROVE Announced'
    BY <1>36, <1>1 DEF GetStart, Quiet
<1>37. ASSUME NEW s \in Sid, GetReturns(s) PROVE Announced'
    BY <1>37, <1>1 DEF GetReturns, Quiet
<1>38. ASSUME NEW s \in Sid, PostReturns(s) PROVE Announced'
    BY <1>38, <1>1 DEF PostReturns, Quiet
<1>39. ASSUME NEW s \in Sid, WsDrop(s) PROVE Announced'
    BY <1>39, <1>1 DEF WsDrop, Quiet
<1>40. ASSUME NEW s \in Sid, NEW p \in ClientSends[s], PostStart(s, p) PROVE Announced'
    BY <1>40, <1>1 DEF PostStart, Quiet
<1>41. ASSUME NEW s \in Sid, NEW p \in ClientSends[s], WsSend(s, p) PROVE Announced'
    BY <1>41, <1>1 DEF WsSend, Quiet
<1>42. CASE UNCHANGED vars
    BY <1>42, <1>1 DEF vars, Quiet
<1> QED BY <1>2, <1>3, <1>4, <1>5, <1>6, <1>7, <1>8, <1>9, <1>10, <1>11, <1>12, <1>13, <1>14,
        <1>15, <1>16, <1>17, <1>18, <1>19, <1>20, <1>21, <1>22, <1>23, <1>24, <1>25, <1>26, <1>27,
        <1>28, <1>29, <1>30, <1>31, <1>32, <1>33, <1>34, <1>35, <1>36, <1>37, <1>38, <1>39, <1>40,
        <1>41, <1>42
    DEF Next, Emit, Close, Ping, Loop, Timer, Reader, UpgradeSteps, Upgrade, Client

-----------------------------------------------------------------------------
(* The theorems *)

LEMMA InitIInv == Init => IInv
<1> SUFFICES ASSUME Init PROVE IInv
    OBVIOUS
<1>1. TypeOK
    BY SizeAssumption
    DEF Init, TypeOK, Start, Task, NoTask, Emitters, Closers, Label, OpenPc, EmitPc, ClosePc,
        UpgradePc, HandlePc, PostPc, In, Out, Event, WsBuffer
<1>2. Places
    BY TaskNames DEF Init, Places, Start, OpenPc, EmitPc, ClosePc, UpgradePc, HandlePc, PostPc
<1>3. Mutex /\ Watched /\ SingleCloser /\ ClosedUnregistered
    BY TaskNames DEF Init, Mutex, InMutex, Start, Watched, SingleCloser, Closing, Closers, EmitPc,
                     ClosedUnregistered
<1>4. Booting /\ QuietIsUnknown /\ Announced
    BY TaskNames DEF Init, Booting, QuietIsUnknown, Announced, Quiet, Queued, Start
<1> QED BY <1>1, <1>2, <1>3, <1>4 DEF IInv

LEMMA IInvStep == IInv /\ [Next]_vars => IInv'
BY TypeStep, PlacesStep, MutexStep, BootingStep, QuietStep, AnnouncedStep, WatchedStep,
   SingleCloserStep, ClosedStep
DEF IInv

\* The invariant holds in every state, whatever the interleaving of the tasks of any
\* number of sessions.
THEOREM Invariance == Spec => []IInv
BY InitIInv, IInvStep, PTL DEF Spec

\* Every variable keeps its type, and no channel outgrows its capacity (event_tx,
\* the polling channels).
THEOREM TypeCorrect == Spec => []TypeOK
<1>1. IInv => TypeOK
    BY DEF IInv
<1> QED BY <1>1, Invariance, PTL

\* Every registered session has a ping task that will still look at it
\* (store_transport, start_ping_pong, close_socket).
THEOREM AlwaysWatched == Spec => []Watched
<1>1. IInv => Watched
    BY DEF IInv
<1> QED BY <1>1, Invariance, PTL

\* At most one of the ping task, the event loop and the connect timeout disconnects a
\* session, after unregistering it (close_socket).
THEOREM OneCloser == Spec => []SingleCloser
<1>1. IInv => SingleCloser
    BY DEF IInv
<1> QED BY <1>1, Invariance, PTL

\* A session whose OnClose has been dealt with is not registered, and stays so while the
\* event loop is not at it again (drop_client, store_transport).
THEOREM ClosedStaysOut == Spec => []ClosedUnregistered
<1>1. IInv => ClosedUnregistered
    BY DEF IInv
<1> QED BY <1>1, Invariance, PTL

-----------------------------------------------------------------------------
(* What changes the transport of a session, and what the event loop has heard *)

LEMMA Changes ==
    ASSUME Next
    PROVE  /\ \/ UNCHANGED transport
              \/ \E s \in Sid : UpgradeTransport(s) \/ \E tr \in Transports[s] : OpenSession(s, tr)
           /\ UNCHANGED told \/ \E s \in Sid : RecvOpen(s) \/ RecvClose(s)
<1> DEFINE Change(s) == /\ \/ UNCHANGED transport
                           \/ UpgradeTransport(s)
                           \/ \E tr \in Transports[s] : OpenSession(s, tr)
                        /\ UNCHANGED told \/ RecvOpen(s) \/ RecvClose(s)
<1> USE DEF chan, sess
<1>1. ASSUME NEW s \in Sid, NEW tr \in Transports[s], OpenSession(s, tr) PROVE Change(s)
    BY <1>1 DEF OpenSession
<1>2. ASSUME NEW s \in Sid, OpenFails(s) \/ SendOnOpen(s) \/ Register(s) PROVE Change(s)
    BY <1>2 DEF OpenFails, SendOnOpen, Register
<1>3. ASSUME NEW s \in Sid, NEW t \in Emitters, Emit(s, t) PROVE Change(s)
    BY <1>3 DEF Emit, EmitCheck, EmitLock, EmitSend, EmitFail, OnError
<1>4. ASSUME NEW s \in Sid, NEW t \in Emitters, Close(s, t) PROVE Change(s)
    BY <1>4 DEF Close, Remove, Disconnect, SendOnClose, ClearConnected
<1>5. ASSUME NEW s \in Sid, NEW p \in AppSends[s], AppSend(s, p) PROVE Change(s)
    BY <1>5 DEF AppSend
<1>6. ASSUME NEW s \in Sid, Ping(s) \/ Timer(s) PROVE Change(s)
    BY <1>6 DEF Ping, PingTick, PingCheck, Timer, TimerStops, TimerFires
<1>7. ASSUME NEW s \in Sid, Loop(s) PROVE Change(s)
    BY <1>7 DEF Loop, RecvOpen, RecvClose, RecvOther
<1>8. ASSUME NEW s \in Sid, Reader(s) PROVE Change(s)
    BY <1>8 DEF Reader, ReaderTake, ReaderMissesLock, ReaderEnds, ReaderGivesUp, ReaderYields,
                ReaderPacket, ReaderData, ReaderSkipsClose, ReaderClose, ReaderClear
<1>9. ASSUME NEW s \in Sid, Upgrade(s) PROVE Change(s)
    BY <1>9 DEF Upgrade, Probe, Upgraded, UpgradeAborts, UpgradeSteps, UpgradeLookup,
                UpgradeTransport, UpgradeLockGenerator, UpgradeGenerator
<1>10. ASSUME NEW s \in Sid, Client(s) PROVE Change(s)
    BY <1>10 DEF Client, GetStart, GetReturns, PostReturns, WsDrop, PostStart, WsSend
<1>11. PICK s \in Sid : Change(s)
    BY <1>1, <1>2, <1>3, <1>4, <1>5, <1>6, <1>7, <1>8, <1>9, <1>10 DEF Next
<1> QED BY <1>11

LEMMA HeaderHolds == ASSUME IInv, NEW s \in Sid, HeaderSent(s) PROVE holder[s] = "app"
BY TaskNames DEF IInv, HeaderSent, Mutex, InMutex, At

\* The packets of one emit_multi follow each other on one transport: the mutex that
\* emit_multi keeps shuts out every other emit and Socket::upgrade.
THEOREM MultiIsAtomic == Spec => MultiAtomic
<1> DEFINE Step == \A s \in Sid : HeaderSent(s) =>
                     /\ transport'[s] = transport[s]
                     /\ \A t \in Emitters \ {"app"} : ~EmitSend(s, t)
<1>1. IInv /\ [Next]_vars => [Step]_vars
  <2> SUFFICES ASSUME IInv, Next, NEW s \in Sid, HeaderSent(s)
               PROVE  transport'[s] = transport[s] /\ \A t \in Emitters \ {"app"} : ~EmitSend(s, t)
      OBVIOUS
  <2>1. holder[s] = "app"
      BY HeaderHolds
  <2>2. \A t \in Emitters \ {"app"} : ~EmitSend(s, t)
      BY <2>1, TaskNames DEF IInv, Mutex, InMutex, EmitSend, At
  <2>3. ASSUME NEW u \in Sid, NEW tr \in Transports[u], OpenSession(u, tr)
        PROVE  transport'[s] = transport[s]
    <3>1. pc[u]["open"] = "off" /\ transport' = [transport EXCEPT ![u] = tr]
        BY <2>3 DEF OpenSession, At
    <3>2. CASE u = s
      <4>1. pc[s]["app"] = Start("app")
          BY <3>1, <3>2, TaskNames DEF IInv, Booting
      <4> QED BY <4>1 DEF HeaderSent, Start, At
    <3>3. CASE u # s
      <4>1. transport \in [Sid -> {"none", "polling", "ws"}]
          BY DEF IInv, TypeOK
      <4> QED BY <3>1, <3>3, <4>1
    <3> QED BY <3>2, <3>3
  <2>4. ASSUME NEW u \in Sid, UpgradeTransport(u) PROVE transport'[s] = transport[s]
      BY <2>1, <2>4 DEF UpgradeTransport, NoTask, IInv, TypeOK
  <2>5. CASE UNCHANGED transport
      BY <2>2, <2>5
  <2>6. CASE \E u \in Sid : UpgradeTransport(u) \/ \E tr \in Transports[u] : OpenSession(u, tr)
    <3>1. PICK u \in Sid : UpgradeTransport(u) \/ \E tr \in Transports[u] : OpenSession(u, tr)
        BY <2>6
    <3> QED BY <3>1, <2>2, <2>3, <2>4
  <2> QED BY <2>5, <2>6, Changes
<1> QED BY <1>1, Invariance, PTL DEF Spec, MultiAtomic

LEMMA LifecycleStep == IInv /\ [Next]_vars => [Lifecycle!Next]_told
<1> SUFFICES ASSUME IInv, Next, told' # told PROVE Lifecycle!Next
    BY DEF vars
<1> told \in [Sid -> {"new", "open", "closed", "reopened"}]
    BY DEF IInv, TypeOK
<1>1. PICK s \in Sid : RecvOpen(s) \/ RecvClose(s)
    BY Changes
<1>2. events # <<>> => Head(events) = events[1] /\ 1 \in DOMAIN events
    BY DEF IInv, TypeOK
<1>3. CASE RecvOpen(s)
  <2>1. told[s] = "new"
      BY <1>2, <1>3 DEF RecvOpen, IInv, Announced, Queued
  <2> QED BY <1>3, <2>1 DEF RecvOpen, Lifecycle!Next, Lifecycle!Open
<1>4. CASE RecvClose(s)
  <2>1. told[s] \notin {"new", "reopened"}
      BY <1>2, <1>4 DEF RecvClose, IInv, TypeOK, Announced
  <2>2. told[s] = "open"
      BY <1>4, <2>1 DEF RecvClose
  <2> QED BY <1>4, <2>2 DEF RecvClose, Lifecycle!Next, Lifecycle!Close
<1> QED BY <1>1, <1>3, <1>4

\* The server implements SessionLifecycle: its owner is told of every session once, and
\* of its end only after that, for good, however many OnClose the tasks send.
THEOREM Refinement == Spec => LifecycleSpec
<1>1. Init => Lifecycle!Init
    BY DEF Init, Lifecycle!Init
<1> QED BY <1>1, LifecycleStep, Invariance, PTL DEF Spec, LifecycleSpec, Lifecycle!Spec
=============================================================================
