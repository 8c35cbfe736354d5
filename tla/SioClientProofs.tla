-------------------------- MODULE SioClientProofs --------------------------
(***************************************************************************)
(* Theorems about SioClient, for any number of users and sockets and any   *)
(* setting of the reconnect options.                                       *)
(***************************************************************************)
EXTENDS SioClient, TLAPS

LEMMA SocketNumbers == 1 \in Socket /\ \A g \in Socket : g \in Nat /\ (g < MaxSocket => g + 1 \in Socket)
BY BoundAssumption DEF Socket

LEMMA InitIInv == Init => IInv
<1> SUFFICES ASSUME Init PROVE IInv
    OBVIOUS
<1>1. TypeOK
    BY SocketNumbers, OptionAssumption DEF Init, TypeOK
<1>2. LiveIsUp /\ Abandoned
    BY UserAssumption DEF Init, LiveIsUp, Abandoned, At, Task
<1>3. OneConnection
    BY DEF Init, OneConnection, Socket
<1> QED BY <1>1, <1>2, <1>3 DEF IInv

-----------------------------------------------------------------------------
(* One lemma per part of the invariant, one step per action.  The steps of   *)
(* disconnect_socket are those of a user or of the poll task.                *)

LEMMA TypeStep == TypeOK /\ Abandoned /\ [Next]_vars => TypeOK'
<1> SUFFICES ASSUME TypeOK, Abandoned, [Next]_vars PROVE TypeOK'
    OBVIOUS
<1> USE SocketNumbers, OptionAssumption DEF TypeOK, Goto, state, Task, At
<1>1. ASSUME NEW t \in Task, Hangup(t) PROVE TypeOK'
    BY <1>1 DEF Hangup, SendDisconnect, CloseEngine, Returned
<1>2. ASSUME NEW u \in User, Disconnect(u) \/ ReadSocket(u) \/ Emit(u) \/ EmitReturns(u)
      PROVE TypeOK'
    BY <1>2 DEF Disconnect, ReadSocket, Emit, EmitReturns
<1>3. CASE Breaks \/ ServerCloses \/ PollPacket
    BY <1>3 DEF Breaks, ServerCloses, PollPacket
<1>4. CASE PollLost \/ PollEnds \/ PollCheck
    BY <1>4 DEF PollLost, PollEnds, PollCheck
<1>5. CASE StopReconnect \/ Attempt
    BY <1>5 DEF StopReconnect, Attempt, GivesUp
<1>6. CASE Install
    BY <1>6 DEF Install, Abandoned
<1>7. CASE ConnectOk \/ ConnectErr
    BY <1>7 DEF ConnectOk, ConnectErr
<1>8. CASE UNCHANGED vars
    BY <1>8 DEF vars
<1> QED BY <1>1, <1>2, <1>3, <1>4, <1>5, <1>6, <1>7, <1>8 DEF Next, Poll

LEMMA LiveIsUpStep == TypeOK /\ LiveIsUp /\ [Next]_vars => LiveIsUp'
<1> SUFFICES ASSUME TypeOK, LiveIsUp, [Next]_vars PROVE LiveIsUp'
    OBVIOUS
<1> USE DEF TypeOK, LiveIsUp, state
<1>1. ASSUME NEW t \in Task, Hangup(t) PROVE LiveIsUp'
    BY <1>1 DEF Hangup, SendDisconnect, CloseEngine
<1>2. ASSUME NEW u \in User, Disconnect(u) \/ ReadSocket(u) \/ Emit(u) \/ EmitReturns(u)
      PROVE LiveIsUp'
    BY <1>2 DEF Disconnect, ReadSocket, Emit, EmitReturns
<1>3. CASE Breaks \/ ServerCloses \/ PollPacket
    BY <1>3 DEF Breaks, ServerCloses, PollPacket
<1>4. CASE PollLost \/ PollEnds \/ PollCheck \/ StopReconnect \/ Attempt \/ Install \/ ConnectErr
    BY <1>4 DEF PollLost, PollEnds, PollCheck, StopReconnect, Attempt, Install, ConnectErr
<1>5. CASE ConnectOk
    BY <1>5 DEF ConnectOk
<1>6. CASE UNCHANGED vars
    BY <1>6 DEF vars
<1> QED BY <1>1, <1>2, <1>3, <1>4, <1>5, <1>6 DEF Next, Poll, Task

\* The poll task goes on to reconnect only from disconnect_socket: it has sent the Close
\* packet, or found the flag cleared or the transport broken.
LEMMA AbandonedStep == TypeOK /\ LiveIsUp /\ Abandoned /\ [Next]_vars => Abandoned'
<1> SUFFICES ASSUME TypeOK, LiveIsUp, Abandoned, [Next]_vars PROVE Abandoned'
    OBVIOUS
<1> Poller \in Task
    BY DEF Task
<1> USE SocketNumbers, UserAssumption DEF TypeOK, Abandoned, Goto, state, At
<1>1. CASE Hangup(Poller)
  <2>1. CASE SendDisconnect(Poller)
      BY <2>1 DEF SendDisconnect, LiveIsUp, Returned
  <2>2. CASE CloseEngine(Poller)
      BY <2>2 DEF CloseEngine, LiveIsUp, Returned
  <2> QED BY <1>1, <2>1, <2>2 DEF Hangup
<1>2. ASSUME NEW u \in User, Hangup(u) PROVE Abandoned'
  <2>1. u \in Task /\ u # Poller /\ pc'[Poller] = pc[Poller]
      BY <1>2 DEF Hangup, SendDisconnect, CloseEngine, Task
  <2>2. link[socket] # "live" => link'[socket] # "live"
      BY <1>2 DEF Hangup, SendDisconnect, CloseEngine
  <2>3. socket' = socket
      BY <1>2 DEF Hangup, SendDisconnect, CloseEngine
  <2> QED BY <2>1, <2>2, <2>3
<1>3. ASSUME NEW u \in User, Disconnect(u) \/ ReadSocket(u) \/ Emit(u) \/ EmitReturns(u)
      PROVE Abandoned'
    BY <1>3 DEF Disconnect, ReadSocket, Emit, EmitReturns, Task
<1>4. CASE Breaks \/ ServerCloses \/ PollPacket
    BY <1>4 DEF Breaks, ServerCloses, PollPacket
<1>5. CASE PollLost \/ PollEnds \/ PollCheck \/ StopReconnect \/ Attempt \/ Install
    BY <1>5 DEF PollLost, PollEnds, PollCheck, StopReconnect, Attempt, Install
<1>6. CASE ConnectOk \/ ConnectErr
    BY <1>6 DEF ConnectOk, ConnectErr
<1>7. CASE UNCHANGED vars
    BY <1>7 DEF vars
<1> QED BY <1>1, <1>2, <1>3, <1>4, <1>5, <1>6, <1>7 DEF Next, Poll

LEMMA OneConnectionStep == TypeOK /\ Abandoned /\ OneConnection /\ [Next]_vars => OneConnection'
<1> SUFFICES ASSUME TypeOK, Abandoned, OneConnection, [Next]_vars PROVE OneConnection'
    OBVIOUS
<1> USE SocketNumbers DEF TypeOK, OneConnection, state
<1>1. ASSUME NEW t \in Task, Hangup(t) PROVE OneConnection'
    BY <1>1 DEF Hangup, SendDisconnect, CloseEngine
<1>2. ASSUME NEW u \in User, Disconnect(u) \/ ReadSocket(u) \/ Emit(u) \/ EmitReturns(u)
      PROVE OneConnection'
    BY <1>2 DEF Disconnect, ReadSocket, Emit, EmitReturns
<1>3. CASE Breaks \/ ServerCloses \/ PollPacket
    BY <1>3 DEF Breaks, ServerCloses, PollPacket
<1>4. CASE PollLost \/ PollEnds \/ PollCheck \/ StopReconnect \/ Attempt \/ ConnectErr
    BY <1>4 DEF PollLost, PollEnds, PollCheck, StopReconnect, Attempt, ConnectErr
<1>5. CASE ConnectOk
    BY <1>5 DEF ConnectOk
<1>6. CASE Install
  <2>1. socket' = socket + 1 /\ link' = link /\ link[socket] # "live"
      BY <1>6 DEF Install, Abandoned, At
  <2>2. \A g \in Socket : g < socket + 1 => g < socket \/ g = socket
      OBVIOUS
  <2> QED BY <2>1, <2>2
<1>7. CASE UNCHANGED vars
    BY <1>7 DEF vars
<1> QED BY <1>1, <1>2, <1>3, <1>4, <1>5, <1>6, <1>7 DEF Next, Poll, Task

LEMMA IInvStep == IInv /\ [Next]_vars => IInv'
BY TypeStep, LiveIsUpStep, AbandonedStep, OneConnectionStep DEF IInv

-----------------------------------------------------------------------------
(* The theorems *)

\* The inductive invariant holds in every reachable state of the client.
THEOREM Invariance == Spec => []IInv
BY InitIInv, IInvStep, PTL DEF Spec

\* Every variable keeps its type; in particular no more than Limit + 1 attempts are ever
\* counted, and a socket is installed only after it was connected (reconnect).
THEOREM TypeCorrect == Spec => []TypeOK
<1>1. IInv => TypeOK
    BY DEF IInv
<1> QED BY <1>1, Invariance, PTL

\* Whatever the users and the network do, a socket that was replaced does not work any
\* more (disconnect_socket before reconnect).
THEOREM SingleConnection == Spec => []OneConnection
<1>1. IInv => OneConnection
    BY DEF IInv
<1> QED BY <1>1, Invariance, PTL
=============================================================================
