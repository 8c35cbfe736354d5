------------------------- MODULE SioCallbacksProofs -------------------------
(***************************************************************************)
(* Theorems about SioCallbacks: every behaviour of the callbacks is one of *)
(* SioAcks, so what SioAcksProofs shows holds here too; and what the       *)
(* guards of `on` and the threads of the runtime promise, for any number   *)
(* of callbacks, shards and threads.                                       *)
(***************************************************************************)
EXTENDS SioCallbacks, SioAcksProofs, FiniteSetTheorems

-----------------------------------------------------------------------------
(* The callbacks implement the acks' specification *)

\* A task of SioCallbacks does what a caller or the poll task of SioAcks does, or
\* nothing that the acks see.
LEMMA AckStep == [CNext]_avars => [Next]_vars
<1> SUFFICES ASSUME [CNext]_avars PROVE [Next]_vars
    OBVIOUS
<1>1. ASSUME NEW e \in Handled, Register(e) \/ RegisterUnblocked(e) PROVE UNCHANGED vars
    BY <1>1 DEF Register, RegisterUnblocked
<1>2. ASSUME NEW c \in Caller, Enter(c) \/ Unblocked(c) \/ Return(c) PROVE UNCHANGED vars
    BY <1>2 DEF Enter, Unblocked, Return
<1>3. ASSUME NEW c \in Caller, Body(c) PROVE Next
    BY <1>3 DEF Body, Next
<1>4. CASE Dispatch
    BY <1>4 DEF Dispatch, Next
<1>5. CASE Fails
    BY <1>5 DEF Fails, Next
<1>6. CASE HandleAck \/ Nest
    BY <1>6 DEF HandleAck, Nest, Next
<1>7. CASE (Peer \/ Disconnect) /\ UNCHANGED cvars
    BY <1>7 DEF Next
<1>8. CASE UNCHANGED avars
    BY <1>8 DEF avars
<1> QED BY <1>1, <1>2, <1>3, <1>4, <1>5, <1>6, <1>7, <1>8 DEF CNext

\* The callbacks of a socket use its acks as SioAcks says a set of tasks may: every
\* behaviour of callback, on and poll_packet is one of emit_with_ack and handle_ack.
THEOREM CallbacksImplementAcks == CSpec => Spec
<1>1. CInit => Init
    BY DEF CInit
<1> QED BY <1>1, AckStep, PTL DEF CSpec, Spec

\* Every variable of the acks keeps its type under the callbacks.
THEOREM AckTypeCorrect == CSpec => []TypeOK
<1>1. AckInv => TypeOK
    BY DEF AckInv
<1> QED BY <1>1, CallbacksImplementAcks, AckInvariance, PTL

\* However many callbacks ask for acks, and however often the peer acknowledges one,
\* handle_ack calls the callback of an ack at most once.
THEOREM AckCalledOnce == CSpec => []CalledOnce
<1>1. AckInv => CalledOnce
    BY DEF AckInv
<1> QED BY <1>1, CallbacksImplementAcks, AckInvariance, PTL

\* The index handle_ack found under its first lock is still that of the same ack when
\* it removes it under the second, whatever emit_with_ack pushed in between.
THEOREM AckRemoved == CSpec => []RemovesItsAck
<1>1. AckInv => RemovesItsAck
    BY DEF AckInv
<1> QED BY <1>1, CallbacksImplementAcks, AckInvariance, PTL

-----------------------------------------------------------------------------
(* Counting *)

LEMMA NoMore ==
    ASSUME NEW S, NEW T, IsFiniteSet(S), T \subseteq S
    PROVE  /\ IsFiniteSet(T) /\ Cardinality(S) \in Nat /\ Cardinality(T) \in Nat
           /\ Cardinality(T) <= Cardinality(S)
BY FS_Subset, FS_CardinalityType

LEMMA OneMore ==
    ASSUME NEW S, NEW T, NEW x, IsFiniteSet(S), T \subseteq S \cup {x}
    PROVE  /\ IsFiniteSet(T) /\ Cardinality(S) \in Nat /\ Cardinality(T) \in Nat
           /\ Cardinality(T) <= Cardinality(S) + 1
<1>0. Cardinality(S) \in Nat
    BY FS_CardinalityType
<1>1. IsFiniteSet(S \cup {x}) /\ Cardinality(S \cup {x}) <= Cardinality(S) + 1
  <2>1. CASE x \in S
      BY <1>0, <2>1, FS_AddElement
  <2>2. CASE x \notin S
    <3>1. IsFiniteSet(S \cup {x}) /\ Cardinality(S \cup {x}) = Cardinality(S) + 1
        BY <2>2, FS_AddElement
    <3> QED BY <1>0, <3>1
  <2> QED BY <2>1, <2>2
<1>2. /\ IsFiniteSet(T) /\ Cardinality(T) \in Nat /\ Cardinality(S \cup {x}) \in Nat
      /\ Cardinality(T) <= Cardinality(S \cup {x})
    BY <1>1, NoMore
<1> QED BY <1>0, <1>1, <1>2

BlockedTasks == {c \in Caller : At(c, "blocked")}
BlockedRegs  == {e \in Handled : reg[e] = "blocked"}

LEMMA BlockedCount ==
    /\ IsFiniteSet(BlockedTasks) /\ IsFiniteSet(BlockedRegs)
    /\ Cardinality(BlockedTasks) \in Nat /\ Cardinality(BlockedRegs) \in Nat
    /\ Blocked = Cardinality(BlockedTasks) + Cardinality(BlockedRegs)
<1>1. BlockedTasks \subseteq Caller /\ BlockedRegs \subseteq Handled
    BY DEF BlockedTasks, BlockedRegs
<1>2. Blocked = Cardinality(BlockedTasks) + Cardinality(BlockedRegs)
    BY DEF Blocked, BlockedTasks, BlockedRegs
<1> QED BY <1>1, <1>2, FiniteAssumption, NoMore

LEMMA BlockedCountNext ==
    Blocked' = Cardinality(BlockedTasks') + Cardinality(BlockedRegs')
BY DEF Blocked, BlockedTasks, BlockedRegs

\* No thread begins to wait, or one does that was free.
LEMMA NoThreadWaits ==
    ASSUME Blocked <= Workers, BlockedTasks' \subseteq BlockedTasks, BlockedRegs' \subseteq BlockedRegs
    PROVE  Blocked' <= Workers
<1>1. /\ Cardinality(BlockedTasks') \in Nat /\ Cardinality(BlockedRegs') \in Nat
      /\ Cardinality(BlockedTasks') <= Cardinality(BlockedTasks)
      /\ Cardinality(BlockedRegs') <= Cardinality(BlockedRegs)
    BY BlockedCount, NoMore
<1> QED BY <1>1, BlockedCount, BlockedCountNext, WorkersAssumption

LEMMA OneThreadWaits ==
    ASSUME ThreadFree, NEW x,
           \/ BlockedTasks' \subseteq BlockedTasks \cup {x} /\ BlockedRegs' \subseteq BlockedRegs
           \/ BlockedTasks' \subseteq BlockedTasks /\ BlockedRegs' \subseteq BlockedRegs \cup {x}
    PROVE  Blocked' <= Workers
<1>1. CASE BlockedTasks' \subseteq BlockedTasks \cup {x} /\ BlockedRegs' \subseteq BlockedRegs
  <2>1. /\ Cardinality(BlockedTasks') \in Nat /\ Cardinality(BlockedRegs') \in Nat
        /\ Cardinality(BlockedTasks') <= Cardinality(BlockedTasks) + 1
        /\ Cardinality(BlockedRegs') <= Cardinality(BlockedRegs)
      BY <1>1, BlockedCount, NoMore, OneMore
  <2> QED BY <2>1, BlockedCount, BlockedCountNext, WorkersAssumption DEF ThreadFree
<1>2. CASE BlockedTasks' \subseteq BlockedTasks /\ BlockedRegs' \subseteq BlockedRegs \cup {x}
  <2>1. /\ Cardinality(BlockedTasks') \in Nat /\ Cardinality(BlockedRegs') \in Nat
        /\ Cardinality(BlockedTasks') <= Cardinality(BlockedTasks)
        /\ Cardinality(BlockedRegs') <= Cardinality(BlockedRegs) + 1
      BY <1>2, BlockedCount, NoMore, OneMore
  <2> QED BY <2>1, BlockedCount, BlockedCountNext, WorkersAssumption DEF ThreadFree
<1> QED BY <1>1, <1>2

-----------------------------------------------------------------------------
(* The callbacks' tasks *)

\* The places of a task, and what one looks like.
Place == {"spawned", "blocked", "run"}
Tasks == {NoTask} \cup (Place \X Event)

LEMMA TaskFields ==
    /\ NoTask \in Tasks /\ NoTask[1] = "none"
    /\ \A l \in Place, e \in Event : <<l, e>> \in Tasks /\ <<l, e>>[1] = l /\ <<l, e>>[2] = e
    /\ \A t \in Tasks : t[1] # "none" => t[1] \in Place /\ t[2] \in Event /\ t # NoTask
BY DEF Tasks, NoTask, Place

LEMMA EnteredTask ==
    ASSUME NEW e \in Event
    PROVE  /\ Entered(e) \in Tasks /\ Entered(e)[1] \in {"none", "run"}
           /\ Entered(e)[1] = "run" => Entered(e)[2] = e
BY TaskFields DEF Entered, Place, NoTask

LEMMA TaskType ==
    ASSUME CallbackTypeOK, NEW c \in Caller
    PROVE  /\ task[c] \in Tasks
           /\ \A l \in Place : At(c, l) => event(c) \in Event
           /\ caller[c] # "idle" => At(c, "run")
BY TaskFields DEF CallbackTypeOK, Tasks, At, event, Place

\* One task moves to another place of its own, and its caller rests.
LEMMA TaskMoves ==
    ASSUME CallbackTypeOK, NEW c \in Caller, caller[c] = "idle", UNCHANGED <<caller, reg>>,
           NEW t \in Tasks, task' = [task EXCEPT ![c] = t]
    PROVE  CallbackTypeOK'
BY DEF CallbackTypeOK, Tasks, Place, At

\* poll_packet's two ways to spawn a callback.
LEMMA SpawnStep ==
    ASSUME CallbackTypeOK, NEW e \in Event, Spawn(e)
    PROVE  \E c \in Caller : /\ task[c] = NoTask /\ caller[c] = "idle"
                             /\ task' = [task EXCEPT ![c] = <<"spawned", e>>]
                             /\ reg' = reg
<1> DEFINE c == CHOOSE c \in Caller : task[c] = NoTask
<1>1. c \in Caller /\ task[c] = NoTask
    BY DEF Spawn
<1>2. task' = [task EXCEPT ![c] = <<"spawned", e>>] /\ reg' = reg
    BY DEF Spawn
<1> HIDE DEF c
<1>3. caller[c] = "idle"
    BY <1>1, TaskFields DEF CallbackTypeOK, At
<1> QED BY <1>1, <1>2, <1>3

\* What an action of SioCallbacks can do to its own two variables.
LEMMA OwnStep ==
    ASSUME CallbackTypeOK, TypeOK, [CNext]_avars
    PROVE  \/ \E e \in Handled : Register(e) \/ RegisterUnblocked(e)
           \/ \E c \in Caller : Enter(c) \/ Unblocked(c) \/ Body(c) \/ Return(c)
           \/ (\E e \in Event : Spawn(e)) /\ UNCHANGED caller
           \/ UNCHANGED <<cvars, caller>>
<1>1. CASE Dispatch
  <2>1. PICK e \in EventsOf(Head(inbox)[1]) : Spawn(e)
      BY <1>1 DEF Dispatch
  <2>2. Head(inbox) \in Others
      BY <1>1 DEF Dispatch, PollOther, Polled
  <2>3. EventsOf(Head(inbox)[1]) \subseteq Event
      BY <2>2 DEF Others, EventsOf, Event
  <2> QED BY <1>1, <2>1, <2>3 DEF Dispatch, PollOther, callers
<1>2. CASE Fails
    BY <1>2 DEF Fails, PollFails, Event, callers
<1>3. CASE HandleAck \/ Nest
    BY <1>3 DEF HandleAck, Nest, PollAcks, PollUnknown, PollAck, RemoveAck,
                CallbackReturns, CallbackNests, callers
<1>4. CASE (Peer \/ Disconnect) /\ UNCHANGED cvars
    BY <1>4 DEF Peer, PeerAcks, Expire, PeerSends, EngineDown, Disconnect, callers
<1>5. CASE UNCHANGED avars
    BY <1>5 DEF avars, vars
<1> QED BY <1>1, <1>2, <1>3, <1>4, <1>5 DEF CNext

LEMMA InitCallbackType == CInit => CallbackTypeOK
BY DEF CInit, Init, CallbackTypeOK, NoTask

\* A callback's task keeps its shape, and emits only while it runs.
LEMMA CallbackTypeStep == CallbackTypeOK /\ TypeOK /\ [CNext]_avars => CallbackTypeOK'
<1> SUFFICES ASSUME CallbackTypeOK, TypeOK, [CNext]_avars PROVE CallbackTypeOK'
    OBVIOUS
<1>1. ASSUME NEW e \in Handled, Register(e) \/ RegisterUnblocked(e) PROVE CallbackTypeOK'
    BY <1>1 DEF Register, RegisterUnblocked, CallbackTypeOK, At, vars
<1>2. ASSUME NEW c \in Caller, Enter(c) \/ Unblocked(c) PROVE CallbackTypeOK'
  <2>1. event(c) \in Event /\ caller[c] = "idle"
      BY <1>2, TaskType DEF Enter, Unblocked, At, Place
  <2>2. <<"blocked", event(c)>> \in Tasks /\ Entered(event(c)) \in Tasks
      BY <2>1, TaskFields, EnteredTask DEF Place
  <2>3. \E t \in Tasks : task' = [task EXCEPT ![c] = t]
      BY <1>2, <2>2 DEF Enter, Unblocked
  <2>4. UNCHANGED <<caller, reg>>
      BY <1>2 DEF Enter, Unblocked, vars
  <2> QED BY <2>1, <2>3, <2>4, TaskMoves
<1>3. ASSUME NEW c \in Caller, Body(c) PROVE CallbackTypeOK'
  <2>1. UNCHANGED <<reg, task>> /\ At(c, "run")
      BY <1>3 DEF Body, cvars
  <2>2. \A d \in Caller : d # c => caller'[d] = caller[d]
      BY <1>3 DEF Body, EmitWithAck, Generate, Push, Send, TypeOK
  <2> QED BY <2>1, <2>2 DEF CallbackTypeOK, At
<1>4. ASSUME NEW c \in Caller, Return(c) PROVE CallbackTypeOK'
  <2>1. /\ caller[c] = "idle" /\ UNCHANGED <<caller, reg>>
        /\ task' = [task EXCEPT ![c] = NoTask]
      BY <1>4 DEF Return, vars
  <2> QED BY <2>1, TaskFields, TaskMoves
<1>5. ASSUME NEW e \in Event, Spawn(e), UNCHANGED caller PROVE CallbackTypeOK'
    BY <1>5, SpawnStep, TaskFields, TaskMoves DEF Place
<1>6. CASE UNCHANGED <<cvars, caller>>
    BY <1>6 DEF cvars, CallbackTypeOK, At
<1> QED BY <1>1, <1>2, <1>3, <1>4, <1>5, <1>6, OwnStep

-----------------------------------------------------------------------------
(* The guards of `on` *)

\* No two running callbacks are of one shard.
Exclusive == \A c, d \in Running : Shard[event(c)] = Shard[event(d)] => c = d

\* A task that gets a guard finds no other callback of its shard running.
LEMMA ExclusiveStep == CallbackTypeOK /\ TypeOK /\ Exclusive /\ [CNext]_avars => Exclusive'
<1> SUFFICES ASSUME CallbackTypeOK, TypeOK, Exclusive, [CNext]_avars PROVE Exclusive'
    OBVIOUS
<1>0. task \in [Caller -> Tasks]
    BY DEF CallbackTypeOK, Tasks, Place
<1>1. ASSUME NEW c \in Caller, NEW t, t[1] # "run", task' = [task EXCEPT ![c] = t]
      PROVE  Exclusive'
    BY <1>0, <1>1 DEF Exclusive, Running, At, event
<1>2. ASSUME NEW c \in Caller, Enter(c) \/ Unblocked(c) PROVE Exclusive'
  <2>1. event(c) \in Event
      BY <1>2, TaskType DEF Enter, Unblocked, Place
  <2>2. CASE task' = [task EXCEPT ![c] = <<"blocked", event(c)>>]
      BY <1>1, <2>2
  <2>3. CASE IsFree(event(c)) /\ task' = [task EXCEPT ![c] = Entered(event(c))]
    <3> DEFINE t == Entered(event(c))
    <3>1. t[1] = "run" => t[2] = event(c)
        BY <2>1, EnteredTask
    <3> HIDE DEF t
    <3>2. task' = [task EXCEPT ![c] = t]
        BY <2>3 DEF t
    <3>3. \A d \in Caller : task[d][1] = "run" => Shard[task[d][2]] # Shard[event(c)]
        BY <2>3 DEF IsFree, Running, At, event
    <3> QED BY <1>0, <3>1, <3>2, <3>3 DEF Exclusive, Running, At, event
  <2> QED BY <1>2, <2>2, <2>3 DEF Enter, Unblocked
<1>3. ASSUME NEW c \in Caller, Return(c) PROVE Exclusive'
    BY <1>1, <1>3, TaskFields DEF Return
<1>4. ASSUME NEW e \in Event, Spawn(e) PROVE Exclusive'
    BY <1>1, <1>4, SpawnStep
<1>5. CASE UNCHANGED task
    BY <1>5 DEF Exclusive, Running, At, event
<1>6. ASSUME NEW e \in Handled, Register(e) \/ RegisterUnblocked(e) PROVE UNCHANGED task
    BY <1>6 DEF Register, RegisterUnblocked
<1>7. ASSUME NEW c \in Caller, Body(c) PROVE UNCHANGED task
    BY <1>7 DEF Body, cvars
<1> QED BY <1>2, <1>3, <1>4, <1>5, <1>6, <1>7, OwnStep DEF cvars

-----------------------------------------------------------------------------
(* The threads *)

\* Only a task that holds a thread can begin to wait, and it blocks that thread.
LEMMA BlockedStep ==
    CallbackTypeOK /\ TypeOK /\ Blocked <= Workers /\ [CNext]_avars => Blocked' <= Workers
<1> SUFFICES ASSUME CallbackTypeOK, TypeOK, Blocked <= Workers, [CNext]_avars
             PROVE  Blocked' <= Workers
    OBVIOUS
<1>0. task \in [Caller -> Tasks] /\ reg \in [Handled -> {"spawned", "blocked", "done"}]
    BY DEF CallbackTypeOK, Tasks, Place
<1>1. ASSUME NEW c \in Caller, NEW t, t[1] # "blocked", task' = [task EXCEPT ![c] = t],
             reg' = reg
      PROVE  Blocked' <= Workers
    BY <1>0, <1>1, NoThreadWaits DEF BlockedTasks, BlockedRegs, At
<1>2. ASSUME NEW e \in Handled, Register(e) PROVE Blocked' <= Workers
  <2>1. ThreadFree /\ BlockedTasks' = BlockedTasks /\ BlockedRegs' \subseteq BlockedRegs \cup {e}
      BY <1>0, <1>2 DEF Register, BlockedTasks, BlockedRegs, At
  <2> QED BY <2>1, OneThreadWaits
<1>3. ASSUME NEW e \in Handled, RegisterUnblocked(e) PROVE Blocked' <= Workers
  <2>1. BlockedTasks' = BlockedTasks /\ BlockedRegs' \subseteq BlockedRegs
      BY <1>0, <1>3 DEF RegisterUnblocked, BlockedTasks, BlockedRegs, At
  <2> QED BY <2>1, NoThreadWaits
<1>4. ASSUME NEW c \in Caller, Enter(c) PROVE Blocked' <= Workers
  <2>1. ThreadFree /\ BlockedRegs' = BlockedRegs
      BY <1>4 DEF Enter, BlockedRegs
  <2>2. BlockedTasks' \subseteq BlockedTasks \cup {c}
      BY <1>0, <1>4 DEF Enter, BlockedTasks, At
  <2> QED BY <2>1, <2>2, OneThreadWaits
<1>5. ASSUME NEW c \in Caller, Unblocked(c) PROVE Blocked' <= Workers
  <2>1. event(c) \in Event
      BY <1>5, TaskType DEF Unblocked, Place
  <2>2. Entered(event(c))[1] # "blocked"
      BY <2>1, EnteredTask
  <2> QED BY <1>1, <1>5, <2>2 DEF Unblocked
<1>6. ASSUME NEW c \in Caller, Return(c) PROVE Blocked' <= Workers
    BY <1>1, <1>6, TaskFields DEF Return
<1>7. ASSUME NEW e \in Event, Spawn(e) PROVE Blocked' <= Workers
    BY <1>1, <1>7, SpawnStep
<1>8. CASE UNCHANGED cvars
    BY <1>8, NoThreadWaits DEF cvars, BlockedTasks, BlockedRegs, At
<1> QED BY <1>2, <1>3, <1>4, <1>5, <1>6, <1>7, <1>8, OwnStep DEF Body, cvars

-----------------------------------------------------------------------------
(* The theorems *)

\* The tasks of the callbacks keep their shape, and a socket's acks are asked for only
\* by callbacks that have their guard.
THEOREM CallbackTypeCorrect == CSpec => []CallbackTypeOK
BY InitCallbackType, CallbackTypeStep, AckTypeCorrect, PTL DEF CSpec

\* Whatever the shards, the peer and the acks do, two callbacks of one shard of `on` never
\* run at the same time, however long each is suspended in an await, and no more threads
\* wait for a guard than the runtime has (callback holds get_mut's guard).
THEOREM CallbacksExclude == CSpec => []OneCallbackPerShard
<1>1. OneCallbackPerShard <=> Exclusive /\ Blocked <= Workers
    BY DEF OneCallbackPerShard, Exclusive
<1>2. CInit => OneCallbackPerShard
  <2> SUFFICES ASSUME CInit PROVE Exclusive /\ Blocked <= Workers
      BY <1>1
  <2>1. Running = {} /\ BlockedTasks = {} /\ BlockedRegs = {}
      BY DEF CInit, Running, BlockedTasks, BlockedRegs, At, NoTask
  <2>2. Blocked = 0 + 0
      BY <2>1, BlockedCount, FS_EmptySet
  <2> QED BY <2>1, <2>2, WorkersAssumption DEF Exclusive
<1>3. CallbackTypeOK /\ TypeOK /\ OneCallbackPerShard /\ [CNext]_avars
        => OneCallbackPerShard'
  <2>1. OneCallbackPerShard' <=> Exclusive' /\ Blocked' <= Workers
      BY DEF OneCallbackPerShard, Exclusive
  <2> QED BY <1>1, <2>1, ExclusiveStep, BlockedStep
<1> QED BY <1>2, <1>3, CallbackTypeCorrect, AckTypeCorrect, PTL DEF CSpec
=============================================================================
