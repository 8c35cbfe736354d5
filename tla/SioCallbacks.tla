---------------------------- MODULE SioCallbacks ----------------------------
(***************************************************************************)
(* The callbacks of a Socket.IO socket, composed with its acks: every      *)
(* packet that has an event spawns a task that calls the event's callback, *)
(* and the callbacks are the callers of emit_with_ack.                     *)
(*                                                                         *)
(* `on` is a DashMap: a callback runs, awaits included, under the write    *)
(* guard of its event's shard, and a task that finds the shard locked      *)
(* blocks the runtime's thread it runs on.                                 *)
(***************************************************************************)
EXTENDS SioAcks, FiniteSets

CONSTANTS
    Named,      \* events an Event packet of the peer may name
    Handled,    \* events the application has registered a callback for
    Shard,      \* the shard of `on` each event is in
    Workers     \* threads of the runtime

Event == {"Connect", "Close", "Error"} \cup Named

ASSUME FiniteAssumption  == IsFiniteSet(Caller) /\ IsFiniteSet(Handled)
ASSUME HandledAssumption == Handled \subseteq Event
ASSUME ShardAssumption   == DOMAIN Shard = Event
ASSUME WorkersAssumption == Workers \in Nat \ {0}

\* A caller is a slot for a callback's task (bound: tasks at once).
VARIABLES
    reg,        \* each handled event's registration
    task        \* each callback's task: where it stands, and its event

cvars == <<reg, task>>
avars == <<vars, cvars>>

NoTask   == <<"none", "none">>
At(c, l) == task[c][1] = l
event(c) == task[c][2]

\* ServerBuilder::build has every callback in its place; ClientBuilder::on spawns.
CInit ==
    /\ Init
    /\ \E r \in {"spawned", "done"} : reg = [e \in Handled |-> r]
    /\ task = [c \in Caller |-> NoTask]

-----------------------------------------------------------------------------
(* Guards of `on`, and threads *)

Running    == {c \in Caller : At(c, "run")}
IsFree(e)  == \A c \in Running : Shard[event(c)] # Shard[e]
Blocked    == Cardinality({c \in Caller : At(c, "blocked")})
              + Cardinality({e \in Handled : reg[e] = "blocked"})
ThreadFree == Blocked < Workers

\* The task once it has the guard: get_mut finds the callback, or nothing.
Entered(e) == IF e \in Handled /\ reg[e] = "done" THEN <<"run", e>> ELSE NoTask

-----------------------------------------------------------------------------
(* on, and callback *)

Register(e) ==
    /\ reg[e] = "spawned" /\ ThreadFree
    /\ reg' = [reg EXCEPT ![e] = IF IsFree(e) THEN "done" ELSE "blocked"]
    /\ UNCHANGED <<vars, task>>

RegisterUnblocked(e) ==
    /\ reg[e] = "blocked" /\ IsFree(e)
    /\ reg' = [reg EXCEPT ![e] = "done"]
    /\ UNCHANGED <<vars, task>>

\* tokio::spawn, into any slot that is free (bound).
Spawn(e) ==
    /\ \E c \in Caller : task[c] = NoTask
    /\ LET c == CHOOSE c \in Caller : task[c] = NoTask
       IN  task' = [task EXCEPT ![c] = <<"spawned", e>>]
    /\ UNCHANGED reg

EnterShared(c) ==
    /\ At(c, "spawned") /\ ThreadFree
    /\ task' = [task EXCEPT ![c] = Entered(event(c))]
    /\ UNCHANGED <<vars, reg>>

Enter(c) ==
    /\ At(c, "spawned") /\ ThreadFree
    /\ task' = [task EXCEPT ![c] = IF IsFree(event(c)) THEN Entered(event(c))
                                                      ELSE <<"blocked", event(c)>>]
    /\ UNCHANGED <<vars, reg>>

\* A waiting thread gets the guard; which one of several is not determined.
Unblocked(c) ==
    /\ At(c, "blocked") /\ IsFree(event(c))
    /\ task' = [task EXCEPT ![c] = Entered(event(c))]
    /\ UNCHANGED <<vars, reg>>

\* The callback's own code: it asks for acks, and suspends wherever that waits.
Body(c) == At(c, "run") /\ ThreadFree /\ EmitWithAck(c) /\ UNCHANGED cvars

Return(c) ==
    /\ At(c, "run") /\ ThreadFree /\ caller[c] = "idle"
    /\ task' = [task EXCEPT ![c] = NoTask]
    /\ UNCHANGED <<vars, reg>>

-----------------------------------------------------------------------------
(* handle_socketio_packet and poll_packet, in the poll task *)

\* The events a packet may be for.
EventsOf(p) == CASE p = "Connect"      -> {"Connect"}
                 [] p = "Disconnect"   -> {"Close"}
                 [] p = "ConnectError" -> {"Error"}
                 [] p = "Event"        -> Named

Dispatch ==
    /\ ThreadFree /\ PollOther
    /\ \E e \in EventsOf(Head(inbox)[1]) : Spawn(e)

Fails == ThreadFree /\ PollFails /\ Spawn("Error")

HandleAck == ThreadFree /\ (PollAcks \/ CallbackReturns) /\ UNCHANGED cvars
Nest      == ThreadFree /\ CallbackNests /\ UNCHANGED cvars

-----------------------------------------------------------------------------
CNext == \/ \E e \in Handled : Register(e) \/ RegisterUnblocked(e)
         \/ \E c \in Caller : Enter(c) \/ Unblocked(c) \/ Body(c) \/ Return(c)
         \/ Dispatch \/ Fails \/ HandleAck \/ Nest
         \/ (Peer \/ Disconnect) /\ UNCHANGED cvars

CSpec == CInit /\ [][CNext]_avars

\* A task that is ready again and again is polled, and user code returns.  The guards
\* of a DashMap are not handed out in any order.
Proceed(c) == Enter(c) \/ (caller[c] # "idle" /\ Body(c)) \/ Return(c)
Fairness ==
    /\ \A e \in Handled : SF_avars(Register(e)) /\ WF_avars(RegisterUnblocked(e))
    /\ \A c \in Caller : SF_avars(Proceed(c)) /\ WF_avars(Unblocked(c))
    /\ SF_avars(Dispatch \/ HandleAck)

FairSpec == CSpec /\ Fairness

-----------------------------------------------------------------------------
(* Properties *)

\* Every variable of this module has its type: a task's event is one of the socket's, and
\* only a task that has entered emits.
CallbackTypeOK ==
    /\ reg \in [Handled -> {"spawned", "blocked", "done"}]
    /\ task \in [Caller -> {NoTask} \cup ({"spawned", "blocked", "run"} \X Event)]
    /\ \A c \in Caller : caller[c] # "idle" => At(c, "run")

\* Callbacks of one shard of `on` never run at the same time, wherever they are suspended;
\* and more threads than the runtime has never wait (callback holds get_mut's guard).
OneCallbackPerShard ==
    /\ \A c, d \in Running : Shard[event(c)] = Shard[event(d)] => c = d
    /\ Blocked <= Workers

\* Every thread waits for a guard of `on` whose owner would need a thread.
Wedged == /\ ~ThreadFree
          /\ \A c \in Caller : At(c, "blocked") => ~IsFree(event(c))
          /\ \A e \in Handled : reg[e] = "blocked" => ~IsFree(e)

\* A callback that runs returns and gives its guard back, unless the threads are all
\* blocked, or an ack callback waits for its own lock (callback, emit_with_ack).
CallbackReturnsAgain ==
    \A c \in Caller : At(c, "run") ~> (At(c, "none") \/ Wedged \/ poll = "nested")

\* An ack that has arrived is dealt with and no longer outstanding, and its callback
\* was called or its time is over; unless the threads are all blocked, a callback
\* waits for the lock it runs under, or the stream ends first (handle_ack).
AckSettled ==
    \A i \in Id : (\E k \in DOMAIN inbox : inbox[k] = <<"Ack", i>>)
                    ~> (\/ IndexOf(i) = {} /\ poll = "idle" /\ (called[i] > 0 \/ i \in expired)
                        \/ Wedged \/ poll \in {"nested", "ended"})
=============================================================================
