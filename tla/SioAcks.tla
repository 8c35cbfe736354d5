------------------------------- MODULE SioAcks -------------------------------
(***************************************************************************)
(* Acknowledgements of a Socket.IO socket: emit_with_ack, run by any       *)
(* number of tasks, and handle_ack, run by the one task that polls the     *)
(* socket, over the vector outstanding_acks and its lock.                  *)
(***************************************************************************)
EXTENDS Naturals, Sequences, Functions

CONSTANTS
    Caller,     \* tasks that call emit_with_ack
    MaxId,      \* bound: ack ids handed out
    MaxInbox,   \* bound: packets that wait for the poll task
    Sends,      \* types of the packets the peer sends besides acks
    Nested      \* do ack callbacks call emit_with_ack themselves?

ASSUME BoundAssumption  == MaxId \in Nat \ {0} /\ MaxInbox \in Nat \ {0}
ASSUME NestedAssumption == Nested \in BOOLEAN

Id == 1..MaxId

VARIABLES
    connected,  \* Socket.is_connected
    engineUp,   \* the engine socket is connected
    nextId,     \* ack_id_gen
    acks,       \* outstanding_acks: the ids, in order
    locked,     \* is its write lock held across an await?
    expired,    \* ids whose timeout has elapsed
    caller, own,    \* each caller's place in emit_with_ack, and its id
    poll, pid, idx, \* the poll task's place in handle_ack, the packet's id, the index
    asked,      \* ids the peer has been asked to acknowledge
    inbox,      \* packets of the peer not yet polled: their type, and the id of an ack
    called      \* how often the callback of an id was called (history)

vars == <<connected, engineUp, nextId, acks, locked, expired, caller, own, poll, pid, idx,
          asked, inbox, called>>
callers == <<caller, own>>
polling == <<poll, pid, idx>>

\* PacketType; the binary kinds are handled as the plain ones.
Acks   == {"Ack"} \X Id
Others == {"Connect", "Disconnect", "ConnectError", "Event"} \X {0}

ASSUME SendsAssumption == Sends \X {0} \subseteq Others

Init ==
    /\ connected = TRUE /\ engineUp = TRUE
    /\ nextId = 1 /\ acks = <<>> /\ locked = FALSE /\ expired = {}
    /\ caller = [c \in Caller |-> "idle"]
    /\ own = [c \in Caller |-> 0]
    /\ poll = "idle" /\ pid = 0 /\ idx = 0
    /\ asked = {} /\ inbox = <<>>
    /\ called = [i \in Id |-> 0]

-----------------------------------------------------------------------------
(* emit_with_ack *)

GenerateLater(c) ==
    /\ caller[c] = "idle" /\ connected /\ nextId <= MaxId
    /\ nextId' = nextId + 1
    /\ caller' = [caller EXCEPT ![c] = "push"]
    /\ UNCHANGED <<connected, engineUp, acks, locked, expired, own, polling, asked, inbox, called>>

\* Not connected: IllegalActionBeforeOpen, before an id is taken.
Generate(c) ==
    /\ caller[c] = "idle" /\ connected /\ nextId <= MaxId
    /\ own' = [own EXCEPT ![c] = nextId]
    /\ nextId' = nextId + 1
    /\ caller' = [caller EXCEPT ![c] = "push"]
    /\ UNCHANGED <<connected, engineUp, acks, locked, expired, polling, asked, inbox, called>>

PushFront(c) ==
    /\ caller[c] = "push" /\ ~locked
    /\ acks' = <<own[c]>> \o acks
    /\ caller' = [caller EXCEPT ![c] = "send"]
    /\ UNCHANGED <<connected, engineUp, nextId, locked, expired, own, polling, asked, inbox, called>>

\* The ack is outstanding before the packet is sent.
Push(c) ==
    /\ caller[c] = "push" /\ ~locked
    /\ acks' = Append(acks, own[c])
    /\ caller' = [caller EXCEPT ![c] = "send"]
    /\ UNCHANGED <<connected, engineUp, nextId, locked, expired, own, polling, asked, inbox, called>>

\* A send that fails leaves its ack outstanding.
Send(c) ==
    /\ caller[c] = "send"
    /\ asked' = IF engineUp THEN asked \cup {own[c]} ELSE asked
    /\ caller' = [caller EXCEPT ![c] = "idle"]
    /\ own' = [own EXCEPT ![c] = 0]
    /\ UNCHANGED <<connected, engineUp, nextId, acks, locked, expired, polling, inbox, called>>

-----------------------------------------------------------------------------
(* The peer and the clock *)

\* The peer acknowledges what it was asked, late, twice or never.
PeerAcks(i) ==
    /\ i \in asked /\ engineUp /\ Len(inbox) < MaxInbox
    /\ inbox' = Append(inbox, <<"Ack", i>>)
    /\ UNCHANGED <<connected, engineUp, nextId, acks, locked, expired, callers, polling,
                   asked, called>>

PeerSends(p) ==
    /\ engineUp /\ Len(inbox) < MaxInbox
    /\ inbox' = Append(inbox, p)
    /\ UNCHANGED <<connected, engineUp, nextId, acks, locked, expired, callers, polling,
                   asked, called>>

\* The time of an ack that is outstanding, or about to be, runs out.
Expire(i) ==
    /\ i \in Range(acks) \cup Range(own) /\ i \notin expired
    /\ expired' = expired \cup {i}
    /\ UNCHANGED <<connected, engineUp, nextId, acks, locked, callers, polling, asked, inbox, called>>

EngineDown ==
    /\ engineUp /\ engineUp' = FALSE
    /\ UNCHANGED <<connected, nextId, acks, locked, expired, callers, polling, asked, inbox, called>>

-----------------------------------------------------------------------------
(* The poll task: handle_socketio_packet and handle_ack *)

Polled(ps) == poll = "idle" /\ inbox # <<>> /\ Head(inbox) \in ps

\* Connect sets the flag, Disconnect and ConnectError clear it.
PollOther ==
    /\ Polled(Others)
    /\ connected' = CASE Head(inbox)[1] = "Connect" -> TRUE
                      [] Head(inbox)[1] = "Event"   -> connected
                      [] OTHER                      -> FALSE
    /\ inbox' = Tail(inbox)
    /\ UNCHANGED <<engineUp, nextId, acks, locked, expired, callers, polling, asked, called>>

IndexOf(i) == {k \in 1..Len(acks) : acks[k] = i}

\* An ack nobody waits for: the scan finds nothing.
PollUnknown ==
    /\ Polled(Acks) /\ IndexOf(Head(inbox)[2]) = {}
    /\ inbox' = Tail(inbox)
    /\ UNCHANGED <<connected, engineUp, nextId, acks, locked, expired, callers, polling,
                   asked, called>>

\* The scan finds the ack; in time, its callback runs under the write lock.
PollAck ==
    /\ Polled(Acks)
    /\ pid' = Head(inbox)[2]
    /\ \E k \in IndexOf(Head(inbox)[2]) : idx' = k
    /\ IF Head(inbox)[2] \in expired
       THEN poll' = "remove" /\ UNCHANGED <<locked, called>>
       ELSE /\ poll' = "callback" /\ locked' = TRUE
            /\ called' = [called EXCEPT ![Head(inbox)[2]] = @ + 1]
    /\ inbox' = Tail(inbox)
    /\ UNCHANGED <<connected, engineUp, nextId, acks, expired, callers, asked>>

CallbackKeepsLock ==
    /\ poll = "callback"
    /\ poll' = "remove"
    /\ UNCHANGED <<connected, engineUp, nextId, acks, locked, expired, callers, pid, idx,
                   asked, inbox, called>>

CallbackReturns ==
    /\ poll = "callback"
    /\ poll' = "remove" /\ locked' = FALSE
    /\ UNCHANGED <<connected, engineUp, nextId, acks, expired, callers, pid, idx, asked, inbox, called>>

\* The callback waits for the lock its own caller holds.
CallbackNests ==
    /\ Nested /\ poll = "callback" /\ connected
    /\ poll' = "nested"
    /\ UNCHANGED <<connected, engineUp, nextId, acks, locked, expired, callers, pid, idx,
                   asked, inbox, called>>

KeepAck ==
    /\ poll = "remove" /\ ~locked
    /\ poll' = "idle" /\ pid' = 0 /\ idx' = 0
    /\ UNCHANGED <<connected, engineUp, nextId, acks, locked, expired, callers,
                   asked, inbox, called>>

\* Vec::remove by the index found before the lock was released; it panics when the
\* index is out of bounds.
RemoveAck ==
    /\ poll = "remove" /\ ~locked /\ idx <= Len(acks)
    /\ acks' = SubSeq(acks, 1, idx - 1) \o SubSeq(acks, idx + 1, Len(acks))
    /\ poll' = "idle" /\ pid' = 0 /\ idx' = 0
    /\ UNCHANGED <<connected, engineUp, nextId, locked, expired, callers,
                   asked, inbox, called>>

\* The transport fails or a packet does not parse: the stream of packets is over.
PollFails ==
    /\ poll = "idle"
    /\ poll' = "ended"
    /\ UNCHANGED <<connected, engineUp, nextId, acks, locked, expired, callers, pid, idx,
                   asked, inbox, called>>

\* Socket::disconnect: the flag first; the rest is the engine's.
Disconnect ==
    /\ connected /\ connected' = FALSE
    /\ UNCHANGED <<engineUp, nextId, acks, locked, expired, callers, polling, asked, inbox, called>>

-----------------------------------------------------------------------------
EmitWithAck(c) == Generate(c) \/ Push(c) \/ Send(c)
PollAcks == PollUnknown \/ PollAck \/ RemoveAck
Peer     == \/ \E i \in Id : PeerAcks(i) \/ Expire(i)
            \/ \E p \in Sends \X {0} : PeerSends(p)
            \/ EngineDown

Next == \/ \E c \in Caller : EmitWithAck(c)
        \/ Peer \/ PollOther \/ PollAcks \/ PollFails
        \/ CallbackReturns \/ CallbackNests \/ Disconnect

Spec == Init /\ [][Next]_vars

-----------------------------------------------------------------------------
(* Properties *)

\* Every variable has its type.
TypeOK ==
    /\ connected \in BOOLEAN /\ engineUp \in BOOLEAN /\ locked \in BOOLEAN
    /\ nextId \in 1..(MaxId + 1)
    /\ acks \in Seq(Id)
    /\ expired \subseteq Id /\ asked \subseteq Id
    /\ caller \in [Caller -> {"idle", "push", "send"}]
    /\ own \in [Caller -> 0..MaxId]
    /\ poll \in {"idle", "callback", "nested", "remove", "ended"}
    /\ pid \in 0..MaxId /\ idx \in Nat
    /\ inbox \in Seq(Acks \cup Others) /\ Len(inbox) <= MaxInbox
    /\ called \in [Id -> Nat]

\* However often the peer acknowledges an id, its callback is called at most once
\* (handle_ack removes the ack it has called).
CalledOnce == \A i \in Id : called[i] <= 1

\* handle_ack has found an ack and not yet removed it.
Handling == poll \in {"callback", "nested", "remove"}

\* handle_ack removes the ack it handled: the index it found under the first lock
\* still is that ack's under the second, whatever emit_with_ack did in between.
RemovesItsAck == Handling => idx \in IndexOf(pid)

-----------------------------------------------------------------------------
(* The inductive invariant behind these properties *)

\* An id is taken by one caller, which pushes it once: until then it is new to the vector.
OwnIds ==
    \A c \in Caller :
      /\ caller[c] = "idle" <=> own[c] = 0
      /\ own[c] < nextId
      /\ caller[c] = "push" => own[c] \notin Range(acks)
      /\ \A d \in Caller : own[c] = own[d] /\ own[c] # 0 => c = d

\* The vector holds each id at most once.
DistinctAcks ==
    /\ \A k \in DOMAIN acks : acks[k] < nextId
    /\ \A k, l \in DOMAIN acks : acks[k] = acks[l] => k = l

\* The write lock is kept across an await by a running callback only.
LockedByCallback == locked <=> poll \in {"callback", "nested"}

\* An ack whose callback was called is not about to be pushed, and is outstanding only
\* while it is being handled.
CalledIsHandled ==
    \A i \in Id : called[i] > 0 =>
      /\ i < nextId
      /\ \A c \in Caller : caller[c] = "push" => own[c] # i
      /\ i \in Range(acks) => Handling /\ pid = i

\* The invariant that every step keeps.
AckInv == /\ TypeOK /\ OwnIds /\ DistinctAcks /\ LockedByCallback
          /\ RemovesItsAck /\ CalledIsHandled /\ CalledOnce
=============================================================================
