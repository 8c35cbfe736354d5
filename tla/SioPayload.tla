----------------------------- MODULE SioPayload -----------------------------
(***************************************************************************)
(* Payloads on their way: how emit and ack turn a payload into a packet    *)
(* and its attachments, how the packet is encoded and decoded, and how the *)
(* receiver's stream puts packet and attachments together again.           *)
(*                                                                         *)
(* JSON values and binaries are opaque; a JSON value is not an object with *)
(* the key "_placeholder", bytes are not the text of a packet, a namespace *)
(* begins with "/" and has no ",".  No packet of somebody else comes       *)
(* between the packets of one message (EngineServer, MultiAtomic), but the *)
(* sender may fail between them.  Somebody waits for every ack and listens *)
(* to every event (SioAcks and SioCallbacks have the other cases).         *)
(***************************************************************************)
EXTENDS Naturals, Sequences, FiniteSets

CONSTANTS
    Message,    \* messages the sender may emit
    U8,         \* the values attachment_count can have: 256 in the code
    Nsp,        \* the namespace of the receiving socket
    MaxSent,    \* bound: messages sent
    MaxPing,    \* bound: engine packets that are not messages, between them
    None        \* no value, for a callback

Root == "/"         \* the default namespace, left out of the encoding

\* Payload: a Binary or a Json is one item, a Multi any number of them.
IsPayload(p) == /\ p.multi \in BOOLEAN
                /\ p.items \in Seq({p.items[k] : k \in DOMAIN p.items})
                /\ \A k \in DOMAIN p.items : p.items[k].kind \in {"json", "bin"}
                /\ p.multi \/ Len(p.items) = 1

ASSUME MessageAssumption ==
    \A m \in Message : IsPayload(m.payload) /\ m.ack \in BOOLEAN /\ (m.ack => m.id # None)
ASSUME BoundAssumption == MaxSent \in Nat /\ MaxPing \in Nat
ASSUME CountAssumption == U8 \in Nat \ {0}

VARIABLES
    wire,       \* engine packets under way
    sending,    \* attachments that the emit in progress has still to send
    pings,      \* engine packets other than messages sent so far
    ended,      \* has the transport ended?
    rx,         \* the receiver's stream: live, deaf (without a waker), over after an
                \* error, ended, or panicked
    partial,    \* the packet that still lacks attachments
    got,        \* what was handed to callbacks, in the order of the packets (history)
    called,     \* which of those callbacks have run
    sent,       \* messages whose packet was sent (history)
    heads,      \* how many of those packets have left the wire (history)
    broken      \* the numbers of those cut short on a live connection (history)

sender   == <<sending, sent>>
receiver == <<rx, partial, got, called, heads>>
vars == <<wire, pings, ended, sender, receiver, broken>>

Json(v) == [kind |-> "json", val |-> v]
One(i)  == [multi |-> FALSE, items |-> <<i>>]
Multi(items) == [multi |-> TRUE, items |-> items]

\* An Option: Absent, or one value.
Absent     == <<>>
Present(x) == <<x>>

Init == /\ wire = <<>> /\ pings = 0 /\ ended = FALSE
        /\ sending = <<>> /\ sent = <<>> /\ broken = {}
        /\ rx = "live" /\ partial = Absent /\ got = <<>> /\ called = {} /\ heads = 0

-----------------------------------------------------------------------------
(* Event::from(String), which knows the common events in any case; other names are kept. *)

Event(name) == IF name \in {"message", "Message"} THEN "message" ELSE name

-----------------------------------------------------------------------------
(* encode_data and build_packet_for_payload *)

\* The elements of s at the positions in K, in their order: Part[n][a] are those among the
\* n elements from a on, taken by halves.
Selected(s, K) ==
    LET Part[n \in 0..Len(s)] ==
          [a \in 1..Len(s) |->
             IF n = 0 THEN <<>>
             ELSE IF n = 1 THEN IF a \in K THEN <<s[a]>> ELSE <<>>
             ELSE Part[n \div 2][a] \o Part[n - n \div 2][a + n \div 2]]
    IN IF s = <<>> THEN <<>> ELSE Part[Len(s)][1]

\* The attachments, and where the items have them.
BinaryAt(items) == {k \in DOMAIN items : items[k].kind = "bin"}
Binaries(items) == Selected(items, BinaryAt(items))

NumberByPosition(items, k) == k - 1     \* counts the JSON values too

\* The number of a placeholder is that of the attachments before it.
Number(items, k) == Cardinality(BinaryAt(items) \cap 1..k - 1)

\* process_payload: JSON as it is, a placeholder for each binary.
Encoded(items) ==
    [k \in DOMAIN items |-> IF items[k].kind = "json" THEN items[k]
                            ELSE [kind |-> "placeholder", val |-> Number(items, k)]]

PacketType(ack, binary) == IF ack THEN IF binary THEN "BinaryAck" ELSE "Ack"
                           ELSE IF binary THEN "BinaryEvent" ELSE "Event"

CountWrapsEarly(atts) == Len(atts) % (U8 - 1)

Count(atts) == Len(atts) % U8

BuildPacket(m) ==
    LET atts == Binaries(m.payload.items) IN
    [ptype |-> PacketType(m.ack, atts # <<>>), nsp |-> m.nsp, id |-> m.id,
     data |-> (IF m.ack THEN <<>> ELSE <<Json(Event(m.name))>>) \o Encoded(m.payload.items),
     count |-> Count(atts)]

-----------------------------------------------------------------------------
(* The packet codec: what is written, and what is read back *)

HasCount(ptype) == ptype \in {"BinaryEvent", "BinaryAck"}

\* Bytes::from(&Packet): the count of binary packets, the namespace unless it is the
\* default, the id if there is one, the data.
Encode(p) == [ptype |-> p.ptype,
              count |-> IF HasCount(p.ptype) THEN Present(p.count) ELSE Absent,
              nsp |-> IF p.nsp = Root THEN Absent ELSE Present(p.nsp),
              id |-> p.id, data |-> p.data]

\* Packet::try_from: what is not there has its default; no data and an empty array are
\* the same.
Decode(h) == [ptype |-> h.ptype,
              count |-> IF h.count = Absent THEN 0 ELSE h.count[1],
              nsp |-> IF h.nsp = Absent THEN Root ELSE h.nsp[1],
              id |-> h.id, data |-> h.data]

-----------------------------------------------------------------------------
(* handle_socketio_packet: decoding the payload of a complete packet *)

\* decode_event_payload, skip telling whether the first value is the event.
DecodePlain(data, skip) ==
    IF data = <<>> THEN None
    ELSE IF Len(data) = 1 THEN One(data[1])
    ELSE IF Len(data) = 2 /\ skip THEN One(data[2])
    ELSE Multi(IF skip THEN Tail(data) ELSE data)

\* decode_binary: attachments in the place of their placeholders; a placeholder
\* without its attachment is an error, and there is no payload.
DecodeBinary(data, atts, skip) ==
    LET vals == IF skip THEN Tail(data) ELSE data
        Lacks(v) == v.kind = "placeholder" /\ v.val >= Len(atts)
        full == [k \in DOMAIN vals |-> IF vals[k].kind = "placeholder"
                                       THEN atts[vals[k].val + 1] ELSE vals[k]]
    IN IF \E k \in DOMAIN vals : Lacks(vals[k]) THEN None
       ELSE IF Len(vals) = 1 THEN One(full[1]) ELSE Multi(full)

\* handle_event calls the message callback for an array of one value.
EventName(p) == IF p.ptype = "Event" /\ Len(p.data) = 1 THEN "message"
                ELSE Event(p.data[1].val)

Delivery(p, atts) ==
    LET ack == p.ptype \in {"Ack", "BinaryAck"} IN
    [name |-> IF ack THEN None ELSE EventName(p), id |-> p.id,
     payload |-> IF HasCount(p.ptype) THEN DecodeBinary(p.data, atts, ~ack)
                 ELSE DecodePlain(p.data, ~ack)]

\* A packet of another namespace is skipped.  The callback of an ack is awaited by
\* handle_ack; that of an event is left to a task of its own (Socket::callback).
Deliver(p, atts) ==
    IF p.nsp = Nsp
    THEN /\ got' = Append(got, Delivery(p, atts))
         /\ called' = IF p.ptype \in {"Ack", "BinaryAck"} THEN called \cup {Len(got) + 1}
                      ELSE called
    ELSE UNCHANGED <<got, called>>

\* The task of an event calls its callback; the tasks run in any order.
CallbackRuns(k) ==
    /\ k \in DOMAIN got \ called
    /\ called' = called \cup {k}
    /\ UNCHANGED <<wire, pings, ended, sender, rx, partial, got, heads, broken>>

-----------------------------------------------------------------------------
(* The sender: RawSocket::send, and emit_multi of the engine's socket, which holds the
   transport's mutex until the last attachment is sent, or one is refused *)

\* The packet itself is sent (or refused, which changes nothing).
Send(m) ==
    /\ ~ended /\ sending = <<>> /\ Len(sent) < MaxSent
    /\ wire' = Append(wire, [kind |-> "head", val |-> Encode(BuildPacket(m))])
    /\ sending' = Binaries(m.payload.items)
    /\ sent' = Append(sent, m)
    /\ UNCHANGED <<pings, ended, receiver, broken>>

SendAttachment ==
    /\ ~ended /\ sending # <<>>
    /\ wire' = Append(wire, Head(sending))
    /\ sending' = Tail(sending)
    /\ UNCHANGED <<pings, ended, sent, receiver, broken>>

\* An attachment is refused: emit_multi returns the error, the rest is not sent, and the
\* connection goes on (a POST of more than 1000 bytes is answered with an error, EngineWire).
SendFails ==
    /\ ~ended /\ sending # <<>>
    /\ sending' = <<>>
    /\ broken' = broken \cup {Len(sent)}
    /\ UNCHANGED <<wire, pings, ended, sent, receiver>>

\* An engine packet that is not a message: a Ping, a Pong or a Noop.
EnginePacket ==
    /\ ~ended /\ sending = <<>> /\ pings < MaxPing
    /\ wire' = Append(wire, [kind |-> "other", val |-> None])
    /\ pings' = pings + 1
    /\ UNCHANGED <<ended, sender, receiver, broken>>

\* The transport ends, or is lost, with everything under way.
Lost ==
    /\ ~ended /\ ended' = TRUE /\ wire' = <<>> /\ sending' = <<>>
    /\ UNCHANGED <<pings, sent, receiver, broken>>

-----------------------------------------------------------------------------
(* The receiver: RawSocket::stream and handle_engineio_packet *)

Take(kinds) == /\ rx = "live" /\ wire # <<>> /\ Head(wire).kind \in kinds
               /\ wire' = Tail(wire)
               /\ heads' = IF Head(wire).kind = "head" THEN heads + 1 ELSE heads

SkipOther ==
    /\ partial = Absent /\ Take({"other"})
    /\ UNCHANGED <<pings, ended, sender, rx, partial, got, called, broken>>

\* A packet: complete, or waiting for its attachments.
TakePacket ==
    /\ partial = Absent /\ Take({"head"})
    /\ LET p == Decode(Head(wire).val) IN
         IF p.count = 0
         THEN Deliver(p, <<>>) /\ UNCHANGED partial
         ELSE partial' = Present([packet |-> p, atts |-> <<>>]) /\ UNCHANGED <<got, called>>
    /\ UNCHANGED <<pings, ended, sender, rx, broken>>

TakeOneMore ==
    /\ partial # Absent /\ Take({"head", "bin"})
    /\ LET p == partial[1].packet
           atts == Append(partial[1].atts, Head(wire))
       IN IF Len(atts) > p.count THEN partial' = Absent /\ Deliver(p, atts)
          ELSE partial' = Present([packet |-> p, atts |-> atts]) /\ UNCHANGED <<got, called>>
    /\ UNCHANGED <<pings, ended, sender, rx, broken>>

\* Any message that comes next is an attachment; the last one completes the packet.
TakeAttachment ==
    /\ partial # Absent /\ Take({"head", "bin"})
    /\ LET p == partial[1].packet
           atts == Append(partial[1].atts, Head(wire))
       IN IF Len(atts) = p.count THEN partial' = Absent /\ Deliver(p, atts)
          ELSE partial' = Present([packet |-> p, atts |-> atts]) /\ UNCHANGED <<got, called>>
    /\ UNCHANGED <<pings, ended, sender, rx, broken>>

\* A binary that no packet announced does not parse as a packet, and nothing but a
\* message can be an attachment: the error ends the stream.
TakeError ==
    /\ Take(IF partial = Absent THEN {"bin"} ELSE {"other"})
    /\ rx' = "over"
    /\ UNCHANGED <<pings, ended, sender, partial, got, called, broken>>

\* poll_next of the engine's socket drops the packet it has read when handling it has to
\* wait: for the server's event channel, or for the transport that a Pong is to go out by.
\* Nothing is left to wake the reader, but another event of its task may.
PollDrops ==
    /\ Take({"head", "bin", "other"})
    /\ rx' \in {"live", "deaf"}
    /\ broken' = IF Head(wire).kind = "other" THEN broken ELSE broken \cup {heads'}
    /\ UNCHANGED <<pings, ended, sender, partial, got, called>>

\* The engine's stream gives an error, or its end, which is unwrapped where an
\* attachment should be.
StreamEnds ==
    /\ rx = "live" /\ wire = <<>> /\ ended
    /\ rx' \in {"over", IF partial = Absent THEN "ended" ELSE "panicked"}
    /\ UNCHANGED <<wire, pings, ended, sender, partial, got, called, heads, broken>>

-----------------------------------------------------------------------------
Receive == SkipOther \/ TakePacket \/ TakeAttachment \/ TakeError \/ StreamEnds

Next == \/ (\E m \in Message : Send(m)) \/ SendAttachment \/ SendFails
        \/ EnginePacket \/ Lost
        \/ Receive \/ PollDrops
        \/ \E k \in DOMAIN got : CallbackRuns(k)

Spec == Init /\ [][Next]_vars

\* The transport takes a packet or refuses it, the receiver polls its stream, and a task
\* that was spawned runs.
FairSpec == /\ Spec /\ WF_vars(SendAttachment \/ SendFails) /\ WF_vars(Receive \/ PollDrops)
            /\ \A k \in 1..MaxSent : WF_vars(CallbackRuns(k))

-----------------------------------------------------------------------------
(* Properties *)

\* Every variable has its type, and a packet waits only while it lacks attachments
\* (attachments_left of handle_engineio_packet).
TypeOK == /\ \A k \in DOMAIN wire : wire[k].kind \in {"head", "bin", "other"}
          /\ \A k \in DOMAIN sending : sending[k].kind = "bin"
          /\ pings \in 0..MaxPing /\ ended \in BOOLEAN
          /\ rx \in {"live", "deaf", "over", "ended", "panicked"}
          /\ partial # Absent => Len(partial[1].atts) < partial[1].packet.count
          /\ called \subseteq DOMAIN got
          /\ sent \in Seq(Message) /\ heads \in Nat /\ broken \subseteq Nat

\* What the encoding can carry: attachments that a u8 can count, and an event with data.
Fit(m) == /\ Cardinality(BinaryAt(m.payload.items)) < U8
          /\ m.ack \/ m.payload.items # <<>>

\* The messages before the first that does not fit or was cut short: emit_multi failed
\* between its packets, or poll_next dropped one of them.
Intact == {k \in DOMAIN sent : \A i \in 1..k : Fit(sent[i]) /\ i \notin broken}

\* Those of them that are for the receiving socket.
MineAt(ms) == {k \in DOMAIN ms : ms[k].nsp = Nsp}
Mine == Selected(sent, MineAt(sent) \cap Intact)

\* What the callback of a message is to be called with: the event, the ack id, and the
\* items as they were emitted; one item is not a Multi, and no item is no payload.
Promise(m) ==
    LET items == m.payload.items IN
    [name |-> IF m.ack THEN None ELSE Event(m.name), id |-> m.id,
     payload |-> IF items = <<>> THEN None
                 ELSE IF Len(items) = 1 THEN One(items[1]) ELSE Multi(items)]

\* What is handed to the callbacks is what was emitted to them, in the order of emission
\* and with every binary in its place, up to the first message that does not fit or was
\* cut short, whatever comes after it: build_packet_for_payload, the codec, the attachments
\* collected by handle_engineio_packet and decode_binary undo each other, also for as many
\* attachments as a u8 can count and after packets for another namespace.  As long as there
\* is no such message, nothing else is handed over.  (Callbacks of events are called from
\* tasks of their own, in any order.)
DeliveredAsSent ==
    /\ \A k \in DOMAIN got \cap DOMAIN Mine : got[k] = Promise(Mine[k])
    /\ Intact = DOMAIN sent => Len(got) <= Len(Mine)

\* The receiver's stream (RawSocket::stream) fails on a live transport only behind a message
\* that does not fit or was cut short, when all before it have been handed over: each
\* packet takes exactly its own attachments off the wire, so that the next message is a
\* packet.
StreamSurvives == rx = "over" /\ ~ended => Intact # DOMAIN sent /\ Len(got) >= Len(Mine)

\* The callback of a message is called, also when one after it is cut short, unless the
\* connection ends first, the message is itself cut short or poll_next leaves the reader
\* deaf: handle_engineio_packet never waits for an attachment of a whole message in vain.
AllDelivered ==
    \A n \in 1..MaxSent :
        Len(Mine) >= n ~> (n \in called \/ ended \/ Len(Mine) < n \/ rx = "deaf")
=============================================================================
