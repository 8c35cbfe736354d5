----------------------------- MODULE EngineWire -----------------------------
(***************************************************************************)
(* The bytes of Engine.IO packets on their way over each transport: how a  *)
(* packet is encoded, what the HTTP and WebSocket layers do to the bytes,  *)
(* and how the receiving socket's stream cuts them into packets again.     *)
(*                                                                         *)
(* A byte is <<n, c>>: c is its class, n the number of base64 encodings it *)
(* has been through.  All the codec looks at is the separator, the first   *)
(* byte of a packet, whether text is UTF-8 and whether base64 decodes.     *)
(***************************************************************************)
EXTENDS Naturals, FiniteSets, SequencesExt

CONSTANTS
    Packets,        \* packets the sender emits: [ptype, data]
    Paths,          \* "post": client to server, "get": server to client, "ws": either
    PollingBuffer,  \* capacity of a polling channel
    HeadSize,       \* size of a POST's headers
    ReadSize,       \* size of the buffer a request is read into (max_payload())
    ChunkSize,      \* a response body up to this size is handed on in one piece
    MaxSent         \* bound: packets emitted

Raw(c) == <<0, c>>
SEPARATOR == Raw("SEP")

\* Engine.IO packet types and the digit each has on the wire.
Digit == [Open |-> "0", Close |-> "1", Ping |-> "2", Pong |-> "3", Message |-> "4",
          Upgrade |-> "5", Noop |-> "6"]
PacketType == DOMAIN Digit \cup {"MessageBinary"}

\* What the codec tells apart; "x" is any other byte.
Class == {Digit[t] : t \in DOMAIN Digit} \cup {"SEP", "b", "byte 4", "not utf8", "x"}
Byte == Nat \X Class

ASSUME WireAssumption ==
    /\ Packets \subseteq [ptype : PacketType, data : Seq(Byte)]
    /\ Paths \subseteq {"post", "get", "ws"}
    /\ {PollingBuffer, HeadSize, ReadSize, ChunkSize, MaxSent} \subseteq Nat \ {0}

VARIABLES
    path,       \* the transport and the direction of this behaviour
    sent,       \* what was emitted: [packet, result], the last perhaps still waiting
    queue,      \* polling channel, or messages on the websocket
    body,       \* of a response the client's HTTP library is still handing on
    pending,    \* packets of the payload the stream is yielding
    received,   \* packets the stream has yielded
    stream      \* "open", "lost" with its connection, or "failed" with an error

vars == <<path, sent, queue, body, pending, received, stream>>

Init == /\ path \in Paths
        /\ sent = <<>> /\ queue = <<>> /\ body = <<>>
        /\ pending = <<>> /\ received = <<>>
        /\ stream = "open"

-----------------------------------------------------------------------------
(* Packets and payloads *)

Encode64(bs)   == [i \in DOMAIN bs |-> <<bs[i][1] + 1, bs[i][2]>>]
Decode64(bs)   == [i \in DOMAIN bs |-> <<bs[i][1] - 1, bs[i][2]>>]
IsBase64(bs)   == \A i \in DOMAIN bs : bs[i][1] > 0
IsUtf8(bs)     == \A i \in DOMAIN bs : bs[i] # Raw("not utf8")

TypeByte(ptype) == IF ptype = "MessageBinary" THEN Raw("b") ELSE Raw(Digit[ptype])

\* The types a first byte can stand for; a websocket's binary message is given the
\* byte 4 instead of the digit.
TypesOf(b) == {t \in PacketType : b = TypeByte(t)}
                \cup (IF b = Raw("byte 4") THEN {"Message"} ELSE {})

\* Bytes::from(packet).
PacketBytes(p) ==
    <<TypeByte(p.ptype)>> \o IF p.ptype = "MessageBinary" THEN Encode64(p.data) ELSE p.data

\* Packet::try_from(bytes): the packet, or none.
TryPacket(bs) ==
    {[ptype |-> t, data |-> IF t = "MessageBinary" THEN Decode64(Tail(bs)) ELSE Tail(bs)] :
        t \in {u \in IF bs = <<>> THEN {} ELSE TypesOf(Head(bs)) :
                  /\ u = "Message" => Len(bs) > 1
                  /\ u = "MessageBinary" => IsBase64(Tail(bs))}}

\* The pieces between the separators of a payload, the last one included.
Cut(bs) ==
    LET Pieces[n \in 0..Len(bs)] ==
            IF n = 0 THEN << <<>> >>
            ELSE LET before == Pieces[n - 1] IN
                 IF bs[n] = SEPARATOR THEN Append(before, <<>>)
                 ELSE [before EXCEPT ![Len(before)] = Append(@, bs[n])]
    IN  Pieces[Len(bs)]

\* Payload::try_from(bytes): all packets, or, if one does not parse, none.
TryPayload(bs) ==
    LET pieces == Cut(bs) IN
    IF \E i \in DOMAIN pieces : TryPacket(pieces[i]) = {} THEN <<>>
    ELSE [i \in DOMAIN pieces |-> CHOOSE p \in TryPacket(pieces[i]) : TRUE]

\* What emit and emit_multi hand to the transport.
ToData(p) == IF p.ptype = "MessageBinary" THEN [kind |-> "Binary", bytes |-> p.data]
             ELSE [kind |-> "Text", bytes |-> PacketBytes(p)]

\* Both polling transports turn binary data into text before they send it.
PollingBytes(d) == IF d.kind = "Text" THEN d.bytes ELSE <<Raw("b")>> \o Encode64(d.bytes)

\* The websocket's stream marks a binary message as a Message packet.
WebsocketBytes(d) == IF d.kind = "Text" THEN d.bytes ELSE <<Raw("byte 4")>> \o d.bytes

\* build_polling_payload: a queued packet that begins with 'b' is encoded (again), one
\* that is not UTF-8 is left out.
Piece(bs) == IF Head(bs) = Raw("b") THEN Encode64(bs)
             ELSE IF IsUtf8(bs) THEN bs ELSE <<>>

PollingPayloadUnseparated(q) ==
    LET Joined[n \in 0..Len(q)] == IF n = 0 THEN <<>> ELSE Joined[n - 1] \o Piece(q[n])
    IN  Joined[Len(q)]

PollingPayloadTrailing(q) ==
    LET Joined[n \in 0..Len(q)] ==
            IF n = 0 THEN <<>> ELSE Joined[n - 1] \o Piece(q[n]) \o <<SEPARATOR>>
    IN  Joined[Len(q)]

\* The pieces with separators between them.
PollingPayload(q) ==
    LET Joined[n \in 0..Len(q)] ==
            IF n = 0 THEN <<>>
            ELSE IF n = 1 THEN Piece(q[1])
            ELSE Joined[n - 1] \o <<SEPARATOR>> \o Piece(q[n])
    IN  Joined[Len(q)]

-----------------------------------------------------------------------------
(* The sender *)

Waiting == sent # <<>> /\ Last(sent).result = "wait"

Emitted(p, r) == sent' = Append(sent, [packet |-> p, result |-> r])
Answered(r)   == sent' = [sent EXCEPT ![Len(sent)].result = r]

\* ClientPollingTransport::emit: a POST of its own for every packet.
ClientEmit(p) ==
    /\ path = "post" /\ ~Waiting
    /\ Emitted(p, "wait")
    /\ UNCHANGED <<path, queue, body, pending, received, stream>>

PostBody == PollingBytes(ToData(Last(sent).packet))

RequestAcceptsPart(n) == n > HeadSize

\* parse_request_type: the one read of n bytes must hold the headers and the body.
RequestComplete(n) == n = HeadSize + Len(PostBody)

\* read_request_type, polling_post, write_stream.  A complete body goes to the reader
\* when there is room; the answer may be lost on its way back.
PostTaken(n) ==
    /\ RequestComplete(n)
    /\ Len(queue) < PollingBuffer
    /\ queue' = Append(queue, SubSeq(PostBody, 1, n - HeadSize))
    /\ \E r \in {"ok", "err"} : Answered(r)
    /\ UNCHANGED <<path, body, pending, received, stream>>

\* polling_post when the session is over: there is no handle, or nobody has its receiving
\* end; the body goes nowhere and the answer is the same.
PostIgnored(n) ==
    /\ RequestComplete(n) /\ stream # "open"
    /\ \E r \in {"ok", "err"} : Answered(r)
    /\ UNCHANGED <<path, queue, body, pending, received, stream>>

\* An incomplete request is answered 400.
PostRefused(n) ==
    /\ ~RequestComplete(n)
    /\ Answered("err")
    /\ UNCHANGED <<path, queue, body, pending, received, stream>>

ServerReads ==
    /\ Waiting
    /\ \E n \in 1..HeadSize + Len(PostBody) :
          n <= ReadSize /\ (PostTaken(n) \/ PostIgnored(n) \/ PostRefused(n))

ServerEmitUnbounded(p) ==
    /\ path = "get"
    /\ queue' = Append(queue, PollingBytes(ToData(p)))
    /\ Emitted(p, "ok")
    /\ UNCHANGED <<path, body, pending, received, stream>>

\* ServerPollingTransport::emit: into the channel a GET will empty.
ServerEmit(p) ==
    /\ path = "get" /\ Len(queue) < PollingBuffer
    /\ queue' = Append(queue, PollingBytes(ToData(p)))
    /\ Emitted(p, "ok")
    /\ UNCHANGED <<path, body, pending, received, stream>>

\* WebsocketTransport::emit: a text message has to be UTF-8.
WebsocketEmit(p) ==
    /\ path = "ws"
    /\ LET good == ToData(p).kind = "Binary" \/ IsUtf8(ToData(p).bytes)
       IN  /\ queue' = IF good THEN Append(queue, ToData(p)) ELSE queue
           /\ Emitted(p, IF good THEN "ok" ELSE "err")
    /\ UNCHANGED <<path, body, pending, received, stream>>

-----------------------------------------------------------------------------
(* The receiver: Socket::stream over the transport's stream *)

\* parse_payload of one item of the transport's stream; an error ends the stream.
Parse(bs) ==
    /\ pending' = TryPayload(bs)
    /\ stream' = IF TryPayload(bs) = <<>> THEN "failed" ELSE stream

Idle == stream = "open" /\ pending = <<>>

\* The server's reader takes the body of a POST, either end's a websocket message.
ReadQueue ==
    /\ path \in {"post", "ws"} /\ Idle /\ queue # <<>>
    /\ Parse(IF path = "ws" THEN WebsocketBytes(Head(queue)) ELSE Head(queue))
    /\ queue' = Tail(queue)
    /\ UNCHANGED <<path, sent, body, received>>

\* http_response: the empty line after the headers is written only with a body, and the
\* HTTP library reports an error when it is missing.
Framed(b) == b # <<>>

\* The client polls: polling_get empties the channel into one response.
GetAnswer ==
    /\ path = "get" /\ Idle /\ body = <<>> /\ queue # <<>>
    /\ body' = PollingPayload(queue)
    /\ stream' = IF Framed(body') THEN stream ELSE "failed"
    /\ queue' = <<>>
    /\ UNCHANGED <<path, sent, pending, received>>

\* The client's stream yields the body in the pieces it arrives in, and each piece is
\* parsed as a payload of its own.
ReadChunk ==
    /\ path = "get" /\ Idle /\ body # <<>>
    /\ \E n \in IF Len(body) <= ChunkSize THEN {Len(body)} ELSE 1..Len(body) :
          /\ Parse(SubSeq(body, 1, n))
          /\ body' = SubSeq(body, n + 1, Len(body))
    /\ UNCHANGED <<path, sent, queue, received>>

Yield ==
    /\ pending # <<>>
    /\ received' = Append(received, Head(pending))
    /\ pending' = Tail(pending)
    /\ UNCHANGED <<path, sent, queue, body, stream>>

\* The connection of a GET or the websocket breaks, or the session of the POSTs is closed;
\* what was on its way is gone.
ConnectionLost ==
    /\ Idle
    /\ stream' = "lost"
    /\ queue' = <<>> /\ body' = <<>>
    /\ UNCHANGED <<path, sent, pending, received>>

-----------------------------------------------------------------------------
Send == \E p \in Packets : Len(sent) < MaxSent
                             /\ (ClientEmit(p) \/ ServerEmit(p) \/ WebsocketEmit(p))
Receive == ReadQueue \/ GetAnswer \/ ReadChunk \/ Yield

Next == Send \/ ServerReads \/ Receive \/ ConnectionLost

Spec == Init /\ [][Next]_vars

\* The server serves its connections, and somebody polls the receiving stream.
FairSpec == Spec /\ WF_vars(ServerReads) /\ WF_vars(Receive)

-----------------------------------------------------------------------------
(* Properties *)

\* Every variable has its type: the channel of a polling transport stays within its
\* capacity, and only the last emit may still wait for its answer (ClientPollingTransport).
TypeOK ==
    /\ path \in Paths
    /\ Len(sent) <= MaxSent
    /\ \A i \in DOMAIN sent : /\ sent[i].packet \in Packets
                              /\ sent[i].result \in {"wait", "ok", "err"}
                              /\ sent[i].result = "wait" => path = "post" /\ i = Len(sent)
    /\ path # "ws" => Len(queue) <= PollingBuffer
    /\ \A i \in DOMAIN received : received[i].ptype \in PacketType
    /\ stream \in {"open", "lost", "failed"}

\* What a transport can carry, as the code stands: a Message has data, also one made of
\* a websocket's binary message; only base64 hides a separator, and the server's polling
\* transport encodes binary data twice and drops text that is not UTF-8.
Portable(p) ==
    LET binary == p.ptype = "MessageBinary" IN
    /\ p.ptype = "Message" \/ (binary /\ path = "ws") => p.data # <<>>
    /\ Contains(p.data, SEPARATOR) => binary /\ path = "post"
    /\ path = "get" => ~binary /\ IsUtf8(p.data)

\* All packets so far are portable and fit, all of them, in one piece of a response.
Sane == /\ \A i \in DOMAIN sent : Portable(sent[i].packet)
        /\ path = "get" =>
              Len(PollingPayload([i \in DOMAIN sent |-> PollingBytes(ToData(sent[i].packet))]))
                <= ChunkSize

Accepted == {i \in DOMAIN sent : sent[i].result = "ok"}

\* Some of the emits in order, those that returned Ok among them, and their packets as
\* they arrive.
Orders == {J \in BoundedSeq(DOMAIN sent, Len(sent)) :
             /\ \A j, k \in DOMAIN J : j < k => J[j] < J[k]
             /\ \A i \in Accepted : Contains(J, i)}

Arrival(p) == IF path = "ws" /\ p.ptype = "MessageBinary"
              THEN [p EXCEPT !.ptype = "Message"] ELSE p
Arriving(J) == [j \in DOMAIN J |-> Arrival(sent[J[j]].packet)]

\* What the receiving stream yields is what was emitted, in order, in whole packets and
\* none twice: every emit that returned Ok, and of the others (a POST cut off, refused or
\* unanswered) either the whole packet or nothing.
ArrivesAsSent == Sane => \E J \in Orders : IsPrefix(received, Arriving(J))

\* The stream is not ended by an error of its own making: portable packets never make up
\* a payload that does not parse, in whatever groups they are queued and polled.
NeverChokes == Sane => stream # "failed"

\* As long as the connection lasts, every packet whose emit returned Ok arrives.
AcceptedArrives ==
    <>[](Sane /\ stream = "open" => \E J \in Orders : received = Arriving(J))
=============================================================================
