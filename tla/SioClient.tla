------------------------------ MODULE SioClient ------------------------------
(***************************************************************************)
(* The reconnecting Socket.IO client: the poll task that reads the current *)
(* socket and replaces it when it fails, and the user's tasks, which emit  *)
(* and disconnect meanwhile.  They share `socket` and `connected`, each    *)
(* behind a tokio RwLock whose guards live across awaits.                  *)
(*                                                                         *)
(* Sockets are numbered in the order they are connected.                   *)
(***************************************************************************)
EXTENDS Naturals

CONSTANTS
    User,       \* tasks of the application
    MaxSocket,  \* bound: sockets connected; the last one does not fail
    Reconnect,  \* ClientBuilder.reconnect
    Limited,    \* is max_reconnect_attempts set?
    Limit       \* its value

ASSUME BoundAssumption  == MaxSocket \in Nat \ {0}
ASSUME OptionAssumption == Reconnect \in BOOLEAN /\ Limited \in BOOLEAN /\ Limit \in Nat

Poller == "poller"
Task   == User \cup {Poller}
Socket == 1..MaxSocket

ASSUME UserAssumption == Poller \notin User

VARIABLES
    socket,     \* Client.socket: the current one
    connected,  \* Client.connected
    link,       \* the transport of each socket: live, closing (one side has sent the
                \* engine's Close, nobody has closed the transport) or broken
    stream,     \* sockets whose packet stream is not over
    engineUp,   \* sockets whose engine is_connected
    open,       \* sockets whose is_connected flag is set
    attempts,   \* reconnect_attempts
    pc          \* where each task stands

vars == <<socket, connected, link, stream, engineUp, open, attempts, pc>>
state == <<link, stream, engineUp, open>>

At(t, l)   == pc[t] = l
Goto(t, l) == pc' = [pc EXCEPT ![t] = l]
IsOpen(g)  == link[g] \in {"live", "closing"}

\* Client::new and poll_callback.
Init ==
    /\ socket = 1 /\ connected = TRUE /\ attempts = 0
    /\ link = [g \in Socket |-> IF g = 1 THEN "live" ELSE "none"]
    /\ stream = {1} /\ engineUp = {1} /\ open = {1}
    /\ pc = [t \in Task |-> IF t = Poller THEN "poll" ELSE "idle"]

\* Guards: disconnect keeps the write guard of `connected` until it returns; emit,
\* disconnect_socket and poll_packet keep a read guard of `socket`.  A reader that
\* comes after a waiting writer waits too.
ConnectedFree  == \A u \in User : pc[u] \notin {"lock", "bye", "close"}
CanReadSocket  == ~At(Poller, "write")
CanWriteSocket == \A u \in User : pc[u] \notin {"bye", "close", "emit"}

\* The last socket fails only once the user has disconnected it (bound).
MayFail == socket < MaxSocket \/ ~connected

-----------------------------------------------------------------------------
(* disconnect_socket, for the user and for the poll task *)

Returned(t) == IF t = Poller THEN "next" ELSE "idle"

\* Socket::disconnect: the flag, then the Disconnect packet if the engine is up.
SendDisconnect(t) ==
    /\ At(t, "bye")
    /\ open' = open \ {socket}
    /\ Goto(t, IF socket \in engineUp /\ link[socket] = "live" THEN "close" ELSE Returned(t))
    /\ UNCHANGED <<socket, connected, link, stream, engineUp, attempts>>

\* RawSocket::disconnect: the engine's Close packet, which the transport survives; a
\* failed send leaves the engine's flag.
CloseEngine(t) ==
    /\ At(t, "close")
    /\ IF socket \in engineUp /\ link[socket] = "live"
       THEN /\ engineUp' = engineUp \ {socket}
            /\ link' = [link EXCEPT ![socket] = "closing"]
       ELSE UNCHANGED <<engineUp, link>>
    /\ Goto(t, Returned(t))
    /\ UNCHANGED <<socket, connected, stream, open, attempts>>

-----------------------------------------------------------------------------
(* The user *)

\* Client::disconnect, when it is not disconnected already.
Disconnect(u) ==
    /\ At(u, "idle") /\ ConnectedFree /\ connected
    /\ connected' = FALSE
    /\ Goto(u, "lock")
    /\ UNCHANGED <<socket, state, attempts>>

ReadSocket(u) ==
    /\ At(u, "lock") /\ CanReadSocket
    /\ Goto(u, "bye")
    /\ UNCHANGED <<socket, connected, state, attempts>>

\* Client::emit: the guard is kept while the packet is sent, or refused.
Emit(u) ==
    /\ At(u, "idle") /\ CanReadSocket
    /\ Goto(u, "emit")
    /\ UNCHANGED <<socket, connected, state, attempts>>

EmitReturns(u) ==
    /\ At(u, "emit")
    /\ Goto(u, "idle")
    /\ UNCHANGED <<socket, connected, state, attempts>>

-----------------------------------------------------------------------------
(* The server and the network *)

\* The transport is closed by the peer or lost.
Breaks ==
    /\ IsOpen(socket) /\ MayFail
    /\ link' = [link EXCEPT ![socket] = "broken"]
    /\ UNCHANGED <<socket, connected, stream, engineUp, open, attempts, pc>>

\* The engine's Close packet, read by the poll task, clears the engine's flag
\* (handle_close); the poll task reads on.
ServerCloses ==
    /\ At(Poller, "poll") /\ socket \in stream /\ link[socket] = "live" /\ MayFail
    /\ link' = [link EXCEPT ![socket] = "closing"]
    /\ engineUp' = engineUp \ {socket}
    /\ UNCHANGED <<socket, connected, stream, open, attempts, pc>>

-----------------------------------------------------------------------------
(* The poll task *)

\* A packet: Connect sets the socket's flag, Disconnect and ConnectError clear it.
PollPacket ==
    /\ At(Poller, "poll") /\ socket \in stream /\ IsOpen(socket)
    /\ open' \in {open, open \cup {socket}, open \ {socket}}
    /\ Goto(Poller, "check")
    /\ UNCHANGED <<socket, connected, link, stream, engineUp, attempts>>

PollLostKeeps ==
    /\ At(Poller, "poll") /\ socket \in stream /\ MayFail
    /\ stream' = stream \ {socket}
    /\ Goto(Poller, "next")
    /\ UNCHANGED <<socket, connected, link, engineUp, open, attempts>>

\* IncompleteResponseFromEngineIo: the connection is taken for lost, whether or not it
\* still can be written to.
PollLost ==
    /\ At(Poller, "poll") /\ socket \in stream /\ MayFail
    /\ stream' = stream \ {socket}
    /\ Goto(Poller, "bye")
    /\ UNCHANGED <<socket, connected, link, engineUp, open, attempts>>

\* Any other error, or the end of the stream, which then stays at its end.
PollEnds ==
    /\ At(Poller, "poll") /\ (socket \in stream => MayFail)
    /\ stream' = stream \ {socket}
    /\ Goto(Poller, "check")
    /\ UNCHANGED <<socket, connected, link, engineUp, open, attempts>>

PollChecksNothing ==
    /\ At(Poller, "check") /\ ConnectedFree
    /\ Goto(Poller, "poll")
    /\ UNCHANGED <<socket, connected, state, attempts>>

PollCheck ==
    /\ At(Poller, "check") /\ ConnectedFree
    /\ Goto(Poller, IF connected THEN "poll" ELSE "done")
    /\ UNCHANGED <<socket, connected, state, attempts>>

-----------------------------------------------------------------------------
(* reconnect and do_reconnect *)

GivesUpLate == ~Reconnect \/ (Limited /\ attempts > Limit + 1)

\* The number is compared before it is counted up: Limit + 1 attempts are made.
GivesUp == ~Reconnect \/ (Limited /\ attempts > Limit)

StopReconnect ==
    /\ At(Poller, "next") /\ GivesUp
    /\ attempts' = 0
    /\ Goto(Poller, "check")
    /\ UNCHANGED <<socket, connected, state>>

\* The attempt after its backoff; only a limit makes its number matter.
Attempt ==
    /\ At(Poller, "next") /\ ~GivesUp
    /\ attempts' = IF Limited THEN attempts + 1 ELSE attempts
    /\ Goto(Poller, "connect")
    /\ UNCHANGED <<socket, connected, state>>

\* connect_socket: a new engine session and its Connect packet.
ConnectOk ==
    /\ At(Poller, "connect") /\ socket < MaxSocket
    /\ LET g == socket + 1 IN
         /\ link' = [link EXCEPT ![g] = "live"]
         /\ stream' = stream \cup {g}
         /\ engineUp' = engineUp \cup {g}
         /\ open' = open \cup {g}
    /\ Goto(Poller, "write")
    /\ UNCHANGED <<socket, connected, attempts>>

ConnectErrStops ==
    /\ At(Poller, "connect")
    /\ Goto(Poller, "check")
    /\ UNCHANGED <<socket, connected, state, attempts>>

ConnectErr ==
    /\ At(Poller, "connect")
    /\ Goto(Poller, "next")
    /\ UNCHANGED <<socket, connected, state, attempts>>

InstallChecked ==
    /\ At(Poller, "write") /\ CanWriteSocket /\ ConnectedFree
    /\ socket' = socket + 1
    /\ attempts' = 0
    /\ Goto(Poller, "check")
    /\ UNCHANGED <<connected, state>>

\* The new socket replaces the old one, once nobody reads it.
Install ==
    /\ At(Poller, "write") /\ CanWriteSocket
    /\ socket' = socket + 1
    /\ attempts' = 0
    /\ Goto(Poller, "check")
    /\ UNCHANGED <<connected, state>>

-----------------------------------------------------------------------------
Hangup(t) == SendDisconnect(t) \/ CloseEngine(t)
Poll == \/ PollLost \/ PollEnds \/ PollCheck \/ Hangup(Poller)
        \/ StopReconnect \/ Attempt \/ Install
Next == \/ \E u \in User : Disconnect(u) \/ ReadSocket(u) \/ Hangup(u)
                             \/ Emit(u) \/ EmitReturns(u)
        \/ Breaks \/ ServerCloses \/ PollPacket \/ Poll \/ ConnectOk \/ ConnectErr

Spec == Init /\ [][Next]_vars

\* Tasks that can go on are polled, and the locks serve in order.  A broken transport ends
\* its stream, and a stream that is over says so at once; nothing makes the peer close a
\* transport after a Close packet.  A server that is asked again and again accepts.
Fairness ==
    /\ WF_vars(PollCheck \/ Hangup(Poller) \/ StopReconnect \/ Attempt \/ Install)
    /\ WF_vars((~IsOpen(socket) \/ socket \notin stream) /\ (PollLost \/ PollEnds))
    /\ WF_vars(ConnectOk \/ ConnectErr) /\ SF_vars(ConnectOk)
    /\ SF_vars(PollCheck) /\ SF_vars(Install)
    /\ \A u \in User : WF_vars(ReadSocket(u) \/ Hangup(u)) /\ WF_vars(EmitReturns(u))

FairSpec == Spec /\ Fairness

-----------------------------------------------------------------------------
(* Properties *)

\* Every variable has its type.
TypeOK ==
    /\ socket \in Socket /\ connected \in BOOLEAN
    /\ link \in [Socket -> {"none", "live", "closing", "broken"}]
    /\ stream \subseteq Socket /\ engineUp \subseteq Socket /\ open \subseteq Socket
    /\ attempts \in 0..(Limit + 1)
    /\ pc \in [Task -> {"idle", "lock", "bye", "close", "emit", "poll", "check",
                        "next", "connect", "write", "done"}]

\* The client has at most one working connection: a socket is replaced only after one side
\* has sent the engine's Close or its transport has broken (disconnect_socket before
\* reconnect).
OneConnection == \A g \in Socket : g < socket => link[g] # "live"

\* A transport that works has its engine's flag: a hangup that skips the Close packet
\* because the flag is cleared leaves no connection behind.
LiveIsUp == \A g \in Socket : link[g] = "live" => g \in engineUp

\* While the poll task looks for a new connection the old one does not work any more,
\* and a connection it has found is a socket of its own.
Abandoned ==
    /\ pc[Poller] \in {"next", "connect", "write"} => link[socket] # "live"
    /\ At(Poller, "write") => socket < MaxSocket

\* The invariant that every step keeps.
IInv == TypeOK /\ LiveIsUp /\ Abandoned /\ OneConnection

\* A lost connection is replaced, unless the user disconnects or, with a limit, as
\* many attempts and one more have been made (reconnect).
LostIsReplaced ==
    \A g \in Socket :
      At(Poller, "bye") /\ socket = g ~> \/ socket > g \/ ~connected
                                         \/ Limited /\ attempts = Limit + 1

\* disconnect returns, whatever the poll task is doing: the locks of `connected` and
\* `socket` are never waited for in a circle.
DisconnectReturns == \A u \in User : At(u, "lock") ~> At(u, "idle")

\* After disconnect the poll task comes to its end, also out of a reconnect, unless it waits
\* for ever for a packet from a transport that nobody closes: `connected` is looked at only
\* after a packet, an error or a reconnect (poll_callback), and disconnect only sends Close.
Waiting == At(Poller, "poll") /\ socket \in stream /\ IsOpen(socket)
PollerStops == ~connected ~> (At(Poller, "done") \/ []Waiting)

\* "Disconnects from the server [...]. This results in the underlying engine.io
\* transport to get closed as well": when the poll task has stopped after it, the
\* client has no working connection.
DisconnectIsFinal == At(Poller, "done") => link[socket] # "live"
=============================================================================
