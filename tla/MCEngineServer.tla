--------------------------- MODULE MCEngineServer ---------------------------
(* Instances of EngineServer for TLC. *)
EXTENDS EngineServer, TLC

CONSTANTS s1, s2

\* All sessions share a shard of the DashMaps: the case in which guards block.
OneShard == [s \in Sid |-> 0]

Each(x)   == [s \in Sid |-> x]
First(x)  == [s \in Sid |-> IF s = s1 THEN x ELSE {}]
Nothing   == Each({})
Polling   == Each({"polling"})
Websocket == Each({"ws"})
MsgClose  == Each({"Msg", "Close"})
ByeMulti  == Each({"Bye", "Multi"})
FirstPolling == First({"polling"})
FirstCloses  == First({"Close"})

\* Two polling sessions in service: opened, announced and registered, their Connect
\* packets taken; the application has sent the second one's client a message or not.
InService ==
    /\ events = <<>>
    /\ told = Each("open")
    /\ sockets = Sid /\ handles = Sid /\ connected = Sid /\ wsUp = {}
    /\ transport = Each("polling") /\ generator = Each("polling")
    /\ holder = Each(NoTask) /\ missed = Each(0)
    /\ sendq \in {Each(<<>>), [s \in Sid |-> IF s = s2 THEN <<"Msg">> ELSE <<>>]}
    /\ recvq = Each(<<>>) /\ wsq = Each(<<>>)
    /\ pc = Each([t \in Task |-> CASE t = "ping"   -> "tick"
                                   [] t = "reader" -> "poll"
                                   [] t \in {"open", "timer"} -> "done"
                                   [] OTHER        -> Start(t)])
    /\ pkt = Each([t \in Emitters |-> "Msg"])

\* A session alone from its first request on, or beside one in service.
SharedSpec == (Init \/ InService) /\ [][Next]_vars /\ Fairness
=============================================================================
