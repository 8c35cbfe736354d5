-------------------------- MODULE SessionLifecycle --------------------------
(***************************************************************************)
(* What the Engine.IO server promises the owner of its event channel about *)
(* each session: it is announced once, and only an announced session is    *)
(* reported closed, for good.                                              *)
(***************************************************************************)
CONSTANT Sid
VARIABLE state

Init == state = [s \in Sid |-> "new"]

Open(s) == state[s] = "new" /\ state' = [state EXCEPT ![s] = "open"]

Close(s) == state[s] = "open" /\ state' = [state EXCEPT ![s] = "closed"]

Next == \E s \in Sid : Open(s) \/ Close(s)

Spec == Init /\ [][Next]_state
=============================================================================
