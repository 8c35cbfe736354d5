--------------------------- MODULE MCSioCallbacks ---------------------------
(* Instances of SioCallbacks for TLC. *)
EXTENDS SioCallbacks

\* Messages and errors share a shard, the other events have one of their own.
MCShard == [e \in Event |-> IF e \in {"Message", "Error"} THEN 1 ELSE 2]
=============================================================================
