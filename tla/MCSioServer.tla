---------------------------- MODULE MCSioServer ----------------------------
(* Instances of SioServer for TLC. *)
EXTENDS SioServer, TLC

\* Sessions are interchangeable; used where only safety is checked.
Sessions == Permutations(Esid)
=============================================================================
