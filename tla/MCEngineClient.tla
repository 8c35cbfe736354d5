--------------------------- MODULE MCEngineClient ---------------------------
(* Instance of EngineClient for TLC: every build function, servers with and without
   websockets. *)
EXTENDS EngineClient
=============================================================================
