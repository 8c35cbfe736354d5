---------------------------- MODULE MCSioClient ----------------------------
(* Instances of SioClient for TLC. *)
EXTENDS SioClient
=============================================================================
