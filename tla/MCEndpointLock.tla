---------------------------- MODULE MCEndpointLock ----------------------------
(* EndpointLock for TLC. *)
EXTENDS EndpointLock
=============================================================================
