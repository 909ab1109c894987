----------------------------- MODULE MCKrpcClient -----------------------------
(* KrpcClient for TLC. *)
EXTENDS KrpcClient

Chosen == {1, 3}
=============================================================================
