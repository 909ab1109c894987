--------------------------- MODULE MCBackendServer ---------------------------
(* BackendServer for TLC: the runways are interchangeable. *)
EXTENDS BackendServer, TLC

AnyRunway == Permutations(Configurations)
=============================================================================
