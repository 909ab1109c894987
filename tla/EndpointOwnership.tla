-------------------------- MODULE EndpointOwnership --------------------------
(***************************************************************************)
(* What the lock on a kRPC endpoint promises: at most one mission          *)
(* controller holds the endpoint, and only the holder flies.               *)
(***************************************************************************)
CONSTANTS Controllers, Nobody

VARIABLES holder, flying

Init == holder = Nobody /\ flying = {}

Acquire(c) == holder = Nobody /\ holder' = c /\ UNCHANGED flying

Fly(c) == holder = c /\ flying' = {c} /\ UNCHANGED holder

Land(c) == c \in flying /\ flying' = {} /\ UNCHANGED holder

Release(c) == holder = c /\ holder' = Nobody /\ flying' = {}

Next == \E c \in Controllers : Acquire(c) \/ Fly(c) \/ Land(c) \/ Release(c)

Spec == Init /\ [][Next]_<<holder, flying>>
=============================================================================
