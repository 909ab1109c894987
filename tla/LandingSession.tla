--------------------------- MODULE LandingSession ---------------------------
(***************************************************************************)
(* What the landing backend promises whoever operates it: a session is at  *)
(* one thing at a time, what it flies is the plan that was stored when it  *)
(* was engaged, its reports are those of what it does, and once a stop is  *)
(* accepted nothing begins, nothing takes control and nothing is stored    *)
(* until everything is released.                                           *)
(***************************************************************************)
CONSTANTS Plans, NoPlan

VARIABLES
  life,    \* "serving", "stopping", "released" or "over"
  doing,   \* "nothing", "planning", "preparing" or "flying"
  stored,  \* the plan at hand
  flown,   \* the plan being prepared or flown; an entry has none
  said     \* the phase reported last

vars == <<life, doing, stored, flown, said>>

Init ==
  /\ life = "serving" /\ doing = "nothing"
  /\ stored = NoPlan /\ flown = NoPlan /\ said = "Idle"

(***************************************************************************)
(* While it serves.                                                        *)
(***************************************************************************)
Idle == life = "serving" /\ doing = "nothing"

Does(d) == doing' = d /\ UNCHANGED life

Search ==
  /\ Idle /\ Does("planning") /\ said' = "Planning"
  /\ UNCHANGED <<stored, flown>>

KeepPlan ==
  /\ life = "serving" /\ doing = "planning"
  /\ Does("nothing") /\ said' = "Idle"
  /\ stored' \in Plans \ {NoPlan}
  /\ UNCHANGED flown

GiveUp ==
  /\ life = "serving" /\ doing = "planning"
  /\ Does("nothing") /\ said' = "Fault"
  /\ UNCHANGED <<stored, flown>>

\* The stored plan belongs to another configuration than the one now chosen.
DropPlan ==
  /\ Idle
  /\ stored' = NoPlan
  /\ UNCHANGED <<life, doing, flown, said>>

Engage ==
  /\ Idle /\ Does("preparing") /\ said' = "Preparing"
  /\ flown' \in {stored, NoPlan}
  /\ UNCHANGED stored

TakeControl ==
  /\ life = "serving" /\ doing = "preparing"
  /\ Does("flying") /\ said' \in {said, "flying"}
  /\ UNCHANGED <<stored, flown>>

\* A flight goes on reporting until it has come to rest, or is released.
Report ==
  /\ life \in {"serving", "stopping"} /\ doing = "flying" /\ said # "Complete"
  /\ said' \in {"flying", "Complete"}
  /\ UNCHANGED <<life, doing, stored, flown>>

Finish ==
  /\ life = "serving" /\ doing = "flying"
  /\ Does("nothing") /\ said' \in {"Complete", "Abort"} /\ flown' = NoPlan
  /\ UNCHANGED stored

Fail ==
  /\ life = "serving" /\ doing \in {"preparing", "flying"}
  /\ Does("nothing") /\ said' = "Fault" /\ flown' = NoPlan
  /\ UNCHANGED stored

(***************************************************************************)
(* How it stops and ends.                                                  *)
(***************************************************************************)
AcceptStop ==
  /\ life = "serving" /\ life' = "stopping"
  /\ UNCHANGED <<doing, stored, flown, said>>

Release ==
  /\ life = "stopping" /\ life' = "released"
  /\ doing' = "nothing" /\ flown' = NoPlan
  /\ UNCHANGED <<stored, said>>

Resume ==
  /\ life = "released" /\ life' = "serving"
  /\ \/ said' = "Abort" /\ UNCHANGED stored
     \/ said' = "Idle" /\ stored' = NoPlan
  /\ UNCHANGED <<doing, flown>>

\* After a release; or at once, when nobody is left to ask for one.
Exit ==
  /\ life \in {"released", "serving"} /\ life' = "over"
  /\ UNCHANGED <<doing, stored, flown, said>>

Next ==
  \/ Search \/ KeepPlan \/ GiveUp \/ DropPlan
  \/ Engage \/ TakeControl \/ Report \/ Finish \/ Fail
  \/ AcceptStop \/ Release \/ Resume \/ Exit

Spec == Init /\ [][Next]_vars
=============================================================================
