---------------------------- MODULE VesselAuthority ----------------------------
(***************************************************************************)
(* Who may command the vessel, for somebody who knows nothing of threads   *)
(* and mutexes: one master at a time, who takes over from nobody, on a     *)
(* plan for the present configuration or on none; whoever gives the vessel *)
(* up has tried to release it; and once a session begins to close nothing  *)
(* is commanded any more.                                                  *)
(***************************************************************************)
VARIABLES
  life,    \* "closed", "open" or "stopping": the session
  master,  \* "nobody", "guidance", "paused" or "calibration"
  plan,    \* "none", "current" or "stale"
  vessel   \* "free", "commanded" or "unreleased": what it was told last

vars == <<life, master, plan, vessel>>

Init == life = "closed" /\ master = "nobody" /\ plan = "none" /\ vessel = "free"

\* The change of a configuration outdates a plan, which is never renewed by one.
MayOutdate == plan' = plan \/ (plan = "current" /\ plan' = "stale")

\* A release may be lost, and nobody is told.
TryRelease == vessel' = "free" \/ (vessel # "free" /\ vessel' = "unreleased")

(***************************************************************************)
(* The session.                                                            *)
(***************************************************************************)
Open == life = "closed" /\ life' = "open" /\ UNCHANGED <<master, plan, vessel>>

BeginClosing ==
  life = "open" /\ life' = "stopping" /\ UNCHANGED <<master, plan, vessel>>

\* It closes over a vessel that has been released, or was tried to be.
Close ==
  /\ life = "stopping" /\ life' = "closed"
  /\ vessel # "commanded" /\ TryRelease
  /\ master' = "nobody" /\ plan' = "none"

(***************************************************************************)
(* Who is master, and on which plan.                                       *)
(***************************************************************************)
Opened == life = "open" /\ UNCHANGED life

MakePlan ==
  /\ Opened /\ master # "calibration"
  /\ plan' = "current"
  /\ UNCHANGED <<master, vessel>>

OutdatePlan == Opened /\ MayOutdate /\ UNCHANGED <<master, vessel>>

TakeGuidance ==
  /\ Opened /\ master \in {"nobody", "guidance", "paused"}
  /\ master' = "guidance" /\ plan' \in {"none", "current"}
  /\ UNCHANGED vessel

\* What was engaged flies on, on the plan it has, however old that is by now.
Resume ==
  /\ Opened /\ master = "paused" /\ master' = "guidance"
  /\ UNCHANGED <<plan, vessel>>

Pause ==
  /\ Opened /\ master = "guidance" /\ master' = "paused"
  /\ TryRelease
  /\ UNCHANGED plan

TakeCalibration ==
  /\ Opened /\ master = "nobody" /\ master' = "calibration"
  /\ UNCHANGED <<plan, vessel>>

(***************************************************************************)
(* What the vessel is told.                                                *)
(***************************************************************************)
Command ==
  /\ Opened /\ master \in {"guidance", "calibration"}
  /\ vessel' = "commanded"
  /\ UNCHANGED <<master, plan>>

Release ==
  /\ life \in {"open", "stopping"} /\ UNCHANGED life
  /\ TryRelease
  /\ MayOutdate /\ UNCHANGED master

\* A command that fails half way leaves even a free vessel unreleased.
GiveUp ==
  /\ Opened /\ master' = "nobody"
  /\ vessel' \in {"free", "unreleased"}
  /\ MayOutdate

Next ==
  \/ Open \/ BeginClosing \/ Close
  \/ MakePlan \/ OutdatePlan
  \/ TakeGuidance \/ Resume \/ Pause \/ TakeCalibration
  \/ Command \/ Release \/ GiveUp

Spec == Init /\ [][Next]_vars
=============================================================================
