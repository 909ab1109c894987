-------------------------- MODULE TerminalGuidance --------------------------
(***************************************************************************)
(* The end of a flight in the landing process (rust/landing): from the     *)
(* entry (MM304) through the terminal area (MM305) to the final approach.  *)
(* Two executives say who owns the vehicle: the entry executive completes  *)
(* and the terminal executive latches ownership in one handoff, and the    *)
(* terminal executive completes when it delivers the vehicle to the final  *)
(* approach.  What MM305 flies is a route that a planner thread computes   *)
(* without the mutex, for a copy of the guidance and of the numeric model  *)
(* it took under it; or the best route known when none is qualified in     *)
(* time; or the line to the runway; or, when so configured, a control law  *)
(* that needs no route.  Attitude recovery and every warning of the        *)
(* guidance drop what is flown, and the guidance goes on.                  *)
(*                                                                         *)
(* An action of the guidance is one tick under the mutex.  Aerodynamics    *)
(* and geometry are the choice of what the tests of the tick find.  Time   *)
(* is the universal time of the samples, which in the game may go back.    *)
(***************************************************************************)
EXTENDS Integers

CONSTANTS
  Transition,      \* the last phase of MM304: ENTRY_EXEC_PHASE_TRANSITION, 5
  MaxUt,           \* bound: universal time of the samples
  AdmissionAge,    \* MM305_ADMISSION_MAX_AGE_S
  RouteAge,        \* the age at which a planned route has expired
  MaxModel         \* bound: snapshots of the numeric model

ASSUME TerminalAssumption ==
  /\ Transition \in Nat \ {0}
  /\ MaxUt \in Nat /\ AdmissionAge \in Nat /\ RouteAge \in Nat
  /\ MaxModel \in Nat \ {0}

VARIABLES
  law,         \* configuration: taem_energy_law or taem_hac_law
  finalTest,   \* terminal_final_test_mode
  engaged,     \* the guidance is "on", "paused" or "off"
  phase,       \* of the guidance: "entry" (MM304), "taem" (MM305) or another
  ut,          \* latest_telemetry.ut
  model,       \* terminal_model.snapshot_id
  recovering,  \* attitude_recovery
  region,      \* terminal_region_entered
  entry,       \* EntryExecutive
  taem,        \* TaemExecutive
  route,       \* what MM305 flies
  acquired,    \* mm305_acquisition_route_valid
  line,        \* the control law is on its final line
  final,       \* final_approach_captured
  asked,       \* mm305_planning_needed with mm305_plan_request_ut
  admAsked,    \* mm305_admission_needed with mm305_admission_request_ut
  adm,         \* the last answer on admission
  job          \* what the planner thread computes, if anything

flown == <<route, acquired, line>>
guidance == <<finalTest, engaged, phase, recovering, region, entry, taem,
              flown, final, asked>>
admission == <<admAsked, adm>>
vars == <<law, guidance, ut, model, admission, job>>

Times == 0 .. MaxUt
Models == 1 .. MaxModel
Nobody == -1                 \* no request is open
Requests == Times \cup {Nobody}
Phases == {"entry", "taem", "other"}

Entries == [phase : 0 .. Transition, complete : BOOLEAN]
Taems == [owned : BOOLEAN, complete : BOOLEAN,
          phase : {"acquisition", "alignment", "intercept"}]
Routes == [committed : BOOLEAN, best : BOOLEAN, degraded : BOOLEAN,
           direct : BOOLEAN, exit : BOOLEAN, model : {0} \cup Models]

Answers == [valid : BOOLEAN, found : BOOLEAN, ut : Times, model : Models]
NoAnswer == [valid |-> FALSE, found |-> FALSE, ut |-> 0, model |-> 1]
Refused == [NoAnswer EXCEPT !.valid = TRUE]   \* of what sample, is not used
Found(u, m) == [valid |-> TRUE, found |-> TRUE, ut |-> u, model |-> m]

Jobs == [on : BOOLEAN, kind : {"plan", "admission"}, again : BOOLEAN,
         token : Times, ut : Times, model : Models, outdated : BOOLEAN]
Free == [on |-> FALSE, kind |-> "plan", again |-> FALSE, token |-> 0,
         ut |-> 0, model |-> 1, outdated |-> FALSE]
Job(k, request) == [Free EXCEPT !.on = TRUE, !.kind = k, !.token = request,
                                !.ut = ut, !.model = model]

(* EntryExecutive: 0 is not initialized, Transition the last phase.        *)
EntryReset == [phase |-> 0, complete |-> FALSE]
TaemReset == [owned |-> FALSE, phase |-> "acquisition", complete |-> FALSE]
NoRoute == [committed |-> FALSE, best |-> FALSE, degraded |-> FALSE,
            direct |-> FALSE, exit |-> FALSE, model |-> 0]

Init ==
  /\ law \in BOOLEAN /\ finalTest = FALSE
  /\ engaged = "on" /\ phase = "other"
  /\ ut = 0 /\ model = 1
  /\ recovering = FALSE /\ region = FALSE
  /\ entry = EntryReset /\ taem = TaemReset
  /\ route = NoRoute /\ acquired = FALSE /\ line = FALSE /\ final = FALSE
  /\ asked = Nobody /\ admAsked = Nobody /\ adm = NoAnswer
  /\ job = Free

-----------------------------------------------------------------------------
(* The executives.                                                         *)

(* entry_exec_update: initialized at the first sample (a continuation      *)
(* classifies the phase it finds), then one phase at most per tick.        *)
EntryUpdated(e) ==
  IF e.complete \/ e.phase = Transition THEN {e}
  ELSE {[e EXCEPT !.phase = p] :
          p \in IF e.phase = 0 THEN 1 .. Transition
              ELSE {e.phase, e.phase + 1}}

(* entry_exec_accept_taem_handoff and entry_exec_force_taem_handoff.       *)
EntryHandedOver == [phase |-> Transition, complete |-> TRUE]

(* taem_exec_initialize, through taem_exec_enter.                          *)
TaemEntered(t, classified) ==
  IF t.owned THEN t
  ELSE [owned |-> TRUE, phase |-> classified, complete |-> FALSE]

(* taem_exec_update for a live sample whose terminal contract is feasible  *)
(* or not: one phase per call, and none once it has completed.             *)
TaemUpdated(t, selected, intercept, ready, feasible) ==
  CASE t.complete -> t
    [] ~t.complete /\ t.phase = "acquisition" ->
         IF selected THEN [t EXCEPT !.phase = "alignment"] ELSE t
    [] ~t.complete /\ t.phase = "alignment" ->
         IF ~selected THEN [t EXCEPT !.phase = "acquisition"]
         ELSE IF intercept /\ feasible THEN [t EXCEPT !.phase = "intercept"]
         ELSE t
    [] ~t.complete /\ t.phase = "intercept" ->
         IF ~ready /\ ~selected THEN [t EXCEPT !.phase = "acquisition"]
         ELSE IF ready /\ feasible THEN [t EXCEPT !.complete = TRUE]
         ELSE t

(* taem_exec_deliver_low_energy.                                           *)
TaemDelivered(t) == [t EXCEPT !.phase = "intercept", !.complete = TRUE]

(* taem_exec_inputs_live_with_contract: what counts as a terminal path.    *)
Selected(r, l) ==
  finalTest \/ r.committed \/ (r.degraded /\ r.direct) \/ (law /\ l)

(* taem_exec_sync_with_contract before Final is captured.                  *)
TaemSynced(t, r, l, feasible) ==
  TaemUpdated(t, Selected(r, l), finalTest \/ (Selected(r, l) /\ r.exit),
              final, feasible)

-----------------------------------------------------------------------------
(* What is flown.                                                          *)

(* guidance_mm305_accept_plan with a qualified route.                      *)
Adopted(r, m) ==
  [committed |-> TRUE, best |-> FALSE, degraded |-> FALSE, direct |-> FALSE,
   exit |-> FALSE, model |-> m]

(* guidance_mm305_adopt_best_effort_route.                                 *)
BestEffort(r) ==
  [committed |-> TRUE, best |-> TRUE, degraded |-> FALSE, direct |-> FALSE,
   exit |-> FALSE, model |-> model]

(* The direct branch of taem_guidance_native.                              *)
Direct(r) ==
  [r EXCEPT !.committed = FALSE, !.degraded = TRUE, !.direct = TRUE]

(* The release of a route that the vehicle has left.                       *)
Released(r) ==
  [r EXCEPT !.committed = FALSE, !.best = FALSE, !.direct = FALSE]

(* terminal_invalidate_frozen_path.                                        *)
Invalidated(r) ==
  [r EXCEPT !.committed = FALSE, !.direct = FALSE, !.exit = FALSE, !.model = 0]

(* What terminal_warning_recovery leaves.                                  *)
Dropped(r) == [r EXCEPT !.committed = FALSE, !.direct = FALSE]

Exited(r) == [r EXCEPT !.exit = TRUE]

-----------------------------------------------------------------------------
(* How a tick ends: with a command for the route, or with a warning, which *)
(* drops the route (guidance_update_with_terminal_model turns every abort  *)
(* of the guidance into terminal_warning_recovery).                        *)

Flies(r, t, a, q, p) ==
  /\ route' = r /\ taem' = t /\ asked' = a /\ acquired' = q /\ phase' = p

Warned(r, t, a) ==
  \E p \in {"other", IF recovering' THEN "other"
                     ELSE IF region' THEN "taem" ELSE "entry"} :
    Flies(Dropped(r), t, a, FALSE, p)

FliesOrWarns(r, t, a, q, p) == Flies(r, t, a, q, p) \/ Warned(r, t, a)

(* Mutation of FinalStep: Final is captured once the executive intends to  *)
(* deliver.                                                                *)
FinalStepEarly(r, t, a, q) ==
  LET s == TaemSynced(t, r, line', TRUE) IN
  \/ UNCHANGED final /\ FliesOrWarns(r, t, a, q, "taem")
  \/ /\ final' = (final \/ s.phase = "intercept")
     /\ Flies(r, s, a, q, IF s.complete THEN "other" ELSE "taem")

(* terminal_final_test_guidance: the approach once Final is captured; till *)
(* then the runway line is held, for as long as the delivery contract can  *)
(* still be met, until the executive delivers under a feasible contract.   *)
FinalStep(r, t, a, q) ==
  IF final /\ t.complete
  THEN UNCHANGED final /\ FliesOrWarns(r, t, a, q, "other")
  ELSE \/ UNCHANGED final /\ FliesOrWarns(r, t, a, q, "taem")
       \/ LET s == TaemSynced(t, r, line', TRUE)
              d == TaemUpdated(s, Selected(r, line'), TRUE, TRUE, TRUE)
          IN \/ UNCHANGED final /\ Flies(r, s, a, q, "taem")
             \/ /\ ~final /\ s.phase = "intercept" /\ d.complete
                /\ final' = TRUE
                /\ Flies(r, d, a, q, "other")

(* A low-energy delivery (the terminal backstop, and the dwell of          *)
(* taem_law_final_handoff): Final takes over in the same tick.             *)
DeliverLowEnergy(r, t, a, q) ==
  /\ final' = TRUE
  /\ FliesOrWarns(Exited(r), TaemDelivered(t), a, q, "other")

(* taem_hac_law_guidance and taem_energy_law_guidance, with                *)
(* taem_law_final_handoff.                                                 *)
LawStep(r, t, a, q) ==
  /\ law /\ ~r.committed
  /\ line' \in BOOLEAN
  /\ \E feasible \in BOOLEAN :
       LET s == TaemSynced(t, r, line', feasible) IN
       \/ UNCHANGED final /\ Flies(r, s, a, q, "taem")
       \/ ~feasible /\ DeliverLowEnergy(r, s, a, q)
       \/ /\ feasible
          /\ FinalStep(Exited(r), TaemSynced(s, Exited(r), line', TRUE), a, q)

(* taem_guidance_native on the line to the runway, on a route and on the   *)
(* acquisition of one.                                                     *)
DirectStep(r, t, a) ==
  \/ UNCHANGED final /\ Flies(Direct(r), t, a, FALSE, "taem")
  \/ FinalStep(Exited(Direct(r)), t, a, FALSE)

RouteStep(r, t, a, q) ==
  \/ \E b \in {a} \cup (IF ~r.best /\ a = Nobody THEN {ut'} ELSE {}) :
       UNCHANGED final /\ Flies(r, t, b, q, "taem")
  \/ \E c \in BOOLEAN :
       UNCHANGED final /\ Flies(Released(r), t, ut', c, "taem")
  \/ FinalStep(Exited(r), t, a, q)

AcquisitionStep(r, t, a) ==
  \E c \in BOOLEAN : UNCHANGED final /\ Flies(r, t, a, c, "taem")

PathStep(r, t, a, q) ==
  CASE r.degraded /\ ~r.best -> DirectStep(r, t, a)
    [] r.committed -> RouteStep(r, t, a, q)
    [] OTHER -> AcquisitionStep(r, t, a)

(* terminal_guidance from the backstop on: taem_guidance_native, p being   *)
(* the phase before.  Without a route, and without a law, a plan is asked  *)
(* for from time to time; a route of another model is a warning.           *)
NativeStep(r, t, a, q, p) ==
  \E b \in {a} \cup (IF ~r.committed /\ ~law /\ a = Nobody THEN {ut'} ELSE {}) :
    \/ UNCHANGED <<final, line>> /\ Warned(r, t, b)
    \/ t.owned /\ UNCHANGED line /\ DeliverLowEnergy(r, t, a, q)
    \/ /\ t.owned
       /\ r.committed => r.model = model
       /\ \/ LawStep(r, t, b, q)
          \/ /\ law => r.committed
             /\ UNCHANGED line
             /\ \/ PathStep(r, t, b, q)
                \/ /\ ~r.committed /\ q /\ p = "taem"
                   /\ PathStep(BestEffort(r), t, Nobody, FALSE)
                \/ ~r.committed /\ ~r.best /\ DirectStep(r, t, b)

-----------------------------------------------------------------------------
(* The entry and the handoff.                                              *)

(* guidance_mm305_admission_qualified: an answer that would do, or who     *)
(* asks for one; one that was refused is not asked for again at once.      *)
AdmissionFresh ==
  /\ adm.found /\ adm.model = model
  /\ ut' - adm.ut \in 0 .. AdmissionAge

AdmissionAsked ==
  IF AdmissionFresh \/ admAsked # Nobody THEN {admAsked}
  ELSE {ut'} \cup (IF adm.valid /\ ~adm.found THEN {Nobody} ELSE {})

(* Mutation of Admissions: an answer qualifies until it is too old.        *)
AdmissionsByAge ==
  {[ok |-> AdmissionFresh, adm |-> adm, asked |-> w] : w \in AdmissionAsked}

(* What the handoff goes by: the answer of this sample, or an earlier one  *)
(* that guidance_mm305_revalidate_admission repeats for this sample.       *)
Admissions ==
  IF adm.found /\ adm.model = model /\ adm.ut # ut'
  THEN {[ok |-> a.found, adm |-> a, asked |-> Nobody] :
          a \in {Refused, Found(ut', model)}}
  ELSE {[ok |-> AdmissionFresh, adm |-> adm, asked |-> w] :
          w \in AdmissionAsked}

(* guidance_mm305_adopt_admission_route does not ask for the age.          *)
Adoptable(w) == w.adm.found

(* MM304 goes on: it is too early, or MM305 does not qualify, or the       *)
(* handoff was undone (before_handoff is restored) since no route was      *)
(* adopted, which a control law at an unforced handoff comes to.           *)
MM304Keeps(r) ==
  /\ entry' \in EntryUpdated(entry)
  /\ Flies(r, taem, asked, acquired, "entry")
  /\ UNCHANGED <<region, line, final>>
  /\ \/ admAsked' = Nobody /\ UNCHANGED adm
     \/ \E w \in Admissions :
          /\ w.ok => ~Adoptable(w)
          /\ adm' = w.adm /\ admAsked' = w.asked
     \/ \E w \in Admissions :
          /\ law /\ entry'.phase = Transition /\ ~Adoptable(w)
          /\ adm' = w.adm /\ admAsked' = w.asked

(* Mutation of Handoff: what was begun is not undone when no route is      *)
(* adopted; the entry stays complete.                                      *)
HandoffHalf(r) ==
  \E w \in Admissions :
    /\ w.ok \/ law
    /\ entry' = EntryHandedOver
    /\ region' = Adoptable(w)
    /\ admAsked' = Nobody /\ adm' = w.adm
    /\ UNCHANGED <<line, final>>
    /\ Flies(Adopted(r, model),
             IF Adoptable(w) THEN TaemEntered(taem, "acquisition") ELSE taem,
             Nobody, FALSE, "taem")

(* At the physical boundary (forced), or in the transition with a ready    *)
(* terminal plan, MM305 takes over, and flies in the same tick.            *)
Handoff(r) ==
  \E w \in Admissions, e \in EntryUpdated(entry), forced \in BOOLEAN :
    /\ w.ok \/ law
    /\ forced \/ (e.phase = Transition /\ Adoptable(w))
    /\ entry' = EntryHandedOver
    /\ region' = TRUE
    /\ admAsked' = Nobody /\ adm' = w.adm
    /\ IF Adoptable(w) /\ ~r.best
       THEN NativeStep(Adopted(r, w.adm.model),
                       TaemEntered(taem, "acquisition"), Nobody, FALSE, "taem")
       ELSE NativeStep([NoRoute EXCEPT !.best = r.best],
                       TaemEntered(taem, "acquisition"),
                       IF law THEN Nobody ELSE ut', FALSE, "taem")

-----------------------------------------------------------------------------
(* The ticks.                                                              *)

Sampled == ut' \in Times /\ UNCHANGED <<law, finalTest, model, job>>
Guides == engaged = "on" /\ Sampled

(* terminal_guidance outside an attitude recovery.  When one has just      *)
(* ended, what was flown is dropped first.                                 *)
TickGuides ==
  /\ Guides /\ ~finalTest
  /\ recovering' = FALSE
  /\ LET r == IF recovering THEN Invalidated(route) ELSE route IN
     \/ /\ ~region /\ ~final
        /\ MM304Keeps(r) \/ Handoff(r)
     \/ /\ r.exit \/ final
        /\ UNCHANGED <<region, entry, line, admission>>
        /\ FinalStep(r, taem, asked, acquired)
     \/ /\ region /\ ~r.exit /\ ~final
        /\ UNCHANGED <<region, entry, admission>>
        /\ NativeStep(r, taem, asked, acquired, phase)
  /\ UNCHANGED engaged

(* The attitude is being recovered.                                        *)
TickRecovers ==
  /\ Guides /\ ~finalTest
  /\ recovering' = TRUE
  /\ UNCHANGED <<engaged, region, entry, line, final, admission>>
  /\ \E r \in CASE recovering -> {route}
                [] ~recovering /\ (route.committed \/ route.direct) ->
                     {Invalidated(route)}
                [] OTHER -> {route, Invalidated(route)} :
       FliesOrWarns(r, taem, asked, acquired, "other")

(* terminal_return_to_entry, open only outside the terminal area.          *)
TickReturns ==
  /\ Guides /\ ~finalTest
  /\ recovering /\ ~region /\ ~final
  /\ recovering' = FALSE
  /\ entry' \in EntryUpdated(entry)
  /\ Flies(Invalidated(route), taem, asked, acquired, "entry")
  /\ UNCHANGED <<engaged, region, line, final, admission>>

(* begin_final_test has the guidance of the final approach alone.          *)
TickFinalTest ==
  /\ Guides /\ finalTest
  /\ UNCHANGED <<engaged, recovering, region, entry, line, admission>>
  /\ FinalStep(route, taem, asked, acquired)

(* guidance_abort (reset_controllers).  The answer on admission stays.     *)
Disengaged ==
  /\ engaged' = "off" /\ phase' = "other"
  /\ recovering' = FALSE /\ region' = FALSE
  /\ entry' = EntryReset /\ taem' = TaemReset
  /\ route' = NoRoute /\ acquired' = FALSE /\ line' = FALSE /\ final' = FALSE
  /\ asked' = Nobody
  /\ UNCHANGED <<law, finalTest, model, admission>>

(* A warning when the vehicle stands on the ground ends the guidance.      *)
TickStops ==
  /\ engaged = "on" /\ region
  /\ ut' \in Times /\ Disengaged
  /\ UNCHANGED job

TickIdles ==
  /\ engaged # "on" /\ Sampled
  /\ UNCHANGED <<engaged, phase, recovering, region, entry, taem, flown, final,
                 asked, admission>>

-----------------------------------------------------------------------------
(* mm305_planner_worker.                                                   *)

TakePlan ==
  /\ ~job.on /\ engaged = "on" /\ phase = "taem" /\ asked # Nobody
  /\ \/ /\ job' = Job("plan", asked)
        /\ UNCHANGED asked
     \/ asked' = Nobody /\ UNCHANGED job    \* the request is not valid
  /\ UNCHANGED <<law, finalTest, engaged, phase, recovering, region, entry,
                 taem, flown, final, ut, model, admission>>

TakeAdmission ==
  /\ ~job.on /\ engaged = "on" /\ phase = "entry" /\ admAsked # Nobody
  /\ \/ /\ job' = Job("admission", admAsked)
        /\ UNCHANGED admAsked
     \/ admAsked' = Nobody /\ UNCHANGED job
  /\ UNCHANGED <<law, guidance, ut, model, adm>>

(* Nobody intervened, and the very request is still open.                  *)
PlanCurrent ==
  /\ ~job.outdated /\ phase = "taem" /\ asked = job.token /\ job.model = model

RouteFresh == ut - job.ut \in 0 .. RouteAge

(* A route that took too long is computed again, from the state of now,    *)
(* without the mutex.                                                      *)
Revalidate ==
  /\ job.on /\ job.kind = "plan" /\ ~job.again
  /\ PlanCurrent /\ ~RouteFresh
  /\ job' = [job EXCEPT !.again = TRUE, !.ut = ut]
  /\ UNCHANGED <<law, guidance, ut, model, admission>>

(* Mutation of AcceptPlan: a route computed again is taken to be fresh.    *)
AcceptRevalidated ==
  /\ RouteFresh \/ job.again
  /\ ~route.best /\ ~route.exit /\ ~final
  /\ asked' = Nobody
  /\ route' = Adopted(route, job.model) /\ acquired' = FALSE

(* guidance_mm305_accept_plan with a qualified route.                      *)
AcceptPlan ==
  /\ RouteFresh
  /\ ~route.best /\ ~route.exit /\ ~final
  /\ asked' = Nobody
  /\ route' = Adopted(route, job.model) /\ acquired' = FALSE

(* mm305_planning_job, once it has its result: it is adopted; or there is  *)
(* none, or it has expired again, which answers the request as well; or    *)
(* it is not accepted, while a best-effort route counts as followed.       *)
FinishPlan ==
  /\ job.on /\ job.kind = "plan"
  /\ \/ PlanCurrent /\ AcceptPlan
     \/ /\ PlanCurrent /\ (route.best => job.again /\ ~RouteFresh)
        /\ asked' = Nobody /\ UNCHANGED <<route, acquired>>
     \/ /\ PlanCurrent => route.best
        /\ UNCHANGED <<asked, route, acquired>>
  /\ job' = Free
  /\ UNCHANGED <<law, finalTest, engaged, phase, recovering, region, entry,
                 taem, line, final, ut, model, admission>>

(* guidance_mm305_admission_accept, in mm305_admission_job.                *)
FinishAdmission ==
  /\ job.on /\ job.kind = "admission"
  /\ IF /\ ~job.outdated /\ phase = "entry"
        /\ admAsked = job.token /\ job.model = model
     THEN /\ admAsked' = Nobody
          /\ adm' \in {Refused, Found(job.ut, job.model)}
     ELSE UNCHANGED admission
  /\ job' = Free
  /\ UNCHANGED <<law, guidance, ut, model>>

-----------------------------------------------------------------------------
(* The operator: what LandingController has in full.  Every request makes  *)
(* the result of the job under way outdated (prediction_generation): it    *)
(* goes on, and of what it computes nothing matters any more.              *)

Outdate ==
  job' = IF job.on THEN [Free EXCEPT !.on = TRUE, !.kind = job.kind,
                                     !.outdated = TRUE]
         ELSE job

SetPaused ==
  /\ engaged # "off" /\ Outdate
  /\ IF engaged = "on"
     THEN engaged' = "paused" /\ phase' = "other"
     ELSE engaged' = "on" /\ UNCHANGED phase
  /\ UNCHANGED <<law, finalTest, recovering, region, entry, taem, flown, final,
                 asked, ut, model, admission>>

Abort == Outdate /\ Disengaged /\ UNCHANGED ut

Engage ==
  /\ engaged # "on" /\ Outdate
  /\ engaged' = "on"
  /\ UNCHANGED <<law, finalTest, phase, recovering, region, entry, taem, flown,
                 final, asked, ut, model, admission>>

(* guidance_begin_mm305_restart, and begin_final_test for the test of the  *)
(* final approach: the guidance starts anew as the owner.                  *)
Begin ==
  /\ Outdate
  /\ engaged' = "on" /\ recovering' = FALSE /\ region' = TRUE
  /\ entry' = EntryReset
  /\ \/ /\ finalTest' = FALSE /\ phase' = "taem"
        /\ taem' = TaemEntered(TaemReset, "acquisition")
        /\ route' = NoRoute
     \/ /\ finalTest' = TRUE /\ phase' = "other"
        /\ taem' = TaemEntered(TaemReset, "alignment")
        /\ route' = Exited(NoRoute)
  /\ acquired' = FALSE /\ line' = FALSE /\ final' = FALSE
  /\ asked' = Nobody /\ admAsked' = Nobody /\ adm' = NoAnswer
  /\ UNCHANGED <<law, ut, model>>

(* The numeric model is captured anew.                                     *)
UpdateModel ==
  /\ model < MaxModel /\ model' = model + 1
  /\ Outdate
  /\ UNCHANGED <<law, guidance, ut, admission>>

-----------------------------------------------------------------------------
Tick == TickGuides \/ TickRecovers \/ TickReturns \/ TickFinalTest
        \/ TickStops \/ TickIdles
Planner == TakePlan \/ TakeAdmission \/ Revalidate \/ FinishPlan
           \/ FinishAdmission
Operator == SetPaused \/ Abort \/ Engage \/ Begin \/ UpdateModel

Next == Tick \/ Planner \/ Operator

Spec == Init /\ [][Next]_vars

-----------------------------------------------------------------------------
(* Properties.                                                             *)

(* Every variable keeps its type.                                          *)
TerminalTypeOK ==
  /\ law \in BOOLEAN /\ finalTest \in BOOLEAN /\ recovering \in BOOLEAN
  /\ region \in BOOLEAN /\ acquired \in BOOLEAN /\ line \in BOOLEAN
  /\ final \in BOOLEAN
  /\ engaged \in {"on", "paused", "off"}
  /\ phase \in Phases
  /\ ut \in Times /\ model \in Models
  /\ entry \in Entries /\ taem \in Taems /\ route \in Routes
  /\ asked \in Requests /\ admAsked \in Requests
  /\ adm \in Answers /\ job \in Jobs

(* The vehicle has one owner: MM305 from the tick it enters the terminal   *)
(* area on, and MM304 before; the entry is never complete without a        *)
(* successor, also when a handoff is undone half-way.                      *)
OneOwner ==
  /\ region <=> taem.owned
  /\ entry.complete => taem.owned

(* Final flies what MM305 has delivered, and all of it: neither a capture  *)
(* without a delivery, nor a delivery that Final does not take over.       *)
DeliveredToFinal == final <=> taem.complete

(* MM304 gives up a flight that depends on routes only when MM305 has one  *)
(* for this very sample and for the numeric model in use: an answer of an  *)
(* earlier sample, or of a model since replaced, does not do.              *)
HandoffQualified ==
  [][ ~taem.owned /\ taem'.owned /\ entry'.complete /\ ~law =>
        adm'.found /\ adm'.ut = ut' /\ adm'.model = model' ]_vars

(* The planner replaces what is flown only by a route for the state of     *)
(* now (at most RouteAge old, even if it had to be computed twice), for    *)
(* the model in use, while MM305 still flies to the final approach.        *)
RouteAdoptedFresh ==
  [][ job.on /\ ~job'.on /\ route' # route =>
        /\ ut - job.ut \in 0 .. RouteAge /\ route'.model = model
        /\ phase = "taem" /\ ~route.exit /\ ~final ]_vars

(* The code's message "Continuing bounded guidance while the rejected      *)
(* solution replans": a flight that needs a route and has none may still   *)
(* get one.                                                                *)
RejectedReplans ==
  region /\ ~law /\ ~final /\ ~Selected(route, line) => ~route.exit

(* The code's message "MM305 is following its best measured-state route".  *)
BestEffortFollowed == route.best => route.committed
=============================================================================
