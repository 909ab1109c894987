-------------------------- MODULE LandingController --------------------------
(***************************************************************************)
(* The controller of one landing process (rust/landing): the main thread,  *)
(* which executes the operator's requests one after the other, and the     *)
(* control thread, which ticks.  Both work under the controller's mutex,   *)
(* so an action here is what one of them does from one lock to the next    *)
(* unlock; connect, disconnect and shutdown release the mutex in between   *)
(* and take several actions.  The two planning threads appear only as      *)
(* threads to be stopped; EntryPrediction has what they compute.        *)
(*                                                                         *)
(* A configuration is the part of it a deorbit plan depends on.  The       *)
(* guidance keeps its authority flags, the stage of the descent its        *)
(* latches have reached, and the phase it shows (an attitude recovery and  *)
(* the phases of the landing count as the phase of their stage).           *)
(***************************************************************************)
EXTENDS Naturals

CONSTANTS
  Configurations,    \* planning-relevant configurations
  NoConfiguration,   \* what a missing plan was made for
  MaxGeneration,     \* bound: requests that bump prediction_generation
  ReleaseMayFail,    \* whether krpc_safe may fail to reach the vessel
  ThreadMayFail      \* whether pthread_create may fail

ASSUME ControllerAssumption ==
  /\ Configurations # {} /\ NoConfiguration \notin Configurations
  /\ MaxGeneration \in Nat
  /\ ReleaseMayFail \in BOOLEAN
  /\ ThreadMayFail \in BOOLEAN

VARIABLES
  pc,          \* what the main thread does next
  op,          \* the request it executes in several steps
  session,     \* the open kRPC session, if any
  ctl,         \* the control thread
  stopThread,  \* stop_thread
  workers,     \* planning threads that run
  stopWorkers, \* stop_prediction_thread
  config,      \* configuration, as far as plans depend on it
  hasPlan,     \* has_plan
  planStale,   \* plan_stale
  planFor,     \* the configuration the plan was computed for
  hasLatest,   \* has_latest: a telemetry sample of this session
  guidance,    \* authority, stage and phase of the guidance machine
  calib,       \* glide.active: a calibration flies the vessel
  warpIssued,  \* time_warp_issued
  generation,  \* prediction_generation
  vessel       \* what the vessel was last told

lifecycle == <<pc, op, session, ctl, stopThread, workers, stopWorkers>>
plan == <<hasPlan, planStale, planFor>>
flight == <<guidance, calib, vessel, warpIssued>>
vars == <<lifecycle, config, plan, hasLatest, flight, generation>>

Operations == {"none", "connect", "disconnect", "shutdown"}
MainSteps == {"idle", "joining", "stopWorkers", "joinWorkers", "closing",
              "opening", "starting", "startWorkers", "ended"}
Threads == {"predictor", "planner"}
Stages == {"orbit", "interface", "entry", "taem"}
Phases == {"Idle", "Paused", "Abort", "Coast", "Interface", "Entry", "TAEM"}

Guidances == [engaged : BOOLEAN, paused : BOOLEAN, aborted : BOOLEAN,
              stage : Stages, phase : Phases]

PhaseOf == [orbit |-> "Coast", interface |-> "Interface", entry |-> "Entry",
            taem |-> "TAEM"]

(* Mutation of DropPlan: the plan is kept.                                 *)
KeepPlan == UNCHANGED plan

DropPlan == hasPlan' = FALSE /\ planStale' = FALSE /\ planFor' = NoConfiguration

(* guidance_machine_init.                                                  *)
MachineInit == [engaged |-> FALSE, paused |-> FALSE, aborted |-> FALSE,
                stage |-> "orbit", phase |-> "Idle"]

(* The executive of the terminal area is reset with the controllers; the   *)
(* latches of the burn and of the atmosphere are not.                      *)
ResetControllers(stage) == IF stage = "taem" THEN "entry" ELSE stage

(* guidance_set_engaged(true), guidance_set_engaged(false),                *)
(* guidance_set_paused, guidance_abort, guidance_reset_plan.               *)
Engaged(g) ==
  [g EXCEPT !.engaged = TRUE, !.aborted = FALSE, !.paused = FALSE,
            !.phase = IF @ \in {"Idle", "Paused", "Abort"} THEN "Coast" ELSE @]
Disengaged(g) ==
  [g EXCEPT !.engaged = FALSE, !.phase = "Idle", !.stage = ResetControllers(@)]
Paused(g, p) == [g EXCEPT !.paused = p, !.phase = IF p THEN "Paused" ELSE @]
Aborted(g) ==
  [engaged |-> FALSE, paused |-> FALSE, aborted |-> TRUE,
   stage |-> ResetControllers(g.stage), phase |-> "Abort"]
PlanReset(g) ==
  [g EXCEPT !.stage = "orbit", !.phase = IF g.engaged THEN "Coast" ELSE @]

(* guidance_initialize_reentry_continuation and guidance_begin_mm305_*.    *)
Continuation(stage) ==
  [MachineInit EXCEPT !.engaged = TRUE, !.stage = stage,
                      !.phase = PhaseOf[stage]]

(* krpc_safe.  It reports nothing: a release that was lost leaves the      *)
(* vessel as it was.                                                       *)
Safe ==
  vessel' \in IF ReleaseMayFail /\ vessel # "free" THEN {"free", "unreleased"}
              ELSE {"free"}
SafeIfConnected == IF session = "none" THEN UNCHANGED vessel ELSE Safe

Bump == generation < MaxGeneration /\ generation' = generation + 1

-----------------------------------------------------------------------------
Init ==
  /\ pc = "idle" /\ op = "none"
  /\ session = "none" /\ ctl = "none" /\ stopThread = FALSE
  /\ workers = {} /\ stopWorkers = FALSE
  /\ config \in Configurations
  /\ hasPlan = FALSE /\ planStale = FALSE /\ planFor = NoConfiguration
  /\ hasLatest = FALSE
  /\ guidance = MachineInit /\ calib = FALSE /\ warpIssued = FALSE
  /\ generation = 0 /\ vessel = "free"

-----------------------------------------------------------------------------
(* Connect, disconnect and shutdown.                                       *)

(* stop_thread sets the flag; the control thread is joined without a lock. *)
StopThread(o) ==
  /\ pc = "idle"
  /\ op' = o /\ pc' = "joining"
  /\ stopThread' = TRUE
  /\ UNCHANGED <<session, ctl, workers, stopWorkers, config, plan, hasLatest,
                 flight, generation>>

ThreadJoined ==
  /\ pc = "joining" /\ ctl \in {"none", "gone"}
  /\ pc' = "stopWorkers"
  /\ ctl' = "none" /\ stopThread' = FALSE
  /\ UNCHANGED <<op, session, workers, stopWorkers, config, plan, hasLatest,
                 flight, generation>>

(* stop_prediction_worker, up to the joins and after them.                 *)
(* Mutation of AllLeft: the planner is not joined.                         *)
PredictorLeft == "predictor" \notin workers

AllLeft == workers = {}

StopWorkers ==
  /\ pc = "stopWorkers"
  /\ pc' = "joinWorkers"
  /\ stopWorkers' = TRUE
  /\ SafeIfConnected
  /\ UNCHANGED <<op, session, ctl, stopThread, workers, config, plan,
                 hasLatest, guidance, calib, warpIssued, generation>>

WorkersJoined ==
  /\ pc = "joinWorkers" /\ AllLeft
  /\ pc' = "closing"
  /\ stopWorkers' = FALSE
  /\ UNCHANGED <<op, session, ctl, stopThread, workers, config, plan,
                 hasLatest, flight, generation>>

(* disconnect_locked: the session closes, which releases the vessel once   *)
(* more, and what belonged to it is dropped.                               *)
DisconnectLocked ==
  /\ pc = "closing"
  /\ pc' = CASE op = "connect" -> "opening"
             [] op = "disconnect" -> "idle"
             [] op = "shutdown" -> "ended"
  /\ op' = IF op = "connect" THEN op ELSE "none"
  /\ SafeIfConnected
  /\ session' = "none"
  /\ DropPlan
  /\ hasLatest' = FALSE
  /\ guidance' = MachineInit /\ calib' = FALSE /\ warpIssued' = FALSE
  /\ UNCHANGED <<ctl, stopThread, workers, stopWorkers, config, generation>>

(* landing_controller_connect opens the session without the lock; when it  *)
(* fails no thread is started.                                             *)
OpenSession ==
  /\ pc = "opening"
  /\ \/ /\ session' \in {"live", "sim"}
        /\ pc' = "starting"
        /\ guidance' = MachineInit /\ calib' = FALSE /\ warpIssued' = FALSE
        /\ UNCHANGED <<op, vessel>>
     \/ /\ pc' = "idle" /\ op' = "none"
        /\ UNCHANGED <<session, flight>>
  /\ UNCHANGED <<ctl, stopThread, workers, stopWorkers, config, plan,
                 hasLatest, generation>>

StartThread ==
  /\ pc = "starting"
  /\ pc' = "startWorkers"
  /\ stopThread' = FALSE
  /\ ctl' \in {"run"} \cup (IF ThreadMayFail THEN {"none"} ELSE {})
  /\ UNCHANGED <<op, session, workers, stopWorkers, config, plan, hasLatest,
                 flight, generation>>

(* start_prediction_worker: no planner without a predictor.                *)
StartWorkers ==
  /\ pc = "startWorkers"
  /\ pc' = "idle" /\ op' = "none"
  /\ stopWorkers' = FALSE
  /\ workers' \in {Threads}
                    \cup (IF ThreadMayFail THEN {{}, {"predictor"}} ELSE {})
  /\ UNCHANGED <<session, ctl, stopThread, config, plan, hasLatest, flight,
                 generation>>

-----------------------------------------------------------------------------
(* Requests that one lock covers.                                          *)

(* Mutation of Outdates: the plan that flies is not marked.                *)
OutdatesUnlessEngaged(c) == hasPlan /\ ~guidance.engaged /\ c # config

Outdates(c) == hasPlan /\ c # config

(* landing_controller_update_configuration.  The generation is bumped even *)
(* when nothing changes; an engaged plan goes stale and flies on.          *)
UpdateConfiguration(c) ==
  /\ pc = "idle"
  /\ Bump
  /\ config' = c
  /\ planStale' = (planStale \/ Outdates(c))
  /\ UNCHANGED <<lifecycle, hasPlan, planFor, hasLatest, flight>>

(* landing_controller_create_plan.  The search runs under the lock and is  *)
(* refused when the orbit lies in the atmosphere, as it does once the      *)
(* vessel has left the orbital stage.  A search without a result keeps the *)
(* old plan.                                                               *)
CreatePlan ==
  /\ pc = "idle" /\ session # "none" /\ ~calib
  /\ hasLatest' = TRUE
  /\ \/ /\ guidance.stage = "orbit" \/ ~guidance.engaged
        /\ hasPlan' = TRUE /\ planStale' = FALSE /\ planFor' = config
        /\ warpIssued' = FALSE
        /\ guidance' = PlanReset(guidance)
     \/ UNCHANGED <<plan, warpIssued, guidance>>
  /\ UNCHANGED <<lifecycle, config, calib, vessel, generation>>

(* Mutation of MayEngage: a calibration does not stand in the way.         *)
MayEngageInCalibration == hasPlan /\ ~planStale

(* landing_controller_engage.                                              *)
MayEngage == ~calib /\ hasPlan /\ ~planStale

Engage ==
  /\ pc = "idle"
  /\ Bump
  /\ \/ MayEngage /\ guidance' = Engaged(guidance)
     \/ UNCHANGED guidance     \* refused, or the burn window has passed
  /\ UNCHANGED <<lifecycle, config, plan, hasLatest, calib, vessel,
                 warpIssued>>

(* landing_controller_engage_reentry: the live state continues into the    *)
(* terminal area without a plan, or into the entry with a plan of its own; *)
(* a state that does not qualify changes only the snapshot.                *)
EngageReentry ==
  /\ pc = "idle"
  /\ Bump
  /\ \/ /\ session # "none" /\ ~calib
        /\ hasLatest' = TRUE /\ warpIssued' = TRUE
        /\ \/ /\ guidance' = Continuation("taem") /\ DropPlan
           \/ \E stage \in {"interface", "entry"} :
                /\ guidance' = Continuation(stage)
                /\ hasPlan' = TRUE /\ planStale' = FALSE /\ planFor' = config
     \/ UNCHANGED <<hasLatest, warpIssued, guidance, plan>>
  /\ UNCHANGED <<lifecycle, config, calib, vessel>>

(* landing_controller_engage_hac_test and landing_controller_              *)
(* engage_final_test: a rehearsal that starts in the terminal area.        *)
EngageTest ==
  /\ pc = "idle"
  /\ Bump
  /\ \/ /\ session # "none" /\ ~calib
        /\ hasLatest' = TRUE /\ warpIssued' = TRUE
        /\ guidance' = Continuation("taem") /\ DropPlan
     \/ UNCHANGED <<hasLatest, warpIssued, guidance, plan>>
  /\ UNCHANGED <<lifecycle, config, calib, vessel>>

(* landing_controller_start_calibration: refused while guidance is engaged *)
(* (paused or not) and before the first sample.                            *)
StartCalibration ==
  /\ pc = "idle" /\ session # "none"
  /\ ~guidance.engaged /\ hasLatest
  /\ guidance' = Disengaged(guidance)
  /\ calib' = TRUE
  /\ UNCHANGED <<lifecycle, config, plan, hasLatest, vessel, warpIssued,
                 generation>>

(* landing_controller_stop_calibration: applying the learned profile is a  *)
(* change of the configuration of its own.                                 *)
StopCalibration ==
  /\ pc = "idle"
  /\ calib' = FALSE
  /\ SafeIfConnected
  /\ \/ UNCHANGED <<config, planStale>>
     \/ config' \in Configurations /\ planStale' = (planStale \/ hasPlan)
  /\ UNCHANGED <<lifecycle, hasPlan, planFor, hasLatest, guidance, warpIssued,
                 generation>>

(* landing_controller_reset_calibration.                                   *)
ResetCalibration ==
  /\ pc = "idle"
  /\ calib' = FALSE
  /\ SafeIfConnected
  /\ UNCHANGED <<lifecycle, config, plan, hasLatest, guidance, warpIssued,
                 generation>>

(* Mutation of ReleaseWhenPaused: the vessel keeps its last command.       *)
PausedOnly(p) == UNCHANGED vessel

ReleaseWhenPaused(p) == IF p THEN SafeIfConnected ELSE UNCHANGED vessel

(* landing_controller_set_paused; it does not pause a calibration.         *)
SetPaused(p) ==
  /\ pc = "idle"
  /\ Bump
  /\ guidance' = Paused(guidance, p)
  /\ ReleaseWhenPaused(p)
  /\ UNCHANGED <<lifecycle, config, plan, hasLatest, calib, warpIssued>>

(* landing_controller_abort.                                               *)
Abort ==
  /\ pc = "idle"
  /\ Bump
  /\ guidance' = Aborted(guidance)
  /\ calib' = FALSE
  /\ SafeIfConnected
  /\ UNCHANGED <<lifecycle, config, plan, hasLatest, warpIssued>>

-----------------------------------------------------------------------------
(* The control thread.                                                     *)

Ticking == ctl = "run" /\ ~stopThread /\ session # "none"

(* What guidance_update makes of the stage (the coast and the burn are     *)
(* "orbit", everything after the handoff is "taem"); it ends in the phase  *)
(* the flags allow, or aborts: in the burn, or stopped on the ground.      *)
Later(stage) ==
  CASE stage = "orbit" -> {"orbit", "interface"}
    [] stage = "interface" -> {"interface", "entry"}
    [] stage = "entry" -> {"entry", "taem"}
    [] stage = "taem" -> {"taem"}

Updated(g) ==
  IF g.aborted THEN {[g EXCEPT !.phase = "Abort"]}
  ELSE IF ~g.engaged THEN {[g EXCEPT !.phase = "Idle"]}
  ELSE IF g.paused THEN {[g EXCEPT !.phase = "Paused"]}
  ELSE {[g EXCEPT !.stage = s, !.phase = PhaseOf[s]] : s \in Later(g.stage)}
       \cup (IF g.stage # "interface" THEN {Aborted(g)} ELSE {})

BeforeBurn == hasPlan /\ guidance.engaged /\ guidance.stage = "orbit"

(* A tick whose sample, command or warp fails, the command perhaps half    *)
(* applied: the vessel is released and the guidance aborted; the session   *)
(* and the plan stay.                                                      *)
TickFails ==
  /\ Ticking
  /\ vessel' \in {"free"} \cup (IF ReleaseMayFail THEN {"unreleased"} ELSE {})
  /\ guidance' = Aborted(guidance) /\ calib' = FALSE
  /\ \/ UNCHANGED <<hasLatest, planStale, warpIssued>>
     \/ /\ hasLatest' = TRUE
        /\ planStale' \in {planStale, planStale \/ BeforeBurn}
        /\ warpIssued' \in {warpIssued, warpIssued \/ BeforeBurn}
  /\ UNCHANGED <<lifecycle, config, hasPlan, planFor, generation>>

(* The adaptation of the flight model is closed while the guidance is      *)
(* aborted, which the start of a calibration does not end.                 *)
NominalLearning == ~guidance.aborted

(* A tick of a calibration: it commands the vessel, or it ends and         *)
(* releases it.                                                            *)
TickCalibrates ==
  /\ Ticking /\ calib
  /\ hasLatest' = TRUE
  /\ \/ vessel' = "commanded" /\ UNCHANGED calib
     \/ Safe /\ calib' = FALSE
  /\ guidance' \in IF calib' THEN {guidance} ELSE Updated(guidance)
  /\ UNCHANGED <<lifecycle, config, plan, warpIssued, generation>>

(* Mutation of ReleaseAgain: only the tick that aborts releases.           *)
ReleaseOnce == guidance'.phase = "Abort" /\ ~guidance.aborted

ReleaseAgain == guidance'.phase = "Abort"

(* A tick of the guidance.  Before the burn it aborts when the vessel no   *)
(* longer fits its plan, which goes stale; an aborted guidance releases    *)
(* the vessel at every tick.                                               *)
TickGuides ==
  /\ Ticking /\ ~calib
  /\ hasLatest' = TRUE
  /\ \/ guidance' \in Updated(guidance) /\ UNCHANGED planStale
     \/ /\ BeforeBurn
        /\ guidance' = Aborted(guidance) /\ planStale' = TRUE
  /\ IF ReleaseAgain THEN Safe
     ELSE IF guidance'.engaged /\ ~guidance'.paused
     THEN vessel' = "commanded"
     ELSE UNCHANGED vessel
  /\ UNCHANGED <<lifecycle, config, hasPlan, planFor, calib, warpIssued,
                 generation>>

(* The tick that warps to the burn: the vessel coasts uncontrolled while   *)
(* the lock is held; with no time left to warp nothing is sent.            *)
TickWarps ==
  /\ Ticking /\ ~calib
  /\ session = "live" /\ BeforeBurn /\ ~guidance.paused /\ ~warpIssued
  /\ guidance' = [guidance EXCEPT !.phase = "Coast"]
  /\ hasLatest' = TRUE /\ warpIssued' = TRUE
  /\ Safe \/ UNCHANGED vessel
  /\ UNCHANGED <<lifecycle, config, plan, calib, generation>>

(* Mutation of LeavesOnStop: not before the vessel is released.            *)
LeavesReleased == stopThread /\ vessel = "free"

(* The control thread leaves when it finds stop_thread set.                *)
LeavesOnStop == stopThread

ThreadLeaves ==
  /\ ctl = "run" /\ LeavesOnStop
  /\ ctl' = "gone"
  /\ UNCHANGED <<pc, op, session, stopThread, workers, stopWorkers, config,
                 plan, hasLatest, flight, generation>>

Tick == TickFails \/ TickCalibrates \/ TickGuides \/ TickWarps

(* A planning thread leaves when it finds stop_prediction_thread set.      *)
WorkerLeaves(w) ==
  /\ w \in workers /\ stopWorkers
  /\ workers' = workers \ {w}
  /\ UNCHANGED <<pc, op, session, ctl, stopThread, stopWorkers, config, plan,
                 hasLatest, flight, generation>>

-----------------------------------------------------------------------------
Requests ==
  \/ \E c \in Configurations : UpdateConfiguration(c)
  \/ CreatePlan
  \/ Engage \/ EngageReentry \/ EngageTest
  \/ StartCalibration \/ StopCalibration \/ ResetCalibration
  \/ \E p \in BOOLEAN : SetPaused(p)
  \/ Abort

Lifecycle ==
  \/ ThreadJoined \/ StopWorkers \/ WorkersJoined
  \/ DisconnectLocked \/ OpenSession \/ StartThread \/ StartWorkers

Next ==
  \/ \E o \in Operations \ {"none"} : StopThread(o)
  \/ Lifecycle
  \/ Requests
  \/ Tick \/ ThreadLeaves
  \/ \E w \in Threads : WorkerLeaves(w)

Spec == Init /\ [][Next]_vars

(* Every thread goes on while it can take its mutex, an opening session    *)
(* answers or fails, and the link is not down for ever: a release that is  *)
(* tried again and again reaches the vessel.                               *)
Fairness ==
  /\ WF_vars(Lifecycle)
  /\ WF_vars(ThreadLeaves)
  /\ \A w \in Threads : WF_vars(WorkerLeaves(w))
  /\ SF_vars(TickGuides /\ guidance.aborted /\ vessel' = "free")

FairSpec == Spec /\ Fairness

-----------------------------------------------------------------------------
(* Properties.                                                             *)

(* Every variable keeps its type.                                          *)
TypeOK ==
  /\ pc \in MainSteps /\ op \in Operations
  /\ session \in {"none", "live", "sim"}
  /\ ctl \in {"none", "run", "gone"} /\ stopThread \in BOOLEAN
  /\ workers \subseteq Threads /\ stopWorkers \in BOOLEAN
  /\ config \in Configurations
  /\ hasPlan \in BOOLEAN /\ planStale \in BOOLEAN
  /\ planFor \in Configurations \cup {NoConfiguration}
  /\ hasLatest \in BOOLEAN
  /\ guidance \in Guidances
  /\ calib \in BOOLEAN /\ warpIssued \in BOOLEAN
  /\ generation \in 0 .. MaxGeneration
  /\ vessel \in {"free", "commanded", "unreleased"}

(* The program holds the vessel only while a calibration or an engaged,    *)
(* unpaused guidance flies it.  Whatever takes the authority away (a       *)
(* pause, an abort, a fault, the end of a calibration, the end of the      *)
(* session) has also tried to release the vessel.                          *)
ControlReleased ==
  vessel = "commanded" => calib \/ (guidance.engaged /\ ~guidance.paused)

(* A calibration and an engaged guidance never fly together, although      *)
(* neither the start of one nor the start of the other stops its rival.    *)
CalibrationAlone == calib => ~guidance.engaged

(* A plan that may be engaged was computed for the present configuration,  *)
(* whichever of the updates, the calibrations and the continuations came   *)
(* in between.                                                             *)
PlanMatchesConfiguration == hasPlan /\ ~planStale => planFor = config

(* Nothing of a session outlives it: without a session there is no plan,   *)
(* no sample, no engaged guidance, no calibration, no commanded vessel.    *)
SessionOwnsState ==
  session = "none" =>
    /\ ~hasPlan /\ ~hasLatest /\ ~guidance.engaged /\ ~calib
    /\ vessel # "commanded"

(* What a calibration measures is learned: no sample is refused from its   *)
(* first tick to its last because of what the guidance did before.         *)
CalibrationLearns == calib => NominalLearning

(* The session, the master and the plan as VesselAuthority has them.       *)
Life ==
  CASE session = "none" -> "closed"
    [] session # "none"
         /\ pc \in {"joining", "stopWorkers", "joinWorkers", "closing"} -> "stopping"
    [] OTHER -> "open"

Master ==
  CASE calib /\ guidance.engaged -> "both"
    [] calib /\ ~guidance.engaged -> "calibration"
    [] ~calib /\ guidance.engaged /\ guidance.paused -> "paused"
    [] ~calib /\ guidance.engaged /\ ~guidance.paused -> "guidance"
    [] OTHER -> "nobody"

PlanState ==
  CASE ~hasPlan -> "none"
    [] hasPlan /\ ~planStale /\ planFor = config -> "current"
    [] OTHER -> "stale"

(* Every request, tick and closing, in whatever order they get the mutex,  *)
(* keeps to VesselAuthority: nobody takes the vessel from a calibration or *)
(* on an outdated plan, nobody gives it up unreleased without having       *)
(* tried, and nothing commands it once its session begins to close.        *)
Authority == INSTANCE VesselAuthority WITH
  life <- Life, master <- Master, plan <- PlanState, vessel <- vessel

AuthorityKept == Authority!Spec

(* A session is closed under no running thread: neither the control thread *)
(* nor a planning thread can meet a session that is gone.                  *)
ClosedWithoutThreads ==
  [][session # "none" /\ session' = "none" => ctl # "run" /\ workers = {}]_vars

(* An abort whose release was lost is repeated by the ticks until it       *)
(* reaches the vessel, or somebody takes over.                             *)
AbortReleases ==
  ctl = "run" /\ guidance.aborted ~>
    vessel = "free" \/ ~guidance.aborted \/ calib \/ ctl # "run"

(* A connect, a disconnect or a shutdown comes to its end, whatever the    *)
(* control thread and the planning threads were doing.                     *)
OperationEnds == pc # "idle" ~> pc \in {"idle", "ended"}
=============================================================================
