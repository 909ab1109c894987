--------------------------- MODULE EntryPrediction ---------------------------
(***************************************************************************)
(* The predictor of a landing process (rust/landing): a thread that plans  *)
(* the rest of the entry, or forecasts the terminal area, from a copy of   *)
(* the guidance it takes under the controller's mutex.  It computes        *)
(* without the mutex, while the control thread goes on ticking and the     *)
(* operator goes on requesting, and then decides under the mutex whether   *)
(* its result still counts.  A fast simulation does not tick while a plan  *)
(* is due: the control thread then waits in a barrier.                     *)
(*                                                                         *)
(* Time is the universal time of the last sample, which in the game may go *)
(* back (a quickload).  Of the operator's requests (LandingController has  *)
(* them all) there remains what the predictor can see of them.             *)
(***************************************************************************)
EXTENDS Integers

CONSTANTS
  MaxUt,          \* bound: universal time of the samples
  Interval,       \* prediction_interval
  MaximumAge,     \* the age at which a forecast is too old
  MaxGeneration   \* bound: requests that bump prediction_generation

ASSUME PredictionAssumption ==
  /\ MaxUt \in Nat /\ Interval \in Nat \ {0} /\ MaximumAge \in Nat
  /\ MaxGeneration \in Nat

VARIABLES
  sim,         \* the session is the fast simulator
  stop,        \* how far a disconnect has come
  authority,   \* of the guidance: engaged, paused or none
  stage,       \* entry or terminal area, once reached; "before" until then
  phase,       \* the stage the guidance shows, an attitude recovery, or "other"
  generation,  \* prediction_generation
  ut,          \* latest_telemetry.ut
  needed,      \* entry_planning_needed
  supervised,  \* entry_supervision_ut
  request,     \* last_terminal_prediction_request_ut
  completion,  \* last_terminal_prediction_completion_ut
  cooldown,    \* what the last solve took, as a cooldown
  published,   \* cached_prediction_ut
  scales,      \* forecast_drag_scale, forecast_lift_scale: what they fit
  job,         \* what the predictor computes, if anything
  barrier,     \* what the control thread waits for, if anything
  meanwhile    \* history: what has come in since the job was taken

guidance == <<authority, stage, phase>>
entry == <<needed, supervised>>
cadence == <<request, completion, cooldown>>
vars == <<sim, stop, guidance, generation, ut, entry, cadence, published,
          scales, job, barrier, meanwhile>>

Never == -100    \* stands for -1e300 and for -infinity

Times == 0 .. MaxUt
Stages == {"before", "entry", "taem"}
Phases == {"entry", "taem", "recovery", "other"}
Events == {"intervention", "quickload", "recovery"}
Cooldowns == {Interval, Interval + 1}
Free == [on |-> FALSE]
Jobs == [on : {TRUE}, entry : BOOLEAN, ut : Times, phase : Phases,
         samePath : BOOLEAN, generation : 0 .. MaxGeneration]
Barriers == [on : {TRUE}, ut : Times, generation : 0 .. MaxGeneration]

Latest(a, b) == IF a >= b THEN a ELSE b

Anchor == Latest(request, completion)

(* async_prediction_request_due.  In the game the cooldown is counted in   *)
(* wall time, which passes on its own, and its length does not matter.     *)
RequestDue(at, anchor, done, cool) ==
  /\ at - anchor >= Interval
  /\ sim => at - done >= cool

(* terminal_prediction_worker: whether there is something to predict.  The  *)
(* marks of a final reversal, which it reads too, are never set.           *)
Wanted ==
  /\ authority = "engaged" /\ phase # "recovery"
  /\ stage = "taem" \/ (phase = "entry" /\ needed)

Init ==
  /\ sim \in BOOLEAN /\ stop = "no"
  /\ authority = "engaged" /\ stage = "before" /\ phase = "other"
  /\ generation = 0 /\ ut = 0
  /\ needed = FALSE /\ supervised = Never
  /\ request = Never /\ completion = Never /\ cooldown = Interval
  /\ published = Never /\ scales = "initial"
  /\ job = Free /\ barrier = Free /\ meanwhile = {}

(* What the step does is noted if a job is under way.                      *)
Notes(events) == meanwhile' = IF job.on THEN meanwhile \cup events ELSE {}

-----------------------------------------------------------------------------
(* The control thread.                                                     *)

(* Mutation of Outstanding: only a plan that is due is waited for.         *)
NeverOutstanding == FALSE

(* A request of the predictor has not been answered.                       *)
Outstanding == request > completion

(* control_thread, after the tick: a fast simulation waits while a plan is *)
(* being computed or is due.                                               *)
BarrierAfter ==
  IF /\ sim /\ authority' = "engaged"
     /\ phase' = "entry" /\ needed'
     /\ \/ Outstanding
        \/ RequestDue(ut', Anchor, completion, cooldown)
  THEN [on |-> TRUE, ut |-> ut', generation |-> generation]
  ELSE Free

(* A sample: the simulation goes on, the game may also go back.            *)
NextSample ==
  ut' \in IF sim THEN {t \in Times : t = ut + 1} ELSE Times

(* The sample is of a time before the last one: a quickload.               *)
Rewinds == ut' < ut
Quickload == IF Rewinds THEN {"quickload"} ELSE {}

(* An attitude recovery leads a fast simulation past a job: noted.         *)
Lifted == IF sim /\ phase' = "recovery" THEN {"recovery"} ELSE {}

(* What was fitted before a quickload belongs to a timeline it undid; the  *)
(* history of samples is cleared then (forecast_history_append), the       *)
(* scales are not.                                                         *)
ScalesAge ==
  scales' = IF Rewinds /\ scales = "fitted" THEN "undone" ELSE scales

(* guidance_abort resets the planning of the entry.                        *)
Forgotten == needed' = FALSE /\ supervised' = Never

(* The guidance asks for a plan when it cannot follow the one it has       *)
(* (entry_program_contract_hold) or when the interval has passed.          *)
Asks ==
  needed' \in {needed, TRUE}
    \cap (IF supervised = Never \/ ut' - supervised >= Interval
          THEN {TRUE} ELSE BOOLEAN)

Shown(s) ==
  CASE s = "before" -> {"other"}
    [] s = "entry" -> {"entry", "recovery"}
    [] s = "taem" -> {"taem", "recovery", "other"}

Ticks == stop = "no" /\ ~barrier.on /\ NextSample /\ ScalesAge

(* tick_locked of an engaged guidance.  Before the entry it forecasts in   *)
(* the tick (dynamic_prediction); while it recovers the attitude it        *)
(* neither follows nor asks for a plan.  What else makes up the identity   *)
(* of the path (its sequence number, turn and reversals) may change, and   *)
(* some of it back again.                                                  *)
TickGuides ==
  /\ Ticks /\ authority = "engaged"
  /\ stage' \in CASE stage = "before" -> {"before", "entry"}
                  [] stage = "entry" -> {"entry", "taem"}
                  [] stage = "taem" -> {"taem"}
  /\ phase' \in Shown(stage')
  /\ job' \in {job} \cup
       (IF job.on THEN {[job EXCEPT !.samePath = ~job.samePath]} ELSE {})
  /\ IF phase' = "entry" THEN Asks ELSE UNCHANGED needed
  /\ published' \in {published} \cup (IF stage = "before" THEN {ut'} ELSE {})
  /\ Notes(Quickload \cup Lifted)
  /\ UNCHANGED <<sim, stop, authority, generation, supervised, cadence>>
  /\ barrier' = BarrierAfter

(* The guidance aborts, or the tick fails.                                 *)
TickAborts ==
  /\ Ticks /\ authority = "engaged"
  /\ authority' = "none" /\ phase' = "other"
  /\ stage' = IF stage = "taem" THEN "entry" ELSE stage
  /\ Forgotten
  /\ Notes({"intervention"} \cup Quickload)
  /\ UNCHANGED <<sim, stop, generation, cadence, published, job,
                 barrier>>

(* Without authority a tick only takes a sample.                           *)
TickIdles ==
  /\ Ticks /\ authority # "engaged"
  /\ phase' = "other"
  /\ Notes(Quickload)
  /\ UNCHANGED <<sim, stop, authority, stage, generation, entry,
                 cadence, published, job, barrier>>

(* The control thread polls its barrier, without a limit of time.          *)
BarrierOver ==
  \/ stop # "no"
  \/ authority # "engaged" \/ phase # "entry"
  \/ generation # barrier.generation
  \/ completion >= barrier.ut

LeaveBarrier ==
  /\ barrier.on /\ BarrierOver
  /\ barrier' = Free
  /\ UNCHANGED <<sim, stop, guidance, generation, ut, entry, cadence,
                 published, scales, job, meanwhile>>

-----------------------------------------------------------------------------
(* The predictor.                                                          *)

(* Mutation of TimeWentBack: the cadence of the old timeline is kept.      *)
OldTimeline == FALSE

(* The samples have left the timeline of the last request.                 *)
TimeWentBack == ut < Anchor - 1

TakeJob ==
  /\ stop \in {"no", "control"} /\ ~job.on /\ Wanted
  /\ IF TimeWentBack
     THEN completion' = Never /\ cooldown' = Interval
     ELSE /\ RequestDue(ut, Anchor, completion, cooldown)
          /\ UNCHANGED <<completion, cooldown>>
  /\ request' = ut
  /\ job' = [on |-> TRUE, entry |-> phase = "entry", ut |-> ut,
             phase |-> phase, samePath |-> TRUE, generation |-> generation]
  /\ UNCHANGED <<sim, stop, guidance, generation, ut, entry, published,
                 scales, barrier, meanwhile>>

(* Mutation of Completed: the job is complete as of its request.           *)
CompletedAtRequest == IF ut >= job.ut - 1 THEN job.ut ELSE completion

(* A job counts as complete up to the sample it finds when it ends; one of *)
(* another timeline does not count.                                        *)
Completed == IF ut >= job.ut - 1 THEN Latest(job.ut, ut) ELSE completion

(* guidance_accept_entry_plan, after the tests of the worker itself.       *)
EntryCurrent ==
  /\ job.entry /\ stop \in {"no", "control"}
  /\ job.generation = generation
  /\ phase = job.phase /\ phase = "entry"
  /\ job.samePath
  /\ authority = "engaged"
  /\ ut >= job.ut

(* async_prediction_result_fresh: the same path, not from the future, not  *)
(* too old.                                                                *)
ForecastFresh ==
  /\ ~job.entry /\ stop \in {"no", "control"}
  /\ job.generation = generation
  /\ stage = "taem"
  /\ job.ut > published
  /\ phase = job.phase /\ job.samePath
  /\ ut >= job.ut /\ ut - job.ut <= MaximumAge

(* An entry job starts from the force scales in use, fits them to the      *)
(* flight it was taken from if the samples allow it, and writes them back  *)
(* whatever becomes of its plan.                                           *)
Fitted == IF "quickload" \in meanwhile THEN "undone" ELSE "fitted"

(* The result of a job: useful or not, it ends the job.                    *)
FinishJob ==
  /\ job.on
  /\ scales' \in {scales} \cup (IF job.entry THEN {Fitted} ELSE {})
  /\ completion' = Completed
  /\ cooldown' \in (IF sim THEN Cooldowns ELSE {Interval})
  /\ \/ /\ EntryCurrent
        /\ supervised' = job.ut /\ needed' = FALSE
        /\ published' \in {published} \cup
             (IF job.ut > published THEN {job.ut} ELSE {})
     \/ /\ ForecastFresh
        /\ published' = job.ut
        /\ UNCHANGED entry
     \/ UNCHANGED <<entry, published>>
  /\ job' = Free /\ meanwhile' = {}
  /\ UNCHANGED <<sim, stop, guidance, generation, ut, request, barrier>>

-----------------------------------------------------------------------------
(* The operator, in the main thread.                                       *)

(* Mutation of PauseBumps: the pause leaves the generation alone.          *)
PauseKeeps == UNCHANGED generation

Bump == generation < MaxGeneration /\ generation' = generation + 1
PauseBumps == Bump

(* landing_controller_set_paused: what runs meanwhile is outdated.         *)
SetPaused ==
  /\ stop = "no" /\ authority \in {"engaged", "paused"}
  /\ PauseBumps
  /\ IF authority = "engaged"
     THEN authority' = "paused" /\ phase' = "other"
     ELSE authority' = "engaged" /\ UNCHANGED phase
  /\ Notes({"intervention"})
  /\ UNCHANGED <<sim, stop, stage, ut, entry, cadence, published,
                 scales, job, barrier>>

(* landing_controller_abort.                                               *)
Abort ==
  /\ stop = "no" /\ Bump
  /\ authority' = "none" /\ phase' = "other"
  /\ stage' = IF stage = "taem" THEN "entry" ELSE stage
  /\ Forgotten
  /\ Notes({"intervention"})
  /\ UNCHANGED <<sim, stop, ut, cadence, published, scales, job,
                 barrier>>

(* landing_controller_engage; landing_controller_engage_reentry and the    *)
(* rehearsals start the guidance anew.                                     *)
Engage ==
  /\ stop = "no" /\ Bump
  /\ authority' = "engaged"
  /\ \/ phase' = (IF authority = "engaged" THEN phase ELSE "other")
        /\ UNCHANGED <<stage, entry, published>>
     \/ /\ stage' \in {"entry", "taem"} /\ phase' = stage'
        /\ Forgotten
        /\ published' \in {published} \cup
             (IF stage' = "entry" THEN {ut} ELSE {})
  /\ Notes({"intervention"})
  /\ UNCHANGED <<sim, stop, ut, cadence, scales, job, barrier>>

(* landing_controller_update_configuration.                                *)
UpdateConfiguration ==
  /\ stop = "no" /\ Bump
  /\ Notes({"intervention"})
  /\ UNCHANGED <<sim, stop, guidance, ut, entry, cadence, published,
                 scales, job, barrier>>

(* A disconnect: the control thread is stopped and joined, then the        *)
(* predictor, which finishes its job first.                                *)
Disconnect ==
  /\ stop = "no" /\ stop' = "control"
  /\ UNCHANGED <<sim, guidance, generation, ut, entry, cadence, published,
                 scales, job, barrier, meanwhile>>

ControlJoined ==
  /\ stop = "control" /\ ~barrier.on
  /\ stop' = "predictor"
  /\ UNCHANGED <<sim, guidance, generation, ut, entry, cadence, published,
                 scales, job, barrier, meanwhile>>

PredictorJoined ==
  /\ stop = "predictor" /\ ~job.on
  /\ stop' = "closed"
  /\ request' = Never /\ completion' = Never /\ cooldown' = Interval
  /\ UNCHANGED <<sim, guidance, generation, ut, entry, published, scales, job,
                 barrier, meanwhile>>

-----------------------------------------------------------------------------
ControlThread == TickGuides \/ TickAborts \/ TickIdles \/ LeaveBarrier
Predictor == TakeJob \/ FinishJob
Operator == SetPaused \/ Abort \/ Engage \/ UpdateConfiguration \/ Disconnect
Joins == ControlJoined \/ PredictorJoined

Next == ControlThread \/ Predictor \/ Operator \/ Joins

Spec == Init /\ [][Next]_vars

(* The two threads are scheduled, and every computation ends; that the     *)
(* simulation or the game goes on is not assumed.                          *)
Fairness ==
  /\ WF_vars(TakeJob) /\ WF_vars(FinishJob)
  /\ WF_vars(LeaveBarrier) /\ WF_vars(Joins)

FairSpec == Spec /\ Fairness

-----------------------------------------------------------------------------
(* Properties.                                                             *)

(* Every variable keeps its type.                                          *)
PredictionTypeOK ==
  /\ sim \in BOOLEAN /\ stop \in {"no", "control", "predictor", "closed"}
  /\ authority \in {"engaged", "paused", "none"}
  /\ stage \in Stages /\ phase \in Phases
  /\ generation \in 0 .. MaxGeneration
  /\ ut \in Times
  /\ needed \in BOOLEAN
  /\ {supervised, request, completion, published} \subseteq Times \cup {Never}
  /\ cooldown \in Cooldowns
  /\ scales \in {"initial", "fitted", "undone"}
  /\ job \in Jobs \cup {Free} /\ barrier \in Barriers \cup {Free}
  /\ meanwhile \subseteq Events

(* A plan is adopted or a forecast published only for the flight it was    *)
(* computed for: since the copy was taken nobody has paused, aborted,      *)
(* engaged or reconfigured it, not even to undo it at once.                *)
Adopts ==
  /\ job.on /\ ~job'.on
  /\ supervised' # supervised \/ published' # published
AdoptedUndisturbed == [][Adopts => "intervention" \notin meanwhile]_vars

(* What is adopted was computed from a sample the clock has reached.  A    *)
(* fast simulation moreover follows no plan of an outdated sample: it does *)
(* not tick past a plan under way, so that the plan it adopts is of this   *)
(* sample or the one before, unless an attitude recovery lifted the        *)
(* barrier.                                                                *)
AdoptedInTime ==
  [][Adopts =>
       /\ job.ut <= ut
       /\ sim /\ job.entry /\ "recovery" \notin meanwhile
            => ut <= job.ut + 1]_vars

(* What is adopted was computed on the timeline that is flown.  After a    *)
(* quickload the code only compares the clock, and adopts the result of    *)
(* the undone timeline once the new one has come as far: violated.         *)
AdoptedOnTimeline == [][Adopts => "quickload" \notin meanwhile]_vars

(* No job starts from force scales that were fitted to a timeline a        *)
(* quickload undid: violated, nothing resets them.                         *)
ScalesOfTimeline == [][~job.on /\ job'.on => scales # "undone"]_vars

(* A fast simulation never hangs: a barrier the control thread enters is   *)
(* left, although only the predictor can lift it and no timeout does.      *)
BarrierEnds == barrier.on ~> ~barrier.on

(* After a quickload the predictor is asked again for what the guidance    *)
(* wants, instead of waiting for the old timeline to be caught up with.    *)
RewindRecovers ==
  Wanted /\ ut < request - 1 ~> ut >= request - 1 \/ ~Wanted \/ stop # "no"
=============================================================================
