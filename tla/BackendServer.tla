---------------------------- MODULE BackendServer ----------------------------
(***************************************************************************)
(* The native landing backend: the Swift actor that serves the operator    *)
(* protocol (BackendServer.handle) and the planning and flight tasks it    *)
(* starts.  Requests come one at a time; whenever an actor method awaits,  *)
(* the methods the tasks call may run before it resumes.                   *)
(*                                                                         *)
(* A task is named by the generation it was started under.  A kRPC adapter *)
(* is named by the configuration it was built with, because the adapter    *)
(* keeps that configuration's runway chart for its whole life.             *)
(***************************************************************************)
EXTENDS Naturals, Sequences

CONSTANTS
  Configurations,  \* mission configurations: the runways a client or planner picks
  NoConf,
  MaxGeneration    \* bound: how often the generation counter moves

ASSUME ServerAssumption ==
  /\ Configurations # {} /\ NoConf \notin Configurations
  /\ MaxGeneration \in Nat \ {0}

VARIABLES
  configuration, io, connection,      \* what is configured; the adapter; its report
  generation, preparing, engaged,
  phase, lastError,
  plan, planning, flight,             \* the stored plan; the two tasks, 0 if nil
  tasks,                              \* every task ever started, by generation
  req, hpc,                           \* the request in progress and where it is
  out                                 \* what the last step wrote to stdout

session == <<configuration, io, connection>>
handles == <<planning, flight>>
report == <<phase, lastError>>
handler == <<req, hpc>>
vars == <<session, generation, preparing, engaged, report, plan, handles, tasks,
          handler, out>>

Epochs == 1..MaxGeneration
NoTask == 0
Configs == Configurations \cup {NoConf}

NoPlan == [id |-> NoTask, conf |-> NoConf]
Plan == [id: 0..MaxGeneration, conf: Configs]

StopMethods == {"abort", "disconnect", "shutdown"}
ConfigurableMethods == {"updateConfiguration", "connect", "createPlan", "engage",
                        "engageReentry"}
Methods == ConfigurableMethods \cup StopMethods \cup {"saveCheckpoint", "getSnapshot"}

\* "flying" stands for every phase the runtimes report before they end.
Phases == {"Idle", "Planning", "Preparing", "flying", "Complete", "Abort", "Fault"}

TaskKinds == {"plan", "deorbit", "landing"}
TaskSteps == {"off", "prepare", "search", "release", "reconnect", "connect",
              "ready", "fly", "failed", "closing", "done"}
Task == [kind: TaskKinds, pc: TaskSteps, plan: Plan, bind: Configs]

HandlerSteps == {"idle", "configure", "closeOld", "dispatch", "connect", "save",
                 "stopping", "closing", "closed", "gone", "eof"}

Answers == {"ok", "error"}
Outputs == {<<>>, <<"snapshot">>, <<"ok">>} \cup {<<a, "snapshot">> : a \in Answers}

TypeOK ==
  /\ configuration \in Configurations
  /\ io \in Configs
  /\ connection \in {"connected", "disconnected"}
  /\ generation \in 0..MaxGeneration
  /\ preparing \in BOOLEAN /\ engaged \in BOOLEAN /\ lastError \in BOOLEAN
  /\ phase \in Phases
  /\ plan \in Plan
  /\ planning \in 0..MaxGeneration /\ flight \in 0..MaxGeneration
  /\ tasks \in [Epochs -> Task]
  /\ req \in [method: Methods, conf: Configs]
  /\ hpc \in HandlerSteps
  /\ out \in Outputs

(***************************************************************************)
(* The actor.                                                              *)
(***************************************************************************)
\* A method that has not reached an await keeps the actor to itself.
ActorHeld == hpc \in {"configure", "dispatch", "closed"}
Alive == hpc \notin {"gone", "eof"}

Publish == out' = <<"snapshot">>
Quiet == out' = <<>>

Succeed ==
  /\ lastError' = FALSE /\ hpc' = "idle" /\ out' = <<"ok", "snapshot">>

Fail ==
  /\ lastError' = TRUE /\ hpc' = "idle" /\ out' = <<"error", "snapshot">>

Busy == engaged \/ flight # NoTask \/ planning # NoTask \/ preparing

NewGeneration == generation' = generation + 1

Goto(e, s) == tasks' = [tasks EXCEPT ![e].pc = s]
Bind(e, s, c) == tasks' = [tasks EXCEPT ![e] = [@ EXCEPT !.pc = s, !.bind = c]]
Current(e) == e = generation

(***************************************************************************)
(* The request handler.                                                    *)
(***************************************************************************)
Refused(r) == r.method = "connect" /\ (engaged \/ preparing)

\* A request moves the generation twice at most; the bound is kept here so that
\* whatever is received can be carried out.
Receive(r) ==
  /\ hpc = "idle"
  /\ generation + 2 <= MaxGeneration
  /\ r.conf # NoConf => r.method \in ConfigurableMethods
  /\ r.method = "updateConfiguration" => r.conf # NoConf
  /\ req' = r
  /\ \/ /\ Refused(r) /\ Fail
     \/ /\ ~Refused(r)
        /\ hpc' = IF r.conf = NoConf THEN "dispatch" ELSE "configure"
        /\ Quiet /\ UNCHANGED lastError
  /\ UNCHANGED <<session, generation, preparing, engaged, phase, plan, handles, tasks>>

\* applyConfiguration: a change drops the plan and the adapter.
RejectConfiguration ==
  /\ hpc = "configure" /\ Busy
  /\ Fail
  /\ UNCHANGED <<session, generation, preparing, engaged, phase, plan, handles,
                 tasks, req>>

ApplyConfiguration ==
  /\ hpc = "configure" /\ ~Busy
  /\ configuration' = req.conf
  /\ \/ /\ req.conf = configuration
        /\ hpc' = "dispatch" /\ UNCHANGED <<generation, plan>>
     \/ /\ req.conf # configuration
        /\ NewGeneration /\ plan' = NoPlan
        /\ hpc' = IF io = NoConf THEN "dispatch" ELSE "closeOld"
  /\ Quiet
  /\ UNCHANGED <<io, connection, preparing, engaged, report, handles, tasks, req>>

CloseOldAdapter ==
  /\ hpc = "closeOld"
  /\ io' = NoConf /\ connection' = "disconnected"
  /\ hpc' = "dispatch" /\ Quiet
  /\ UNCHANGED <<configuration, generation, preparing, engaged, report, plan,
                 handles, tasks, req>>

\* Methods that only had to apply a configuration, or nothing at all.
AnswerAtOnce ==
  /\ hpc = "dispatch"
  /\ \/ req.method \in {"updateConfiguration", "getSnapshot"}
     \/ req.method = "connect" /\ io # NoConf
  /\ Succeed
  /\ UNCHANGED <<session, generation, preparing, engaged, phase, plan, handles,
                 tasks, req>>

\* connectIfNeeded builds the adapter before it waits for the connection.
Connect ==
  /\ hpc = "dispatch" /\ req.method = "connect" /\ io = NoConf
  /\ req' = [req EXCEPT !.conf = configuration]
  /\ hpc' = "connect" /\ Quiet
  /\ UNCHANGED <<session, generation, preparing, engaged, report, plan, handles, tasks>>

Connected ==
  /\ hpc = "connect"
  /\ \/ io' = req.conf /\ connection' = "connected" /\ Succeed
     \/ Fail /\ UNCHANGED <<io, connection>>
  /\ UNCHANGED <<configuration, generation, preparing, engaged, phase, plan,
                 handles, tasks, req>>

SaveCheckpoint ==
  /\ hpc = "dispatch" /\ req.method = "saveCheckpoint"
  /\ \/ /\ engaged \/ preparing \/ io = NoConf
        /\ Fail
     \/ /\ ~engaged /\ ~preparing /\ io # NoConf
        /\ hpc' = "save" /\ Quiet /\ UNCHANGED lastError
  /\ UNCHANGED <<session, generation, preparing, engaged, phase, plan, handles,
                 tasks, req>>

CheckpointSaved ==
  /\ hpc = "save"
  /\ Succeed \/ Fail
  /\ UNCHANGED <<session, generation, preparing, engaged, phase, plan, handles,
                 tasks, req>>

Start(kind, p) ==
  /\ NewGeneration
  /\ tasks' = [tasks EXCEPT ![generation + 1] =
                 [kind |-> kind, pc |-> "prepare", plan |-> p, bind |-> NoConf]]
  /\ preparing' = TRUE
  /\ Succeed

\* The plan of an earlier search stays until this one replaces it.
StartPlanning ==
  /\ hpc = "dispatch" /\ req.method = "createPlan" /\ ~Busy
  /\ Start("plan", NoPlan)
  /\ planning' = generation + 1 /\ phase' = "Planning"
  /\ UNCHANGED <<session, engaged, plan, flight, req>>

\* Mutation of EngageDeorbit: the plan's configuration is not compared.
EngageAnyPlan ==
  /\ hpc = "dispatch" /\ req.method = "engage" /\ ~Busy
  /\ plan # NoPlan
  /\ Start("deorbit", plan)
  /\ flight' = generation + 1 /\ phase' = "Preparing"
  /\ UNCHANGED <<session, engaged, plan, planning, req>>

EngageDeorbit ==
  /\ hpc = "dispatch" /\ req.method = "engage" /\ ~Busy
  /\ plan # NoPlan /\ plan.conf = configuration
  /\ Start("deorbit", plan)
  /\ flight' = generation + 1 /\ phase' = "Preparing"
  /\ UNCHANGED <<session, engaged, plan, planning, req>>

EngageLanding ==
  /\ hpc = "dispatch" /\ req.method = "engageReentry" /\ ~Busy
  /\ Start("landing", NoPlan)
  /\ flight' = generation + 1 /\ phase' = "Preparing"
  /\ UNCHANGED <<session, engaged, plan, planning, req>>

\* requireIdle, the check of the stored plan, or its authorization.
RejectStart ==
  /\ hpc = "dispatch"
  /\ \/ req.method \in {"createPlan", "engage", "engageReentry"} /\ Busy
     \/ req.method = "engage"
  /\ Fail
  /\ UNCHANGED <<session, generation, preparing, engaged, phase, plan, handles,
                 tasks, req>>

\* Mutation of StopAll: the running tasks keep their generation.
StopWithoutCancel ==
  /\ hpc = "dispatch" /\ req.method \in StopMethods
  /\ hpc' = "stopping" /\ Quiet
  /\ UNCHANGED <<session, generation, preparing, engaged, report, plan, handles,
                 tasks, req>>

\* stopAll: cancel both tasks, then wait until they have returned.
StopAll ==
  /\ hpc = "dispatch" /\ req.method \in StopMethods
  /\ NewGeneration
  /\ hpc' = "stopping" /\ Quiet
  /\ UNCHANGED <<session, preparing, engaged, report, plan, handles, tasks, req>>

Returned(e) == e # NoTask => tasks[e].pc = "done"

\* Mutation of TasksStopped: only the planning task is awaited.
FlightNotAwaited ==
  /\ hpc = "stopping"
  /\ Returned(planning)
  /\ planning' = NoTask /\ flight' = NoTask
  /\ preparing' = FALSE /\ engaged' = FALSE
  /\ hpc' = IF io = NoConf THEN "closed" ELSE "closing"
  /\ Quiet
  /\ UNCHANGED <<session, generation, report, plan, tasks, req>>

TasksStopped ==
  /\ hpc = "stopping"
  /\ Returned(planning) /\ Returned(flight)
  /\ planning' = NoTask /\ flight' = NoTask
  /\ preparing' = FALSE /\ engaged' = FALSE
  /\ hpc' = IF io = NoConf THEN "closed" ELSE "closing"
  /\ Quiet
  /\ UNCHANGED <<session, generation, report, plan, tasks, req>>

\* The adapter's shutdown, then what the method does after stopAll.
Stopped ==
  /\ hpc \in {"closing", "closed"}
  /\ io' = NoConf /\ connection' = "disconnected"
  /\ \/ /\ req.method = "shutdown"
        /\ hpc' = "gone" /\ out' = <<"ok">> /\ UNCHANGED <<phase, lastError, plan>>
     \/ /\ req.method = "disconnect"
        /\ plan' = NoPlan /\ phase' = "Idle" /\ Succeed
     \/ /\ req.method = "abort"
        /\ phase' = "Abort" /\ Succeed /\ UNCHANGED plan
  /\ UNCHANGED <<configuration, generation, preparing, engaged, handles, tasks, req>>

\* readLine returns nil: the loop ends the process without stopAll.
EndOfInput ==
  /\ hpc = "idle"
  /\ hpc' = "eof" /\ Quiet
  /\ UNCHANGED <<session, generation, preparing, engaged, report, plan, handles,
                 tasks, req>>

(***************************************************************************)
(* Tasks.  A task runs outside the actor and hops onto it for each method; *)
(* every action is what one method does from one await to the next.        *)
(***************************************************************************)
AtStep(e, s) == Alive /\ ~ActorHeld /\ tasks[e].pc = s

Throw(e) == Goto(e, "failed") /\ Quiet

\* resolveHistoryAndRunway: the adapter is built if there is none, and built
\* anew if the other runway is selected.
Resolved ==
  \E c \in Configurations :
    /\ configuration' = c
    /\ \/ /\ c = configuration /\ io # NoConf
          /\ UNCHANGED <<io, connection>>
       \/ /\ c # configuration \/ io = NoConf
          /\ io' = c /\ connection' = "connected"

\* It may fail before it did anything, or with its adapter already closed.
Unresolved ==
  \/ UNCHANGED session
  \/ /\ configuration' \in Configurations \ {configuration}
     /\ io' = NoConf /\ UNCHANGED connection

PreparationThrows(e) ==
  /\ AtStep(e, "prepare") /\ tasks[e].kind # "deorbit"
  /\ Resolved \/ Unresolved
  /\ Throw(e)
  /\ UNCHANGED <<generation, preparing, engaged, report, plan, handles, handler>>

PlanningPrepared(e) ==
  /\ AtStep(e, "prepare") /\ tasks[e].kind = "plan" /\ Current(e)
  /\ Resolved
  /\ preparing' = FALSE
  /\ Goto(e, "search") /\ Quiet
  /\ UNCHANGED <<generation, engaged, report, plan, handles, handler>>

SearchProgress(e) ==
  /\ AtStep(e, "search") /\ Current(e)
  /\ Publish
  /\ UNCHANGED <<session, generation, preparing, engaged, report, plan, handles,
                 tasks, handler>>

SearchThrows(e) ==
  /\ AtStep(e, "search")
  /\ Throw(e)
  /\ UNCHANGED <<session, generation, preparing, engaged, report, plan, handles,
                 handler>>

\* The end of planningEnded; writing the plan's report file may fail.
StorePlan(e, c) ==
  /\ plan' = [id |-> e, conf |-> c]
  /\ phase' = "Idle" /\ lastError' \in {lastError, TRUE}
  /\ preparing' = FALSE
  /\ Goto(e, "done") /\ Publish

\* planningEnded with the runway of the session.
PlanFound(e) ==
  /\ AtStep(e, "search") /\ Current(e)
  /\ planning' = NoTask
  /\ StorePlan(e, configuration)
  /\ UNCHANGED <<session, generation, engaged, flight, handler>>

\* planningEnded with another runway: the adapter has to follow.
OtherRunwayFound(e, c) ==
  /\ AtStep(e, "search") /\ Current(e) /\ c # configuration
  /\ planning' = NoTask /\ preparing' = TRUE
  /\ configuration' = c
  /\ \/ /\ io # NoConf
        /\ io' = NoConf /\ connection' = "disconnected"
        /\ Goto(e, "release")
     \/ /\ io = NoConf
        /\ Bind(e, "reconnect", c)
        /\ UNCHANGED <<io, connection>>
  /\ Quiet
  /\ UNCHANGED <<generation, engaged, report, plan, flight, handler>>

OldAdapterReleased(e) ==
  /\ AtStep(e, "release")
  /\ \/ /\ ~Current(e)
        /\ Goto(e, "done") /\ Quiet /\ UNCHANGED <<preparing, report, plan>>
     \/ /\ Current(e) /\ io # NoConf
        /\ StorePlan(e, configuration)
     \/ /\ Current(e) /\ io = NoConf
        /\ Bind(e, "reconnect", configuration)
        /\ Quiet /\ UNCHANGED <<preparing, report, plan>>
  /\ UNCHANGED <<session, generation, engaged, handles, handler>>

\* connectIfNeeded stores the adapter before planningEnded looks at the
\* generation again.
Reconnected(e) ==
  /\ AtStep(e, "reconnect")
  /\ io' = tasks[e].bind /\ connection' = "connected"
  /\ \/ /\ Current(e)
        /\ StorePlan(e, configuration)
     \/ /\ ~Current(e)
        /\ Goto(e, "done") /\ Quiet /\ UNCHANGED <<preparing, report, plan>>
  /\ UNCHANGED <<configuration, generation, engaged, handles, handler>>

ReconnectFails(e) ==
  /\ AtStep(e, "reconnect")
  /\ \/ /\ Current(e)
        /\ preparing' = FALSE /\ phase' = "Fault" /\ lastError' = TRUE /\ Publish
     \/ /\ ~Current(e)
        /\ Quiet /\ UNCHANGED <<preparing, report>>
  /\ Goto(e, "done")
  /\ UNCHANGED <<session, generation, engaged, plan, handles, handler>>

(***************************************************************************)
(* Flights.                                                                *)
(***************************************************************************)
LandingResolved(e) ==
  /\ AtStep(e, "prepare") /\ tasks[e].kind = "landing" /\ Current(e)
  /\ Resolved
  /\ tasks' = [tasks EXCEPT ![e] = [kind |-> "landing", pc |-> "ready", bind |-> io',
                                    plan |-> [id |-> NoTask, conf |-> configuration']]]
  /\ Quiet
  /\ UNCHANGED <<generation, preparing, engaged, report, plan, handles, handler>>

DeorbitPrepares(e) ==
  /\ AtStep(e, "prepare") /\ tasks[e].kind = "deorbit"
  /\ \/ /\ io # NoConf
        /\ Bind(e, "ready", io)
     \/ /\ io = NoConf
        /\ Bind(e, "connect", configuration)
  /\ Quiet
  /\ UNCHANGED <<session, generation, preparing, engaged, report, plan, handles,
                 handler>>

DeorbitConnected(e) ==
  /\ AtStep(e, "connect")
  /\ \/ /\ io' = tasks[e].bind /\ connection' = "connected"
        /\ Goto(e, "ready") /\ Quiet
     \/ Throw(e) /\ UNCHANGED <<io, connection>>
  /\ UNCHANGED <<configuration, generation, preparing, engaged, report, plan,
                 handles, handler>>

\* Cancelled, superseded, or the recorder or the vehicle refuses.
ArmingThrows(e) ==
  /\ AtStep(e, "ready")
  /\ Throw(e)
  /\ UNCHANGED <<session, generation, preparing, engaged, report, plan, handles,
                 handler>>

\* Mutation of TakeControl: the generation is not compared once armed.
TakeControlLate(e) ==
  /\ AtStep(e, "ready")
  /\ preparing' = FALSE /\ engaged' = TRUE
  /\ Goto(e, "fly")
  /\ \/ tasks[e].kind = "deorbit" /\ Quiet /\ UNCHANGED phase
     \/ tasks[e].kind = "landing" /\ Publish /\ phase' = "flying"
  /\ UNCHANGED <<session, generation, lastError, plan, handles, handler>>

\* Only the landing tells the operator that it has taken over.
TakeControl(e) ==
  /\ AtStep(e, "ready") /\ Current(e)
  /\ preparing' = FALSE /\ engaged' = TRUE
  /\ Goto(e, "fly")
  /\ \/ tasks[e].kind = "deorbit" /\ Quiet /\ UNCHANGED phase
     \/ tasks[e].kind = "landing" /\ Publish /\ phase' = "flying"
  /\ UNCHANGED <<session, generation, lastError, plan, handles, handler>>

\* The recorder's report carries no generation; a runtime that has reported the
\* stop on the runway returns, and no live guidance reports an abort.
Observe(e) ==
  /\ AtStep(e, "fly") /\ phase # "Complete"
  /\ phase' \in {"flying", "Complete"}
  /\ Publish
  /\ UNCHANGED <<session, generation, preparing, engaged, lastError, plan, handles,
                 tasks, handler>>

RuntimeThrows(e) ==
  /\ AtStep(e, "fly")
  /\ Throw(e)
  /\ UNCHANGED <<session, generation, preparing, engaged, report, plan, handles,
                 handler>>

\* flightEnded of the current flight.
FlightOver(e, p) ==
  /\ engaged' = FALSE /\ flight' = NoTask
  /\ io' = NoConf /\ connection' = "disconnected"
  /\ phase' = p
  /\ Goto(e, "done") /\ Publish

RuntimeReturns(e) ==
  /\ AtStep(e, "fly")
  /\ \/ /\ Current(e)
        /\ \E p \in {"Complete", "Abort"} : FlightOver(e, p)
     \/ /\ ~Current(e)
        /\ Goto(e, "done") /\ Quiet
        /\ UNCHANGED <<engaged, flight, io, connection, phase>>
  /\ UNCHANGED <<configuration, generation, preparing, lastError, plan, planning,
                 handler>>

\* planningEnded without a result, or preparationFailed up to its await.
TaskFailed(e) ==
  /\ AtStep(e, "failed")
  /\ \/ /\ ~Current(e)
        /\ Goto(e, "done") /\ Quiet
        /\ UNCHANGED <<session, preparing, engaged, report, handles>>
     \/ /\ Current(e) /\ tasks[e].kind = "plan"
        /\ planning' = NoTask /\ preparing' = FALSE
        /\ phase' = "Fault" /\ lastError' = TRUE
        /\ Goto(e, "done") /\ Publish
        /\ UNCHANGED <<session, engaged, flight>>
     \/ /\ Current(e) /\ tasks[e].kind # "plan" /\ io # NoConf
        /\ preparing' = FALSE
        /\ Goto(e, "closing") /\ Quiet
        /\ UNCHANGED <<session, engaged, report, handles>>
     \/ /\ Current(e) /\ tasks[e].kind # "plan" /\ io = NoConf
        /\ preparing' = FALSE
        /\ FlightOver(e, "Fault") /\ lastError' = TRUE
        /\ UNCHANGED <<configuration, planning>>
  /\ UNCHANGED <<generation, plan, handler>>

\* preparationFailed after the adapter's shutdown.
FailedFlightClosed(e) ==
  /\ AtStep(e, "closing")
  /\ \/ /\ Current(e)
        /\ FlightOver(e, "Fault") /\ lastError' = TRUE
     \/ /\ ~Current(e)
        /\ Goto(e, "done") /\ Quiet
        /\ UNCHANGED <<engaged, flight, io, connection, report>>
  /\ UNCHANGED <<configuration, generation, preparing, plan, planning, handler>>

Init ==
  /\ configuration \in Configurations
  /\ io = NoConf /\ connection = "disconnected"
  /\ generation = 0 /\ preparing = FALSE /\ engaged = FALSE
  /\ phase = "Idle" /\ lastError = FALSE
  /\ plan = NoPlan /\ planning = NoTask /\ flight = NoTask
  /\ tasks = [e \in Epochs |-> [kind |-> "plan", pc |-> "off", plan |-> NoPlan,
                                bind |-> NoConf]]
  /\ req = [method |-> "getSnapshot", conf |-> NoConf]
  /\ hpc = "idle" /\ out = <<>>

Requests == [method: Methods, conf: Configs]

Handler ==
  \/ RejectConfiguration \/ ApplyConfiguration \/ CloseOldAdapter \/ AnswerAtOnce
  \/ Connect \/ Connected \/ SaveCheckpoint \/ CheckpointSaved
  \/ StartPlanning \/ EngageDeorbit \/ EngageLanding \/ RejectStart
  \/ StopAll \/ TasksStopped \/ Stopped

PlanningStep(e) ==
  \/ PreparationThrows(e) \/ PlanningPrepared(e) \/ SearchThrows(e) \/ PlanFound(e)
  \/ \E c \in Configurations : OtherRunwayFound(e, c)
  \/ OldAdapterReleased(e) \/ Reconnected(e) \/ ReconnectFails(e)

FlightStep(e) ==
  \/ LandingResolved(e) \/ DeorbitPrepares(e) \/ DeorbitConnected(e)
  \/ ArmingThrows(e) \/ TakeControl(e) \/ TaskFailed(e) \/ FailedFlightClosed(e)

RuntimeStep(e) == Observe(e) \/ RuntimeThrows(e) \/ RuntimeReturns(e)

Next ==
  \/ \E r \in Requests : Receive(r)
  \/ EndOfInput
  \/ Handler
  \/ \E e \in Epochs :
       PlanningStep(e) \/ SearchProgress(e) \/ FlightStep(e) \/ RuntimeStep(e)

Spec == Init /\ [][Next]_vars

\* Every adapter call returns, a search ends by itself, and a cancelled runtime
\* returns; a flight that is not cancelled may go on.
Fairness ==
  /\ WF_vars(Handler)
  /\ \A e \in Epochs : /\ WF_vars(PlanningStep(e)) /\ WF_vars(FlightStep(e))
                        /\ WF_vars(RuntimeReturns(e) /\ ~Current(e))

FairSpec == Spec /\ Fairness

(***************************************************************************)
(* Safety.                                                                 *)
(***************************************************************************)
Flying(e) == tasks[e].pc = "fly"

\* Whatever flies is the flight the server answers for, and unless a stop is
\* waiting for it, of the current generation (generation guards of
\* BackendFlightActions.swift).
OnlyCurrentFlies ==
  \A e \in Epochs : Flying(e) => engaged /\ flight = e /\ (Current(e) \/ hpc = "stopping")

\* The configuration under a deorbit that flies is the one its plan was made
\* for (BackendServer.swift applyConfiguration, BackendFlightActions.swift
\* engageDeorbit).
FlownConfiguration ==
  \A e \in Epochs : Flying(e) => tasks[e].plan.conf = configuration

\* A process that answered "shutdown" has released the vehicle.
ReleasedOnExit == hpc = "gone" => ~engaged /\ \A e \in Epochs : ~Flying(e)

\* The adapter a flight commands uses the runway chart of what it flies.
AdapterMatchesFlight ==
  \A e \in Epochs : Flying(e) => tasks[e].bind = tasks[e].plan.conf

\* What the session is at, by its handles; a search that reconnects for another
\* runway holds none.
Doing ==
  IF flight # NoTask THEN IF engaged THEN "flying" ELSE "preparing"
  ELSE IF planning # NoTask \/ preparing THEN "planning" ELSE "nothing"

Life ==
  IF hpc = "stopping" THEN "stopping"
  ELSE IF hpc \in {"closing", "closed"} THEN "released"
  ELSE IF Alive THEN "serving" ELSE "over"

Flown == IF flight # NoTask /\ tasks[flight].kind = "deorbit" THEN tasks[flight].plan
                                                             ELSE NoPlan

\* The actor and its tasks implement the session: whatever awaits and callbacks
\* interleave, it is at one thing at a time, and a stop that was accepted is final
\* (BackendServer.stopAll, requireIdle, the generation guards).
Session == INSTANCE LandingSession WITH
  Plans <- Plan, life <- Life, doing <- Doing, stored <- plan, flown <- Flown, said <- phase

SessionKept == Session!Spec

(***************************************************************************)
(* Liveness, under FairSpec.                                               *)
(***************************************************************************)
\* Every request is answered, a stop only after the tasks it waits for.
RequestAnswered == (hpc \notin {"idle", "eof"}) ~> (hpc \in {"idle", "gone"})
=============================================================================
