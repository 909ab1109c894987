-------------------------- MODULE LandingLinkProofs --------------------------
(***************************************************************************)
(* What the backend server guarantees for any configurations and any number*)
(* of requests, and what a session of a landing program with it does.      *)
(*                                                                         *)
(* The server's argument is one of ownership: every task that can still act*)
(* is the one its handle names, the two handles are never held together,   *)
(* and a handle of an older generation means a stop is waiting.  All of it *)
(* holds in a session, because a session only takes steps of the server    *)
(* (LinkImplementsServer).  What the server promises whoever operates it,  *)
(* LandingSession, follows from it at the end of this module.              *)
(*                                                                         *)
(* The session's argument is one of knowledge: what stands in the pipe     *)
(* behind the acceptance of a flight was written when nothing else could   *)
(* start any more, so a final phase the client reads there is that of its  *)
(* own flight (Told).                                                      *)
(***************************************************************************)
EXTENDS LandingLink, SequenceTheorems, TLAPS

\* Steps of a task that its handle still stands for.
OwnedSteps == {"prepare", "search", "connect", "ready", "fly", "failed", "closing"}

LiveOwned ==
  \A e \in Epochs :
    tasks[e].pc \in OwnedSteps => (IF tasks[e].kind = "plan" THEN planning = e
                                                             ELSE flight = e)

\* The session is never planned and flown at once.
PlanOrFlight == planning = NoTask \/ flight = NoTask

HandleCurrent ==
  /\ planning # NoTask => Current(planning) \/ hpc = "stopping"
  /\ flight # NoTask => Current(flight) \/ hpc = "stopping"

\* After the stop's wait nothing is held.
StopReleased ==
  hpc \in {"closing", "closed", "gone"} =>
    ~engaged /\ planning = NoTask /\ flight = NoTask

FlyingEngaged == \A e \in Epochs : Flying(e) => engaged

\* Searching is for plans, flying is not.
StepKinds ==
  \A e \in Epochs :
    /\ tasks[e].pc \in {"search", "release", "reconnect"} => tasks[e].kind = "plan"
    /\ tasks[e].pc = "connect" => tasks[e].kind = "deorbit"
    /\ tasks[e].pc \in {"ready", "fly", "closing"} => tasks[e].kind # "plan"

\* What a received request still needs: a configuration to apply, and
\* generations to count.
Room ==
  /\ hpc = "configure" => req.conf # NoConf /\ generation + 2 <= MaxGeneration
  /\ hpc \in {"closeOld", "dispatch"} => generation + 1 <= MaxGeneration

\* A deorbit keeps its plan's configuration from its start, a landing its own
\* from the moment it has resolved the runway.
Committed(e) ==
  \/ tasks[e].kind = "deorbit" /\ tasks[e].pc \in {"prepare", "connect", "ready", "fly"}
  \/ tasks[e].kind = "landing" /\ tasks[e].pc \in {"ready", "fly"}

ConfigurationKept ==
  \A e \in Epochs : Committed(e) => tasks[e].plan.conf = configuration

Ownership ==
  /\ LiveOwned /\ PlanOrFlight /\ HandleCurrent
  /\ StopReleased /\ FlyingEngaged /\ StepKinds

IInv == TypeOK /\ Room /\ Ownership /\ ConfigurationKept

(***************************************************************************)
(* Types, one part at a time.                                              *)
(***************************************************************************)
\* Moving a task to another step keeps what it is and what it flies.
LEMMA GotoTask ==
  ASSUME TypeOK, NEW e \in Epochs, NEW s \in TaskSteps, Goto(e, s)
  PROVE  /\ tasks' \in [Epochs -> Task]
         /\ \A d \in Epochs : /\ tasks'[d].kind = tasks[d].kind
                              /\ tasks'[d].plan = tasks[d].plan
                              /\ tasks'[d].pc = IF d = e THEN s ELSE tasks[d].pc
  BY DEF TypeOK, Goto, Task

\* Choosing the adapter of a task does no more.
LEMMA BindTask ==
  ASSUME TypeOK, NEW e \in Epochs, NEW s \in TaskSteps, NEW c \in Configs, Bind(e, s, c)
  PROVE  /\ tasks' \in [Epochs -> Task]
         /\ \A d \in Epochs : /\ tasks'[d].kind = tasks[d].kind
                              /\ tasks'[d].plan = tasks[d].plan
                              /\ tasks'[d].pc = IF d = e THEN s ELSE tasks[d].pc
  <1>1. tasks[e] \in Task
    BY DEF TypeOK
  <1>2. [tasks[e] EXCEPT !.pc = s, !.bind = c] \in Task
    BY <1>1 DEF Task
  <1>3. tasks' \in [Epochs -> Task]
    BY <1>2 DEF TypeOK, Bind
  <1>4. tasks'[e].kind = tasks[e].kind /\ tasks'[e].plan = tasks[e].plan /\ tasks'[e].pc = s
    BY <1>1 DEF TypeOK, Bind, Task
  <1> QED BY <1>3, <1>4 DEF TypeOK, Bind

\* A started task replaces whatever the new generation's slot held.
LEMMA StartTask ==
  ASSUME TypeOK, generation + 1 <= MaxGeneration, NEW k \in TaskKinds, NEW p \in Plan,
         Start(k, p)
  PROVE  /\ generation + 1 \in Epochs
         /\ tasks' \in [Epochs -> Task]
         /\ \A d \in Epochs \ {generation + 1} : tasks'[d] = tasks[d]
         /\ tasks'[generation + 1].kind = k /\ tasks'[generation + 1].plan = p
         /\ tasks'[generation + 1].pc = "prepare"
  <1>1. generation + 1 \in Epochs
    BY ServerAssumption DEF TypeOK, Epochs
  <1>2. [kind |-> k, pc |-> "prepare", plan |-> p, bind |-> NoConf] \in Task
    BY DEF Task, TaskSteps, Configs
  <1> QED BY <1>1, <1>2 DEF TypeOK, Start

\* The three flags stay Boolean.
LEMMA FlagsStep ==
  ASSUME TypeOK, Room, Next
  PROVE  preparing' \in BOOLEAN /\ engaged' \in BOOLEAN /\ lastError' \in BOOLEAN
  <1> USE DEF TypeOK, session, handles, report, handler
  <1>1. ASSUME NEW r \in Requests, Receive(r)
     PROVE  preparing' \in BOOLEAN /\ engaged' \in BOOLEAN /\ lastError' \in BOOLEAN
    BY <1>1 DEF Receive, Refused, Fail, Quiet, Requests
  <1>2. CASE Handler
    BY <1>2 DEF Handler, RejectConfiguration, ApplyConfiguration,
           CloseOldAdapter, AnswerAtOnce, Connect, Connected, SaveCheckpoint,
           CheckpointSaved, StartPlanning, EngageDeorbit, EngageLanding,
           RejectStart, StopAll, TasksStopped, Stopped, Fail, Succeed, Start,
           NewGeneration, Quiet
  <1>3. CASE EndOfInput
    BY <1>3 DEF EndOfInput, Quiet
  <1>4. ASSUME NEW e \in Epochs, PlanningStep(e) \/ SearchProgress(e)
     PROVE  preparing' \in BOOLEAN /\ engaged' \in BOOLEAN /\ lastError' \in BOOLEAN
    BY <1>4 DEF PlanningStep, PreparationThrows, PlanningPrepared,
           SearchThrows, PlanFound, OtherRunwayFound, OldAdapterReleased,
           Reconnected, ReconnectFails, SearchProgress, StorePlan, Resolved,
           Unresolved, Throw, Publish, Quiet
  <1>5. ASSUME NEW e \in Epochs, FlightStep(e) \/ RuntimeStep(e)
     PROVE  preparing' \in BOOLEAN /\ engaged' \in BOOLEAN /\ lastError' \in BOOLEAN
    BY <1>5 DEF FlightStep, RuntimeStep, LandingResolved, DeorbitPrepares,
           DeorbitConnected, ArmingThrows, TakeControl, TaskFailed,
           FailedFlightClosed, Observe, RuntimeThrows, RuntimeReturns,
           FlightOver, Resolved, Throw, Publish, Quiet
  <1> QED BY <1>1, <1>2, <1>3, <1>4, <1>5 DEF Next

\* The task handles stay in range.
LEMMA HandlesStep ==
  ASSUME TypeOK, Room, Next
  PROVE  planning' \in 0..MaxGeneration /\ flight' \in 0..MaxGeneration
  <1> USE ServerAssumption DEF TypeOK, Room, session, handles, report, handler,
      NoTask, Epochs
  <1>1. ASSUME NEW r \in Requests, Receive(r)
     PROVE  planning' \in 0..MaxGeneration /\ flight' \in 0..MaxGeneration
    BY <1>1 DEF Receive, Refused, Fail, Quiet, Requests
  <1>2. CASE Handler
    BY <1>2 DEF Handler, RejectConfiguration, ApplyConfiguration,
           CloseOldAdapter, AnswerAtOnce, Connect, Connected, SaveCheckpoint,
           CheckpointSaved, StartPlanning, EngageDeorbit, EngageLanding,
           RejectStart, StopAll, TasksStopped, Stopped, Fail, Succeed, Start,
           NewGeneration, Quiet
  <1>3. CASE EndOfInput
    BY <1>3 DEF EndOfInput, Quiet
  <1>4. ASSUME NEW e \in Epochs, PlanningStep(e) \/ SearchProgress(e)
     PROVE  planning' \in 0..MaxGeneration /\ flight' \in 0..MaxGeneration
    <2>1. planning' \in {planning, NoTask} /\ flight' = flight
      BY <1>4 DEF PlanningStep, PreparationThrows, PlanningPrepared,
             SearchThrows, PlanFound, OtherRunwayFound, OldAdapterReleased,
             Reconnected, ReconnectFails, SearchProgress
    <2> QED BY <2>1
  <1>5. ASSUME NEW e \in Epochs, FlightStep(e) \/ RuntimeStep(e)
     PROVE  planning' \in 0..MaxGeneration /\ flight' \in 0..MaxGeneration
    BY <1>5 DEF FlightStep, RuntimeStep, LandingResolved, DeorbitPrepares,
           DeorbitConnected, ArmingThrows, TakeControl, TaskFailed,
           FailedFlightClosed, Observe, RuntimeThrows, RuntimeReturns,
           FlightOver, Resolved, Throw, Publish, Quiet
  <1> QED BY <1>1, <1>2, <1>3, <1>4, <1>5 DEF Next

\* The generation stays in range, and a request keeps the room it needs.
LEMMA GenerationStep ==
  ASSUME TypeOK, Room, Next
  PROVE  generation' \in 0..MaxGeneration /\ Room'
  <1> USE ServerAssumption DEF TypeOK, Room, session, handles, report, handler
  <1>1. ASSUME NEW r \in Requests, Receive(r)
     PROVE  generation' \in 0..MaxGeneration /\ Room'
    BY <1>1 DEF Receive, Refused, Fail, Quiet, Requests
  <1>2. CASE Handler
    BY <1>2 DEF Handler, RejectConfiguration, ApplyConfiguration,
           CloseOldAdapter, AnswerAtOnce, Connect, Connected, SaveCheckpoint,
           CheckpointSaved, StartPlanning, EngageDeorbit, EngageLanding,
           RejectStart, StopAll, TasksStopped, Stopped, Fail, Succeed, Start,
           NewGeneration, Quiet
  <1>3. CASE EndOfInput
    BY <1>3 DEF EndOfInput, Quiet
  <1>4. ASSUME NEW e \in Epochs, PlanningStep(e) \/ SearchProgress(e)
     PROVE  generation' \in 0..MaxGeneration /\ Room'
    BY <1>4 DEF PlanningStep, PreparationThrows, PlanningPrepared,
           SearchThrows, PlanFound, OtherRunwayFound, OldAdapterReleased,
           Reconnected, ReconnectFails, SearchProgress, StorePlan, Resolved,
           Unresolved, Throw, Publish, Quiet
  <1>5. ASSUME NEW e \in Epochs, FlightStep(e) \/ RuntimeStep(e)
     PROVE  generation' \in 0..MaxGeneration /\ Room'
    BY <1>5 DEF FlightStep, RuntimeStep, LandingResolved, DeorbitPrepares,
           DeorbitConnected, ArmingThrows, TakeControl, TaskFailed,
           FailedFlightClosed, Observe, RuntimeThrows, RuntimeReturns,
           FlightOver, Resolved, Throw, Publish, Quiet
  <1> QED BY <1>1, <1>2, <1>3, <1>4, <1>5 DEF Next

\* The session stays configured.
LEMMA SessionStep ==
  ASSUME TypeOK, Room, Next
  PROVE  /\ configuration' \in Configurations /\ io' \in Configs
         /\ connection' \in {"connected", "disconnected"}
  <1> USE ServerAssumption DEF TypeOK, Room, session, handles, report, handler,
      Configs, Task
  <1>1. ASSUME NEW r \in Requests, Receive(r)
     PROVE  /\ configuration' \in Configurations /\ io' \in Configs
         /\ connection' \in {"connected", "disconnected"}
    BY <1>1 DEF Receive, Refused, Fail, Quiet, Requests
  <1>2. CASE Handler
    BY <1>2 DEF Handler, RejectConfiguration, ApplyConfiguration,
           CloseOldAdapter, AnswerAtOnce, Connect, Connected, SaveCheckpoint,
           CheckpointSaved, StartPlanning, EngageDeorbit, EngageLanding,
           RejectStart, StopAll, TasksStopped, Stopped, Fail, Succeed, Start,
           NewGeneration, Quiet
  <1>3. CASE EndOfInput
    BY <1>3 DEF EndOfInput, Quiet
  <1>4. ASSUME NEW e \in Epochs, PlanningStep(e) \/ SearchProgress(e)
     PROVE  /\ configuration' \in Configurations /\ io' \in Configs
         /\ connection' \in {"connected", "disconnected"}
    BY <1>4 DEF PlanningStep, PreparationThrows, PlanningPrepared,
           SearchThrows, PlanFound, OtherRunwayFound, OldAdapterReleased,
           Reconnected, ReconnectFails, SearchProgress, StorePlan, Resolved,
           Unresolved, Throw, Publish, Quiet
  <1>5. ASSUME NEW e \in Epochs, FlightStep(e) \/ RuntimeStep(e)
     PROVE  /\ configuration' \in Configurations /\ io' \in Configs
         /\ connection' \in {"connected", "disconnected"}
    BY <1>5 DEF FlightStep, RuntimeStep, LandingResolved, DeorbitPrepares,
           DeorbitConnected, ArmingThrows, TakeControl, TaskFailed,
           FailedFlightClosed, Observe, RuntimeThrows, RuntimeReturns,
           FlightOver, Resolved, Throw, Publish, Quiet
  <1> QED BY <1>1, <1>2, <1>3, <1>4, <1>5 DEF Next

\* Request, handler and phase stay well-formed.
LEMMA ControlStep ==
  ASSUME TypeOK, Room, Next
  PROVE  hpc' \in HandlerSteps /\ phase' \in Phases /\ req' \in Requests
  <1> USE DEF TypeOK, session, handles, report, handler, HandlerSteps, Phases,
      Requests, Configs
  <1>1. ASSUME NEW r \in Requests, Receive(r)
     PROVE  hpc' \in HandlerSteps /\ phase' \in Phases /\ req' \in Requests
    BY <1>1 DEF Receive, Refused, Fail, Quiet, Requests
  <1>2. CASE Handler
    BY <1>2 DEF Handler, RejectConfiguration, ApplyConfiguration,
           CloseOldAdapter, AnswerAtOnce, Connect, Connected, SaveCheckpoint,
           CheckpointSaved, StartPlanning, EngageDeorbit, EngageLanding,
           RejectStart, StopAll, TasksStopped, Stopped, Fail, Succeed, Start,
           NewGeneration, Quiet
  <1>3. CASE EndOfInput
    BY <1>3 DEF EndOfInput, Quiet
  <1>4. ASSUME NEW e \in Epochs, PlanningStep(e) \/ SearchProgress(e)
     PROVE  hpc' \in HandlerSteps /\ phase' \in Phases /\ req' \in Requests
    BY <1>4 DEF PlanningStep, PreparationThrows, PlanningPrepared,
           SearchThrows, PlanFound, OtherRunwayFound, OldAdapterReleased,
           Reconnected, ReconnectFails, SearchProgress, StorePlan, Resolved,
           Unresolved, Throw, Publish, Quiet
  <1>5. ASSUME NEW e \in Epochs, FlightStep(e) \/ RuntimeStep(e)
     PROVE  hpc' \in HandlerSteps /\ phase' \in Phases /\ req' \in Requests
    BY <1>5 DEF FlightStep, RuntimeStep, LandingResolved, DeorbitPrepares,
           DeorbitConnected, ArmingThrows, TakeControl, TaskFailed,
           FailedFlightClosed, Observe, RuntimeThrows, RuntimeReturns,
           FlightOver, Resolved, Throw, Publish, Quiet
  <1> QED BY <1>1, <1>2, <1>3, <1>4, <1>5 DEF Next

\* Every output is one of the protocol's.
LEMMA OutputStep ==
  ASSUME TypeOK, Room, Next
  PROVE  out' \in Outputs
  <1> USE DEF TypeOK, session, handles, report, handler, Outputs, Answers
  <1>1. ASSUME NEW r \in Requests, Receive(r) PROVE out' \in Outputs
    BY <1>1 DEF Receive, Refused, Fail, Quiet, Requests
  <1>2. CASE Handler
    BY <1>2 DEF Handler, RejectConfiguration, ApplyConfiguration,
           CloseOldAdapter, AnswerAtOnce, Connect, Connected, SaveCheckpoint,
           CheckpointSaved, StartPlanning, EngageDeorbit, EngageLanding,
           RejectStart, StopAll, TasksStopped, Stopped, Fail, Succeed, Start,
           NewGeneration, Quiet
  <1>3. CASE EndOfInput
    BY <1>3 DEF EndOfInput, Quiet
  <1>4. ASSUME NEW e \in Epochs, PlanningStep(e) \/ SearchProgress(e)
     PROVE  out' \in Outputs
    BY <1>4 DEF PlanningStep, PreparationThrows, PlanningPrepared,
           SearchThrows, PlanFound, OtherRunwayFound, OldAdapterReleased,
           Reconnected, ReconnectFails, SearchProgress, StorePlan, Resolved,
           Unresolved, Throw, Publish, Quiet
  <1>5. ASSUME NEW e \in Epochs, FlightStep(e) \/ RuntimeStep(e)
     PROVE  out' \in Outputs
    BY <1>5 DEF FlightStep, RuntimeStep, LandingResolved, DeorbitPrepares,
           DeorbitConnected, ArmingThrows, TakeControl, TaskFailed,
           FailedFlightClosed, Observe, RuntimeThrows, RuntimeReturns,
           FlightOver, Resolved, Throw, Publish, Quiet
  <1> QED BY <1>1, <1>2, <1>3, <1>4, <1>5 DEF Next

\* The stored plan is of a known configuration.
LEMMA PlanStep ==
  ASSUME TypeOK, Room, Next
  PROVE  plan' \in Plan
  <1> USE ServerAssumption DEF TypeOK, session, handles, report, handler, Plan,
      NoPlan, NoTask, Configs, Epochs
  <1>1. ASSUME NEW r \in Requests, Receive(r) PROVE plan' \in Plan
    BY <1>1 DEF Receive, Refused, Fail, Quiet, Requests
  <1>2. CASE Handler
    BY <1>2 DEF Handler, RejectConfiguration, ApplyConfiguration,
           CloseOldAdapter, AnswerAtOnce, Connect, Connected, SaveCheckpoint,
           CheckpointSaved, StartPlanning, EngageDeorbit, EngageLanding,
           RejectStart, StopAll, TasksStopped, Stopped, Fail, Succeed, Start,
           NewGeneration, Quiet
  <1>3. CASE EndOfInput
    BY <1>3 DEF EndOfInput, Quiet
  <1>4. ASSUME NEW e \in Epochs, PlanningStep(e) \/ SearchProgress(e)
     PROVE  plan' \in Plan
    <2>1. [id |-> e, conf |-> configuration] \in Plan
      OBVIOUS
    <2>2. plan' = plan \/ plan' = [id |-> e, conf |-> configuration]
      BY <1>4 DEF PlanningStep, PreparationThrows, PlanningPrepared,
             SearchThrows, PlanFound, OtherRunwayFound, OldAdapterReleased,
             Reconnected, ReconnectFails, SearchProgress, StorePlan
    <2> QED BY <2>1, <2>2
  <1>5. ASSUME NEW e \in Epochs, FlightStep(e) \/ RuntimeStep(e)
     PROVE  plan' \in Plan
    BY <1>5 DEF FlightStep, RuntimeStep, LandingResolved, DeorbitPrepares,
           DeorbitConnected, ArmingThrows, TakeControl, TaskFailed,
           FailedFlightClosed, Observe, RuntimeThrows, RuntimeReturns,
           FlightOver, Resolved, Throw, Publish, Quiet
  <1> QED BY <1>1, <1>2, <1>3, <1>4, <1>5 DEF Next

\* Every task stays a task.
LEMMA TasksStep ==
  ASSUME TypeOK, Room, Next
  PROVE  tasks' \in [Epochs -> Task]
  <1>1. CASE (\E r \in Requests : Receive(r)) \/ EndOfInput
    BY <1>1 DEF TypeOK, Receive, EndOfInput
  <1>2. CASE Handler /\ tasks' = tasks
    BY <1>2 DEF TypeOK
  <1>3. CASE StartPlanning
    <2>1. Start("plan", NoPlan) /\ generation + 1 <= MaxGeneration
      BY <1>3 DEF StartPlanning, Room
    <2>2. NoPlan \in Plan /\ "plan" \in TaskKinds
      BY ServerAssumption DEF TypeOK, NoPlan, NoTask, Plan, Configs, TaskKinds
    <2> QED BY <2>1, <2>2, StartTask
  <1>4. CASE EngageDeorbit
    <2>1. Start("deorbit", plan) /\ generation + 1 <= MaxGeneration
      BY <1>4 DEF EngageDeorbit, Room
    <2>2. plan \in Plan /\ "deorbit" \in TaskKinds
      BY DEF TypeOK, TaskKinds
    <2> QED BY <2>1, <2>2, StartTask
  <1>5. CASE EngageLanding
    <2>1. Start("landing", NoPlan) /\ generation + 1 <= MaxGeneration
      BY <1>5 DEF EngageLanding, Room
    <2>2. NoPlan \in Plan /\ "landing" \in TaskKinds
      BY ServerAssumption DEF TypeOK, NoPlan, NoTask, Plan, Configs, TaskKinds
    <2> QED BY <2>1, <2>2, StartTask
  <1>6. ASSUME NEW e \in Epochs, SearchProgress(e) \/ Observe(e)
     PROVE  tasks' \in [Epochs -> Task]
    BY <1>6 DEF TypeOK, SearchProgress, Observe
  <1>7. ASSUME NEW e \in Epochs, NEW c \in Configurations, OtherRunwayFound(e, c)
     PROVE  tasks' \in [Epochs -> Task]
    <2>1. Goto(e, "release") \/ Bind(e, "reconnect", c)
      BY <1>7 DEF OtherRunwayFound
    <2> QED BY <2>1, GotoTask, BindTask DEF TypeOK, TaskSteps, Configs
  <1>8. ASSUME NEW e \in Epochs, PreparationThrows(e)
     PROVE  tasks' \in [Epochs -> Task]
    <2>1. Goto(e, "failed")
      BY <1>8 DEF PreparationThrows, Throw
    <2> QED BY <2>1, GotoTask DEF TaskSteps
  <1>9. ASSUME NEW e \in Epochs, PlanningPrepared(e)
     PROVE  tasks' \in [Epochs -> Task]
    <2>1. Goto(e, "search")
      BY <1>9 DEF PlanningPrepared
    <2> QED BY <2>1, GotoTask DEF TaskSteps
  <1>10. ASSUME NEW e \in Epochs, SearchThrows(e)
     PROVE  tasks' \in [Epochs -> Task]
    <2>1. Goto(e, "failed")
      BY <1>10 DEF SearchThrows, Throw
    <2> QED BY <2>1, GotoTask DEF TaskSteps
  <1>11. ASSUME NEW e \in Epochs, PlanFound(e) PROVE tasks' \in [Epochs -> Task]
    <2>1. Goto(e, "done")
      BY <1>11 DEF PlanFound, StorePlan
    <2> QED BY <2>1, GotoTask DEF TaskSteps
  <1>12. ASSUME NEW e \in Epochs, OldAdapterReleased(e)
     PROVE  tasks' \in [Epochs -> Task]
    <2>1. Goto(e, "done") \/ Bind(e, "reconnect", configuration)
      BY <1>12 DEF OldAdapterReleased, StorePlan
    <2> QED BY <2>1, GotoTask, BindTask DEF TypeOK, TaskSteps, Configs
  <1>13. ASSUME NEW e \in Epochs, Reconnected(e)
     PROVE  tasks' \in [Epochs -> Task]
    <2>1. Goto(e, "done")
      BY <1>13 DEF Reconnected, StorePlan
    <2> QED BY <2>1, GotoTask DEF TaskSteps
  <1>14. ASSUME NEW e \in Epochs, ReconnectFails(e)
     PROVE  tasks' \in [Epochs -> Task]
    <2>1. Goto(e, "done")
      BY <1>14 DEF ReconnectFails
    <2> QED BY <2>1, GotoTask DEF TaskSteps
  <1>15. ASSUME NEW e \in Epochs, LandingResolved(e)
     PROVE  tasks' \in [Epochs -> Task]
    <2>1. configuration' \in Configurations /\ io' \in Configs
      BY <1>15 DEF TypeOK, LandingResolved, Resolved, Configs
    <2>2. [kind |-> "landing", pc |-> "ready", bind |-> io',
           plan |-> [id |-> NoTask, conf |-> configuration']] \in Task
    BY <2>1, ServerAssumption DEF Task, TaskKinds, TaskSteps, Plan, NoTask,
           Configs
    <2> QED BY <1>15, <2>2 DEF TypeOK, LandingResolved
  <1>16. ASSUME NEW e \in Epochs, DeorbitPrepares(e)
     PROVE  tasks' \in [Epochs -> Task]
    <2>1. Bind(e, "ready", io) \/ Bind(e, "connect", configuration)
      BY <1>16 DEF DeorbitPrepares
    <2> QED BY <2>1, GotoTask, BindTask DEF TypeOK, TaskSteps, Configs
  <1>17. ASSUME NEW e \in Epochs, DeorbitConnected(e)
     PROVE  tasks' \in [Epochs -> Task]
    <2>1. Goto(e, "ready") \/ Goto(e, "failed")
      BY <1>17 DEF DeorbitConnected, Throw
    <2> QED BY <2>1, GotoTask, BindTask DEF TypeOK, TaskSteps, Configs
  <1>18. ASSUME NEW e \in Epochs, ArmingThrows(e)
     PROVE  tasks' \in [Epochs -> Task]
    <2>1. Goto(e, "failed")
      BY <1>18 DEF ArmingThrows, Throw
    <2> QED BY <2>1, GotoTask DEF TaskSteps
  <1>19. ASSUME NEW e \in Epochs, TakeControl(e)
     PROVE  tasks' \in [Epochs -> Task]
    <2>1. Goto(e, "fly")
      BY <1>19 DEF TakeControl
    <2> QED BY <2>1, GotoTask DEF TaskSteps
  <1>20. ASSUME NEW e \in Epochs, TaskFailed(e)
     PROVE  tasks' \in [Epochs -> Task]
    <2>1. Goto(e, "done") \/ Goto(e, "closing")
      BY <1>20 DEF TaskFailed, FlightOver
    <2> QED BY <2>1, GotoTask, BindTask DEF TypeOK, TaskSteps, Configs
  <1>21. ASSUME NEW e \in Epochs, FailedFlightClosed(e)
     PROVE  tasks' \in [Epochs -> Task]
    <2>1. Goto(e, "done")
      BY <1>21 DEF FailedFlightClosed, FlightOver
    <2> QED BY <2>1, GotoTask DEF TaskSteps
  <1>22. ASSUME NEW e \in Epochs, RuntimeThrows(e)
     PROVE  tasks' \in [Epochs -> Task]
    <2>1. Goto(e, "failed")
      BY <1>22 DEF RuntimeThrows, Throw
    <2> QED BY <2>1, GotoTask DEF TaskSteps
  <1>23. ASSUME NEW e \in Epochs, RuntimeReturns(e)
     PROVE  tasks' \in [Epochs -> Task]
    <2>1. Goto(e, "done")
      BY <1>23 DEF RuntimeReturns, FlightOver
    <2> QED BY <2>1, GotoTask DEF TaskSteps
  <1>24. Handler => \/ StartPlanning \/ EngageDeorbit \/ EngageLanding
               \/ tasks' = tasks
    BY DEF Handler, RejectConfiguration, ApplyConfiguration, CloseOldAdapter,
           AnswerAtOnce, Connect, Connected, SaveCheckpoint, CheckpointSaved,
           RejectStart, StopAll, TasksStopped, Stopped
  <1> QED BY <1>1, <1>2, <1>3, <1>4, <1>5, <1>6, <1>7, <1>8, <1>9, <1>10, <1>11,
      <1>12, <1>13, <1>14, <1>15, <1>16, <1>17, <1>18, <1>19, <1>20, <1>21,
      <1>22, <1>23, <1>24
    DEF Next, Handler, PlanningStep, FlightStep, RuntimeStep

(***************************************************************************)
(* Ownership and what is committed to the configuration.                   *)
(***************************************************************************)
\* No step lets a task act that its handle does not stand for.
LEMMA OwnershipStep ==
  ASSUME TypeOK, Room, Ownership, Next
  PROVE  Ownership'
  <1> USE DEF TypeOK, session, handles, report, handler, AtStep, ActorHeld,
      Alive, Current,
          Ownership, LiveOwned, PlanOrFlight, HandleCurrent, StopReleased, FlyingEngaged, StepKinds,
          Flying, OwnedSteps, NoTask
  <1>1. ASSUME NEW r \in Requests, Receive(r) PROVE Ownership'
    BY <1>1 DEF Receive, Refused, Fail, Quiet, Requests, TaskSteps, TaskKinds
  <1>2. CASE RejectConfiguration
    BY <1>2 DEF RejectConfiguration, Fail, TaskSteps, TaskKinds
  <1>3. CASE ApplyConfiguration
    BY <1>3 DEF ApplyConfiguration, NewGeneration, Quiet, Busy, TaskSteps,
           TaskKinds
  <1>4. CASE CloseOldAdapter
    BY <1>4 DEF CloseOldAdapter, Quiet, TaskSteps, TaskKinds
  <1>5. CASE AnswerAtOnce
    BY <1>5 DEF AnswerAtOnce, Succeed, TaskSteps, TaskKinds
  <1>6. CASE Connect
    BY <1>6 DEF Connect, Quiet, TaskSteps, TaskKinds
  <1>7. CASE Connected
    BY <1>7 DEF Connected, Succeed, Fail, TaskSteps, TaskKinds
  <1>8. CASE SaveCheckpoint
    BY <1>8 DEF SaveCheckpoint, Fail, Quiet, TaskSteps, TaskKinds
  <1>9. CASE CheckpointSaved
    BY <1>9 DEF CheckpointSaved, Succeed, Fail, TaskSteps, TaskKinds
  <1>10. CASE StartPlanning
    <2>1. generation + 1 <= MaxGeneration /\ NoPlan \in Plan /\ "plan" \in TaskKinds
    BY <1>10, ServerAssumption DEF StartPlanning, Room, NoPlan, Plan, Configs,
           TaskKinds
    <2>2. Start("plan", NoPlan) /\ generation' = generation + 1
      BY <1>10 DEF StartPlanning, Start, NewGeneration
    <2>3. tasks' \in [Epochs -> Task] /\ generation + 1 \in Epochs
      BY <2>1, <2>2, StartTask
    <2>4. \A d \in Epochs \ {generation + 1} : tasks'[d] = tasks[d]
      BY <2>1, <2>2, StartTask
    <2>5. /\ tasks'[generation + 1].kind = "plan"
          /\ tasks'[generation + 1].pc = "prepare"
      BY <2>1, <2>2, StartTask
    <2>6. \A d \in Epochs : tasks[d].pc \notin OwnedSteps
      BY <1>10 DEF StartPlanning, Busy, Epochs
    <2>7. \A d \in Epochs : tasks'[d].pc \in OwnedSteps => d = generation + 1
      BY <2>4, <2>6
    <2>8. LiveOwned' /\ FlyingEngaged'
      BY <1>10, <2>5, <2>7 DEF StartPlanning
    <2>a. StopReleased'
      BY <2>2 DEF Start, Succeed
    <2>b. /\ planning = NoTask /\ flight = NoTask
          /\ planning' = generation + 1 /\ flight' = NoTask
      BY <1>10 DEF StartPlanning, Busy
    <2>9. PlanOrFlight' /\ HandleCurrent' /\ StopReleased'
      BY <2>2, <2>a, <2>b
    <2>10. StepKinds'
      BY <2>4, <2>5
    <2> QED BY <2>8, <2>9, <2>10
  <1>11. CASE EngageDeorbit
    <2>1. generation + 1 <= MaxGeneration /\ plan \in Plan /\ "deorbit" \in TaskKinds
      BY <1>11, ServerAssumption DEF EngageDeorbit, Room, TaskKinds
    <2>2. Start("deorbit", plan) /\ generation' = generation + 1
      BY <1>11 DEF EngageDeorbit, Start, NewGeneration
    <2>3. tasks' \in [Epochs -> Task] /\ generation + 1 \in Epochs
      BY <2>1, <2>2, StartTask
    <2>4. \A d \in Epochs \ {generation + 1} : tasks'[d] = tasks[d]
      BY <2>1, <2>2, StartTask
    <2>5. /\ tasks'[generation + 1].kind = "deorbit"
          /\ tasks'[generation + 1].pc = "prepare"
      BY <2>1, <2>2, StartTask
    <2>6. \A d \in Epochs : tasks[d].pc \notin OwnedSteps
      BY <1>11 DEF EngageDeorbit, Busy, Epochs
    <2>7. \A d \in Epochs : tasks'[d].pc \in OwnedSteps => d = generation + 1
      BY <2>4, <2>6
    <2>8. LiveOwned' /\ FlyingEngaged'
      BY <1>11, <2>5, <2>7 DEF EngageDeorbit
    <2>a. StopReleased'
      BY <2>2 DEF Start, Succeed
    <2>b. /\ planning = NoTask /\ flight = NoTask
          /\ planning' = NoTask /\ flight' = generation + 1
      BY <1>11 DEF EngageDeorbit, Busy
    <2>9. PlanOrFlight' /\ HandleCurrent' /\ StopReleased'
      BY <2>2, <2>a, <2>b
    <2>10. StepKinds'
      BY <2>4, <2>5
    <2> QED BY <2>8, <2>9, <2>10
  <1>12. CASE EngageLanding
    <2>1. generation + 1 <= MaxGeneration /\ NoPlan \in Plan /\ "landing" \in TaskKinds
    BY <1>12, ServerAssumption DEF EngageLanding, Room, NoPlan, Plan, Configs,
           TaskKinds
    <2>2. Start("landing", NoPlan) /\ generation' = generation + 1
      BY <1>12 DEF EngageLanding, Start, NewGeneration
    <2>3. tasks' \in [Epochs -> Task] /\ generation + 1 \in Epochs
      BY <2>1, <2>2, StartTask
    <2>4. \A d \in Epochs \ {generation + 1} : tasks'[d] = tasks[d]
      BY <2>1, <2>2, StartTask
    <2>5. /\ tasks'[generation + 1].kind = "landing"
          /\ tasks'[generation + 1].pc = "prepare"
      BY <2>1, <2>2, StartTask
    <2>6. \A d \in Epochs : tasks[d].pc \notin OwnedSteps
      BY <1>12 DEF EngageLanding, Busy, Epochs
    <2>7. \A d \in Epochs : tasks'[d].pc \in OwnedSteps => d = generation + 1
      BY <2>4, <2>6
    <2>8. LiveOwned' /\ FlyingEngaged'
      BY <1>12, <2>5, <2>7 DEF EngageLanding
    <2>a. StopReleased'
      BY <2>2 DEF Start, Succeed
    <2>b. /\ planning = NoTask /\ flight = NoTask
          /\ planning' = NoTask /\ flight' = generation + 1
      BY <1>12 DEF EngageLanding, Busy
    <2>9. PlanOrFlight' /\ HandleCurrent' /\ StopReleased'
      BY <2>2, <2>a, <2>b
    <2>10. StepKinds'
      BY <2>4, <2>5
    <2> QED BY <2>8, <2>9, <2>10
  <1>13. CASE RejectStart
    BY <1>13 DEF RejectStart, Fail, TaskSteps, TaskKinds
  <1>14. CASE StopAll
    BY <1>14 DEF StopAll, NewGeneration, Quiet, StopMethods, TaskSteps,
           TaskKinds
  <1>15. CASE TasksStopped
    BY <1>15 DEF TasksStopped, Quiet, Returned, TaskSteps, TaskKinds
  <1>16. CASE Stopped
    BY <1>16 DEF Stopped, Succeed, TaskSteps, TaskKinds
  <1>17. CASE EndOfInput
    BY <1>17 DEF EndOfInput, Quiet, TaskSteps, TaskKinds
  <1>18. ASSUME NEW e \in Epochs, NEW c \in Configurations,
            OtherRunwayFound(e, c)
     PROVE  Ownership'
    <2>1. Goto(e, "release") \/ Bind(e, "reconnect", c)
      BY <1>18 DEF OtherRunwayFound
    <2>2. c \in Configs /\ "release" \in TaskSteps /\ "reconnect" \in TaskSteps
      BY DEF Configs, TaskSteps
    <2>3. CASE Goto(e, "release")
      BY <1>18, <2>2, <2>3, GotoTask DEF OtherRunwayFound
    <2>4. CASE Bind(e, "reconnect", c)
      BY <1>18, <2>2, <2>4, BindTask DEF OtherRunwayFound
    <2> QED BY <2>1, <2>3, <2>4
  <1>19. ASSUME NEW e \in Epochs, PreparationThrows(e) PROVE Ownership'
    BY <1>19, GotoTask DEF PreparationThrows, Resolved, Unresolved, Throw,
           Quiet, TaskSteps, TaskKinds
  <1>20. ASSUME NEW e \in Epochs, PlanningPrepared(e) PROVE Ownership'
    BY <1>20, GotoTask DEF PlanningPrepared, Resolved, Quiet, TaskSteps,
           TaskKinds
  <1>21. ASSUME NEW e \in Epochs, SearchThrows(e) PROVE Ownership'
    BY <1>21, GotoTask DEF SearchThrows, Throw, Quiet, TaskSteps, TaskKinds
  <1>22. ASSUME NEW e \in Epochs, PlanFound(e) PROVE Ownership'
    BY <1>22, GotoTask DEF PlanFound, StorePlan, Publish, TaskSteps, TaskKinds
  <1>23. ASSUME NEW e \in Epochs, OldAdapterReleased(e) PROVE Ownership'
    <2>1. Goto(e, "done") \/ Bind(e, "reconnect", configuration)
      BY <1>23 DEF OldAdapterReleased, StorePlan
    <2>2. configuration \in Configs /\ "done" \in TaskSteps /\ "reconnect" \in TaskSteps
      BY DEF Configs, TaskSteps
    <2>3. CASE Goto(e, "done")
      BY <1>23, <2>2, <2>3, GotoTask DEF OldAdapterReleased
    <2>4. CASE Bind(e, "reconnect", configuration)
      BY <1>23, <2>2, <2>4, BindTask DEF OldAdapterReleased
    <2> QED BY <2>1, <2>3, <2>4
  <1>24. ASSUME NEW e \in Epochs, Reconnected(e) PROVE Ownership'
    <2>1. Goto(e, "done")
      BY <1>24 DEF Reconnected, StorePlan
    <2> QED BY <1>24, <2>1, GotoTask DEF Reconnected, TaskSteps
  <1>25. ASSUME NEW e \in Epochs, ReconnectFails(e) PROVE Ownership'
    BY <1>25, GotoTask DEF ReconnectFails, Publish, Quiet, TaskSteps, TaskKinds
  <1>26. ASSUME NEW e \in Epochs, SearchProgress(e) PROVE Ownership'
    BY <1>26 DEF SearchProgress, Publish, TaskSteps, TaskKinds
  <1>27. ASSUME NEW e \in Epochs, LandingResolved(e) PROVE Ownership'
    BY <1>27 DEF LandingResolved, Resolved, Quiet, TaskSteps, TaskKinds
  <1>28. ASSUME NEW e \in Epochs, DeorbitPrepares(e) PROVE Ownership'
    <2>1. \/ Bind(e, "ready", io)
          \/ Bind(e, "connect", configuration)
      BY <1>28 DEF DeorbitPrepares
    <2>2. /\ configuration \in Configs /\ io \in Configs
          /\ "ready" \in TaskSteps /\ "connect" \in TaskSteps
      BY DEF Configs, TaskSteps
    <2>3. CASE Bind(e, "ready", io)
      BY <1>28, <2>2, <2>3, BindTask DEF DeorbitPrepares
    <2>4. CASE Bind(e, "connect", configuration)
      BY <1>28, <2>2, <2>4, BindTask DEF DeorbitPrepares
    <2> QED BY <2>1, <2>3, <2>4
  <1>29. ASSUME NEW e \in Epochs, DeorbitConnected(e) PROVE Ownership'
    <2>1. Goto(e, "ready") \/ Goto(e, "failed")
      BY <1>29 DEF DeorbitConnected, Throw
    <2>2. \A d \in Epochs :
            /\ tasks'[d].kind = tasks[d].kind
            /\ IF d = e THEN tasks'[d].pc \in {"ready", "failed"}
                        ELSE tasks'[d].pc = tasks[d].pc
      BY <2>1, GotoTask DEF TaskSteps
    <2> QED BY <1>29, <2>2 DEF DeorbitConnected
  <1>30. ASSUME NEW e \in Epochs, ArmingThrows(e) PROVE Ownership'
    BY <1>30, GotoTask DEF ArmingThrows, Throw, Quiet, TaskSteps, TaskKinds
  <1>31. ASSUME NEW e \in Epochs, TakeControl(e) PROVE Ownership'
    <2>1. Goto(e, "fly") /\ "fly" \in TaskSteps
      BY <1>31 DEF TakeControl, TaskSteps
    <2>2. /\ tasks[e].pc = "ready" /\ tasks[e].kind # "plan" /\ flight = e
          /\ engaged' /\ flight' = flight /\ planning' = planning
          /\ generation' = generation /\ hpc' = hpc
      BY <1>31 DEF TakeControl
    <2>3. \A d \in Epochs : /\ tasks'[d].kind = tasks[d].kind
                             /\ tasks'[d].pc = IF d = e THEN "fly" ELSE tasks[d].pc
      BY <2>1, GotoTask
    <2>4. LiveOwned' /\ FlyingEngaged' /\ StepKinds'
      BY <2>2, <2>3
    <2>5. PlanOrFlight' /\ HandleCurrent'
      BY <2>2
    <2>6. StopReleased'
      BY <2>2 DEF Epochs
    <2> QED BY <2>4, <2>5, <2>6
  <1>32. ASSUME NEW e \in Epochs, TaskFailed(e) PROVE Ownership'
    BY <1>32, GotoTask DEF TaskFailed, FlightOver, Publish, Quiet, TaskSteps,
           TaskKinds
  <1>33. ASSUME NEW e \in Epochs, FailedFlightClosed(e) PROVE Ownership'
    BY <1>33, GotoTask DEF FailedFlightClosed, FlightOver, Publish, Quiet,
           TaskSteps, TaskKinds
  <1>34. ASSUME NEW e \in Epochs, Observe(e) PROVE Ownership'
    BY <1>34 DEF Observe, Publish, TaskSteps, TaskKinds
  <1>35. ASSUME NEW e \in Epochs, RuntimeThrows(e) PROVE Ownership'
    BY <1>35, GotoTask DEF RuntimeThrows, Throw, Quiet, TaskSteps, TaskKinds
  <1>36. ASSUME NEW e \in Epochs, RuntimeReturns(e) PROVE Ownership'
    BY <1>36, GotoTask DEF RuntimeReturns, FlightOver, Publish, Quiet,
           TaskSteps, TaskKinds
  <1> QED BY <1>1, <1>2, <1>3, <1>4, <1>5, <1>6, <1>7, <1>8, <1>9, <1>10, <1>11,
      <1>12, <1>13, <1>14, <1>15, <1>16, <1>17, <1>18, <1>19, <1>20, <1>21,
      <1>22, <1>23, <1>24, <1>25, <1>26, <1>27, <1>28, <1>29, <1>30, <1>31,
      <1>32, <1>33, <1>34, <1>35, <1>36
    DEF Next, Handler, PlanningStep, FlightStep, RuntimeStep

\* Next to a task with a handle, nothing else is committed.
LEMMA CommittedAlone ==
  ASSUME Ownership, NEW e \in Epochs, tasks[e].pc \in OwnedSteps
  PROVE  \A d \in Epochs \ {e} : ~Committed(d)
  <1>1. e # NoTask
    BY DEF Epochs, NoTask
  <1> SUFFICES ASSUME NEW d \in Epochs, Committed(d) PROVE d = e
    OBVIOUS
  <1>2. flight = d
    BY DEF Ownership, LiveOwned, Committed, OwnedSteps
  <1>3. d # NoTask
    BY DEF Epochs, NoTask
  <1> QED BY <1>1, <1>2, <1>3 DEF Ownership, LiveOwned, PlanOrFlight

\* The configuration moves only when nothing is committed to it.
LEMMA ConfigurationStep ==
  ASSUME TypeOK, Room, Ownership, ConfigurationKept, Next
  PROVE  ConfigurationKept'
  <1> USE DEF TypeOK, session, handles, report, handler, AtStep, Ownership,
      LiveOwned,
          PlanOrFlight, StepKinds, OwnedSteps, NoTask, ConfigurationKept, Committed
  <1>1. ASSUME NEW r \in Requests, Receive(r) PROVE ConfigurationKept'
    BY <1>1 DEF Receive, Refused, Fail, Quiet, Requests, TaskSteps, TaskKinds
  <1>2. CASE RejectConfiguration
    BY <1>2 DEF RejectConfiguration, Fail, TaskSteps, TaskKinds
  <1>3. CASE ApplyConfiguration
    <2>1. flight = NoTask /\ tasks' = tasks
      BY <1>3 DEF ApplyConfiguration, Busy
    <2>2. \A d \in Epochs : ~Committed(d)
      BY <2>1 DEF Epochs
    <2> QED BY <2>1, <2>2
  <1>4. CASE CloseOldAdapter
    BY <1>4 DEF CloseOldAdapter, Quiet, TaskSteps, TaskKinds
  <1>5. CASE AnswerAtOnce
    BY <1>5 DEF AnswerAtOnce, Succeed, TaskSteps, TaskKinds
  <1>6. CASE Connect
    BY <1>6 DEF Connect, Quiet, TaskSteps, TaskKinds
  <1>7. CASE Connected
    BY <1>7 DEF Connected, Succeed, Fail, TaskSteps, TaskKinds
  <1>8. CASE SaveCheckpoint
    BY <1>8 DEF SaveCheckpoint, Fail, Quiet, TaskSteps, TaskKinds
  <1>9. CASE CheckpointSaved
    BY <1>9 DEF CheckpointSaved, Succeed, Fail, TaskSteps, TaskKinds
  <1>10. CASE StartPlanning
    <2>1. generation + 1 <= MaxGeneration /\ NoPlan \in Plan /\ "plan" \in TaskKinds
    BY <1>10, ServerAssumption DEF StartPlanning, Room, NoPlan, Plan, Configs,
           TaskKinds
    <2>2. Start("plan", NoPlan) /\ configuration' = configuration
      BY <1>10 DEF StartPlanning
    <2>3. \A d \in Epochs \ {generation + 1} : tasks'[d] = tasks[d]
      BY <2>1, <2>2, StartTask
    <2>4. tasks'[generation + 1].kind = "plan" /\ tasks'[generation + 1].plan = NoPlan
          /\ tasks'[generation + 1].pc = "prepare"
      BY <2>1, <2>2, StartTask
    <2> QED BY <1>10, <2>2, <2>3, <2>4 DEF StartPlanning
  <1>11. CASE EngageDeorbit
    <2>1. generation + 1 <= MaxGeneration /\ plan \in Plan /\ "deorbit" \in TaskKinds
      BY <1>11, ServerAssumption DEF EngageDeorbit, Room, TaskKinds
    <2>2. Start("deorbit", plan) /\ configuration' = configuration
      BY <1>11 DEF EngageDeorbit
    <2>3. \A d \in Epochs \ {generation + 1} : tasks'[d] = tasks[d]
      BY <2>1, <2>2, StartTask
    <2>4. tasks'[generation + 1].kind = "deorbit" /\ tasks'[generation + 1].plan = plan
          /\ tasks'[generation + 1].pc = "prepare"
      BY <2>1, <2>2, StartTask
    <2> QED BY <1>11, <2>2, <2>3, <2>4 DEF EngageDeorbit
  <1>12. CASE EngageLanding
    <2>1. generation + 1 <= MaxGeneration /\ NoPlan \in Plan /\ "landing" \in TaskKinds
    BY <1>12, ServerAssumption DEF EngageLanding, Room, NoPlan, Plan, Configs,
           TaskKinds
    <2>2. Start("landing", NoPlan) /\ configuration' = configuration
      BY <1>12 DEF EngageLanding
    <2>3. \A d \in Epochs \ {generation + 1} : tasks'[d] = tasks[d]
      BY <2>1, <2>2, StartTask
    <2>4. tasks'[generation + 1].kind = "landing" /\ tasks'[generation + 1].plan = NoPlan
          /\ tasks'[generation + 1].pc = "prepare"
      BY <2>1, <2>2, StartTask
    <2> QED BY <1>12, <2>2, <2>3, <2>4 DEF EngageLanding
  <1>13. CASE RejectStart
    BY <1>13 DEF RejectStart, Fail, TaskSteps, TaskKinds
  <1>14. CASE StopAll
    BY <1>14 DEF StopAll, NewGeneration, Quiet, StopMethods, TaskSteps,
           TaskKinds
  <1>15. CASE TasksStopped
    BY <1>15 DEF TasksStopped, Quiet, Returned, TaskSteps, TaskKinds
  <1>16. CASE Stopped
    BY <1>16 DEF Stopped, Succeed, TaskSteps, TaskKinds
  <1>17. CASE EndOfInput
    BY <1>17 DEF EndOfInput, Quiet, TaskSteps, TaskKinds
  <1>18. ASSUME NEW e \in Epochs, NEW c \in Configurations,
            OtherRunwayFound(e, c)
     PROVE  ConfigurationKept'
    <2>1. tasks[e].pc = "search" /\ tasks[e].pc \in OwnedSteps
      BY <1>18 DEF OtherRunwayFound, AtStep, OwnedSteps
    <2>2. \A d \in Epochs \ {e} : ~Committed(d)
      BY <2>1, CommittedAlone
    <2>3. Goto(e, "release") \/ Bind(e, "reconnect", c)
      BY <1>18 DEF OtherRunwayFound
    <2>4. c \in Configs /\ "release" \in TaskSteps /\ "reconnect" \in TaskSteps
      BY DEF Configs, TaskSteps
    <2>5. \A d \in Epochs :
            /\ tasks'[d].kind = tasks[d].kind /\ tasks'[d].plan = tasks[d].plan
            /\ IF d = e THEN tasks'[d].pc \in {"release", "reconnect"}
                        ELSE tasks'[d].pc = tasks[d].pc
      BY <2>3, <2>4, GotoTask, BindTask
    <2>6. ~Committed(e)'
      BY <2>5
    <2> QED BY <2>2, <2>5, <2>6
  <1>19. ASSUME NEW e \in Epochs, PreparationThrows(e) PROVE ConfigurationKept'
    <2>1. tasks[e].pc = "prepare" /\ tasks[e].pc \in OwnedSteps
      BY <1>19 DEF PreparationThrows, AtStep, OwnedSteps
    <2>2. \A d \in Epochs \ {e} : ~Committed(d)
      BY <2>1, CommittedAlone
    <2>3. Goto(e, "failed") /\ "failed" \in TaskSteps
      BY <1>19 DEF PreparationThrows, Throw, TaskSteps
    <2>4. \A d \in Epochs : /\ tasks'[d].kind = tasks[d].kind
                             /\ tasks'[d].plan = tasks[d].plan
                             /\ tasks'[d].pc = IF d = e THEN "failed" ELSE tasks[d].pc
      BY <2>3, GotoTask
    <2>5. ~Committed(e)'
      BY <2>4
    <2> QED BY <2>2, <2>4, <2>5
  <1>20. ASSUME NEW e \in Epochs, PlanningPrepared(e) PROVE ConfigurationKept'
    <2>1. tasks[e].pc = "prepare" /\ tasks[e].pc \in OwnedSteps
      BY <1>20 DEF PlanningPrepared, AtStep, OwnedSteps
    <2>2. \A d \in Epochs \ {e} : ~Committed(d)
      BY <2>1, CommittedAlone
    <2>3. Goto(e, "search") /\ "search" \in TaskSteps
      BY <1>20 DEF PlanningPrepared, TaskSteps
    <2>4. \A d \in Epochs : /\ tasks'[d].kind = tasks[d].kind
                             /\ tasks'[d].plan = tasks[d].plan
                             /\ tasks'[d].pc = IF d = e THEN "search" ELSE tasks[d].pc
      BY <2>3, GotoTask
    <2>5. ~Committed(e)'
      BY <2>4
    <2> QED BY <2>2, <2>4, <2>5
  <1>21. ASSUME NEW e \in Epochs, SearchThrows(e) PROVE ConfigurationKept'
    BY <1>21, GotoTask DEF SearchThrows, Throw, Quiet, TaskSteps, TaskKinds
  <1>22. ASSUME NEW e \in Epochs, PlanFound(e) PROVE ConfigurationKept'
    BY <1>22, GotoTask DEF PlanFound, StorePlan, Publish, TaskSteps, TaskKinds
  <1>23. ASSUME NEW e \in Epochs, OldAdapterReleased(e) PROVE ConfigurationKept'
    <2>1. Goto(e, "done") \/ Bind(e, "reconnect", configuration)
      BY <1>23 DEF OldAdapterReleased, StorePlan
    <2>2. configuration \in Configs /\ "done" \in TaskSteps /\ "reconnect" \in TaskSteps
      BY DEF Configs, TaskSteps
    <2>3. CASE Goto(e, "done")
      BY <1>23, <2>2, <2>3, GotoTask DEF OldAdapterReleased
    <2>4. CASE Bind(e, "reconnect", configuration)
      BY <1>23, <2>2, <2>4, BindTask DEF OldAdapterReleased
    <2> QED BY <2>1, <2>3, <2>4
  <1>24. ASSUME NEW e \in Epochs, Reconnected(e) PROVE ConfigurationKept'
    <2>1. Goto(e, "done")
      BY <1>24 DEF Reconnected, StorePlan
    <2> QED BY <1>24, <2>1, GotoTask DEF Reconnected, TaskSteps
  <1>25. ASSUME NEW e \in Epochs, ReconnectFails(e) PROVE ConfigurationKept'
    BY <1>25, GotoTask DEF ReconnectFails, Publish, Quiet, TaskSteps, TaskKinds
  <1>26. ASSUME NEW e \in Epochs, SearchProgress(e) PROVE ConfigurationKept'
    BY <1>26 DEF SearchProgress, Publish, TaskSteps, TaskKinds
  <1>27. ASSUME NEW e \in Epochs, LandingResolved(e) PROVE ConfigurationKept'
    BY <1>27 DEF LandingResolved, Resolved, Quiet, TaskSteps, TaskKinds
  <1>28. ASSUME NEW e \in Epochs, DeorbitPrepares(e) PROVE ConfigurationKept'
    <2>1. \/ Bind(e, "ready", io)
          \/ Bind(e, "connect", configuration)
      BY <1>28 DEF DeorbitPrepares
    <2>2. /\ configuration \in Configs /\ io \in Configs
          /\ "ready" \in TaskSteps /\ "connect" \in TaskSteps
      BY DEF Configs, TaskSteps
    <2>3. CASE Bind(e, "ready", io)
      BY <1>28, <2>2, <2>3, BindTask DEF DeorbitPrepares
    <2>4. CASE Bind(e, "connect", configuration)
      BY <1>28, <2>2, <2>4, BindTask DEF DeorbitPrepares
    <2> QED BY <2>1, <2>3, <2>4
  <1>29. ASSUME NEW e \in Epochs, DeorbitConnected(e) PROVE ConfigurationKept'
    <2>1. /\ tasks[e].pc = "connect" /\ tasks[e].kind = "deorbit"
          /\ configuration' = configuration
      BY <1>29 DEF DeorbitConnected
    <2>2. Goto(e, "ready") \/ Goto(e, "failed")
      BY <1>29 DEF DeorbitConnected, Throw
    <2>3. \A d \in Epochs :
            /\ tasks'[d].kind = tasks[d].kind /\ tasks'[d].plan = tasks[d].plan
            /\ IF d = e THEN tasks'[d].pc \in {"ready", "failed"}
                        ELSE tasks'[d].pc = tasks[d].pc
      BY <2>2, GotoTask DEF TaskSteps
    <2> QED BY <2>1, <2>3
  <1>30. ASSUME NEW e \in Epochs, ArmingThrows(e) PROVE ConfigurationKept'
    BY <1>30, GotoTask DEF ArmingThrows, Throw, Quiet, TaskSteps, TaskKinds
  <1>31. ASSUME NEW e \in Epochs, TakeControl(e) PROVE ConfigurationKept'
    BY <1>31, GotoTask DEF TakeControl, Publish, Quiet, TaskSteps, TaskKinds
  <1>32. ASSUME NEW e \in Epochs, TaskFailed(e) PROVE ConfigurationKept'
    BY <1>32, GotoTask DEF TaskFailed, FlightOver, Publish, Quiet, TaskSteps,
           TaskKinds
  <1>33. ASSUME NEW e \in Epochs, FailedFlightClosed(e) PROVE ConfigurationKept'
    BY <1>33, GotoTask DEF FailedFlightClosed, FlightOver, Publish, Quiet,
           TaskSteps, TaskKinds
  <1>34. ASSUME NEW e \in Epochs, Observe(e) PROVE ConfigurationKept'
    BY <1>34 DEF Observe, Publish, TaskSteps, TaskKinds
  <1>35. ASSUME NEW e \in Epochs, RuntimeThrows(e) PROVE ConfigurationKept'
    BY <1>35, GotoTask DEF RuntimeThrows, Throw, Quiet, TaskSteps, TaskKinds
  <1>36. ASSUME NEW e \in Epochs, RuntimeReturns(e) PROVE ConfigurationKept'
    BY <1>36, GotoTask DEF RuntimeReturns, FlightOver, Publish, Quiet,
           TaskSteps, TaskKinds
  <1> QED BY <1>1, <1>2, <1>3, <1>4, <1>5, <1>6, <1>7, <1>8, <1>9, <1>10, <1>11,
      <1>12, <1>13, <1>14, <1>15, <1>16, <1>17, <1>18, <1>19, <1>20, <1>21,
      <1>22, <1>23, <1>24, <1>25, <1>26, <1>27, <1>28, <1>29, <1>30, <1>31,
      <1>32, <1>33, <1>34, <1>35, <1>36
    DEF Next, Handler, PlanningStep, FlightStep, RuntimeStep

\* Together the parts keep the types, and the room a request needs.
LEMMA TypeStep ==
  ASSUME TypeOK, Room, Next
  PROVE  TypeOK' /\ Room'
    BY FlagsStep, HandlesStep, GenerationStep, SessionStep, ControlStep,
           OutputStep,
     PlanStep, TasksStep DEF TypeOK, Requests

\* A server that has just started owns nothing.
LEMMA InitInv == Init => IInv
  <1> SUFFICES ASSUME Init PROVE IInv
    OBVIOUS
  <1>1. TypeOK
    <2>1. NoPlan \in Plan
      BY ServerAssumption DEF NoPlan, Plan, NoTask, Configs
    <2>2. [kind |-> "plan", pc |-> "off", plan |-> NoPlan, bind |-> NoConf] \in Task
      BY <2>1 DEF Task, TaskKinds, TaskSteps, Configs
    <2>3. tasks \in [Epochs -> Task]
      BY <2>2 DEF Init
    <2>4. req \in [method: Methods, conf: Configs]
      BY DEF Init, Methods, ConfigurableMethods, StopMethods, Configs
    <2>5. preparing \in BOOLEAN /\ engaged \in BOOLEAN /\ lastError \in BOOLEAN
      BY DEF Init
    <2>6. /\ configuration \in Configurations /\ io \in Configs
          /\ connection \in {"connected", "disconnected"}
          /\ plan \in Plan /\ phase \in Phases /\ hpc \in HandlerSteps
          /\ out \in Outputs
      BY <2>1 DEF Init, Configs, Phases, HandlerSteps, Outputs
    <2>7. /\ generation \in 0..MaxGeneration
          /\ planning \in 0..MaxGeneration /\ flight \in 0..MaxGeneration
      BY ServerAssumption DEF Init, NoTask
    <2> QED BY <2>3, <2>4, <2>5, <2>6, <2>7 DEF TypeOK
  <1>2. Room /\ Ownership /\ ConfigurationKept
    BY DEF Init, Room, Ownership, LiveOwned, OwnedSteps, PlanOrFlight,
           HandleCurrent,
           StopReleased, FlyingEngaged, Flying, StepKinds, ConfigurationKept, Committed
  <1> QED BY <1>1, <1>2 DEF IInv

\* Nothing changes when nothing moves.
LEMMA StutterInv ==
  ASSUME IInv, UNCHANGED vars
  PROVE  IInv'
  <1> USE DEF vars, session, handles, report, handler
  <1>1. TypeOK' /\ Room'
    BY DEF IInv, TypeOK, Room
  <1>2. Ownership'
    BY DEF IInv, Ownership, LiveOwned, PlanOrFlight, HandleCurrent, Current,
           StopReleased, FlyingEngaged, Flying, StepKinds
  <1>3. ConfigurationKept'
    BY DEF IInv, ConfigurationKept, Committed
  <1> QED BY <1>1, <1>2, <1>3 DEF IInv

\* The invariant is inductive.
LEMMA InvStep ==
  ASSUME IInv, [Next]_vars
  PROVE  IInv'
  <1>1. CASE Next
    BY <1>1, TypeStep, OwnershipStep, ConfigurationStep DEF IInv
  <1>2. CASE UNCHANGED vars
    BY <1>2, StutterInv
  <1> QED BY <1>1, <1>2

\* Every reachable state satisfies the ownership argument.
THEOREM Invariance == Spec => []IInv
  BY InitInv, InvStep, PTL DEF Spec

(***************************************************************************)
(* What the runs check, for every instance.                                *)
(***************************************************************************)
\* Every variable of the actor keeps its type.
THEOREM TypeCorrect == Spec => []TypeOK
  <1>1. IInv => TypeOK
    BY DEF IInv
  <1> QED BY <1>1, Invariance, PTL

\* Only the flight the server answers for flies, and it is of the current
\* generation unless a stop is waiting for it.
THEOREM OnlyCurrent == Spec => []OnlyCurrentFlies
  <1>1. IInv => OnlyCurrentFlies
    <2> SUFFICES ASSUME IInv, NEW e \in Epochs, Flying(e)
     PROVE  engaged /\ flight = e /\ (Current(e) \/ hpc = "stopping")
      BY DEF OnlyCurrentFlies
    <2>1. engaged /\ tasks[e].kind # "plan"
      BY DEF IInv, Ownership, FlyingEngaged, StepKinds, Flying
    <2>2. flight = e
      BY <2>1 DEF IInv, Ownership, LiveOwned, OwnedSteps, Flying
    <2>3. e # NoTask
      BY DEF Epochs, NoTask
    <2> QED BY <2>1, <2>2, <2>3 DEF IInv, Ownership, HandleCurrent
  <1> QED BY <1>1, Invariance, PTL

\* Under a flying deorbit lies the configuration of the plan it was given.
THEOREM ConfigurationFlown == Spec => []FlownConfiguration
  <1>1. IInv => FlownConfiguration
    <2> SUFFICES ASSUME IInv, NEW e \in Epochs, Flying(e)
                 PROVE  tasks[e].plan.conf = configuration
      BY DEF FlownConfiguration
    <2>1. tasks[e].kind \in TaskKinds \ {"plan"}
      BY DEF IInv, TypeOK, Task, Ownership, StepKinds, Flying
    <2>2. Committed(e)
      BY <2>1 DEF TaskKinds, Committed, Flying
    <2> QED BY <2>2 DEF IInv, ConfigurationKept
  <1> QED BY <1>1, Invariance, PTL

\* A search and a flight are never under way together.
THEOREM NeverBoth == Spec => []PlanOrFlight
  <1>1. IInv => PlanOrFlight
    BY DEF IInv, Ownership
  <1> QED BY <1>1, Invariance, PTL

\* A server that has answered "shutdown" flies nothing.
THEOREM ReleasedAtExit == Spec => []ReleasedOnExit
  <1>1. IInv => ReleasedOnExit
    BY DEF IInv, Ownership, StopReleased, FlyingEngaged, ReleasedOnExit
  <1> QED BY <1>1, Invariance, PTL

(***************************************************************************)
(* A session: the invariant.                                              *)
(***************************************************************************)
\* The server at rest, in the sense that it works on no request.
Resting == hpc \in {"idle", "gone", "eof"}

Starts == {"createPlan", "engage", "engageReentry"}

\* The methods that one of the client's calls may have asked for.
AsksFor(c) ==
  IF c = "engage" THEN {"engage", "engageReentry"}
                  ELSE {IF c = "release" THEN "abort" ELSE c}

\* Requests are numbered, served in their order and one at a time; what was
\* answered has been received.
Numbered ==
  /\ sent = serving + Len(inbox)
  /\ \A i \in 1..Len(inbox) : inbox[i].id = serving + i
  /\ \A i \in 1..Len(pipe) : pipe[i].id <= serving
  /\ lpc # "configure" => sent # 0

\* The last request is the one of the call, wherever it is.
LastAsked ==
  sent # 0 => IF inbox = <<>> THEN req.method \in AsksFor(call)
                              ELSE inbox[Len(inbox)].method \in AsksFor(call)

\* Where the program can be, by the call it is in and by what it holds.
Placed ==
  /\ terminal => guided
  /\ lpc \in {"configure", "connect", "plan", "review", "requests", "until", "seen"} => ~guided
  /\ lpc \in {"until", "seen"} => call \in {"connect", "createPlan", "engage"}
  /\ lpc \in {"fly", "flown"} => guided /\ ~terminal
  /\ lpc = "await" =>
       /\ call \in {"connect", "createPlan", "engage"} => ~guided
       /\ call \in {"saveCheckpoint", "abort", "release"} => guided
       /\ call # "shutdown" => ~terminal
  /\ lpc \in {"close", "closing", "done"} => call = "shutdown" \/ ~Up

(***************************************************************************)
(* The flight of a client.                                                 *)
(***************************************************************************)
\* A flight that is over, or has reported the stop on the runway.
Landed ==
  \/ flight = NoTask
  \/ phase = "Complete" /\ tasks[flight].pc \notin {"prepare", "connect", "ready"}

\* A flight was engaged, and nothing that could start another is under way.
NoStartServed == ~Resting => req.method \notin Starts
NoStart == NoStartServed /\ \A i \in 1..Len(inbox) : inbox[i].method \notin Starts

NoSearch ==
  /\ planning = NoTask
  /\ \A e \in Epochs : Current(e) /\ tasks[e].kind = "plan" => tasks[e].pc \in {"off", "done"}

FlightTold == phase \in Over => Landed

LastFlight == NoStart /\ NoSearch /\ FlightTold

\* The answer that accepts the request of the call.
Accepts(i) == pipe[i].type = "ok" /\ pipe[i].id = sent

\* What stands in the pipe behind place i was written after the acceptance of
\* the flight.
AcceptedBefore(i) ==
  \/ guided
  \/ call = "engage" /\ lpc \in {"until", "seen"}
  \/ call = "engage" /\ lpc = "await" /\ \E k \in 1..(i - 1) : Accepts(k)

FlightAccepted == AcceptedBefore(Len(pipe) + 1)

\* A final phase the client reads, or has read, about its flight is true; so is
\* the abort it has been told of.
ToldInPipe ==
  \A i \in 1..Len(pipe) :
    /\ AcceptedBefore(i) /\ pipe[i].snap.phase \in Over => Landed
    /\ lpc = "await" /\ call = "abort" /\ Accepts(i) => flight = NoTask

Told ==
  /\ FlightAccepted => LastFlight
  /\ ToldInPipe
  /\ guided /\ latest.phase \in Over => Landed
  /\ terminal => Landed

\* Generations that were not started, and the owner of an engagement.
Unstarted ==
  /\ \A e \in Epochs : e > generation => tasks[e].pc = "off"
  /\ engaged => flight # NoTask

\* The request a handler is at work on, by the place it is in.
InHand ==
  /\ hpc = "connect" => req.method = "connect"
  /\ hpc = "save" => req.method = "saveCheckpoint"
  /\ hpc \in {"stopping", "closing", "closed", "gone"} => req.method \in StopMethods

LinkInv ==
  /\ IInv /\ LinkTypeOK /\ Numbered /\ LastAsked /\ Placed
  /\ Unstarted /\ InHand /\ Told

(***************************************************************************)
(* The steps of the composition, by what they do to the pipes.             *)
(***************************************************************************)
\* Sending a request, for a call that asks for its method.
Asks(c) ==
  /\ sent < MaxRequests
  /\ call' = c /\ sent' = sent + 1 /\ lpc' = "await" /\ fresh' = FALSE
  /\ \E m \in AsksFor(c), conf \in Configs :
       inbox' = Append(inbox, [id |-> sent + 1, method |-> m, conf |-> conf])
  /\ UNCHANGED <<vars, serving, down, latest, pipe, stop, mode, guided, terminal>>

\* Anything else the client does, or the operator, or who kills a process.
Elsewhere ==
  /\ UNCHANGED <<vars, serving, call, sent, inbox, mode>>
  /\ \/ UNCHANGED pipe
     \/ TakesFirst
     \/ lpc' = "closing" /\ pipe' = <<>>
  /\ lpc = "configure" => lpc' = "configure"
  /\ down => down'

\* A call puts its line behind the others and waits.
LEMMA CallAsks ==
  ASSUME NEW c \in Calls, NEW m \in AsksFor(c), NEW conf \in Configs, Calling(c, m, conf),
         UNCHANGED <<guided, terminal>>
  PROVE  Asks(c)
  BY DEF Calling, Asks, server

\* Every step of a session is one of these.
LEMMA LinkSteps ==
  ASSUME LinkNext
  PROVE  \/ ServerReceives \/ ServerStep \/ Elsewhere
         \/ \E c \in Calls : Asks(c)
  <1>1. /\ Site \in Configs /\ NoConf \in Configs
        /\ \A c \in Calls : c # "release" => c \in AsksFor(c)
        /\ "engageReentry" \in AsksFor("engage") /\ "abort" \in AsksFor("release")
    BY LinkAssumption DEF Configs, AsksFor, Calls
  <1> USE DEF server, asked, client, duty
  <1>2. CASE ReadSnapshot \/ ReadResponse \/ SkipResponse \/ ReadEndOfFile \/ CallTimesOut
    BY <1>2 DEF Elsewhere, ReadSnapshot, ReadResponse, SkipResponse, ReadEndOfFile,
       CallTimesOut, Raise, Return
  <1>3. CASE Configure \/ OpenConnection \/ Execute \/ SaveOnPhase \/ ToggleWarp
    BY <1>1, <1>3, CallAsks DEF Configure, OpenConnection, Execute, SaveOnPhase, ToggleWarp, Calls
  <1>4. CASE SeeConnection \/ CreatePlan
    BY <1>1, <1>4, CallAsks DEF SeeConnection, CreatePlan, Moves, Elsewhere, Calls
  <1>5. CASE SeePlan
    BY <1>1, <1>5, CallAsks DEF SeePlan, Moves, Elsewhere, Calls
  <1>6. CASE FlightPolls
    BY <1>1, <1>6, CallAsks DEF FlightPolls, Pump, Moves, Elsewhere, Calls
  <1>7. CASE Unwind \/ Shutdown
    BY <1>1, <1>7, CallAsks DEF Unwind, Shutdown, Moves, Elsewhere, Calls
  <1>8. CASE ReviewPolls \/ NoMoreRequests \/ SeeEngagement \/ FlightGoesOn \/ Replan
    BY <1>8 DEF ReviewPolls, PumpReview, Pump, NoMoreRequests, SeeEngagement,
       FlightGoesOn, Replan, Moves, Raise, Elsewhere
  <1>9. CASE FlightTimesOut \/ Wait \/ ClosePipes \/ OperatorStops \/ BackendDies
    BY <1>9 DEF FlightTimesOut, Wait, ClosePipes, OperatorStops, BackendDies, Moves, Elsewhere
  <1> QED BY <1>2, <1>3, <1>4, <1>5, <1>6, <1>7, <1>8, <1>9 DEF LinkNext, ClientStep, Operator

(***************************************************************************)
(* The two pipes.                                                          *)
(***************************************************************************)
\* The line of a new request is the last one.
LEMMA AskedInbox ==
  ASSUME LinkTypeOK, NEW c \in Calls, Asks(c)
  PROVE  \E m \in AsksFor(c), conf \in Configs :
           /\ inbox' \in Seq(Line) /\ Len(inbox') = Len(inbox) + 1
           /\ \A i \in 1..Len(inbox) : inbox'[i] = inbox[i]
           /\ inbox'[Len(inbox) + 1] = [id |-> sent + 1, method |-> m, conf |-> conf]
  <1>1. PICK m \in AsksFor(c), conf \in Configs :
          inbox' = Append(inbox, [id |-> sent + 1, method |-> m, conf |-> conf])
    BY DEF Asks
  <1>2. m \in Methods
    BY DEF AsksFor, Calls, Methods, ConfigurableMethods, StopMethods
  <1>3. sent + 1 \in 1..MaxRequests
    BY LinkAssumption DEF LinkTypeOK, Asks
  <1>4. [id |-> sent + 1, method |-> m, conf |-> conf] \in Line
    BY <1>2, <1>3 DEF Line
  <1> QED BY <1>1, <1>4, AppendProperties DEF LinkTypeOK

\* Reading moves every other message one place forward.
LEMMA FirstTaken ==
  ASSUME LinkTypeOK, TakesFirst
  PROVE  /\ pipe' \in Seq(Message) /\ Len(pipe) = Len(pipe') + 1
         /\ First \in Message /\ First = pipe[1]
         /\ \A i \in 1..Len(pipe') : pipe'[i] = pipe[i + 1]
  <1>1. pipe \in Seq(Message) /\ pipe # <<>> /\ pipe' = Tail(pipe)
    BY DEF LinkTypeOK, TakesFirst
  <1>2. Len(pipe) \in Nat /\ Len(pipe') = Len(pipe) - 1 /\ Head(pipe) = pipe[1]
    BY <1>1, HeadTailProperties, LenProperties
  <1> QED BY <1>1, <1>2, HeadTailProperties DEF First

\* So does receiving, at the other pipe.
LEMMA LineTaken ==
  ASSUME LinkTypeOK, inbox # <<>>, inbox' = Tail(inbox)
  PROVE  /\ inbox' \in Seq(Line) /\ Len(inbox) = Len(inbox') + 1
         /\ Head(inbox) \in Line /\ Head(inbox) = inbox[1]
         /\ \A i \in 1..Len(inbox') : inbox'[i] = inbox[i + 1]
  <1>1. inbox \in Seq(Line)
    BY DEF LinkTypeOK
  <1>2. Len(inbox) \in Nat /\ Len(inbox') = Len(inbox) - 1 /\ Head(inbox) = inbox[1]
    BY <1>1, HeadTailProperties, LenProperties
  <1> QED BY <1>1, <1>2, HeadTailProperties

\* The message a server's output stands for.
MessageOf(o) == IF o = "snapshot" THEN [type |-> "snapshot", id |-> 0, snap |-> Snapshot]
                                  ELSE [type |-> o, id |-> serving, snap |-> NoSnapshot]

\* A snapshot of a well-typed server is one.
LEMMA NextSnapshot == TypeOK' => Snapshot' \in Snapshots
  BY DEF TypeOK, Snapshot, Snapshots, Plan

\* An output is at most an answer and a snapshot, in this order.
LEMMA OutputForm ==
  ASSUME TypeOK'
  PROVE  /\ out' \in Seq({"snapshot", "ok", "error"}) /\ Len(out') \in 0..2
         /\ \A i \in 1..Len(out') : out'[i] # "snapshot" => i = 1
  <1>1. CASE out' = <<>>
    BY <1>1
  <1>2. CASE out' = <<"snapshot">>
    BY <1>2
  <1>3. CASE out' = <<"ok">>
    BY <1>3
  <1>4. ASSUME NEW a \in Answers, out' = <<a, "snapshot">>
        PROVE  /\ out' \in Seq({"snapshot", "ok", "error"}) /\ Len(out') \in 0..2
               /\ \A i \in 1..Len(out') : out'[i] # "snapshot" => i = 1
    BY <1>4 DEF Answers
  <1> QED BY <1>1, <1>2, <1>3, <1>4 DEF TypeOK, Outputs

\* What the server writes comes behind what the client has not read, or, once the
\* pipes are closed, reaches nobody.
LEMMA OutputWritten ==
  ASSUME LinkTypeOK, TypeOK', serving' \in 0..MaxRequests, ServerWrites
  PROVE  /\ pipe' \in Seq(Message) /\ Len(pipe') <= MaxPipe
         /\ \/ pipe' = <<>> /\ lpc \in {"closing", "done"}
            \/ /\ Len(pipe') = Len(pipe) + Len(out')
               /\ \A i \in 1..Len(pipe) : pipe'[i] = pipe[i]
               /\ \A i \in 1..Len(out') : pipe'[Len(pipe) + i] = MessageOf(out[i])'
  <1>0. pipe \in Seq(Message) /\ Len(pipe) \in Nat
    BY LenProperties DEF LinkTypeOK
  <1>1. out' \in Seq({"snapshot", "ok", "error"}) /\ Len(out') \in Nat
    BY OutputForm
  <1>2. ASSUME NEW i \in 1..Len(out') PROVE MessageOf(out[i])' \in Message
    <2>1. out'[i] \in {"snapshot", "ok", "error"}
      BY <1>1, ElementOfSeq
    <2>2. Snapshot' \in Snapshots /\ NoSnapshot \in Snapshots
      BY NextSnapshot, ServerAssumption DEF NoSnapshot, Snapshots, NoTask
    <2>3. 0 \in 0..MaxRequests
      BY LinkAssumption
    <2> QED BY <2>1, <2>2, <2>3 DEF MessageOf, Message, Answers
  <1>3. Written' = [i \in 1..Len(out') |-> MessageOf(out[i])']
    BY DEF Written, MessageOf
  <1>4. Written' \in [1..Len(out') -> Message]
    BY <1>2, <1>3
  <1>5. Written' \in Seq(Message)
    BY <1>1, <1>4, SeqDef
  <1>6. Len(Written') = Len(out')
    <2>1. DOMAIN Written' = 1..Len(Written') /\ Len(Written') \in Nat
      BY <1>5, LenProperties
    <2>2. DOMAIN Written' = 1..Len(out')
      BY <1>4
    <2> QED BY <1>1, <2>1, <2>2
  <1>7. CASE lpc \in {"closing", "done"}
    BY <1>7, LinkAssumption DEF ServerWrites
  <1>8. CASE lpc \notin {"closing", "done"}
    <2>1. pipe' = pipe \o Written' /\ Len(pipe') <= MaxPipe
      BY <1>8 DEF ServerWrites
    <2>2. /\ pipe' \in Seq(Message) /\ Len(pipe') = Len(pipe) + Len(out')
          /\ \A i \in 1..(Len(pipe) + Len(out')) :
               pipe'[i] = IF i <= Len(pipe) THEN pipe[i] ELSE Written'[i - Len(pipe)]
      <3>1. /\ pipe \o Written' \in Seq(Message)
            /\ Len(pipe \o Written') = Len(pipe) + Len(Written')
            /\ \A i \in 1..(Len(pipe) + Len(Written')) : (pipe \o Written')[i] =
                 IF i <= Len(pipe) THEN pipe[i] ELSE Written'[i - Len(pipe)]
        BY <1>0, <1>5, ConcatProperties
      <3> QED BY <1>6, <2>1, <3>1
    <2>3. \A i \in 1..Len(pipe) : pipe'[i] = pipe[i]
      BY <1>0, <1>1, <2>2
    <2>4. ASSUME NEW i \in 1..Len(out')
          PROVE  pipe'[Len(pipe) + i] = MessageOf(out[i])'
      <3>1. /\ Len(pipe) + i \in 1..(Len(pipe) + Len(out'))
            /\ ~(Len(pipe) + i <= Len(pipe)) /\ (Len(pipe) + i) - Len(pipe) = i
        BY <1>0, <1>1
      <3>2. pipe'[Len(pipe) + i] = Written'[i]
        BY <2>2, <3>1
      <3> QED BY <1>3, <3>2
    <2> QED BY <2>1, <2>2, <2>3, <2>4
  <1> QED BY <1>7, <1>8

(***************************************************************************)
(* The composition implements the server.                                  *)
(***************************************************************************)
\* Receiving a request leaves the client alone.
LEMMA ReceiveFrame ==
  ASSUME ServerReceives
  PROVE  UNCHANGED <<client, stop, down>> /\ ~down /\ ServerWrites
  BY DEF ServerReceives

\* So does every other step of the server, which receives nothing.
LEMMA ServeFrame ==
  ASSUME ServerStep
  PROVE  /\ UNCHANGED <<client, inbox, serving, stop, down>> /\ ~down /\ ServerWrites
         /\ \/ Handler
            \/ \E e \in Epochs : PlanningStep(e) \/ SearchProgress(e)
                                 \/ FlightStep(e) \/ RuntimeStep(e)
  BY DEF ServerStep, Serve

\* Whatever happens in a session is a step of the server or none of it.
LEMMA ServerMoves ==
  ASSUME LinkTypeOK, [LinkNext]_lvars
  PROVE  [Next]_vars
  <1>1. CASE ServerReceives
    <2>1. PICK r : r = [method |-> Head(inbox).method, conf |-> Head(inbox).conf] /\ Receive(r)
      BY <1>1 DEF ServerReceives
    <2>2. Head(inbox) \in Line
      BY <1>1, LineTaken DEF ServerReceives
    <2>3. r \in Requests
      BY <2>1, <2>2 DEF Line, Requests
    <2> QED BY <2>1, <2>3 DEF Next
  <1>2. CASE ServerStep
    BY <1>2, ServeFrame DEF Next
  <1>3. CASE Elsewhere \/ \E c \in Calls : Asks(c)
    BY <1>3 DEF Elsewhere, Asks
  <1>4. CASE UNCHANGED lvars
    BY <1>4 DEF lvars, server
  <1> QED BY <1>1, <1>2, <1>3, <1>4, LinkSteps

(***************************************************************************)
(* Types of the composition.                                               *)
(***************************************************************************)
\* The program's own variables.
LEMMA ProgramTypes ==
  ASSUME LinkTypeOK, LinkNext
  PROVE  /\ mode' \in Modes /\ lpc' \in Places /\ call' \in Calls
         /\ fresh' \in BOOLEAN /\ guided' \in BOOLEAN /\ terminal' \in BOOLEAN
         /\ stop' \in BOOLEAN /\ down' \in BOOLEAN
  <1> USE DEF LinkTypeOK, server, asked, seen, duty, client
  <1>1. CASE ServerReceives \/ ServerStep
    BY <1>1, ReceiveFrame, ServeFrame
  <1>2. CASE ReadSnapshot \/ ReadResponse \/ SkipResponse \/ ReadEndOfFile \/ CallTimesOut
    BY <1>2 DEF ReadSnapshot, ReadResponse, SkipResponse, ReadEndOfFile, CallTimesOut,
       Raise, Return, Places
  <1>3. CASE Configure \/ OpenConnection \/ Execute \/ SaveOnPhase \/ ToggleWarp
    BY <1>3 DEF Configure, OpenConnection, Execute, SaveOnPhase, ToggleWarp, Calling, Places, Calls
  <1>4. CASE SeeConnection \/ CreatePlan \/ SeePlan
    BY <1>4 DEF SeeConnection, CreatePlan, SeePlan, Calling, Moves, Places, Calls
  <1>5. CASE FlightPolls \/ Unwind \/ Shutdown
    BY <1>5 DEF FlightPolls, Pump, Unwind, Shutdown, Calling, Moves, Places, Calls
  <1>6. CASE ReviewPolls \/ NoMoreRequests \/ SeeEngagement \/ FlightGoesOn \/ Replan
    BY <1>6 DEF ReviewPolls, PumpReview, Pump, NoMoreRequests, SeeEngagement,
       FlightGoesOn, Replan, Moves, Raise, Places
  <1>7. CASE FlightTimesOut \/ Wait \/ ClosePipes \/ OperatorStops \/ BackendDies
    BY <1>7 DEF FlightTimesOut, Wait, ClosePipes, OperatorStops, BackendDies, Moves, Places
  <1> QED BY <1>1, <1>2, <1>3, <1>4, <1>5, <1>6, <1>7 DEF LinkNext, ClientStep, Operator

\* What the client knows was a snapshot in the pipe.
LEMMA KnowledgeTypes ==
  ASSUME LinkTypeOK, LinkNext
  PROVE  latest' \in Snapshots /\ reviewed' \in 0..MaxGeneration
  <1> USE DEF LinkTypeOK, server, asked, seen, duty, client
  <1>1. TakesFirst => First.snap \in Snapshots
    BY FirstTaken DEF Message
  <1>2. latest.plan \in 0..MaxGeneration
    BY DEF Snapshots
  <1>3. CASE ServerReceives \/ ServerStep
    BY <1>3, ReceiveFrame, ServeFrame
  <1>4. CASE ReadSnapshot \/ ReadResponse \/ SkipResponse \/ ReadEndOfFile \/ CallTimesOut
    BY <1>1, <1>4 DEF ReadSnapshot, ReadResponse, SkipResponse, ReadEndOfFile, CallTimesOut
  <1>5. CASE Configure \/ OpenConnection \/ Execute \/ SaveOnPhase \/ ToggleWarp
    BY <1>5 DEF Configure, OpenConnection, Execute, SaveOnPhase, ToggleWarp, Calling
  <1>6. CASE SeeConnection \/ CreatePlan \/ SeePlan
    BY <1>2, <1>6 DEF SeeConnection, CreatePlan, SeePlan, Calling, Moves
  <1>7. CASE FlightPolls \/ Unwind \/ Shutdown
    BY <1>1, <1>7 DEF FlightPolls, Pump, Unwind, Shutdown, Calling, Moves
  <1>8. CASE ReviewPolls \/ NoMoreRequests \/ SeeEngagement \/ FlightGoesOn \/ Replan
    BY <1>1, <1>8 DEF ReviewPolls, PumpReview, Pump, NoMoreRequests, SeeEngagement,
       FlightGoesOn, Replan, Moves
  <1>9. CASE FlightTimesOut \/ Wait \/ ClosePipes \/ OperatorStops \/ BackendDies
    BY <1>9 DEF FlightTimesOut, Wait, ClosePipes, OperatorStops, BackendDies, Moves
  <1> QED BY <1>3, <1>4, <1>5, <1>6, <1>7, <1>8, <1>9 DEF LinkNext, ClientStep, Operator

\* No step leaves the types of the composition.
LEMMA LinkTypeStep ==
  ASSUME LinkTypeOK, TypeOK', LinkNext
  PROVE  LinkTypeOK'
  <1>1. CASE ServerReceives
    <2>1. /\ inbox' \in Seq(Line) /\ serving' \in 0..MaxRequests /\ UNCHANGED sent
      BY <1>1, LineTaken, LinkAssumption DEF ServerReceives, Line, client, LinkTypeOK
    <2>2. pipe' \in Seq(Message) /\ Len(pipe') <= MaxPipe
      BY <1>1, <2>1, OutputWritten DEF ServerReceives
    <2> QED BY <2>1, <2>2, ProgramTypes, KnowledgeTypes DEF LinkTypeOK
  <1>2. CASE ServerStep
    <2>1. /\ inbox' \in Seq(Line) /\ serving' \in 0..MaxRequests /\ UNCHANGED sent
      BY <1>2, ServeFrame DEF client, LinkTypeOK
    <2>2. pipe' \in Seq(Message) /\ Len(pipe') <= MaxPipe
      BY <1>2, <2>1, OutputWritten, ServeFrame
    <2> QED BY <2>1, <2>2, ProgramTypes, KnowledgeTypes DEF LinkTypeOK
  <1>3. ASSUME NEW c \in Calls, Asks(c) PROVE LinkTypeOK'
    <2>1. inbox' \in Seq(Line)
      BY <1>3, AskedInbox
    <2>2. sent' \in 0..MaxRequests /\ UNCHANGED <<serving, pipe>>
      BY <1>3, LinkAssumption DEF Asks, LinkTypeOK
    <2> QED BY <2>1, <2>2, ProgramTypes, KnowledgeTypes DEF LinkTypeOK
  <1>4. CASE Elsewhere
    <2>1. UNCHANGED <<inbox, sent, serving>>
      BY <1>4 DEF Elsewhere
    <2>2. pipe' \in Seq(Message) /\ Len(pipe') <= MaxPipe
      <3>1. CASE UNCHANGED pipe
        BY <3>1 DEF LinkTypeOK
      <3>2. CASE TakesFirst
        BY <3>2, FirstTaken, LenProperties, LinkAssumption DEF LinkTypeOK
      <3>3. CASE pipe' = <<>>
        BY <3>3, LinkAssumption
      <3> QED BY <1>4, <3>1, <3>2, <3>3 DEF Elsewhere
    <2> QED BY <2>1, <2>2, ProgramTypes, KnowledgeTypes DEF LinkTypeOK
  <1> QED BY <1>1, <1>2, <1>3, <1>4, LinkSteps

\* The session begins as the server does, with empty pipes.
LEMMA LinkInitTypes ==
  ASSUME LinkInit
  PROVE  IInv /\ LinkTypeOK
  <1>1. NoSnapshot \in Snapshots
    BY ServerAssumption DEF NoSnapshot, Snapshots, NoTask
  <1>2. inbox \in Seq(Line) /\ pipe \in Seq(Message) /\ Len(pipe) <= MaxPipe
    <2>1. inbox = <<>> /\ pipe = <<>>
      BY DEF LinkInit
    <2> QED BY <2>1, LinkAssumption
  <1>3. IInv
    BY InitInv DEF LinkInit
  <1>4. /\ mode \in Modes /\ lpc \in Places /\ call \in Calls
        /\ latest \in Snapshots /\ fresh \in BOOLEAN
        /\ guided \in BOOLEAN /\ terminal \in BOOLEAN /\ stop \in BOOLEAN /\ down \in BOOLEAN
    BY <1>1 DEF LinkInit, Places, Calls
  <1>5. sent \in 0..MaxRequests /\ serving \in 0..MaxRequests /\ reviewed \in 0..MaxGeneration
    BY LinkAssumption, ServerAssumption DEF LinkInit, NoTask
  <1> QED BY <1>2, <1>3, <1>4, <1>5 DEF LinkTypeOK

\* Types and ownership keep themselves, whichever end of the pipes moves.
LEMMA SessionInv ==
  ASSUME IInv, LinkTypeOK, [LinkNext]_lvars
  PROVE  IInv' /\ LinkTypeOK'
  <1>1. IInv'
    BY ServerMoves, InvStep
  <1>2. TypeOK'
    BY <1>1 DEF IInv
  <1>3. CASE UNCHANGED lvars
    BY <1>1, <1>3 DEF lvars, LinkTypeOK, server, client, asked, seen, duty
  <1> QED BY <1>1, <1>2, <1>3, LinkTypeStep

\* The server's invariant and the types of the composition hold throughout.
THEOREM LinkTypes == LinkSpec => [](IInv /\ LinkTypeOK)
  BY LinkInitTypes, SessionInv, PTL DEF LinkSpec

\* Every variable of the composition keeps its type.
THEOREM LinkTypeCorrect == LinkSpec => []LinkTypeOK
  BY LinkTypes, PTL

\* With a client at the other end of its pipes the server does nothing that
\* BackendServer does not allow: what is proved of it alone holds in a session.
THEOREM LinkImplementsServer == LinkSpec => Spec
  <1>1. LinkInit => Init
    BY DEF LinkInit
  <1> QED BY <1>1, ServerMoves, LinkTypeCorrect, PTL DEF LinkSpec, Spec

(***************************************************************************)
(* What a step of the server does to the flight it was engaged for.        *)
(***************************************************************************)
TaskSpeaks(e) == PlanningStep(e) \/ SearchProgress(e) \/ FlightStep(e) \/ RuntimeStep(e)

\* A task moves itself only, and neither the request nor the generation.
LEMMA TaskFrame ==
  ASSUME TypeOK, NEW e \in Epochs, TaskSpeaks(e)
  PROVE  /\ UNCHANGED <<generation, req, hpc>> /\ tasks[e].pc \notin {"off", "done"}
         /\ \A d \in Epochs \ {e} : tasks'[d] = tasks[d]
         /\ tasks'[e].kind = tasks[e].kind
         /\ out' = <<>> \/ out' = <<"snapshot">>
  <1> USE DEF TypeOK, AtStep, handler, Task
  <1>1. CASE PreparationThrows(e) \/ PlanningPrepared(e) \/ SearchProgress(e) \/ SearchThrows(e)
    BY <1>1 DEF PreparationThrows, PlanningPrepared, SearchProgress, SearchThrows,
       Throw, Goto, Quiet, Publish
  <1>2. CASE PlanFound(e) \/ Reconnected(e) \/ ReconnectFails(e)
    BY <1>2 DEF PlanFound, Reconnected, ReconnectFails, StorePlan, Goto, Quiet, Publish
  <1>3. ASSUME NEW s \in TaskSteps, NEW c \in Configs, Goto(e, s) \/ Bind(e, s, c)
        PROVE  /\ \A d \in Epochs \ {e} : tasks'[d] = tasks[d]
               /\ tasks'[e].kind = tasks[e].kind
    <2>1. \A d \in Epochs \ {e} : tasks'[d] = tasks[d]
      BY <1>3 DEF Goto, Bind
    <2> QED BY <1>3, <2>1, GotoTask, BindTask
  <1>4. /\ configuration \in Configs /\ io \in Configs /\ Configurations \subseteq Configs
        /\ {"done", "reconnect", "release", "ready", "connect", "failed"} \subseteq TaskSteps
    BY DEF Configs, TaskSteps
  <1>7. CASE OldAdapterReleased(e)
    <2>1. Goto(e, "done") \/ Bind(e, "reconnect", configuration)
      BY <1>7 DEF OldAdapterReleased, StorePlan
    <2> QED BY <1>3, <1>4, <1>7, <2>1 DEF OldAdapterReleased, StorePlan, Quiet, Publish
  <1>8. ASSUME NEW c \in Configurations, OtherRunwayFound(e, c)
        PROVE  /\ UNCHANGED <<generation, req, hpc>> /\ tasks[e].pc \notin {"off", "done"}
               /\ \A d \in Epochs \ {e} : tasks'[d] = tasks[d]
               /\ tasks'[e].kind = tasks[e].kind
               /\ out' = <<>> \/ out' = <<"snapshot">>
    <2>1. Goto(e, "release") \/ Bind(e, "reconnect", c)
      BY <1>8 DEF OtherRunwayFound
    <2> QED BY <1>3, <1>4, <1>8, <2>1 DEF OtherRunwayFound, Quiet
  <1>9. CASE LandingResolved(e)
    <2>1. tasks[e].pc = "prepare" /\ tasks[e].kind = "landing" /\ UNCHANGED <<generation, req, hpc>>
      BY <1>9 DEF LandingResolved
    <2>2. \A d \in Epochs \ {e} : tasks'[d] = tasks[d]
      BY <1>9 DEF LandingResolved
    <2>3. tasks'[e].kind = "landing" /\ out' = <<>>
      BY <1>9 DEF LandingResolved, Quiet
    <2> QED BY <2>1, <2>2, <2>3
  <1>10. CASE DeorbitPrepares(e) \/ DeorbitConnected(e)
    <2>1. \/ Bind(e, "ready", io) \/ Bind(e, "connect", configuration)
          \/ Goto(e, "ready") \/ Goto(e, "failed")
      BY <1>10 DEF DeorbitPrepares, DeorbitConnected, Throw
    <2>2. /\ tasks[e].pc \in {"prepare", "connect"} /\ UNCHANGED <<generation, req, hpc>>
          /\ out' = <<>>
      BY <1>10 DEF DeorbitPrepares, DeorbitConnected, Throw, Quiet
    <2> QED BY <1>3, <1>4, <2>1, <2>2
  <1>5. CASE ArmingThrows(e) \/ TakeControl(e) \/ Observe(e) \/ RuntimeThrows(e)
    BY <1>5 DEF ArmingThrows, TakeControl, Observe, RuntimeThrows, Throw, Goto, Quiet, Publish
  <1>6. CASE TaskFailed(e) \/ FailedFlightClosed(e) \/ RuntimeReturns(e)
    BY <1>6 DEF TaskFailed, FailedFlightClosed, RuntimeReturns, FlightOver, Goto, Quiet, Publish
  <1> QED BY <1>1, <1>2, <1>5, <1>6, <1>7, <1>8, <1>9, <1>10
          DEF TaskSpeaks, PlanningStep, FlightStep, RuntimeStep

Engages == EngageDeorbit \/ EngageLanding

\* A start takes the next generation, which no task has had.
LEMMA StartFrame ==
  ASSUME TypeOK, Room, StartPlanning \/ Engages
  PROVE  /\ generation' = generation + 1 /\ generation' \in Epochs
         /\ \A d \in Epochs \ {generation'} : tasks'[d] = tasks[d]
         /\ tasks'[generation'].pc = "prepare"
         /\ tasks'[generation'].kind = "plan" <=> StartPlanning
         /\ planning = NoTask /\ flight = NoTask /\ ~engaged /\ UNCHANGED <<engaged, req>>
         /\ out' = <<"ok", "snapshot">> /\ hpc = "dispatch" /\ hpc' = "idle"
         /\ IF StartPlanning
            THEN planning' = generation' /\ flight' = NoTask /\ req.method = "createPlan"
            ELSE /\ flight' = generation' /\ planning' = NoTask /\ phase' = "Preparing"
                 /\ req.method \in {"engage", "engageReentry"}
  <1> USE DEF Busy, Start, NewGeneration, Succeed
  <1>1. generation + 1 <= MaxGeneration /\ generation + 1 \in Epochs
    BY ServerAssumption DEF Room, StartPlanning, Engages, EngageDeorbit, EngageLanding,
       TypeOK, Epochs
  <1>2. /\ NoPlan \in Plan /\ plan \in Plan
        /\ "plan" \in TaskKinds /\ "deorbit" \in TaskKinds /\ "landing" \in TaskKinds
    BY ServerAssumption DEF TypeOK, NoPlan, NoTask, Plan, Configs, TaskKinds
  <1>3. CASE StartPlanning
    <2>1. Start("plan", NoPlan)
      BY <1>3 DEF StartPlanning
    <2> HIDE DEF Start
    <2>2. /\ \A d \in Epochs \ {generation + 1} : tasks'[d] = tasks[d]
          /\ tasks'[generation + 1].kind = "plan" /\ tasks'[generation + 1].pc = "prepare"
      BY <1>1, <1>2, <2>1, StartTask
    <2> QED BY <1>1, <1>3, <2>1, <2>2 DEF StartPlanning, Start
  <1>4. CASE EngageDeorbit
    <2>1. Start("deorbit", plan)
      BY <1>4 DEF EngageDeorbit
    <2> HIDE DEF Start
    <2>2. /\ \A d \in Epochs \ {generation + 1} : tasks'[d] = tasks[d]
          /\ tasks'[generation + 1].kind = "deorbit" /\ tasks'[generation + 1].pc = "prepare"
      BY <1>1, <1>2, <2>1, StartTask
    <2> QED BY <1>1, <1>4, <2>1, <2>2 DEF EngageDeorbit, StartPlanning, Start
  <1>5. CASE EngageLanding
    <2>1. Start("landing", NoPlan)
      BY <1>5 DEF EngageLanding
    <2> HIDE DEF Start
    <2>2. /\ \A d \in Epochs \ {generation + 1} : tasks'[d] = tasks[d]
          /\ tasks'[generation + 1].kind = "landing" /\ tasks'[generation + 1].pc = "prepare"
      BY <1>1, <1>2, <2>1, StartTask
    <2> QED BY <1>1, <1>5, <2>1, <2>2 DEF EngageLanding, StartPlanning, Start
  <1> QED BY <1>3, <1>4, <1>5 DEF Engages

\* Every other part of a request leaves the tasks alone, keeps its method, and at
\* most counts a generation.
LEMMA HandlerFrame ==
  ASSUME TypeOK, Handler, ~StartPlanning, ~Engages
  PROVE  /\ tasks' = tasks /\ generation' \in {generation, generation + 1}
         /\ ~Resting /\ req'.method = req.method
         /\ engaged' => engaged
         /\ \/ UNCHANGED <<planning, flight, engaged>>
            \/ planning' = NoTask /\ flight' = NoTask /\ ~engaged'
  <1> USE DEF TypeOK, handles, Resting, Quiet, Fail, Succeed, NewGeneration
  <1>1. CASE RejectConfiguration \/ ApplyConfiguration \/ CloseOldAdapter
    BY <1>1 DEF RejectConfiguration, ApplyConfiguration, CloseOldAdapter
  <1>2. CASE AnswerAtOnce \/ Connect \/ Connected \/ SaveCheckpoint \/ CheckpointSaved
    BY <1>2 DEF AnswerAtOnce, Connect, Connected, SaveCheckpoint, CheckpointSaved
  <1>3. CASE RejectStart \/ StopAll \/ TasksStopped \/ Stopped
    BY <1>3 DEF RejectStart, StopAll, TasksStopped, Stopped
  <1> QED BY <1>1, <1>2, <1>3 DEF Handler, Engages

\* Any step of the server is one of these.
LEMMA ServerSteps ==
  ASSUME Next
  PROVE  \/ \E r \in Requests : Receive(r)
         \/ EndOfInput \/ StartPlanning \/ Engages
         \/ Handler /\ ~StartPlanning /\ ~Engages
         \/ \E e \in Epochs : TaskSpeaks(e)
  BY DEF Next, TaskSpeaks

\* A handler stays with its request.
LEMMA InHandStep ==
  ASSUME TypeOK, Room, InHand, Next
  PROVE  InHand'
  <1> USE DEF InHand
  <1>1. CASE EndOfInput \/ \E r \in Requests : Receive(r)
    BY <1>1 DEF EndOfInput, Receive, Fail
  <1>2. CASE StartPlanning \/ Engages
    BY <1>2, StartFrame
  <1>3. CASE \E e \in Epochs : TaskSpeaks(e)
    BY <1>3, TaskFrame
  <1>4. CASE Handler /\ ~StartPlanning /\ ~Engages
    <2> USE DEF Succeed, Fail
    <2>1. req'.method = req.method
      BY <1>4, HandlerFrame
    <2>2. CASE RejectConfiguration \/ ApplyConfiguration \/ CloseOldAdapter
      BY <2>1, <2>2 DEF RejectConfiguration, ApplyConfiguration, CloseOldAdapter
    <2>3. CASE AnswerAtOnce \/ Connect \/ Connected \/ SaveCheckpoint \/ CheckpointSaved
      BY <2>1, <2>3 DEF AnswerAtOnce, Connect, Connected, SaveCheckpoint, CheckpointSaved
    <2>4. CASE RejectStart \/ StopAll \/ TasksStopped \/ Stopped
      BY <2>1, <2>4 DEF RejectStart, StopAll, TasksStopped, Stopped, StopMethods
    <2> QED BY <1>4, <2>2, <2>3, <2>4 DEF Handler, Engages
  <1> QED BY <1>1, <1>2, <1>3, <1>4, ServerSteps

\* Tasks are started one generation after the other, and control is taken for a
\* flight that is held.
LEMMA UnstartedStep ==
  ASSUME TypeOK, Room, LiveOwned, StepKinds, Unstarted, Next
  PROVE  Unstarted'
  <1> USE DEF Unstarted, TypeOK
  <1>1. CASE EndOfInput \/ \E r \in Requests : Receive(r)
    BY <1>1 DEF EndOfInput, Receive, handles
  <1>2. CASE StartPlanning \/ Engages
    BY <1>2, StartFrame DEF Epochs
  <1>3. ASSUME NEW e \in Epochs, TaskSpeaks(e) PROVE Unstarted'
    <2>1. \A d \in Epochs : d > generation' => tasks'[d].pc = "off"
      BY <1>3, TaskFrame DEF Epochs
    <2>2. engaged' => flight' # NoTask
      <3> USE DEF handles
      <3>1. CASE PlanningStep(e) \/ SearchProgress(e)
        BY <3>1 DEF PlanningStep, SearchProgress, PreparationThrows, PlanningPrepared,
           SearchThrows, PlanFound, OtherRunwayFound, OldAdapterReleased, Reconnected,
           ReconnectFails
      <3>2. CASE TakeControl(e)
        <4>1. flight = e /\ flight' = flight
          BY <3>2 DEF TakeControl, AtStep, LiveOwned, OwnedSteps, StepKinds
        <4> QED BY <4>1 DEF Epochs, NoTask
      <3>3. CASE FlightStep(e) /\ ~TakeControl(e)
        BY <3>3 DEF FlightStep, LandingResolved, DeorbitPrepares, DeorbitConnected,
           ArmingThrows, TaskFailed, FailedFlightClosed, FlightOver
      <3>4. CASE RuntimeStep(e)
        BY <3>4 DEF RuntimeStep, Observe, RuntimeThrows, RuntimeReturns, FlightOver
      <3> QED BY <1>3, <3>1, <3>2, <3>3, <3>4 DEF TaskSpeaks
    <2> QED BY <2>1, <2>2
  <1>4. CASE Handler /\ ~StartPlanning /\ ~Engages
    <2>1. tasks' = tasks /\ generation' \in {generation, generation + 1}
      BY <1>4, HandlerFrame
    <2>2. \A d \in Epochs : d > generation' => tasks'[d].pc = "off"
      BY <2>1 DEF Epochs
    <2>3. engaged' => flight' # NoTask
      BY <1>4, HandlerFrame
    <2> QED BY <2>2, <2>3
  <1> QED BY <1>1, <1>2, <1>3, <1>4, ServerSteps

\* What an acknowledgement means for the flight.
LEMMA Acknowledged ==
  ASSUME TypeOK, Room, StopReleased, InHand, Next, out' # <<>>, out'[1] = "ok"
  PROVE  /\ req'.method = req.method /\ ~Resting
         /\ req.method \in {"engage", "engageReentry"} => Engages
         /\ req.method = "createPlan" => StartPlanning
         /\ req.method = "abort" => flight' = NoTask
  <1>1. ~(EndOfInput \/ \E r \in Requests : Receive(r))
    BY DEF EndOfInput, Receive, Quiet, Fail
  <1>2. ~ \E e \in Epochs : TaskSpeaks(e)
    BY TaskFrame
  <1>3. CASE StartPlanning \/ Engages
    <2>1. hpc = "dispatch" /\ req' = req
      BY <1>3, StartFrame
    <2> QED BY <1>3, <2>1
            DEF Resting, StartPlanning, Engages, EngageDeorbit, EngageLanding
  <1>4. CASE Handler /\ ~StartPlanning /\ ~Engages
    <2>1. req'.method = req.method /\ ~Resting
      BY <1>4, HandlerFrame
    <2>2. AnswerAtOnce \/ Connected \/ CheckpointSaved \/ Stopped
      BY <1>4 DEF Handler, Engages, RejectConfiguration, ApplyConfiguration, CloseOldAdapter,
         Connect, SaveCheckpoint, RejectStart, StopAll, TasksStopped, Quiet, Fail
    <2>3. CASE AnswerAtOnce
      BY <2>1, <2>3 DEF AnswerAtOnce
    <2>4. CASE Connected \/ CheckpointSaved
      BY <2>1, <2>4 DEF Connected, CheckpointSaved, InHand
    <2>5. CASE Stopped
      BY <2>1, <2>5 DEF Stopped, StopReleased, handles
    <2> QED BY <2>2, <2>3, <2>4, <2>5
  <1> QED BY <1>1, <1>2, <1>3, <1>4, ServerSteps

\* A flight that is under way is not over yet.
LEMMA FliesOn ==
  ASSUME TypeOK, LiveOwned, StepKinds, NoSearch, FlightTold, NEW e \in Epochs, TaskSpeaks(e),
         tasks[e].pc \in OwnedSteps
  PROVE  /\ flight = e /\ e # NoTask /\ tasks[e].kind # "plan"
         /\ tasks[e].pc \in {"prepare", "connect", "ready"} => ~Landed /\ phase \notin Over
         /\ phase # "Complete" => ~Landed /\ phase \notin Over
  <1>1. e # NoTask
    BY DEF Epochs, NoTask
  <1>2. tasks[e].kind # "plan" /\ flight = e
    BY <1>1 DEF NoSearch, LiveOwned
  <1> QED BY <1>1, <1>2 DEF Landed, FlightTold

\* While nothing else can start, a flight that is over stays over, and its end is
\* reported only when it has come.
LEMMA LastFlightKept ==
  ASSUME IInv, Unstarted, NoStartServed, NoSearch, FlightTold, Next
  PROVE  /\ NoSearch' /\ FlightTold' /\ (Landed => Landed')
         /\ flight = NoTask => flight' = NoTask
  <1>0. TypeOK /\ Room /\ LiveOwned /\ StepKinds /\ StopReleased
    BY DEF IInv, Ownership
  <1>1. CASE EndOfInput \/ \E r \in Requests : Receive(r)
    <2>1. UNCHANGED <<planning, flight, tasks, generation, phase>>
      BY <1>1 DEF EndOfInput, Receive, handles, report
    <2> QED BY <2>1 DEF NoSearch, FlightTold, Landed, Current
  <1>2. CASE StartPlanning \/ Engages
    <2>1. hpc = "dispatch" /\ req.method \in Starts
      BY <1>0, <1>2, StartFrame DEF Starts
    <2> QED BY <2>1 DEF NoStartServed, Resting
  <1>3. CASE Handler /\ ~StartPlanning /\ ~Engages
    <2>1. /\ tasks' = tasks /\ generation' \in {generation, generation + 1}
          /\ UNCHANGED <<planning, flight>> \/ (planning' = NoTask /\ flight' = NoTask)
      BY <1>0, <1>3, HandlerFrame
    <2>2. NoSearch'
      <3>1. planning' = NoTask
        BY <2>1 DEF NoSearch
      <3>2. ASSUME NEW e \in Epochs, e = generation', tasks[e].kind = "plan"
            PROVE  tasks[e].pc \in {"off", "done"}
        <4>1. CASE generation' = generation
          BY <3>2, <4>1 DEF NoSearch, Current
        <4>2. CASE generation' = generation + 1
          BY <1>0, <3>2, <4>2 DEF Unstarted, TypeOK
        <4> QED BY <2>1, <4>1, <4>2
      <3> QED BY <2>1, <3>1, <3>2 DEF NoSearch, Current
    <2>3. UNCHANGED phase \/ flight' = NoTask
      <3> USE DEF report
      <3>1. CASE Stopped
        BY <1>0, <3>1 DEF Stopped, StopReleased, handles
      <3> QED BY <1>3, <3>1 DEF Handler, Engages, RejectConfiguration, ApplyConfiguration,
          CloseOldAdapter, AnswerAtOnce, Connect, Connected, SaveCheckpoint, CheckpointSaved,
          RejectStart, StopAll, TasksStopped
    <2>4. CASE flight' = NoTask
      BY <2>2, <2>4 DEF Landed, FlightTold
    <2>5. CASE UNCHANGED <<flight, phase>>
      BY <2>1, <2>2, <2>5 DEF Landed, FlightTold
    <2> QED BY <2>1, <2>3, <2>4, <2>5
  <1>4. ASSUME NEW e \in Epochs, TaskSpeaks(e)
        PROVE  NoSearch' /\ FlightTold' /\ (Landed => Landed')
    <2>1. /\ generation' = generation /\ \A d \in Epochs \ {e} : tasks'[d] = tasks[d]
          /\ tasks'[e].kind = tasks[e].kind /\ tasks[e].pc \notin {"off", "done"}
      BY <1>0, <1>4, TaskFrame
    <2>2. tasks[e].kind = "plan" => ~Current(e) /\ tasks[e].pc \notin OwnedSteps
      BY <2>1 DEF NoSearch, IInv, Ownership, LiveOwned, Epochs, NoTask
    <2>3. planning' = NoTask
      BY <1>4 DEF NoSearch, NoTask, TaskSpeaks, PlanningStep, FlightStep, RuntimeStep, handles,
         PreparationThrows, PlanningPrepared, SearchProgress, SearchThrows, PlanFound,
         OtherRunwayFound, OldAdapterReleased, Reconnected, ReconnectFails, LandingResolved,
         DeorbitPrepares, DeorbitConnected, ArmingThrows, TakeControl, TaskFailed,
         FailedFlightClosed, Observe, RuntimeThrows, RuntimeReturns
    <2>4. NoSearch'
      BY <2>1, <2>2, <2>3 DEF NoSearch, Current
    <2>5. tasks[e].pc \in OwnedSteps =>
            /\ flight = e /\ e # NoTask /\ tasks[e].kind # "plan"
            /\ tasks[e].pc \in {"prepare", "connect", "ready"} => ~Landed /\ phase \notin Over
            /\ phase # "Complete" => ~Landed /\ phase \notin Over
      BY <1>0, <1>4, FliesOn
    <2>6. FlightTold' /\ (Landed => Landed')
      <3>1. CASE ~Landed /\ phase' \notin Over
        BY <3>1 DEF FlightTold
      <3>2. CASE flight' = NoTask
        BY <3>2 DEF FlightTold, Landed
      <3>3. CASE UNCHANGED <<flight, phase>> /\ tasks'[e].pc \notin {"prepare", "connect", "ready"}
        <4>1. flight # NoTask /\ flight # e => tasks'[flight] = tasks[flight]
          BY <1>0, <2>1 DEF TypeOK, Epochs, NoTask
        <4>2. Landed => Landed'
          BY <3>3, <4>1 DEF Landed
        <4> QED BY <3>3, <4>2 DEF FlightTold
      <3>4. CASE /\ ~Landed /\ flight' = e /\ phase' = "Complete"
                 /\ tasks'[e].pc \notin {"prepare", "connect", "ready"}
        BY <3>4 DEF FlightTold, Landed
      <3>5. CASE PreparationThrows(e) \/ LandingResolved(e) \/ DeorbitPrepares(e)
        BY <2>5, <3>1, <3>5 DEF PreparationThrows, LandingResolved, DeorbitPrepares, AtStep,
           OwnedSteps, report
      <3>6. CASE DeorbitConnected(e) \/ ArmingThrows(e) \/ TakeControl(e)
        BY <2>5, <3>1, <3>6 DEF DeorbitConnected, ArmingThrows, TakeControl, AtStep, OwnedSteps,
           report, Over
      <3>7. CASE \/ PlanningPrepared(e) \/ SearchProgress(e) \/ SearchThrows(e) \/ PlanFound(e)
                 \/ \E c \in Configurations : OtherRunwayFound(e, c)
        BY <1>0, <2>5, <3>7 DEF PlanningPrepared, SearchProgress, SearchThrows, PlanFound,
           OtherRunwayFound, AtStep, OwnedSteps, StepKinds
      <3>8. CASE OldAdapterReleased(e) \/ Reconnected(e) \/ ReconnectFails(e)
        <4>1. tasks[e].pc \in {"release", "reconnect"} /\ ~Current(e)
          BY <1>0, <2>2, <3>8 DEF OldAdapterReleased, Reconnected, ReconnectFails, AtStep, StepKinds
        <4>2. UNCHANGED <<flight, phase>> /\ Goto(e, "done")
          BY <3>8, <4>1 DEF OldAdapterReleased, Reconnected, ReconnectFails, handles, report
        <4> QED BY <1>0, <3>3, <4>2, GotoTask DEF TaskSteps
      <3>9. CASE TaskFailed(e) \/ FailedFlightClosed(e)
        <4>1. tasks[e].kind # "plan"
          BY <2>5, <3>9 DEF TaskFailed, FailedFlightClosed, AtStep, OwnedSteps
        <4>2. \/ flight' = NoTask
              \/ UNCHANGED <<flight, phase>> /\ (Goto(e, "done") \/ Goto(e, "closing"))
          BY <3>9, <4>1 DEF TaskFailed, FailedFlightClosed, FlightOver, handles, report
        <4> QED BY <1>0, <3>2, <3>3, <4>2, GotoTask DEF TaskSteps
      <3>10. CASE RuntimeThrows(e) \/ RuntimeReturns(e)
        <4>1. \/ flight' = NoTask
              \/ UNCHANGED <<flight, phase>> /\ (Goto(e, "done") \/ Goto(e, "failed"))
          BY <3>10 DEF RuntimeThrows, RuntimeReturns, FlightOver, Throw, handles, report
        <4> QED BY <1>0, <3>2, <3>3, <4>1, GotoTask DEF TaskSteps
      <3>11. CASE Observe(e)
        <4>1. /\ ~Landed /\ flight' = e /\ tasks' = tasks /\ tasks[e].pc = "fly"
              /\ phase' \in {"flying", "Complete"}
          BY <2>5, <3>11 DEF Observe, AtStep, OwnedSteps, handles
        <4> QED BY <3>1, <3>4, <4>1 DEF Over
      <3> QED BY <1>4, <3>5, <3>6, <3>7, <3>8, <3>9, <3>10, <3>11
              DEF TaskSpeaks, PlanningStep, FlightStep, RuntimeStep
    <2> QED BY <2>4, <2>6
  <1>5. flight = NoTask => flight' = NoTask
    <2> USE DEF handles
    <2>1. CASE EndOfInput \/ \E r \in Requests : Receive(r)
      BY <2>1 DEF EndOfInput, Receive
    <2>2. CASE StartPlanning \/ Engages
      BY <1>2, <2>2, <1>0, StartFrame DEF NoStartServed, Resting, Starts
    <2>3. CASE Handler /\ ~StartPlanning /\ ~Engages
      BY <1>0, <2>3, HandlerFrame
    <2>4. ASSUME NEW e \in Epochs, TaskSpeaks(e) PROVE flight' \in {flight, NoTask}
      BY <2>4 DEF TaskSpeaks, PlanningStep, FlightStep, RuntimeStep, PreparationThrows,
         PlanningPrepared, SearchProgress, SearchThrows, PlanFound, OtherRunwayFound,
         OldAdapterReleased, Reconnected, ReconnectFails, LandingResolved, DeorbitPrepares,
         DeorbitConnected, ArmingThrows, TakeControl, TaskFailed, FailedFlightClosed, FlightOver,
         Observe, RuntimeThrows, RuntimeReturns
    <2> QED BY <2>1, <2>2, <2>3, <2>4, ServerSteps
  <1> QED BY <1>1, <1>2, <1>3, <1>4, <1>5, ServerSteps

(***************************************************************************)
(* Requests are served in their order.                                     *)
(***************************************************************************)
\* While it is served, a request keeps its method.
LEMMA ServeMethod ==
  ASSUME TypeOK, Room, ServerStep
  PROVE  req'.method = req.method
  <1>1. Handler \/ \E e \in Epochs : TaskSpeaks(e)
    BY ServeFrame DEF TaskSpeaks
  <1>2. CASE \E e \in Epochs : TaskSpeaks(e)
    BY <1>2, TaskFrame
  <1>3. CASE StartPlanning \/ Engages
    BY <1>3, StartFrame
  <1>4. CASE Handler /\ ~StartPlanning /\ ~Engages
    BY <1>4, HandlerFrame
  <1> QED BY <1>1, <1>2, <1>3, <1>4

\* The line the server takes becomes its request.
LEMMA ReceiveMethod ==
  ASSUME LinkTypeOK, ServerReceives
  PROVE  /\ inbox # <<>> /\ req'.method = inbox[1].method /\ serving' = inbox[1].id
         /\ inbox' \in Seq(Line) /\ Len(inbox) = Len(inbox') + 1
         /\ \A i \in 1..Len(inbox') : inbox'[i] = inbox[i + 1]
         /\ serving' \in 0..MaxRequests
         /\ \A i \in 1..Len(out') : out'[i] # "ok"
         /\ UNCHANGED <<planning, flight, tasks, generation, phase, plan>>
  <1>1. /\ inbox # <<>> /\ inbox' = Tail(inbox) /\ serving' = Head(inbox).id
        /\ Receive([method |-> Head(inbox).method, conf |-> Head(inbox).conf])
    BY DEF ServerReceives
  <1>2. /\ inbox' \in Seq(Line) /\ Len(inbox) = Len(inbox') + 1
        /\ Head(inbox) \in Line /\ Head(inbox) = inbox[1]
        /\ \A i \in 1..Len(inbox') : inbox'[i] = inbox[i + 1]
    BY <1>1, LineTaken
  <1>3. /\ req'.method = Head(inbox).method
        /\ out' = <<>> \/ out' = <<"error", "snapshot">>
        /\ UNCHANGED <<planning, flight, tasks, generation, phase, plan>>
    BY <1>1 DEF Receive, Fail, Quiet, handles
  <1>4. Head(inbox).id \in 0..MaxRequests
    BY <1>2, LinkAssumption DEF Line
  <1>5. \A i \in 1..Len(out') : out'[i] # "ok"
    BY <1>3
  <1>6. inbox # <<>> /\ req'.method = inbox[1].method /\ serving' = inbox[1].id
    BY <1>1, <1>2, <1>3
  <1> QED BY <1>1, <1>2, <1>3, <1>4, <1>5, <1>6

\* What the server writes carries no number that it has not received.
LEMMA NumbersWritten ==
  ASSUME LinkTypeOK, TypeOK', serving' \in 0..MaxRequests, serving' >= serving, ServerWrites,
         \A i \in 1..Len(pipe) : pipe[i].id <= serving
  PROVE  \A i \in 1..Len(pipe') : pipe'[i].id <= serving'
  <1> SUFFICES ASSUME NEW i \in 1..Len(pipe') PROVE pipe'[i].id <= serving'
    OBVIOUS
  <1>0. pipe \in Seq(Message) /\ Len(pipe) \in Nat /\ Len(out') \in Nat /\ serving \in Nat
    BY LenProperties, OutputForm DEF LinkTypeOK
  <1>1. CASE pipe' = <<>>
    BY <1>1
  <1>2. CASE /\ Len(pipe') = Len(pipe) + Len(out')
             /\ \A j \in 1..Len(pipe) : pipe'[j] = pipe[j]
             /\ \A j \in 1..Len(out') : pipe'[Len(pipe) + j] = MessageOf(out[j])'
    <2>1. CASE i <= Len(pipe)
      <3>1. i \in 1..Len(pipe) /\ pipe[i] \in Message
        BY <1>0, <2>1, ElementOfSeq
      <3>2. pipe[i].id \in Nat
        BY <3>1, LinkAssumption DEF Message
      <3> QED BY <1>0, <1>2, <3>1, <3>2
    <2>2. CASE i > Len(pipe)
      <3>1. PICK j \in 1..Len(out') : i = Len(pipe) + j
        <4>1. i - Len(pipe) \in 1..Len(out') /\ i = Len(pipe) + (i - Len(pipe))
          BY <1>0, <1>2, <2>2
        <4> QED BY <4>1
      <3>2. pipe'[i] = MessageOf(out[j])'
        BY <1>2, <3>1
      <3>3. MessageOf(out[j])'.id \in {0, serving'}
        BY DEF MessageOf
      <3> QED BY <3>2, <3>3
    <2> QED BY <1>0, <1>2, <2>1, <2>2
  <1> QED BY <1>1, <1>2, OutputWritten

\* The numbers of requests stay in their order.
LEMMA NumberedStep ==
  ASSUME LinkTypeOK, TypeOK', Numbered, LinkNext
  PROVE  Numbered'
  <1>0. /\ sent \in Nat /\ serving \in Nat /\ Len(inbox) \in Nat /\ Len(pipe) \in Nat
        /\ inbox \in Seq(Line) /\ pipe \in Seq(Message)
    BY LenProperties DEF LinkTypeOK
  <1>1. CASE ServerReceives
    <2>1. /\ inbox # <<>> /\ serving' = inbox[1].id /\ Len(inbox) = Len(inbox') + 1
          /\ inbox' \in Seq(Line) /\ \A i \in 1..Len(inbox') : inbox'[i] = inbox[i + 1]
          /\ serving' \in 0..MaxRequests
      BY <1>1, ReceiveMethod
    <2>2. Len(inbox') \in Nat
      BY <2>1, LenProperties
    <2>3. serving' = serving + 1
      BY <1>0, <2>1, <2>2 DEF Numbered
    <2>4. \A i \in 1..Len(inbox') : inbox'[i].id = serving' + i
      <3> SUFFICES ASSUME NEW i \in 1..Len(inbox') PROVE inbox'[i].id = serving' + i
        OBVIOUS
      <3>1. i + 1 \in 1..Len(inbox)
        BY <2>1, <2>2
      <3>2. inbox[i + 1].id = serving + (i + 1)
        BY <3>1 DEF Numbered
      <3> QED BY <1>0, <2>1, <2>3, <3>2
    <2>5. \A i \in 1..Len(pipe') : pipe'[i].id <= serving'
      BY <1>0, <1>1, <2>1, <2>3, ReceiveFrame, NumbersWritten DEF Numbered
    <2>6. UNCHANGED <<sent, lpc>>
      BY <1>1, ReceiveFrame DEF client
    <2>7. sent' = serving' + Len(inbox')
      BY <1>0, <2>1, <2>2, <2>3, <2>6 DEF Numbered
    <2> QED BY <2>4, <2>5, <2>6, <2>7 DEF Numbered
  <1>2. CASE ServerStep
    <2>1. UNCHANGED <<inbox, serving, sent, lpc>> /\ ServerWrites
      BY <1>2, ServeFrame DEF client
    <2>2. serving' \in 0..MaxRequests /\ serving' >= serving
      BY <1>0, <2>1 DEF LinkTypeOK
    <2>3. \A i \in 1..Len(pipe') : pipe'[i].id <= serving'
      BY <2>1, <2>2, NumbersWritten DEF Numbered
    <2> QED BY <2>1, <2>3 DEF Numbered
  <1>3. ASSUME NEW c \in Calls, Asks(c) PROVE Numbered'
    <2>1. /\ Len(inbox') = Len(inbox) + 1 /\ inbox'[Len(inbox) + 1].id = sent + 1
          /\ \A i \in 1..Len(inbox) : inbox'[i] = inbox[i]
      <3>1. PICK m \in AsksFor(c), conf \in Configs :
              /\ inbox' \in Seq(Line) /\ Len(inbox') = Len(inbox) + 1
              /\ \A i \in 1..Len(inbox) : inbox'[i] = inbox[i]
              /\ inbox'[Len(inbox) + 1] = [id |-> sent + 1, method |-> m, conf |-> conf]
        BY <1>3, AskedInbox
      <3> QED BY <3>1
    <2>2. sent' = sent + 1 /\ UNCHANGED <<serving, pipe>>
      BY <1>3 DEF Asks
    <2>3. \A i \in 1..Len(inbox') : inbox'[i].id = serving + i
      <3> SUFFICES ASSUME NEW i \in 1..Len(inbox') PROVE inbox'[i].id = serving + i
        OBVIOUS
      <3>1. CASE i = Len(inbox) + 1
        BY <1>0, <2>1, <3>1 DEF Numbered
      <3>2. CASE i \in 1..Len(inbox)
        BY <2>1, <3>2 DEF Numbered
      <3> QED BY <1>0, <2>1, <3>1, <3>2
    <2> QED BY <1>0, <2>1, <2>2, <2>3 DEF Numbered
  <1>4. CASE Elsewhere
    <2>1. UNCHANGED <<inbox, serving, sent>> /\ (lpc = "configure" => lpc' = "configure")
      BY <1>4 DEF Elsewhere
    <2>5. lpc' # "configure" => sent' # 0
      BY <2>1 DEF Numbered
    <2>6. sent' = serving' + Len(inbox') /\ \A i \in 1..Len(inbox') : inbox'[i].id = serving' + i
      BY <2>1 DEF Numbered
    <2>2. CASE UNCHANGED pipe
      <3>1. \A i \in 1..Len(pipe') : pipe'[i].id <= serving'
        BY <2>1, <2>2 DEF Numbered
      <3> QED BY <2>5, <2>6, <3>1 DEF Numbered
    <2>4. CASE pipe' = <<>>
      <3>1. \A i \in 1..Len(pipe') : FALSE
        BY <2>4
      <3> QED BY <2>5, <2>6, <3>1 DEF Numbered
    <2>3. CASE TakesFirst
      <3>1. /\ pipe' \in Seq(Message) /\ Len(pipe) = Len(pipe') + 1
            /\ \A i \in 1..Len(pipe') : pipe'[i] = pipe[i + 1]
        BY <2>3, FirstTaken
      <3>2. Len(pipe') \in Nat
        BY <3>1, LenProperties
      <3>3. \A i \in 1..Len(pipe') : i + 1 \in 1..Len(pipe)
        BY <3>1, <3>2
      <3>4. \A i \in 1..Len(pipe') : pipe'[i].id <= serving'
        BY <2>1, <3>1, <3>3 DEF Numbered
      <3> QED BY <2>5, <2>6, <3>4 DEF Numbered
    <2> QED BY <1>4, <2>2, <2>3, <2>4 DEF Elsewhere
  <1> QED BY <1>1, <1>2, <1>3, <1>4, LinkSteps

\* The last request stays that of the call.
LEMMA LastAskedStep ==
  ASSUME LinkTypeOK, TypeOK, Room, Numbered, LastAsked, LinkNext
  PROVE  LastAsked'
  <1>0. sent \in Nat /\ serving \in Nat /\ Len(inbox) \in Nat /\ inbox \in Seq(Line)
    BY LenProperties DEF LinkTypeOK
  <1>1. CASE ServerReceives
    <2>1. /\ inbox # <<>> /\ Len(inbox) = Len(inbox') + 1 /\ req'.method = inbox[1].method
          /\ inbox' \in Seq(Line) /\ \A i \in 1..Len(inbox') : inbox'[i] = inbox[i + 1]
      BY <1>1, ReceiveMethod
    <2>2. Len(inbox') \in Nat /\ (inbox' = <<>> <=> Len(inbox') = 0)
      BY <2>1, LenProperties, EmptySeq
    <2>3. UNCHANGED <<sent, call>>
      BY <1>1, ReceiveFrame DEF client
    <2>4. CASE Len(inbox') = 0
      BY <2>1, <2>2, <2>3, <2>4 DEF LastAsked
    <2>5. CASE Len(inbox') # 0
      <3>1. Len(inbox') \in 1..Len(inbox')
        BY <2>2, <2>5
      <3>2. inbox'[Len(inbox')] = inbox[Len(inbox)]
        BY <2>1, <3>1
      <3> QED BY <2>1, <2>2, <2>3, <2>5, <3>2 DEF LastAsked
    <2> QED BY <2>4, <2>5
  <1>2. CASE ServerStep
    <2>1. UNCHANGED <<inbox, sent, call>> /\ req'.method = req.method
      BY <1>2, ServeFrame, ServeMethod DEF client
    <2> QED BY <2>1 DEF LastAsked
  <1>3. ASSUME NEW c \in Calls, Asks(c) PROVE LastAsked'
    <2>1. /\ Len(inbox') = Len(inbox) + 1 /\ inbox' \in Seq(Line)
          /\ inbox'[Len(inbox) + 1].method \in AsksFor(c)
      <3>1. PICK m \in AsksFor(c), conf \in Configs :
              /\ inbox' \in Seq(Line) /\ Len(inbox') = Len(inbox) + 1
              /\ \A i \in 1..Len(inbox) : inbox'[i] = inbox[i]
              /\ inbox'[Len(inbox) + 1] = [id |-> sent + 1, method |-> m, conf |-> conf]
        BY <1>3, AskedInbox
      <3> QED BY <3>1
    <2>2. inbox' # <<>>
      BY <1>0, <2>1
    <2>3. call' = c
      BY <1>3 DEF Asks
    <2> QED BY <2>1, <2>2, <2>3 DEF LastAsked, AsksFor
  <1>4. CASE Elsewhere
    <2>1. UNCHANGED <<inbox, sent, call, req>>
      BY <1>4 DEF Elsewhere, vars, handler
    <2> QED BY <2>1 DEF LastAsked
  <1> QED BY <1>1, <1>2, <1>3, <1>4, LinkSteps

(***************************************************************************)
(* Where the program is.                                                   *)
(***************************************************************************)
\* A backend that is gone stays gone.
LEMMA StaysDown ==
  ASSUME TypeOK, Room, LinkNext, ~Up
  PROVE  ~Up'
  <1>1. ~ServerReceives
    BY DEF ServerReceives, Receive, Up, Alive
  <1>2. CASE ServerStep
    <2>1. ~down /\ down' = down /\ (Handler \/ \E e \in Epochs : TaskSpeaks(e))
      BY <1>2, ServeFrame DEF TaskSpeaks
    <2>2. ~Handler
      BY <2>1 DEF Up, Alive, Handler, RejectConfiguration, ApplyConfiguration, CloseOldAdapter,
         AnswerAtOnce, Connect, Connected, SaveCheckpoint, CheckpointSaved, StartPlanning,
         EngageDeorbit, EngageLanding, RejectStart, StopAll, TasksStopped, Stopped
    <2>3. hpc' = hpc
      BY <2>1, <2>2, TaskFrame
    <2> QED BY <2>1, <2>3 DEF Up, Alive
  <1>3. CASE Elsewhere \/ \E c \in Calls : Asks(c)
    <2>1. hpc' = hpc /\ (down => down')
      BY <1>3 DEF Elsewhere, Asks, vars, handler
    <2> QED BY <2>1 DEF Up, Alive
  <1> QED BY <1>1, <1>2, <1>3, LinkSteps

\* No step takes the program where it cannot be.
LEMMA PlacedStep ==
  ASSUME LinkTypeOK, TypeOK, Room, Placed, LinkNext
  PROVE  Placed'
  <1> USE DEF Placed, server, asked, seen, duty, client
  <1>0. ~Up => ~Up'
    BY StaysDown
  <1>1. CASE ServerReceives \/ ServerStep
    <2>1. UNCHANGED <<lpc, call, guided, terminal>>
      BY <1>1, ReceiveFrame, ServeFrame
    <2> QED BY <1>0, <2>1
  <1>2. CASE ReadSnapshot \/ SkipResponse
    BY <1>0, <1>2 DEF ReadSnapshot, SkipResponse
  <1>3. CASE ReadResponse
    <2>1. lpc = "await" /\ UNCHANGED <<guided, call>>
      BY <1>3 DEF ReadResponse
    <2>2. terminal' = terminal \/ (call = "abort" /\ Return)
      BY <1>3 DEF ReadResponse, LinkTypeOK
    <2>3. Return \/ Raise
      BY <1>3 DEF ReadResponse
    <2> QED BY <2>1, <2>2, <2>3 DEF Return, Raise
  <1>4. CASE ReadEndOfFile \/ CallTimesOut
    BY <1>4 DEF ReadEndOfFile, CallTimesOut, Raise
  <1>5. CASE Configure \/ OpenConnection \/ Execute \/ SaveOnPhase \/ ToggleWarp
    BY <1>5 DEF Configure, OpenConnection, Execute, SaveOnPhase, ToggleWarp, Calling
  <1>6. CASE SeeConnection \/ CreatePlan \/ SeePlan
    BY <1>6 DEF SeeConnection, CreatePlan, SeePlan, Calling, Moves
  <1>7. CASE FlightPolls \/ Unwind
    BY <1>7 DEF FlightPolls, Unwind, Calling, Moves
  <1>8. CASE Shutdown
    BY <1>0, <1>8 DEF Shutdown, Calling, Moves
  <1>9. CASE ReviewPolls \/ NoMoreRequests \/ FlightGoesOn \/ Replan
    BY <1>9 DEF ReviewPolls, PumpReview, NoMoreRequests, FlightGoesOn, Replan, Moves
  <1>10. CASE SeeEngagement
    BY <1>10 DEF SeeEngagement, Moves, Raise
  <1>11. CASE FlightTimesOut \/ Wait \/ ClosePipes \/ OperatorStops \/ BackendDies
    BY <1>0, <1>11 DEF FlightTimesOut, Wait, ClosePipes, OperatorStops, BackendDies, Moves
  <1> QED BY <1>1, <1>2, <1>3, <1>4, <1>5, <1>6, <1>7, <1>8, <1>9, <1>10, <1>11
          DEF LinkNext, ClientStep, Operator

(***************************************************************************)
(* What the client is told.                                                *)
(***************************************************************************)
\* How a step of the client, its operator or a killer changes what it knows.
Learns ==
  /\ guided' => guided \/ (call = "engage" /\ lpc = "seen")
  /\ call = "engage" /\ lpc' \in {"until", "seen"} =>
       lpc \in {"until", "seen"} \/ (lpc = "await" /\ TakesFirst /\ Accepts(1))
  /\ lpc' = "await" => lpc = "await"
  /\ guided' /\ latest'.phase \in Over => Landed
  /\ terminal' => Landed

\* What the client believes of its flight it has read.
LEMMA ClientLearns ==
  ASSUME LinkTypeOK, Placed, Told, LinkNext, Elsewhere
  PROVE  Learns
  <1> USE DEF Learns, server, asked, seen, duty, client
  <1>0. sent' = sent /\ sent \in Nat /\ terminal \in BOOLEAN
    BY DEF Elsewhere, LinkTypeOK
  <1>1. TakesFirst => /\ First = pipe[1] /\ 1 \in 1..Len(pipe)
    <2> SUFFICES ASSUME TakesFirst PROVE First = pipe[1] /\ 1 \in 1..Len(pipe)
      OBVIOUS
    <2>1. First = pipe[1] /\ Len(pipe) = Len(pipe') + 1 /\ pipe' \in Seq(Message)
      BY FirstTaken
    <2> QED BY <2>1, LenProperties
  <1>2. TakesFirst /\ guided /\ First.snap.phase \in Over => Landed
    BY <1>1 DEF Told, ToldInPipe, AcceptedBefore
  <1>3. CASE ServerReceives \/ ServerStep
    BY <1>3, ReceiveFrame, ServeFrame DEF Told
  <1>4. CASE ReadSnapshot \/ SkipResponse
    BY <1>2, <1>4 DEF ReadSnapshot, SkipResponse, Told
  <1>5. CASE ReadResponse
    <2>1. /\ lpc = "await" /\ TakesFirst /\ First.id = sent
          /\ UNCHANGED <<guided, latest, call>>
      BY <1>5 DEF ReadResponse, IsAnswer
    <2>2. CASE First.type = "ok" /\ Return /\ terminal' = (terminal \/ call = "abort")
      <3>1. Accepts(1)
        BY <1>1, <2>1, <2>2 DEF Accepts
      <3>2. call = "abort" => Landed
        BY <1>1, <2>1, <3>1 DEF Told, ToldInPipe, Landed
      <3>3. terminal' => Landed
        BY <1>0, <2>2, <3>2 DEF Told
      <3> QED BY <2>1, <2>2, <3>1, <3>3 DEF Told, Return
    <2>3. CASE Raise /\ UNCHANGED terminal
      BY <2>1, <2>3 DEF Raise, Told
    <2> QED BY <1>5, <2>2, <2>3 DEF ReadResponse
  <1>6. CASE ReadEndOfFile \/ CallTimesOut
    BY <1>6 DEF ReadEndOfFile, CallTimesOut, Raise, Told
  <1>7. CASE Configure \/ OpenConnection \/ Execute \/ SaveOnPhase \/ ToggleWarp
    BY <1>0, <1>7 DEF Configure, OpenConnection, Execute, SaveOnPhase, ToggleWarp, Calling
  <1>8. CASE SeeConnection \/ CreatePlan \/ SeePlan \/ Unwind \/ Shutdown
    BY <1>0, <1>8 DEF SeeConnection, CreatePlan, SeePlan, Unwind, Shutdown, Calling, Moves, Told
  <1>9. CASE FlightPolls
    BY <1>0, <1>2, <1>9 DEF FlightPolls, Calling, Moves, Pump, Told
  <1>10. CASE ReviewPolls
    BY <1>10 DEF ReviewPolls, PumpReview, Moves, Told, Placed
  <1>11. CASE SeeEngagement
    BY <1>11 DEF SeeEngagement, Moves, Raise, Told, Placed
  <1>12. CASE FlightGoesOn
    BY <1>12 DEF FlightGoesOn, Moves, Told, Placed
  <1>13. CASE NoMoreRequests \/ Replan \/ FlightTimesOut \/ Wait \/ ClosePipes
    BY <1>13 DEF NoMoreRequests, Replan, FlightTimesOut, Wait, ClosePipes, Moves, Told
  <1>14. CASE OperatorStops \/ BackendDies
    BY <1>14 DEF OperatorStops, BackendDies, Told
  <1> QED BY <1>3, <1>4, <1>5, <1>6, <1>7, <1>8, <1>9, <1>10, <1>11, <1>12, <1>13, <1>14
          DEF LinkNext, ClientStep, Operator

\* Learning shifts the pipe at most: what stood behind an acceptance still does.
LEMMA ToldElsewhere ==
  ASSUME LinkTypeOK, Numbered, Placed, Told, Elsewhere, Learns
  PROVE  Told'
  <1>0. /\ UNCHANGED <<vars, call, sent, inbox>>
        /\ pipe \in Seq(Message) /\ Len(pipe) \in Nat
    BY LenProperties DEF Elsewhere, LinkTypeOK
  <1>1. UNCHANGED <<flight, phase, planning, generation, tasks, req, hpc>>
    BY <1>0 DEF vars, handles, report, handler
  <1>2. (Landed' <=> Landed) /\ (LastFlight' <=> LastFlight)
    BY <1>0, <1>1 DEF Landed, LastFlight, NoStart, NoStartServed, Resting, NoSearch, Current,
       FlightTold
  <1>3. guided' /\ latest'.phase \in Over => Landed'
    BY <1>2 DEF Learns
  <1>4. terminal' => Landed'
    BY <1>2 DEF Learns
  <1>5. FlightAccepted => LastFlight
    BY DEF Told
  <1>6. CASE UNCHANGED pipe
    <2>1. ~TakesFirst
      BY <1>0, <1>6, FirstTaken
    <2>2. \A i \in Nat : AcceptedBefore(i)' => AcceptedBefore(i)
      BY <1>0, <1>6, <2>1 DEF AcceptedBefore, Accepts, Learns
    <2>3. FlightAccepted' => FlightAccepted
      BY <1>0, <1>6, <2>2 DEF FlightAccepted
    <2>4. ASSUME NEW i \in 1..Len(pipe')
          PROVE  /\ AcceptedBefore(i)' /\ pipe'[i].snap.phase \in Over => Landed'
                 /\ lpc' = "await" /\ call' = "abort" /\ Accepts(i)' => flight' = NoTask
      BY <1>0, <1>1, <1>2, <1>6, <2>2 DEF Told, ToldInPipe, Accepts, Learns
    <2> QED BY <1>2, <1>3, <1>4, <1>5, <2>3, <2>4 DEF Told, ToldInPipe
  <1>7. CASE TakesFirst
    <2>1. /\ pipe' \in Seq(Message) /\ Len(pipe) = Len(pipe') + 1
          /\ \A i \in 1..Len(pipe') : pipe'[i] = pipe[i + 1]
      BY <1>7, FirstTaken
    <2>2. Len(pipe') \in Nat
      BY <2>1, LenProperties
    <2>3. \A i \in 1..Len(pipe') : i + 1 \in 1..Len(pipe) /\ (Accepts(i)' <=> Accepts(i + 1))
      BY <1>0, <2>1, <2>2 DEF Accepts
    <2>4. ASSUME NEW i \in 1..(Len(pipe') + 1), AcceptedBefore(i)'
          PROVE  AcceptedBefore(i + 1)
      <3>1. CASE guided'
        BY <3>1 DEF Learns, AcceptedBefore
      <3>2. CASE call' = "engage" /\ lpc' \in {"until", "seen"}
        <4>1. 1 \in 1..((i + 1) - 1)
          BY <2>2
        <4> QED BY <1>0, <3>2, <4>1 DEF Learns, AcceptedBefore
      <3>3. CASE call' = "engage" /\ lpc' = "await" /\ \E k \in 1..(i - 1) : Accepts(k)'
        <4>1. PICK k \in 1..(i - 1) : Accepts(k)'
          BY <3>3
        <4>2. k \in 1..Len(pipe') /\ k + 1 \in 1..((i + 1) - 1)
          BY <2>2, <4>1
        <4>3. Accepts(k + 1)
          BY <2>3, <4>1, <4>2
        <4> QED BY <1>0, <3>3, <4>2, <4>3 DEF Learns, AcceptedBefore
      <3> QED BY <2>4, <3>1, <3>2, <3>3 DEF AcceptedBefore
    <2>5. FlightAccepted' => FlightAccepted
      <3>1. Len(pipe') + 1 \in 1..(Len(pipe') + 1) /\ (Len(pipe') + 1) + 1 = Len(pipe) + 1
        BY <2>1, <2>2
      <3> QED BY <2>4, <3>1 DEF FlightAccepted
    <2>6. ASSUME NEW i \in 1..Len(pipe')
          PROVE  /\ AcceptedBefore(i)' /\ pipe'[i].snap.phase \in Over => Landed'
                 /\ lpc' = "await" /\ call' = "abort" /\ Accepts(i)' => flight' = NoTask
      <3>1. i \in 1..(Len(pipe') + 1) /\ i + 1 \in 1..Len(pipe) /\ pipe'[i] = pipe[i + 1]
        BY <2>1, <2>2, <2>3
      <3>2. AcceptedBefore(i)' => AcceptedBefore(i + 1)
        BY <2>4, <3>1
      <3> QED BY <1>0, <1>1, <1>2, <2>3, <3>1, <3>2 DEF Told, ToldInPipe, Learns
    <2> QED BY <1>2, <1>3, <1>4, <1>5, <2>5, <2>6 DEF Told, ToldInPipe
  <1>8. CASE lpc' = "closing" /\ pipe' = <<>>
    <2>1. FlightAccepted' => FlightAccepted
      BY <1>8 DEF FlightAccepted, AcceptedBefore, Learns
    <2>2. ToldInPipe'
      BY <1>8 DEF ToldInPipe
    <2> QED BY <1>2, <1>3, <1>4, <1>5, <2>1, <2>2 DEF Told
  <1> QED BY <1>6, <1>7, <1>8 DEF Elsewhere

\* A new request is not answered yet, and one of a client in flight starts nothing.
LEMMA ToldAsks ==
  ASSUME LinkTypeOK, Numbered, Placed', Told, NEW c \in Calls, Asks(c)
  PROVE  Told'
  <1>0. /\ UNCHANGED <<vars, pipe, latest, guided, terminal>>
        /\ call' = c /\ sent' = sent + 1 /\ lpc' = "await"
        /\ pipe \in Seq(Message) /\ Len(pipe) \in Nat /\ Len(inbox) \in Nat
        /\ sent \in Nat /\ serving \in Nat
    BY LenProperties DEF Asks, LinkTypeOK
  <1>1. UNCHANGED <<flight, phase, planning, generation, tasks, req, hpc>>
    BY <1>0 DEF vars, handles, report, handler
  <1>2. /\ Landed' <=> Landed
        /\ NoSearch' <=> NoSearch
        /\ FlightTold' <=> FlightTold
        /\ NoStartServed' <=> NoStartServed
    BY <1>0, <1>1 DEF Landed, NoStartServed, Resting, NoSearch, Current, FlightTold
  <1>3. \A i \in 1..Len(pipe) : ~Accepts(i)'
    <2> SUFFICES ASSUME NEW i \in 1..Len(pipe) PROVE pipe[i].id # sent + 1
      BY <1>0 DEF Accepts
    <2>1. pipe[i].id <= serving /\ sent = serving + Len(inbox) /\ pipe[i] \in Message
      BY <1>0, ElementOfSeq DEF Numbered
    <2> QED BY <1>0, <2>1, LinkAssumption DEF Message
  <1>4. \A i \in 1..(Len(pipe) + 1) : AcceptedBefore(i)' => guided
    <2> SUFFICES ASSUME NEW i \in 1..(Len(pipe) + 1), AcceptedBefore(i)' PROVE guided
      OBVIOUS
    <2>1. \A k \in 1..(i - 1) : k \in 1..Len(pipe)
      BY <1>0
    <2> QED BY <1>0, <1>3, <2>1 DEF AcceptedBefore
  <1>5. FlightAccepted' => LastFlight'
    <2> SUFFICES ASSUME FlightAccepted' PROVE LastFlight'
      OBVIOUS
    <2>1. guided /\ LastFlight
      BY <1>0, <1>4 DEF FlightAccepted, AcceptedBefore, Told
    <2>2. PICK m \in AsksFor(c), conf \in Configs :
            /\ inbox' \in Seq(Line) /\ Len(inbox') = Len(inbox) + 1
            /\ \A i \in 1..Len(inbox) : inbox'[i] = inbox[i]
            /\ inbox'[Len(inbox) + 1] = [id |-> sent + 1, method |-> m, conf |-> conf]
      BY AskedInbox
    <2>3. c \notin {"connect", "createPlan", "engage"}
      BY <1>0, <2>1 DEF Placed
    <2>4. m \notin Starts
      BY <2>3 DEF AsksFor, Starts, Calls
    <2>5. ASSUME NEW i \in 1..Len(inbox') PROVE inbox'[i].method \notin Starts
      <3>1. CASE i \in 1..Len(inbox)
        BY <2>1, <2>2, <3>1 DEF LastFlight, NoStart
      <3>2. CASE i = Len(inbox) + 1
        BY <2>2, <2>4, <3>2
      <3> QED BY <1>0, <2>2, <3>1, <3>2
    <2> QED BY <1>2, <2>1, <2>5 DEF LastFlight, NoStart
  <1>6. ToldInPipe'
    <2> SUFFICES ASSUME NEW i \in 1..Len(pipe)
                 PROVE  /\ AcceptedBefore(i)' /\ pipe[i].snap.phase \in Over => Landed
                        /\ ~Accepts(i)'
      BY <1>0, <1>2 DEF ToldInPipe
    <2>1. AcceptedBefore(i)' => AcceptedBefore(i)
      BY <1>0, <1>4 DEF AcceptedBefore
    <2> QED BY <1>3, <2>1 DEF Told, ToldInPipe
  <1> QED BY <1>0, <1>2, <1>5, <1>6 DEF Told

\* While no start is on its way, none comes about at the server's end.
LEMMA StillNoStart ==
  ASSUME LinkTypeOK, TypeOK, Room, NoStart, ServerReceives \/ ServerStep
  PROVE  NoStart'
  <1>0. inbox \in Seq(Line) /\ Len(inbox) \in Nat
    BY LenProperties DEF LinkTypeOK
  <1>1. CASE ServerReceives
    <2>1. /\ inbox # <<>> /\ req'.method = inbox[1].method
          /\ inbox' \in Seq(Line) /\ Len(inbox) = Len(inbox') + 1
          /\ \A i \in 1..Len(inbox') : inbox'[i] = inbox[i + 1]
      BY <1>1, ReceiveMethod
    <2>2. Len(inbox') \in Nat
      BY <2>1, LenProperties
    <2>3. 1 \in 1..Len(inbox) /\ \A i \in 1..Len(inbox') : i + 1 \in 1..Len(inbox)
      BY <2>1, <2>2
    <2> QED BY <2>1, <2>3 DEF NoStart, NoStartServed
  <1>2. CASE ServerStep
    <2>1. inbox' = inbox /\ req'.method = req.method
          /\ (Handler \/ \E e \in Epochs : TaskSpeaks(e))
      BY <1>2, ServeFrame, ServeMethod DEF TaskSpeaks
    <2>2. ~Resting' => ~Resting
      <3>1. CASE \E e \in Epochs : TaskSpeaks(e)
        BY <3>1, TaskFrame DEF Resting
      <3>2. CASE StartPlanning \/ Engages
        BY <3>2, StartFrame DEF Resting
      <3>3. CASE Handler /\ ~StartPlanning /\ ~Engages
        BY <3>3, HandlerFrame
      <3> QED BY <2>1, <3>1, <3>2, <3>3
    <2> QED BY <2>1, <2>2 DEF NoStart, NoStartServed
  <1> QED BY <1>1, <1>2

\* The flight a client was told of stays its last one, and over once it is over.
LEMMA StillLast ==
  ASSUME IInv, LinkTypeOK, Unstarted, LastFlight, ServerReceives \/ ServerStep
  PROVE  /\ LastFlight' /\ (Landed => Landed')
         /\ flight = NoTask => flight' = NoTask
  <1>1. NoStart'
    BY StillNoStart DEF IInv, LastFlight
  <1>2. Next \/ UNCHANGED vars
    BY ServerMoves DEF LinkNext
  <1>3. CASE Next
    BY <1>1, <1>3, LastFlightKept DEF LastFlight, NoStart
  <1>4. CASE UNCHANGED vars
    <2>1. UNCHANGED <<flight, phase, planning, generation, tasks>>
      BY <1>4 DEF vars, handles, report
    <2> QED BY <1>1, <2>1 DEF LastFlight, NoSearch, Current, FlightTold, Landed
  <1> QED BY <1>2, <1>3, <1>4

\* The server's acknowledgement of the last request says what it has done.
LEMMA AnswerTrue ==
  ASSUME IInv, IInv', LinkTypeOK, Numbered, LastAsked, InHand, ServerReceives \/ ServerStep,
         sent # 0, NEW j \in 1..Len(out'), out'[j] = "ok", serving' = sent'
  PROVE  /\ call = "engage" => LastFlight'
         /\ call = "abort" => flight' = NoTask
  <1>0. /\ TypeOK /\ Room /\ StopReleased /\ TypeOK'
        /\ inbox \in Seq(Line) /\ Len(inbox) \in Nat /\ sent \in Nat /\ serving \in Nat
    BY LenProperties DEF IInv, Ownership, LinkTypeOK
  <1>1. ServerStep /\ ~ServerReceives
    BY ReceiveMethod
  <1>2. UNCHANGED <<inbox, serving, sent>> /\ (Handler \/ \E e \in Epochs : TaskSpeaks(e))
    BY <1>1, ServeFrame DEF TaskSpeaks, client
  <1>3. Len(inbox) = 0 /\ inbox = <<>>
    <2>1. Len(inbox) = 0
      <3>1. sent = serving + Len(inbox)
        BY DEF Numbered
      <3>2. serving = sent
        BY <1>2
      <3> QED BY <1>0, <3>1, <3>2
    <2> QED BY <1>0, <2>1, EmptySeq
  <1>4. req.method \in AsksFor(call)
    BY <1>3 DEF LastAsked
  <1>5. out' # <<>> /\ out'[1] = "ok"
    BY <1>0, OutputForm
  <1>6. /\ req.method \in {"engage", "engageReentry"} => Engages
        /\ req.method = "abort" => flight' = NoTask
    BY <1>0, <1>2, <1>5, Acknowledged DEF Next, TaskSpeaks
  <1>7. ASSUME call = "engage" PROVE LastFlight'
    <2>1. Engages
      BY <1>4, <1>6, <1>7 DEF AsksFor
    <2>2. ~StartPlanning
      BY <2>1 DEF Engages, EngageDeorbit, EngageLanding, StartPlanning
    <2>3. /\ planning' = NoTask /\ phase' = "Preparing" /\ hpc' = "idle"
          /\ tasks'[generation'].kind # "plan"
      BY <1>0, <2>1, <2>2, StartFrame
    <2>4. NoStart'
      BY <1>2, <1>3, <2>3 DEF NoStart, NoStartServed, Resting
    <2>5. NoSearch' /\ FlightTold'
      BY <2>3 DEF NoSearch, Current, FlightTold, Over
    <2> QED BY <2>4, <2>5 DEF LastFlight
  <1>8. call = "abort" => flight' = NoTask
    BY <1>4, <1>6 DEF AsksFor
  <1> QED BY <1>7, <1>8

\* What the server does and writes keeps what the client was told true.
LEMMA ToldServer ==
  ASSUME IInv, IInv', LinkTypeOK, Numbered, LastAsked, Placed, Unstarted, InHand, Told,
         ServerReceives \/ ServerStep
  PROVE  Told'
  <1>0. /\ UNCHANGED <<lpc, call, sent, guided, terminal, latest>> /\ ServerWrites
        /\ pipe \in Seq(Message) /\ Len(pipe) \in Nat /\ TypeOK' /\ Len(out') \in Nat
        /\ serving' \in 0..MaxRequests
    BY ReceiveFrame, ServeFrame, ReceiveMethod, LenProperties, OutputForm
       DEF client, seen, duty, LinkTypeOK, IInv
  <1>1. LastFlight => /\ LastFlight' /\ (Landed => Landed')
                      /\ flight = NoTask => flight' = NoTask
    BY StillLast
  <1>2. guided => FlightAccepted /\ LastFlight
    BY DEF Told, FlightAccepted, AcceptedBefore
  <1>3. guided' /\ latest'.phase \in Over => Landed'
    BY <1>0, <1>1, <1>2 DEF Told
  <1>4. terminal' => Landed'
    BY <1>0, <1>1, <1>2 DEF Told, Placed
  <1>5. CASE pipe' = <<>> /\ lpc \in {"closing", "done"}
    <2>1. FlightAccepted' => FlightAccepted
      BY <1>0, <1>5 DEF FlightAccepted, AcceptedBefore
    <2>2. ToldInPipe'
      BY <1>5 DEF ToldInPipe
    <2> QED BY <1>1, <1>3, <1>4, <2>1, <2>2 DEF Told
  <1>6. CASE /\ Len(pipe') = Len(pipe) + Len(out')
             /\ \A i \in 1..Len(pipe) : pipe'[i] = pipe[i]
             /\ \A i \in 1..Len(out') : pipe'[Len(pipe) + i] = MessageOf(out[i])'
    <2>1. \A i \in 1..Len(pipe) : Accepts(i)' <=> Accepts(i)
      BY <1>0, <1>6 DEF Accepts
    <2>2. \A i \in 1..(Len(pipe) + 1) : AcceptedBefore(i)' => AcceptedBefore(i) /\ FlightAccepted
      <3> SUFFICES ASSUME NEW i \in 1..(Len(pipe) + 1), AcceptedBefore(i)'
                   PROVE  AcceptedBefore(i) /\ FlightAccepted
        OBVIOUS
      <3>1. \A k \in 1..(i - 1) : k \in 1..Len(pipe) /\ k \in 1..((Len(pipe) + 1) - 1)
        BY <1>0
      <3> QED BY <1>0, <2>1, <3>1 DEF AcceptedBefore, FlightAccepted
    <2>3. ASSUME NEW i \in 1..Len(pipe'), ~(i <= Len(pipe)), lpc = "await", Accepts(i)'
          PROVE  /\ call = "engage" => LastFlight'
                 /\ call = "abort" => flight' = NoTask
      <3>1. PICK j \in 1..Len(out') : i = Len(pipe) + j
        <4>1. i - Len(pipe) \in 1..Len(out') /\ i = Len(pipe) + (i - Len(pipe))
          BY <1>0, <1>6, <2>3
        <4> QED BY <4>1
      <3>2. MessageOf(out[j])'.type = "ok" /\ MessageOf(out[j])'.id = sent'
        BY <1>6, <2>3, <3>1 DEF Accepts
      <3>3. out'[j] = "ok" /\ serving' = sent'
        BY <3>2 DEF MessageOf
      <3>4. sent # 0
        BY <2>3 DEF Numbered
      <3> QED BY <3>3, <3>4, AnswerTrue
    <2>4. FlightAccepted' => LastFlight'
      <3> SUFFICES ASSUME FlightAccepted', ~FlightAccepted PROVE LastFlight'
        BY <1>1 DEF Told
      <3>1. PICK k \in 1..Len(pipe') : Accepts(k)' /\ call = "engage" /\ lpc = "await"
        BY <1>0, <1>6 DEF FlightAccepted, AcceptedBefore
      <3>2. ~(k <= Len(pipe))
        <4>1. k \in 1..Len(pipe) => k \in 1..((Len(pipe) + 1) - 1)
          BY <1>0
        <4> QED BY <1>0, <2>1, <3>1, <4>1 DEF FlightAccepted, AcceptedBefore
      <3> QED BY <2>3, <3>1, <3>2
    <2>5. ASSUME NEW i \in 1..Len(pipe')
          PROVE  /\ AcceptedBefore(i)' /\ pipe'[i].snap.phase \in Over => Landed'
                 /\ lpc' = "await" /\ call' = "abort" /\ Accepts(i)' => flight' = NoTask
      <3>1. CASE i <= Len(pipe)
        <4>1. i \in 1..Len(pipe) /\ i \in 1..(Len(pipe) + 1) /\ pipe'[i] = pipe[i]
          BY <1>0, <1>6, <3>1
        <4>2. AcceptedBefore(i)' /\ pipe'[i].snap.phase \in Over => Landed'
          BY <1>1, <2>2, <4>1 DEF Told, ToldInPipe
        <4>3. lpc' = "await" /\ call' = "abort" /\ Accepts(i)' => flight = NoTask /\ guided
          BY <1>0, <2>1, <4>1 DEF Told, ToldInPipe, Placed
        <4> QED BY <1>1, <1>2, <4>2, <4>3
      <3>2. CASE ~(i <= Len(pipe))
        <4>1. PICK j \in 1..Len(out') : i = Len(pipe) + j
          <5>1. i - Len(pipe) \in 1..Len(out') /\ i = Len(pipe) + (i - Len(pipe))
            BY <1>0, <1>6, <3>2
          <5> QED BY <5>1
        <4>2. pipe'[i].snap.phase \in Over => pipe'[i].snap.phase = phase'
          <5>1. pipe'[i] = MessageOf(out[j])'
            BY <1>6, <4>1
          <5> QED BY <5>1 DEF MessageOf, Snapshot, NoSnapshot, Over
        <4>3. AcceptedBefore(i)' => FlightAccepted'
          <5>1. \A k \in 1..(i - 1) : k \in 1..((Len(pipe') + 1) - 1)
            BY <1>0, <1>6
          <5> QED BY <5>1 DEF AcceptedBefore, FlightAccepted
        <4>4. AcceptedBefore(i)' /\ pipe'[i].snap.phase \in Over => Landed'
          BY <2>4, <4>2, <4>3 DEF LastFlight, FlightTold
        <4> QED BY <1>0, <2>3, <3>2, <4>4
      <3> QED BY <3>1, <3>2
    <2> QED BY <1>1, <1>3, <1>4, <2>4, <2>5 DEF Told, ToldInPipe
  <1> QED BY <1>0, <1>5, <1>6, OutputWritten

(***************************************************************************)
(* The invariant of a session, and what follows from it.                   *)
(***************************************************************************)
\* A session begins with it.
LEMMA LinkInitInv ==
  ASSUME LinkInit
  PROVE  LinkInv
  <1>1. IInv /\ LinkTypeOK
    BY LinkInitTypes
  <1>2. sent = 0 /\ serving = 0 /\ inbox = <<>> /\ pipe = <<>> /\ lpc = "configure"
        /\ guided = FALSE /\ terminal = FALSE
    BY DEF LinkInit
  <1>3. Numbered /\ LastAsked
    BY <1>2 DEF Numbered, LastAsked
  <1>4. Placed
    BY <1>2 DEF Placed
  <1>5. Unstarted /\ InHand
    BY DEF LinkInit, Init, Unstarted, InHand
  <1>6. Told
    BY <1>2 DEF Told, ToldInPipe, FlightAccepted, AcceptedBefore
  <1> QED BY <1>1, <1>3, <1>4, <1>5, <1>6 DEF LinkInv

\* Every step keeps it.
LEMMA LinkInvStep ==
  ASSUME LinkInv, [LinkNext]_lvars
  PROVE  LinkInv'
  <1> USE DEF LinkInv
  <1>0. TypeOK /\ Room /\ LiveOwned /\ StepKinds
    BY DEF IInv, Ownership
  <1>1. IInv' /\ LinkTypeOK' /\ TypeOK'
    BY SessionInv DEF IInv
  <1>2. Unstarted' /\ InHand'
    <2>1. CASE Next
      BY <1>0, <2>1, UnstartedStep, InHandStep
    <2>2. CASE UNCHANGED vars
      BY <2>2 DEF vars, handles, handler, Unstarted, InHand
    <2> QED BY <2>1, <2>2, ServerMoves
  <1>3. CASE LinkNext
    <2>1. Numbered' /\ LastAsked' /\ Placed'
      BY <1>0, <1>1, <1>3, NumberedStep, LastAskedStep, PlacedStep
    <2>2. Told'
      <3>1. CASE ServerReceives \/ ServerStep
        BY <1>1, <3>1, ToldServer
      <3>2. CASE Elsewhere
        BY <1>3, <3>2, ClientLearns, ToldElsewhere
      <3>3. CASE \E c \in Calls : Asks(c)
        BY <2>1, <3>3, ToldAsks
      <3> QED BY <1>3, <3>1, <3>2, <3>3, LinkSteps
    <2> QED BY <1>1, <1>2, <2>1, <2>2
  <1>4. CASE UNCHANGED lvars
    <2>1. UNCHANGED <<vars, serving, down, mode, lpc, call, sent, latest, fresh, reviewed,
                      guided, terminal, inbox, pipe, stop>>
      BY <1>4 DEF lvars, server, client, seen, duty
    <2>2. UNCHANGED <<flight, phase, planning, generation, tasks, req, hpc>>
      BY <2>1 DEF vars, handles, report, handler
    <2>3. Numbered' /\ LastAsked'
      BY <2>1, <2>2 DEF Numbered, LastAsked
    <2>4. Placed'
      BY <2>1, <2>2 DEF Placed, Up, Alive
    <2>5. /\ LastFlight' <=> LastFlight
          /\ Landed' <=> Landed
          /\ FlightAccepted' <=> FlightAccepted
      BY <2>1, <2>2 DEF LastFlight, NoStart, NoStartServed, Resting, NoSearch, Current, FlightTold,
         Landed, FlightAccepted, AcceptedBefore, Accepts
    <2>6. ToldInPipe'
      BY <2>1, <2>2 DEF Told, ToldInPipe, AcceptedBefore, Accepts, Landed
    <2> QED BY <1>1, <1>2, <2>1, <2>3, <2>4, <2>5, <2>6 DEF Told
  <1> QED BY <1>3, <1>4

\* Every session satisfies the invariant.
THEOREM LinkInvariance == LinkSpec => []LinkInv
  BY LinkInitInv, LinkInvStep, PTL DEF LinkSpec

\* A client that holds its flight for over is right: its engagement flies no more,
\* or has reported the stop on the runway.
THEOREM TerminalIsOver == LinkSpec => []TerminalMeansOver
  <1>1. LinkInv => TerminalMeansOver
    <2> SUFFICES ASSUME LinkInv, terminal, phase # "Complete" PROVE ~Guiding
      BY DEF TerminalMeansOver
    <2>1. flight = NoTask
      BY DEF LinkInv, Told, Landed
    <2>2. ~engaged
      BY <2>1 DEF LinkInv, Unstarted
    <2>3. \A e \in Epochs : ~Flying(e)
      BY <2>2 DEF LinkInv, IInv, Ownership, FlyingEngaged
    <2> QED BY <2>2, <2>3 DEF Guiding
  <1> QED BY <1>1, LinkInvariance, PTL

\* Nobody kills a guiding backend at the end of a run without a stop request that
\* has reached its input.
THEOREM AskedFirst == LinkSpec => AskedBeforeKilled
  <1>1. LinkInv /\ [LinkNext]_lvars =>
          [lpc = "closing" /\ lpc' = "done" /\ Up /\ Guiding =>
             \/ req.method \in StopMethods
             \/ \E i \in 1..Len(inbox) : inbox[i].method \in StopMethods]_lvars
    <2> SUFFICES ASSUME LinkInv, lpc = "closing", Up
                 PROVE  \/ req.method \in StopMethods
                        \/ \E i \in 1..Len(inbox) : inbox[i].method \in StopMethods
      OBVIOUS
    <2>1. call = "shutdown" /\ sent # 0
      BY DEF LinkInv, Placed, Numbered
    <2>2. AsksFor(call) = {"shutdown"} /\ "shutdown" \in StopMethods
      BY <2>1 DEF AsksFor, StopMethods
    <2>3. CASE inbox = <<>>
      BY <2>1, <2>2, <2>3 DEF LinkInv, LastAsked
    <2>4. CASE inbox # <<>>
      <3>1. inbox \in Seq(Line) /\ Len(inbox) \in Nat /\ Len(inbox) # 0
        BY <2>4, LenProperties, EmptySeq DEF LinkInv, LinkTypeOK
      <3>2. Len(inbox) \in 1..Len(inbox)
        BY <3>1
      <3> QED BY <2>1, <2>2, <2>4, <3>2 DEF LinkInv, LastAsked
    <2> QED BY <2>3, <2>4
  <1> QED BY <1>1, LinkInvariance, PTL DEF LinkSpec, AskedBeforeKilled

(***************************************************************************)
(* What the server promises: the invariant.                                *)
(***************************************************************************)
\* From the moment a stop is accepted, the generation is one nothing runs under.
StopFresh ==
  hpc \in {"stopping", "closing", "closed", "gone"} =>
    \A e \in Epochs : Current(e) => tasks[e].pc = "off"

\* A search that reconnects for another runway keeps the session busy.
ReconnectHeld ==
  \A e \in Epochs : Current(e) /\ tasks[e].pc \in {"release", "reconnect"} =>
    preparing /\ planning = NoTask /\ flight = NoTask

\* What has not taken control finds nothing in control.
NotEngagedYet ==
  \A e \in Epochs : tasks[e].pc \in {"prepare", "connect", "ready"} => ~engaged

\* The preparation of a flight ends when it takes control, or fails.
PreparingOver ==
  \A e \in Epochs : Current(e) /\ tasks[e].pc \in {"fly", "closing"} => ~preparing

\* What the session is at is what its current task is at.
AtWork ==
  /\ Unstarted /\ StopFresh /\ ReconnectHeld /\ NotEngagedYet /\ PreparingOver

\* Nothing a superseded task does changes what the session is at.
LEMMA Superseded ==
  ASSUME NEW e \in Epochs, TaskSpeaks(e), ~Current(e)
  PROVE  UNCHANGED <<preparing, engaged, planning, flight, plan>>
  <1> USE DEF handles
  <1>1. CASE PlanningStep(e) \/ SearchProgress(e)
    BY <1>1 DEF PlanningStep, SearchProgress, PreparationThrows, PlanningPrepared, SearchThrows,
       PlanFound, OtherRunwayFound, OldAdapterReleased, Reconnected, ReconnectFails
  <1>2. CASE FlightStep(e) \/ RuntimeStep(e)
    BY <1>2 DEF FlightStep, RuntimeStep, LandingResolved, DeorbitPrepares, DeorbitConnected,
       ArmingThrows, TakeControl, TaskFailed, FailedFlightClosed, Observe, RuntimeThrows,
       RuntimeReturns
  <1> QED BY <1>1, <1>2 DEF TaskSpeaks

\* A step of a task ends where its action leads.
LEMMA TaskGoes ==
  ASSUME TypeOK, NEW e \in Epochs, TaskSpeaks(e)
  PROVE  /\ tasks'[e].pc = "prepare" => FALSE
         /\ tasks'[e].pc \in {"connect", "ready"} =>
              UNCHANGED engaged /\ tasks[e].pc \in {"prepare", "connect"}
         /\ tasks'[e].pc \in {"release", "reconnect"} =>
              \/ UNCHANGED <<preparing, planning, flight>> /\ tasks[e].pc = "release"
              \/ /\ tasks[e].pc = "search" /\ UNCHANGED flight
                 /\ preparing' /\ planning' = NoTask
         /\ tasks'[e].pc \in {"fly", "closing"} =>
              \/ preparing' = FALSE
              \/ UNCHANGED preparing /\ tasks[e].pc = "fly"
         /\ engaged' \in {engaged, FALSE} \/ TakeControl(e)
  <1>0. /\ \A s \in TaskSteps : Goto(e, s) => tasks'[e].pc = s
        /\ \A s \in TaskSteps, c \in Configs : Bind(e, s, c) => tasks'[e].pc = s
    BY GotoTask, BindTask
  <1>a. /\ configuration \in Configs /\ io \in Configs /\ Configurations \subseteq Configs
        /\ {"done", "reconnect", "release", "ready", "connect", "failed", "search", "fly",
            "closing"} \subseteq TaskSteps
    BY DEF TypeOK, Configs, TaskSteps
  <1> USE DEF handles, AtStep
  <1>1. CASE PreparationThrows(e) \/ SearchThrows(e) \/ ArmingThrows(e) \/ RuntimeThrows(e)
    <2>1. Goto(e, "failed") /\ UNCHANGED <<engaged, preparing>>
      BY <1>1 DEF PreparationThrows, SearchThrows, ArmingThrows, RuntimeThrows, Throw
    <2> QED BY <1>0, <1>a, <2>1
  <1>2. CASE PlanFound(e) \/ Reconnected(e) \/ ReconnectFails(e) \/ RuntimeReturns(e)
             \/ FailedFlightClosed(e)
    <2>1. Goto(e, "done") /\ engaged' \in {engaged, FALSE}
      BY <1>2 DEF PlanFound, Reconnected, ReconnectFails, RuntimeReturns, FailedFlightClosed,
         StorePlan, FlightOver
    <2> QED BY <1>0, <1>a, <2>1
  <1>3. CASE PlanningPrepared(e)
    <2>1. Goto(e, "search") /\ UNCHANGED engaged
      BY <1>3 DEF PlanningPrepared
    <2> QED BY <1>0, <1>a, <2>1
  <1>4. CASE SearchProgress(e) \/ Observe(e)
    BY <1>4 DEF SearchProgress, Observe
  <1>5. CASE \E c \in Configurations : OtherRunwayFound(e, c)
    <2>0. PICK c \in Configurations : OtherRunwayFound(e, c)
      BY <1>5
    <2>1. /\ Goto(e, "release") \/ Bind(e, "reconnect", c)
          /\ tasks[e].pc = "search" /\ UNCHANGED <<flight, engaged>>
          /\ preparing' /\ planning' = NoTask
      BY <2>0 DEF OtherRunwayFound
    <2>2. tasks'[e].pc \in {"release", "reconnect"}
      BY <1>0, <1>a, <2>1
    <2> QED BY <2>1, <2>2
  <1>6. CASE OldAdapterReleased(e)
    <2>1. CASE Goto(e, "done") /\ UNCHANGED engaged
      BY <1>0, <1>a, <2>1
    <2>2. CASE /\ Bind(e, "reconnect", configuration) /\ tasks[e].pc = "release"
               /\ UNCHANGED <<engaged, preparing, planning, flight>>
      <3>1. tasks'[e].pc = "reconnect"
        BY <1>0, <1>a, <2>2
      <3> QED BY <2>2, <3>1
    <2> QED BY <1>6, <2>1, <2>2 DEF OldAdapterReleased, StorePlan
  <1>7. CASE LandingResolved(e)
    <2>1. /\ tasks'[e].pc = "ready" /\ tasks[e].pc = "prepare" /\ UNCHANGED engaged
      BY <1>7 DEF LandingResolved, TypeOK
    <2> QED BY <2>1
  <1>8. CASE DeorbitPrepares(e) \/ DeorbitConnected(e)
    <2>1. /\ \/ Bind(e, "ready", io) \/ Bind(e, "connect", configuration)
             \/ Goto(e, "ready") \/ Goto(e, "failed")
          /\ tasks[e].pc \in {"prepare", "connect"} /\ UNCHANGED engaged
      BY <1>8 DEF DeorbitPrepares, DeorbitConnected, Throw
    <2>2. tasks'[e].pc \in {"ready", "connect", "failed"}
      BY <1>0, <1>a, <2>1
    <2> QED BY <2>1, <2>2
  <1>9. CASE TakeControl(e)
    <2>1. Goto(e, "fly") /\ preparing' = FALSE
      BY <1>9 DEF TakeControl
    <2>2. tasks'[e].pc = "fly"
      BY <1>0, <1>a, <2>1
    <2> QED BY <1>9, <2>1, <2>2
  <1>10. CASE TaskFailed(e)
    <2>1. /\ engaged' \in {engaged, FALSE}
          /\ \/ Goto(e, "done")
             \/ Goto(e, "closing") /\ preparing' = FALSE
      BY <1>10 DEF TaskFailed, FlightOver
    <2>2. \/ tasks'[e].pc = "done"
          \/ tasks'[e].pc = "closing" /\ preparing' = FALSE
      BY <1>0, <1>a, <2>1
    <2> QED BY <2>1, <2>2
  <1> QED BY <1>1, <1>2, <1>3, <1>4, <1>5, <1>6, <1>7, <1>8, <1>9, <1>10
          DEF TaskSpeaks, PlanningStep, FlightStep, RuntimeStep

\* What the parts of a request that start nothing do to the session.
LEMMA HandlerKeeps ==
  ASSUME Handler, ~StartPlanning, ~Engages
  PROVE  /\ hpc' \in {"stopping", "closing", "closed", "gone"} =>
              \/ StopAll
              \/ UNCHANGED generation /\ hpc \in {"stopping", "closing", "closed"}
         /\ preparing' \in {preparing, FALSE} /\ engaged' \in {engaged, FALSE}
         /\ UNCHANGED <<preparing, planning, flight, engaged>> \/ TasksStopped
         /\ \/ UNCHANGED generation \/ StopAll
            \/ ~preparing /\ planning = NoTask /\ flight = NoTask
  <1> USE DEF handles, Quiet, Fail, Succeed
  <1>1. CASE RejectConfiguration \/ ApplyConfiguration \/ CloseOldAdapter
    BY <1>1 DEF RejectConfiguration, ApplyConfiguration, CloseOldAdapter, Busy
  <1>2. CASE AnswerAtOnce \/ Connect \/ Connected \/ SaveCheckpoint \/ CheckpointSaved
    BY <1>2 DEF AnswerAtOnce, Connect, Connected, SaveCheckpoint, CheckpointSaved
  <1>3. CASE RejectStart \/ StopAll \/ TasksStopped \/ Stopped
    BY <1>3 DEF RejectStart, StopAll, TasksStopped, Stopped
  <1> QED BY <1>1, <1>2, <1>3 DEF Handler, Engages

\* A request leaves the session to the task it is at, or has none run on.
LEMMA AtWorkHandler ==
  ASSUME IInv, AtWork, Handler, ~StartPlanning, ~Engages, Unstarted'
  PROVE  AtWork'
  <1> USE DEF AtWork, Current
  <1>1. tasks' = tasks
    BY HandlerFrame DEF IInv
  <1>2. CASE StopAll
    <2>1. /\ generation' = generation + 1 /\ generation + 1 > generation
          /\ UNCHANGED <<preparing, engaged, planning, flight>>
      BY <1>2 DEF StopAll, NewGeneration, handles, IInv, TypeOK
    <2>2. \A e \in Epochs : e = generation' => tasks'[e].pc = "off"
      BY <1>1, <2>1 DEF Unstarted
    <2>3. StopFresh' /\ ReconnectHeld' /\ PreparingOver'
      BY <2>2 DEF StopFresh, ReconnectHeld, PreparingOver
    <2>4. NotEngagedYet'
      BY <1>1, <2>1 DEF NotEngagedYet
    <2> QED BY <2>3, <2>4
  <1>3. CASE TasksStopped
    <2>1. /\ UNCHANGED generation /\ hpc = "stopping"
          /\ ~preparing' /\ ~engaged'
      BY <1>3 DEF TasksStopped
    <2>2. \A e \in Epochs : e = generation' => tasks'[e].pc = "off"
      BY <1>1, <2>1 DEF StopFresh
    <2> QED BY <2>1, <2>2 DEF StopFresh, ReconnectHeld, PreparingOver, NotEngagedYet
  <1>4. CASE ~StopAll /\ ~TasksStopped
    <2>1. /\ UNCHANGED <<preparing, planning, flight, engaged>>
          /\ hpc' \in {"stopping", "closing", "closed", "gone"} =>
               UNCHANGED generation /\ hpc \in {"stopping", "closing", "closed"}
          /\ \/ UNCHANGED generation
             \/ ~preparing /\ planning = NoTask /\ flight = NoTask
      BY <1>4, HandlerKeeps
    <2>2. StopFresh'
      BY <1>1, <2>1 DEF StopFresh
    <2>3. NotEngagedYet'
      BY <1>1, <2>1 DEF NotEngagedYet
    <2>4. CASE UNCHANGED generation
      BY <1>1, <2>1, <2>2, <2>3, <2>4 DEF ReconnectHeld, PreparingOver
    <2>5. CASE generation' # generation
      <3>1. generation' = generation + 1 /\ generation + 1 > generation
        BY <2>5, HandlerFrame DEF IInv, TypeOK
      <3>2. \A e \in Epochs : e = generation' => tasks'[e].pc = "off"
        BY <1>1, <3>1 DEF Unstarted
      <3> QED BY <2>2, <2>3, <3>2 DEF ReconnectHeld, PreparingOver
    <2> QED BY <2>4, <2>5
  <1> QED BY <1>2, <1>3, <1>4

\* A start finds nothing in control, and its task prepares.
LEMMA AtWorkStart ==
  ASSUME IInv, AtWork, StartPlanning \/ Engages, Unstarted'
  PROVE  AtWork'
  <1> USE DEF AtWork, Current
  <1>1. /\ tasks'[generation'].pc = "prepare" /\ ~engaged /\ UNCHANGED engaged /\ hpc' = "idle"
    BY StartFrame DEF IInv
  <1>2. StopFresh' /\ ReconnectHeld' /\ PreparingOver'
    BY <1>1 DEF StopFresh, ReconnectHeld, PreparingOver
  <1>3. NotEngagedYet'
    BY <1>1 DEF NotEngagedYet
  <1> QED BY <1>2, <1>3

\* A task stays within the session it is the task of.
LEMMA AtWorkTask ==
  ASSUME IInv, AtWork, NEW e \in Epochs, TaskSpeaks(e), Unstarted'
  PROVE  AtWork'
  <1> USE DEF AtWork
  <1>1. /\ UNCHANGED <<generation, hpc>> /\ tasks[e].pc \notin {"off", "done"}
        /\ \A d \in Epochs \ {e} : tasks'[d] = tasks[d]
    BY TaskFrame DEF IInv
  <1>2. ~Current(e) => UNCHANGED <<preparing, engaged, planning, flight>>
    BY Superseded
  <1>3. StopFresh'
    BY <1>1 DEF StopFresh, Current
  <1>4. ReconnectHeld'
    <2> SUFFICES ASSUME NEW d \in Epochs, Current(d)', tasks'[d].pc \in {"release", "reconnect"}
                 PROVE  preparing' /\ planning' = NoTask /\ flight' = NoTask
      BY DEF ReconnectHeld
    <2>1. Current(d)
      BY <1>1 DEF Current
    <2>2. CASE d # e
      BY <1>1, <1>2, <2>1, <2>2 DEF ReconnectHeld, Current
    <2>3. CASE d = e
      <3>1. CASE UNCHANGED <<preparing, planning, flight>> /\ tasks[e].pc = "release"
        BY <2>1, <2>3, <3>1 DEF ReconnectHeld
      <3>2. CASE /\ tasks[e].pc = "search" /\ UNCHANGED flight
                 /\ preparing' /\ planning' = NoTask
        <4>1. planning = e /\ e # NoTask
          BY <3>2 DEF IInv, Ownership, LiveOwned, StepKinds, OwnedSteps, Epochs, NoTask
        <4> QED BY <3>2, <4>1 DEF IInv, Ownership, PlanOrFlight
      <3> QED BY <2>3, <3>1, <3>2, TaskGoes DEF IInv
    <2> QED BY <2>2, <2>3
  <1>5. NotEngagedYet'
    <2> SUFFICES ASSUME NEW d \in Epochs, tasks'[d].pc \in {"prepare", "connect", "ready"}
                 PROVE  ~engaged'
      BY DEF NotEngagedYet
    <2>1. CASE d = e
      BY <2>1, TaskGoes DEF IInv, NotEngagedYet
    <2>2. CASE d # e
      <3>1. tasks[d].pc \in {"prepare", "connect", "ready"}
        BY <1>1, <2>2
      <3>2. ~TakeControl(e)
        <4> SUFFICES ASSUME TakeControl(e) PROVE FALSE
          OBVIOUS
        <4>1. flight = e /\ e # NoTask /\ d # NoTask
          BY DEF TakeControl, AtStep, IInv, Ownership, LiveOwned, StepKinds, OwnedSteps, Epochs,
             NoTask
        <4> QED BY <2>2, <3>1, <4>1 DEF IInv, Ownership, LiveOwned, PlanOrFlight, OwnedSteps
      <3> QED BY <3>1, <3>2, TaskGoes DEF IInv, NotEngagedYet
    <2> QED BY <2>1, <2>2
  <1>6. PreparingOver'
    <2> SUFFICES ASSUME NEW d \in Epochs, Current(d)', tasks'[d].pc \in {"fly", "closing"}
                 PROVE  ~preparing'
      BY DEF PreparingOver
    <2>1. Current(d)
      BY <1>1 DEF Current
    <2>2. CASE d # e
      BY <1>1, <1>2, <2>1, <2>2 DEF PreparingOver, Current
    <2>3. CASE d = e
      BY <2>1, <2>3, TaskGoes DEF IInv, PreparingOver
    <2> QED BY <2>2, <2>3
  <1> QED BY <1>3, <1>4, <1>5, <1>6

\* The invariant of a server at work.
LEMMA AtWorkStep ==
  ASSUME IInv, AtWork, Next
  PROVE  AtWork'
  <1>1. Unstarted'
    BY UnstartedStep DEF IInv, Ownership, AtWork
  <1>2. CASE EndOfInput \/ \E r \in Requests : Receive(r)
    <2>1. /\ UNCHANGED <<tasks, generation, preparing, engaged, planning, flight>>
          /\ hpc' \notin {"stopping", "closing", "closed", "gone"}
      BY <1>2 DEF EndOfInput, Receive, handles, Fail
    <2>2. StopFresh' /\ NotEngagedYet'
      BY <2>1 DEF AtWork, StopFresh, NotEngagedYet
    <2>3. ReconnectHeld' /\ PreparingOver'
      BY <2>1 DEF AtWork, ReconnectHeld, PreparingOver, Current
    <2> QED BY <1>1, <2>2, <2>3 DEF AtWork
  <1> QED BY <1>1, <1>2, ServerSteps, AtWorkHandler, AtWorkStart, AtWorkTask

(***************************************************************************)
(* What the server promises: the refinement.                               *)
(***************************************************************************)
\* No step of a task changes what a deorbit flies.
LEMMA PlanKept ==
  ASSUME TypeOK, NEW e \in Epochs, TaskSpeaks(e)
  PROVE  tasks[e].kind = "deorbit" => tasks'[e].plan = tasks[e].plan
  <1>0. /\ \A s \in TaskSteps : Goto(e, s) => tasks'[e].plan = tasks[e].plan
        /\ \A s \in TaskSteps, c \in Configs : Bind(e, s, c) => tasks'[e].plan = tasks[e].plan
    BY GotoTask, BindTask
  <1>a. /\ configuration \in Configs /\ io \in Configs /\ Configurations \subseteq Configs
        /\ {"done", "reconnect", "release", "ready", "connect", "failed", "search", "fly",
            "closing"} \subseteq TaskSteps
    BY DEF TypeOK, Configs, TaskSteps
  <1>1. CASE SearchProgress(e) \/ Observe(e)
    BY <1>1 DEF SearchProgress, Observe
  <1>2. CASE LandingResolved(e)
    BY <1>2 DEF LandingResolved
  <1>3. CASE \E c \in Configurations : OtherRunwayFound(e, c)
    <2>1. PICK c \in Configurations : OtherRunwayFound(e, c)
      BY <1>3
    <2>2. Goto(e, "release") \/ Bind(e, "reconnect", c)
      BY <2>1 DEF OtherRunwayFound
    <2> QED BY <1>0, <1>a, <2>2
  <1>4. CASE OldAdapterReleased(e) \/ DeorbitPrepares(e)
    <2>1. \/ Goto(e, "done") \/ Bind(e, "reconnect", configuration)
          \/ Bind(e, "ready", io) \/ Bind(e, "connect", configuration)
      BY <1>4 DEF OldAdapterReleased, DeorbitPrepares, StorePlan
    <2> QED BY <1>0, <1>a, <2>1
  <1>5. CASE PreparationThrows(e) \/ PlanningPrepared(e) \/ SearchThrows(e) \/ PlanFound(e)
             \/ Reconnected(e) \/ ReconnectFails(e)
    <2>1. Goto(e, "failed") \/ Goto(e, "search") \/ Goto(e, "done")
      BY <1>5 DEF PreparationThrows, PlanningPrepared, SearchThrows, PlanFound, Reconnected,
         ReconnectFails, StorePlan, Throw
    <2> QED BY <1>0, <1>a, <2>1
  <1>6. CASE DeorbitConnected(e) \/ ArmingThrows(e) \/ TakeControl(e) \/ TaskFailed(e)
             \/ FailedFlightClosed(e) \/ RuntimeThrows(e) \/ RuntimeReturns(e)
    <2>1. \/ Goto(e, "failed") \/ Goto(e, "ready") \/ Goto(e, "fly") \/ Goto(e, "done")
          \/ Goto(e, "closing")
      BY <1>6 DEF DeorbitConnected, ArmingThrows, TakeControl, TaskFailed, FailedFlightClosed,
         RuntimeThrows, RuntimeReturns, FlightOver, Throw
    <2> QED BY <1>0, <1>a, <2>1
  <1> QED BY <1>1, <1>2, <1>3, <1>4, <1>5, <1>6
          DEF TaskSpeaks, PlanningStep, FlightStep, RuntimeStep

\* What is flown changes with the flight only.
LEMMA FlownKept ==
  ASSUME TypeOK, NEW e \in Epochs, TaskSpeaks(e), UNCHANGED flight
  PROVE  UNCHANGED Flown
  <1>1. CASE flight = NoTask
    BY <1>1 DEF Flown
  <1>2. CASE flight # NoTask
    <2>1. flight \in Epochs
      BY <1>2 DEF TypeOK, Epochs, NoTask
    <2>2. CASE flight = e
      BY <2>1, <2>2, TaskFrame, PlanKept DEF Flown
    <2>3. CASE flight # e
      BY <2>1, <2>3, TaskFrame DEF Flown
    <2> QED BY <2>2, <2>3
  <1> QED BY <1>1, <1>2

Stutters == UNCHANGED <<Life, Doing, plan, Flown, phase>>

\* A started server is a session that does nothing yet.
LEMMA SessionStarts == Init => Session!Init
  BY DEF Init, Session!Init, Life, Doing, Flown, Alive

\* What a request does to the session.
LEMMA SessionRequest ==
  ASSUME IInv, AtWork, Handler, ~StartPlanning, ~Engages
  PROVE  Session!Next \/ Stutters
  <1> USE DEF handles, report, session
  <1>0. tasks' = tasks
    BY HandlerFrame DEF IInv
  <1>a. UNCHANGED flight => UNCHANGED Flown
    BY <1>0 DEF Flown
  <1>1. CASE RejectConfiguration \/ CloseOldAdapter
    <2>1. UNCHANGED <<planning, flight, preparing, engaged, plan, phase>>
      BY <1>1 DEF RejectConfiguration, CloseOldAdapter
    <2>2. UNCHANGED Life
      BY <1>1 DEF RejectConfiguration, CloseOldAdapter, Life, Alive, Fail
    <2> QED BY <1>a, <2>1, <2>2 DEF Stutters, Doing
  <1>2. CASE ApplyConfiguration
    <2>1. /\ UNCHANGED <<planning, flight, preparing, engaged, phase>>
          /\ plan' = NoPlan \/ UNCHANGED plan
          /\ planning = NoTask /\ flight = NoTask /\ ~preparing
      BY <1>2 DEF ApplyConfiguration, Busy
    <2>2. UNCHANGED Life /\ Life = "serving"
      BY <1>2 DEF ApplyConfiguration, Life, Alive
    <2>3. UNCHANGED Doing /\ Doing = "nothing"
      BY <2>1 DEF Doing
    <2> QED BY <1>a, <2>1, <2>2, <2>3 DEF Stutters, Session!Next, Session!DropPlan, Session!Idle
  <1>3. CASE \/ AnswerAtOnce \/ Connect \/ Connected
             \/ SaveCheckpoint \/ CheckpointSaved \/ RejectStart
    <2>1. UNCHANGED <<planning, flight, preparing, engaged, plan, phase>>
      BY <1>3 DEF AnswerAtOnce, Connect, Connected, SaveCheckpoint, CheckpointSaved, RejectStart
    <2>2. hpc \in {"dispatch", "connect", "save"} /\ hpc' \in {"idle", "connect", "save"}
      BY <1>3 DEF AnswerAtOnce, Connect, Connected, SaveCheckpoint, CheckpointSaved, RejectStart,
         Succeed, Fail
    <2>3. UNCHANGED Life
      BY <2>2 DEF Life, Alive
    <2> QED BY <1>a, <2>1, <2>3 DEF Stutters, Doing
  <1>4. CASE StopAll
    <2>1. UNCHANGED <<planning, flight, preparing, engaged, plan, phase>>
      BY <1>4 DEF StopAll
    <2>2. Life = "serving" /\ Life' = "stopping"
      BY <1>4 DEF StopAll, Life, Alive
    <2>3. UNCHANGED Doing
      BY <2>1 DEF Doing
    <2> QED BY <1>a, <2>1, <2>2, <2>3 DEF Session!Next, Session!AcceptStop
  <1>5. CASE TasksStopped
    <2>1. /\ planning' = NoTask /\ flight' = NoTask /\ ~preparing' /\ ~engaged'
          /\ UNCHANGED <<plan, phase>>
      BY <1>5 DEF TasksStopped
    <2>2. Life = "stopping" /\ Life' = "released"
      BY <1>5 DEF TasksStopped, Life
    <2>3. Doing' = "nothing" /\ Flown' = NoPlan
      BY <2>1 DEF Doing, Flown
    <2> QED BY <2>1, <2>2, <2>3 DEF Session!Next, Session!Release
  <1>6. CASE Stopped
    <2>1. UNCHANGED <<planning, flight, preparing, engaged>>
      BY <1>6 DEF Stopped
    <2>2. Life = "released"
      BY <1>6 DEF Stopped, Life
    <2>3. UNCHANGED Doing
      BY <2>1 DEF Doing
    <2>4. CASE hpc' = "gone" /\ UNCHANGED <<plan, phase>>
      <3>1. Life' = "over"
        BY <2>4 DEF Life, Alive
      <3> QED BY <1>a, <2>1, <2>2, <2>3, <2>4, <3>1 DEF Session!Next, Session!Exit
    <2>5. CASE /\ hpc' = "idle"
               /\ \/ phase' = "Abort" /\ UNCHANGED plan
                  \/ phase' = "Idle" /\ plan' = NoPlan
      <3>1. Life' = "serving"
        BY <2>5 DEF Life, Alive
      <3> QED BY <1>a, <2>1, <2>2, <2>3, <2>5, <3>1 DEF Session!Next, Session!Resume
    <2> QED BY <1>6, <2>4, <2>5 DEF Stopped, Succeed
  <1> QED BY <1>1, <1>2, <1>3, <1>4, <1>5, <1>6 DEF Handler, Engages

\* What a start does to it.
LEMMA SessionBegins ==
  ASSUME IInv, AtWork, StartPlanning \/ Engages
  PROVE  Session!Next
  <1>1. /\ hpc = "dispatch" /\ hpc' = "idle" /\ ~engaged /\ UNCHANGED <<engaged, plan>>
        /\ planning = NoTask /\ flight = NoTask /\ ~preparing
    BY StartFrame
       DEF IInv, StartPlanning, Engages, EngageDeorbit, EngageLanding, Busy
  <1>2. Life = "serving" /\ UNCHANGED Life
    BY <1>1 DEF Life, Alive
  <1>3. Doing = "nothing" /\ Flown = NoPlan
    BY <1>1 DEF Doing, Flown
  <1>4. generation' # NoTask /\ generation' \in Epochs
    BY StartFrame DEF IInv, Epochs, NoTask
  <1> USE DEF Session!Next, Session!Does, Session!Idle
  <1>5. CASE StartPlanning
    <2>1. planning' = generation' /\ flight' = NoTask /\ phase' = "Planning"
      BY <1>5, StartFrame DEF IInv, StartPlanning
    <2>2. Doing' = "planning" /\ Flown' = NoPlan
      BY <1>4, <2>1 DEF Doing, Flown
    <2> QED BY <1>1, <1>2, <1>3, <2>1, <2>2 DEF Session!Search
  <1>6. CASE Engages /\ ~StartPlanning
    <2>1. planning' = NoTask /\ flight' = generation' /\ phase' = "Preparing"
      BY <1>6, StartFrame DEF IInv
    <2>2. Doing' = "preparing"
      BY <1>1, <1>4, <2>1 DEF Doing
    <2>3. Flown' \in {plan, NoPlan}
      <3>1. /\ generation + 1 <= MaxGeneration /\ plan \in Plan /\ NoPlan \in Plan
            /\ "deorbit" \in TaskKinds /\ "landing" \in TaskKinds
        BY <1>1, ServerAssumption
           DEF IInv, TypeOK, Room, NoPlan, NoTask, Plan, Configs, TaskKinds
      <3>2. PICK k \in {"deorbit", "landing"}, p \in {plan, NoPlan} : Start(k, p)
        BY <1>6 DEF Engages, EngageDeorbit, EngageLanding
      <3>3. tasks'[generation + 1].plan = p /\ generation' = generation + 1
        BY <3>1, <3>2, StartTask DEF IInv, Start, NewGeneration
      <3> QED BY <1>4, <2>1, <3>3 DEF Flown
    <2> QED BY <1>1, <1>2, <1>3, <2>1, <2>2, <2>3 DEF Session!Engage
  <1> QED BY <1>5, <1>6

\* The session serves while its current task is at work.
LEMMA CurrentServes ==
  ASSUME IInv, AtWork, NEW e \in Epochs, TaskSpeaks(e)
  PROVE  /\ UNCHANGED Life /\ Alive
         /\ Current(e) => Life = "serving"
  <1>1. UNCHANGED hpc /\ tasks[e].pc # "off"
    BY TaskFrame DEF IInv
  <1>2. Alive
    BY DEF TaskSpeaks, PlanningStep, SearchProgress, FlightStep, RuntimeStep, AtStep,
       PreparationThrows, PlanningPrepared, SearchThrows, PlanFound, OtherRunwayFound,
       OldAdapterReleased, Reconnected, ReconnectFails, LandingResolved, DeorbitPrepares,
       DeorbitConnected, ArmingThrows, TakeControl, TaskFailed, FailedFlightClosed, Observe,
       RuntimeThrows, RuntimeReturns
  <1>3. Current(e) => hpc \notin {"stopping", "closing", "closed", "gone"}
    BY <1>1 DEF AtWork, StopFresh
  <1> QED BY <1>1, <1>2, <1>3 DEF Life, Alive

\* What a planning task does to it.
LEMMA SessionPlans ==
  ASSUME IInv, AtWork, NEW e \in Epochs, PlanningStep(e) \/ SearchProgress(e)
  PROVE  Session!Next \/ Stutters
  <1> USE DEF handles, report, AtStep
  <1>1. TaskSpeaks(e) /\ e # NoTask
    BY DEF TaskSpeaks, Epochs, NoTask
  <1>2. /\ UNCHANGED Life /\ (Current(e) => Life = "serving")
        /\ UNCHANGED flight => UNCHANGED Flown
    BY <1>1, CurrentServes, FlownKept DEF IInv
  <1>3. CASE PreparationThrows(e) \/ SearchThrows(e) \/ SearchProgress(e)
    <2>1. UNCHANGED <<planning, flight, preparing, engaged, plan, phase>>
      BY <1>3 DEF PreparationThrows, SearchThrows, SearchProgress
    <2> QED BY <1>2, <2>1 DEF Stutters, Doing
  <1>4. CASE PlanningPrepared(e) \/ \E c \in Configurations : OtherRunwayFound(e, c)
    <2>1. /\ UNCHANGED <<flight, engaged, plan, phase>>
          /\ planning' # NoTask \/ preparing'
          /\ tasks[e].pc \in OwnedSteps /\ tasks[e].kind = "plan"
      BY <1>1, <1>4
         DEF PlanningPrepared, OtherRunwayFound, OwnedSteps, IInv, Ownership, LiveOwned, StepKinds
    <2>2. planning # NoTask /\ flight = NoTask
      BY <1>1, <2>1 DEF IInv, Ownership, LiveOwned, PlanOrFlight
    <2>3. UNCHANGED Doing
      BY <2>1, <2>2 DEF Doing
    <2> QED BY <1>2, <2>1, <2>3 DEF Stutters
  <1>5. CASE Current(e) /\ flight = NoTask /\ Doing = "planning" /\ StorePlan(e, configuration)
             /\ UNCHANGED flight /\ planning' = NoTask
    <2>1. plan' \in Plan \ {NoPlan} /\ phase' = "Idle" /\ ~preparing'
      BY <1>1, <1>5 DEF StorePlan, Plan, NoPlan, IInv, TypeOK, Configs, Epochs
    <2>2. Doing' = "nothing"
      BY <1>5, <2>1 DEF Doing
    <2> QED BY <1>2, <1>5, <2>1, <2>2 DEF Session!Next, Session!KeepPlan, Session!Does
  <1>6. tasks[e].pc = "search" => planning = e /\ flight = NoTask /\ Doing = "planning"
    BY <1>1 DEF IInv, Ownership, LiveOwned, StepKinds, OwnedSteps, PlanOrFlight, Doing
  <1>7. Current(e) /\ tasks[e].pc \in {"release", "reconnect"} =>
          planning = NoTask /\ flight = NoTask /\ Doing = "planning"
    BY DEF AtWork, ReconnectHeld, Doing
  <1>8. CASE PlanFound(e)
    BY <1>5, <1>6, <1>8 DEF PlanFound
  <1>9. CASE OldAdapterReleased(e) \/ Reconnected(e)
    <2>1. CASE /\ UNCHANGED <<planning, flight, preparing, engaged, plan, phase>>
      BY <1>2, <2>1 DEF Stutters, Doing
    <2>2. CASE /\ Current(e) /\ StorePlan(e, configuration)
               /\ UNCHANGED <<planning, flight>>
      BY <1>5, <1>7, <1>9, <2>2 DEF OldAdapterReleased, Reconnected
    <2> QED BY <1>9, <2>1, <2>2 DEF OldAdapterReleased, Reconnected
  <1>10. CASE ReconnectFails(e)
    <2>1. CASE ~Current(e)
      BY <1>2, <1>10, <2>1 DEF ReconnectFails, Stutters, Doing
    <2>2. CASE Current(e)
      <3>1. /\ ~preparing' /\ phase' = "Fault" /\ UNCHANGED <<plan, flight, planning>>
            /\ planning = NoTask /\ flight = NoTask /\ Doing = "planning"
        BY <1>7, <1>10, <2>2 DEF ReconnectFails
      <3>2. Doing' = "nothing"
        BY <3>1 DEF Doing
      <3> QED BY <1>2, <2>2, <3>1, <3>2 DEF Session!Next, Session!GiveUp, Session!Does
    <2> QED BY <2>1, <2>2
  <1> QED BY <1>3, <1>4, <1>8, <1>9, <1>10 DEF PlanningStep

\* What a flight does to it.
LEMMA SessionFlies ==
  ASSUME IInv, AtWork, NEW e \in Epochs, FlightStep(e) \/ RuntimeStep(e)
  PROVE  Session!Next \/ Stutters
  <1> USE DEF handles, report, AtStep
  <1>1. TaskSpeaks(e) /\ e # NoTask
    BY DEF TaskSpeaks, Epochs, NoTask
  <1>2. /\ UNCHANGED Life /\ (Current(e) => Life = "serving")
        /\ UNCHANGED flight => UNCHANGED Flown
    BY <1>1, CurrentServes, FlownKept DEF IInv
  <1>3. /\ tasks[e].kind # "plan" /\ tasks[e].pc \in OwnedSteps =>
             flight = e /\ planning = NoTask
        /\ tasks[e].pc \in {"ready", "fly", "closing"} =>
             tasks[e].kind # "plan" /\ flight = e /\ planning = NoTask
        /\ tasks[e].pc = "fly" => engaged /\ Doing = "flying"
        /\ tasks[e].pc = "failed" /\ tasks[e].kind = "plan" =>
             planning = e /\ flight = NoTask /\ Doing = "planning"
    BY <1>1 DEF IInv, Ownership, LiveOwned, StepKinds, OwnedSteps, PlanOrFlight, FlyingEngaged,
       Flying, Doing
  <1>4. CASE UNCHANGED <<planning, flight, preparing, engaged, plan, phase>>
    BY <1>2, <1>4 DEF Stutters, Doing
  <1>5. CASE LandingResolved(e) \/ DeorbitPrepares(e) \/ DeorbitConnected(e) \/ ArmingThrows(e)
             \/ RuntimeThrows(e)
    BY <1>4, <1>5 DEF LandingResolved, DeorbitPrepares, DeorbitConnected, ArmingThrows,
       RuntimeThrows
  <1>6. CASE TakeControl(e)
    <2>1. /\ Current(e) /\ flight = e /\ ~engaged /\ engaged'
          /\ UNCHANGED <<flight, plan>> /\ phase' \in {phase, "flying"}
      BY <1>3, <1>6 DEF TakeControl, AtWork, NotEngagedYet
    <2>2. Doing = "preparing" /\ Doing' = "flying"
      BY <1>1, <2>1 DEF Doing
    <2> QED BY <1>2, <2>1, <2>2 DEF Session!Next, Session!TakeControl, Session!Does
  <1>7. CASE Observe(e)
    <2>1. /\ UNCHANGED <<planning, flight, preparing, engaged, plan>> /\ flight = e
          /\ Doing = "flying" /\ phase # "Complete" /\ phase' \in {"flying", "Complete"}
      BY <1>3, <1>7 DEF Observe
    <2>2. Life \in {"serving", "stopping"}
      BY <1>1, <2>1, CurrentServes DEF Life, IInv, Ownership, StopReleased
    <2>3. UNCHANGED Doing
      BY <2>1 DEF Doing
    <2> QED BY <1>2, <2>1, <2>2, <2>3 DEF Session!Next, Session!Report
  <1>8. ASSUME NEW p \in Phases, FlightOver(e, p), Current(e), UNCHANGED <<planning, plan>>,
               flight = e, planning = NoTask, ~preparing'
        PROVE  /\ Life = "serving" /\ Doing \in {"preparing", "flying"}
               /\ Session!Does("nothing") /\ Flown' = NoPlan /\ phase' = p /\ UNCHANGED plan
    <2>1. flight' = NoTask /\ ~engaged' /\ phase' = p
      BY <1>8 DEF FlightOver
    <2>2. Doing' = "nothing" /\ Flown' = NoPlan
      BY <1>8, <2>1 DEF Doing, Flown
    <2>3. Doing \in {"preparing", "flying"}
      BY <1>1, <1>8 DEF Doing
    <2> QED BY <1>2, <1>8, <2>1, <2>2, <2>3 DEF Session!Does
  <1>9. CASE RuntimeReturns(e)
    <2>1. CASE ~Current(e)
      BY <1>4, <1>9, <2>1 DEF RuntimeReturns
    <2>2. CASE Current(e)
      <3>1. PICK p \in {"Complete", "Abort"} : FlightOver(e, p)
        BY <1>9, <2>2 DEF RuntimeReturns
      <3>2. /\ UNCHANGED <<planning, plan>> /\ flight = e /\ planning = NoTask /\ ~preparing'
            /\ Doing = "flying"
        BY <1>3, <1>9, <2>2 DEF RuntimeReturns, AtWork, PreparingOver
      <3>3. p \in Phases
        BY DEF Phases
      <3> QED BY <1>8, <2>2, <3>1, <3>2, <3>3 DEF Session!Next, Session!Finish
    <2> QED BY <2>1, <2>2
  <1>10. "Fault" \in Phases
    BY DEF Phases
  <1>11. CASE FailedFlightClosed(e)
    <2>1. CASE ~Current(e)
      BY <1>4, <1>11, <2>1 DEF FailedFlightClosed
    <2>2. CASE Current(e)
      <3>1. /\ FlightOver(e, "Fault") /\ UNCHANGED <<planning, plan>>
            /\ flight = e /\ planning = NoTask /\ ~preparing'
        BY <1>3, <1>11, <2>2 DEF FailedFlightClosed, AtWork, PreparingOver
      <3> QED BY <1>8, <1>10, <2>2, <3>1 DEF Session!Next, Session!Fail
    <2> QED BY <2>1, <2>2
  <1>12. CASE TaskFailed(e)
    <2>1. CASE ~Current(e)
      BY <1>4, <1>12, <2>1 DEF TaskFailed
    <2>2. CASE Current(e) /\ tasks[e].kind = "plan"
      <3>1. /\ planning' = NoTask /\ ~preparing' /\ phase' = "Fault" /\ UNCHANGED <<plan, flight>>
            /\ flight = NoTask /\ Doing = "planning"
        BY <1>3, <1>12, <2>2 DEF TaskFailed
      <3>2. Doing' = "nothing"
        BY <3>1 DEF Doing
      <3> QED BY <1>2, <2>2, <3>1, <3>2 DEF Session!Next, Session!GiveUp, Session!Does
    <2>3. CASE Current(e) /\ tasks[e].kind # "plan" /\ io # NoConf
      <3>1. UNCHANGED <<planning, flight, engaged, plan, phase>> /\ flight # NoTask
        BY <1>1, <1>3, <1>12, <2>3 DEF TaskFailed, OwnedSteps
      <3> QED BY <1>2, <3>1 DEF Stutters, Doing
    <2>4. CASE Current(e) /\ tasks[e].kind # "plan" /\ io = NoConf
      <3>1. /\ FlightOver(e, "Fault") /\ UNCHANGED <<planning, plan>>
            /\ flight = e /\ planning = NoTask /\ ~preparing'
        BY <1>3, <1>12, <2>4 DEF TaskFailed, OwnedSteps
      <3> QED BY <1>8, <1>10, <2>4, <3>1 DEF Session!Next, Session!Fail
    <2> QED BY <2>1, <2>2, <2>3, <2>4
  <1> QED BY <1>5, <1>6, <1>7, <1>9, <1>11, <1>12 DEF FlightStep, RuntimeStep

\* Every step of the server is one of its session, or does not touch it.
LEMMA SessionNext ==
  ASSUME IInv, AtWork, [Next]_vars
  PROVE  [Session!Next]_Session!vars
  <1>1. CASE UNCHANGED vars
    <2>1. UNCHANGED <<hpc, flight, planning, preparing, engaged, tasks, plan, phase>>
      BY <1>1 DEF vars, handles, report, handler
    <2>2. UNCHANGED <<Life, Doing, Flown>>
      BY <2>1 DEF Life, Alive, Doing, Flown
    <2> QED BY <2>1, <2>2 DEF Session!vars
  <1>2. CASE \E r \in Requests : Receive(r)
    <2>1. /\ UNCHANGED <<flight, planning, preparing, engaged, tasks, plan, phase>>
          /\ hpc = "idle" /\ hpc' \in {"idle", "dispatch", "configure"}
      BY <1>2 DEF Receive, handles, Fail
    <2>2. UNCHANGED <<Life, Doing, Flown>>
      BY <2>1 DEF Life, Alive, Doing, Flown
    <2> QED BY <2>1, <2>2 DEF Session!vars
  <1>3. CASE EndOfInput
    <2>1. UNCHANGED <<flight, planning, preparing, engaged, tasks, plan, phase>>
      BY <1>3 DEF EndOfInput, handles, report
    <2>2. UNCHANGED <<Doing, Flown>> /\ Life = "serving" /\ Life' = "over"
      BY <1>3, <2>1 DEF EndOfInput, Life, Alive, Doing, Flown
    <2> QED BY <2>1, <2>2 DEF Session!Next, Session!Exit
  <1> QED BY <1>1, <1>2, <1>3, ServerSteps, SessionRequest, SessionBegins, SessionPlans,
             SessionFlies
          DEF Stutters, Session!vars, TaskSpeaks

\* The server is at work as the session needs it from its start.
LEMMA AtWorkStarts == Init => AtWork
  BY ServerAssumption
     DEF Init, AtWork, Unstarted, StopFresh, ReconnectHeld, NotEngagedYet, PreparingOver

\* The server keeps the session it promises, whatever its tasks do meanwhile.
THEOREM ServerKeepsSession == Spec => SessionKept
  <1>1. IInv /\ AtWork /\ [Next]_vars => AtWork'
    <2> SUFFICES ASSUME IInv, AtWork, UNCHANGED vars PROVE AtWork'
      BY AtWorkStep
    <2>1. UNCHANGED <<hpc, generation, flight, planning, preparing, engaged, tasks>>
      BY DEF vars, handles, handler
    <2>2. Unstarted' /\ StopFresh'
      BY <2>1 DEF AtWork, Unstarted, StopFresh, Current
    <2>3. ReconnectHeld' /\ NotEngagedYet' /\ PreparingOver'
      BY <2>1 DEF AtWork, ReconnectHeld, NotEngagedYet, PreparingOver, Current
    <2> QED BY <2>2, <2>3 DEF AtWork
  <1>2. Spec => [](IInv /\ AtWork)
    BY <1>1, InitInv, InvStep, AtWorkStarts, PTL DEF Spec
  <1> QED BY <1>2, SessionStarts, SessionNext, PTL DEF Spec, SessionKept, Session!Spec

\* So it does for a landing program.
THEOREM LinkKeepsSession == LinkSpec => SessionKept
  BY LinkImplementsServer, ServerKeepsSession, PTL

=============================================================================
