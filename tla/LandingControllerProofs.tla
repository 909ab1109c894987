------------------------ MODULE LandingControllerProofs ------------------------
(***************************************************************************)
(* Proofs about LandingController, for any set of configurations and any   *)
(* number of requests.  The safety properties need each other (a vessel    *)
(* cannot be commanded without a session because everything that commands  *)
(* it went with the session) and the order in which an operation of the    *)
(* main thread stops the other threads, which Stopped records.             *)
(***************************************************************************)
EXTENDS LandingController, TLAPS

Stopped ==
  /\ pc \notin {"idle", "ended"} => op # "none"
  /\ pc \in {"stopWorkers", "joinWorkers", "closing", "opening", "starting"} =>
       ctl = "none"
  /\ pc \in {"closing", "opening", "starting", "startWorkers"} => workers = {}
  /\ pc = "opening" => session = "none"
  /\ pc = "joining" => stopThread
  /\ pc \in {"joinWorkers", "closing"} => vessel # "commanded"

Correct ==
  Stopped /\ ControlReleased /\ CalibrationAlone /\ PlanMatchesConfiguration
          /\ SessionOwnsState

IInv == TypeOK /\ Correct

\* The steps of connect, disconnect and shutdown, and of the threads they stop.
Closing ==
  \/ \E o \in Operations \ {"none"} : StopThread(o)
  \/ Lifecycle \/ ThreadLeaves
  \/ \E w \in Threads : WorkerLeaves(w)

\* The generation stays within its bound.
LEMMA BumpType ==
  ASSUME generation \in 0 .. MaxGeneration, Bump
  PROVE  generation' \in 0 .. MaxGeneration
  BY ControllerAssumption DEF Bump

\* A release leaves the vessel free or unreleased; without a session nothing is sent.
LEMMA SafeType ==
  ASSUME TypeOK
  PROVE  /\ Safe => vessel' \in {"free", "unreleased"}
         /\ SafeIfConnected => vessel' \in {"free", "commanded", "unreleased"}
  BY DEF TypeOK, Safe, SafeIfConnected

\* The operators on the guidance machine return guidance machines, and give the
\* authority to those that should have it.
LEMMA GuidanceNow ==
  ASSUME TypeOK
  PROVE  /\ MachineInit \in Guidances /\ ~MachineInit.engaged
         /\ Engaged(guidance) \in Guidances
         /\ Engaged(guidance).engaged /\ ~Engaged(guidance).paused
         /\ Disengaged(guidance) \in Guidances /\ ~Disengaged(guidance).engaged
         /\ Aborted(guidance) \in Guidances /\ ~Aborted(guidance).engaged
         /\ PlanReset(guidance) \in Guidances
         /\ PlanReset(guidance).engaged = guidance.engaged
         /\ PlanReset(guidance).paused = guidance.paused
         /\ \A s \in {"interface", "entry", "taem"} :
              /\ Continuation(s) \in Guidances
              /\ Continuation(s).engaged /\ ~Continuation(s).paused
         /\ \A p \in BOOLEAN :
              /\ Paused(guidance, p) \in Guidances
              /\ Paused(guidance, p).engaged = guidance.engaged
              /\ Paused(guidance, p).paused = p
         /\ \A u \in Updated(guidance) :
              /\ u \in Guidances
              /\ u.engaged => guidance.engaged
              /\ \/ u = Aborted(guidance)
                 \/ u.engaged = guidance.engaged /\ u.paused = guidance.paused
<1> USE DEF Guidances, Stages, Phases
<1>1. guidance \in Guidances
  BY DEF TypeOK
<1>2. ResetControllers(guidance.stage) \in Stages
  BY <1>1 DEF ResetControllers
<1>3. Later(guidance.stage) \subseteq Stages
  BY <1>1 DEF Later
<1>4. \A s \in Stages : PhaseOf[s] \in Phases
  BY DEF PhaseOf
<1>5. MachineInit \in Guidances /\ ~MachineInit.engaged
  BY DEF MachineInit
<1>6. /\ Engaged(guidance) \in Guidances
      /\ Engaged(guidance).engaged /\ ~Engaged(guidance).paused
  BY <1>1 DEF Engaged
<1>7. Disengaged(guidance) \in Guidances /\ ~Disengaged(guidance).engaged
  BY <1>1, <1>2 DEF Disengaged
<1>8. Aborted(guidance) \in Guidances /\ ~Aborted(guidance).engaged
  BY <1>2 DEF Aborted
<1>9. /\ PlanReset(guidance) \in Guidances
      /\ PlanReset(guidance).engaged = guidance.engaged
      /\ PlanReset(guidance).paused = guidance.paused
  BY <1>1 DEF PlanReset
<1>10. ASSUME NEW s \in {"interface", "entry", "taem"}
       PROVE  /\ Continuation(s) \in Guidances
              /\ Continuation(s).engaged /\ ~Continuation(s).paused
  BY <1>4 DEF Continuation, MachineInit
<1>11. ASSUME NEW p \in BOOLEAN
       PROVE  /\ Paused(guidance, p) \in Guidances
              /\ Paused(guidance, p).engaged = guidance.engaged
              /\ Paused(guidance, p).paused = p
  BY <1>1 DEF Paused
<1>12. ASSUME NEW u \in Updated(guidance)
       PROVE  /\ u \in Guidances
              /\ u.engaged => guidance.engaged
              /\ \/ u = Aborted(guidance)
                 \/ u.engaged = guidance.engaged /\ u.paused = guidance.paused
  <2>1. CASE u = Aborted(guidance)
    BY <2>1, <1>8 DEF Aborted
  <2>2. CASE \E ph \in {"Abort", "Idle", "Paused"} : u = [guidance EXCEPT !.phase = ph]
    BY <2>2, <1>1
  <2>3. CASE \E s \in Later(guidance.stage) :
               u = [guidance EXCEPT !.stage = s, !.phase = PhaseOf[s]]
    BY <2>3, <1>1, <1>3, <1>4
  <2>4. QED BY <2>1, <2>2, <2>3 DEF Updated
<1>13. QED BY <1>5, <1>6, <1>7, <1>8, <1>9, <1>10, <1>11, <1>12

\* A step of connect, disconnect, shutdown or of a leaving thread keeps the types.
LEMMA LifecycleType ==
  ASSUME TypeOK, Stopped, Closing
  PROVE  TypeOK'
<1> USE DEF TypeOK
<1>1. ASSUME NEW o \in Operations \ {"none"}, StopThread(o) PROVE TypeOK'
  BY <1>1 DEF StopThread, MainSteps, plan, flight
<1>2. CASE ThreadJoined
  BY <1>2 DEF ThreadJoined, MainSteps, plan, flight
<1>3. CASE StopWorkers
  <2>1. vessel' \in {"free", "commanded", "unreleased"}
    BY <1>3, SafeType DEF StopWorkers
  <2>2. pc' \in MainSteps
    BY <1>3 DEF StopWorkers, MainSteps
  <2>3. QED BY <1>3, <2>1, <2>2 DEF StopWorkers, plan
<1>4. CASE WorkersJoined
  <2>1. pc' \in MainSteps
    BY <1>4 DEF WorkersJoined, MainSteps
  <2>2. QED BY <1>4, <2>1 DEF WorkersJoined, plan, flight
<1>5. CASE DisconnectLocked
  <2>1. vessel' \in {"free", "commanded", "unreleased"}
    BY <1>5, SafeType DEF DisconnectLocked
  <2>2. pc' \in MainSteps /\ op' \in Operations
    <3>1. op # "none"
      BY <1>5 DEF DisconnectLocked, Stopped
    <3>2. QED BY <1>5, <3>1 DEF DisconnectLocked, MainSteps, Operations
  <2>3. guidance' \in Guidances
    BY <1>5, GuidanceNow DEF DisconnectLocked
  <2>4. QED BY <1>5, <2>1, <2>2, <2>3 DEF DisconnectLocked, DropPlan
<1>6. CASE OpenSession
  <2>1. guidance' \in Guidances
    BY <1>6, GuidanceNow DEF OpenSession, flight
  <2>2. pc' \in MainSteps /\ op' \in Operations
    BY <1>6 DEF OpenSession, MainSteps, Operations
  <2>3. calib' \in BOOLEAN /\ warpIssued' \in BOOLEAN
    BY <1>6 DEF OpenSession, flight
  <2>4. session' \in {"none", "live", "sim"} /\ vessel' = vessel
    BY <1>6 DEF OpenSession, flight
  <2>5. QED BY <1>6, <2>1, <2>2, <2>3, <2>4 DEF OpenSession, plan
<1>7. CASE StartThread
  BY <1>7 DEF StartThread, MainSteps, plan, flight
<1>8. CASE StartWorkers
  <2>1. workers' \subseteq Threads
    BY <1>8 DEF StartWorkers, Threads
  <2>2. pc' \in MainSteps /\ op' \in Operations
    BY <1>8 DEF StartWorkers, MainSteps, Operations
  <2>3. QED BY <1>8, <2>1, <2>2 DEF StartWorkers, plan, flight
<1>9. CASE ThreadLeaves
  BY <1>9 DEF ThreadLeaves, plan, flight
<1>10. ASSUME NEW w \in Threads, WorkerLeaves(w) PROVE TypeOK'
  BY <1>10 DEF WorkerLeaves, plan, flight
<1>11. QED
  BY <1>1, <1>2, <1>3, <1>4, <1>5, <1>6, <1>7, <1>8, <1>9, <1>10 DEF Closing, Lifecycle

\* A request of one lock keeps the types.
LEMMA RequestType ==
  ASSUME TypeOK, Requests
  PROVE  TypeOK'
<1> USE BumpType DEF TypeOK
<1>1. ASSUME NEW c \in Configurations, UpdateConfiguration(c) PROVE TypeOK'
  BY <1>1 DEF UpdateConfiguration, Outdates, lifecycle, flight
<1>2. CASE CreatePlan
  <2>1. guidance' \in Guidances
    BY <1>2, GuidanceNow DEF CreatePlan
  <2>2. QED BY <1>2, <2>1 DEF CreatePlan, lifecycle, plan
<1>3. CASE Engage
  <2>1. guidance' \in Guidances
    BY <1>3, GuidanceNow DEF Engage
  <2>2. QED BY <1>3, <2>1 DEF Engage, lifecycle, plan
<1>4. CASE EngageReentry
  <2>1. guidance' \in Guidances
    BY <1>4, GuidanceNow DEF EngageReentry
  <2>2. hasPlan' \in BOOLEAN /\ planStale' \in BOOLEAN
    BY <1>4 DEF EngageReentry, DropPlan, plan
  <2>3. planFor' \in Configurations \cup {NoConfiguration}
    BY <1>4 DEF EngageReentry, DropPlan, plan
  <2>4. hasLatest' \in BOOLEAN /\ warpIssued' \in BOOLEAN
    BY <1>4 DEF EngageReentry
  <2>5. generation' \in 0 .. MaxGeneration
    BY <1>4 DEF EngageReentry
  <2>6. QED
    BY <1>4, <2>1, <2>2, <2>3, <2>4, <2>5 DEF EngageReentry, lifecycle
<1>5. CASE EngageTest
  <2>1. guidance' \in Guidances
    BY <1>5, GuidanceNow DEF EngageTest
  <2>2. hasPlan' \in BOOLEAN /\ planStale' \in BOOLEAN
    BY <1>5 DEF EngageTest, DropPlan, plan
  <2>3. planFor' \in Configurations \cup {NoConfiguration}
    BY <1>5 DEF EngageTest, DropPlan, plan
  <2>4. hasLatest' \in BOOLEAN /\ warpIssued' \in BOOLEAN
    BY <1>5 DEF EngageTest
  <2>5. generation' \in 0 .. MaxGeneration
    BY <1>5 DEF EngageTest
  <2>6. QED
    BY <1>5, <2>1, <2>2, <2>3, <2>4, <2>5 DEF EngageTest, lifecycle
<1>6. CASE StartCalibration
  <2>1. guidance' \in Guidances
    BY <1>6, GuidanceNow DEF StartCalibration
  <2>2. QED BY <1>6, <2>1 DEF StartCalibration, lifecycle, plan
<1>7. CASE StopCalibration
  <2>1. vessel' \in {"free", "commanded", "unreleased"}
    BY <1>7, SafeType DEF StopCalibration
  <2>2. QED BY <1>7, <2>1 DEF StopCalibration, lifecycle
<1>8. CASE ResetCalibration
  <2>1. vessel' \in {"free", "commanded", "unreleased"}
    BY <1>8, SafeType DEF ResetCalibration
  <2>2. QED BY <1>8, <2>1 DEF ResetCalibration, lifecycle, plan
<1>9. ASSUME NEW p \in BOOLEAN, SetPaused(p) PROVE TypeOK'
  <2>1. vessel' \in {"free", "commanded", "unreleased"}
    BY <1>9, SafeType DEF SetPaused, ReleaseWhenPaused
  <2>2. guidance' \in Guidances
    BY <1>9, GuidanceNow DEF SetPaused
  <2>3. QED BY <1>9, <2>1, <2>2 DEF SetPaused, lifecycle, plan
<1>10. CASE Abort
  <2>1. vessel' \in {"free", "commanded", "unreleased"}
    BY <1>10, SafeType DEF Abort
  <2>2. guidance' \in Guidances
    BY <1>10, GuidanceNow DEF Abort
  <2>3. QED BY <1>10, <2>1, <2>2 DEF Abort, lifecycle, plan
<1>11. QED
  BY <1>1, <1>2, <1>3, <1>4, <1>5, <1>6, <1>7, <1>8, <1>9, <1>10 DEF Requests

\* A tick keeps the types.
LEMMA TickType ==
  ASSUME TypeOK, Tick
  PROVE  TypeOK'
<1> USE DEF TypeOK
<1>1. CASE TickFails
  <2>1. vessel' \in {"free", "commanded", "unreleased"}
    BY <1>1 DEF TickFails
  <2>2. guidance' \in Guidances
    BY <1>1, GuidanceNow DEF TickFails
  <2>3. BeforeBurn \in BOOLEAN
    BY DEF BeforeBurn, Guidances
  <2>4. planStale' \in BOOLEAN /\ warpIssued' \in BOOLEAN /\ hasLatest' \in BOOLEAN
    BY <1>1, <2>3 DEF TickFails
  <2>5. QED BY <1>1, <2>1, <2>2, <2>4 DEF TickFails, lifecycle
<1>2. CASE TickCalibrates
  <2>1. vessel' \in {"free", "commanded", "unreleased"} /\ calib' \in BOOLEAN
    BY <1>2, SafeType DEF TickCalibrates
  <2>2. guidance' \in Guidances
    BY <1>2, GuidanceNow DEF TickCalibrates
  <2>3. QED BY <1>2, <2>1, <2>2 DEF TickCalibrates, lifecycle, plan
<1>3. CASE TickGuides
  <2>1. vessel' \in {"free", "commanded", "unreleased"}
    BY <1>3, SafeType DEF TickGuides
  <2>2. guidance' \in Guidances
    BY <1>3, GuidanceNow DEF TickGuides
  <2>3. planStale' \in BOOLEAN
    BY <1>3 DEF TickGuides
  <2>4. QED BY <1>3, <2>1, <2>2, <2>3 DEF TickGuides, lifecycle
<1>4. CASE TickWarps
  <2>1. vessel' \in {"free", "commanded", "unreleased"}
    BY <1>4, SafeType DEF TickWarps
  <2>2. guidance' \in Guidances
    BY <1>4 DEF TickWarps, Guidances, Phases
  <2>3. QED BY <1>4, <2>1, <2>2 DEF TickWarps, lifecycle, plan
<1>5. QED
  BY <1>1, <1>2, <1>3, <1>4 DEF Tick

\* The threads stop in order, and what is left of a closed session is nothing.
LEMMA LifecycleCorrect ==
  ASSUME IInv, Closing
  PROVE  Correct'
<1> USE ControllerAssumption, GuidanceNow
    DEF IInv, Correct, TypeOK, Stopped, ControlReleased, CalibrationAlone,
        PlanMatchesConfiguration, SessionOwnsState, MainSteps, Operations, Threads,
        lifecycle, plan, flight
<1>1. ASSUME NEW o \in Operations \ {"none"}, StopThread(o) PROVE Correct'
  BY <1>1 DEF StopThread
<1>2. CASE ThreadJoined
  BY <1>2 DEF ThreadJoined
<1>3. CASE StopWorkers
  BY <1>3 DEF StopWorkers, SafeIfConnected, Safe
<1>4. CASE WorkersJoined
  BY <1>4 DEF WorkersJoined, AllLeft
<1>5. CASE DisconnectLocked
  BY <1>5 DEF DisconnectLocked, DropPlan, SafeIfConnected, Safe
<1>6. CASE OpenSession
  BY <1>6 DEF OpenSession
<1>7. CASE StartThread
  BY <1>7 DEF StartThread
<1>8. CASE StartWorkers
  BY <1>8 DEF StartWorkers
<1>9. CASE ThreadLeaves
  BY <1>9 DEF ThreadLeaves, LeavesOnStop
<1>10. ASSUME NEW w \in Threads, WorkerLeaves(w) PROVE Correct'
  BY <1>10 DEF WorkerLeaves
<1>11. QED
  BY <1>1, <1>2, <1>3, <1>4, <1>5, <1>6, <1>7, <1>8, <1>9, <1>10 DEF Closing, Lifecycle

\* A request gives the vessel to one master at a time, and keeps the plan's mark true.
LEMMA RequestCorrect ==
  ASSUME IInv, Requests
  PROVE  Correct'
<1> USE ControllerAssumption, GuidanceNow
    DEF IInv, Correct, TypeOK, Stopped, ControlReleased, CalibrationAlone,
        PlanMatchesConfiguration, SessionOwnsState, MainSteps, Operations, Threads,
        lifecycle, plan, flight
<1>1. ASSUME NEW c \in Configurations, UpdateConfiguration(c) PROVE Correct'
  BY <1>1 DEF UpdateConfiguration, Outdates, Bump
<1>2. CASE CreatePlan
  BY <1>2 DEF CreatePlan
<1>3. CASE Engage
  BY <1>3 DEF Engage, MayEngage, Bump
<1>4. CASE EngageReentry
  BY <1>4 DEF EngageReentry, DropPlan, Bump
<1>5. CASE EngageTest
  BY <1>5 DEF EngageTest, DropPlan, Bump
<1>6. CASE StartCalibration
  BY <1>6 DEF StartCalibration
<1>7. CASE StopCalibration
  BY <1>7 DEF StopCalibration, SafeIfConnected, Safe
<1>8. CASE ResetCalibration
  BY <1>8 DEF ResetCalibration, SafeIfConnected, Safe
<1>9. ASSUME NEW p \in BOOLEAN, SetPaused(p) PROVE Correct'
  BY <1>9 DEF SetPaused, ReleaseWhenPaused, SafeIfConnected, Safe, Bump
<1>10. CASE Abort
  BY <1>10 DEF Abort, SafeIfConnected, Safe, Bump
<1>11. QED
  BY <1>1, <1>2, <1>3, <1>4, <1>5, <1>6, <1>7, <1>8, <1>9, <1>10 DEF Requests

\* A tick commands the vessel for its master only.
LEMMA TickCorrect ==
  ASSUME IInv, Tick
  PROVE  Correct'
<1> USE ControllerAssumption, GuidanceNow
    DEF IInv, Correct, TypeOK, Stopped, ControlReleased, CalibrationAlone,
        PlanMatchesConfiguration, SessionOwnsState, MainSteps, Operations, Threads,
        lifecycle, plan, flight
<1>1. CASE TickFails
  BY <1>1 DEF TickFails, Ticking, BeforeBurn
<1>2. CASE TickCalibrates
  BY <1>2 DEF TickCalibrates, Ticking, Safe
<1>3. CASE TickGuides
  <2>1. guidance'.engaged => guidance.engaged
    BY <1>3, GuidanceNow DEF TickGuides
  <2>2. \/ vessel' # "commanded"
        \/ guidance'.engaged /\ ~guidance'.paused
        \/ /\ vessel' = vessel /\ guidance'.phase # "Abort"
    BY <1>3, SafeType DEF TickGuides, ReleaseAgain
  <2>3. ControlReleased'
    <3>1. CASE guidance'.phase = "Abort"
      BY <1>3, <3>1, SafeType DEF TickGuides, ReleaseAgain
    <3>2. CASE guidance'.phase # "Abort"
      <4>1. guidance'.engaged = guidance.engaged /\ guidance'.paused = guidance.paused
        BY <1>3, <3>2, GuidanceNow DEF TickGuides, Aborted
      <4>2. QED BY <1>3, <2>2, <4>1 DEF TickGuides
    <3>3. QED BY <3>1, <3>2
  <2>4. PlanMatchesConfiguration'
    BY <1>3 DEF TickGuides
  <2>5. QED BY <1>3, <2>1, <2>3, <2>4 DEF TickGuides, Ticking
<1>4. CASE TickWarps
  <2>1. guidance'.engaged /\ guidance'.engaged = guidance.engaged
    BY <1>4 DEF TickWarps, BeforeBurn, Guidances
  <2>2. ~guidance'.paused
    BY <1>4 DEF TickWarps, Guidances
  <2>3. QED BY <1>4, <2>1, <2>2 DEF TickWarps, Ticking
<1>5. QED
  BY <1>1, <1>2, <1>3, <1>4 DEF Tick

\* The invariant holds before anything is connected.
LEMMA InitIInv == Init => IInv
<1> SUFFICES ASSUME Init PROVE IInv
  OBVIOUS
<1>1. guidance \in Guidances /\ ~guidance.engaged
  BY DEF Init, MachineInit, Guidances, Stages, Phases
<1>2. generation \in 0 .. MaxGeneration
  BY ControllerAssumption DEF Init
<1>3. TypeOK
  BY <1>1, <1>2 DEF Init, TypeOK, MainSteps, Operations, Threads
<1>4. Correct
  BY <1>1 DEF Init, Correct, Stopped, ControlReleased, CalibrationAlone,
              PlanMatchesConfiguration, SessionOwnsState
<1>5. QED BY <1>3, <1>4 DEF IInv

\* Every step keeps it.
LEMMA StepIInv == IInv /\ [Next]_vars => IInv'
<1> SUFFICES ASSUME IInv, [Next]_vars PROVE IInv'
  OBVIOUS
<1>1. CASE Next
  <2>1. TypeOK'
    BY <1>1, LifecycleType, RequestType, TickType DEF IInv, Correct, Closing, Next
  <2>2. Correct'
    BY <1>1, LifecycleCorrect, RequestCorrect, TickCorrect DEF Closing, Next
  <2>3. QED BY <2>1, <2>2 DEF IInv
<1>2. CASE UNCHANGED vars
  BY <1>2 DEF IInv, Correct, TypeOK, Stopped, ControlReleased, CalibrationAlone,
              PlanMatchesConfiguration, SessionOwnsState, vars, lifecycle, plan, flight
<1>3. QED BY <1>1, <1>2

\* The invariant and its parts hold throughout.
LEMMA Invariance == Spec => []IInv
  BY InitIInv, StepIInv, PTL DEF Spec

\* Every variable keeps its type, for any configurations and any number of
\* requests.
THEOREM TypeCorrect == Spec => []TypeOK
<1>1. IInv => TypeOK BY DEF IInv
<1>2. QED BY <1>1, Invariance, PTL

\* The vessel is held only under a calibration or an engaged, unpaused guidance.
THEOREM Released == Spec => []ControlReleased
<1>1. IInv => ControlReleased BY DEF IInv, Correct
<1>2. QED BY <1>1, Invariance, PTL

\* A calibration and an engaged guidance exclude each other.
THEOREM OneMaster == Spec => []CalibrationAlone
<1>1. IInv => CalibrationAlone BY DEF IInv, Correct
<1>2. QED BY <1>1, Invariance, PTL

\* A plan that may be engaged is a plan for the present configuration.
THEOREM PlanCurrent == Spec => []PlanMatchesConfiguration
<1>1. IInv => PlanMatchesConfiguration BY DEF IInv, Correct
<1>2. QED BY <1>1, Invariance, PTL

\* Nothing of a session outlives it.
THEOREM SessionClean == Spec => []SessionOwnsState
<1>1. IInv => SessionOwnsState BY DEF IInv, Correct
<1>2. QED BY <1>1, Invariance, PTL

\* A session closes under no running thread.
THEOREM ClosedAlone == Spec => ClosedWithoutThreads
<1>1. ASSUME IInv, Next, session # "none", session' = "none"
      PROVE  ctl # "run" /\ workers = {}
  <2>1. DisconnectLocked
    BY <1>1 DEF Next, Lifecycle, Requests, Tick, StopThread, ThreadJoined, StopWorkers,
       WorkersJoined, OpenSession, StartThread, StartWorkers, UpdateConfiguration,
       CreatePlan, Engage, EngageReentry, EngageTest, StartCalibration,
       StopCalibration, ResetCalibration, SetPaused, Abort, TickFails,
       TickCalibrates, TickGuides, TickWarps, ThreadLeaves, WorkerLeaves, lifecycle
  <2>2. QED BY <1>1, <2>1 DEF IInv, Correct, Stopped, DisconnectLocked
<1>2. IInv /\ [Next]_vars
        => [session # "none" /\ session' = "none" => ctl # "run" /\ workers = {}]_vars
  BY <1>1
<1>3. QED BY <1>2, Invariance, PTL DEF Spec, ClosedWithoutThreads

\* What a step of the landing process is to VesselAuthority.
Kept == [Authority!Next]_(Authority!vars)

\* A release, or none without a session, is one of the abstract release.
LEMMA ReleaseTried ==
  ASSUME TypeOK
  PROVE  /\ Safe => Authority!TryRelease
         /\ session # "none" /\ SafeIfConnected => Authority!TryRelease
         /\ session = "none" /\ SafeIfConnected => vessel' = vessel
  BY DEF TypeOK, Safe, SafeIfConnected, Authority!TryRelease

\* The steps of a connect, a disconnect or a shutdown open a session, begin to
\* close it, release the vessel or close over it.
LEMMA ClosingKept ==
  ASSUME IInv, Closing
  PROVE  Kept
<1> USE GuidanceNow, ReleaseTried
    DEF Kept, Authority!Next, Authority!vars, IInv, Correct, TypeOK, Stopped,
        ControlReleased, CalibrationAlone, SessionOwnsState, MainSteps, Operations,
        Life, Master, PlanState, lifecycle, plan, flight
<1>1. ASSUME NEW o \in Operations \ {"none"}, StopThread(o) PROVE Kept
  BY <1>1 DEF StopThread, Authority!BeginClosing
<1>2. CASE ThreadJoined
  BY <1>2 DEF ThreadJoined
<1>3. CASE StopWorkers
  BY <1>3 DEF StopWorkers, Authority!Release, Authority!MayOutdate
<1>4. CASE WorkersJoined
  BY <1>4 DEF WorkersJoined
<1>5. CASE DisconnectLocked
  BY <1>5 DEF DisconnectLocked, DropPlan, Authority!Close
<1>6. CASE OpenSession
  BY <1>6 DEF OpenSession, Authority!Open
<1>7. CASE StartThread
  BY <1>7 DEF StartThread
<1>8. CASE StartWorkers
  BY <1>8 DEF StartWorkers
<1>9. CASE ThreadLeaves
  BY <1>9 DEF ThreadLeaves
<1>10. ASSUME NEW w \in Threads, WorkerLeaves(w) PROVE Kept
  BY <1>10 DEF WorkerLeaves
<1>11. QED
  BY <1>1, <1>2, <1>3, <1>4, <1>5, <1>6, <1>7, <1>8, <1>9, <1>10 DEF Closing, Lifecycle

\* A request makes or outdates a plan, gives the vessel to a master that may have
\* it, or takes it away.
LEMMA RequestKept ==
  ASSUME IInv, Requests
  PROVE  Kept
<1> USE GuidanceNow, ReleaseTried
    DEF Kept, Authority!Next, Authority!vars, IInv, Correct, TypeOK,
        ControlReleased, CalibrationAlone, PlanMatchesConfiguration, SessionOwnsState,
        Life, Master, PlanState, lifecycle, plan, flight, Authority!Opened,
        Authority!MayOutdate
<1>1. ASSUME NEW c \in Configurations, UpdateConfiguration(c) PROVE Kept
  BY <1>1 DEF UpdateConfiguration, Outdates, Authority!OutdatePlan
<1>2. CASE CreatePlan
  BY <1>2 DEF CreatePlan, Authority!MakePlan
<1>3. CASE Engage
  BY <1>3 DEF Engage, MayEngage, Authority!TakeGuidance
<1>4. CASE EngageReentry
  BY <1>4 DEF EngageReentry, DropPlan, Authority!TakeGuidance
<1>5. CASE EngageTest
  BY <1>5 DEF EngageTest, DropPlan, Authority!TakeGuidance
<1>6. CASE StartCalibration
  BY <1>6 DEF StartCalibration, Authority!TakeCalibration
<1>7. CASE StopCalibration
  BY <1>7 DEF StopCalibration, Authority!TryRelease, Authority!Release, Authority!GiveUp
<1>8. CASE ResetCalibration
  BY <1>8 DEF ResetCalibration, Authority!TryRelease, Authority!Release, Authority!GiveUp
<1>9. ASSUME NEW p \in BOOLEAN, SetPaused(p) PROVE Kept
  BY <1>9 DEF SetPaused, ReleaseWhenPaused, Authority!Pause, Authority!Resume, Authority!Release
<1>10. CASE Abort
  BY <1>10 DEF Abort, Authority!TryRelease, Authority!GiveUp
<1>11. QED
  BY <1>1, <1>2, <1>3, <1>4, <1>5, <1>6, <1>7, <1>8, <1>9, <1>10 DEF Requests

\* A tick commands the vessel for its master, releases it, or gives it up.
LEMMA TickKept ==
  ASSUME IInv, Tick
  PROVE  Kept
<1> USE GuidanceNow, ReleaseTried
    DEF Kept, Authority!Next, Authority!vars, IInv, Correct, TypeOK, Stopped,
        ControlReleased, CalibrationAlone, SessionOwnsState, Ticking,
        Life, Master, PlanState, lifecycle, plan, Authority!Opened,
        Authority!MayOutdate
<1>1. CASE TickFails
  BY <1>1 DEF TickFails, Authority!GiveUp
<1>2. CASE TickCalibrates
  BY <1>2 DEF TickCalibrates, Authority!Command, Authority!TryRelease, Authority!GiveUp
<1>3. CASE TickGuides
  <2>1. Life = "open" /\ Life' = "open" /\ Authority!MayOutdate
    BY <1>3 DEF TickGuides, BeforeBurn
  <2>2. CASE guidance' = Aborted(guidance)
    BY <1>3, <2>1, <2>2 DEF TickGuides, ReleaseAgain, Aborted, Authority!TryRelease,
       Authority!GiveUp
  <2>3. CASE guidance' # Aborted(guidance)
    <3>1. /\ guidance'.engaged = guidance.engaged /\ guidance'.paused = guidance.paused
          /\ Master' = Master
      BY <1>3, <2>3 DEF TickGuides
    <3>2. CASE ReleaseAgain
      BY <1>3, <2>1, <3>1, <3>2 DEF TickGuides, Authority!Release
    <3>3. CASE ~ReleaseAgain
      <4>1. UNCHANGED <<Master, PlanState>>
        BY <1>3, <2>3, <3>1 DEF TickGuides
      <4>2. CASE guidance'.engaged /\ ~guidance'.paused
        BY <1>3, <2>1, <3>1, <3>3, <4>1, <4>2 DEF TickGuides, Authority!Command
      <4>3. CASE ~(guidance'.engaged /\ ~guidance'.paused)
        BY <1>3, <2>1, <3>3, <4>1, <4>3 DEF TickGuides
      <4>4. QED BY <4>2, <4>3
    <3>4. QED BY <3>2, <3>3
  <2>4. QED BY <2>2, <2>3
<1>4. CASE TickWarps
  BY <1>4 DEF TickWarps, BeforeBurn, Authority!Release
<1>5. QED
  BY <1>1, <1>2, <1>3, <1>4 DEF Tick

\* The landing process implements VesselAuthority: one master at a time, on a plan
\* for the present configuration or none, who is followed by a release, and no
\* command once the session begins to close, whatever the threads interleave.
THEOREM AuthorityHolds == Spec => AuthorityKept
<1>1. Init => Authority!Init
  BY DEF Init, MachineInit, Authority!Init, Life, Master, PlanState
<1>2. IInv /\ [Next]_vars => [Authority!Next]_(Authority!vars)
  <2> SUFFICES ASSUME IInv, [Next]_vars PROVE Kept
    BY DEF Kept
  <2>1. CASE Next
    BY <2>1, ClosingKept, RequestKept, TickKept DEF Next, Closing
  <2>2. CASE UNCHANGED vars
    BY <2>2 DEF Kept, Authority!vars, Life, Master, PlanState, vars, lifecycle, plan, flight
  <2>3. QED BY <2>1, <2>2
<1>3. QED BY <1>1, <1>2, Invariance, PTL DEF Spec, AuthorityKept, Authority!Spec
=============================================================================
