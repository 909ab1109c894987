# A TLA+ development of KSL's mission control

KSL flies Kerbal Space Program vehicles through kRPC. A Python mission controller
(`ksl/`) runs a mission as a list of programs; the deorbit, entry and landing program
starts a native Swift backend (`swift/KSL-Landing`) and talks to it over its standard
input and output. Operators talk to a running mission from other processes, through
files. Beside it, the landing core (`rust/landing`, ported from `CLanding`) is a process of
its own with a main thread, a control thread and two planning threads behind one mutex,
which flies the entry and the landing over its own kRPC connection. This directory holds
TLA+ models of the parts of that machinery in which threads,
processes, files and messages interact, the TLC configurations that check them, and
theorems about them checked by TLAPS.

Paths below are relative to the repository. `PROJECT.json` maps every definition to the
lines it models.

1. [Inventory](#1-inventory)
2. [Modules](#2-modules-and-how-they-correspond-to-the-code)
3. [Runs](#3-runs)
4. [Findings](#4-findings)
5. [Bounds](#5-bounds-and-why-they-are-enough)
6. [Fairness](#6-fairness-and-deadlock)
7. [Proofs](#7-proofs)
8. [Not modelled](#8-what-is-abstracted-or-not-modelled)
9. [Plan](#9-plan)

## 1. Inventory

### Components, their state and their operations

| Component | Code | State | Operations |
| --- | --- | --- | --- |
| Mission controller | `ksl/controller.py` | `stop_event`, `status.json` (state, stage), the command monitor thread | `run`: claim, load, precondition, programs, `_finish`, clean-up; `abort`; `_monitor_commands` |
| Operator requests | `ksl/commands.py` | one JSON file per request: action, plan revision, state, time of submission | `submit` (CLI, TUI), `pending`, `update`, `read` |
| Landing program | `ksl/programs.py`: `LandingProgram`, `_LandingState` | plan revision, `engaged`, `terminal`, queue of saves | `run`, `_fly`, `_create_plan`, `_review` |
| Backend client | `ksl/backend.py` | request number, latest snapshot, the child process | `send`, `read_until`, `pump`, `engage`, `shutdown` |
| Landing backend | `BackendServer.swift`, `BackendFlightActions.swift`, `BackendReporting.swift` | configuration, kRPC adapter, generation, stored plan, planning task, flight task, phase, last error | eight request methods; the tasks' callbacks `preparePlanning`, `planningEnded`, `takeLandingControl`, `flightEnded`, `preparationFailed`, ... |
| Endpoint ownership | `ksl/ownership.py` | lock file of one kRPC endpoint: `flock`, recorded run | `claim`, `owner` |
| Run log and status | `ksl/runlog.py`, `ksl/phases.py` | `status.json`, events, forward-only phases, heartbeat | `set_state`, `advance`, `heartbeat` |
| Deorbit and flight runtimes | `KSLRuntime/Deorbit`, `FlightRuntime.swift`, `ResilientTelemetryRecorder.swift` | guidance lanes, telemetry outages, recovery | `run`, cancellation, release of the vehicle |
| Child processes | `programs.py`: `run_child`, `_run_swift_live` | process, timers, tail thread | start, observe, SIGINT, SIGTERM, SIGKILL, clean-up; follow the flight log |
| kRPC connections | `ksl/krpc_link.py` | a connection attempt on a thread, a deadline | `connect` |
| Operator controls | `ksl/controls.py` | `controls.json` with one-shot counters | `trigger`, `poll` |
| Rust landing controller | `rust/landing/src/app/controller.rs`, `guidance/guidance_core.rs` | session, threads, configuration, plan, authority of the guidance, calibration | the operator's requests, `tick_locked`, `control_thread`, `start_prediction_worker`, `stop_prediction_worker` |
| Entry predictor | `app/controller.rs`: `terminal_prediction_worker`; `prediction/async_prediction_policy.rs`, `guidance/guidance_entry.rs` | one job computed without the mutex, cadence, generation, barrier of the fast simulation | take a job, finish it, adopt or drop its result |
| Terminal guidance | `guidance/guidance_terminal.rs`, `guidance_taem.rs`, `guidance_final.rs`, `guidance.rs`, `entry_exec.rs`, `taem_exec.rs` | two executives, committed route, admission, planning request, numeric model | a tick; the planner's job and its answer; reset, restart, abort |
| Rust kRPC client | `transport/krpc_cnano_client.rs`, `transport/krpc.rs` | per engine: initially active, activated, owned; cached throttle | `krpc_apply`, `krpc_safe`, `krpc_neutralize`, `krpc_read_telemetry`, shutdown of the burn engines |
| Ascent, simulation, trim; TUI and CLI; configuration, scenarios, replay; native guidance; solvers and simulators; viewers | see `PROJECT.json` | | sequential, numerical or presentation |

### How they interact

- **Request files.** An operator process writes `requested`; the controller's main thread
  (review loop, final clean-up) and its monitor thread both read, judge and rewrite the
  file. A file is replaced as a whole, and nothing locks it between a read and a write.
- **`status.json`.** Written by the controller, read by operators to decide whether a
  request may be filed. Its heartbeat's age is the only sign of a killed controller.
- **Two pipes** between the landing program and the backend. One request at a time goes
  down; responses and snapshots come back in order, and wait in the pipe until read. The
  client never decides on the backend's state, only on the last snapshot it has read.
- **The Swift actor.** Requests are served one at a time by `handle`, which awaits; at
  every await the methods of the planning and flight tasks may run. Superseded tasks are
  told apart by a generation counter.
- **The landing process's mutex.** The main thread executes requests and the control
  thread ticks under it; both planning threads copy the guidance under it, compute without
  it, and decide under it again whether their result still counts. A generation counter, an
  identity of the path and the time of the sample tell old results apart.
- **Remote calls of the landing process** come from one tick, one after the other. A call
  that fails fails the tick, and the tick releases the vehicle; only what the client wrote
  down about an engine can be undone.
- **The lock file** keeps two live runs, of one process or of several, away from one
  endpoint; an observer's `owner` takes the same lock for a moment.

### What is hard

| Behaviour | Where | Properties |
| --- | --- | --- |
| Two threads answer one file from lists of different age | monitor and review loop | `OrderedAsReviewed`, `ExecutedNotRejected`, `NothingLeftOpen` |
| A request filed while the run ends | `submit` against the last drain | `TimelyRequestAnswered`, `EveryRequestAnswered` |
| A stop at any moment: load, planning, review, engagement, flight | controller, program, client | `StopReleases`, `StopEndsRun`, `AcceptedAbortCompletes`, `ReleasedWhenFinished` |
| A second Ctrl-C anywhere, also in the release itself | controller, program | `ReleasedWhenFinished`, `StopReleases`, `FinishedIsReleased` |
| Reentrancy of the actor at each await | server | `OnlyCurrentFlies`, `SessionKept`, `FlownConfiguration`, `AdapterMatchesFlight` |
| A stop that awaits tasks which need the actor | `stopAll` | `RequestAnswered`, `ReleasedOnExit` |
| Old snapshots, late answers, timeouts | client | `TerminalMeansOver`, `ReviewedPlanFlown`, `ReviewDisengaged`, `ToggleFollowed` |
| Full pipe while the client is outside its loop | both ends | `StopEndsRun` |
| A backend killed by the client or from outside | `shutdown` | `AskedBeforeKilled` |
| Authority taken away between two ticks, releases that are lost | landing controller | `ControlReleased`, `AbortReleases`, `AuthorityKept` |
| Joining threads that need the mutex; state that outlives its session | connect, disconnect, shutdown | `OperationEnds`, `ClosedWithoutThreads`, `SessionOwnsState` |
| A configuration changed between plan and engagement | landing controller | `PlanMatchesConfiguration` |
| Results computed without the mutex, quickloads, a simulation that waits | entry predictor | `AdoptedUndisturbed`, `AdoptedInTime`, `BarrierEnds`, `RewindRecovers`, `AdoptedOnTimeline`, `ScalesOfTimeline` |
| A handoff undone half-way; five ways to deliver to Final | terminal guidance | `OneOwner`, `DeliveredToFinal` |
| Answers for another sample or another model, routes computed twice | terminal planner | `HandoffQualified`, `RouteAdoptedFresh`, `RejectedReplans` |
| Calls lost half-way, full batches, a throttle cache behind the vessel's back | kRPC client | `EnginesAccounted`, `ReleasedWhenAnswered`, `ThrustAsCommanded`, `CutReachesEngines` |
| Interrupts while a child is being stopped, a child deaf to signals, a helper that keeps the pipe | `run_child` | `ChildReleased`, `StopEndsFlight`, `NeverAbandoned` |
| A flight log read late, by a thread nobody joins | `_run_swift_live` | `LandingReported`, `DisconnectedAtEnd` |
| Crash between taking the lock and recording it, failing writes | lock file | `EndpointOwned`, `RecordNamesOwner`, `ChildrenOwned` |

`PROJECT.json` lists each hazard at its line, including those no property covers yet
(checkpoints, controls, connection attempts), with the reason. In the
table, `ExecutedNotRejected`, `EveryRequestAnswered`, `FinishedIsReleased`, `ReviewDisengaged`,
`ToggleFollowed`, `AdoptedOnTimeline`, `ScalesOfTimeline`, `RejectedReplans`, `NeverAbandoned`, `LandingReported` and `DisconnectedAtEnd` are stated in their
modules and belong to no run: see section 4. `CalibrationAlone` belongs to no run either: the
refinement of `VesselAuthority` contains it, and `OneMaster` proves it.

## 2. Modules and how they correspond to the code

| Module | Models | Extends |
| --- | --- | --- |
| `MissionRun` | one live run: main thread, command monitor, operators | |
| `LandingSession` | abstract: what a session with the backend is at, and how it stops | |
| `BackendServer` | the backend's actor with its tasks; implements `LandingSession` | |
| `LandingLink` | landing program and client, composed with the backend over the pipes | `BackendServer` |
| `EndpointOwnership` | abstract: one owner at most, only the owner flies | |
| `EndpointLock` | the lock file; implements `EndpointOwnership` | |
| `VesselAuthority` | abstract: who may command the vessel, on which plan, and how it is given up | |
| `LandingController` | the landing process: main thread, control thread, requests, sessions; implements `VesselAuthority` | |
| `EntryPrediction` | its predictor against ticks, quickloads and requests | |
| `TerminalGuidance` | entry and terminal executives, routes, terminal planner | |
| `KrpcClient` | the engines as its kRPC client commands and releases them | |
| `SwiftFlight` | a run of the Swift engine: its process group, signals and clean-up, the thread on its log | |
| `MC*` | the modules for TLC: symmetry, values of constants | the module |
| `MissionRunProofs`, `LandingLinkProofs` (with `BackendServer`'s), `EndpointLockProofs`, `LandingControllerProofs`, `EntryPredictionProofs`, `TerminalGuidanceProofs`, `KrpcClientProofs`, `SwiftFlightProofs` | theorems | the module, `TLAPS` |

Definitions named "Mutation of ..." are not part of a model: each is a plausible mistake
in the code, kept beside the definition it would replace, to show that a property notices.

### MissionRun

`pc` is where the main thread is, from `claim` through preparation (`Prepare`), planning
and review (`Review`) to release, join, drain and sweep (`Ending`); `mpc` is where the
monitor is. One action is what a thread does between two accesses to something the other
thread or another process can touch: `ReviewPoll` lists the files, `HandleRequest` answers
one, `Recheck` and `EngageBackend` are the checks and the engagement, `AckEngage` the
answer written afterwards. `MonitorJudge` reads the stage and `MonitorTurnDown` writes the
answer, in two steps, because the review loop may run in between. `Answer` replaces the
whole file, as `Commands.update` does from the caller's copy. `Submit` is the check of
the status and `WriteRequest` the write, again in two steps. `fresh` says that the
status is younger than the 15 seconds `submit` insists on.

The backend is whether it flies (`engaged`). An engagement it accepts is one for good, also when
`engage` gives up on its confirmation or meets an old error: then the request is turned down and the
review goes on (`EngageBackend`). `orderedBy` and `orderedRev` are history: the request that ordered
the flight, and the revision under review at the time. The engage request itself names no plan, so
`orderedRev` is what was *reviewed*; that the backend may have stored a newer plan is finding 4, on
the module that has both sides. `BackendRests` is a flight that ends by itself.

`Release`, `Shutdown` and `FinishRun` are `run`'s finally clause and the report of the final state.
After the stop, every further signal is a `KeyboardInterrupt` in the main thread, and the `Interrupt`
actions say for every place where that leads: out of a preparation without a final state, out of the
program through its finally clause, and out of this clause itself with the rest of it skipped (`cut`).
A crash or such an exit closes the pipe, and `BackendReadsEof` is the backend that exits at
its end. Crashes (`Crash`) leave the files behind; a join that gives up on a stuck monitor is
`JoinMayTimeOut`.

### BackendServer and LandingSession

`hpc` is where `handle` is in the request `req`; `tasks[e]` is the task started under
generation `e`, with its step, the plan it flies and the configuration its adapter was
built with (`bind`). An action is what one actor method does from one await to the next;
`ActorHeld` names the handler's steps which contain no await, during which no task method
runs. An adapter is named by its configuration, because it keeps that runway's chart for
its whole life: that is what `AdapterMatchesFlight` is about. A plan is the generation of
the search that made it, with its configuration. `out` is what a step writes to standard
output; no task or handler reads it, `LandingLink` does. The runtimes are what the server
sees of them: `Observe` (a report), `RuntimeThrows`, `RuntimeReturns`.

`LandingSession` is the same backend for somebody who only operates it: it serves, stops, has
released or is over (`life`); while it serves it is at nothing, a plan, a preparation or a flight
(`doing`). There are no tasks in it and no generations. `BackendServer` maps `doing` from the two
handles and the flags, `life` from the place of the handler, `flown` from the plan the flight's
task holds, and `SessionKept` says that under this mapping each of its steps is one of the session's
or changes nothing. Above all, from `AcceptStop` to `Release` nothing begins, no plan is stored and
no flight takes control, though the tasks are still there and resume at any await.

### LandingLink

`BackendServer` unchanged, with its requests coming from `inbox` and its output going to
`pipe`. `ServerWrites` blocks a step of the server whose output does not fit, as a write to
a full pipe does. `lpc` is where `LandingProgram` and `BackendClient` are: `await` is
`send` waiting for its response, `until` is `read_until`, and `call` says for which
caller, so `Return` and `Raise` say where each call goes on. A call can time out only
where the backend may take its time (`Slow`), where it is stuck behind an earlier request
(`StuckBehind`), or while a wanted snapshot does not come. `latest` is the last snapshot
read and `fresh` says it was read since the call began. `mode` is the beginning of the
flight: with a review, directly, or at the entry interface. `guided` and `terminal` are
the fields of `_LandingState` on which `run`'s finally block decides whether to send an
abort. The end of the backend's input is not a step here, because the client always sends
`shutdown` before it closes the pipe, or kills the process; that a second Ctrl-C skips this is in `MissionRun`.

### EndpointLock and EndpointOwnership

`cpc` and `wpc` place each live run inside `claim` and each observer inside `owner`; every
call on the file (open, `flock`, truncate, write, close) is one step. Inside the claim (`Inside`) a
program runs its flight process (`flying`) and then its finally clause, which signals the process and waits
for it (`reaping`, `Reap`). `Interrupt` is an exception in this clause or before the `try`: the run
leaves the claim without having waited (`abandoned`). `Leave` asks for nothing. `Crash` frees the
lock, because the operating system closes the file, and leaves the record and the flight
process. `WriteFails` is an `OSError` of truncate, write or flush. The refinement maps
the abstract `holder` to the lock's holder when that is a controller, and `flying` to the
controllers inside the claim. The key of the lock file is the text
`address:port`, so two spellings of one address are two endpoints: a model covers one.

### LandingController and VesselAuthority

An action is what the main thread or the control thread does from one lock of the mutex to
the next unlock. `pc` and `op` are where the main thread is in a request that unlocks in
between: it joins the control thread, then the planning threads, and closes the session
(`StopThread` ... `DisconnectLocked`). All other requests are one action each, with the
refusals of the code as guards. A tick is one action of the control thread (`TickGuides`,
`TickCalibrates`, `TickWarps`, `TickFails`); what the numeric guidance decides is the choice
of the stage and phase it reaches. `vessel` is what the vessel was last told: "commanded",
"free" after a release that arrived, "unreleased" after one that was tried and lost.
A lost release is about the main controls here; the engines are `KrpcClient`'s.

`VesselAuthority` is the same process for somebody who knows of no threads, only of the
session (`life`), the `master` of the vessel, the state of its `plan` and what the vessel was told. A
master takes over from nobody; guidance takes over on a current plan, on the new plan of a
continuation, or on none in the terminal area, never on an outdated one, though what is
engaged flies on when its plan goes stale. Whoever gives the vessel up has tried to release it. From the moment a
closing begins nothing commands the vessel, and the session closes only after a release was
tried. `Life`, `Master` and `PlanState` read these from the flags of the code. `Master` is "both" when a
calibration and an engaged guidance meet, which the abstract specification does not know.

### EntryPrediction

`job` is the copy the predictor computes for: its sample's time, the phase, the generation, and whether
the path still has the identity it had then (`samePath`). `TakeJob` and `FinishJob` are its two critical
sections. `barrier` is the control thread of a fast simulation, which waits until the predictor has
completed something newer. `NextSample` lets time go forward in the simulation, and in any direction in
the game, where a quickload may take it back. `supervised`, `request` and `completion` hold the absolute
times on which the code decides when to ask again. `scales` are the two force scales, which every
entry job starts from and writes back before its result is judged; "undone" ones were fitted, at least in part, to a
timeline that a quickload undid. `meanwhile` is history: whether a request or an abort,
a quickload or an attitude recovery came in during the job.

### TerminalGuidance

A tick is a tree of operators named for the branches of `terminal_update`: `TickGuides` leads
to MM304 keeping the vehicle, to the handoff, or to MM305's native guidance (`NativeStep`:
route, line, acquisition or exit), to a law that needs no route (`LawStep`), and from each
possibly to a warning (`Warned`), which the code handles within the same tick. `route` is what
is flown, with its marks; `adm` is the last answer on admission and `admAsked`, `asked` are the
open requests by the time of their sample. `job` is the planner thread: `TakePlan` and
`TakeAdmission` copy, `Revalidate` computes a second time a route that expired meanwhile,
`FinishPlan` and `FinishAdmission` answer. `model` numbers the snapshots of the numeric
model. `Outdate` is a request of the operator that moves the generation.

### KrpcClient

An action is one remote call with what the client does on its answer; `pc`, `at` and `todo` are
the operation, the engine it is at and the calls about that engine still to make. The vessel
side (`active`, `indep`, `level`, `main`) is the game. A lost call (`CallLost`) has been executed or
not, and fails the operation: a failed tick releases. `Queue` and `Flush` are the release with
its batches: items are optional, so a batch may be executed in part, and one that fails when
it is full ends the loop. `astray` names the engines a call about which was lost, `behind` those
the last command passed over or a failed flush never came to, `released` says that nothing was commanded since
a release that was executed as a whole.

### SwiftFlight

`main` is the controller's thread: the guarded loop of `run_child`, the steps of its `finally`
block (`clean`, `int`, `term`, `kill`, `join`), then the end of `_run_swift_live` and of the run.
`alive` and `holders` are the child's process group: who lives, and who has the output pipe open;
the reader's end is that nobody has. `Signal` is `os.killpg`; any signal but SIGKILL may be ignored,
so `Exit` is the only way a process ends otherwise. `sent` is the last step of the escalation
in the loop, whose timers may run out at any time. `Interrupt` is the handler of Ctrl-C: the first
sets `stop_event`, a later one is an exception in the main thread, caught in the loop and
nowhere else (`cutShort`). `tail`, `seen` and `phase` are the thread that follows the flight
log, `logged` the last phase the engine wrote to it.

## 3. Runs

| Run | Module, configuration | Shows |
| --- | --- | --- |
| `mission_safety` | `MCMissionRun`, `MissionRun.cfg` | with three requests, replans, aborts, a second Ctrl-C anywhere, a request turned down though the backend flies, and a stuck monitor: what flies was ordered for the very revision under review, and a run with a final state has released the vehicle unless its release was cut short |
| `mission_liveness` | `MissionRunLive.cfg` | with kills and a second Ctrl-C anywhere: a stop releases for good, if not by the run then at the backend's end of file; unless the controller dies, an accepted abort completes, every request filed before the drain is answered, and no file is left open |
| `server_session` | `MCBackendServer`, `BackendServer.cfg` | over two runways, every request between any two awaits: the actor and its tasks implement `LandingSession`; one flight at a time, of the current generation, on the configuration of its plan; nothing flies after a shutdown was answered; every request is answered |
| `link_session` | `MCLandingLink`, `LandingLink.cfg` | program and backend over pipes, backend killed at any moment: a flight held for over is over, no flying backend is killed without a stop request on its way, and each stop ends the run |
| `lock_safety` | `MCEndpointLock`, `EndpointLock.cfg` | three runs, two observers, crashes, failing writes, interrupted clean-ups: the lock file implements the single owner, names it, and a flight process outside its claim is left over from a kill or an interrupt |
| `controller_safety` | `MCLandingController`, `LandingController.cfg` | with every request, lost releases and threads that cannot be created: the process implements `VesselAuthority` (who may command the vessel and on which plan); what survives a session, and that aborts and closings come through |
| `entry_prediction` | `MCEntryPrediction`, `EntryPrediction.cfg` | with quickloads, pauses, aborts and re-engagements at any moment of a computation: no result is adopted for another flight or before its time, a simulation never follows a plan of a sample long past, and neither the simulation nor the guidance is left waiting |
| `terminal_guidance` | `MCTerminalGuidance`, `TerminalGuidance.cfg` | with warnings, attitude recoveries, quickloads and every request: one owner of the vehicle, one delivery to Final, no handoff or route on an old answer |
| `krpc_engines` | `MCKrpcClient`, `KrpcClient.cfg` | with lost calls, partly executed batches, a pilot and a dying process: what the client knows of the engines, what a release leaves behind, and that a cut of the throttle reaches them |
| `swift_flight` | `MCSwiftFlight`, `SwiftFlight.cfg` | with a child that may ignore signals, log late and leave a helper, and interrupts at any moment: nothing of the flight is left when the run goes on, and a stop ends both |
| `server_adapter`, `link_replan` | one configuration each | a statement of the repository's documents or messages that the code does not keep: see below |

The type invariants of the modules with proofs are theorems (section 7) and no part of a
run, but for those of `KrpcClient`, which bounds its batches, and of `LandingLink`, which bounds the pipe. Each property of a passing run comes with a mutation of one definition that breaks it.

## 4. Findings

TLC gives a trace for each of 1 to 11 and 13 to 15. Numbers 3 and 4 have runs of their own
(`server_adapter`, `link_replan`), with the lines and the quotations in `PROJECT.json`; the others' properties
are stated in the modules, and adding one to the configuration of its module's run shows its
trace. Number 12 was met while reading, and is why jets are left out of `KrpcClient`.

1. **An executed request is shown as rejected** (`ExecutedNotRejected`). The monitor lists
   a request during review, the review loop accepts, executes and completes it, and the
   monitor, which then sees another stage, overwrites it with "rejected ... not awaiting
   plan review". The plan flies on.
2. **A request nobody answers** (`EveryRequestAnswered`). `submit` looks at the status
   first and writes later; a file written after the last drain stays "requested".
   `TimelyRequestAnswered` holds: everything filed earlier is answered.
3. **A flight with the other runway's adapter** (`AdapterMatchesFlight`). `planningEnded`
   clears its task handle before it awaits a reconnection, so a stop or a change of
   configuration does not wait for it, and the adapter it stores afterwards carries the
   chart of a runway the session has left.
4. **A replan reviewed as the plan before it** (`ReviewedPlanFlown`). `startPlanning`
   keeps the old plan, the snapshot after the answer still carries it, and `_create_plan`
   takes the first snapshot that has a plan. The engage request names no plan.
5. **An engagement behind the review's back** (`ReviewDisengaged`). `engage` gives up on a
   timeout or on an error an earlier request left in the snapshots; the review goes on
   while the backend prepares and flies the plan. `MissionRun` has the operator's side of it: the
   request is answered "rejected", and what flies is still the revision it named.
6. **The auto-warp toggle ends the landing** (`ToggleFollowed`). The backend refuses
   `updateConfiguration` while it is engaged, and the refusal is raised through the program.
7. **An observer makes a run fail** (`RefusedOnlyWhenOwned`). `owner` takes the exclusive
   lock for a moment; a claim in that moment is told that another controller owns the
   endpoint.
8. **A rejected route that never replans** (`RejectedReplans`). A warning after the HAC drops
   the route and keeps its exit, so that every later tick goes to the final test: no plan is
   asked for, none would be accepted (`guidance_taem.rs:8641`), and without a path the
   executive never delivers. The message at `guidance.rs:1761` says "Continuing bounded guidance
   while the rejected solution replans."
9. **The mark of a best-effort route outlives it** (`BestEffortFollowed`).
   `terminal_invalidate_frozen_path` (`guidance_final.rs:6957`) and `terminal_warning_recovery`
   drop the route and leave `mm305_best_effort_route_active`: the planner's routes are refused
   (`guidance_taem.rs:8636`) and the direct fallback is closed, although the message at
   `guidance_taem.rs:13799` says MM305 "is following its best measured-state route".
10. **A calibration that learns nothing** (`CalibrationLearns`). `nominal_learning`
   (`controller.rs:20406`) requires that the guidance is not aborted;
   `start_calibration` does not clear the mark of an abort. After the abort
   `Docs/FLIGHT_TEST.md:12` asks for, the calibration of its stage 2 neither accepts nor rejects
   a sample, whose counts that document asks to be watched.
11. **An engine that is not restored** (`EnginesRestored`). If the answer to
   `Engine.Active(true)` is lost, `activated_by_client` stays false, and the release of the failed
   tick leaves the engine active; the flags are also cleared when the items of a release are
   queued (`krpc_cnano_client.rs:20888`), whatever becomes of the batch. `README.md:97-99` says the
   backend "restores engines it activated". It is shut all the same: `ReleasedWhenAnswered`.
12. **Jet assist never reaches the jets.** Guidance sets `jet_assist_throttle` only in the
   terminal area (`guidance_taem.rs:11671`, `guidance_terminal.rs:3520`), under an atmospheric profile;
   `krpc_apply` (`krpc.rs:4695`, 4881) sends these commands through `set_direct_controls`, which asks for
   none (`krpc_cnano_client.rs:22568`); only `set_autopilot` passes it on (22935).
   `Docs/Engineering/STS-Polar90-Followup-20261015.md:9` says "Transport drives proportional jet
   throttle".
13. **A flight abandoned by Ctrl-C** (`NeverAbandoned`, in `SwiftFlight` and in `EndpointLock`). The clean-up of `run_child` waits for the
   child with nothing that catches an interrupt, and so does the moment between `Popen` and the `try`:
   a `KeyboardInterrupt` there ends the run while the engine flies on in a session of its
   own. The comment at `programs.py:163` says "never abandon a detached flight owner", and
   `cli.py:81` raises one at every Ctrl-C after the first. The endpoint is free for the next run while
   the engine flies. Without it `ChildReleased` holds.
14. **A landing reported as a hold** (`LandingReported`). The thread on the flight log wakes
   twice a second and stops without a last reading when the engine has ended, which it does right
   after logging "complete" (`FlightRuntime.swift:298`). The phase stays behind, and the run ends as
   "holding". `tests/test_operations.py:225` asserts "complete"; its engine waits 0.7 s first.
15. **A finished run whose backend still flies** (`FinishedIsReleased`). `run`'s finally clause
   (`programs.py:535`) guards its abort with `except Exception`; a `KeyboardInterrupt` there, or during
   the shutdown, skips the rest of the clause, and `controller.py:218` finishes the run as "aborted". The
   comment at `controller.py:222` says "Program owners release controls in finally before arriving here".
   The backend flies until it reads the end of its input, where it exits (`Main.swift:449`)
   without a release of the controls. `ReleasedWhenFinished` holds: an interrupt of the release is the
   only way to it, and it never reports completion.

Observations of the same kind. After a quickload the predictor compares only the clock, so a plan
of the undone timeline is adopted once the new one has come as far (`AdoptedOnTimeline`), and the force
scales fitted to it seed every later plan, also after a reconnection (`ScalesOfTimeline`): the history of
samples is cleared, the scales are not. An interrupt during the preparation of a run leaves its status at
"running". The thread on the flight log may publish "connected" after the run
has closed its status (`DisconnectedAtEnd`), since nobody joins it. And under a control law, an entry that is admitted on its energy is
undone again in every tick (`guidance_terminal.rs:3097`) until the physical boundary forces it,
since no route exists that could be adopted. `TerminalGuidance` has both outcomes.

## 5. Bounds, and why they are enough

- **MissionRun.** Three requests (`Commands`) suffice for two requests that race and an
  abort between them; the liveness run has two, because the requests interact pairwise and
  no symmetry may be used there. The safety run has a monitor that outlives its join and no kills, the
  liveness run the reverse; `Die` is in both, as the end of an interrupted clean-up. `MaxPlans = 2` is a first plan and a replan, so that a
  request can name a revision that is no longer under review. The requests are
  interchangeable in the safety runs: `Permutations(Commands)`.
- **BackendServer.** Two runways, so that a search can pick the other one. `MaxGeneration`
  bounds how often the generation moves: four allow a plan, an engagement, a stop and a
  fresh start with an old task still under way; the adapter run needs six. The bound is a
  guard of `Receive` only, so whatever has been received can be carried out.
- **LandingLink.** One runway: the interplay of runways is `BackendServer`'s own run.
  `MaxRequests = 8` fits configure, connect, plan, an engagement or a replan, an abort and
  a shutdown; `Spare` keeps four for the requests that end a session, so that the bound
  does not cut off an ending. `MaxPipe = 2` is the smallest pipe in which the response and
  the snapshot of one request fit, and makes the server block at once; `link_replan`
  has three. `MaxGeneration = 10` is out of reach of eight requests.
- **EndpointLock.** Three runs: one that owns, one that is refused and one that comes after
  a crash. Two observers. The proofs hold for any number of each.
- **LandingController.** Two configurations, so that a plan can be of the other one.
  `MaxGeneration = 2` bounds the requests that move the generation: an update between a plan
  and its engagement, and one that undoes it. Sessions may follow each other without a bound.
- **EntryPrediction.** `MaxUt = 3` with an interval and an age of 2: time can pass an interval and a
  cooldown, and can go back behind a job, a request or a barrier. One bump of the generation: a job
  is outdated by the first.
- **TerminalGuidance.** `Transition = 2` stands for the five phases of MM304, which it passes in order,
  one at a tick. `MaxUt = 1` with `AdmissionAge = 1`, `RouteAge = 0`: an answer can be of an earlier sample and still
  young enough, a route can expire and be computed twice. Two models: one replaced. The proofs
  hold for any bounds.
- **SwiftFlight.** `Last = 2` is a first phase, one in between and "complete". Three interrupts: the
  stop, one that leaves the loop, one in the clean-up. One helper stands for all descendants.
- **KrpcClient.** Three engines, the middle one not selected: engines before and behind
  an excluded one. A batch of four holds the main controls and one engine's three items, so
  that a second engine needs a second batch and a third one a third. Throttles 0 and 1. Two faults
  are a lost call and what makes it worse: a second one, a crash or the pilot.

## 6. Fairness and deadlock

Deadlock checking is off where the system really ends: a run of the controller, a session of
the backend, a controller of the lock, a landing process that was shut down or disconnected, a run of the
Swift engine. It is on for
`TerminalGuidance` and `KrpcClient`.

- `MissionRun!FairSpec`: weak fairness of the main thread, of the monitor and of an
  operator's pending write. Threads are scheduled, and each call the main thread makes has
  a timeout; a backend whose client is gone reads the end of its input in the end. Filing a request,
  every Ctrl-C, a crash and the natural end of a flight (`FlightEnds`, `BackendRests`) are not fair.
- `BackendServer!FairSpec`: weak fairness of the handler, of each task's steps between
  awaits, and of the return of a runtime whose generation is over. An adapter call returns
  or throws, a search is finite, and the runtimes check for cancellation. A flight that
  nobody stops may last for ever, and no request need come.
- `LandingLink!FairLinkSpec`: weak fairness of the client's own steps, of its timeouts, of
  the wait that ends in a kill, and of the server's receiving and handling. Nothing is
  asked of the tasks or of KSP: `StopEndsRun` holds when neither ever answers, because
  each call the client makes has a timeout.
- `LandingController!FairSpec`: weak fairness of the lifecycle thread's work and of each thread's end
  (a thread that waits for the mutex gets it; a tick is finite), and strong fairness of the tick of an
  aborted guidance whose release reaches the vessel: the link may fail again and again, but is not
  down for ever. Requests are not fair.
- `EntryPrediction!FairSpec`: weak fairness of the predictor, of the end of a barrier and
  of the joins of a disconnect. That samples come, or that the game is ever taken back, is not assumed.
- `KrpcClient!FairSpec`: weak fairness of the client's own steps, since a remote call is answered
  or fails. That ticks come is not assumed: `CutReachesEngines` has it as its premise that guidance
  commands again and again, and from some time on no throttle.
- `SwiftFlight!FairSpec`: weak fairness of the controller's thread, whose waits all have a timeout.
  Nothing is asked of the engine, its helper or the thread on the log: `StopEndsFlight` rests on SIGKILL.
- `TerminalGuidance` states no fairness: its properties are safety.

## 7. Proofs

The assumptions are those on the constants, each named in its module: `RunAssumption`,
`ServerAssumption`, `LinkAssumption`, `LockAssumption`, `ControllerAssumption`, `PredictionAssumption`,
`TerminalAssumption`, `KrpcClientAssumption`, `FlightAssumption`. TLC evaluates them in the runs. No theorem assumes
anything else of the program, except `FilesSettled`, which supposes `~JoinMayTimeOut`.

**MissionRunProofs.** `IInv` is `TypeOK`, `HeldRequestsFiled` and `Control`. The safety
invariants are not inductive: that what flies was ordered for the revision under review needs
to know that the request in `active` is an execute request for `plans` from the moment
`HandleRequest` took it until the engagement (`ActiveRequest`), that the displayed revision is that of
the last plan (`DisplayedPlan`), and that no plan is made while the backend flies, so that the order of a
flight behind a rejected request stays the last plan's too (`OrderKept`). `ReleaseDue` says from
where to where the backend may fly, and that beyond it an interrupt has cut the release. `HeldRequestsFiled`
says that every request a thread holds has a file, so that no operator can submit it anew under the
thread's hands. `FilesSettled` adds `Settled`: the monitor is gone after the join, and
what the final loop has not yet closed is still in its list. A monitor that outlives the
join could accept an abort after that loop, which is why the theorem excludes it.

**LandingLinkProofs.** `IInv` is `TypeOK`, `Room` (a received request can still be carried
out within the bound), `Ownership` and `ConfigurationKept`. `Ownership` is the argument the
Swift code makes implicitly with its handles and generation guards: a task that can still
act on the session is the one named by the handle of its kind (`LiveOwned`; the two steps
of the reconnection in `planningEnded` are the exception, and can only replace the
adapter or store a plan); the handles are never held together (`PlanOrFlight`); a handle
of an older generation means that a stop is waiting for it (`HandleCurrent`); and after
that wait nothing is held (`StopReleased`). A new task is started only when both handles
are clear, so no older task can take the session over. `ConfigurationKept` carries the
plan's configuration from the engagement, where it is compared, or from the resolution of
the runway, through the preparation to the flight.

`ServerKeepsSession` is the refinement of `LandingSession`. It needs to know of the current
generation what `Ownership` says of the handles, and `AtWork` adds it: from the moment a stop is
accepted the generation is one nothing was started under (`StopFresh`, which rests on `Unstarted`: later
generations are unused), so whatever resumes during the wait is superseded, and a superseded task
changes nothing of the session (`Superseded`); a search that reconnects without a handle is covered
by `preparing` (`ReconnectHeld`); nothing is engaged while a flight is prepared (`NotEngagedYet`), and
nothing is being prepared any more when one ends (`PreparingOver`). One lemma each for the handler, the
starts, the planning and the flight steps shows which step of the session they are.

The same module proves the session of a landing program. `LinkImplementsServer` says that
`LandingLink` does nothing `BackendServer` does not allow, so every theorem about the server holds with
a client at the other end of its pipes. `TerminalIsOver` and `AskedFirst` are about what the
client knows, and their invariant `LinkInv` says where that knowledge comes from. `Numbered`: requests
are numbered in their order, and what was answered has been received. `LastAsked`: the last
request is that of the call, still in the inbox or with the server. `Placed`: where the program can be,
by its call, `guided` and `terminal`. `InHand`: which request a handler's step belongs to. `Told` is the
core. What stands in the pipe behind the answer that accepts an engagement was written when neither
the server nor the inbox held a request that could start anything, and no search was under way
(`LastFlight`); so a final phase in it, or in `latest` once `guided`, is the end of this
client's flight (`Landed`), not that of an earlier one, and a flight that has ended stays so until
the program asks for another.

**EndpointLockProofs.** `IInv` is `TypeOK`, `LockHeld` (a controller is in one of the places
between lock and unlock exactly when it holds the lock, and likewise for observers),
`RecordNamesOwner` and `ChildrenOwned`. That an orderly controller has no child outside its claim
is not a guard of `Leave`: it follows from `Reap`, the only way from a flight back to the claim. `Implementation` is the refinement: `TryLock` maps
to `Acquire`, `Record` to `Fly`, `Leave` and `Interrupt` to `Land`, `Unlock`, `WriteFails` and `Crash` to
`Release`, and the other steps to stuttering. It holds for any number of runs and
observers, with crashes and failing writes.

**LandingControllerProofs.** `IInv` is `TypeOK` and `Correct`: the safety properties support each
other (a vessel cannot be commanded without a session because everything that could command it
went with the session), and `Stopped` records the order in which a closing stops the threads, which
`ClosedAlone` needs. The steps are proved in three groups, lifecycle, requests and ticks.
`AuthorityHolds` is the refinement of `VesselAuthority`, in the same three groups (`ClosingKept`,
`RequestKept`, `TickKept`), each step mapped to an abstract action or to a stutter. Two conjuncts of
`Stopped` are there for it: a control thread that is being joined has its stop flag set, so it
cannot tick, and after the planning threads were told to stop the vessel is not commanded. That an
engagement is on a current plan needs `PlanMatchesConfiguration`: the code tests only the mark.

**EntryPredictionProofs.** `IInv` is the type invariant, `Outdated`, `Orderly` and `Timely`. That no
result is adopted for another flight rests on two different guards: a request of the operator outdates a
job by its generation; an abort of the control thread moves no generation, and is noticed only because
the authority and the terminal area are gone until a request, which does move it, gives
them back. `Outdated` says just this of a job with an intervention. That a simulation adopts no plan of a
sample long past rests on the barrier: `Timely` says that an entry job without an intervention or an attitude
recovery is of the current sample, or of the one before with the barrier up (or a disconnect under way),
or the guidance is in the terminal area, where the plan is not adopted. `Orderly` is what the barrier and an
idle predictor know.

**TerminalGuidanceProofs.** `IInv` is the type invariant, `OneOwner` and `DeliveredToFinal`, which are
inductive together. A tick is a tree of steps; `Sound` says of a step that it keeps the three, and
one lemma for each operator of the tree shows it, up to the tick. The action properties follow
from the guards of the handoff and of the planner's answer.

**KrpcClientProofs.** The three safety properties speak of the moments between two operations and are
far from inductive. `IInv` says what holds within one. `Underway`: the calls still to come about an
engine belong to the operation, and those before them had their effect, unless the engine is astray.
`Accounted`: what was done to an engine is noted, or will be by the next answer (`Owning`), or its
undoing is in the batch. `Releasing`: nothing is left to undo about the engines a release has passed, so
a flag cleared early is always matched by an item. `Reached`: the command in progress has reached the
engines before `at`, the cached one has reached them all. `AtZero` is the thrust with the main throttle
shut, so the pilot's hand disturbs no part of it. One lemma for each action; for `Answered`, one
case for each of the ten sequences of calls that can be outstanding (`Stages`).

**SwiftFlightProofs.** `IInv` is the type invariant and `Reaped`: the reader is joined only when the
child is gone, and the run goes on only when nobody holds the output, which the last SIGKILL of the
group sees to. How the loop was left does not matter to it; an interrupt outside the loop is remembered.

`PROJECT.json` lists the theorems. What stays with TLC: everything about liveness (TLAPS 1.4
has no rules for fairness and `ENABLED`); the two runs that show a violation; facts about
recursive definitions over data, of which the models have none.

## 8. What is abstracted, or not modelled

- The contents of plans, telemetry, search progress and configurations other than the
  runway; message parsing; the text of diagnostics; the backend's first "ready" message;
  the kRPC probes before planning and engagement, which appear as a call that may fail.
- The phases a runtime reports while it flies are one phase, "flying". Names of phases,
  the forward-only rule and checkpoint saves on phases need a model of `runlog.py`.
- The sequence of programs of a mission: a `MissionRun` has the landing program alone, the
  one that listens to requests other than abort.
- `LandingLink` has one Ctrl-C: what a second one skips is in `MissionRun`, `EndpointLock` and
  `SwiftFlight`. A killed controller, or one whose clean-up was interrupted, leaves its flight process,
  which may fly while the lock is free for another run: `ChildrenOwned` makes these exceptions visible.
- `EndpointLock`: an interrupt of `claim` itself is an end like a failed write.
- `LandingController`: the display, telemetry and configuration beyond what plans depend on. The phases an
  attitude recovery and the landing itself show count as the phase of their stage.
- `EntryPrediction`: the predictor is running (a thread that cannot be created is in
  `LandingController`, without the barrier, which would then wait for ever). The guidance's
  other timers with absolute times (TAEM replanning, admission retries) wait for the old
  timeline after a quickload; the supervision timer is modelled. The marks of a final reversal, which
  also make a plan due, are never set by the code. The values of the force scales are abstracted to whether an
  undone timeline is in them; that too few samples leave them alone is a choice of `FinishJob`.
- `TerminalGuidance`: the planner thread is running (a tick that solves in place, without
  it, is left out) and the numeric model is available and validated; the generation
  is the mark `outdated` of a job, whose contents no longer matter then; request token and need
  are one variable; the sample of a refused admission, and shadow diagnostics, are left out. Phases other
  than entry and terminal area are one. `taem_exec_enter` cannot refuse when the entry executive has
  accepted, and the repeated computation of an admission never lacks an answer (it does for data that are no
  numbers); it compares the model itself (`guidance_taem.rs:8323`). The branches of `taem_exec_update` for an attitude recovery and of
  `terminal_return_to_entry` for an owned vehicle are never reached.
- `KrpcClient`: rocket engines of the inventory. Left out are jets (finding 12), engines outside of the
  inventory, control surfaces, telemetry other than the thrust, the pause of a simulated
  vessel in `krpc_safe`, and time warp (a failed readback of the rails warp factor,
  `krpc_cnano_client.rs:23956`, returns without setting it to zero), and quickloads, which put the engines back
  behind the client's flags. The eight items of the main
  controls count as one; a batch is executed in any order.
- `SwiftFlight`: a SIGKILL takes effect at once (`run_child` raises if the child survives one for five
  seconds). A second Ctrl-C before the child is started, or after its clean-up, ends in the
  controller: that part is in `MissionRun` (the `Interrupt` actions). Other programs run the same `run_child`; what they do with the lines
  they read is left out, but that it may raise (`Raise`).
- Numerical code (guidance, solvers, simulators) is real arithmetic over trajectories and
  out of reach of these tools. The ascent and trim programs are sequential guidance on one
  thread. The TUI, the CLI and the viewers present state; what they write to shared state
  is in `MissionRun` and `EndpointLock`.

## 9. Plan

Built, in the order of importance: `MissionRun` (operator requests against a run),
`BackendServer` (the actor), `LandingLink` (both sides of the pipes), `EndpointLock` with
its abstract specification, then the landing process: `LandingController` (threads, authority,
plans), `EntryPrediction` and `TerminalGuidance` (its two planning threads against the guidance),
`KrpcClient` (what is left of a command when calls fail), then `SwiftFlight` (the child process of
a flight), the abstract `LandingSession` and `VesselAuthority`, and the proofs of all of them.

Next, in this order:

1. **PhaseTracker**: `runlog.py`, `phases.py` and the checkpoints of `_LandingState`. Phases never
   go back; which checkpoint saves can succeed at all; which phases count as flight time.
2. **FlightRuntime**: the lanes of the deorbit and flight runtimes, telemetry outages and
   recovery, and the release of the vehicle on cancellation. Then `BackendServer`'s
   fairness of `RuntimeReturns` becomes a property of this module.
3. `EndpointLock` composed with `SwiftFlight`, so that `Reap` is the clean-up step by step.
4. **KrpcConnect**: each connection is closed by exactly one side of a timed-out attempt.
5. **Controls**: one-shot counters under several writers.
6. `EndpointLock` composed with `MissionRun`, for the error of the release that replaces
   the result of a run.
7. **RailsWarp**: the factor that is set, read back and lowered, across ticks that fail; then
   `KrpcClient` composed with `LandingController`, so that a lost release has both halves.
