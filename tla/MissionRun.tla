------------------------------ MODULE MissionRun ------------------------------
(***************************************************************************)
(* One live run of the mission controller: the main thread of              *)
(* MissionController.run with the reviewed landing program inside it, the  *)
(* command monitor thread that runs beside it, and the operators (CLI and  *)
(* TUI processes) who talk to both through request files.                  *)
(*                                                                         *)
(* A request file is read and replaced as a whole (os.replace), so one     *)
(* read or one write of a file is one step; what lies between two of them  *)
(* is open to the other thread and to the operators.  The landing backend  *)
(* is reduced here to whether it flies and what it answers (BackendServer  *)
(* has its own module); a plan is the number of the revision the           *)
(* controller gave it.  Once stop_event is set, a signal is an exception   *)
(* wherever the main thread is (the Interrupt actions).                    *)
(***************************************************************************)
EXTENDS Naturals, FiniteSets

CONSTANTS
  Commands,        \* the request files operators may write in this run
  NoCommand,
  MaxPlans,        \* bound: plans one session creates before planning fails
  MayCrash,        \* whether the controller process may be killed
  JoinMayTimeOut   \* whether monitor.join(timeout=2) may give up waiting

ASSUME RunAssumption ==
  /\ IsFiniteSet(Commands) /\ NoCommand \notin Commands
  /\ MaxPlans \in Nat \ {0}
  /\ MayCrash \in BOOLEAN
  /\ JoinMayTimeOut \in BOOLEAN

VARIABLES
  pc,          \* what the main thread does next
  status,      \* status.json: lifecycle state, stage and displayed revision
  stop,        \* the controller's stop_event
  plans,       \* revisions created so far; the last one is under review
  engaged,     \* the landing backend has accepted an engagement and flies
  orderedBy,   \* the request that ordered it, and
  orderedRev,  \*   the revision under review at the time (engage names no plan)
  cut,         \* an interrupt cut the release of the vehicle short
  outcome,     \* the outcome the landing program will report
  active,      \* the request the review loop is executing
  replanning,  \* the replan request waiting for its new plan
  todo,        \* requests main has read and not yet handled
  mpc,         \* what the monitor thread does next
  mtodo,       \* requests the monitor has read and not yet handled
  cmd,         \* request files; "checked" is one not yet written
  fresh        \* status.json was updated within the last 15 seconds

flight == <<engaged, orderedBy, orderedRev, cut>>
reviewing == <<plans, active, replanning, todo>>
monitorVars == <<mpc, mtodo>>
mainVars == <<pc, status, outcome, flight, reviewing>>
others == <<stop, fresh, monitorVars>>     \* what main's steps leave alone
vars == <<mainVars, monitorVars, stop, cmd, fresh>>

Actions == {"abort", "execute-plan", "replan"}
Finished == {"complete", "aborted", "failed"}
Answers == {"completed", "rejected"}
FileStates == {"requested", "accepted", "running"} \cup Answers
Stages == {"ready", "preparing", "loading", "running", "planning", "review",
           "flying", "finished"}
MainSteps == {"claim", "prepare", "loading", "precheck", "program", "plan",
              "planning", "ackReplan", "review", "handle", "replan", "recheck",
              "engage", "ackEngage", "takeOver", "flying", "release",
              "shutdown", "finish", "unclaim", "join", "drain",
              "reject", "sweep", "closed", "dead"}
MonitorSteps == {"off", "wait", "scan", "abort", "turnDown"}

Status == [state: {"ready", "running"} \cup Finished, stage: Stages,
           rev: 0..MaxPlans]
RequestStates == {"absent", "checked"} \cup FileStates
Request == [state: RequestStates, action: Actions, rev: 0..MaxPlans, stamp: Nat]

TypeOK ==
  /\ pc \in MainSteps
  /\ status \in Status
  /\ stop \in BOOLEAN
  /\ plans \in 0..MaxPlans
  /\ engaged \in BOOLEAN
  /\ orderedBy \in Commands \cup {NoCommand}
  /\ orderedRev \in 0..MaxPlans
  /\ cut \in BOOLEAN
  /\ outcome \in Finished
  /\ active \in Commands \cup {NoCommand}
  /\ replanning \in Commands \cup {NoCommand}
  /\ todo \subseteq Commands
  /\ mpc \in MonitorSteps
  /\ mtodo \subseteq Commands
  /\ cmd \in [Commands -> Request]
  /\ fresh \in BOOLEAN

(***************************************************************************)
(* Request files.                                                          *)
(***************************************************************************)
Filed == {r \in Commands : cmd[r].state \in FileStates}
Pending == {r \in Commands : cmd[r].state = "requested"}

\* pending() sorts by submission time.
IsOldest(r, S) == r \in S /\ \A q \in S : cmd[r].stamp <= cmd[q].stamp

\* Commands.update rewrites the whole file from the caller's copy of the
\* request, so it replaces whatever state the file had reached meanwhile.
Answer(r, s) == cmd' = [cmd EXCEPT ![r].state = s]

(***************************************************************************)
(* Operators: Commands.submit checks status.json, then writes the file.    *)
(***************************************************************************)
Submit(r, a, v) ==
  /\ cmd[r].state = "absent"
  /\ status.state = "running" /\ fresh
  /\ a # "abort" => status.stage = "review"
  /\ a = "abort" => v = 0
  /\ a = "execute-plan" => v # 0 /\ v = status.rev
  /\ cmd' = [cmd EXCEPT ![r] = [state |-> "checked", action |-> a, rev |-> v,
                                stamp |-> 0]]
  /\ UNCHANGED <<mainVars, others>>

WriteRequest(r) ==
  /\ cmd[r].state = "checked"
  /\ cmd' = [cmd EXCEPT ![r] = [@ EXCEPT !.state = "requested",
                                        !.stamp = Cardinality(Filed)]]
  /\ UNCHANGED <<mainVars, others>>

\* Ctrl-C in the CLI, or the TUI's own controller: abort() in this process.
Abort == stop' = (stop \/ status.state \notin Finished)

OperatorAbort ==
  /\ pc \notin {"closed", "dead"}
  /\ ~stop /\ Abort
  /\ UNCHANGED <<mainVars, monitorVars, cmd, fresh>>

(***************************************************************************)
(* The command monitor, started once the endpoint is claimed.              *)
(***************************************************************************)
MonitorDone == pc \in {"join", "drain", "reject", "sweep", "closed"}

MonitorPoll ==
  /\ mpc = "wait" /\ ~MonitorDone
  /\ mtodo' = Pending
  /\ mpc' = "scan"
  /\ UNCHANGED <<mainVars, stop, cmd, fresh>>

MonitorAccept(r) ==
  /\ mpc = "scan" /\ IsOldest(r, mtodo)
  /\ cmd[r].action = "abort"
  /\ Answer(r, "accepted")
  /\ mpc' = "abort"
  /\ UNCHANGED <<mainVars, mtodo, stop, fresh>>

MonitorAbort(r) ==
  /\ mpc = "abort" /\ IsOldest(r, mtodo)
  /\ Abort
  /\ mtodo' = mtodo \ {r} /\ mpc' = "scan"
  /\ UNCHANGED <<mainVars, cmd, fresh>>

\* Mutation of MonitorJudge: the monitor only serves aborts.
MonitorOnlyAborts(r) ==
  /\ mpc = "scan" /\ IsOldest(r, mtodo)
  /\ cmd[r].action # "abort"
  /\ mtodo' = mtodo \ {r}
  /\ UNCHANGED <<mainVars, mpc, stop, cmd, fresh>>

\* The stage is read now; the answer is written in a later step.
MonitorJudge(r) ==
  /\ mpc = "scan" /\ IsOldest(r, mtodo)
  /\ cmd[r].action # "abort"
  /\ \/ /\ status.stage = "review"
        /\ mtodo' = mtodo \ {r} /\ UNCHANGED mpc
     \/ /\ status.stage # "review"
        /\ mpc' = "turnDown" /\ UNCHANGED mtodo
  /\ UNCHANGED <<mainVars, stop, cmd, fresh>>

MonitorTurnDown(r) ==
  /\ mpc = "turnDown" /\ IsOldest(r, mtodo)
  /\ Answer(r, "rejected")
  /\ mtodo' = mtodo \ {r} /\ mpc' = "scan"
  /\ UNCHANGED <<mainVars, stop, fresh>>

MonitorRest ==
  /\ mpc = "scan" /\ mtodo = {}
  /\ mpc' = "wait"
  /\ UNCHANGED <<mainVars, mtodo, stop, cmd, fresh>>

MonitorExit ==
  /\ mpc = "wait" /\ MonitorDone
  /\ mpc' = "off"
  /\ UNCHANGED <<mainVars, mtodo, stop, cmd, fresh>>

(***************************************************************************)
(* The main thread: preparation.                                           *)
(***************************************************************************)
\* _finish.  An exception of the preparation leaves claim() first, which touches
\* nothing but the lock file: the order of the two makes no difference here.
Finish(s) ==
  /\ status' = [status EXCEPT !.state = s, !.stage = "finished"]
  /\ pc' = "unclaim"

Stage(s) == status' = [status EXCEPT !.stage = s]

ClaimEndpoint ==
  /\ pc = "claim"
  /\ \/ /\ status' = [status EXCEPT !.state = "running", !.stage = "preparing"]
        /\ pc' = "prepare" /\ mpc' = "wait"
     \/ Finish("failed") /\ UNCHANGED mpc      \* OwnershipError, OSError
  /\ UNCHANGED <<stop, outcome, mtodo, cmd, fresh, flight,
                 reviewing>>

BeginLoad ==
  /\ pc = "prepare"
  /\ \/ Stage("loading") /\ pc' = "loading"
     \/ pc' = "precheck" /\ UNCHANGED status   \* no save to load
  /\ UNCHANGED <<outcome, cmd, others, flight, reviewing>>

LoadSave ==
  /\ pc = "loading"
  /\ \/ pc' = "precheck" /\ UNCHANGED status
     \/ Finish("failed")                       \* GuardError
  /\ UNCHANGED <<outcome, cmd, others, flight, reviewing>>

Precheck ==
  /\ pc = "precheck"
  /\ \/ stop /\ Finish("aborted")
     \/ ~stop /\ Finish("failed")              \* the precondition raised
     \/ ~stop /\ Stage("running") /\ pc' = "program"
  /\ UNCHANGED <<outcome, cmd, others, flight, reviewing>>

\* The landing program configures and connects its backend without looking
\* at stop_event.
StartProgram ==
  /\ pc = "program"
  /\ \/ stop /\ Finish("aborted") /\ UNCHANGED outcome
     \/ ~stop /\ pc' = "plan" /\ UNCHANGED <<status, outcome>>
     \/ /\ ~stop /\ outcome' = "failed"
        /\ pc' = "release" /\ UNCHANGED status
  /\ UNCHANGED <<cmd, others, flight, reviewing>>

(***************************************************************************)
(* The main thread: plan review (LandingProgram._review).                  *)
(***************************************************************************)
\* Leave the landing program with this outcome, through its finally clause, which
\* aborts first when it believes the backend engaged.
Leave(o) == outcome' = o /\ pc' = "shutdown"
LeaveFlight(o) == outcome' = o /\ pc' = "release"

BeginPlan ==
  /\ pc = "plan"
  /\ \/ stop /\ Leave("aborted") /\ UNCHANGED status
     \/ /\ ~stop
        /\ status' = [status EXCEPT !.stage = "planning", !.rev = 0]
        /\ pc' = "planning" /\ UNCHANGED outcome
  /\ UNCHANGED <<cmd, others, flight, reviewing>>

\* The probe or the backend's planner failed, or the backend, engaged by a request
\* that was turned down, refuses to plan; none waits for ever.
PlanFails ==
  /\ pc = "planning"
  /\ Leave("failed")
  /\ UNCHANGED <<status, cmd, others, flight, reviewing>>

PlanReady ==
  /\ pc = "planning" /\ plans < MaxPlans /\ ~engaged
  /\ \/ stop /\ Leave("aborted") /\ UNCHANGED <<status, plans>>
     \/ /\ ~stop
        /\ plans' = plans + 1
        /\ status' = [status EXCEPT !.stage = "review", !.rev = plans + 1]
        /\ pc' = IF replanning = NoCommand THEN "review" ELSE "ackReplan"
        /\ UNCHANGED outcome
  /\ UNCHANGED <<active, replanning, todo, cmd, others, flight>>

AckReplan ==
  /\ pc = "ackReplan"
  /\ Answer(replanning, "completed")
  /\ replanning' = NoCommand
  /\ pc' = "review"
  /\ UNCHANGED <<status, plans, outcome, active, todo, others,
                 flight>>

ReviewPoll ==
  /\ pc = "review"
  /\ \/ stop /\ Leave("aborted") /\ UNCHANGED todo
     \/ ~stop /\ Leave("failed") /\ UNCHANGED todo     \* connection lost
     \/ ~stop /\ todo' = Pending /\ pc' = "handle" /\ UNCHANGED outcome
  /\ UNCHANGED <<status, plans, active, replanning, cmd, others,
                 flight>>

\* Mutation of HandleRequest: the revision is not compared.
HandleAnyRevision(r) ==
  /\ pc = "handle" /\ IsOldest(r, todo)
  /\ \/ cmd[r].action = "abort" /\ UNCHANGED <<pc, active, cmd>>
     \/ /\ cmd[r].action # "abort"
        /\ Answer(r, "accepted")
        /\ active' = r
        /\ pc' = IF cmd[r].action = "replan" THEN "replan" ELSE "recheck"
  /\ todo' = todo \ {r}
  /\ UNCHANGED <<status, plans, outcome, replanning, others,
                 flight>>

\* One request of the list just read: aborts belong to the monitor, and a
\* request for another revision than the one under review is turned down.
HandleRequest(r) ==
  /\ pc = "handle" /\ IsOldest(r, todo)
  /\ \/ /\ cmd[r].action = "abort"
        /\ UNCHANGED <<pc, active, cmd>>
     \/ /\ cmd[r].action # "abort" /\ cmd[r].rev # plans
        /\ Answer(r, "rejected")
        /\ UNCHANGED <<pc, active>>
     \/ /\ cmd[r].action # "abort" /\ cmd[r].rev = plans
        /\ Answer(r, "accepted")
        /\ active' = r
        /\ pc' = IF cmd[r].action = "replan" THEN "replan" ELSE "recheck"
  /\ todo' = todo \ {r}
  /\ UNCHANGED <<status, plans, outcome, replanning, others,
                 flight>>

AllHandled ==
  /\ pc = "handle" /\ todo = {}
  /\ pc' = "review"
  /\ UNCHANGED <<status, outcome, cmd, others, flight, reviewing>>

Replan ==
  /\ pc = "replan"
  /\ Answer(active, "running")
  /\ replanning' = active /\ active' = NoCommand
  /\ todo' = {}
  /\ pc' = "plan"
  /\ UNCHANGED <<status, plans, outcome, others, flight>>

\* Answer the request being executed with "rejected" and go on reviewing.
TurnDownActive ==
  /\ Answer(active, "rejected")
  /\ active' = NoCommand
  /\ pc' = "handle"

\* Fresh vessel state, plan qualification and stop_event, in this order.
Recheck ==
  /\ pc = "recheck"
  /\ \/ TurnDownActive
     \/ ~stop /\ pc' = "engage" /\ UNCHANGED <<active, cmd>>
  /\ UNCHANGED <<status, plans, outcome, replanning, todo,
                 others, flight>>

\* The backend accepts the engagement, at the latest when it has dealt with the
\* request that the client has given up waiting for.
Accepted == engaged' = TRUE /\ orderedBy' = active /\ orderedRev' = plans

\* BackendClient.engage.  It raises when the backend refuses, but also when no
\* snapshot confirms in time, or one shows an old error, and the backend flies: the
\* request is turned down unless the latest snapshot says that it is engaged.
EngageBackend ==
  /\ pc = "engage"
  /\ \/ /\ ~engaged /\ Accepted
        /\ \/ pc' = "ackEngage" /\ UNCHANGED <<active, cmd, outcome>>
           \/ Leave("failed") /\ UNCHANGED <<active, cmd>>
           \/ TurnDownActive /\ UNCHANGED outcome
        /\ UNCHANGED cut
     \/ /\ TurnDownActive
        /\ UNCHANGED <<outcome, flight>>
     \/ /\ orderedBy # NoCommand
        /\ Leave("failed")
        /\ UNCHANGED <<active, cmd, flight>>
  /\ UNCHANGED <<status, plans, replanning, todo, others>>

AckEngage ==
  /\ pc = "ackEngage"
  /\ Answer(active, "completed")
  /\ active' = NoCommand
  /\ pc' = "takeOver"
  /\ UNCHANGED <<status, plans, outcome, replanning, todo,
                 others, flight>>

TakeOver ==
  /\ pc = "takeOver"
  /\ Stage("flying") /\ pc' = "flying"
  /\ UNCHANGED <<outcome, cmd, others, flight, reviewing>>

(***************************************************************************)
(* The main thread: flight, release and the end of the run.                *)
(***************************************************************************)
\* Mutation of FlightStopped: stop_event only counts before engagement.
FlightIgnoresStop ==
  /\ pc = "flying" /\ stop /\ ~engaged
  /\ Leave("aborted")
  /\ UNCHANGED <<status, cmd, others, flight, reviewing>>

\* stop_event is looked at first in every turn of the flight loop: the abort comes
\* through, or raises, and the finally clause tries again.
FlightStopped ==
  /\ pc = "flying" /\ stop
  /\ \/ engaged' = FALSE /\ Leave("aborted")
     \/ UNCHANGED engaged /\ LeaveFlight("failed")
  /\ UNCHANGED <<orderedBy, orderedRev, cut, status, cmd, others, reviewing>>

\* A terminal phase, the backend's death, a time limit or an error.
FlightEnds ==
  /\ pc = "flying" /\ ~stop
  /\ \/ \E o \in {"complete", "failed"} : Leave(o)
     \/ LeaveFlight("failed")
  /\ UNCHANGED <<status, cmd, others, flight, reviewing>>

\* The program's finally clause: abort, whose failure is ignored, then shutdown.
Release ==
  /\ pc = "release"
  /\ engaged' = FALSE \/ UNCHANGED engaged
  /\ pc' = "shutdown"
  /\ UNCHANGED <<orderedBy, orderedRev, cut, status, outcome, cmd, others, reviewing>>

\* Mutation of Shutdown: a failing program skips its finally clause.
ShutdownUnlessFailed ==
  /\ pc = "shutdown"
  /\ engaged' = (engaged /\ outcome = "failed")
  /\ pc' = "finish"
  /\ UNCHANGED <<orderedBy, orderedRev, cut, status, outcome, cmd, others, reviewing>>

\* BackendClient.shutdown returns with the backend's process gone.
Shutdown ==
  /\ pc = "shutdown"
  /\ engaged' = FALSE
  /\ pc' = "finish"
  /\ UNCHANGED <<orderedBy, orderedRev, cut, status, outcome, cmd, others, reviewing>>

FinishRun ==
  /\ pc = "finish"
  /\ Finish(outcome)
  /\ UNCHANGED <<outcome, cmd, others, flight, reviewing>>

\* Leaving claim() truncates the lock file; an error there fails the run anew.
\* Then run's finally sets the event that ends the monitor.
Unclaim ==
  /\ pc = "unclaim"
  /\ \/ UNCHANGED status
     \/ status' = [status EXCEPT !.state = "failed", !.stage = "finished"]
  /\ pc' = "join"
  /\ UNCHANGED <<outcome, cmd, others, flight, reviewing>>

JoinMonitor ==
  /\ pc = "join"
  /\ mpc = "off" \/ JoinMayTimeOut
  /\ pc' = "drain"
  /\ UNCHANGED <<status, outcome, cmd, others, flight, reviewing>>

Drain ==
  /\ pc = "drain"
  /\ todo' = Pending /\ pc' = "reject"
  /\ UNCHANGED <<status, plans, outcome, active, replanning, cmd,
                 others, flight>>

RejectPending(r) ==
  /\ pc = "reject" /\ IsOldest(r, todo)
  /\ Answer(r, "rejected")
  /\ todo' = todo \ {r}
  /\ UNCHANGED <<pc, status, plans, outcome, active, replanning,
                 others, flight>>

ListFiles ==
  /\ pc = "reject" /\ todo = {}
  /\ todo' = Filed /\ pc' = "sweep"
  /\ UNCHANGED <<status, plans, outcome, active, replanning, cmd,
                 others, flight>>

\* Mutations of FinalState: running requests forgotten; accepted aborts treated
\* like anything else.
FinalStateNotRunning(c) ==
  IF c.state # "accepted" THEN c.state
  ELSE IF c.action = "abort" THEN "completed" ELSE "rejected"
FinalStateAbortToo(c) ==
  IF c.state \in {"accepted", "running"} THEN "rejected" ELSE c.state

\* The last word on a file: an accepted abort succeeded, anything else still
\* open did not.
FinalState(c) ==
  IF c.action = "abort" /\ c.state = "accepted" THEN "completed"
  ELSE IF c.state \in {"accepted", "running"} THEN "rejected"
  ELSE c.state

Sweep(r) ==
  /\ pc = "sweep" /\ r \in todo
  /\ Answer(r, FinalState(cmd[r]))
  /\ todo' = todo \ {r}
  /\ UNCHANGED <<pc, status, plans, outcome, active, replanning,
                 others, flight>>

Close ==
  /\ pc = "sweep" /\ todo = {}
  /\ pc' = "closed"
  /\ UNCHANGED <<status, outcome, cmd, others, flight, reviewing>>

\* The process ends and takes both threads with it; the files are left.
Die == pc' = "dead" /\ mpc' = "off" /\ todo' = {} /\ mtodo' = {}

(***************************************************************************)
(* A second Ctrl-C or SIGTERM: KeyboardInterrupt in the main thread.       *)
(***************************************************************************)
\* No handler of run takes it; only its finally clause and claim's run.
InterruptPreparation ==
  /\ stop /\ pc \in {"claim", "prepare", "loading", "precheck"}
  /\ pc' = IF pc = "claim" THEN "join" ELSE "unclaim"
  /\ UNCHANGED <<status, outcome, cmd, others, flight, reviewing>>

\* The program is left through its finally clause.  An engagement under way has
\* reached the backend or has not.
InterruptProgram ==
  /\ stop
  /\ \/ /\ pc \in {"program", "plan", "planning", "ackReplan", "review", "handle",
                    "replan", "recheck", "engage", "ackEngage", "takeOver"}
        /\ Leave("aborted")
     \/ pc \in {"takeOver", "flying"} /\ LeaveFlight("aborted")
  /\ \/ UNCHANGED <<engaged, orderedBy, orderedRev>>
     \/ pc = "engage" /\ ~engaged /\ Accepted
  /\ active' = NoCommand /\ replanning' = NoCommand /\ todo' = {}   \* locals of _review
  /\ UNCHANGED <<cut, status, plans, cmd, others>>

\* The finally clause itself: what is left of it is skipped.
InterruptRelease ==
  /\ stop /\ pc \in {"release", "shutdown"}
  /\ cut' = TRUE
  /\ Finish("aborted")
  /\ UNCHANGED <<engaged, orderedBy, orderedRev, outcome, cmd, others, reviewing>>

\* _finish, called from the body of _run_programs or from one of its handlers.
InterruptFinish ==
  /\ stop /\ pc = "finish"
  /\ \/ Finish("aborted")
     \/ pc' = "unclaim" /\ UNCHANGED status
  /\ UNCHANGED <<outcome, cmd, others, flight, reviewing>>

\* run's own finally clause: the process ends without the rest of it.
InterruptEnding ==
  /\ stop
  /\ \/ pc = "unclaim" /\ pc' = "join" /\ UNCHANGED <<mpc, mtodo, todo>>
     \/ pc \in {"join", "drain", "reject", "sweep"} /\ Die
  /\ UNCHANGED <<status, stop, outcome, plans, active, replanning, cmd, fresh, flight>>

(***************************************************************************)
(* The landing backend.                                                    *)
(***************************************************************************)
\* Its flight ends by itself: a fault, a completed rollout, its own death.
BackendRests ==
  /\ engaged /\ engaged' = FALSE
  /\ UNCHANGED <<pc, status, outcome, orderedBy, orderedRev, cut, cmd, others, reviewing>>

\* A client that is gone has closed the pipe: the backend exits at the end of its
\* input, at once and without a release of the controls (BackendServer).
BackendReadsEof ==
  /\ engaged /\ pc \in {"unclaim", "join", "drain", "reject", "sweep", "closed", "dead"}
  /\ engaged' = FALSE
  /\ UNCHANGED <<pc, status, outcome, orderedBy, orderedRev, cut, cmd, others, reviewing>>

(***************************************************************************)
(* A killed process.                                                       *)
(***************************************************************************)
Crash ==
  /\ MayCrash /\ pc \notin {"closed", "dead"}
  /\ Die
  /\ UNCHANGED <<status, stop, outcome, plans, active, replanning, cmd, fresh, flight>>

GoStale ==
  /\ pc = "dead" /\ fresh
  /\ fresh' = FALSE
  /\ UNCHANGED <<mainVars, monitorVars, stop, cmd>>

Init ==
  /\ pc = "claim"
  /\ status = [state |-> "ready", stage |-> "ready", rev |-> 0]
  /\ stop = FALSE
  /\ plans = 0
  /\ engaged = FALSE /\ orderedBy = NoCommand /\ orderedRev = 0 /\ cut = FALSE
  /\ outcome = "complete"
  /\ active = NoCommand /\ replanning = NoCommand
  /\ todo = {} /\ mtodo = {}
  /\ mpc = "off"
  /\ cmd = [r \in Commands |-> [state |-> "absent", action |-> "abort",
                                rev |-> 0, stamp |-> 0]]
  /\ fresh = TRUE

Operators ==
  \/ \E r \in Commands, a \in Actions, v \in 0..plans : Submit(r, a, v)
  \/ \E r \in Commands : WriteRequest(r)
  \/ OperatorAbort

Monitor ==
  \/ MonitorPoll \/ MonitorRest \/ MonitorExit
  \/ \E r \in Commands : \/ MonitorAccept(r) \/ MonitorAbort(r)
                         \/ MonitorJudge(r) \/ MonitorTurnDown(r)

Prepare == ClaimEndpoint \/ BeginLoad \/ LoadSave \/ Precheck \/ StartProgram

Review ==
  \/ BeginPlan \/ PlanFails \/ PlanReady \/ AckReplan \/ ReviewPoll
  \/ AllHandled \/ Replan \/ Recheck \/ EngageBackend \/ AckEngage \/ TakeOver
  \/ \E r \in Commands : HandleRequest(r)

Ending ==
  \/ FlightStopped \/ Release \/ Shutdown \/ FinishRun \/ Unclaim
  \/ JoinMonitor \/ Drain \/ ListFiles \/ Close
  \/ \E r \in Commands : RejectPending(r) \/ Sweep(r)

Main == Prepare \/ Review \/ Ending

Interrupt ==
  \/ InterruptPreparation \/ InterruptProgram \/ InterruptRelease
  \/ InterruptFinish \/ InterruptEnding

Backend == BackendRests \/ BackendReadsEof

Next ==
  \/ Operators \/ Monitor \/ Main \/ FlightEnds \/ Interrupt \/ Backend
  \/ Crash \/ GoStale

Spec == Init /\ [][Next]_vars

\* The controller's threads keep running while the process lives, every call
\* they make returns within its timeout, and an operator process that has
\* checked the status goes on to write its request; a backend sooner or later reads
\* the end of its input.  No operator has to ask for anything or to interrupt, and
\* a flight need not end by itself.
Fairness ==
  /\ WF_vars(Main)
  /\ WF_vars(Monitor)
  /\ WF_vars(BackendReadsEof)
  /\ \A r \in Commands : WF_vars(WriteRequest(r))

FairSpec == Spec /\ Fairness

(***************************************************************************)
(* Safety.                                                                 *)
(***************************************************************************)
\* While the backend flies, it was ordered to by an execute-plan request that named
\* the very revision under review, and no other revision has been displayed since,
\* also when the request was turned down for want of a confirmation (_review).
OrderedAsReviewed ==
  engaged =>
    /\ orderedBy # NoCommand
    /\ cmd[orderedBy].action = "execute-plan" /\ cmd[orderedBy].rev = orderedRev
    /\ status.rev \in {0, orderedRev}

\* A run that reports a final state no longer flies the vehicle, unless an interrupt
\* cut its release short; even then it does not report completion (programs.py,
\* run's finally clause; controller.py _run_programs and _finish).
ReleasedWhenFinished ==
  status.state \in Finished /\ engaged => cut /\ status.state # "complete"

\* "Program owners release controls in finally before arriving here"
\* (controller.py _run_programs): a finished run has released the vehicle.
FinishedIsReleased ==
  status.state \in Finished => ~engaged

\* Once the run's files are closed, none of them still promises work in
\* progress (controller.py run, last loop of finally).
NothingLeftOpen ==
  pc = "closed" => \A r \in Commands : cmd[r].state \notin {"accepted", "running"}

\* A request the run executed - the plan is flown - is never answered with
\* "rejected".
ExecutedNotRejected ==
  (pc \in {"takeOver", "flying"} /\ orderedBy # NoCommand)
     => cmd[orderedBy].state # "rejected"

(***************************************************************************)
(* Liveness, under FairSpec.                                               *)
(***************************************************************************)
\* Stopping a run ends its flight for good, whatever it was doing.  A run that is
\* killed, or interrupted in its release, leaves that to the backend's end of file.
StopReleases == stop ~> []~engaged

\* An abort the controller has acknowledged is completed, whatever main was
\* doing when it came.
AcceptedAbortCompletes ==
  \A r \in Commands :
    (cmd[r].action = "abort" /\ cmd[r].state = "accepted")
      ~> (cmd[r].state = "completed" \/ pc = "dead")

\* A request filed while the run is under way is answered.
Answered(r) == cmd[r].state \in Answers
FiledInTime(r) ==
  cmd[r].state = "requested"
    /\ pc \notin {"claim", "drain", "reject", "sweep", "closed", "dead"}

TimelyRequestAnswered ==
  \A r \in Commands :
    FiledInTime(r) ~> (Answered(r) \/ pc = "dead")

\* Every request an operator managed to file is answered.
EveryRequestAnswered ==
  \A r \in Commands : (cmd[r].state = "requested") ~> (Answered(r) \/ pc = "dead")
=============================================================================
