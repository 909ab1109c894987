----------------------------- MODULE LandingLink -----------------------------
(***************************************************************************)
(* The landing program and the native backend it talks to: BackendServer,  *)
(* unchanged, at one end of the two pipes, and at the other the main       *)
(* thread of ksl inside LandingProgram.run with its BackendClient.         *)
(*                                                                         *)
(* The client sends one request at a time and reads messages one by one;   *)
(* what the server writes waits in the pipe until it is read, so the       *)
(* client always decides on a snapshot that may be old.  A write to a      *)
(* server that is gone and a read from it fail the same call in the same   *)
(* way, and are modelled by the read.                                      *)
(***************************************************************************)
EXTENDS BackendServer

CONSTANTS
  Site,         \* the configuration the mission was started with
  MaxRequests,  \* bound: requests one session sends
  MaxPipe,      \* bound: messages the output pipe holds before a write blocks
  MayCrash      \* whether the backend process may be killed from outside

ASSUME LinkAssumption ==
  /\ Site \in Configurations
  /\ MaxRequests \in Nat /\ MaxRequests >= 7 /\ MaxRequests + 2 <= MaxGeneration
  /\ MaxPipe \in Nat /\ MaxPipe >= 2
  /\ MayCrash \in BOOLEAN

VARIABLES
  mode,      \* how this flight begins
  lpc,       \* where the landing program is
  call,      \* the call it is in, or was in last
  sent,      \* requests sent; the number of the last one is its id
  inbox,     \* request lines the server has not read
  serving,   \* the id of the request the server works on
  pipe,      \* messages the client has not read
  latest,    \* the client's latest snapshot
  fresh,     \* it was read since the call began
  reviewed,  \* the plan the client holds, and shows in a review
  guided,    \* _LandingState.engaged
  terminal,  \* _LandingState.terminal
  stop,      \* the operator's stop event
  down       \* the backend process was killed

server == <<vars, serving, down>>
asked == <<call, sent, inbox>>
seen == <<latest, fresh>>
duty == <<reviewed, guided, terminal>>
client == <<mode, lpc, call, sent, seen, duty>>
lvars == <<server, client, inbox, pipe, stop>>

Snapshot == [phase |-> phase, plan |-> plan.id, engaged |-> engaged,
             failed |-> lastError, connected |-> connection = "connected"]
NoSnapshot == [phase |-> "none", plan |-> NoTask, engaged |-> FALSE,
               failed |-> FALSE, connected |-> FALSE]
Snapshots == [phase: Phases \cup {"none"}, plan: 0..MaxGeneration, engaged: BOOLEAN,
              failed: BOOLEAN, connected: BOOLEAN]

Message == [type: {"snapshot"} \cup Answers, id: 0..MaxRequests, snap: Snapshots]
Line == [id: 1..MaxRequests, method: Methods, conf: Configs]

Modes == {"review", "direct", "entry"}
Calls == {"updateConfiguration", "connect", "createPlan", "engage", "saveCheckpoint",
          "abort", "release", "shutdown"}
Places == {"configure", "connect", "await", "until", "seen", "plan", "review",
           "requests", "fly", "flown", "unwind", "shutdown", "close", "closing", "done"}

LinkTypeOK ==
  /\ mode \in Modes /\ lpc \in Places /\ call \in Calls
  /\ sent \in 0..MaxRequests /\ serving \in 0..MaxRequests
  /\ inbox \in Seq(Line) /\ pipe \in Seq(Message) /\ Len(pipe) <= MaxPipe
  /\ latest \in Snapshots /\ fresh \in BOOLEAN
  /\ reviewed \in 0..MaxGeneration
  /\ guided \in BOOLEAN /\ terminal \in BOOLEAN /\ stop \in BOOLEAN /\ down \in BOOLEAN

(***************************************************************************)
(* The server's end of the pipes.                                          *)
(***************************************************************************)
Up == Alive /\ ~down

Written == [i \in 1..Len(out) |->
  IF out[i] = "snapshot" THEN [type |-> "snapshot", id |-> 0, snap |-> Snapshot]
                         ELSE [type |-> out[i], id |-> serving, snap |-> NoSnapshot]]

\* Mutation of ServerWrites: a write that finds the pipe full does not block.
ServerNeverBlocks == pipe' = IF lpc \in {"closing", "done"} THEN <<>> ELSE pipe \o Written'

\* A write after the client has closed the pipes reaches nobody.
ServerWrites ==
  /\ pipe' = IF lpc \in {"closing", "done"} THEN <<>> ELSE pipe \o Written'
  /\ Len(pipe') <= MaxPipe

ServerReceives ==
  /\ ~down /\ inbox # <<>>
  /\ serving' = Head(inbox).id /\ inbox' = Tail(inbox)
  /\ Receive([method |-> Head(inbox).method, conf |-> Head(inbox).conf])
  /\ ServerWrites
  /\ UNCHANGED <<client, stop, down>>

Serve(Step) ==
  /\ ~down /\ Step
  /\ UNCHANGED serving
  /\ ServerWrites
  /\ UNCHANGED <<client, inbox, stop, down>>

ServerStep ==
  \/ Serve(Handler)
  \/ \E e \in Epochs : Serve(PlanningStep(e)) \/ Serve(SearchProgress(e))
                       \/ Serve(FlightStep(e)) \/ Serve(RuntimeStep(e))

\* Killed by a signal; SIGPIPE is one, once the client has closed its end.
BackendDies ==
  /\ MayCrash /\ Up
  /\ down' = TRUE
  /\ UNCHANGED <<vars, serving, client, inbox, pipe, stop>>

(***************************************************************************)
(* BackendClient.                                                          *)
(***************************************************************************)
Calling(c, m, conf) ==
  /\ sent < MaxRequests
  /\ call' = c /\ sent' = sent + 1
  /\ inbox' = Append(inbox, [id |-> sent + 1, method |-> m, conf |-> conf])
  /\ fresh' = FALSE
  /\ lpc' = "await"
  /\ UNCHANGED <<server, mode, latest, pipe, stop>>

\* Room for the requests that end a session.
Spare == sent + 4 <= MaxRequests

\* What the server answers only after KSP has answered it.
Slow == {"connect", "saveCheckpoint", "abort", "release", "shutdown"}

\* The request waits in the pipe while the server is busy with an earlier one.
StuckBehind == inbox # <<>> /\ hpc # "idle"

Over == {"Complete", "Abort", "Fault"}

Decided(s) == s.engaged \/ s.phase \in Over \/ s.failed

\* The snapshot a call still waits for after its response.
Wanted(s) ==
  \/ call = "connect" /\ s.connected
  \/ call = "createPlan" /\ (s.plan # NoTask \/ s.phase = "Fault")
  \/ call = "engage" /\ Decided(s)

\* Whether the latest snapshot is already that one.
Known ==
  \/ call = "connect" /\ latest.connected
  \/ call = "createPlan" /\ fresh /\ latest.plan # NoTask
  \/ call = "engage" /\ fresh /\ Decided(latest)

\* Where a call that raised leads: the review loop and the deferred saves catch
\* it, run's finally block ignores it, and nobody else does.
Raise ==
  \/ call \in {"updateConfiguration", "connect", "createPlan", "abort"} /\ lpc' = "unwind"
  \/ /\ call = "engage"
     /\ lpc' = IF mode = "review" /\ ~latest.engaged THEN "requests" ELSE "unwind"
  \/ call = "saveCheckpoint" /\ lpc' = "flown"
  \/ call = "release" /\ lpc' = "shutdown"
  \/ call = "shutdown" /\ lpc' = "close"

Return ==
  \/ call \in {"connect", "createPlan", "engage"} /\ lpc' = IF Known THEN "seen" ELSE "until"
  \/ call = "updateConfiguration" /\ lpc' = IF guided THEN "flown" ELSE "connect"
  \/ call = "saveCheckpoint" /\ lpc' = "flown"
  \/ call = "abort" /\ lpc' = "unwind"
  \/ call = "release" /\ lpc' = "shutdown"
  \/ call = "shutdown" /\ lpc' = "close"

First == Head(pipe)
TakesFirst == pipe # <<>> /\ pipe' = Tail(pipe)

IsAnswer(m) == m.type # "snapshot" /\ m.id = sent

ReadSnapshot ==
  /\ lpc \in {"await", "until"} /\ TakesFirst /\ First.type = "snapshot"
  /\ latest' = First.snap /\ fresh' = TRUE
  /\ lpc' = IF lpc = "until" /\ Wanted(First.snap) THEN "seen" ELSE lpc
  /\ UNCHANGED <<server, mode, asked, duty, stop>>

ReadResponse ==
  /\ lpc = "await" /\ TakesFirst /\ IsAnswer(First)
  /\ \/ First.type = "ok" /\ Return /\ terminal' = (terminal \/ call = "abort")
     \/ First.type = "error" /\ Raise /\ UNCHANGED terminal
  /\ UNCHANGED <<server, mode, asked, seen, reviewed, guided, stop>>

SkipResponse ==
  /\ lpc \in {"await", "until"} /\ TakesFirst /\ First.type # "snapshot"
  /\ lpc = "await" => ~IsAnswer(First)
  /\ UNCHANGED <<server, client, inbox, stop>>

ReadEndOfFile ==
  /\ lpc \in {"await", "until"} /\ pipe = <<>> /\ ~Up
  /\ Raise
  /\ UNCHANGED <<server, mode, asked, seen, duty, pipe, stop>>

CallTimesOut ==
  /\ \/ lpc = "until"
     \/ lpc = "await" /\ (call \in Slow \/ StuckBehind)
  /\ Raise
  /\ UNCHANGED <<server, mode, asked, seen, duty, pipe, stop>>

\* pump: at most one message, whatever it is.
Pump ==
  \/ pipe = <<>> /\ Up /\ UNCHANGED <<pipe, latest>>
  \/ /\ TakesFirst
     /\ latest' = IF First.type = "snapshot" THEN First.snap ELSE latest

\* A step that only moves the program on.
Moves(p) == lpc' = p /\ UNCHANGED <<server, mode, asked, seen, pipe, stop>>

(***************************************************************************)
(* LandingProgram._fly up to the engagement, _create_plan and _review.     *)
(***************************************************************************)
Configure ==
  /\ lpc = "configure"
  /\ Calling("updateConfiguration", "updateConfiguration", Site)
  /\ UNCHANGED duty

OpenConnection ==
  /\ lpc = "connect"
  /\ Calling("connect", "connect", NoConf)
  /\ UNCHANGED duty

SeeConnection ==
  /\ lpc = "seen" /\ call = "connect"
  /\ \/ mode # "entry" /\ Moves("plan")
     \/ mode = "entry" /\ Calling("engage", "engageReentry", NoConf)
     \/ mode = "entry" /\ Moves("unwind")
  /\ UNCHANGED duty

\* The probe before the search may fail, as the hand-over of control before an
\* entry and a plan's qualification may; nothing below run catches that.
CreatePlan ==
  /\ lpc = "plan"
  /\ \/ ~(mode = "review" /\ stop) /\ Calling("createPlan", "createPlan", NoConf)
     \/ mode = "review" /\ Moves("unwind")
  /\ UNCHANGED duty

SeePlan ==
  /\ lpc = "seen" /\ call = "createPlan"
  /\ \/ /\ latest.phase = "Fault" \/ latest.failed
        /\ Moves("unwind") /\ UNCHANGED duty
     \/ /\ latest.phase # "Fault" /\ ~latest.failed
        /\ reviewed' = latest.plan
        /\ \/ mode = "direct" /\ Calling("engage", "engage", NoConf)
           \/ mode = "direct" /\ Moves("unwind")
           \/ mode = "review" /\ Moves(IF stop THEN "unwind" ELSE "review")
        /\ UNCHANGED <<guided, terminal>>

\* One message of the backend, or the end of its output.
PumpReview ==
  \/ /\ Pump
     /\ lpc' = (IF latest'.connected THEN "requests" ELSE "unwind")
     /\ UNCHANGED <<server, mode, asked, fresh, stop>>
  \/ pipe = <<>> /\ ~Up /\ Moves("unwind")

\* Mutation of ReviewPolls: the loop does not look at the stop event.
ReviewIgnoresStop == lpc = "review" /\ PumpReview /\ UNCHANGED duty

ReviewPolls ==
  /\ lpc = "review"
  /\ \/ stop /\ Moves("unwind")
     \/ ~stop /\ PumpReview
  /\ UNCHANGED duty

\* The operator's commands of one pass, each after the checks of the last.
NoMoreRequests == lpc = "requests" /\ Moves("review") /\ UNCHANGED duty

Execute ==
  /\ lpc = "requests" /\ ~stop /\ Spare
  /\ Calling("engage", "engage", NoConf)
  /\ UNCHANGED duty

Replan == lpc = "requests" /\ Spare /\ Moves("plan") /\ UNCHANGED duty

SeeEngagement ==
  /\ lpc = "seen" /\ call = "engage"
  /\ \/ /\ latest.engaged /\ latest.phase \notin Over
        /\ guided' = TRUE /\ Moves("fly")
     \/ /\ ~latest.engaged \/ latest.phase \in Over
        /\ Raise /\ UNCHANGED <<server, mode, asked, seen, pipe, stop, guided>>
  /\ UNCHANGED <<reviewed, terminal>>

(***************************************************************************)
(* The flight loop, and the finally block of LandingProgram.run.           *)
(***************************************************************************)
FlightPolls ==
  /\ lpc = "fly"
  /\ \/ stop /\ Calling("abort", "abort", NoConf)
     \/ ~stop /\ ~Up /\ Moves("unwind")
     \/ /\ ~stop /\ Up /\ Pump
        /\ lpc' = "flown"
        /\ UNCHANGED <<server, mode, asked, fresh, stop>>
  /\ UNCHANGED duty

SaveOnPhase ==
  /\ lpc = "flown" /\ Spare
  /\ Calling("saveCheckpoint", "saveCheckpoint", NoConf)
  /\ UNCHANGED duty

ToggleWarp ==
  /\ lpc = "flown" /\ Spare
  /\ Calling("updateConfiguration", "updateConfiguration", Site)
  /\ UNCHANGED duty

FlightGoesOn ==
  /\ lpc = "flown"
  /\ \/ latest.phase \in Over /\ terminal' = TRUE /\ Moves("unwind")
     \/ latest.phase \notin Over /\ Moves("fly") /\ UNCHANGED terminal
  /\ UNCHANGED <<reviewed, guided>>

FlightTimesOut ==
  /\ lpc = "flown" /\ latest.phase = "flying"
  /\ Moves("unwind") /\ UNCHANGED duty

Unwind ==
  /\ lpc = "unwind"
  /\ \/ Up /\ guided /\ ~terminal /\ Calling("release", "abort", NoConf)
     \/ ~(Up /\ guided /\ ~terminal) /\ Moves("shutdown")
  /\ UNCHANGED duty

\* Mutation of Shutdown: a client that does not guide only closes the pipes.
ShutdownWhenGuided ==
  /\ lpc = "shutdown"
  /\ \/ Up /\ guided /\ Calling("shutdown", "shutdown", NoConf)
     \/ ~(Up /\ guided) /\ Moves("close")
  /\ UNCHANGED duty

Shutdown ==
  /\ lpc = "shutdown"
  /\ \/ Up /\ Calling("shutdown", "shutdown", NoConf)
     \/ ~Up /\ Moves("close")
  /\ UNCHANGED duty

ClosePipes ==
  /\ lpc = "close"
  /\ lpc' = "closing" /\ pipe' = <<>>
  /\ UNCHANGED <<server, mode, asked, seen, duty, stop>>

\* Either the process has ended, or terminate and kill end it.
Wait ==
  /\ lpc = "closing"
  /\ lpc' = "done"
  /\ down' = (down \/ Alive)
  /\ UNCHANGED <<vars, serving, mode, asked, seen, duty, pipe, stop>>

OperatorStops ==
  /\ ~stop /\ lpc # "done"
  /\ stop' = TRUE
  /\ UNCHANGED <<server, client, inbox, pipe>>

LinkInit ==
  /\ Init
  /\ mode \in Modes /\ lpc = "configure" /\ call = "updateConfiguration"
  /\ sent = 0 /\ serving = 0 /\ inbox = <<>> /\ pipe = <<>>
  /\ latest = NoSnapshot /\ fresh = FALSE /\ reviewed = NoTask
  /\ guided = FALSE /\ terminal = FALSE /\ stop = FALSE /\ down = FALSE

ClientStep ==
  \/ ReadSnapshot \/ ReadResponse \/ SkipResponse \/ ReadEndOfFile
  \/ Configure \/ OpenConnection \/ SeeConnection \/ CreatePlan \/ SeePlan
  \/ ReviewPolls \/ NoMoreRequests \/ SeeEngagement \/ FlightPolls \/ FlightGoesOn
  \/ Unwind \/ Shutdown \/ ClosePipes

Operator == OperatorStops \/ Execute \/ Replan \/ SaveOnPhase \/ ToggleWarp

LinkNext ==
  \/ ClientStep \/ CallTimesOut \/ FlightTimesOut \/ Wait \/ Operator
  \/ ServerReceives \/ ServerStep \/ BackendDies

LinkSpec == LinkInit /\ [][LinkNext]_lvars

\* The client's thread runs, its timeouts expire, and the server is fair to its
\* own steps; operators, searches and flights owe nothing.
LinkFairness ==
  /\ WF_lvars(ClientStep) /\ WF_lvars(CallTimesOut) /\ WF_lvars(Wait)
  /\ WF_lvars(ServerReceives) /\ WF_lvars(Serve(Handler))

FairLinkSpec == LinkSpec /\ LinkFairness

(***************************************************************************)
(* Safety.                                                                 *)
(***************************************************************************)
Guiding == engaged \/ \E e \in Epochs : Flying(e)

\* A client that holds its flight for over, because it read a final phase or an
\* acknowledged abort, is right: what it engaged flies no more, or has reported the
\* stop on the runway and is about to return (_LandingState.terminal).
TerminalMeansOver == terminal => ~Guiding \/ phase = "Complete"

\* A backend that is killed at the end of a run while it flies has a stop request
\* that it did not get through in time; it is never killed unasked
\* (BackendClient.shutdown).
AskedBeforeKilled ==
  [][lpc = "closing" /\ lpc' = "done" /\ Up /\ Guiding =>
       \/ req.method \in StopMethods
       \/ \E i \in 1..Len(inbox) : inbox[i].method \in StopMethods]_lvars

(***************************************************************************)
(* What the documentation says.                                            *)
(***************************************************************************)
\* What flies after a review is the plan that was reviewed.
ReviewedPlanFlown ==
  \A e \in Epochs : Flying(e) /\ mode = "review" => tasks[e].plan.id = reviewed

\* As long as a plan is held for review, guidance is disengaged.
ReviewDisengaged == lpc = "review" => ~Guiding

\* A change of the auto-warp setting in flight is followed, not refused.
ToggleFollowed ==
  lpc = "await" /\ call = "updateConfiguration" /\ guided /\ latest.phase = "flying"
  /\ pipe # <<>> /\ IsAnswer(First) => First.type = "ok"

(***************************************************************************)
(* Liveness, under FairLinkSpec.                                           *)
(***************************************************************************)
\* An operator's stop ends the run, whatever the backend does.
StopEndsRun == stop ~> lpc = "done"
=============================================================================
