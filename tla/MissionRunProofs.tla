-------------------------- MODULE MissionRunProofs --------------------------
(***************************************************************************)
(* What holds of a mission run for every set of requests and every number  *)
(* of plans.  The three safety properties of MissionRun are not inductive  *)
(* by themselves; IInv adds what the main thread knows at each of its      *)
(* steps: which requests it holds, what they name, and whether the backend *)
(* may be flying.                                                          *)
(***************************************************************************)
EXTENDS MissionRun, FiniteSetTheorems, TLAPS

\* Steps that follow the publication of a plan and precede the next one.
UnderReview == {"ackReplan", "review", "handle", "replan", "recheck", "engage",
                "ackEngage", "takeOver", "flying"}

\* Steps before the landing program has a backend.
Early == {"claim", "prepare", "loading", "precheck", "program"}

\* Steps after run_programs has returned.
Ended == {"unclaim", "join", "drain", "reject", "sweep", "closed"}

\* The requests the threads hold are files, whose content no operator can
\* still replace.
HeldRequestsFiled ==
  /\ todo \subseteq Filed /\ mtodo \subseteq Filed
  /\ active # NoCommand => active \in Filed
  /\ replanning # NoCommand => replanning \in Filed
  /\ orderedBy # NoCommand => orderedBy \in Filed

\* What main knows of the request it is executing.
ActiveRequest ==
  /\ pc \in {"replan", "recheck", "engage", "ackEngage"} => active \in Commands
  /\ pc \in {"recheck", "engage"} =>
       cmd[active].action = "execute-plan" /\ cmd[active].rev = plans
  /\ pc = "ackReplan" => replanning \in Commands

DisplayedPlan ==
  /\ pc \in UnderReview => status.rev = plans
  /\ status.rev \in {0, plans}

\* No plan is made while the backend flies, so the plan it was ordered to fly is the
\* last one.
OrderKept ==
  /\ orderedBy # NoCommand =>
       cmd[orderedBy].action = "execute-plan" /\ cmd[orderedBy].rev = orderedRev
  /\ engaged => orderedBy # NoCommand /\ orderedRev = plans

\* Where the backend may fly: from the review to the shutdown, and after a crash or
\* an interrupted release.
ReleaseDue ==
  /\ engaged /\ ~cut => pc \notin Early \cup {"finish"} \cup Ended
  /\ cut => pc \in Ended \cup {"dead"} /\ status.state \in {"aborted", "failed"}
  /\ status.state \in Finished => pc \in Ended \cup {"dead"}
  /\ status.state \in Finished /\ engaged => cut

Control == ActiveRequest /\ DisplayedPlan /\ OrderKept /\ ReleaseDue

IInv == TypeOK /\ HeldRequestsFiled /\ Control

(***************************************************************************)
(* The end of a run whose monitor is really gone after the join.           *)
(***************************************************************************)
JoinedOrRunning ==
  pc \in {"drain", "reject", "sweep", "closed"} => mpc = "off"

SweepCoversOpen ==
  pc = "sweep" =>
    \A r \in Commands : cmd[r].state \in {"accepted", "running"} => r \in todo

Settled == JoinedOrRunning /\ SweepCoversOpen /\ NothingLeftOpen
(***************************************************************************)
(* The operators the actions are built from keep the types.                *)
(***************************************************************************)
\* Answering a request keeps the request files well-formed.
LEMMA AnswerType ==
  ASSUME cmd \in [Commands -> Request], NEW r, NEW s \in RequestStates,
         Answer(r, s)
  PROVE  cmd' \in [Commands -> Request]
  <1>1. ASSUME NEW q \in Commands PROVE cmd'[q] \in Request
    <2>1. cmd[q] \in Request  OBVIOUS
    <2>2. [cmd[q] EXCEPT !.state = s] \in Request
      BY <2>1 DEF Request
    <2> QED BY <2>1, <2>2 DEF Answer
  <1> QED BY <1>1 DEF Answer

\* Ending a run with a final state keeps status.json well-formed.
LEMMA FinishType ==
  ASSUME status \in Status, NEW s \in Finished, Finish(s)
  PROVE  status' \in Status /\ pc' \in MainSteps
  <1>1. s \in {"ready", "running"} \cup Finished /\ "finished" \in Stages
    BY DEF Stages
  <1> QED BY <1>1 DEF Finish, Status, MainSteps

\* Announcing a stage keeps status.json well-formed.
LEMMA StageType ==
  ASSUME status \in Status, NEW s \in Stages, Stage(s)
  PROVE  status' \in Status
  BY DEF Stage, Status

\* Leaving the program keeps the outcome and the next step well-formed.
LEMMA LeaveType ==
  ASSUME NEW o \in Finished, Leave(o) \/ LeaveFlight(o)
  PROVE  outcome' \in Finished /\ pc' \in MainSteps
  BY DEF Leave, LeaveFlight, MainSteps

\* Both threads only ever add to the files, or change the state of one.
LEMMA FiledGrows ==
  ASSUME cmd \in [Commands -> Request], NEW r, NEW s \in FileStates,
         Answer(r, s)
  PROVE  /\ Filed \subseteq Filed'
         /\ \A q \in Commands : /\ cmd'[q].action = cmd[q].action
                               /\ cmd'[q].rev = cmd[q].rev
  <1>1. \A q \in Commands : cmd[q] \in Request  OBVIOUS
  <1>2. \A q \in Commands :
          cmd'[q] = IF q = r THEN [cmd[q] EXCEPT !.state = s] ELSE cmd[q]
    BY DEF Answer
  <1> QED BY <1>1, <1>2 DEF Filed, Request

\* The final word on a file is a state a file can have.
LEMMA FinalStateType ==
  ASSUME NEW c \in Request, c.state \in FileStates
  PROVE  FinalState(c) \in FileStates
  BY DEF FinalState, FileStates, Answers

\* Publishing the next revision keeps status.json well-formed.
LEMMA PlanPublished ==
  ASSUME status \in Status, plans \in 0..MaxPlans, plans < MaxPlans
  PROVE  [status EXCEPT !.stage = "review", !.rev = plans + 1] \in Status
  <1>1. plans + 1 \in 0..MaxPlans  BY RunAssumption
  <1>2. "review" \in Stages  BY DEF Stages
  <1> QED BY <1>1, <1>2 DEF Status

\* Withdrawing the displayed revision keeps status.json well-formed.
LEMMA PlanWithdrawn ==
  ASSUME status \in Status
  PROVE  [status EXCEPT !.stage = "planning", !.rev = 0] \in Status
  <1>1. 0 \in 0..MaxPlans  BY RunAssumption
  <1>2. "planning" \in Stages  BY DEF Stages
  <1> QED BY <1>1, <1>2 DEF Status

\* Starting the run keeps status.json well-formed.
LEMMA RunStarted ==
  ASSUME status \in Status
  PROVE  [status EXCEPT !.state = "running", !.stage = "preparing"] \in Status
  <1>1. "running" \in {"ready", "running"} \cup Finished /\ "preparing" \in Stages
    BY DEF Stages
  <1> QED BY <1>1 DEF Status


\* Every step keeps the variables in their types.
LEMMA TypeStep ==
  ASSUME IInv, Next PROVE TypeOK'
  <1> USE RunAssumption
      DEF IInv, TypeOK, mainVars, monitorVars, others, flight, reviewing,
        MainSteps, MonitorSteps
  <1>1. ASSUME NEW r \in Commands, NEW a \in Actions, NEW v \in 0..plans,
    Submit(r, a, v) PROVE TypeOK'
    BY <1>1 DEF Submit, Request, RequestStates, FileStates
  <1>2. ASSUME NEW r \in Commands, WriteRequest(r) PROVE TypeOK'
    <2>1. Cardinality(Filed) \in Nat
      <3>1. Filed \subseteq Commands
        BY DEF Filed
      <3> QED BY <3>1, RunAssumption, FS_CardinalityType, FS_Subset
    <2>2. cmd[r] \in Request
      OBVIOUS
    <2>3. [cmd[r] EXCEPT !.state = "requested", !.stamp = Cardinality(Filed)]
            \in Request
      BY <2>1, <2>2 DEF Request, RequestStates, FileStates
    <2>4. cmd' \in [Commands -> Request]
      BY <1>2, <2>3 DEF WriteRequest
    <2> QED BY <1>2, <2>4 DEF WriteRequest
  <1>3. CASE OperatorAbort
    BY <1>3 DEF OperatorAbort, Abort
  <1>4. CASE MonitorPoll
    BY <1>4 DEF MonitorPoll, Pending, MonitorDone
  <1>5. CASE MonitorRest
    BY <1>5 DEF MonitorRest
  <1>6. CASE MonitorExit
    BY <1>6 DEF MonitorExit, MonitorDone
  <1>7. ASSUME NEW r \in Commands, MonitorAccept(r) PROVE TypeOK'
    BY <1>7, AnswerType DEF MonitorAccept, RequestStates, FileStates, Answers
  <1>8. ASSUME NEW r \in Commands, MonitorAbort(r) PROVE TypeOK'
    BY <1>8 DEF MonitorAbort, Abort
  <1>9. ASSUME NEW r \in Commands, MonitorJudge(r) PROVE TypeOK'
    BY <1>9 DEF MonitorJudge
  <1>10. ASSUME NEW r \in Commands, MonitorTurnDown(r) PROVE TypeOK'
    BY <1>10, AnswerType DEF MonitorTurnDown, RequestStates, FileStates, Answers
  <1>11. CASE ClaimEndpoint
    BY <1>11, FinishType, RunStarted DEF ClaimEndpoint, Finished
  <1>12. CASE BeginLoad
    BY <1>12, StageType DEF BeginLoad, Stages
  <1>13. CASE LoadSave
    BY <1>13, FinishType DEF LoadSave, Finished
  <1>14. CASE Precheck
    BY <1>14, FinishType, StageType DEF Precheck, Finished, Stages
  <1>15. CASE StartProgram
    BY <1>15, FinishType DEF StartProgram, Finished
  <1>16. CASE BeginPlan
    BY <1>16, LeaveType, PlanWithdrawn DEF BeginPlan, Finished
  <1>17. CASE PlanFails
    BY <1>17, LeaveType DEF PlanFails, Finished
  <1>18. CASE PlanReady
    BY <1>18, LeaveType, PlanPublished DEF PlanReady, Finished
  <1>19. CASE AckReplan
    BY <1>19, AnswerType DEF AckReplan, RequestStates, FileStates, Answers
  <1>20. CASE ReviewPoll
    BY <1>20, LeaveType DEF ReviewPoll, Pending, Finished
  <1>21. CASE AllHandled
    BY <1>21 DEF AllHandled
  <1>22. CASE Replan
    BY <1>22, AnswerType DEF Replan, RequestStates, FileStates, Answers
  <1>23. CASE Recheck
    BY <1>23, AnswerType DEF Recheck, TurnDownActive, RequestStates,
      FileStates, Answers
  <1>24. CASE EngageBackend
    <2>1. /\ engaged' \in BOOLEAN /\ cut' \in BOOLEAN
          /\ orderedBy' \in Commands \cup {NoCommand} /\ orderedRev' \in 0..MaxPlans
      BY <1>24 DEF EngageBackend, Accepted
    <2>2. /\ pc' \in MainSteps /\ outcome' \in Finished
          /\ active' \in Commands \cup {NoCommand}
      BY <1>24 DEF EngageBackend, TurnDownActive, Leave, Finished
    <2>3. cmd' \in [Commands -> Request]
      BY <1>24, AnswerType DEF EngageBackend, TurnDownActive, RequestStates,
        FileStates, Answers
    <2> QED BY <1>24, <2>1, <2>2, <2>3 DEF EngageBackend
  <1>25. CASE AckEngage
    BY <1>25, AnswerType DEF AckEngage, RequestStates, FileStates, Answers
  <1>26. CASE TakeOver
    BY <1>26, StageType DEF TakeOver, Stages
  <1>27. ASSUME NEW r \in Commands, HandleRequest(r) PROVE TypeOK'
    BY <1>27, AnswerType DEF HandleRequest, RequestStates, FileStates, Answers
  <1>28. CASE FlightStopped
    BY <1>28, LeaveType DEF FlightStopped, Finished
  <1>29. CASE Release
    BY <1>29 DEF Release
  <1>30. CASE Unclaim
    <2>1. [status EXCEPT !.state = "failed", !.stage = "finished"] \in Status
      BY DEF Status, Stages, Finished
    <2> QED BY <1>30, <2>1 DEF Unclaim
  <1>31. CASE JoinMonitor
    BY <1>31 DEF JoinMonitor
  <1>32. CASE Drain
    BY <1>32 DEF Drain, Pending
  <1>33. CASE ListFiles
    BY <1>33 DEF ListFiles, Filed
  <1>34. CASE Close
    BY <1>34 DEF Close
  <1>35. ASSUME NEW r \in Commands, RejectPending(r) PROVE TypeOK'
    BY <1>35, AnswerType DEF RejectPending, RequestStates, FileStates, Answers
  <1>36. ASSUME NEW r \in Commands, Sweep(r) PROVE TypeOK'
    BY <1>36, AnswerType, FinalStateType DEF Sweep, HeldRequestsFiled, Filed,
      RequestStates, FileStates, Answers
  <1>37. CASE FlightEnds
    BY <1>37, LeaveType DEF FlightEnds, Finished
  <1>38. CASE Crash
    BY <1>38 DEF Crash, Die
  <1>39. CASE GoStale
    BY <1>39 DEF GoStale
  <1>40. CASE FinishRun
    BY <1>40, FinishType DEF FinishRun
  <1>41. CASE Shutdown
    BY <1>41 DEF Shutdown
  <1>42. CASE InterruptPreparation
    BY <1>42 DEF InterruptPreparation
  <1>43. CASE InterruptProgram
    BY <1>43, LeaveType DEF InterruptProgram, Accepted, Finished
  <1>44. CASE InterruptRelease
    BY <1>44, FinishType DEF InterruptRelease, Finished
  <1>45. CASE InterruptFinish
    BY <1>45, FinishType DEF InterruptFinish, Finished
  <1>46. CASE InterruptEnding
    BY <1>46 DEF InterruptEnding, Die
  <1>47. CASE BackendRests
    <2>1. pc' \in MainSteps /\ engaged' \in BOOLEAN
      BY <1>47 DEF BackendRests
    <2> QED BY <1>47, <2>1 DEF BackendRests
  <1>48. CASE BackendReadsEof
    <2>1. pc' \in MainSteps /\ engaged' \in BOOLEAN
      BY <1>48 DEF BackendReadsEof
    <2> QED BY <1>48, <2>1 DEF BackendReadsEof
  <1> QED BY <1>1, <1>2, <1>3, <1>4, <1>5, <1>6, <1>7, <1>8, <1>9, <1>10,
    <1>11, <1>12, <1>13, <1>14, <1>15, <1>16, <1>17, <1>18, <1>19, <1>20,
    <1>21, <1>22, <1>23, <1>24, <1>25, <1>26, <1>27, <1>28, <1>29, <1>30,
    <1>31, <1>32, <1>33, <1>34, <1>35, <1>36, <1>37, <1>38, <1>39,
    <1>40, <1>41, <1>42, <1>43, <1>44, <1>45, <1>46, <1>47, <1>48
    DEF Next, Operators, Monitor, Main, Prepare, Review, Ending, Interrupt,
        Backend

\* No step lets a thread hold a request that is not a file, because files are
\* never removed.
LEMMA HeldStep ==
  ASSUME IInv, Next PROVE HeldRequestsFiled'
  <1> USE DEF IInv, TypeOK, HeldRequestsFiled, mainVars, monitorVars, others,
    flight, reviewing
  <1>1. ASSUME NEW r \in Commands, NEW a \in Actions, NEW v \in 0..plans,
    Submit(r, a, v) PROVE HeldRequestsFiled'
    <2>1. \A q \in Commands : cmd[q].state # "absent" => cmd'[q] = cmd[q]
      BY <1>1 DEF Submit
    <2>2. Filed \subseteq Filed'
      BY <2>1 DEF Filed, FileStates, Answers
    <2> QED BY <1>1, <2>2 DEF Submit
  <1>2. ASSUME NEW r \in Commands, WriteRequest(r) PROVE HeldRequestsFiled'
    BY <1>2 DEF WriteRequest, FileStates, Filed
  <1>3. CASE OperatorAbort
    BY <1>3 DEF OperatorAbort, Abort, Filed
  <1>4. CASE MonitorPoll
    BY <1>4 DEF MonitorPoll, Pending, FileStates, Filed
  <1>5. CASE MonitorRest
    BY <1>5 DEF MonitorRest, Filed
  <1>6. CASE MonitorExit
    BY <1>6 DEF MonitorExit, Filed
  <1>7. ASSUME NEW r \in Commands, MonitorAccept(r) PROVE HeldRequestsFiled'
    BY <1>7, FiledGrows DEF MonitorAccept, FileStates, Answers
  <1>8. ASSUME NEW r \in Commands, MonitorAbort(r) PROVE HeldRequestsFiled'
    BY <1>8 DEF MonitorAbort, Abort, Filed
  <1>9. ASSUME NEW r \in Commands, MonitorJudge(r) PROVE HeldRequestsFiled'
    BY <1>9 DEF MonitorJudge, Filed
  <1>10. ASSUME NEW r \in Commands, MonitorTurnDown(r) PROVE HeldRequestsFiled'
    BY <1>10, FiledGrows DEF MonitorTurnDown, FileStates, Answers
  <1>11. CASE ClaimEndpoint
    BY <1>11 DEF ClaimEndpoint, Finish, Filed
  <1>12. CASE BeginLoad
    BY <1>12 DEF BeginLoad, Stage, Filed
  <1>13. CASE LoadSave
    BY <1>13 DEF LoadSave, Finish, Filed
  <1>14. CASE Precheck
    BY <1>14 DEF Precheck, Finish, Stage, Filed
  <1>15. CASE StartProgram
    BY <1>15 DEF StartProgram, Finish, Filed
  <1>16. CASE BeginPlan
    BY <1>16 DEF BeginPlan, Leave, Filed
  <1>17. CASE PlanFails
    BY <1>17 DEF PlanFails, Leave, Filed
  <1>18. CASE PlanReady
    BY <1>18 DEF PlanReady, Leave, Filed
  <1>19. CASE AckReplan
    BY <1>19, FiledGrows DEF AckReplan, FileStates, Answers
  <1>20. CASE ReviewPoll
    BY <1>20 DEF ReviewPoll, Leave, Pending, FileStates, Filed
  <1>21. CASE AllHandled
    BY <1>21 DEF AllHandled, Filed
  <1>22. CASE Replan
    BY <1>22, FiledGrows DEF Replan, FileStates, Answers
  <1>23. CASE Recheck
    <2>1. CASE UNCHANGED cmd
      BY <1>23, <2>1 DEF Recheck, Leave, TurnDownActive, Filed
    <2>2. CASE TurnDownActive
      <3>1. Filed \subseteq Filed'
        BY <2>2, FiledGrows DEF TurnDownActive, FileStates, Answers
      <3>2. active' = NoCommand /\ UNCHANGED <<todo, mtodo, replanning, orderedBy>>
        BY <1>23, <2>2, RunAssumption DEF Recheck, TurnDownActive, Leave,
          Control, ActiveRequest
      <3> QED BY <3>1, <3>2
    <2> QED BY <1>23, <2>1, <2>2 DEF Recheck
  <1>24. CASE EngageBackend
    <2>1. CASE UNCHANGED cmd
      BY <1>24, <2>1 DEF EngageBackend, Accepted, Leave, TurnDownActive, Filed
    <2>2. CASE TurnDownActive
      <3>1. Filed \subseteq Filed'
        BY <2>2, FiledGrows DEF TurnDownActive, FileStates, Answers
      <3>2. /\ active' = NoCommand /\ UNCHANGED <<todo, mtodo, replanning>>
            /\ orderedBy' \in {orderedBy, active}
        BY <1>24, <2>2 DEF EngageBackend, Accepted, TurnDownActive, Leave
      <3>3. active \in Filed
        BY <1>24, RunAssumption DEF EngageBackend, Control, ActiveRequest
      <3> QED BY <3>1, <3>2, <3>3
    <2> QED BY <1>24, <2>1, <2>2 DEF EngageBackend
  <1>25. CASE AckEngage
    BY <1>25, FiledGrows DEF AckEngage, FileStates, Answers
  <1>26. CASE TakeOver
    BY <1>26 DEF TakeOver, Stage, Filed
  <1>27. ASSUME NEW r \in Commands, HandleRequest(r) PROVE HeldRequestsFiled'
    <2>1. Filed \subseteq Filed'
      BY <1>27, FiledGrows DEF HandleRequest, FileStates, Answers, Filed
    <2>2. active' \in {active, r} /\ r \in todo /\ todo' \subseteq todo
      BY <1>27 DEF HandleRequest, IsOldest
    <2> QED BY <1>27, <2>1, <2>2 DEF HandleRequest
  <1>28. CASE FlightStopped
    BY <1>28 DEF FlightStopped, Leave, LeaveFlight, Filed
  <1>29. CASE Release
    BY <1>29 DEF Release, Filed
  <1>30. CASE Unclaim
    BY <1>30 DEF Unclaim, Filed
  <1>31. CASE JoinMonitor
    BY <1>31 DEF JoinMonitor, Filed
  <1>32. CASE Drain
    BY <1>32 DEF Drain, Pending, FileStates, Filed
  <1>33. CASE ListFiles
    BY <1>33 DEF ListFiles, Filed
  <1>34. CASE Close
    BY <1>34 DEF Close, Filed
  <1>35. ASSUME NEW r \in Commands, RejectPending(r) PROVE HeldRequestsFiled'
    BY <1>35, FiledGrows DEF RejectPending, FileStates, Answers
  <1>36. ASSUME NEW r \in Commands, Sweep(r) PROVE HeldRequestsFiled'
    BY <1>36, FiledGrows, FinalStateType DEF Sweep, FileStates, Answers, Filed
  <1>37. CASE FlightEnds
    BY <1>37 DEF FlightEnds, Leave, LeaveFlight, Filed
  <1>38. CASE Crash
    BY <1>38 DEF Crash, Die, Filed
  <1>39. CASE GoStale
    BY <1>39 DEF GoStale, Filed
  <1>40. CASE FinishRun
    BY <1>40 DEF FinishRun, Finish, Filed
  <1>41. CASE Shutdown
    BY <1>41 DEF Shutdown, Filed
  <1>42. CASE InterruptPreparation
    BY <1>42 DEF InterruptPreparation, Filed
  <1>43. CASE InterruptProgram
    BY <1>43 DEF InterruptProgram, Accepted, Leave, LeaveFlight, Filed
  <1>44. CASE InterruptRelease
    BY <1>44 DEF InterruptRelease, Finish, Filed
  <1>45. CASE InterruptFinish
    BY <1>45 DEF InterruptFinish, Finish, Filed
  <1>46. CASE InterruptEnding
    BY <1>46 DEF InterruptEnding, Die, Filed
  <1>47. CASE BackendRests
    BY <1>47 DEF BackendRests, Filed
  <1>48. CASE BackendReadsEof
    BY <1>48 DEF BackendReadsEof, Filed
  <1> QED BY <1>1, <1>2, <1>3, <1>4, <1>5, <1>6, <1>7, <1>8, <1>9, <1>10,
    <1>11, <1>12, <1>13, <1>14, <1>15, <1>16, <1>17, <1>18, <1>19, <1>20,
    <1>21, <1>22, <1>23, <1>24, <1>25, <1>26, <1>27, <1>28, <1>29, <1>30,
    <1>31, <1>32, <1>33, <1>34, <1>35, <1>36, <1>37, <1>38, <1>39,
    <1>40, <1>41, <1>42, <1>43, <1>44, <1>45, <1>46, <1>47, <1>48
    DEF Next, Operators, Monitor, Main, Prepare, Review, Ending, Interrupt,
        Backend

\* Every step keeps what main knows at its next step: the request it executes
\* names the plan under review, and engagement belongs to the flight steps.
LEMMA ControlStep ==
  ASSUME IInv, Next PROVE Control'
  <1> USE RunAssumption
      DEF IInv, TypeOK, Control, ActiveRequest, DisplayedPlan, OrderKept,
          ReleaseDue, HeldRequestsFiled, UnderReview, Early, Ended,
          mainVars, monitorVars, others, flight, reviewing
  <1>1. ASSUME NEW r \in Commands, NEW a \in Actions, NEW v \in 0..plans,
    Submit(r, a, v) PROVE Control'
    BY <1>1 DEF Submit, Filed, FileStates, Answers
  <1>2. ASSUME NEW r \in Commands, WriteRequest(r) PROVE Control'
    BY <1>2 DEF WriteRequest, Filed, FileStates, Answers
  <1>3. CASE OperatorAbort
    BY <1>3 DEF OperatorAbort, Abort, Finished
  <1>4. CASE MonitorPoll
    BY <1>4 DEF MonitorPoll, MonitorDone
  <1>5. CASE MonitorRest
    BY <1>5 DEF MonitorRest
  <1>6. CASE MonitorExit
    BY <1>6 DEF MonitorExit, MonitorDone
  <1>7. ASSUME NEW r \in Commands, MonitorAccept(r) PROVE Control'
    BY <1>7, FiledGrows DEF MonitorAccept, FileStates, Answers
  <1>8. ASSUME NEW r \in Commands, MonitorAbort(r) PROVE Control'
    BY <1>8 DEF MonitorAbort, Abort, Finished
  <1>9. ASSUME NEW r \in Commands, MonitorJudge(r) PROVE Control'
    BY <1>9 DEF MonitorJudge
  <1>10. ASSUME NEW r \in Commands, MonitorTurnDown(r) PROVE Control'
    BY <1>10, FiledGrows DEF MonitorTurnDown, FileStates, Answers
  <1>11. CASE ClaimEndpoint
    BY <1>11 DEF ClaimEndpoint, Finish, Finished, Status
  <1>12. CASE BeginLoad
    BY <1>12 DEF BeginLoad, Stage, Status, Finished
  <1>13. CASE LoadSave
    BY <1>13 DEF LoadSave, Finish, Finished, Status
  <1>14. CASE Precheck
    BY <1>14 DEF Precheck, Finish, Stage, Finished, Status
  <1>15. CASE StartProgram
    BY <1>15 DEF StartProgram, Finish, Finished, Status
  <1>16. CASE BeginPlan
    BY <1>16 DEF BeginPlan, Leave, Status, Finished
  <1>17. CASE PlanFails
    BY <1>17 DEF PlanFails, Leave
  <1>18. CASE PlanReady
    BY <1>18 DEF PlanReady, Leave, Status, Finished
  <1>19. CASE AckReplan
    BY <1>19, FiledGrows DEF AckReplan, FileStates, Answers
  <1>20. CASE ReviewPoll
    BY <1>20 DEF ReviewPoll, Leave
  <1>21. CASE AllHandled
    BY <1>21 DEF AllHandled
  <1>22. CASE Replan
    BY <1>22, FiledGrows DEF Replan, FileStates, Answers
  <1>23. CASE Recheck
    <2>1. CASE UNCHANGED cmd
      BY <1>23, <2>1 DEF Recheck, Leave, TurnDownActive
    <2>2. CASE TurnDownActive
      <3>1. \A q \in Commands : cmd'[q].action = cmd[q].action /\ cmd'[q].rev = cmd[q].rev
        BY <2>2, FiledGrows DEF TurnDownActive, FileStates, Answers
      <3>2. pc = "recheck" /\ pc' = "handle"
        BY <1>23, <2>2 DEF Recheck, TurnDownActive
      <3>3. UNCHANGED <<flight, plans, status>>
        BY <1>23, <2>2, <3>2 DEF Recheck, TurnDownActive, Leave
      <3> QED BY <3>1, <3>2, <3>3
    <2> QED BY <1>23, <2>1, <2>2 DEF Recheck
  <1>24. CASE EngageBackend
    <2>1. CASE UNCHANGED cmd
      BY <1>24, <2>1 DEF EngageBackend, Accepted, Leave, TurnDownActive
    <2>2. CASE TurnDownActive
      <3>1. \A q \in Commands : cmd'[q].action = cmd[q].action /\ cmd'[q].rev = cmd[q].rev
        BY <2>2, FiledGrows DEF TurnDownActive, FileStates, Answers
      <3>2. pc = "engage" /\ pc' = "handle" /\ active \in Commands /\ ~cut
        BY <1>24, <2>2 DEF EngageBackend, TurnDownActive
      <3>3. UNCHANGED <<plans, status, cut>>
        BY <1>24, <2>2, <3>2 DEF EngageBackend, TurnDownActive, Leave
      <3>4. \/ UNCHANGED <<engaged, orderedBy, orderedRev>>
            \/ orderedBy' = active /\ orderedRev' = plans
        BY <1>24 DEF EngageBackend, Accepted
      <3> QED BY <3>1, <3>2, <3>3, <3>4
    <2> QED BY <1>24, <2>1, <2>2 DEF EngageBackend
  <1>25. CASE AckEngage
    BY <1>25, FiledGrows DEF AckEngage, FileStates, Answers
  <1>26. CASE TakeOver
    BY <1>26 DEF TakeOver, Stage, Status, Finished
  <1>27. ASSUME NEW r \in Commands, HandleRequest(r) PROVE Control'
    <2>1. /\ \A q \in Commands : cmd'[q].action = cmd[q].action /\ cmd'[q].rev = cmd[q].rev
          /\ pc = "handle" /\ plans' = plans /\ status' = status
      BY <1>27, FiledGrows DEF HandleRequest, FileStates, Answers
    <2>2. UNCHANGED <<engaged, orderedBy, orderedRev, cut>>
      BY <1>27 DEF HandleRequest
    <2>3. CASE UNCHANGED <<pc, active>>
      BY <2>1, <2>2, <2>3
    <2>4. CASE /\ cmd[r].action # "abort" /\ cmd[r].rev = plans /\ active' = r
               /\ pc' = IF cmd[r].action = "replan" THEN "replan" ELSE "recheck"
      <3>1. cmd[r] \in Request  OBVIOUS
      <3> QED BY <2>1, <2>2, <2>4, <3>1 DEF Request, Actions
    <2> QED BY <1>27, <2>3, <2>4 DEF HandleRequest
  <1>28. CASE FlightStopped
    BY <1>28 DEF FlightStopped, Leave, LeaveFlight
  <1>29. CASE Release
    BY <1>29 DEF Release
  <1>30. CASE Unclaim
    BY <1>30 DEF Unclaim, Status, Finished
  <1>31. CASE JoinMonitor
    BY <1>31 DEF JoinMonitor
  <1>32. CASE Drain
    BY <1>32 DEF Drain
  <1>33. CASE ListFiles
    BY <1>33 DEF ListFiles
  <1>34. CASE Close
    BY <1>34 DEF Close
  <1>35. ASSUME NEW r \in Commands, RejectPending(r) PROVE Control'
    BY <1>35, FiledGrows DEF RejectPending, FileStates, Answers
  <1>36. ASSUME NEW r \in Commands, Sweep(r) PROVE Control'
    BY <1>36, FiledGrows, FinalStateType DEF Sweep, FileStates, Answers,
      HeldRequestsFiled, Filed
  <1>37. CASE FlightEnds
    BY <1>37 DEF FlightEnds, Leave, LeaveFlight
  <1>38. CASE Crash
    BY <1>38 DEF Crash, Die, Finished
  <1>39. CASE GoStale
    BY <1>39 DEF GoStale, Finished
  <1>40. CASE FinishRun
    BY <1>40 DEF FinishRun, Finish, Finished, Status
  <1>41. CASE Shutdown
    BY <1>41 DEF Shutdown
  <1>42. CASE InterruptPreparation
    BY <1>42 DEF InterruptPreparation
  <1>43. CASE InterruptProgram
    BY <1>43 DEF InterruptProgram, Accepted, Leave, LeaveFlight
  <1>44. CASE InterruptRelease
    BY <1>44 DEF InterruptRelease, Finish, Finished, Status
  <1>45. CASE InterruptFinish
    BY <1>45 DEF InterruptFinish, Finish, Finished, Status
  <1>46. CASE InterruptEnding
    BY <1>46 DEF InterruptEnding, Die
  <1>47. CASE BackendRests
    BY <1>47 DEF BackendRests
  <1>48. CASE BackendReadsEof
    BY <1>48 DEF BackendReadsEof
  <1> QED BY <1>1, <1>2, <1>3, <1>4, <1>5, <1>6, <1>7, <1>8, <1>9, <1>10,
    <1>11, <1>12, <1>13, <1>14, <1>15, <1>16, <1>17, <1>18, <1>19, <1>20,
    <1>21, <1>22, <1>23, <1>24, <1>25, <1>26, <1>27, <1>28, <1>29, <1>30,
    <1>31, <1>32, <1>33, <1>34, <1>35, <1>36, <1>37, <1>38, <1>39,
    <1>40, <1>41, <1>42, <1>43, <1>44, <1>45, <1>46, <1>47, <1>48
    DEF Next, Operators, Monitor, Main, Prepare, Review, Ending, Interrupt,
        Backend


\* After a real join only main touches the files; the sweep then leaves none
\* of them open.
LEMMA SettledStep ==
  ASSUME IInv, Settled, ~JoinMayTimeOut, Next PROVE Settled'
  <1> USE RunAssumption
      DEF IInv, TypeOK, Settled, NothingLeftOpen, JoinedOrRunning,
        SweepCoversOpen,
          mainVars, monitorVars, others, flight, reviewing
  <1>1. ASSUME NEW r \in Commands, NEW a \in Actions, NEW v \in 0..plans,
    Submit(r, a, v) PROVE Settled'
    BY <1>1 DEF Submit, Filed, FileStates, Answers, Answer
  <1>2. ASSUME NEW r \in Commands, WriteRequest(r) PROVE Settled'
    BY <1>2 DEF WriteRequest, Filed, FileStates, Answers, Answer
  <1>3. CASE OperatorAbort
    BY <1>3 DEF OperatorAbort
  <1>4. CASE MonitorPoll
    BY <1>4 DEF MonitorPoll, MonitorDone
  <1>5. CASE MonitorRest
    BY <1>5 DEF MonitorRest
  <1>6. CASE MonitorExit
    BY <1>6 DEF MonitorExit, MonitorDone
  <1>7. ASSUME NEW r \in Commands, MonitorAccept(r) PROVE Settled'
    BY <1>7 DEF MonitorAccept
  <1>8. ASSUME NEW r \in Commands, MonitorAbort(r) PROVE Settled'
    BY <1>8 DEF MonitorAbort
  <1>9. ASSUME NEW r \in Commands, MonitorJudge(r) PROVE Settled'
    BY <1>9 DEF MonitorJudge
  <1>10. ASSUME NEW r \in Commands, MonitorTurnDown(r) PROVE Settled'
    BY <1>10 DEF MonitorTurnDown
  <1>11. CASE ClaimEndpoint
    BY <1>11 DEF ClaimEndpoint, Finish
  <1>12. CASE BeginLoad
    BY <1>12 DEF BeginLoad
  <1>13. CASE LoadSave
    BY <1>13 DEF LoadSave, Finish
  <1>14. CASE Precheck
    BY <1>14 DEF Precheck, Finish
  <1>15. CASE StartProgram
    BY <1>15 DEF StartProgram, Finish
  <1>16. CASE BeginPlan
    BY <1>16 DEF BeginPlan, Leave
  <1>17. CASE PlanFails
    BY <1>17 DEF PlanFails, Leave
  <1>18. CASE PlanReady
    BY <1>18 DEF PlanReady, Leave
  <1>19. CASE AckReplan
    BY <1>19 DEF AckReplan
  <1>20. CASE ReviewPoll
    BY <1>20 DEF ReviewPoll, Leave
  <1>21. CASE AllHandled
    BY <1>21 DEF AllHandled
  <1>22. CASE Replan
    BY <1>22 DEF Replan
  <1>23. CASE Recheck
    BY <1>23 DEF Recheck, TurnDownActive
  <1>24. CASE EngageBackend
    BY <1>24 DEF EngageBackend, Leave, TurnDownActive
  <1>25. CASE AckEngage
    BY <1>25 DEF AckEngage
  <1>26. CASE TakeOver
    BY <1>26 DEF TakeOver
  <1>27. ASSUME NEW r \in Commands, HandleRequest(r) PROVE Settled'
    BY <1>27 DEF HandleRequest
  <1>28. CASE FlightStopped
    BY <1>28 DEF FlightStopped, Leave, LeaveFlight
  <1>29. CASE Release
    BY <1>29 DEF Release
  <1>30. CASE Unclaim
    BY <1>30 DEF Unclaim
  <1>31. CASE JoinMonitor
    BY <1>31 DEF JoinMonitor
  <1>32. CASE Drain
    BY <1>32 DEF Drain
  <1>33. CASE ListFiles
    BY <1>33 DEF ListFiles, Filed, FileStates, Answers
  <1>34. CASE Close
    BY <1>34 DEF Close
  <1>35. ASSUME NEW r \in Commands, RejectPending(r) PROVE Settled'
    BY <1>35 DEF RejectPending
  <1>36. ASSUME NEW r \in Commands, Sweep(r) PROVE Settled'
    BY <1>36 DEF Sweep, Filed, FileStates, Answers, FinalState, Answer
  <1>37. CASE FlightEnds
    BY <1>37 DEF FlightEnds, Leave, LeaveFlight
  <1>38. CASE Crash
    BY <1>38 DEF Crash, Die
  <1>39. CASE GoStale
    BY <1>39 DEF GoStale
  <1>40. CASE FinishRun
    BY <1>40 DEF FinishRun, Finish
  <1>41. CASE Shutdown
    BY <1>41 DEF Shutdown
  <1>42. CASE InterruptPreparation
    BY <1>42 DEF InterruptPreparation
  <1>43. CASE InterruptProgram
    BY <1>43 DEF InterruptProgram, Leave, LeaveFlight
  <1>44. CASE InterruptRelease
    BY <1>44 DEF InterruptRelease, Finish
  <1>45. CASE InterruptFinish
    BY <1>45 DEF InterruptFinish, Finish
  <1>46. CASE InterruptEnding
    BY <1>46 DEF InterruptEnding, Die
  <1>47. CASE BackendRests
    BY <1>47 DEF BackendRests
  <1>48. CASE BackendReadsEof
    BY <1>48 DEF BackendReadsEof
  <1> QED BY <1>1, <1>2, <1>3, <1>4, <1>5, <1>6, <1>7, <1>8, <1>9, <1>10,
    <1>11, <1>12, <1>13, <1>14, <1>15, <1>16, <1>17, <1>18, <1>19, <1>20,
    <1>21, <1>22, <1>23, <1>24, <1>25, <1>26, <1>27, <1>28, <1>29, <1>30,
    <1>31, <1>32, <1>33, <1>34, <1>35, <1>36, <1>37, <1>38, <1>39,
    <1>40, <1>41, <1>42, <1>43, <1>44, <1>45, <1>46, <1>47, <1>48
    DEF Next, Operators, Monitor, Main, Prepare, Review, Ending, Interrupt,
        Backend

\* A run starts with every part of the invariant in place.
LEMMA InitInv == Init => IInv /\ Settled
  <1> SUFFICES ASSUME Init PROVE IInv /\ Settled
    OBVIOUS
  <1>1. TypeOK
    <2>1. status \in Status
      BY RunAssumption DEF Init, Status, Stages
    <2>2. cmd \in [Commands -> Request]
      BY RunAssumption DEF Init, Request, RequestStates, Actions
    <2>3. /\ stop \in BOOLEAN /\ engaged \in BOOLEAN
          /\ cut \in BOOLEAN /\ fresh \in BOOLEAN
      BY Zenon DEF Init
    <2>4. plans \in 0..MaxPlans /\ orderedRev \in 0..MaxPlans
      BY RunAssumption DEF Init
    <2> QED BY <2>1, <2>2, <2>3, <2>4
            DEF Init, TypeOK, MainSteps, MonitorSteps, Finished
  <1>2. HeldRequestsFiled
    BY DEF Init, HeldRequestsFiled
  <1>3. Control
    BY DEF Init, Control, ActiveRequest, DisplayedPlan, OrderKept, ReleaseDue,
       UnderReview, Early, Ended, Finished
  <1>4. Settled
    BY DEF Init, Settled, JoinedOrRunning, SweepCoversOpen, NothingLeftOpen
  <1> QED BY <1>1, <1>2, <1>3, <1>4 DEF IInv

\* Stuttering changes nothing the invariants speak of.
LEMMA StutterInv == ASSUME UNCHANGED vars PROVE (IInv => IInv') /\ (Settled => Settled')
  BY DEF vars, mainVars, monitorVars, flight, reviewing, IInv, TypeOK,
     HeldRequestsFiled, Filed, Control, ActiveRequest, DisplayedPlan,
     OrderKept, ReleaseDue, Settled, JoinedOrRunning, SweepCoversOpen, NothingLeftOpen

\* The invariant holds throughout every run.
THEOREM Invariance == Spec => []IInv
  <1>1. Init => IInv
    BY InitInv
  <1>2. IInv /\ [Next]_vars => IInv'
    BY TypeStep, HeldStep, ControlStep, StutterInv DEF IInv
  <1> QED BY <1>1, <1>2, PTL DEF Spec

\* Type correctness of the run, for any requests and number of plans.
THEOREM TypeCorrect == Spec => []TypeOK
  <1>1. IInv => TypeOK
    BY DEF IInv
  <1> QED BY <1>1, Invariance, PTL

\* Whatever the backend flies was ordered by an execute-plan request for the
\* revision under review, and nothing else is displayed meanwhile, also when the
\* request was turned down for want of a confirmation (programs.py _review).
THEOREM FlightOrdered == Spec => []OrderedAsReviewed
  <1>1. IInv => OrderedAsReviewed
    BY DEF IInv, Control, DisplayedPlan, OrderKept, OrderedAsReviewed
  <1> QED BY <1>1, Invariance, PTL

\* No run reports a final state while its backend flies, unless an interrupt cut the
\* release short, and then not completion (programs.py, run's finally clause).
THEOREM FinishedReleased == Spec => []ReleasedWhenFinished
  <1>1. IInv => ReleasedWhenFinished
    BY DEF IInv, Control, ReleaseDue, ReleasedWhenFinished
  <1> QED BY <1>1, Invariance, PTL

\* When the monitor has really ended at the join, the final sweep leaves no
\* request that still promises work (controller.py run, finally).
THEOREM FilesSettled ==
  ASSUME ~JoinMayTimeOut
  PROVE  Spec => []NothingLeftOpen
  <1>1. Init => IInv /\ Settled
    BY InitInv
  <1>2. (IInv /\ Settled) /\ [Next]_vars => (IInv /\ Settled)'
    BY TypeStep, HeldStep, ControlStep, SettledStep, StutterInv DEF IInv
  <1>3. IInv /\ Settled => NothingLeftOpen
    BY DEF Settled
  <1> QED BY <1>1, <1>2, <1>3, PTL DEF Spec
=============================================================================
