------------------------ MODULE EntryPredictionProofs ------------------------
(***************************************************************************)
(* Proofs about EntryPrediction, for every bound on the time and the       *)
(* requests.  That a result is not adopted for a flight it was not         *)
(* computed for rests on two different guards: a request of the operator   *)
(* outdates the job by its generation, but an abort of the control thread  *)
(* does not, and is noticed only because the authority and the terminal    *)
(* area are gone until a request gives them back.  Outdated says so.       *)
(* That a fast simulation adopts no outdated plan rests on the barrier,    *)
(* which nothing but an intervention, an attitude recovery or the end of   *)
(* the session lifts before the job is complete.  Timely says so.          *)
(***************************************************************************)
EXTENDS EntryPrediction, TLAPS

Outdated ==
  job.on =>
    /\ job.generation <= generation
    /\ "intervention" \in meanwhile =>
         \/ job.generation < generation
         \/ authority = "none" /\ stage # "taem"

Undisturbed == "intervention" \notin meanwhile /\ "recovery" \notin meanwhile

Timely ==
  sim /\ job.on /\ job.entry /\ Undisturbed =>
    /\ authority = "engaged"
    /\ request = job.ut /\ completion < job.ut
    /\ \/ stage = "taem"
       \/ /\ stage = "entry" /\ phase = "entry" /\ needed
          /\ \/ ut = job.ut
             \/ /\ ut = job.ut + 1
                /\ stop # "no" \/ (barrier.on /\ barrier.generation = generation)

(* An idle predictor notes nothing, the entry phase belongs to the entry   *)
(* stage, and no sample is taken while a barrier is up.                    *)
Orderly ==
  /\ ~job.on => meanwhile = {}
  /\ phase = "entry" => stage = "entry"
  /\ barrier.on => barrier.ut = ut

IInv == PredictionTypeOK /\ Outdated /\ Orderly /\ Timely

\* Never is no time of a sample.
LEMMA BoundsAreNumbers == MaxUt \in Nat /\ MaxGeneration \in Nat
                          /\ Interval \in Nat \ {0}
  BY PredictionAssumption

\* A job is a record of its fields, and the free predictor is not a job.
LEMMA JobFields ==
  ASSUME job \in Jobs \cup {Free}, job.on
  PROVE  job \in Jobs /\ job.ut \in Times /\ job.generation \in 0 .. MaxGeneration
<1>1. job # Free
  BY DEF Free
<1>2. job \in Jobs
  BY <1>1
<1>3. QED BY <1>2 DEF Jobs

\* What is noted are events, and only the fit of the scales ages.
LEMMA NotesType ==
  ASSUME PredictionTypeOK, NEW E \in SUBSET Events, Notes(E)
  PROVE  meanwhile' \subseteq Events
  BY DEF Notes, PredictionTypeOK

LEMMA ScalesType ==
  ASSUME PredictionTypeOK, ScalesAge
  PROVE  scales' \in {"initial", "fitted", "undone"}
  BY DEF ScalesAge, PredictionTypeOK

LEMMA QuickloadType == Quickload \in SUBSET Events /\ Lifted \in SUBSET Events
  BY DEF Quickload, Lifted, Events

\* A tick of the control thread keeps the types.
LEMMA TickType ==
  ASSUME PredictionTypeOK, ControlThread
  PROVE  PredictionTypeOK'
<1> USE BoundsAreNumbers
<1>1. CASE TickGuides
  <2>1. ut' \in Times
    BY <1>1 DEF TickGuides, Ticks, NextSample
  <2>2. stage' \in Stages /\ phase' \in Phases
    BY <1>1 DEF TickGuides, Shown, Stages, Phases, PredictionTypeOK
  <2>3. job' \in Jobs \cup {Free}
    <3>1. CASE job.on
      <4>1. job \in Jobs
        BY <3>1, JobFields DEF PredictionTypeOK
      <4>2. [job EXCEPT !.samePath = ~job.samePath] \in Jobs
        BY <4>1 DEF Jobs
      <4>3. QED BY <1>1, <4>1, <4>2 DEF TickGuides
    <3>2. CASE ~job.on
      BY <1>1, <3>2 DEF TickGuides, PredictionTypeOK
    <3>3. QED BY <3>1, <3>2
  <2>4. needed' \in BOOLEAN
    BY <1>1 DEF TickGuides, Asks, PredictionTypeOK
  <2>5. published' \in Times \cup {Never}
    BY <1>1, <2>1 DEF TickGuides, PredictionTypeOK
  <2>6. barrier' \in Barriers \cup {Free}
    BY <1>1, <2>1 DEF TickGuides, BarrierAfter, Barriers, PredictionTypeOK
  <2>7. meanwhile' \subseteq Events /\ scales' \in {"initial", "fitted", "undone"}
    BY <1>1, NotesType, ScalesType, QuickloadType DEF TickGuides, Ticks
  <2>8. QED
    BY <1>1, <2>1, <2>2, <2>3, <2>4, <2>5, <2>6, <2>7
    DEF TickGuides, Ticks, PredictionTypeOK, cadence
<1>2. CASE TickAborts
  <2>1. ut' \in Times
    BY <1>2 DEF TickAborts, Ticks, NextSample
  <2>2. scales' \in {"initial", "fitted", "undone"}
    BY <1>2, ScalesType DEF TickAborts, Ticks
  <2>3. {"intervention"} \cup Quickload \in SUBSET Events
    BY QuickloadType DEF Events
  <2>4. meanwhile' \subseteq Events
    BY <1>2, <2>3, NotesType DEF TickAborts
  <2>5. QED
    BY <1>2, <2>1, <2>2, <2>4 DEF TickAborts, Forgotten, PredictionTypeOK, cadence, Stages, Phases
<1>3. CASE TickIdles
  <2>1. ut' \in Times
    BY <1>3 DEF TickIdles, Ticks, NextSample
  <2>2. scales' \in {"initial", "fitted", "undone"}
    BY <1>3, ScalesType DEF TickIdles, Ticks
  <2>3. Quickload \in SUBSET Events
    BY QuickloadType DEF Events
  <2>4. meanwhile' \subseteq Events
    BY <1>3, <2>3, NotesType DEF TickIdles
  <2>5. QED
    BY <1>3, <2>1, <2>2, <2>4 DEF TickIdles, PredictionTypeOK, cadence, entry, Phases
<1>4. CASE LeaveBarrier
  BY <1>4 DEF LeaveBarrier, PredictionTypeOK, cadence, entry, guidance
<1>5. QED BY <1>1, <1>2, <1>3, <1>4 DEF ControlThread

\* The predictor keeps the types.
LEMMA PredictorType ==
  ASSUME PredictionTypeOK, Predictor
  PROVE  PredictionTypeOK'
<1> USE BoundsAreNumbers
<1>1. CASE TakeJob
  <2>1. job' \in Jobs
    BY <1>1 DEF TakeJob, Jobs, PredictionTypeOK, Stages
  <2>2. completion' \in Times \cup {Never} /\ cooldown' \in Cooldowns
    BY <1>1 DEF TakeJob, PredictionTypeOK, Cooldowns
  <2>3. QED
    BY <1>1, <2>1, <2>2 DEF TakeJob, PredictionTypeOK, guidance, entry
<1>2. CASE FinishJob
  <2>1. job.ut \in Times
    BY <1>2, JobFields DEF FinishJob, PredictionTypeOK
  <2>2. completion' \in Times \cup {Never}
    BY <1>2, <2>1 DEF FinishJob, Completed, Latest, PredictionTypeOK
  <2>3. published' \in Times \cup {Never}
    BY <1>2, <2>1 DEF FinishJob, PredictionTypeOK
  <2>4. needed' \in BOOLEAN /\ supervised' \in Times \cup {Never}
    BY <1>2, <2>1 DEF FinishJob, PredictionTypeOK, entry
  <2>5. QED
    BY <1>2, <2>2, <2>3, <2>4 DEF FinishJob, Fitted, PredictionTypeOK, guidance, Cooldowns
<1>3. QED BY <1>1, <1>2 DEF Predictor

\* The operator and the joins keep the types.
LEMMA OperatorType ==
  ASSUME PredictionTypeOK, Operator \/ Joins
  PROVE  PredictionTypeOK'
<1> USE BoundsAreNumbers DEF PredictionTypeOK
<1>0. {"intervention"} \in SUBSET Events
  BY DEF Events
<1>1. CASE SetPaused
  BY <1>0, <1>1, NotesType DEF SetPaused, PauseBumps, Bump, entry, cadence, Phases
<1>2. CASE Abort
  <2>1. generation' \in 0 .. MaxGeneration
    BY <1>2 DEF Abort, Bump
  <2>2. stage' \in Stages
    BY <1>2 DEF Abort, Stages
  <2>3. QED
    BY <1>0, <1>2, <2>1, <2>2, NotesType DEF Abort, Forgotten, cadence, Phases
<1>3. CASE Engage
  <2>1. generation' \in 0 .. MaxGeneration
    BY <1>3 DEF Engage, Bump
  <2>2. stage' \in Stages /\ phase' \in Phases
    BY <1>3 DEF Engage, Stages, Phases
  <2>3. needed' \in BOOLEAN /\ supervised' \in Times \cup {Never}
    BY <1>3 DEF Engage, Forgotten, entry
  <2>4. published' \in Times \cup {Never}
    BY <1>3 DEF Engage
  <2>5. QED
    BY <1>0, <1>3, <2>1, <2>2, <2>3, <2>4, NotesType DEF Engage, cadence
<1>4. CASE UpdateConfiguration
  BY <1>0, <1>4, NotesType DEF UpdateConfiguration, Bump, entry, cadence, guidance
<1>5. CASE Disconnect
  BY <1>5 DEF Disconnect, entry, cadence, guidance
<1>6. CASE ControlJoined
  BY <1>6 DEF ControlJoined, entry, cadence, guidance
<1>7. CASE PredictorJoined
  BY <1>7 DEF PredictorJoined, entry, guidance, Cooldowns
<1>8. QED BY <1>1, <1>2, <1>3, <1>4, <1>5, <1>6, <1>7 DEF Operator, Joins

\* A tick changes at most the mark of the path of a job.
LEMMA JobKept ==
  ASSUME PredictionTypeOK, TickGuides
  PROVE  /\ job'.on = job.on
         /\ job.on => /\ job'.entry = job.entry /\ job'.ut = job.ut
                      /\ job'.generation = job.generation
<1>1. CASE job.on
  <2>1. job \in Jobs
    BY <1>1, JobFields DEF PredictionTypeOK
  <2>2. QED BY <1>1, <2>1 DEF TickGuides, Jobs
<1>2. CASE ~job.on
  BY <1>2 DEF TickGuides
<1>3. QED BY <1>1, <1>2

\* A disturbance outdates the job, or leaves a guidance that cannot adopt it.
LEMMA StepOutdated ==
  ASSUME IInv, Next
  PROVE  Outdated'
<1> USE BoundsAreNumbers DEF IInv, Outdated
<1>0. job.on => job.generation \in 0 .. MaxGeneration
  BY JobFields DEF PredictionTypeOK
<1>1. CASE TickGuides
  <2>1. job'.on = job.on /\ (job.on => job'.generation = job.generation)
    BY <1>1, JobKept
  <2>2. "intervention" \in meanwhile' => "intervention" \in meanwhile
    BY <1>1 DEF TickGuides, Notes, Quickload, Lifted
  <2>3. "intervention" \in meanwhile /\ job.on => job.generation < generation
    BY <1>1 DEF TickGuides
  <2>4. QED BY <1>1, <2>1, <2>2, <2>3 DEF TickGuides
<1>2. CASE TickAborts
  BY <1>2 DEF TickAborts
<1>3. CASE TickIdles
  BY <1>3 DEF TickIdles, Notes, Quickload
<1>4. CASE LeaveBarrier
  BY <1>4 DEF LeaveBarrier, guidance
<1>5. CASE TakeJob
  BY <1>5 DEF TakeJob, PredictionTypeOK, Orderly
<1>6. CASE FinishJob
  BY <1>6 DEF FinishJob, Free
<1>7. CASE SetPaused
  BY <1>7, <1>0 DEF SetPaused, PauseBumps, Bump, PredictionTypeOK
<1>8. CASE Abort
  BY <1>8, <1>0 DEF Abort, Bump, PredictionTypeOK
<1>9. CASE Engage
  BY <1>9, <1>0 DEF Engage, Bump, PredictionTypeOK
<1>10. CASE UpdateConfiguration
  BY <1>10, <1>0 DEF UpdateConfiguration, Bump, PredictionTypeOK
<1>11. CASE Disconnect
  BY <1>11 DEF Disconnect, guidance
<1>12. CASE ControlJoined
  BY <1>12 DEF ControlJoined, guidance
<1>13. CASE PredictorJoined
  BY <1>13 DEF PredictorJoined, guidance
<1>14. QED
  BY <1>1, <1>2, <1>3, <1>4, <1>5, <1>6, <1>7, <1>8, <1>9, <1>10, <1>11,
     <1>12, <1>13
  DEF Next, ControlThread, Predictor, Operator, Joins

\* The marks stay in order.
LEMMA StepOrderly ==
  ASSUME IInv, Next
  PROVE  Orderly'
<1> USE BoundsAreNumbers DEF IInv, Orderly
<1>1. CASE TickGuides
  <2>1. ~job'.on => meanwhile' = {}
    BY <1>1, JobKept DEF TickGuides, Notes
  <2>2. phase' = "entry" => stage' = "entry"
    <3>1. stage' \in Stages
      BY <1>1 DEF TickGuides, PredictionTypeOK, Stages
    <3>2. phase' \in Shown(stage')
      BY <1>1 DEF TickGuides
    <3>3. QED BY <3>1, <3>2 DEF Shown, Stages
  <2>3. barrier'.on => barrier'.ut = ut'
    BY <1>1 DEF TickGuides, BarrierAfter, Free
  <2>4. QED BY <2>1, <2>2, <2>3
<1>2. CASE TickAborts
  BY <1>2 DEF TickAborts, Ticks, Notes
<1>3. CASE TickIdles
  BY <1>3 DEF TickIdles, Ticks, Notes
<1>4. CASE LeaveBarrier
  BY <1>4 DEF LeaveBarrier, Free, guidance
<1>5. CASE TakeJob
  BY <1>5 DEF TakeJob, guidance
<1>6. CASE FinishJob
  BY <1>6 DEF FinishJob, guidance
<1>7. CASE SetPaused
  BY <1>7 DEF SetPaused, Notes
<1>8. CASE Abort
  BY <1>8 DEF Abort, Notes
<1>9. CASE Engage
  BY <1>9 DEF Engage, Notes
<1>10. CASE UpdateConfiguration
  BY <1>10 DEF UpdateConfiguration, Notes, guidance
<1>11. CASE Disconnect
  BY <1>11 DEF Disconnect, guidance
<1>12. CASE ControlJoined
  BY <1>12 DEF ControlJoined, guidance
<1>13. CASE PredictorJoined
  BY <1>13 DEF PredictorJoined, guidance
<1>14. QED
  BY <1>1, <1>2, <1>3, <1>4, <1>5, <1>6, <1>7, <1>8, <1>9, <1>10, <1>11,
     <1>12, <1>13
  DEF Next, ControlThread, Predictor, Operator, Joins

\* A tick of an undisturbed fast simulation puts the barrier up.
LEMMA TickTimely ==
  ASSUME IInv, TickGuides
  PROVE  Timely'
<1> SUFFICES ASSUME sim', job'.on, job'.entry, Undisturbed'
             PROVE  /\ authority' = "engaged"
                    /\ request' = job'.ut /\ completion' < job'.ut
                    /\ \/ stage' = "taem"
                       \/ /\ stage' = "entry" /\ phase' = "entry" /\ needed'
                          /\ \/ ut' = job'.ut
                             \/ /\ ut' = job'.ut + 1
                                /\ stop' # "no" \/ (barrier'.on /\ barrier'.generation = generation')
  BY DEF Timely
<1>1. sim /\ job.on /\ job.entry /\ job'.ut = job.ut /\ job.ut \in Times
  BY JobKept, JobFields DEF IInv, TickGuides, PredictionTypeOK
<1>2. Undisturbed /\ phase' # "recovery"
  BY <1>1 DEF Undisturbed, TickGuides, Notes, Lifted
<1>3. request' = job'.ut /\ completion' < job'.ut /\ authority' = "engaged"
  BY <1>1, <1>2 DEF IInv, Timely, TickGuides, cadence
<1>4. CASE stage = "taem"
  BY <1>3, <1>4 DEF TickGuides
<1>5. CASE stage # "taem"
  <2>1. stage = "entry" /\ phase = "entry" /\ needed /\ ut = job.ut
    BY <1>1, <1>2, <1>5 DEF IInv, Timely, TickGuides, Ticks
  <2>2. CASE stage' = "taem"
    BY <1>3, <2>2
  <2>3. CASE stage' # "taem"
    <3>1. stage' = "entry" /\ phase' = "entry"
      BY <1>2, <2>1, <2>3 DEF TickGuides, Shown
    <3>2. ut' = job'.ut + 1
      BY <1>1, <2>1 DEF TickGuides, Ticks, NextSample
    <3>3. needed'
      BY <2>1, <3>1 DEF TickGuides, Asks
    <3>4. Outstanding
      BY <1>1, <1>3, BoundsAreNumbers
      DEF Outstanding, TickGuides, cadence, IInv, PredictionTypeOK, Times, Never
    <3>5. barrier' = [on |-> TRUE, ut |-> ut', generation |-> generation]
      BY <1>1, <3>1, <3>3, <3>4 DEF TickGuides, BarrierAfter
    <3>6. generation' = generation
      BY DEF TickGuides
    <3>7. QED BY <1>3, <3>1, <3>2, <3>3, <3>5, <3>6
  <2>4. QED BY <2>2, <2>3
<1>6. QED BY <1>4, <1>5

\* The barrier stays up while the job is under way.
LEMMA BarrierTimely ==
  ASSUME IInv, LeaveBarrier
  PROVE  Timely'
<1> SUFFICES ASSUME sim, job.on, job.entry, Undisturbed
             PROVE  Timely'
  BY DEF Timely, LeaveBarrier, Undisturbed
<1>1. job.ut \in Times /\ completion \in Times \cup {Never}
  BY JobFields DEF IInv, PredictionTypeOK
<1>2. barrier.on /\ barrier.ut = ut
  BY DEF LeaveBarrier, IInv, Orderly
<1>3. completion < job.ut /\ authority = "engaged"
  BY DEF IInv, Timely
<1>4. ASSUME ut = job.ut + 1, stage = "entry", phase = "entry", stop = "no" PROVE FALSE
  <2>1. barrier.generation = generation
    BY <1>4, <1>1, BoundsAreNumbers DEF IInv, Timely, Times
  <2>2. ~ (completion >= barrier.ut)
    BY <1>1, <1>2, <1>3, <1>4, BoundsAreNumbers DEF Times, Never
  <2>3. QED BY <1>3, <1>4, <2>1, <2>2 DEF LeaveBarrier, BarrierOver
<1>5. QED
  BY <1>4 DEF IInv, Timely, Undisturbed, LeaveBarrier, guidance, cadence, entry

\* A job is taken when the last one is complete.
LEMMA TakeTimely ==
  ASSUME IInv, TakeJob
  PROVE  Timely'
<1> USE BoundsAreNumbers DEF IInv
<1>1. job'.on /\ job'.ut = ut /\ job'.entry = (phase = "entry") /\ request' = ut
  BY DEF TakeJob
<1>2. completion' < ut
  <2>1. ut \in Nat /\ request \in Times \cup {Never} /\ completion \in Times \cup {Never}
    BY DEF PredictionTypeOK, Times
  <2>2. CASE TimeWentBack
    BY <2>1, <2>2 DEF TakeJob, Never
  <2>3. CASE ~TimeWentBack
    <3>1. completion' = completion /\ ut - Anchor >= Interval
      BY <2>3 DEF TakeJob, RequestDue
    <3>2. completion <= Anchor /\ Anchor \in Int
      BY <2>1 DEF Anchor, Latest, Times, Never
    <3>3. QED BY <2>1, <3>1, <3>2 DEF Times, Never
  <2>4. QED BY <2>2, <2>3
<1>3. authority = "engaged" /\ (phase = "entry" => stage = "entry" /\ needed)
  BY DEF TakeJob, Wanted, Orderly
<1>4. QED
  BY <1>1, <1>2, <1>3 DEF Timely, TakeJob, guidance, entry

\* No other step takes a fast simulation past the plan under way.
LEMMA StepTimely ==
  ASSUME IInv, Next
  PROVE  Timely'
<1> USE DEF IInv, Timely, Undisturbed
<1>1. CASE TickGuides BY <1>1, TickTimely
<1>2. CASE TickAborts BY <1>2 DEF TickAborts, Notes
<1>3. CASE TickIdles BY <1>3 DEF TickIdles, Notes
<1>4. CASE LeaveBarrier BY <1>4, BarrierTimely
<1>5. CASE TakeJob BY <1>5, TakeTimely
<1>6. CASE FinishJob BY <1>6 DEF FinishJob, Free
<1>7. CASE SetPaused BY <1>7 DEF SetPaused, Notes
<1>8. CASE Abort BY <1>8 DEF Abort, Notes
<1>9. CASE Engage BY <1>9 DEF Engage, Notes
<1>10. CASE UpdateConfiguration BY <1>10 DEF UpdateConfiguration, Notes
<1>11. CASE Disconnect BY <1>11 DEF Disconnect, guidance, entry, cadence
<1>12. CASE ControlJoined BY <1>12 DEF ControlJoined, guidance, entry, cadence
<1>13. CASE PredictorJoined BY <1>13 DEF PredictorJoined, guidance, entry, cadence
<1>14. QED
  BY <1>1, <1>2, <1>3, <1>4, <1>5, <1>6, <1>7, <1>8, <1>9, <1>10, <1>11,
     <1>12, <1>13
  DEF Next, ControlThread, Predictor, Operator, Joins

\* The invariant holds at the start and in every step.
LEMMA Invariance == Spec => []IInv
<1>1. Init => IInv
  <2> SUFFICES ASSUME Init PROVE IInv
    OBVIOUS
  <2>1. 0 \in Times /\ 0 \in 0 .. MaxGeneration
    BY BoundsAreNumbers DEF Times
  <2>2. PredictionTypeOK
    BY <2>1 DEF Init, PredictionTypeOK, Stages, Cooldowns, Phases
  <2>3. ~job.on
    BY DEF Init, Free
  <2>4. ~barrier.on
    BY DEF Init, Free
  <2>5. Orderly
    BY <2>4 DEF Orderly, Init
  <2>6. QED BY <2>2, <2>3, <2>5 DEF IInv, Outdated, Timely
<1>2. IInv /\ [Next]_vars => IInv'
  <2> SUFFICES ASSUME IInv, [Next]_vars PROVE IInv'
    OBVIOUS
  <2>1. CASE Next
    <3>1. PredictionTypeOK'
      BY <2>1, TickType, PredictorType, OperatorType DEF IInv, Next
    <3>2. QED BY <2>1, <3>1, StepOutdated, StepOrderly, StepTimely DEF IInv
  <2>2. CASE UNCHANGED vars
    BY <2>2 DEF IInv, PredictionTypeOK, Outdated, Orderly, Timely, Undisturbed, vars,
                guidance, entry, cadence
  <2>3. QED BY <2>1, <2>2
<1>3. QED BY <1>1, <1>2, PTL DEF Spec

\* Every variable keeps its type.
THEOREM PredictionType == Spec => []PredictionTypeOK
<1>1. IInv => PredictionTypeOK BY DEF IInv
<1>2. QED BY <1>1, Invariance, PTL

\* A tick ends no job.
LEMMA JobOn ==
  ASSUME TickGuides, PredictionTypeOK, job.on
  PROVE  job'.on
  BY JobKept

\* Only FinishJob ends a job.
LEMMA OnlyFinish ==
  ASSUME PredictionTypeOK, Next, job.on, ~job'.on
  PROVE  FinishJob
<1>1. ASSUME TickGuides PROVE FALSE
  BY <1>1, JobOn
<1>2. QED
  BY <1>1 DEF Next, ControlThread, Predictor, Operator, Joins, TickGuides, TickAborts,
     TickIdles, LeaveBarrier, TakeJob, SetPaused, Abort, Engage,
     UpdateConfiguration, Disconnect, ControlJoined, PredictorJoined

\* What is adopted was computed for the flight as it is: nobody interfered.
THEOREM NothingForeignAdopted == Spec => AdoptedUndisturbed
<1>1. ASSUME IInv, Next, Adopts PROVE "intervention" \notin meanwhile
  <2>1. FinishJob
    BY <1>1, OnlyFinish DEF Adopts, IInv
  <2>2. EntryCurrent \/ ForecastFresh
    BY <1>1, <2>1 DEF FinishJob, Adopts, entry
  <2>3. job.generation = generation /\ (authority = "engaged" \/ stage = "taem")
    BY <2>2 DEF EntryCurrent, ForecastFresh
  <2>4. job.on /\ generation \in Nat
    BY <1>1, BoundsAreNumbers DEF Adopts, IInv, PredictionTypeOK
  <2>5. QED BY <1>1, <2>3, <2>4 DEF IInv, Outdated
<1>2. IInv /\ [Next]_vars => [Adopts => "intervention" \notin meanwhile]_vars
  BY <1>1
<1>3. QED BY <1>2, Invariance, PTL DEF Spec, AdoptedUndisturbed

\* What is adopted is not from the future, and a fast simulation adopts a
\* plan at most one sample after the one it was computed from.
THEOREM NothingOutdatedAdopted == Spec => AdoptedInTime
<1> DEFINE InTime ==
      /\ job.ut <= ut
      /\ sim /\ job.entry /\ "recovery" \notin meanwhile => ut <= job.ut + 1
<1>1. ASSUME IInv, Next, Adopts PROVE InTime
  <2>1. FinishJob
    BY <1>1, OnlyFinish DEF Adopts, IInv
  <2>2. EntryCurrent \/ ForecastFresh
    BY <1>1, <2>1 DEF FinishJob, Adopts, entry
  <2>3. ut >= job.ut /\ job.ut \in Times /\ ut \in Times
    BY <1>1, <2>2, JobFields DEF EntryCurrent, ForecastFresh, Adopts, IInv, PredictionTypeOK
  <2>4. job.generation = generation /\ generation \in Nat /\ job.on
    BY <1>1, <2>2, BoundsAreNumbers
    DEF EntryCurrent, ForecastFresh, Adopts, IInv, PredictionTypeOK
  <2>5. ASSUME sim, job.entry, "recovery" \notin meanwhile PROVE ut <= job.ut + 1
    <3>1. EntryCurrent
      BY <2>2, <2>5 DEF ForecastFresh
    <3>2. Undisturbed
      BY <1>1, <2>4, <2>5, <3>1 DEF Undisturbed, IInv, Outdated, EntryCurrent
    <3>3. stage = "entry"
      BY <1>1, <3>1 DEF EntryCurrent, IInv, Orderly
    <3>4. ut = job.ut \/ ut = job.ut + 1
      BY <1>1, <2>4, <2>5, <3>2, <3>3 DEF IInv, Timely
    <3>5. QED BY <2>3, <3>4, BoundsAreNumbers DEF Times
  <2>6. QED BY <2>3, <2>5, BoundsAreNumbers DEF Times
<1>2. IInv /\ [Next]_vars => [Adopts => InTime]_vars
  BY <1>1
<1>3. QED BY <1>2, Invariance, PTL DEF Spec, AdoptedInTime
=============================================================================
