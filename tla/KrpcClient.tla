------------------------------ MODULE KrpcClient ------------------------------
(***************************************************************************)
(* The engines of the vessel as the kRPC client of the landing process     *)
(* commands them (rust/landing, krpc_cnano_client.rs).  The client keeps,  *)
(* for every engine it found when it connected, what it did to it: whether *)
(* it activated it and whether it gave it a throttle of its own; and one   *)
(* cached throttle that spares it the calls when a command repeats.  A     *)
(* release undoes from these flags, in batches that are not retried.       *)
(*                                                                         *)
(* An action is one remote call with what the client does on its answer.   *)
(* A call that is lost fails the operation; the game may have executed it  *)
(* or not.  The calls come from one tick at a time: LandingController has  *)
(* the threads.  Air-breathing engines are left out: a jet assist is only  *)
(* commanded under an atmospheric profile, and krpc_apply sends these      *)
(* through set_direct_controls, which asks for none.                       *)
(***************************************************************************)
EXTENDS Integers, Sequences, FiniteSets

CONSTANTS
  EngineCount,   \* rocket engines of the inventory, in its order
  Selected,      \* those chosen for the burn
  MaxThrottle,   \* throttle levels; 0 is shut
  BatchMax,      \* items of a batch; the first holds the main controls as one
  MaxFaults      \* bound: lost calls, crashes and interventions of the pilot

Engines == 1..EngineCount
Throttles == 0..MaxThrottle

ASSUME KrpcClientAssumption ==
  /\ EngineCount \in Nat \ {0} /\ MaxThrottle \in Nat \ {0}
  /\ MaxFaults \in Nat
  /\ Selected \subseteq Engines
  /\ BatchMax \in Nat /\ BatchMax > 3

VARIABLES
  active, indep, level, main,     \* the vessel: engines, and the main throttle
  initially, activated, owned,    \* initially_active, activated_by_client,
                                  \* independent_owned
  cached, has,                    \* cached_, has_command_throttle
  thrust, overdue,                \* cached_current_thrust > 0; its refresh due
  pc, at, todo, want,             \* the operation and its progress
  batch, closing,                 \* items queued by the release
  whole,                          \* every batch of the release was executed,
                                  \* without the pilot's hand in between
  astray,                         \* engines a call about which was lost
  behind,                         \* engines the last command passed over
  released,                       \* nothing was commanded since a whole release
  faults

vessel == <<active, indep, level, main>>
flags == <<initially, activated, owned>>
cache == <<cached, has>>
feedback == <<thrust, overdue>>
progress == <<pc, at, todo, want>>
release == <<batch, closing, whole>>
history == <<astray, behind, released>>
vars == <<vessel, flags, cache, feedback, progress, release, history, faults>>

(* What a remote call may do to an engine, and the flag its answer sets.   *)
Effects == {"start", "stop", "take", "give", "cut", "thrust"}
Notes == {"none", "started", "stopped", "owned", "disowned"}
Calls == Effects \X Notes
Items == ({"cut", "give", "stop"} \X Engines) \cup {<<"main", 0>>}

-----------------------------------------------------------------------------
(* The vessel.                                                             *)

Thrust(e) == IF ~active[e] THEN 0 ELSE IF indep[e] THEN level[e] ELSE main
Thrusting == \E e \in Engines : Thrust(e) > 0

(* A set of items executed by the game, in any order: items of one engine  *)
(* set different things.                                                   *)
Executed(items) ==
  /\ active' = [e \in Engines |->
       IF <<"start", e>> \in items THEN TRUE
       ELSE IF <<"stop", e>> \in items THEN FALSE ELSE active[e]]
  /\ indep' = [e \in Engines |->
       IF <<"take", e>> \in items THEN TRUE
       ELSE IF <<"give", e>> \in items THEN FALSE ELSE indep[e]]
  /\ level' = [e \in Engines |->
       IF <<"cut", e>> \in items THEN 0
       ELSE IF <<"thrust", e>> \in items THEN want ELSE level[e]]
  /\ main' = IF <<"main", 0>> \in items THEN 0 ELSE main

(* The engines of a loop that are still to come, and the next of them.     *)
Ahead(S) == {e \in S : e >= at}
IsNext(e, S) == e \in Ahead(S) /\ \A f \in Ahead(S) : e <= f

Fault == faults < MaxFaults /\ faults' = faults + 1

-----------------------------------------------------------------------------
NoEngine == [e \in Engines |-> FALSE]
AllShut == [e \in Engines |-> 0]

Init ==
  /\ active \in [Engines -> BOOLEAN] /\ indep = NoEngine
  /\ level = AllShut /\ main = 0
  /\ initially = active /\ activated = NoEngine /\ owned = NoEngine
  /\ cached = 0 /\ has = FALSE /\ thrust = FALSE /\ overdue = TRUE
  /\ pc = "closed" /\ at = 1 /\ todo = <<>> /\ want = 0
  /\ batch = {} /\ closing = FALSE /\ whole = FALSE
  /\ astray = {} /\ behind = {} /\ released = FALSE
  /\ faults = 0

(* krpc_cnano_client_open with inventory_engines: the vessel as it is      *)
(* found counts as initial, also what an earlier client left behind.       *)
Open ==
  /\ pc = "closed"
  /\ initially' = active /\ activated' = NoEngine /\ owned' = NoEngine
  /\ cached' = 0 /\ has' = FALSE /\ thrust' = FALSE /\ overdue' = TRUE
  /\ pc' = "idle" /\ at' = 1 /\ todo' = <<>> /\ want' = 0
  /\ batch' = {} /\ closing' = FALSE /\ whole' = FALSE
  /\ astray' = {e \in Engines : indep[e]} /\ behind' = {} /\ released' = FALSE
  /\ UNCHANGED <<vessel, faults>>

-----------------------------------------------------------------------------
(* A release: neutralize of the client, reached from an abort, a pause, a  *)
(* closing, a time warp or a tick that failed.                             *)

(* The first item of the first batch stands for the eight main controls.   *)
StartRelease ==
  /\ pc' = "release" /\ at' = 1 /\ todo' = <<>> /\ want' = 0 /\ whole' = TRUE
  /\ batch' = {<<"main", 0>>}

(* krpc_safe or krpc_neutralize between two ticks, or krpc_close.          *)
Safe ==
  /\ pc \in {"idle", "sensed"} /\ StartRelease
  /\ closing' \in IF pc = "idle" THEN BOOLEAN ELSE {FALSE}
  /\ UNCHANGED <<vessel, flags, cache, feedback, history, faults>>

(* Mutation of Undoing: only a throttle of its own makes an engine worth   *)
(* releasing.                                                              *)
UndoingOwned(e) ==
  IF ~owned[e] THEN {}
  ELSE {<<"cut", e>>, <<"give", e>>}
       \cup (IF activated[e] /\ ~initially[e] THEN {<<"stop", e>>} ELSE {})

(* The items that undo what the client did to an engine.                   *)
Undoing(e) ==
  (IF owned[e] THEN {<<"cut", e>>, <<"give", e>>} ELSE {})
  \cup (IF activated[e] /\ ~initially[e] THEN {<<"stop", e>>} ELSE {})

ToUndo == {e \in Engines : Undoing(e) # {}}

(* Mutation of Fits: room for one item is taken for room for all.          *)
FitsOne(e) == Cardinality(batch) < BatchMax

Fits(e) == Cardinality(batch) + Cardinality(Undoing(e)) <= BatchMax

(* The flags are cleared when the items are queued, not when they are      *)
(* answered.                                                               *)
Queue ==
  /\ pc = "release"
  /\ \E e \in Engines :
       /\ IsNext(e, ToUndo) /\ Fits(e) /\ batch' = batch \cup Undoing(e) /\ at' = e + 1
       /\ owned' = [owned EXCEPT ![e] = FALSE]
       /\ activated' = [activated EXCEPT ![e] = @ /\ initially[e]]
  /\ UNCHANGED <<vessel, initially, cache, feedback, pc, todo, want,
                 closing, whole, history, faults>>

(* Mutation of Finish: the cached throttle is not reset.                   *)
FinishCached(executed, passed) ==
  /\ pc' = IF closing THEN "closed" ELSE "idle"
  /\ at' = 1 /\ closing' = FALSE
  /\ released' = (executed /\ passed = {}) /\ behind' = passed
  /\ UNCHANGED cache

(* The caches are set whatever became of the batches.                      *)
Finish(executed, passed) ==
  /\ pc' = IF closing THEN "closed" ELSE "idle"
  /\ at' = 1 /\ closing' = FALSE
  /\ released' = (executed /\ passed = {}) /\ behind' = passed
  /\ cached' = 0 /\ has' = TRUE

(* safe_flush_batch, when the batch is full or the engines are done.  The  *)
(* items are optional: a batch may succeed with some of them refused.  A   *)
(* full batch that fails ends the release before the engines that remain.  *)
Flush ==
  /\ pc = "release" /\ ~ \E e \in Engines : IsNext(e, ToUndo) /\ Fits(e)
  /\ \E done \in SUBSET batch, ok \in BOOLEAN :
       /\ IF done = batch /\ ok THEN UNCHANGED faults ELSE Fault
       /\ Executed(done)
       /\ batch' = {}
       /\ astray' = astray \cup {i[2] : i \in (batch \ done) \ {<<"main", 0>>}}
       /\ IF Ahead(ToUndo) = {} \/ ~ok
            THEN Finish(whole /\ done = batch, Ahead(ToUndo)) /\ whole' = FALSE
            ELSE /\ whole' = (whole /\ done = batch)
                 /\ UNCHANGED <<pc, at, closing, behind, released, cache>>
  /\ UNCHANGED <<flags, feedback, todo, want>>

-----------------------------------------------------------------------------
(* A tick: telemetry, perhaps a command, perhaps the shutdown after the    *)
(* burn.                                                                   *)

(* Mutation of Reassert: only the throttle is looked at.                   *)
ReassertThrottle(measured) == has /\ main > 0

(* throttle_feedback_requires_reassertion.                                 *)
Reassert(measured) == has /\ (main > 0 \/ (cached = 0 /\ measured))

(* krpc_cnano_client_read: the measured thrust is refreshed in a burn, and *)
(* every CNANO_MEDIUM_PERIOD without one.                                  *)
Read ==
  /\ pc = "idle" /\ pc' = "sensed"
  /\ \/ thrust' = Thrusting /\ overdue' = FALSE
     \/ /\ ~overdue /\ cached = 0 /\ ~thrust
        /\ overdue' = TRUE /\ UNCHANGED thrust
  /\ has' = (has /\ ~Reassert(thrust'))
  /\ UNCHANGED <<vessel, flags, cached, at, todo, want, release,
                 history, faults>>

(* A read that fails ends in the release of a failed tick.                 *)
ReadFails ==
  /\ pc = "idle" /\ Fault /\ StartRelease
  /\ UNCHANGED <<vessel, flags, cache, feedback, closing, history>>

(* The tick is over; without a command when nothing is engaged.            *)
EndTick ==
  /\ pc \in {"sensed", "ready"} /\ pc' = "idle"
  /\ UNCHANGED <<vessel, flags, cache, feedback, at, todo, want,
                 release, history, faults>>

StartShutdown ==
  /\ pc \in {"sensed", "ready"} /\ pc' = "shutdown" /\ at' = 1
  /\ UNCHANGED <<vessel, flags, cache, feedback, todo, want, release,
                 history, faults>>

(* krpc_apply, through set_direct_controls or set_autopilot.               *)
Apply ==
  /\ pc = "sensed" /\ pc' = "main" /\ at' = 1
  /\ want' \in Throttles
  /\ released' = FALSE
  /\ UNCHANGED <<vessel, flags, cache, feedback, todo, release, astray, behind,
                 faults>>

ChangeThrottle == ~has \/ cached # want

(* The main throttle stays shut: engines are throttled one by one.         *)
MainItems == IF ChangeThrottle THEN {<<"main", 0>>} ELSE {}
ShutMain ==
  /\ pc = "main"
  /\ pc' = IF ChangeThrottle THEN "engines" ELSE "ready"
  /\ want' = IF ChangeThrottle THEN want ELSE 0
  /\ Executed(MainItems)
  /\ UNCHANGED <<flags, cache, feedback, at, todo, release, history, faults>>

-----------------------------------------------------------------------------
(* The calls about one engine.  Whether it is active is asked first where  *)
(* the code does so, and the answer decides the calls that follow.         *)

(* Mutation of Burn: the activation is not noted.                          *)
BurnUnnoted(isActive) ==
  IF isActive THEN << <<"take", "none">>, <<"thrust", "owned">> >>
  ELSE << <<"start", "none">>, <<"take", "none">>, <<"thrust", "owned">> >>

Burn(isActive) ==
  IF isActive THEN << <<"take", "none">>, <<"thrust", "owned">> >>
  ELSE << <<"start", "started">>, <<"take", "none">>, <<"thrust", "owned">> >>
Exclude(isActive) ==
  IF isActive
  THEN << <<"stop", "none">>, <<"take", "none">>, <<"cut", "owned">> >>
  ELSE << <<"take", "none">>, <<"cut", "owned">> >>
Cut == << <<"cut", "none">>, <<"give", "disowned">> >>

(* set_engine_throttle.  A selected engine whose state cannot be read, or  *)
(* that has no fuel, is passed over; an excluded one whose state cannot be *)
(* read is treated as shut.                                                *)
VisitEngine ==
  /\ pc = "engines" /\ todo = <<>>
  /\ \E e \in Engines : IsNext(e, Engines) /\
       \/ /\ todo' = IF want = 0 THEN Cut
                     ELSE IF e \in Selected THEN Burn(active[e])
                     ELSE Exclude(active[e])
          /\ at' = e /\ UNCHANGED <<behind, faults>>
       \/ /\ want > 0 /\ e \in Selected /\ Fault
          /\ behind' = behind \cup {e} /\ at' = e + 1 /\ UNCHANGED todo
       \/ /\ want > 0 /\ e \notin Selected /\ Fault
          /\ todo' = Exclude(FALSE) /\ at' = e /\ UNCHANGED behind
  /\ UNCHANGED <<vessel, flags, cache, feedback, pc, want, release,
                 astray, released>>

(* krpc_cnano_client_shutdown_burn_engines.                                *)
VisitBurnt ==
  /\ pc = "shutdown" /\ todo = <<>>
  /\ \E e \in Engines :
       IsNext(e, Selected) /\ at' = e /\ behind' = behind \cup {e}
  /\ todo' = << <<"cut", "none">>, <<"stop", "stopped">> >>
  /\ UNCHANGED <<vessel, flags, cache, feedback, pc, want, release,
                 astray, released, faults>>

(* The ends of the loops over the engines.                                 *)
EnginesDone ==
  /\ pc = "engines" /\ todo = <<>> /\ Ahead(Engines) = {}
  /\ pc' = "ready" /\ at' = 1 /\ cached' = want /\ has' = TRUE /\ want' = 0
  /\ UNCHANGED <<vessel, flags, feedback, todo, release, history, faults>>
ShutdownDone ==
  /\ pc = "shutdown" /\ todo = <<>> /\ Ahead(Selected) = {}
  /\ pc' = "idle" /\ at' = 1
  /\ UNCHANGED <<vessel, flags, cache, feedback, todo, want, release, history,
                 faults>>

(* What the client writes down when a call has been answered.              *)
Note(note) ==
  /\ activated' = [activated EXCEPT ![at] =
       IF note = "started" THEN TRUE ELSE IF note = "stopped" THEN FALSE ELSE @]
  /\ owned' = [owned EXCEPT ![at] =
       IF note = "owned" THEN TRUE
       ELSE IF note = "disowned" THEN FALSE ELSE @]
  /\ UNCHANGED initially

Answered ==
  /\ todo # <<>> /\ todo' = Tail(todo)
  /\ Executed({<<Head(todo)[1], at>>}) /\ Note(Head(todo)[2])
  /\ at' = IF todo' = <<>> THEN at + 1 ELSE at
  /\ behind' = IF todo' = <<>> /\ pc = "engines" THEN behind \ {at} ELSE behind
  /\ UNCHANGED <<cache, feedback, pc, want, release, astray, released, faults>>

(* A failed call fails the tick, and that releases the vessel; a failed    *)
(* shutdown is only logged and tried again by a later tick.                *)
CallLost ==
  /\ pc \in {"main", "engines", "shutdown"}
  /\ \/ pc = "main" /\ (Executed({}) \/ Executed(MainItems))
        /\ UNCHANGED astray
     \/ /\ todo # <<>> /\ astray' = astray \cup {at}
        /\ Executed({}) \/ Executed({<<Head(todo)[1], at>>})
  /\ Fault
  /\ IF pc = "shutdown"
       THEN /\ pc' = "idle" /\ at' = 1 /\ todo' = <<>>
            /\ UNCHANGED <<want, batch, whole>>
       ELSE StartRelease
  /\ UNCHANGED <<flags, cache, feedback, closing, behind, released>>

-----------------------------------------------------------------------------
(* The pilot opens the main throttle in the game.                          *)
Pilot ==
  /\ Fault /\ main' \in Throttles \ {main}
  /\ released' = FALSE /\ whole' = FALSE
  /\ UNCHANGED <<active, indep, level, flags, cache, feedback, progress, batch,
                 closing, astray, behind>>

(* The process dies: its flags are gone, the vessel stays as it is.        *)
Crash ==
  /\ pc # "closed" /\ Fault
  /\ pc' = "closed" /\ todo' = <<>> /\ at' = 1 /\ want' = 0
  /\ activated' = NoEngine /\ owned' = NoEngine /\ cached' = 0 /\ has' = FALSE
  /\ thrust' = FALSE /\ overdue' = TRUE
  /\ batch' = {} /\ closing' = FALSE /\ whole' = FALSE
  /\ astray' = {} /\ behind' = {} /\ released' = FALSE
  /\ UNCHANGED <<vessel, initially>>

Client == ShutMain \/ VisitEngine \/ VisitBurnt \/ EnginesDone \/ ShutdownDone
          \/ Answered \/ Queue \/ Flush
Tick == Read \/ StartShutdown \/ Apply \/ EndTick
Faulty == ReadFails \/ CallLost \/ Pilot \/ Crash

Next == Open \/ Safe \/ Client \/ Tick \/ Faulty

Spec == Init /\ [][Next]_vars
(* Remote calls are answered or fail; the loop of the client runs on.      *)
FairSpec == Spec /\ WF_vars(Client)

-----------------------------------------------------------------------------
TypeOK ==
  /\ active \in [Engines -> BOOLEAN] /\ indep \in [Engines -> BOOLEAN]
  /\ level \in [Engines -> Throttles] /\ main \in Throttles
  /\ initially \in [Engines -> BOOLEAN]
  /\ activated \in [Engines -> BOOLEAN] /\ owned \in [Engines -> BOOLEAN]
  /\ cached \in Throttles /\ has \in BOOLEAN
  /\ thrust \in BOOLEAN /\ overdue \in BOOLEAN
  /\ pc \in {"closed", "idle", "sensed", "ready", "main", "release"}
           \cup {"engines", "shutdown"}
  /\ at \in 1..(EngineCount + 1) /\ todo \in Seq(Calls)
  /\ want \in Throttles
  /\ batch \subseteq Items /\ Cardinality(batch) <= BatchMax
  /\ closing \in BOOLEAN /\ whole \in BOOLEAN
  /\ astray \subseteq Engines /\ behind \subseteq Engines
  /\ released \in BOOLEAN /\ faults \in 0..MaxFaults

(* Between ticks the client knows what it did to the vessel: an engine     *)
(* with a throttle of its own is one it owns, and an engine that burns     *)
(* though it did not when the client connected is one it activated.        *)
EnginesAccounted ==
  pc = "idle" =>
    \A e \in Engines \ astray :
      /\ indep[e] => owned[e]
      /\ active[e] => initially[e] \/ activated[e]

(* After a release of which every item was executed, and until the next    *)
(* command, the engines are as the client found them or shut, the main     *)
(* throttle is closed and nothing thrusts.                                 *)
ReleasedWhenAnswered ==
  released =>
    /\ main = 0
    /\ \A e \in Engines \ astray :
         Thrust(e) = 0 /\ ~indep[e] /\ (active[e] => initially[e])

(* While the client trusts its cached throttle and the pilot leaves the    *)
(* main throttle closed, an engine thrusts at the cached level if it was   *)
(* selected for the burn and not at all otherwise.                         *)
ThrustAsCommanded ==
  (pc = "idle" /\ has /\ main = 0) =>
    \A e \in Engines \ (astray \cup behind) :
      Thrust(e) = IF e \in Selected THEN cached ELSE 0

EnginesQuiet == \A e \in Engines : Thrust(e) = 0

(* When guidance commands on, and no throttle any more, the engines        *)
(* end up quiet, whatever calls were lost, engines passed over, and        *)
(* throttles opened by the pilot before: the measured thrust makes the     *)
(* client distrust its cache.                                              *)
CutReachesEngines ==
  (<>[][Apply => want' = 0]_vars /\ []<><<Apply>>_vars) => <>[]EnginesQuiet

(* README.md:97: the release restores the engines the client activated.    *)
EnginesRestored ==
  released => \A e \in Engines : active[e] => initially[e]
=============================================================================
