--------------------------- MODULE KrpcClientProofs ---------------------------
(***************************************************************************)
(* Proofs about KrpcClient, for every number of engines, selection, size   *)
(* of the batches and number of faults.  What the client believes of an    *)
(* engine holds between operations only; IInv says what holds within one:  *)
(* which calls are still to come (Underway), that an effect is noted, or   *)
(* about to be noted, or queued to be undone (Accounted), and how far a    *)
(* release or a command has come along the engines (Releasing, Reached).   *)
(***************************************************************************)
EXTENDS KrpcClient, FiniteSetTheorems, TLAPS

Taking == << <<"take", "none">>, <<"thrust", "owned">> >>
Throttling == << <<"thrust", "owned">> >>
Muting == << <<"take", "none">>, <<"cut", "owned">> >>
Shutting == << <<"cut", "owned">> >>
Giving == << <<"give", "disowned">> >>
Stopping == << <<"stop", "stopped">> >>
Ending == << <<"cut", "none">>, <<"stop", "stopped">> >>

(* The engine in progress is about to be owned, or its throttle is cut.    *)
Owning == todo \in {Throttling, Shutting}

(* The calls still to come belong to the operation, and the earlier ones   *)
(* about the same engine have had their effect unless one was lost.        *)
InBurn ==
  /\ want > 0 /\ at \in Selected
  /\ \/ todo = Burn(FALSE)
     \/ todo = Taking /\ (at \notin astray => active[at])
     \/ todo = Throttling /\ (at \notin astray => active[at] /\ indep[at])
InExclude ==
  /\ want > 0 /\ at \notin Selected
  /\ \/ todo \in {Exclude(TRUE), Muting}
     \/ todo = Shutting /\ indep[at]
InCut == want = 0 /\ todo \in {Cut, Giving}
InShutdown == at \in behind /\ todo \in {Ending, Stopping}

Underway ==
  /\ todo # <<>> => /\ at \in Engines
                    /\ \/ pc = "engines" /\ (InBurn \/ InExclude \/ InCut)
                       \/ pc = "shutdown" /\ InShutdown
  /\ pc # "release" => batch = {}
  /\ pc = "main" => at = 1
  /\ pc \notin {"main", "engines"} => want = 0

(* What was done to an engine is noted, or its undoing is queued.          *)
Accounted ==
  pc # "closed" =>
    \A e \in Engines \ astray :
      /\ indep[e] => owned[e] \/ <<"give", e>> \in batch \/ (at = e /\ Owning)
      /\ active[e] => initially[e] \/ activated[e] \/ <<"stop", e>> \in batch

(* A release has nothing left to undo about the engines it has passed.     *)
Releasing ==
  pc = "release" =>
    /\ \A e \in Engines : e < at => ~owned[e] /\ (activated[e] => initially[e])
    /\ whole => main = 0 \/ <<"main", 0>> \in batch

Quiet ==
  released =>
    /\ pc \notin {"main", "engines"} /\ main = 0
    /\ \A e \in Engines \ astray : ~indep[e] /\ (active[e] => initially[e])

(* What an engine gives while the main throttle is closed, and ought to.   *)
AtZero(e) == IF active[e] /\ indep[e] THEN level[e] ELSE 0
Target(e, t) == IF e \in Selected THEN t ELSE 0

(* A command has reached the engines before the one in progress; a cached  *)
(* one has reached them all.                                               *)
Reached ==
  /\ pc = "engines" =>
       \A e \in Engines \ (astray \cup behind) :
         e < at => AtZero(e) = Target(e, want)
  /\ has /\ pc \notin {"engines", "release"} =>
       \A e \in Engines \ (astray \cup behind) : AtZero(e) = Target(e, cached)

(* TypeOK in parts, with a finite batch.                                   *)
VesselType ==
  /\ active \in [Engines -> BOOLEAN] /\ indep \in [Engines -> BOOLEAN]
  /\ level \in [Engines -> Throttles] /\ main \in Throttles
FlagsType ==
  /\ initially \in [Engines -> BOOLEAN]
  /\ activated \in [Engines -> BOOLEAN] /\ owned \in [Engines -> BOOLEAN]
CacheType ==
  /\ cached \in Throttles /\ has \in BOOLEAN
  /\ thrust \in BOOLEAN /\ overdue \in BOOLEAN
ProgressType ==
  /\ pc \in {"closed", "idle", "sensed", "ready", "main", "release"}
           \cup {"engines", "shutdown"}
  /\ at \in 1 .. (EngineCount + 1) /\ todo \in Seq(Calls)
  /\ want \in Throttles
BatchType ==
  /\ batch \subseteq Items /\ Cardinality(batch) <= BatchMax
  /\ IsFiniteSet(batch)
  /\ closing \in BOOLEAN /\ whole \in BOOLEAN
HistoryType ==
  /\ astray \subseteq Engines /\ behind \subseteq Engines
  /\ released \in BOOLEAN /\ faults \in 0 .. MaxFaults

IInv ==
  /\ VesselType /\ FlagsType /\ CacheType /\ ProgressType /\ BatchType
  /\ HistoryType
  /\ Underway /\ Accounted /\ Releasing /\ Quiet /\ Reached

-----------------------------------------------------------------------------
(* Sequences of one to three calls.                                        *)
LEMMA Tails ==
  ASSUME NEW a, NEW b, NEW c
  PROVE  /\ Tail(<<a>>) = <<>> /\ Tail(<<a, b>>) = <<b>>
         /\ Tail(<<a, b, c>>) = <<b, c>>
         /\ Head(<<a>>) = a /\ Head(<<a, b>>) = a /\ Head(<<a, b, c>>) = a
         /\ <<a>> # <<>> /\ <<a, b>> # <<>> /\ <<a, b, c>> # <<>>
  OBVIOUS

(* The constants and the numbers of the engines.                           *)
LEMMA Numbers ==
  /\ EngineCount \in Nat \ {0} /\ MaxThrottle \in Nat \ {0} /\ MaxFaults \in Nat
  /\ BatchMax \in Nat /\ BatchMax > 3 /\ Selected \subseteq Engines
  /\ Engines \subseteq Nat \ {0} /\ Throttles \subseteq Nat /\ 0 \in Throttles
  /\ \A e \in Engines : e + 1 \in 1 .. (EngineCount + 1)
  BY KrpcClientAssumption DEF Engines, Throttles

(* An empty batch and no calls.                                            *)
LEMMA Nothing ==
  /\ <<>> \in Seq(Calls) /\ {} \subseteq Items
  /\ IsFiniteSet({}) /\ Cardinality({}) <= BatchMax
  BY Numbers, FS_EmptySet

(* A fault counts.                                                         *)
LEMMA FaultType ==
  ASSUME faults \in 0 .. MaxFaults, Fault
  PROVE  faults' \in 0 .. MaxFaults
  BY Numbers DEF Fault

(* One call about the engine in progress.                                  *)
LEMMA OneCall ==
  ASSUME VesselType, want \in Throttles, at \in Engines, NEW c \in Effects, Executed({<<c, at>>})
  PROVE  /\ active' \in [Engines -> BOOLEAN] /\ indep' \in [Engines -> BOOLEAN]
         /\ level' \in [Engines -> Throttles] /\ main' = main
         /\ \A e \in Engines : e # at =>
              active'[e] = active[e] /\ indep'[e] = indep[e] /\ level'[e] = level[e]
         /\ c = "start" => active'[at] /\ indep'[at] = indep[at]
         /\ c = "stop" => ~active'[at] /\ indep'[at] = indep[at]
         /\ c \notin {"start", "stop"} => active'[at] = active[at]
         /\ c = "take" => indep'[at]
         /\ c = "give" => ~indep'[at]
         /\ c \notin {"take", "give"} => indep'[at] = indep[at]
         /\ c = "cut" => level'[at] = 0
         /\ c = "thrust" => level'[at] = want
  BY Numbers DEF VesselType, Executed, Effects

(* A part of a batch.                                                      *)
LEMMA SomeItems ==
  ASSUME VesselType, want \in Throttles, NEW done \in SUBSET Items, Executed(done)
  PROVE  /\ active' \in [Engines -> BOOLEAN] /\ indep' \in [Engines -> BOOLEAN]
         /\ level' \in [Engines -> Throttles] /\ main' \in Throttles
         /\ \A e \in Engines :
              /\ active'[e] <=> active[e] /\ <<"stop", e>> \notin done
              /\ indep'[e] <=> indep[e] /\ <<"give", e>> \notin done
              /\ level'[e] = IF <<"cut", e>> \in done THEN 0 ELSE level[e]
         /\ main' = IF <<"main", 0>> \in done THEN 0 ELSE main
  <1>1. \A e \in Engines : <<"start", e>> \notin done /\ <<"take", e>> \notin done
                           /\ <<"thrust", e>> \notin done
    BY DEF Items
  <1> QED BY <1>1, Numbers DEF VesselType, Executed

-----------------------------------------------------------------------------
(* The steps that touch no engine.                                         *)

LEMMA InitIInv == Init => IInv
  <1> SUFFICES ASSUME Init PROVE IInv
    OBVIOUS
  <1> USE DEF Init
  <1>1. VesselType /\ FlagsType
    BY Numbers DEF VesselType, FlagsType, NoEngine, AllShut
  <1>2. CacheType
    BY Numbers DEF CacheType
  <1>6. HistoryType
    <2>1. faults = 0 /\ 0 \in 0 .. MaxFaults
      BY Numbers
    <2> QED BY <2>1 DEF HistoryType
  <1>3. ProgressType
    BY Numbers, Nothing DEF ProgressType
  <1>4. BatchType
    BY Nothing DEF BatchType
  <1>5. Underway /\ Accounted /\ Releasing /\ Quiet /\ Reached
    BY DEF Underway, Accounted, Releasing, Quiet, Reached
  <1> QED BY <1>1, <1>2, <1>3, <1>4, <1>5, <1>6 DEF IInv

(* An inventory takes the vessel as it is found.                           *)
LEMMA OpenIInv == IInv /\ Open => IInv'
  <1> SUFFICES ASSUME IInv, Open PROVE IInv'
    OBVIOUS
  <1> USE DEF IInv, Open, vessel
  <1>1. VesselType' /\ FlagsType'
    BY DEF VesselType, FlagsType, NoEngine
  <1>2. CacheType' /\ HistoryType'
    BY Numbers DEF CacheType, HistoryType
  <1>3. ProgressType'
    BY Numbers, Nothing DEF ProgressType
  <1>4. BatchType'
    BY Nothing DEF BatchType
  <1>5. Underway' /\ Accounted' /\ Releasing' /\ Quiet' /\ Reached'
    BY DEF Underway, Accounted, Releasing, Quiet, Reached
  <1> QED BY <1>1, <1>2, <1>3, <1>4, <1>5

(* A release starts in any state of the engines that is accounted for.  An *)
(* engine a call about which was lost may have changed.                    *)
LEMMA ReleaseIInv ==
  ASSUME IInv, StartRelease, UNCHANGED <<flags, cache>>,
         pc \notin {"closed", "release"},
         VesselType', main' \in {0, main},
         \A e \in Engines \ astray' : active'[e] = active[e] /\ indep'[e] = indep[e],
         thrust' \in BOOLEAN, overdue' \in BOOLEAN, closing' \in BOOLEAN,
         faults' \in 0 .. MaxFaults, UNCHANGED <<behind, released>>,
         astray' \subseteq Engines, astray \subseteq astray',
         Owning => at \in astray'
  PROVE  IInv'
  <1> USE DEF IInv, StartRelease, flags, cache
  <1>1. IsFiniteSet(batch') /\ Cardinality(batch') = 1
    BY FS_Singleton
  <1>2. FlagsType' /\ CacheType' /\ HistoryType'
    BY DEF FlagsType, CacheType, HistoryType
  <1>3. ProgressType' /\ BatchType'
    BY <1>1, Numbers, Nothing DEF ProgressType, BatchType, Items
  <1>4. Underway'
    BY DEF Underway
  <1>5. Accounted'
    BY DEF Accounted, Underway
  <1>6. Releasing' /\ Quiet' /\ Reached'
    BY Numbers DEF Releasing, Quiet, Reached
  <1> QED BY <1>2, <1>3, <1>4, <1>5, <1>6

LEMMA SafeIInv == IInv /\ Safe => IInv'
  <1> SUFFICES ASSUME IInv, Safe PROVE IInv'
    OBVIOUS
  <1>1. todo = <<>>
    BY DEF IInv, Underway, Safe
  <1>2. ~Owning
    BY <1>1, Tails DEF Owning, Throttling, Shutting
  <1>3. VesselType'
    BY DEF Safe, IInv, VesselType, vessel
  <1> QED BY <1>2, <1>3, ReleaseIInv
        DEF Safe, IInv, CacheType, HistoryType, history, feedback, vessel

LEMMA ReadFailsIInv == IInv /\ ReadFails => IInv'
  <1> SUFFICES ASSUME IInv, ReadFails PROVE IInv'
    OBVIOUS
  <1>1. todo = <<>>
    BY DEF IInv, Underway, ReadFails
  <1>2. ~Owning
    BY <1>1, Tails DEF Owning, Throttling, Shutting
  <1>3. faults' \in 0 .. MaxFaults
    BY FaultType DEF ReadFails, IInv, HistoryType
  <1>4. VesselType'
    BY DEF ReadFails, IInv, VesselType, vessel
  <1> QED BY <1>2, <1>3, <1>4, ReleaseIInv
        DEF ReadFails, IInv, CacheType, BatchType, HistoryType, history, feedback,
            vessel

(* The steps of a tick between two calls.                                  *)
LEMMA TickIInv == IInv /\ Tick => IInv'
  <1> SUFFICES ASSUME IInv, Tick PROVE IInv'
    OBVIOUS
  <1> USE DEF IInv, vessel, flags, cache, feedback, release, history
  <1>1. todo = <<>> /\ batch = {} /\ want = 0 /\ todo' = <<>> /\ batch' = {}
    BY DEF Underway, Tick, Read, EndTick, StartShutdown, Apply
  <1>2. ~Owning /\ ~Owning'
    BY <1>1, Tails DEF Owning, Throttling, Shutting
  <1>3. /\ UNCHANGED <<vessel, flags, cached, astray, behind>> /\ (has' => has)
        /\ pc' \in {"sensed", "idle", "shutdown", "main"}
        /\ pc \in {"idle", "sensed", "ready"} /\ (pc' # "main" => want' = 0)
        /\ (released' => released) /\ (pc' = "main" => ~released')
    BY <1>1 DEF Tick, Read, EndTick, StartShutdown, Apply, CacheType
  <1>4. VesselType' /\ FlagsType'
    BY <1>3 DEF VesselType, FlagsType
  <1>5. CacheType'
    BY DEF CacheType, Tick, Read, EndTick, StartShutdown, Apply, Reassert, Thrusting
  <1>6. ProgressType'
    BY Numbers, <1>1, <1>3, Nothing
    DEF ProgressType, Tick, Read, EndTick, StartShutdown, Apply
  <1>7. BatchType' /\ HistoryType'
    BY DEF BatchType, HistoryType, Tick, Read, EndTick, StartShutdown, Apply
  <1>8. Underway'
    <2>1. pc' = "main" => at' = 1
      BY DEF Tick, Read, EndTick, StartShutdown, Apply
    <2> QED BY <2>1, <1>1, <1>3 DEF Underway
  <1>9. Accounted'
    BY <1>1, <1>2, <1>3 DEF Accounted
  <1>10. Releasing' /\ Quiet'
    BY <1>3 DEF Releasing, Quiet, Tick, Read, EndTick, StartShutdown, Apply
  <1>11. Reached'
    BY <1>3 DEF Reached, AtZero
  <1> QED BY <1>4, <1>5, <1>6, <1>7, <1>8, <1>9, <1>10, <1>11

(* The pilot has only the main throttle, which the parts about engines do  *)
(* not look at.                                                            *)
LEMMA PilotIInv == IInv /\ Pilot => IInv'
  <1> SUFFICES ASSUME IInv, Pilot PROVE IInv'
    OBVIOUS
  <1> USE DEF IInv, Pilot, flags, cache, feedback, progress
  <1>1. VesselType' /\ FlagsType' /\ CacheType' /\ ProgressType'
    BY DEF VesselType, FlagsType, CacheType, ProgressType
  <1>2. BatchType' /\ HistoryType'
    BY FaultType DEF BatchType, HistoryType
  <1>3. Underway'
    BY DEF Underway, InBurn, InExclude, InCut, InShutdown
  <1>4. Accounted'
    BY DEF Accounted, Owning
  <1>5. Releasing' /\ Quiet' /\ Reached'
    BY DEF Releasing, Quiet, Reached, AtZero
  <1> QED BY <1>1, <1>2, <1>3, <1>4, <1>5

LEMMA CrashIInv == IInv /\ Crash => IInv'
  <1> SUFFICES ASSUME IInv, Crash PROVE IInv'
    OBVIOUS
  <1> USE DEF IInv, Crash, vessel
  <1>1. VesselType' /\ FlagsType'
    BY DEF VesselType, FlagsType, NoEngine
  <1>2. CacheType' /\ HistoryType'
    BY Numbers, FaultType DEF CacheType, HistoryType
  <1>3. ProgressType'
    BY Numbers, Nothing DEF ProgressType
  <1>4. BatchType'
    BY Nothing DEF BatchType
  <1>5. Underway' /\ Accounted' /\ Releasing' /\ Quiet' /\ Reached'
    BY DEF Underway, Accounted, Releasing, Quiet, Reached
  <1> QED BY <1>1, <1>2, <1>3, <1>4, <1>5

-----------------------------------------------------------------------------
(* The release.                                                            *)

(* What undoes one engine is at most three items.                          *)
LEMMA UndoingItems ==
  ASSUME NEW e \in Engines
  PROVE  Undoing(e) \subseteq Items /\ IsFiniteSet(Undoing(e))
  <1>1. IsFiniteSet({<<"cut", e>>, <<"give", e>>})
    <2>1. {<<"cut", e>>, <<"give", e>>} = {<<"cut", e>>} \cup {<<"give", e>>}
      OBVIOUS
    <2>2. IsFiniteSet({<<"cut", e>>}) /\ IsFiniteSet({<<"give", e>>})
      BY FS_Singleton
    <2>3. IsFiniteSet({<<"cut", e>>} \cup {<<"give", e>>})
      BY <2>2, FS_Union
    <2> QED BY <2>1, <2>3
  <1>2. IsFiniteSet({<<"stop", e>>}) /\ IsFiniteSet({})
    BY FS_Singleton, FS_EmptySet
  <1>3. IsFiniteSet(Undoing(e))
    BY <1>1, <1>2, FS_Union DEF Undoing
  <1> QED BY <1>3 DEF Undoing, Items

LEMMA QueueIInv == IInv /\ Queue => IInv'
  <1> SUFFICES ASSUME IInv, Queue PROVE IInv'
    OBVIOUS
  <1> USE DEF IInv
  <1>1. PICK e \in Engines :
          /\ IsNext(e, ToUndo) /\ Fits(e) /\ batch' = batch \cup Undoing(e)
          /\ at' = e + 1
          /\ owned' = [owned EXCEPT ![e] = FALSE]
          /\ activated' = [activated EXCEPT ![e] = @ /\ initially[e]]
    BY DEF Queue
  <1>2. /\ UNCHANGED <<vessel, initially, cache, feedback, pc, todo, want>>
        /\ UNCHANGED <<closing, whole, history, faults>> /\ pc = "release"
    BY DEF Queue
  <1> USE DEF vessel, cache, feedback, history
  <1>3. todo = <<>> /\ todo' = <<>>
    BY <1>2 DEF Underway
  <1>4. ~Owning /\ ~Owning'
    BY <1>3, Tails DEF Owning, Throttling, Shutting
  <1>5. VesselType' /\ CacheType' /\ HistoryType'
    BY <1>2 DEF VesselType, CacheType, HistoryType
  <1>6. FlagsType'
    BY <1>1, <1>2 DEF FlagsType
  <1>7. ProgressType'
    BY <1>1, <1>2, Numbers DEF ProgressType
  <1>8. BatchType'
    <2>1. IsFiniteSet(batch')
      BY <1>1, UndoingItems, FS_Union DEF BatchType
    <2>2. /\ Cardinality(batch) \in Nat /\ Cardinality(Undoing(e)) \in Nat
          /\ Cardinality(batch \cap Undoing(e)) \in Nat
          /\ Cardinality(batch \cup Undoing(e)) = Cardinality(batch)
               + Cardinality(Undoing(e)) - Cardinality(batch \cap Undoing(e))
      BY UndoingItems, FS_Union, FS_Intersection, FS_CardinalityType DEF BatchType
    <2>3. Cardinality(batch') <= BatchMax
      BY <1>1, <2>2, Numbers DEF Fits
    <2> QED BY <1>1, <1>2, <2>1, <2>3, UndoingItems DEF BatchType
  <1>9. Underway'
    BY <1>2, <1>3 DEF Underway
  <1>10. Accounted'
    <2> SUFFICES ASSUME NEW f \in Engines \ astray
                 PROVE  /\ indep[f] => owned'[f] \/ <<"give", f>> \in batch'
                        /\ active[f] => initially[f] \/ activated'[f]
                                        \/ <<"stop", f>> \in batch'
      BY <1>2 DEF Accounted
    <2>1. /\ indep[f] => owned[f] \/ <<"give", f>> \in batch
          /\ active[f] => initially[f] \/ activated[f] \/ <<"stop", f>> \in batch
      BY <1>2, <1>4 DEF Accounted
    <2> QED BY <2>1, <1>1 DEF Undoing, FlagsType
  <1>11. Releasing'
    <2>1. \A f \in Engines : f < e => ~owned[f] /\ (activated[f] => initially[f])
      <3> SUFFICES ASSUME NEW f \in Engines, f < e
                   PROVE  ~owned[f] /\ (activated[f] => initially[f])
        OBVIOUS
      <3>1. CASE f < at
        BY <3>1, <1>2 DEF Releasing
      <3>2. CASE f >= at
        <4>1. f \notin ToUndo
          BY <3>2, <1>1, Numbers DEF IsNext, Ahead
        <4> QED BY <4>1 DEF ToUndo, Undoing
      <3> QED BY <3>1, <3>2, Numbers DEF ProgressType
    <2>2. \A f \in Engines : f < at' => f < e \/ f = e
      BY <1>1, Numbers
    <2>3. \A f \in Engines : f < at' => ~owned'[f] /\ (activated'[f] => initially[f])
      BY <2>1, <2>2, <1>1 DEF FlagsType
    <2> QED BY <2>3, <1>1, <1>2 DEF Releasing
  <1>12. Quiet' /\ Reached'
    BY <1>2 DEF Quiet, Reached
  <1> QED BY <1>5, <1>6, <1>7, <1>8, <1>9, <1>10, <1>11, <1>12

(* A batch.  The items of an engine that is not astray were all executed.  *)
LEMMA FlushIInv == IInv /\ Flush => IInv'
  <1> SUFFICES ASSUME IInv, Flush PROVE IInv'
    OBVIOUS
  <1> USE DEF IInv
  <1>1. PICK done \in SUBSET batch, ok \in BOOLEAN :
          /\ IF done = batch /\ ok THEN UNCHANGED faults ELSE Fault
          /\ Executed(done)
          /\ batch' = {}
          /\ astray' = astray \cup {i[2] : i \in (batch \ done) \ {<<"main", 0>>}}
          /\ IF Ahead(ToUndo) = {} \/ ~ok
               THEN /\ Finish(whole /\ done = batch, Ahead(ToUndo))
                    /\ whole' = FALSE
               ELSE /\ whole' = (whole /\ done = batch)
                    /\ UNCHANGED <<pc, at, closing, behind, released, cache>>
    BY DEF Flush
  <1>2. pc = "release" /\ UNCHANGED <<flags, feedback, todo, want>>
    BY DEF Flush
  <1> USE DEF flags, feedback, cache
  <1>3. todo = <<>> /\ want = 0
    BY <1>2 DEF Underway
  <1>4. ~Owning
    BY <1>3, Tails DEF Owning, Throttling, Shutting
  <1>5. /\ active' \in [Engines -> BOOLEAN] /\ indep' \in [Engines -> BOOLEAN]
        /\ level' \in [Engines -> Throttles] /\ main' \in Throttles
        /\ \A e \in Engines :
             /\ active'[e] <=> active[e] /\ <<"stop", e>> \notin done
             /\ indep'[e] <=> indep[e] /\ <<"give", e>> \notin done
             /\ level'[e] = IF <<"cut", e>> \in done THEN 0 ELSE level[e]
        /\ main' = IF <<"main", 0>> \in done THEN 0 ELSE main
    <2>1. done \in SUBSET Items
      BY <1>1 DEF BatchType
    <2> QED BY <2>1, <1>1, SomeItems DEF ProgressType
  <1>6. /\ astray \subseteq astray'
        /\ \A e \in Engines \ astray', c \in {"stop", "give"} :
              <<c, e>> \in batch => <<c, e>> \in done
    <2>1. \A e \in Engines, c \in {"stop", "give"} :
            <<c, e>> \in batch /\ <<c, e>> \notin done => e \in astray'
      BY <1>1
    <2> QED BY <2>1, <1>1
  <1>7. \A e \in Engines \ Ahead(ToUndo) :
          ~owned[e] /\ (activated[e] => initially[e])
    <2> SUFFICES ASSUME NEW e \in Engines, e \notin Ahead(ToUndo)
                 PROVE  ~owned[e] /\ (activated[e] => initially[e])
      OBVIOUS
    <2>1. CASE e < at
      BY <2>1, <1>2 DEF Releasing
    <2>2. CASE e >= at
      BY <2>2 DEF Ahead, ToUndo, Undoing
    <2> QED BY <2>1, <2>2, Numbers DEF ProgressType
  <1>8. \A e \in Engines \ astray' :
          /\ indep'[e] => indep[e] /\ owned[e]
          /\ active'[e] => active[e] /\ (initially[e] \/ activated[e])
    BY <1>2, <1>4, <1>5, <1>6 DEF Accounted
  <1>9. VesselType' /\ FlagsType'
    BY <1>2, <1>5 DEF VesselType, FlagsType
  <1>10. CacheType'
    BY <1>1, <1>2, Numbers DEF CacheType, Finish
  <1>11. ProgressType'
    BY <1>1, <1>2, Numbers DEF ProgressType, Finish
  <1>12. BatchType'
    BY <1>1, Nothing DEF BatchType, Finish
  <1>13. HistoryType'
    <2>1. astray' \subseteq Engines
      BY <1>1 DEF HistoryType, BatchType, Items
    <2>2. behind' \subseteq Engines
      BY <1>1 DEF HistoryType, Finish, Ahead, ToUndo
    <2>3. faults' \in 0 .. MaxFaults
      BY <1>1, FaultType DEF HistoryType
    <2>4. released' \in BOOLEAN
      BY <1>1 DEF HistoryType, Finish
    <2> QED BY <2>1, <2>2, <2>3, <2>4 DEF HistoryType
  <1>14. Underway'
    BY <1>1, <1>2, <1>3 DEF Underway, Finish
  <1>15. Accounted'
    BY <1>8, <1>2 DEF Accounted
  <1>16. whole /\ done = batch => main' = 0
    BY <1>2, <1>5 DEF Releasing
  <1>17. CASE Ahead(ToUndo) = {} \/ ~ok
    <2>1. /\ pc' \in {"closed", "idle"} /\ cached' = 0
          /\ released' = (whole /\ done = batch /\ Ahead(ToUndo) = {})
          /\ behind' = Ahead(ToUndo)
      BY <1>1, <1>17 DEF Finish
    <2>2. Quiet'
      BY <2>1, <1>2, <1>7, <1>8, <1>16 DEF Quiet
    <2>3. \A e \in Engines \ (astray' \cup behind') : AtZero(e)' = 0
      BY <2>1, <1>7, <1>8 DEF AtZero
    <2>4. Reached'
      BY <2>1, <2>3 DEF Reached, Target
    <2> QED BY <2>1, <2>2, <2>4, <1>9, <1>10, <1>11, <1>12, <1>13, <1>14, <1>15
            DEF Releasing
  <1>18. CASE ~(Ahead(ToUndo) = {} \/ ~ok)
    <2>1. /\ UNCHANGED <<pc, at, released>> /\ whole' = (whole /\ done = batch)
      BY <1>1, <1>18
    <2>2. Releasing'
      BY <2>1, <1>2, <1>16 DEF Releasing
    <2>3. Quiet'
      BY <2>1, <1>2, <1>5, <1>6, <1>8 DEF Quiet
    <2>4. Reached'
      BY <2>1, <1>2 DEF Reached
    <2> QED BY <2>2, <2>3, <2>4, <1>9, <1>10, <1>11, <1>12, <1>13, <1>14, <1>15
  <1> QED BY <1>17, <1>18

-----------------------------------------------------------------------------
(* A command.                                                              *)

(* Shutting the main throttle does nothing to an engine.                   *)
LEMMA MainCall ==
  ASSUME IInv, NEW done \in {{}, MainItems}, Executed(done)
  PROVE  /\ VesselType' /\ UNCHANGED <<active, indep, level>>
         /\ main' \in {0, main}
  <1> USE DEF IInv
  <1>1. done \in SUBSET Items /\ \A e \in Engines, c \in {"stop", "give", "cut"} :
                                   <<c, e>> \notin done
    BY DEF MainItems, Items
  <1>2. /\ active' \in [Engines -> BOOLEAN] /\ indep' \in [Engines -> BOOLEAN]
        /\ level' \in [Engines -> Throttles] /\ main' \in Throttles
        /\ \A e \in Engines :
             /\ active'[e] <=> active[e] /\ <<"stop", e>> \notin done
             /\ indep'[e] <=> indep[e] /\ <<"give", e>> \notin done
             /\ level'[e] = IF <<"cut", e>> \in done THEN 0 ELSE level[e]
        /\ main' = IF <<"main", 0>> \in done THEN 0 ELSE main
    BY <1>1, SomeItems DEF ProgressType
  <1>3. active' = active
    <2>1. \A e \in Engines : active'[e] = active[e]
      BY <1>1, <1>2 DEF VesselType
    <2> QED BY <2>1, <1>2 DEF VesselType
  <1>4. indep' = indep
    <2>1. \A e \in Engines : indep'[e] = indep[e]
      BY <1>1, <1>2 DEF VesselType
    <2> QED BY <2>1, <1>2 DEF VesselType
  <1>5. level' = level
    <2>1. \A e \in Engines : level'[e] = level[e]
      BY <1>1, <1>2 DEF VesselType
    <2> QED BY <2>1, <1>2 DEF VesselType
  <1> QED BY <1>2, <1>3, <1>4, <1>5 DEF VesselType

LEMMA ShutMainIInv == IInv /\ ShutMain => IInv'
  <1> SUFFICES ASSUME IInv, ShutMain PROVE IInv'
    OBVIOUS
  <1> USE DEF IInv, ShutMain, flags, cache, feedback, release, history
  <1>1. VesselType' /\ UNCHANGED <<active, indep, level>> /\ main' \in {0, main}
    BY MainCall
  <1>2. todo = <<>> /\ todo' = <<>> /\ at = 1 /\ at' = 1 /\ batch = {}
    BY DEF Underway
  <1>3. ~Owning
    BY <1>2, Tails DEF Owning, Throttling, Shutting
  <1>4. FlagsType' /\ CacheType' /\ BatchType' /\ HistoryType'
    BY DEF FlagsType, CacheType, BatchType, HistoryType
  <1>5. ProgressType'
    BY Numbers, Nothing DEF ProgressType
  <1>6. Underway'
    BY <1>2 DEF Underway
  <1>7. Accounted'
    BY <1>1, <1>2, <1>3 DEF Accounted
  <1>8. Releasing' /\ Quiet'
    BY DEF Releasing, Quiet
  <1>9. Reached'
    <2>1. \A e \in Engines : ~(e < at')
      BY <1>2, Numbers
    <2>2. \A e \in Engines : AtZero(e)' = AtZero(e)
      BY <1>1 DEF AtZero
    <2> QED BY <2>1, <2>2 DEF Reached
  <1> QED BY <1>1, <1>4, <1>5, <1>6, <1>7, <1>8, <1>9

(* The next engine of the loop over all of them is the one at hand.        *)
LEMMA NextEngine ==
  ASSUME ProgressType, NEW e \in Engines, IsNext(e, Engines)
  PROVE  e = at
  <1>1. e >= at /\ at \in Nat \ {0} /\ e \in Nat /\ e <= EngineCount
    BY Numbers DEF IsNext, Ahead, ProgressType, Engines
  <1>2. at \in Ahead(Engines)
    BY <1>1, Numbers DEF Ahead, Engines
  <1>3. e <= at
    BY <1>2 DEF IsNext
  <1> QED BY <1>1, <1>3

(* The calls about an engine are sequences of calls.                       *)
LEMMA CallTypes ==
  /\ \A b \in BOOLEAN : Burn(b) \in Seq(Calls) /\ Exclude(b) \in Seq(Calls)
  /\ Cut \in Seq(Calls) /\ Ending \in Seq(Calls)
  <1>1. /\ <<"take", "none">> \in Calls /\ <<"thrust", "owned">> \in Calls
        /\ <<"start", "started">> \in Calls /\ <<"stop", "none">> \in Calls
        /\ <<"cut", "owned">> \in Calls /\ <<"cut", "none">> \in Calls
        /\ <<"give", "disowned">> \in Calls /\ <<"stop", "stopped">> \in Calls
    BY DEF Calls, Effects, Notes
  <1> QED BY <1>1 DEF Burn, Exclude, Cut, Ending

LEMMA VisitEngineIInv == IInv /\ VisitEngine => IInv'
  <1> SUFFICES ASSUME IInv, VisitEngine PROVE IInv'
    OBVIOUS
  <1> USE DEF IInv
  <1>1. PICK e \in Engines :
          /\ IsNext(e, Engines)
          /\ \/ /\ todo' = IF want = 0 THEN Cut
                           ELSE IF e \in Selected THEN Burn(active[e])
                           ELSE Exclude(active[e])
                /\ at' = e /\ UNCHANGED <<behind, faults>>
             \/ /\ want > 0 /\ e \in Selected /\ Fault
                /\ behind' = behind \cup {e} /\ at' = e + 1 /\ UNCHANGED todo
             \/ /\ want > 0 /\ e \notin Selected /\ Fault
                /\ todo' = Exclude(FALSE) /\ at' = e /\ UNCHANGED behind
    BY DEF VisitEngine
  <1>2. /\ UNCHANGED <<vessel, flags, cache, feedback, pc, want, release>>
        /\ UNCHANGED <<astray, released>> /\ pc = "engines" /\ todo = <<>>
    BY DEF VisitEngine
  <1> USE DEF vessel, flags, cache, feedback, release
  <1>3. e = at /\ at \in Engines
    BY <1>1, NextEngine
  <1>4. ~Owning
    BY <1>2, Tails DEF Owning, Throttling, Shutting
  <1>5. VesselType' /\ FlagsType' /\ CacheType' /\ BatchType'
    BY <1>2 DEF VesselType, FlagsType, CacheType, BatchType
  <1>6. HistoryType'
    BY <1>1, <1>2, FaultType DEF HistoryType
  <1>7. ProgressType'
    <2>1. todo' \in Seq(Calls)
      BY <1>1, <1>2, CallTypes DEF ProgressType, VesselType
    <2> QED BY <1>1, <1>2, <1>3, <2>1, Numbers DEF ProgressType
  <1>8. Underway'
    <2>1. CASE todo' = <<>>
      BY <2>1, <1>2 DEF Underway
    <2>2. CASE todo' # <<>>
      <3>1. at' = at
        BY <2>2, <1>1, <1>2, <1>3
      <3>2. want > 0 \/ want = 0
        BY Numbers DEF ProgressType
      <3>3. CASE want = 0 /\ todo' = Cut
        BY <3>1, <3>3, <1>2, <1>3 DEF Underway, InCut
      <3>4. CASE want > 0 /\ at \in Selected /\ todo' = Burn(active[at])
        <4>1. active[at] = TRUE \/ active[at] = FALSE
          BY <1>3 DEF VesselType
        <4>2. InBurn'
          BY <3>1, <3>4, <4>1, <1>2 DEF InBurn, Burn, Taking
        <4> QED BY <4>2, <3>1, <1>2, <1>3 DEF Underway
      <3>5. CASE want > 0 /\ at \notin Selected /\ todo' \in {Exclude(TRUE), Exclude(FALSE)}
        <4>1. InExclude'
          BY <3>1, <3>5, <1>2 DEF InExclude, Exclude, Muting
        <4> QED BY <4>1, <3>1, <1>2, <1>3 DEF Underway
      <3> QED BY <3>2, <3>3, <3>4, <3>5, <2>2, <1>1, <1>2, <1>3 DEF VesselType
    <2> QED BY <2>1, <2>2
  <1>9. Accounted'
    BY <1>2, <1>4 DEF Accounted
  <1>10. Releasing' /\ Quiet'
    BY <1>2 DEF Releasing, Quiet
  <1>11. Reached'
    <2>1. \A f \in Engines : AtZero(f)' = AtZero(f) /\ Target(f, want)' = Target(f, want)
      BY <1>2 DEF AtZero, Target
    <2>2. \A f \in Engines \ (astray' \cup behind') :
            f < at' => f < at /\ f \notin behind
      <3>1. /\ behind \subseteq behind'
            /\ at' = at \/ (at' = at + 1 /\ at \in behind')
        BY <1>1, <1>3
      <3> QED BY <3>1, <1>3, Numbers
    <2> QED BY <2>1, <2>2, <1>2 DEF Reached
  <1> QED BY <1>5, <1>6, <1>7, <1>8, <1>9, <1>10, <1>11

LEMMA VisitBurntIInv == IInv /\ VisitBurnt => IInv'
  <1> SUFFICES ASSUME IInv, VisitBurnt PROVE IInv'
    OBVIOUS
  <1> USE DEF IInv
  <1>1. PICK e \in Engines :
          IsNext(e, Selected) /\ at' = e /\ behind' = behind \cup {e}
    BY DEF VisitBurnt
  <1>2. /\ UNCHANGED <<vessel, flags, cache, feedback, pc, want, release>>
        /\ UNCHANGED <<astray, released, faults>> /\ pc = "shutdown"
        /\ todo = <<>> /\ todo' = Ending
    BY DEF VisitBurnt, Ending
  <1> USE DEF vessel, flags, cache, feedback, release
  <1>3. ~Owning
    BY <1>2, Tails DEF Owning, Throttling, Shutting
  <1>4. VesselType' /\ FlagsType' /\ CacheType' /\ BatchType' /\ HistoryType'
    BY <1>1, <1>2 DEF VesselType, FlagsType, CacheType, BatchType, HistoryType
  <1>5. ProgressType'
    BY <1>1, <1>2, CallTypes, Numbers DEF ProgressType, Engines
  <1>6. Underway'
    BY <1>1, <1>2 DEF Underway, InShutdown
  <1>7. Accounted'
    BY <1>2, <1>3 DEF Accounted
  <1>8. Releasing' /\ Quiet'
    BY <1>2 DEF Releasing, Quiet
  <1>9. Reached'
    <2>1. \A f \in Engines : /\ AtZero(f)' = AtZero(f)
                            /\ Target(f, cached)' = Target(f, cached)
      BY <1>2 DEF AtZero, Target
    <2> QED BY <2>1, <1>1, <1>2 DEF Reached
  <1> QED BY <1>4, <1>5, <1>6, <1>7, <1>8, <1>9

LEMMA LoopEndsIInv == IInv /\ (EnginesDone \/ ShutdownDone) => IInv'
  <1> SUFFICES ASSUME IInv, EnginesDone \/ ShutdownDone PROVE IInv'
    OBVIOUS
  <1> USE DEF IInv
  <1>1. /\ UNCHANGED <<vessel, flags, feedback, todo, release, history, faults>>
        /\ todo = <<>> /\ at' = 1 /\ pc' \in {"ready", "idle"}
        /\ pc \in {"engines", "shutdown"}
    BY DEF EnginesDone, ShutdownDone
  <1> USE DEF vessel, flags, cache, feedback, release, history
  <1>2. ~Owning
    BY <1>1, Tails DEF Owning, Throttling, Shutting
  <1>3. VesselType' /\ FlagsType' /\ BatchType' /\ HistoryType'
    BY <1>1 DEF VesselType, FlagsType, BatchType, HistoryType
  <1>4. CacheType'
    BY <1>1 DEF CacheType, ProgressType, EnginesDone, ShutdownDone
  <1>5. ProgressType'
    BY <1>1, Numbers DEF ProgressType, EnginesDone, ShutdownDone
  <1>6. Underway'
    BY <1>1 DEF Underway, EnginesDone, ShutdownDone
  <1>7. Accounted'
    BY <1>1, <1>2 DEF Accounted
  <1>8. Releasing' /\ Quiet'
    BY <1>1 DEF Releasing, Quiet
  <1>9. \A e \in Engines : AtZero(e)' = AtZero(e)
    BY <1>1 DEF AtZero
  <1>10. CASE EnginesDone
    <2>1. \A e \in Engines : e < at
      BY <1>10, Numbers DEF EnginesDone, Ahead, ProgressType
    <2> QED BY <2>1, <1>1, <1>3, <1>4, <1>5, <1>6, <1>7, <1>8, <1>9, <1>10
            DEF Reached, EnginesDone, Target
  <1>11. CASE ShutdownDone
    BY <1>1, <1>3, <1>4, <1>5, <1>6, <1>7, <1>8, <1>9, <1>11
    DEF Reached, ShutdownDone, Target
  <1> QED BY <1>10, <1>11

-----------------------------------------------------------------------------
(* The calls about an engine.                                              *)

(* What is still to come when calls are outstanding, one sequence at a     *)
(* time, with what has had its effect.                                     *)
Stage(t, o, c) == todo = t /\ pc = o /\ c

LEMMA Stages ==
  ASSUME IInv, todo # <<>>
  PROVE  /\ at \in Engines /\ batch = {}
         /\ \/ Stage(Burn(FALSE), "engines", want > 0 /\ at \in Selected)
            \/ Stage(Taking, "engines",
                     want > 0 /\ at \in Selected /\ (at \notin astray => active[at]))
            \/ Stage(Throttling, "engines",
                     at \in Selected /\ (at \notin astray => active[at] /\ indep[at]))
            \/ Stage(Exclude(TRUE), "engines", want > 0 /\ at \notin Selected)
            \/ Stage(Muting, "engines", want > 0 /\ at \notin Selected)
            \/ Stage(Shutting, "engines", at \notin Selected)
            \/ Stage(Cut, "engines", want = 0)
            \/ Stage(Giving, "engines", want = 0)
            \/ Stage(Ending, "shutdown", at \in behind)
            \/ Stage(Stopping, "shutdown", at \in behind)
  BY DEF IInv, Underway, InBurn, InExclude, InCut, InShutdown, Stage

(* What an answered call does: the effect of the call, the note, and what  *)
(* is left to do.                                                          *)
LEMMA AnsweredStep ==
  ASSUME IInv, Answered, NEW c \in Effects, NEW n \in Notes, NEW rest \in Seq(Calls),
         Head(todo) = <<c, n>>, Tail(todo) = rest, at \in Engines
  PROVE  /\ todo' = rest /\ VesselType' /\ FlagsType' /\ main' = main
         /\ at' = IF rest = <<>> THEN at + 1 ELSE at
         /\ behind' = IF rest = <<>> /\ pc = "engines" THEN behind \ {at} ELSE behind
         /\ UNCHANGED <<cached, has, thrust, overdue, pc, want>>
         /\ UNCHANGED <<batch, closing, whole, astray, released, faults, initially>>
         /\ \A e \in Engines : e # at =>
              /\ active'[e] = active[e] /\ indep'[e] = indep[e]
              /\ level'[e] = level[e]
              /\ owned'[e] = owned[e] /\ activated'[e] = activated[e]
         /\ c = "start" => active'[at] /\ indep'[at] = indep[at]
         /\ c = "stop" => ~active'[at] /\ indep'[at] = indep[at]
         /\ c \notin {"start", "stop"} => active'[at] = active[at]
         /\ c = "take" => indep'[at]
         /\ c = "give" => ~indep'[at]
         /\ c \notin {"take", "give"} => indep'[at] = indep[at]
         /\ c = "cut" => level'[at] = 0
         /\ c = "thrust" => level'[at] = want
         /\ activated'[at] = IF n = "started" THEN TRUE
                             ELSE IF n = "stopped" THEN FALSE ELSE activated[at]
         /\ owned'[at] = IF n = "owned" THEN TRUE
                         ELSE IF n = "disowned" THEN FALSE ELSE owned[at]
  <1> USE DEF IInv
  <1>1. Executed({<<c, at>>}) /\ Note(n)
    <2>1. Head(todo)[1] = c /\ Head(todo)[2] = n
      OBVIOUS
    <2>2. Executed({<<Head(todo)[1], at>>}) /\ Note(Head(todo)[2])
      BY DEF Answered
    <2> QED BY <2>1, <2>2
  <1>2. /\ active' \in [Engines -> BOOLEAN] /\ indep' \in [Engines -> BOOLEAN]
        /\ level' \in [Engines -> Throttles] /\ main' = main
        /\ \A e \in Engines : e # at =>
             active'[e] = active[e] /\ indep'[e] = indep[e] /\ level'[e] = level[e]
        /\ c = "start" => active'[at] /\ indep'[at] = indep[at]
        /\ c = "stop" => ~active'[at] /\ indep'[at] = indep[at]
        /\ c \notin {"start", "stop"} => active'[at] = active[at]
        /\ c = "take" => indep'[at]
        /\ c = "give" => ~indep'[at]
        /\ c \notin {"take", "give"} => indep'[at] = indep[at]
        /\ c = "cut" => level'[at] = 0
        /\ c = "thrust" => level'[at] = want
    BY <1>1, OneCall DEF ProgressType
  <1>3. /\ FlagsType' /\ UNCHANGED initially
        /\ activated'[at] = IF n = "started" THEN TRUE
                            ELSE IF n = "stopped" THEN FALSE ELSE activated[at]
        /\ owned'[at] = IF n = "owned" THEN TRUE
                        ELSE IF n = "disowned" THEN FALSE ELSE owned[at]
        /\ \A e \in Engines : e # at =>
             owned'[e] = owned[e] /\ activated'[e] = activated[e]
    BY <1>1 DEF Note, FlagsType
  <1>4. VesselType'
    BY <1>2 DEF VesselType
  <1>5. /\ todo' = rest
        /\ at' = IF rest = <<>> THEN at + 1 ELSE at
        /\ behind' = IF rest = <<>> /\ pc = "engines" THEN behind \ {at} ELSE behind
        /\ UNCHANGED <<cached, has, thrust, overdue, pc, want>>
        /\ UNCHANGED <<batch, closing, whole, astray, released, faults>>
    BY DEF Answered, cache, feedback, release
  <1> QED BY <1>2, <1>3, <1>4, <1>5

(* One stage is followed by the next: enough about the engine in progress. *)
LEMMA AnsweredStage ==
  ASSUME IInv, Answered, NEW c \in Effects, NEW n \in Notes, NEW rest \in Seq(Calls),
         Head(todo) = <<c, n>>, Tail(todo) = rest, at \in Engines, todo # <<>>,
         \/ rest = <<>>
         \/ pc = "engines" /\ (InBurn \/ InExclude \/ InCut)'
         \/ pc = "shutdown" /\ InShutdown',
         \A e \in Engines \ astray : e = at =>
           /\ indep'[e] => owned'[e] \/ (at' = e /\ Owning')
           /\ active'[e] => initially[e] \/ activated'[e]
           /\ pc = "engines" /\ rest = <<>> => AtZero(e)' = Target(e, want),
         pc = "shutdown" => at \in behind /\ c \in {"cut", "stop"},
         Owning => rest = <<>>
  PROVE  IInv'
  <1> USE DEF IInv
  <1>1. /\ todo' = rest /\ VesselType' /\ FlagsType' /\ main' = main
        /\ at' = IF rest = <<>> THEN at + 1 ELSE at
        /\ behind' = IF rest = <<>> /\ pc = "engines" THEN behind \ {at} ELSE behind
        /\ UNCHANGED <<cached, has, thrust, overdue, pc, want>>
        /\ UNCHANGED <<batch, closing, whole, astray, released, faults, initially>>
        /\ \A e \in Engines : e # at =>
             /\ active'[e] = active[e] /\ indep'[e] = indep[e]
             /\ level'[e] = level[e]
             /\ owned'[e] = owned[e] /\ activated'[e] = activated[e]
    BY AnsweredStep
  <1>2. batch = {} /\ pc \in {"engines", "shutdown"}
    BY DEF Underway
  <1>3. CacheType' /\ BatchType' /\ HistoryType'
    BY <1>1 DEF CacheType, BatchType, HistoryType
  <1>4. ProgressType'
    BY <1>1, Numbers DEF ProgressType
  <1>5. Underway'
    <2>1. todo' # <<>> => at' \in Engines
      BY <1>1
    <2> QED BY <2>1, <1>1, <1>2 DEF Underway
  <1>6. Accounted'
    <2> SUFFICES ASSUME NEW e \in Engines \ astray
                 PROVE  /\ indep'[e] => owned'[e] \/ (at' = e /\ Owning')
                        /\ active'[e] => initially[e] \/ activated'[e]
      BY <1>1, <1>2 DEF Accounted
    <2>1. CASE e = at
      BY <2>1
    <2>2. CASE e # at
      BY <2>2, <1>1, <1>2 DEF Accounted
    <2> QED BY <2>1, <2>2
  <1>7. Releasing'
    BY <1>1, <1>2 DEF Releasing
  <1>8. Quiet'
    <2> SUFFICES ASSUME released PROVE Quiet'
      BY <1>1 DEF Quiet
    <2>1. pc = "shutdown" /\ main = 0
      BY <1>2 DEF Quiet
    <2>2. at \notin astray => ~indep'[at] /\ (active'[at] => initially[at])
      BY <2>1, AnsweredStep DEF Quiet
    <2> QED BY <2>1, <2>2, <1>1 DEF Quiet
  <1>9. \A e \in Engines : /\ e # at => AtZero(e)' = AtZero(e)
                          /\ Target(e, want)' = Target(e, want)
                          /\ Target(e, cached)' = Target(e, cached)
    BY <1>1 DEF AtZero, Target
  <1>10. Reached'
    <2>1. CASE pc = "engines"
      <3>1. \A e \in Engines : e < at' /\ e # at => e < at
        BY <1>1, Numbers
      <3>2. \A e \in Engines : e < at' /\ e = at => rest = <<>>
        BY <1>1, Numbers
      <3> SUFFICES ASSUME NEW e \in Engines, e < at', e \notin astray, e \notin behind'
                   PROVE  AtZero(e)' = Target(e, want)
        BY <2>1, <1>1, <1>9 DEF Reached
      <3>3. CASE e = at
        BY <3>2, <3>3, <2>1
      <3>4. CASE e # at
        BY <3>1, <3>4, <2>1, <1>1, <1>9 DEF Reached
      <3> QED BY <3>3, <3>4
    <2>2. CASE pc = "shutdown"
      BY <2>2, <1>1, <1>9 DEF Reached
    <2> QED BY <2>1, <2>2, <1>2
  <1> QED BY <1>1, <1>3, <1>4, <1>5, <1>6, <1>7, <1>8, <1>10
(* What each sequence of calls begins with, and what it leaves.            *)
LEMMA Heads ==
  /\ Head(Burn(FALSE)) = <<"start", "started">> /\ Tail(Burn(FALSE)) = Taking
  /\ Head(Taking) = <<"take", "none">> /\ Tail(Taking) = Throttling
  /\ Head(Throttling) = <<"thrust", "owned">> /\ Tail(Throttling) = <<>>
  /\ Head(Exclude(TRUE)) = <<"stop", "none">> /\ Tail(Exclude(TRUE)) = Muting
  /\ Head(Muting) = <<"take", "none">> /\ Tail(Muting) = Shutting
  /\ Head(Shutting) = <<"cut", "owned">> /\ Tail(Shutting) = <<>>
  /\ Head(Cut) = <<"cut", "none">> /\ Tail(Cut) = Giving
  /\ Head(Giving) = <<"give", "disowned">> /\ Tail(Giving) = <<>>
  /\ Head(Ending) = <<"cut", "none">> /\ Tail(Ending) = Stopping
  /\ Head(Stopping) = <<"stop", "stopped">> /\ Tail(Stopping) = <<>>
  BY DEF Burn, Exclude, Cut, Taking, Throttling, Muting, Shutting, Giving, Ending,
         Stopping

(* No two of them are alike where it matters.                              *)
LEMMA Remainders ==
  /\ Taking # <<>> /\ Throttling # <<>> /\ Muting # <<>> /\ Shutting # <<>>
  /\ Giving # <<>> /\ Stopping # <<>>
  /\ {Taking, Throttling, Muting, Shutting, Giving, Stopping, <<>>} \subseteq Seq(Calls)
  /\ {Burn(FALSE), Taking, Exclude(TRUE), Muting, Cut, Giving, Ending, Stopping}
       \cap {Throttling, Shutting} = {}
  <1>1. /\ <<"take", "none">> \in Calls /\ <<"thrust", "owned">> \in Calls
        /\ <<"cut", "owned">> \in Calls
        /\ <<"give", "disowned">> \in Calls /\ <<"stop", "stopped">> \in Calls
    BY DEF Calls, Effects, Notes
  <1>2. {Taking, Throttling, Muting, Shutting, Giving, Stopping, <<>>} \subseteq Seq(Calls)
    BY <1>1 DEF Taking, Throttling, Muting, Shutting, Giving, Stopping
  <1>3. \A t \in {Burn(FALSE), Taking, Exclude(TRUE), Muting, Cut, Ending} :
          t \notin {Throttling, Shutting}
    BY DEF Burn, Exclude, Cut, Taking, Throttling, Muting, Shutting, Ending
  <1>4. \A t \in {Giving, Stopping} : t \notin {Throttling, Shutting}
    BY DEF Throttling, Shutting, Giving, Stopping
  <1>5. /\ Taking # <<>> /\ Throttling # <<>> /\ Muting # <<>> /\ Shutting # <<>>
        /\ Giving # <<>> /\ Stopping # <<>>
    BY DEF Taking, Throttling, Muting, Shutting, Giving, Stopping
  <1> QED BY <1>2, <1>3, <1>4, <1>5

LEMMA AnsweredIInv == IInv /\ Answered => IInv'
  <1> SUFFICES ASSUME IInv, Answered PROVE IInv'
    OBVIOUS
  <1>1. todo # <<>>
    BY DEF Answered
  <1>2. at \in Engines /\ batch = {}
    BY <1>1, Stages
  <1>3. \A e \in Engines \ astray : e = at =>
          /\ indep[e] => owned[e] \/ Owning
          /\ active[e] => initially[e] \/ activated[e]
    BY <1>1, <1>2 DEF IInv, Accounted, Underway
  <1> USE <1>1, <1>2
  <1>4. CASE Stage(Burn(FALSE), "engines", want > 0 /\ at \in Selected)
    <2> USE <1>4 DEF Stage
    <2>1. /\ Head(todo) = <<"start", "started">> /\ Tail(todo) = Taking
          /\ "start" \in Effects /\ "started" \in Notes /\ Taking \in Seq(Calls)
      BY Heads, Remainders DEF Effects, Notes
    <2>2. /\ todo' = Taking /\ UNCHANGED <<pc, want, astray, initially>>
          /\ at' = at /\ behind' = behind
          /\ active'[at] /\ indep'[at] = indep[at]
          /\ activated'[at] = TRUE /\ owned'[at] = owned[at]
      BY <2>1, AnsweredStep, Remainders
    <2>3. InBurn'
      BY <2>2 DEF InBurn
    <2>4. \A e \in Engines \ astray : e = at =>
            /\ indep'[e] => owned'[e] \/ (at' = e /\ Owning')
            /\ active'[e] => initially[e] \/ activated'[e]
            /\ pc = "engines" /\ Taking = <<>> => AtZero(e)' = Target(e, want)
      BY <1>3, <2>2, Remainders DEF Owning, AtZero, Target
    <2> QED BY <2>1, <2>3, <2>4, AnsweredStage, Remainders DEF Owning
  <1>5. CASE Stage(Taking, "engines",
                   want > 0 /\ at \in Selected /\ (at \notin astray => active[at]))
    <2> USE <1>5 DEF Stage
    <2>1. /\ Head(todo) = <<"take", "none">> /\ Tail(todo) = Throttling
          /\ "take" \in Effects /\ "none" \in Notes /\ Throttling \in Seq(Calls)
      BY Heads, Remainders DEF Effects, Notes
    <2>2. /\ todo' = Throttling /\ UNCHANGED <<pc, want, astray, initially>>
          /\ at' = at /\ behind' = behind
          /\ active'[at] = active[at] /\ indep'[at]
          /\ activated'[at] = activated[at] /\ owned'[at] = owned[at]
      BY <2>1, AnsweredStep, Remainders
    <2>3. InBurn'
      BY <2>2 DEF InBurn
    <2>4. \A e \in Engines \ astray : e = at =>
            /\ indep'[e] => owned'[e] \/ (at' = e /\ Owning')
            /\ active'[e] => initially[e] \/ activated'[e]
            /\ pc = "engines" /\ Throttling = <<>> => AtZero(e)' = Target(e, want)
      BY <1>3, <2>2, Remainders DEF Owning, AtZero, Target
    <2> QED BY <2>1, <2>3, <2>4, AnsweredStage, Remainders DEF Owning
  <1>6. CASE Stage(Throttling, "engines",
                   at \in Selected /\ (at \notin astray => active[at] /\ indep[at]))
    <2> USE <1>6 DEF Stage
    <2>1. /\ Head(todo) = <<"thrust", "owned">> /\ Tail(todo) = <<>>
          /\ "thrust" \in Effects /\ "owned" \in Notes /\ <<>> \in Seq(Calls)
      BY Heads, Remainders DEF Effects, Notes
    <2>2. /\ todo' = <<>> /\ UNCHANGED <<pc, want, astray, initially>>
          /\ active'[at] = active[at] /\ indep'[at] = indep[at] /\ level'[at] = want
          /\ activated'[at] = activated[at] /\ owned'[at] = TRUE
      BY <2>1, AnsweredStep, Remainders
    <2>3. \A e \in Engines \ astray : e = at =>
            /\ indep'[e] => owned'[e] \/ (at' = e /\ Owning')
            /\ active'[e] => initially[e] \/ activated'[e]
            /\ pc = "engines" /\ <<>> = <<>> => AtZero(e)' = Target(e, want)
      BY <1>3, <2>2, Remainders DEF Owning, AtZero, Target
    <2> QED BY <2>1, <2>3, AnsweredStage
  <1>7. CASE Stage(Exclude(TRUE), "engines", want > 0 /\ at \notin Selected)
    <2> USE <1>7 DEF Stage
    <2>1. /\ Head(todo) = <<"stop", "none">> /\ Tail(todo) = Muting
          /\ "stop" \in Effects /\ "none" \in Notes /\ Muting \in Seq(Calls)
      BY Heads, Remainders DEF Effects, Notes
    <2>2. /\ todo' = Muting /\ UNCHANGED <<pc, want, astray, initially>>
          /\ at' = at /\ behind' = behind
          /\ ~active'[at] /\ indep'[at] = indep[at]
          /\ activated'[at] = activated[at] /\ owned'[at] = owned[at]
      BY <2>1, AnsweredStep, Remainders
    <2>3. InExclude'
      BY <2>2 DEF InExclude
    <2>4. \A e \in Engines \ astray : e = at =>
            /\ indep'[e] => owned'[e] \/ (at' = e /\ Owning')
            /\ active'[e] => initially[e] \/ activated'[e]
            /\ pc = "engines" /\ Muting = <<>> => AtZero(e)' = Target(e, want)
      BY <1>3, <2>2, Remainders DEF Owning, AtZero, Target
    <2> QED BY <2>1, <2>3, <2>4, AnsweredStage, Remainders DEF Owning
  <1>8. CASE Stage(Muting, "engines", want > 0 /\ at \notin Selected)
    <2> USE <1>8 DEF Stage
    <2>1. /\ Head(todo) = <<"take", "none">> /\ Tail(todo) = Shutting
          /\ "take" \in Effects /\ "none" \in Notes /\ Shutting \in Seq(Calls)
      BY Heads, Remainders DEF Effects, Notes
    <2>2. /\ todo' = Shutting /\ UNCHANGED <<pc, want, astray, initially>>
          /\ at' = at /\ behind' = behind
          /\ active'[at] = active[at] /\ indep'[at]
          /\ activated'[at] = activated[at] /\ owned'[at] = owned[at]
      BY <2>1, AnsweredStep, Remainders
    <2>3. InExclude'
      BY <2>2 DEF InExclude
    <2>4. \A e \in Engines \ astray : e = at =>
            /\ indep'[e] => owned'[e] \/ (at' = e /\ Owning')
            /\ active'[e] => initially[e] \/ activated'[e]
            /\ pc = "engines" /\ Shutting = <<>> => AtZero(e)' = Target(e, want)
      BY <1>3, <2>2, Remainders DEF Owning, AtZero, Target
    <2> QED BY <2>1, <2>3, <2>4, AnsweredStage, Remainders DEF Owning
  <1>9. CASE Stage(Shutting, "engines", at \notin Selected)
    <2> USE <1>9 DEF Stage
    <2>1. /\ Head(todo) = <<"cut", "owned">> /\ Tail(todo) = <<>>
          /\ "cut" \in Effects /\ "owned" \in Notes /\ <<>> \in Seq(Calls)
      BY Heads, Remainders DEF Effects, Notes
    <2>2. /\ todo' = <<>> /\ UNCHANGED <<pc, want, astray, initially>>
          /\ active'[at] = active[at] /\ indep'[at] = indep[at] /\ level'[at] = 0
          /\ activated'[at] = activated[at] /\ owned'[at] = TRUE
      BY <2>1, AnsweredStep, Remainders
    <2>3. \A e \in Engines \ astray : e = at =>
            /\ indep'[e] => owned'[e] \/ (at' = e /\ Owning')
            /\ active'[e] => initially[e] \/ activated'[e]
            /\ pc = "engines" /\ <<>> = <<>> => AtZero(e)' = Target(e, want)
      BY <1>3, <2>2, Remainders DEF Owning, AtZero, Target
    <2> QED BY <2>1, <2>3, AnsweredStage
  <1>10. CASE Stage(Cut, "engines", want = 0)
    <2> USE <1>10 DEF Stage
    <2>1. /\ Head(todo) = <<"cut", "none">> /\ Tail(todo) = Giving
          /\ "cut" \in Effects /\ "none" \in Notes /\ Giving \in Seq(Calls)
      BY Heads, Remainders DEF Effects, Notes
    <2>2. /\ todo' = Giving /\ UNCHANGED <<pc, want, astray, initially>>
          /\ at' = at /\ behind' = behind
          /\ active'[at] = active[at] /\ indep'[at] = indep[at] /\ level'[at] = 0
          /\ activated'[at] = activated[at] /\ owned'[at] = owned[at]
      BY <2>1, AnsweredStep, Remainders
    <2>3. InCut'
      BY <2>2 DEF InCut
    <2>4. \A e \in Engines \ astray : e = at =>
            /\ indep'[e] => owned'[e] \/ (at' = e /\ Owning')
            /\ active'[e] => initially[e] \/ activated'[e]
            /\ pc = "engines" /\ Giving = <<>> => AtZero(e)' = Target(e, want)
      BY <1>3, <2>2, Remainders DEF Owning, AtZero, Target
    <2> QED BY <2>1, <2>3, <2>4, AnsweredStage, Remainders DEF Owning
  <1>11. CASE Stage(Giving, "engines", want = 0)
    <2> USE <1>11 DEF Stage
    <2>1. /\ Head(todo) = <<"give", "disowned">> /\ Tail(todo) = <<>>
          /\ "give" \in Effects /\ "disowned" \in Notes /\ <<>> \in Seq(Calls)
      BY Heads, Remainders DEF Effects, Notes
    <2>2. /\ todo' = <<>> /\ UNCHANGED <<pc, want, astray, initially>>
          /\ active'[at] = active[at] /\ ~indep'[at]
          /\ activated'[at] = activated[at] /\ owned'[at] = FALSE
      BY <2>1, AnsweredStep, Remainders
    <2>3. \A e \in Engines \ astray : e = at =>
            /\ indep'[e] => owned'[e] \/ (at' = e /\ Owning')
            /\ active'[e] => initially[e] \/ activated'[e]
            /\ pc = "engines" /\ <<>> = <<>> => AtZero(e)' = Target(e, want)
      BY <1>3, <2>2, Remainders DEF Owning, AtZero, Target
    <2> QED BY <2>1, <2>3, AnsweredStage
  <1>12. CASE Stage(Ending, "shutdown", at \in behind)
    <2> USE <1>12 DEF Stage
    <2>1. /\ Head(todo) = <<"cut", "none">> /\ Tail(todo) = Stopping
          /\ "cut" \in Effects /\ "none" \in Notes /\ Stopping \in Seq(Calls)
      BY Heads, Remainders DEF Effects, Notes
    <2>2. /\ todo' = Stopping /\ UNCHANGED <<pc, want, astray, initially>>
          /\ at' = at /\ behind' = behind
          /\ active'[at] = active[at] /\ indep'[at] = indep[at] /\ level'[at] = 0
          /\ activated'[at] = activated[at] /\ owned'[at] = owned[at]
      BY <2>1, AnsweredStep, Remainders
    <2>3. InShutdown'
      BY <2>2 DEF InShutdown
    <2>4. \A e \in Engines \ astray : e = at =>
            /\ indep'[e] => owned'[e] \/ (at' = e /\ Owning')
            /\ active'[e] => initially[e] \/ activated'[e]
            /\ pc = "engines" /\ Stopping = <<>> => AtZero(e)' = Target(e, want)
      BY <1>3, <2>2, Remainders DEF Owning, AtZero, Target
    <2> QED BY <2>1, <2>3, <2>4, AnsweredStage, Remainders DEF Owning
  <1>13. CASE Stage(Stopping, "shutdown", at \in behind)
    <2> USE <1>13 DEF Stage
    <2>1. /\ Head(todo) = <<"stop", "stopped">> /\ Tail(todo) = <<>>
          /\ "stop" \in Effects /\ "stopped" \in Notes /\ <<>> \in Seq(Calls)
      BY Heads, Remainders DEF Effects, Notes
    <2>2. /\ todo' = <<>> /\ UNCHANGED <<pc, want, astray, initially>>
          /\ ~active'[at] /\ indep'[at] = indep[at]
          /\ activated'[at] = FALSE /\ owned'[at] = owned[at]
      BY <2>1, AnsweredStep, Remainders
    <2>3. \A e \in Engines \ astray : e = at =>
            /\ indep'[e] => owned'[e] \/ (at' = e /\ Owning')
            /\ active'[e] => initially[e] \/ activated'[e]
            /\ pc = "engines" /\ <<>> = <<>> => AtZero(e)' = Target(e, want)
      BY <1>3, <2>2, Remainders DEF Owning, AtZero, Target
    <2> QED BY <2>1, <2>3, AnsweredStage
  <1> QED BY <1>4, <1>5, <1>6, <1>7, <1>8, <1>9, <1>10, <1>11, <1>12, <1>13, Stages

(* A call that is lost makes its engine one that is astray.                *)
LEMMA CallLostIInv == IInv /\ CallLost => IInv'
  <1> SUFFICES ASSUME IInv, CallLost PROVE IInv'
    OBVIOUS
  <1>1. /\ pc \in {"main", "engines", "shutdown"} /\ Fault
        /\ IF pc = "shutdown"
             THEN /\ pc' = "idle" /\ at' = 1 /\ todo' = <<>>
                  /\ UNCHANGED <<want, batch, whole>>
             ELSE StartRelease
        /\ UNCHANGED <<flags, cache, feedback, closing, behind, released>>
    BY DEF CallLost
  <1>2. faults' \in 0 .. MaxFaults
    BY <1>1, FaultType DEF IInv, HistoryType
  <1>3. /\ VesselType' /\ main' \in {0, main}
        /\ astray \subseteq astray' /\ astray' \subseteq Engines
        /\ todo # <<>> => at \in astray' /\ main' = main
        /\ \A e \in Engines \ astray' :
             /\ active'[e] = active[e] /\ indep'[e] = indep[e]
             /\ level'[e] = level[e]
    <2>1. CASE pc = "main" /\ (Executed({}) \/ Executed(MainItems)) /\ UNCHANGED astray
      <3>1. todo = <<>>
        BY <2>1 DEF IInv, Underway
      <3>2. VesselType' /\ UNCHANGED <<active, indep, level>> /\ main' \in {0, main}
        BY <2>1, MainCall
      <3> QED BY <2>1, <3>1, <3>2 DEF IInv, HistoryType
    <2>2. CASE /\ todo # <<>> /\ astray' = astray \cup {at}
               /\ Executed({}) \/ Executed({<<Head(todo)[1], at>>})
      <3>1. at \in Engines /\ Head(todo)[1] \in Effects
        <4>1. /\ at \in Engines
              /\ todo \in {Burn(FALSE), Taking, Throttling, Exclude(TRUE), Muting, Shutting}
                         \cup {Cut, Giving, Ending, Stopping}
          BY <2>2, Stages DEF Stage
        <4>2. Head(todo) \in {<<"start", "started">>, <<"take", "none">>}
                  \cup {<<"thrust", "owned">>, <<"stop", "none">>, <<"cut", "owned">>}
                  \cup {<<"cut", "none">>, <<"give", "disowned">>, <<"stop", "stopped">>}
          BY <4>1, Heads
        <4> QED BY <4>1, <4>2 DEF Effects
      <3>2. CASE Executed({})
        <4>1. UNCHANGED <<active, indep, level, main>>
          <5>1. UNCHANGED <<active, indep, level>> /\ VesselType'
            BY <3>2, MainCall
          <5>2. main' = main
            BY <3>2 DEF Executed
          <5> QED BY <5>1, <5>2
        <4> QED BY <2>2, <3>1, <4>1 DEF IInv, VesselType, HistoryType
      <3>3. CASE Executed({<<Head(todo)[1], at>>})
        <4>1. /\ active' \in [Engines -> BOOLEAN] /\ indep' \in [Engines -> BOOLEAN]
              /\ level' \in [Engines -> Throttles] /\ main' = main
              /\ \A e \in Engines : e # at =>
                   /\ active'[e] = active[e] /\ indep'[e] = indep[e]
                   /\ level'[e] = level[e]
          BY <3>1, <3>3, OneCall DEF IInv, ProgressType
        <4> QED BY <2>2, <3>1, <4>1 DEF IInv, VesselType, HistoryType
      <3> QED BY <2>2, <3>2, <3>3
    <2> QED BY <2>1, <2>2 DEF CallLost
  <1>4. Owning => todo # <<>>
    BY Remainders DEF Owning
  <1>5. CASE pc # "shutdown"
    BY <1>1, <1>2, <1>3, <1>4, <1>5, ReleaseIInv
    DEF IInv, CacheType, BatchType, feedback
  <1>6. CASE pc = "shutdown"
    <2> USE <1>6 DEF IInv, flags, cache, feedback
    <2>1. /\ pc' = "idle" /\ at' = 1 /\ todo' = <<>> /\ todo # <<>>
          /\ UNCHANGED <<want, batch, whole>>
      BY <1>1 DEF CallLost
    <2>2. FlagsType' /\ CacheType' /\ BatchType' /\ HistoryType'
      BY <1>1, <1>2, <1>3, <2>1 DEF FlagsType, CacheType, BatchType, HistoryType
    <2>3. ProgressType'
      BY <2>1, Numbers, Nothing DEF ProgressType
    <2>4. Underway'
      BY <2>1 DEF Underway
    <2>5. Accounted'
      <3> SUFFICES ASSUME NEW e \in Engines \ astray'
                   PROVE  /\ indep'[e] => owned'[e] \/ <<"give", e>> \in batch'
                          /\ active'[e] => \/ initially'[e] \/ activated'[e]
                                           \/ <<"stop", e>> \in batch'
        BY DEF Accounted
      <3>1. e # at /\ e \notin astray
        BY <1>3, <2>1
      <3>2. /\ indep[e] => owned[e] \/ <<"give", e>> \in batch
            /\ active[e] => initially[e] \/ activated[e] \/ <<"stop", e>> \in batch
        BY <3>1, <1>6 DEF Accounted
      <3> QED BY <3>2, <1>1, <1>3, <2>1
    <2>6. Releasing' /\ Quiet'
      BY <1>1, <1>3, <2>1 DEF Releasing, Quiet
    <2>7. Reached'
      <3>1. \A e \in Engines \ astray' : /\ AtZero(e)' = AtZero(e)
                                       /\ Target(e, cached)' = Target(e, cached)
        BY <1>1, <1>3 DEF AtZero, Target
      <3> QED BY <3>1, <1>1, <1>3, <2>1 DEF Reached
    <2> QED BY <1>3, <2>2, <2>3, <2>4, <2>5, <2>6, <2>7
  <1> QED BY <1>5, <1>6

-----------------------------------------------------------------------------
LEMMA StutterIInv == IInv /\ UNCHANGED vars => IInv'
  <1> SUFFICES ASSUME IInv, UNCHANGED vars PROVE IInv'
    OBVIOUS
  <1> USE DEF IInv, vars, vessel, flags, cache, feedback, progress, release, history
  <1>1. VesselType' /\ FlagsType' /\ CacheType'
    BY DEF VesselType, FlagsType, CacheType
  <1>2. ProgressType' /\ BatchType' /\ HistoryType'
    BY DEF ProgressType, BatchType, HistoryType
  <1>3. Underway'
    BY DEF Underway, InBurn, InExclude, InCut, InShutdown
  <1>4. Accounted' /\ Releasing' /\ Quiet'
    BY DEF Accounted, Owning, Releasing, Quiet
  <1>5. Reached'
    BY DEF Reached, AtZero, Target
  <1> QED BY <1>1, <1>2, <1>3, <1>4, <1>5

LEMMA Invariance == Spec => []IInv
  <1>1. IInv /\ [Next]_vars => IInv'
    BY OpenIInv, SafeIInv, ShutMainIInv, VisitEngineIInv, VisitBurntIInv, LoopEndsIInv,
       AnsweredIInv, QueueIInv, FlushIInv, TickIInv, ReadFailsIInv, CallLostIInv,
       PilotIInv, CrashIInv, StutterIInv
    DEF Next, Client, Faulty
  <1> QED BY InitIInv, <1>1, PTL DEF Spec

(* The state of the client and of the vessel keeps its types; a batch      *)
(* never holds more than the client has room for.                          *)
THEOREM ClientTypeSafe == Spec => []TypeOK
  <1>1. IInv => TypeOK
    BY DEF IInv, TypeOK, VesselType, FlagsType, CacheType, ProgressType, BatchType,
           HistoryType
  <1> QED BY Invariance, <1>1, PTL

(* Between ticks the flags of the client tell what it did to the vessel:   *)
(* a throttle of its own is owned, an engine lit is noted as activated,    *)
(* but for engines about which a call was lost.                            *)
THEOREM FlagsTellTheTruth == Spec => []EnginesAccounted
  <1>1. IInv => EnginesAccounted
    <2> SUFFICES ASSUME IInv, pc = "idle" PROVE EnginesAccounted
      BY DEF EnginesAccounted
    <2>1. todo = <<>> /\ batch = {}
      BY DEF IInv, Underway
    <2>2. ~Owning
      BY <2>1, Remainders DEF Owning
    <2> QED BY <2>1, <2>2 DEF IInv, Accounted, EnginesAccounted
  <1> QED BY Invariance, <1>1, PTL

(* After a release all of whose items were executed the main throttle is   *)
(* closed, and the engines are as they were found or shut.                 *)
THEOREM ReleaseRestores == Spec => []ReleasedWhenAnswered
  <1>1. IInv => ReleasedWhenAnswered
    <2> SUFFICES ASSUME IInv, released PROVE ReleasedWhenAnswered
      BY DEF ReleasedWhenAnswered
    <2>1. main = 0 /\ \A e \in Engines \ astray : ~indep[e] /\ (active[e] => initially[e])
      BY DEF IInv, Quiet
    <2> QED BY <2>1 DEF ReleasedWhenAnswered, Thrust
  <1> QED BY Invariance, <1>1, PTL

(* While the cached throttle is trusted and the main throttle is closed,   *)
(* the engines give what was last commanded, and those not chosen nothing. *)
THEOREM CachedThrottleHolds == Spec => []ThrustAsCommanded
  <1>1. IInv => ThrustAsCommanded
    <2> SUFFICES ASSUME IInv, pc = "idle", has, main = 0,
                        NEW e \in Engines \ (astray \cup behind)
                 PROVE  Thrust(e) = IF e \in Selected THEN cached ELSE 0
      BY DEF ThrustAsCommanded
    <2>1. AtZero(e) = Target(e, cached)
      BY DEF IInv, Reached
    <2> QED BY <2>1 DEF AtZero, Target, Thrust
  <1> QED BY Invariance, <1>1, PTL

=============================================================================
