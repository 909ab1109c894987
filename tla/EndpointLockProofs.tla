-------------------------- MODULE EndpointLockProofs --------------------------
(***************************************************************************)
(* Proofs about EndpointLock, for any number of controllers and observers. *)
(* The invariants of the lock file follow once it is known who holds the   *)
(* lock: LockHeld says at which places of its program each process does.   *)
(***************************************************************************)
EXTENDS EndpointLock, TLAPS

LockHeld ==
  /\ \A c \in Controllers : lock = c <=> cpc[c] \in Holding
  /\ \A w \in Watchers : lock = w <=> wpc[w] = "probing"

IInv == TypeOK /\ LockHeld /\ RecordNamesOwner /\ ChildrenOwned

\* The invariant holds initially: nobody holds the lock of an empty file.
LEMMA InitIInv == Init => IInv
  BY LockAssumption
  DEF Init, IInv, TypeOK, LockHeld, RecordNamesOwner, ChildrenOwned, Inside, Holding, Ended

\* A step of a controller keeps the types.
LEMMA ControllerType ==
  ASSUME TypeOK, NEW c \in Controllers, ControllerStep(c)
  PROVE  TypeOK'
<1>1. CASE Open(c) BY <1>1 DEF TypeOK, Open, Goes, Inside, Holding, Ended, flights
<1>2. CASE TryLock(c) BY <1>2 DEF TypeOK, TryLock, Goes, Inside, Holding, Ended, flights
<1>3. CASE Truncate(c) BY <1>3 DEF TypeOK, Truncate, Goes, Inside, Holding, Ended, flights
<1>4. CASE Record(c) BY <1>4 DEF TypeOK, Record, Goes, Inside, Holding, Ended, flights
<1>5. CASE StartChild(c) BY <1>5 DEF TypeOK, StartChild, Goes, file, Inside, Holding, Ended
<1>6. CASE ChildEnds(c) BY <1>6 DEF TypeOK, ChildEnds, file
<1>7. CASE Leave(c) BY <1>7 DEF TypeOK, Leave, Goes, file, flights, Inside, Holding, Ended
<1>8. CASE Clear(c) BY <1>8 DEF TypeOK, Clear, Goes, Inside, Holding, Ended, flights
<1>9. CASE Unlock(c) BY <1>9 DEF TypeOK, Unlock, Goes, Inside, Holding, Ended, flights
<1>10. CASE WriteFails(c) BY <1>10 DEF TypeOK, WriteFails, Goes, Inside, Holding, Ended, flights
<1>11. CASE Crash(c) BY <1>11 DEF TypeOK, Crash, Inside, Holding, Ended, flights
<1>12. CASE LeaveLoop(c) BY <1>12 DEF TypeOK, LeaveLoop, Goes, file, flights, Inside, Holding, Ended
<1>13. CASE Reap(c) BY <1>13 DEF TypeOK, Reap, Goes, file, Inside, Holding, Ended
<1>14. CASE Interrupt(c) BY <1>14 DEF TypeOK, Interrupt, Goes, file, Inside, Holding, Ended
<1>15. QED
  BY <1>1, <1>2, <1>3, <1>4, <1>5, <1>6, <1>7, <1>8, <1>9, <1>10, <1>11,
     <1>12, <1>13, <1>14 DEF ControllerStep

\* A step of a controller takes and gives up the lock where LockHeld says.
LEMMA ControllerLock ==
  ASSUME IInv, NEW c \in Controllers, ControllerStep(c)
  PROVE  LockHeld'
<1> USE LockAssumption DEF IInv, TypeOK, LockHeld, Inside, Holding, Goes
<1>1. CASE Open(c) BY <1>1 DEF Open, flights
<1>2. CASE TryLock(c) BY <1>2 DEF TryLock, flights
<1>3. CASE Truncate(c) BY <1>3 DEF Truncate, flights
<1>4. CASE Record(c) BY <1>4 DEF Record, flights
<1>5. CASE StartChild(c) BY <1>5 DEF StartChild, file
<1>6. CASE ChildEnds(c) BY <1>6 DEF ChildEnds, file
<1>7. CASE Leave(c) BY <1>7 DEF Leave, file, flights
<1>8. CASE Clear(c) BY <1>8 DEF Clear, flights
<1>9. CASE Unlock(c) BY <1>9 DEF Unlock, flights
<1>10. CASE WriteFails(c) BY <1>10 DEF WriteFails, flights
<1>11. CASE Crash(c) BY <1>11 DEF Crash, Ended, flights
<1>12. CASE LeaveLoop(c) BY <1>12 DEF LeaveLoop, file, flights
<1>13. CASE Reap(c) BY <1>13 DEF Reap, file
<1>14. CASE Interrupt(c) BY <1>14 DEF Interrupt, file
<1>15. QED
  BY <1>1, <1>2, <1>3, <1>4, <1>5, <1>6, <1>7, <1>8, <1>9, <1>10, <1>11,
     <1>12, <1>13, <1>14 DEF ControllerStep

\* Only the holder of the lock writes the file.
LEMMA ControllerRecord ==
  ASSUME IInv, NEW c \in Controllers, ControllerStep(c)
  PROVE  RecordNamesOwner'
<1> USE LockAssumption DEF IInv, TypeOK, LockHeld, RecordNamesOwner, Inside, Holding, Goes
<1>1. CASE Open(c) BY <1>1 DEF Open, flights
<1>2. CASE TryLock(c) BY <1>2 DEF TryLock, flights
<1>3. CASE Truncate(c) BY <1>3 DEF Truncate, flights
<1>4. CASE Record(c) BY <1>4 DEF Record, flights
<1>5. CASE StartChild(c) BY <1>5 DEF StartChild, file
<1>6. CASE ChildEnds(c) BY <1>6 DEF ChildEnds, file
<1>7. CASE Leave(c) BY <1>7 DEF Leave, file, flights
<1>8. CASE Clear(c) BY <1>8 DEF Clear, flights
<1>9. CASE Unlock(c) BY <1>9 DEF Unlock, flights
<1>10. CASE WriteFails(c) BY <1>10 DEF WriteFails, flights
<1>11. CASE Crash(c) BY <1>11 DEF Crash, Ended, flights
<1>12. CASE LeaveLoop(c) BY <1>12 DEF LeaveLoop, file, flights
<1>13. CASE Reap(c) BY <1>13 DEF Reap, file
<1>14. CASE Interrupt(c) BY <1>14 DEF Interrupt, file
<1>15. QED
  BY <1>1, <1>2, <1>3, <1>4, <1>5, <1>6, <1>7, <1>8, <1>9, <1>10, <1>11,
     <1>12, <1>13, <1>14 DEF ControllerStep

\* A controller gives the endpoint up with its process running only when it is
\* killed, or interrupted on its way.
LEMMA ControllerChildren ==
  ASSUME IInv, NEW c \in Controllers, ControllerStep(c)
  PROVE  ChildrenOwned'
<1> USE LockAssumption DEF IInv, TypeOK, LockHeld, ChildrenOwned, Inside, Holding, Goes
<1>1. CASE Open(c) BY <1>1 DEF Open, flights
<1>2. CASE TryLock(c) BY <1>2 DEF TryLock, flights
<1>3. CASE Truncate(c) BY <1>3 DEF Truncate, flights
<1>4. CASE Record(c) BY <1>4 DEF Record, flights
<1>5. CASE StartChild(c) BY <1>5 DEF StartChild, file
<1>6. CASE ChildEnds(c) BY <1>6 DEF ChildEnds, file
<1>7. CASE Leave(c) BY <1>7 DEF Leave, file, flights
<1>8. CASE Clear(c) BY <1>8 DEF Clear, flights
<1>9. CASE Unlock(c) BY <1>9 DEF Unlock, flights
<1>10. CASE WriteFails(c) BY <1>10 DEF WriteFails, flights
<1>11. CASE Crash(c) BY <1>11 DEF Crash, Ended, flights
<1>12. CASE LeaveLoop(c) BY <1>12 DEF LeaveLoop, file, flights
<1>13. CASE Reap(c) BY <1>13 DEF Reap, file
<1>14. CASE Interrupt(c) BY <1>14 DEF Interrupt, file
<1>15. QED
  BY <1>1, <1>2, <1>3, <1>4, <1>5, <1>6, <1>7, <1>8, <1>9, <1>10, <1>11,
     <1>12, <1>13, <1>14 DEF ControllerStep

\* An observer moves nothing but itself and the lock nobody holds.
LEMMA WatcherKeeps ==
  ASSUME IInv, NEW w \in Watchers, WatcherStep(w)
  PROVE  IInv'
<1> USE LockAssumption
  DEF IInv, TypeOK, LockHeld, RecordNamesOwner, ChildrenOwned, Inside, Holding, Looks, file, flights
<1>1. CASE LookForFile(w) BY <1>1 DEF LookForFile
<1>2. CASE Probe(w) BY <1>2 DEF Probe
<1>3. CASE LetGo(w) BY <1>3 DEF LetGo
<1>4. CASE ReadRecord(w) BY <1>4 DEF ReadRecord
<1>5. QED BY <1>1, <1>2, <1>3, <1>4 DEF WatcherStep

\* Every step keeps the invariant.
LEMMA NextIInv == IInv /\ [Next]_vars => IInv'
<1> SUFFICES ASSUME IInv, [Next]_vars PROVE IInv'
  OBVIOUS
<1>1. CASE \E c \in Controllers : ControllerStep(c)
  <2>1. PICK c \in Controllers : ControllerStep(c)
    BY <1>1
  <2>2. TypeOK'
    BY <2>1, ControllerType DEF IInv
  <2>3. LockHeld' /\ RecordNamesOwner' /\ ChildrenOwned'
    BY <2>1, ControllerLock, ControllerRecord, ControllerChildren
  <2>4. QED
    BY <2>2, <2>3 DEF IInv
<1>2. CASE \E w \in Watchers : WatcherStep(w)
  BY <1>2, WatcherKeeps
<1>3. CASE UNCHANGED vars
  BY <1>3
  DEF IInv, TypeOK, LockHeld, RecordNamesOwner, ChildrenOwned, vars, file, flights
<1>4. QED
  BY <1>1, <1>2, <1>3 DEF Next

\* The invariant holds in every reachable state.
THEOREM Invariance == Spec => []IInv
<1>1. QED
  BY InitIInv, NextIInv, PTL DEF Spec

\* Every variable keeps its type.
THEOREM TypeCorrect == Spec => []TypeOK
<1>1. IInv => TypeOK
  BY DEF IInv
<1>2. QED
  BY <1>1, Invariance, PTL

\* The lock file names the owner and nobody who has left in order.
THEOREM RecordCorrect == Spec => []RecordNamesOwner
<1>1. IInv => RecordNamesOwner
  BY DEF IInv
<1>2. QED
  BY <1>1, Invariance, PTL

\* No flight process runs outside its controller's claim, short of a crash or of an
\* interrupted clean-up (programs.py run_child, backend.py shutdown).
THEOREM ChildrenUnderLock == Spec => []ChildrenOwned
<1>1. IInv => ChildrenOwned
  BY DEF IInv
<1>2. QED
  BY <1>1, Invariance, PTL

(***************************************************************************)
(* The lock implements EndpointOwnership.                                  *)
(***************************************************************************)
Holder == IF lock \in Controllers THEN lock ELSE Free
Flyers == {c \in Controllers : cpc[c] \in Inside}

\* The owner is the only one inside the claim.
LEMMA FlyersHold ==
  ASSUME IInv, NEW c \in Controllers, cpc[c] \in Inside
  PROVE  lock = c /\ Flyers = {c}
  BY LockAssumption DEF IInv, LockHeld, Inside, Holding, Flyers

\* The abstract initial state is the image of the initial states.
LEMMA InitMaps == Init => Endpoint!Init
  BY LockAssumption DEF Init, Inside, Endpoint!Init

\* A controller's step is a step of the owner, or none.
LEMMA ControllerMaps ==
  ASSUME IInv, NEW c \in Controllers, ControllerStep(c)
  PROVE  Endpoint!Next \/ (Holder' = Holder /\ Flyers' = Flyers)
<1> USE LockAssumption DEF IInv, TypeOK, LockHeld, Inside, Holding, Goes, Holder, Flyers
<1>1. CASE Open(c) BY <1>1 DEF Open, flights
<1>2. CASE TryLock(c)
  <2>1. CASE lock = Free
    <3>1. Endpoint!Acquire(c)
      BY <1>2, <2>1 DEF TryLock, Endpoint!Acquire
    <3>2. QED BY <3>1 DEF Endpoint!Next
  <2>2. CASE lock # Free
    BY <1>2, <2>2 DEF TryLock
  <2>3. QED BY <2>1, <2>2
<1>3. CASE Truncate(c) BY <1>3 DEF Truncate, flights
<1>4. CASE Record(c)
  <2>1. Endpoint!Fly(c)
    BY <1>4 DEF Record, Endpoint!Fly
  <2>2. QED BY <2>1 DEF Endpoint!Next
<1>5. CASE StartChild(c) BY <1>5 DEF StartChild, file
<1>6. CASE ChildEnds(c) BY <1>6 DEF ChildEnds, file
<1>7. CASE Leave(c)
  <2>1. Endpoint!Land(c)
    BY <1>7 DEF Leave, file, flights, Endpoint!Land
  <2>2. QED BY <2>1 DEF Endpoint!Next
<1>8. CASE Clear(c) BY <1>8 DEF Clear, flights
<1>9. CASE Unlock(c)
  <2>1. Endpoint!Release(c)
    BY <1>9 DEF Unlock, Endpoint!Release
  <2>2. QED BY <2>1 DEF Endpoint!Next
<1>10. CASE WriteFails(c)
  <2>1. Endpoint!Release(c)
    BY <1>10 DEF WriteFails, Endpoint!Release
  <2>2. QED BY <2>1 DEF Endpoint!Next
<1>11. CASE Crash(c)
  <2>1. CASE cpc[c] \in Holding
    <3>1. Endpoint!Release(c)
      BY <1>11, <2>1 DEF Crash, Ended, Endpoint!Release
    <3>2. QED BY <3>1 DEF Endpoint!Next
  <2>2. CASE cpc[c] \notin Holding
    BY <1>11, <2>2 DEF Crash, Ended
  <2>3. QED BY <2>1, <2>2
<1>12. CASE LeaveLoop(c) BY <1>12 DEF LeaveLoop, file
<1>13. CASE Reap(c) BY <1>13 DEF Reap, file
<1>14. CASE Interrupt(c)
  <2>1. Endpoint!Land(c)
    BY <1>14 DEF Interrupt, file, Endpoint!Land
  <2>2. QED BY <2>1 DEF Endpoint!Next
<1>15. QED
  BY <1>1, <1>2, <1>3, <1>4, <1>5, <1>6, <1>7, <1>8, <1>9, <1>10, <1>11,
     <1>12, <1>13, <1>14 DEF ControllerStep

\* An observer's step is none of the owner's.
LEMMA WatcherMaps ==
  ASSUME IInv, NEW w \in Watchers, WatcherStep(w)
  PROVE  Holder' = Holder /\ Flyers' = Flyers
  BY LockAssumption
  DEF IInv, LockHeld, WatcherStep, LookForFile, Probe, LetGo, ReadRecord, Looks, file, Holder,
      Flyers

\* Every behaviour of the lock file is one of the endpoint's single owner.
THEOREM Implementation == Spec => EndpointOwned
<1>1. IInv /\ [Next]_vars => [Endpoint!Next]_<<Holder, Flyers>>
  <2> SUFFICES ASSUME IInv, [Next]_vars
               PROVE  Endpoint!Next \/ (Holder' = Holder /\ Flyers' = Flyers)
    OBVIOUS
  <2>1. CASE \E c \in Controllers : ControllerStep(c)
    BY <2>1, ControllerMaps
  <2>2. CASE \E w \in Watchers : WatcherStep(w)
    BY <2>2, WatcherMaps
  <2>3. CASE UNCHANGED vars
    BY <2>3 DEF vars, file, Holder, Flyers
  <2>4. QED
    BY <2>1, <2>2, <2>3 DEF Next
<1>2. QED
  BY <1>1, InitMaps, Invariance, PTL DEF EndpointOwned, Endpoint!Spec, Spec, Holder, Flyers
=============================================================================
