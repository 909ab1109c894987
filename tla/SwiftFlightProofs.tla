--------------------------- MODULE SwiftFlightProofs --------------------------
(***************************************************************************)
(* Proofs about SwiftFlight, for any phases and number of interrupts.      *)
(***************************************************************************)
EXTENDS SwiftFlight, TLAPS

(* The child is gone before the reader is joined, and the output closed    *)
(* before the run goes on.                                                 *)
Reaped ==
  /\ main = "join" \/ (main \in Left /\ ~cutShort) => "child" \notin alive
  /\ main \in Left /\ ~cutShort => holders = {}

IInv == TypeOK /\ Reaped

LEMMA InitIInv == Init => IInv
  <1> SUFFICES ASSUME Init PROVE IInv
    OBVIOUS
  <1>1. 0 \in Phases /\ 0 \in 0..MaxInterrupts
    BY FlightAssumption DEF Phases
  <1>2. TypeOK
    <2>1. /\ alive \subseteq Group /\ holders \subseteq alive /\ landed \in BOOLEAN
          /\ logged \in Phases /\ fresh \in BOOLEAN
      BY <1>1 DEF Init
    <2>2. /\ main \in {"ready", "started", "loop"} \cup Cleaning \cup Left
          /\ sent \in {"none", "int", "term", "kill"} /\ eof \in BOOLEAN
          /\ ending \in {"none", "returned", "raised", "interrupted"}
      BY DEF Init
    <2>3. /\ interrupts \in 0..MaxInterrupts /\ stop \in BOOLEAN /\ cutShort \in BOOLEAN
          /\ tail \in {"none", "loop", "asleep", "read", "reports", "over"}
          /\ seen \in Phases /\ done \in BOOLEAN /\ phase \in Phases
      BY <1>1 DEF Init
    <2>4. /\ connection \in {"connecting", "connected", "disconnected"}
          /\ state \in {"running", "complete", "holding", "aborted", "failed"}
      BY DEF Init
    <2> QED BY <2>1, <2>2, <2>3, <2>4 DEF TypeOK
  <1>3. Reaped
    BY DEF Init, Reaped
  <1> QED BY <1>2, <1>3 DEF IInv

-----------------------------------------------------------------------------
LEMMA SystemIInv == IInv /\ System => IInv'
  <1> SUFFICES ASSUME IInv, System PROVE IInv'
    OBVIOUS
  <1> USE DEF IInv, loop, operator, follower, status
  <1>1. UNCHANGED <<loop, operator, follower, done, status>>
    BY DEF System, ChildLogs, StartHelper, CloseOutput, Exit
  <1>2. /\ alive' \subseteq Group /\ holders' \subseteq alive'
        /\ "child" \in alive' => "child" \in alive
        /\ holders = {} /\ "child" \notin alive => holders' = {}
    BY DEF System, ChildLogs, StartHelper, CloseOutput, Exit, TypeOK, Group
  <1>3. landed' \in BOOLEAN /\ logged' \in Phases /\ fresh' \in BOOLEAN
    BY DEF System, ChildLogs, StartHelper, CloseOutput, Exit, TypeOK
  <1>4. TypeOK'
    BY <1>1, <1>2, <1>3 DEF TypeOK
  <1>5. Reaped'
    BY <1>1, <1>2 DEF Reaped
  <1> QED BY <1>4, <1>5

LEMMA SignalTypes ==
  ASSUME TypeOK, NEW s, Signal(s)
  PROVE  /\ alive' \subseteq alive /\ holders' \subseteq holders /\ holders' \subseteq alive'
         /\ s = "kill" => alive' = {} /\ holders' = {}
         /\ UNCHANGED <<landed, logged, fresh>>
  BY DEF Signal, TypeOK

LEMMA LoopIInv ==
  IInv /\ (Start \/ EnterLoop \/ Escalate \/ ReadEnd \/ Return \/ Raise) => IInv'
  <1> USE DEF IInv, os, operator, follower, status
  <1>1. ASSUME IInv, Start \/ EnterLoop PROVE IInv'
    <2>1. /\ main' \in {"started", "loop"} /\ tail' \in {"loop", tail}
          /\ UNCHANGED <<landed, logged, fresh, sent, eof, ending, operator, seen, done, status>>
      BY <1>1 DEF Start, EnterLoop
    <2>2. alive' \subseteq Group /\ holders' \subseteq alive'
      BY <1>1 DEF Start, EnterLoop, TypeOK, Group
    <2>3. main' \in {"ready", "started", "loop"} \cup Cleaning \cup Left
      BY <2>1
    <2>4. tail' \in {"none", "loop", "asleep", "read", "reports", "over"}
      BY <1>1, <2>1 DEF TypeOK
    <2>5. TypeOK'
      BY <1>1, <2>1, <2>2, <2>3, <2>4 DEF TypeOK
    <2>6. Reaped'
      BY <2>1 DEF Reaped, Left
    <2> QED BY <2>5, <2>6
  <1>2. ASSUME IInv, Escalate PROVE IInv'
    <2>1. PICK s \in {"int", "term", "kill"} : sent' = s /\ Signal(s)
      BY <1>2 DEF Escalate
    <2>2. UNCHANGED <<main, eof, ending, operator, follower, done, status>> /\ main = "loop"
      BY <1>2 DEF Escalate
    <2>3. TypeOK'
      BY <1>2, <2>1, <2>2, SignalTypes DEF TypeOK
    <2> QED BY <2>2, <2>3 DEF Reaped, Left
  <1>3. ASSUME IInv, ReadEnd \/ Return \/ Raise PROVE IInv'
    <2>1. TypeOK'
      BY <1>3 DEF ReadEnd, Return, Raise, LeaveLoop, TypeOK, Cleaning
    <2>2. main' \in {"loop", "clean"}
      BY <1>3 DEF ReadEnd, Return, Raise, LeaveLoop
    <2> QED BY <2>1, <2>2 DEF Reaped, Left
  <1> QED BY <1>1, <1>2, <1>3

(* An interrupt outside the loop is remembered.                            *)
LEMMA InterruptIInv == IInv /\ Interrupt => IInv'
  <1> SUFFICES ASSUME IInv, Interrupt PROVE IInv'
    OBVIOUS
  <1> USE DEF IInv, os, loop, follower, status
  <1>1. interrupts' \in 0..MaxInterrupts /\ stop' \in BOOLEAN
    <2>1. interrupts \in 0..MaxInterrupts /\ interrupts < MaxInterrupts
      BY DEF Interrupt, TypeOK
    <2>2. interrupts + 1 \in 0..MaxInterrupts
      BY <2>1, FlightAssumption
    <2>3. interrupts' = interrupts + 1 /\ stop' = TRUE
      BY DEF Interrupt
    <2> QED BY <2>2, <2>3
  <1>2. /\ UNCHANGED <<os, sent, eof, follower, done, status>>
        /\ \/ UNCHANGED <<main, ending, cutShort>>
           \/ main' = "clean" /\ ending' = "interrupted" /\ UNCHANGED cutShort
           \/ main' = "left" /\ ending' = "interrupted" /\ cutShort' = TRUE
    BY DEF Interrupt, LeaveLoop
  <1>3. TypeOK'
    <2>1. main' \in {"ready", "started", "loop"} \cup Cleaning \cup Left
      BY <1>2 DEF TypeOK, Cleaning, Left
    <2>2. /\ ending' \in {"none", "returned", "raised", "interrupted"}
          /\ cutShort' \in BOOLEAN
      BY <1>2 DEF TypeOK
    <2> QED BY <1>1, <1>2, <2>1, <2>2 DEF TypeOK
  <1>4. Reaped'
    BY <1>2 DEF Reaped, Left
  <1> QED BY <1>3, <1>4

(* The clean-up waits for the child, and kills what holds the output.      *)
LEMMA CleanUpIInv == IInv /\ (CleanUp \/ Wait \/ JoinReader) => IInv'
  <1> SUFFICES ASSUME IInv, CleanUp \/ Wait \/ JoinReader PROVE IInv'
    OBVIOUS
  <1> USE DEF IInv, os, operator, follower, status
  <1>1. /\ UNCHANGED <<sent, eof, ending, operator, follower, done, status>>
        /\ UNCHANGED os \/ \E s \in {"int", "term", "kill"} : Signal(s)
        /\ main' \in {"int", "term", "kill", "join", "left"}
    BY DEF CleanUp, Wait, JoinReader, Step
  <1>2. TypeOK'
    BY <1>1, SignalTypes DEF TypeOK, Cleaning, Left
  <1>3. main' = "join" => "child" \notin alive'
    BY DEF CleanUp, Wait, JoinReader, Step
  <1>4. main' = "left" => "child" \notin alive' /\ holders' = {}
    BY SignalTypes DEF CleanUp, Wait, JoinReader, Step, Reaped
  <1>5. Reaped'
    BY <1>1, <1>3, <1>4 DEF Reaped, Left
  <1> QED BY <1>2, <1>5

(* The end of the run and the thread on the log leave the group alone.     *)
LEMMA EndIInv == IInv /\ (SetDone \/ Disconnect \/ Finish \/ Close) => IInv'
  <1> SUFFICES ASSUME IInv, SetDone \/ Disconnect \/ Finish \/ Close PROVE IInv'
    OBVIOUS
  <1> USE DEF IInv, os, operator, follower, status
  <1>1. /\ UNCHANGED <<os, sent, eof, ending, operator, follower, phase>>
        /\ main \in Left /\ main' \in Left
    BY DEF SetDone, Disconnect, Finish, Close, Left
  <1>2. /\ done' \in BOOLEAN /\ connection' \in {"connecting", "connected", "disconnected"}
        /\ state' \in {"running", "complete", "holding", "aborted", "failed"}
    BY DEF SetDone, Disconnect, Finish, Close, TypeOK
  <1>3. TypeOK'
    BY <1>1, <1>2 DEF TypeOK
  <1>4. Reaped'
    BY <1>1 DEF Reaped, Left
  <1> QED BY <1>3, <1>4

LEMMA FollowIInv == IInv /\ Follow => IInv'
  <1> SUFFICES ASSUME IInv, Follow PROVE IInv'
    OBVIOUS
  <1> USE DEF IInv, os, loop, operator, status
  <1>1. UNCHANGED <<alive, holders, landed, logged, loop, operator, done, state>>
    BY DEF Follow, TailLoops, TailReads, TailAdvances, TailReports
  <1>2. /\ tail' \in {"none", "loop", "asleep", "read", "reports", "over"}
        /\ seen' \in Phases /\ phase' \in Phases /\ fresh' \in BOOLEAN
        /\ connection' \in {"connecting", "connected", "disconnected"}
    BY DEF Follow, TailLoops, TailReads, TailAdvances, TailReports, TypeOK
  <1>3. TypeOK'
    BY <1>1, <1>2 DEF TypeOK
  <1>4. Reaped'
    BY <1>1 DEF Reaped
  <1> QED BY <1>3, <1>4

LEMMA StutterIInv == IInv /\ UNCHANGED vars => IInv'
  BY DEF IInv, TypeOK, Reaped, vars, os, loop, operator, follower, status

LEMMA Invariance == Spec => []IInv
  <1>1. IInv /\ [Next]_vars => IInv'
    BY SystemIInv, LoopIInv, InterruptIInv, CleanUpIInv, EndIInv, FollowIInv, StutterIInv
    DEF Next, Main
  <1> QED BY InitIInv, <1>1, PTL DEF Spec

-----------------------------------------------------------------------------
(* Every variable of a flight of the Swift engine keeps its type.          *)
THEOREM FlightType == Spec => []TypeOK
  <1>1. IInv => TypeOK
    BY DEF IInv
  <1> QED BY Invariance, <1>1, PTL

(* The run goes on only when its flight process is gone and nobody holds   *)
(* its output, unless an interrupt struck outside the loop.                *)
THEOREM ChildNeverLeft == Spec => []ChildReleased
  <1>1. IInv => ChildReleased
    BY DEF IInv, Reaped, ChildReleased
  <1> QED BY Invariance, <1>1, PTL
=============================================================================
