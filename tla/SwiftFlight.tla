----------------------------- MODULE SwiftFlight ------------------------------
(***************************************************************************)
(* One run of the Swift engine as a child process (programs.py): run_child *)
(* with its escalation of signals and its clean-up, _run_swift_live with   *)
(* the thread that follows the engine's flight log, and how the controller *)
(* ends the run.  The child leads a process group of its own; a helper     *)
(* process it starts inherits its output pipe.  A signal may be ignored,   *)
(* save SIGKILL.  Timers may run out at any time.                          *)
(***************************************************************************)
EXTENDS Naturals

CONSTANTS
  Last,          \* the phases of the log are 0..Last; Last is "complete"
  MaxInterrupts  \* bound: Ctrl-C, of which the first asks for a stop

ASSUME FlightAssumption == Last \in Nat \ {0} /\ MaxInterrupts \in Nat

Phases == 0..Last
Group == {"child", "helper"}

VARIABLES
  alive, holders,   \* of the group: who lives, who has the output pipe open
  landed,           \* the child reported the outcome "complete" and ended
  logged, fresh,    \* last phase in the flight log; records not yet read
  main, sent,       \* the controller's thread; last signal of its loop
  eof,              \* the end of the output was read
  ending,           \* why the loop was left
  interrupts, stop, \* Ctrl-C so far; stop_event
  cutShort,         \* an interrupt struck outside the guarded loop
  tail, seen, done, \* the thread on the log, what it read, its end
  phase, connection, state  \* machine.phase and the status

os == <<alive, holders, landed, logged, fresh>>
loop == <<main, sent, eof, ending>>
operator == <<interrupts, stop, cutShort>>
follower == <<tail, seen>>
status == <<phase, connection, state>>
vars == <<os, loop, operator, follower, done, status>>

Cleaning == {"clean", "int", "term", "kill", "join"}
Left == {"left", "told", "judged", "finished", "closed"}

Init ==
  /\ alive = {} /\ holders = {} /\ landed = FALSE /\ logged = 0 /\ fresh = FALSE
  /\ main = "ready" /\ sent = "none" /\ eof = FALSE /\ ending = "none"
  /\ interrupts = 0 /\ stop = FALSE /\ cutShort = FALSE
  /\ tail = "none" /\ seen = 0 /\ done = FALSE
  /\ phase = 0 /\ connection = "connecting" /\ state = "running"

-----------------------------------------------------------------------------
(* The child and its helper.                                               *)

ChildLogs ==
  /\ "child" \in alive
  /\ logged' \in {logged} \cup {p \in Phases : p > logged}
  /\ fresh' = TRUE
  /\ UNCHANGED <<alive, holders, landed, loop, operator, follower, done, status>>

StartHelper ==
  /\ "child" \in alive /\ "helper" \notin alive
  /\ alive' = Group
  /\ holders' = IF "child" \in holders THEN Group ELSE holders
  /\ UNCHANGED <<landed, logged, fresh, loop, operator, follower, done, status>>

CloseOutput(p) ==
  /\ p \in alive \cap holders /\ holders' = holders \ {p}
  /\ UNCHANGED <<alive, landed, logged, fresh, loop, operator, follower, done, status>>

(* It reports "complete" only after it has logged that phase.              *)
Exit(p) ==
  /\ p \in alive /\ alive' = alive \ {p} /\ holders' = holders \ {p}
  /\ landed' \in IF p = "child" /\ logged = Last /\ p \in holders
                   THEN BOOLEAN ELSE {landed}
  /\ UNCHANGED <<logged, fresh, loop, operator, follower, done, status>>

System == ChildLogs \/ StartHelper \/ \E p \in Group : CloseOutput(p) \/ Exit(p)

(* os.killpg.                                                              *)
Signal(s) ==
  /\ alive' = IF s = "kill" THEN {} ELSE alive
  /\ holders' = IF s = "kill" THEN {} ELSE holders
  /\ UNCHANGED <<landed, logged, fresh>>

-----------------------------------------------------------------------------
(* run_child.                                                              *)

(* Popen, with the thread on the log started before.                       *)
Start ==
  /\ main = "ready" /\ main' = "started" /\ tail' = "loop"
  /\ alive' = {"child"} /\ holders' = {"child"}
  /\ UNCHANGED <<landed, logged, fresh, sent, eof, ending, operator, seen, done, status>>

EnterLoop ==
  /\ main = "started" /\ main' = "loop"
  /\ UNCHANGED <<os, sent, eof, ending, operator, follower, done, status>>

(* Mutation of Escalate: a child that ignores SIGTERM is left to itself.   *)
EscalateNoKill ==
  /\ main = "loop" /\ stop
  /\ \/ sent = "none" /\ sent' = "int"
     \/ sent = "int" /\ sent' = "term"
  /\ Signal(sent')
  /\ UNCHANGED <<main, eof, ending, operator, follower, done, status>>

(* SIGINT when a stop is asked for, SIGTERM after STOP_GRACE_SECONDS, and  *)
(* SIGKILL five seconds later, also when a slow callback missed SIGTERM.   *)
Escalate ==
  /\ main = "loop" /\ stop
  /\ \/ sent = "none" /\ sent' = "int"
     \/ sent = "int" /\ sent' = "term"
     \/ sent \in {"int", "term"} /\ sent' = "kill"
  /\ Signal(sent')
  /\ UNCHANGED <<main, eof, ending, operator, follower, done, status>>

ReadEnd ==
  /\ main = "loop" /\ ~eof /\ holders = {} /\ eof' = TRUE
  /\ UNCHANGED <<os, main, sent, ending, operator, follower, done, status>>

LeaveLoop(why) ==
  /\ main = "loop" /\ main' = "clean" /\ ending' = why
  /\ UNCHANGED <<os, sent, eof, follower, done, status>>

(* The child has exited and its output is read to the end.                 *)
Return == eof /\ "child" \notin alive /\ LeaveLoop("returned") /\ UNCHANGED operator

(* A line the loop cannot handle; output still open five seconds after the *)
(* child has exited.                                                       *)
Raise ==
  /\ ~eof /\ LeaveLoop("raised") /\ UNCHANGED operator

(* The first Ctrl-C asks for a stop, a later one is a KeyboardInterrupt,   *)
(* here in run_child: in its loop it is caught by the clean-up, before it  *)
(* and in the clean-up it is not.                                          *)
Interrupt ==
  /\ interrupts < MaxInterrupts
  /\ interrupts' = interrupts + 1 /\ stop' = TRUE
  /\ \/ /\ ~stop /\ main \notin {"finished", "closed"}
        /\ UNCHANGED <<os, loop, cutShort, follower, done, status>>
     \/ stop /\ main = "loop" /\ LeaveLoop("interrupted") /\ UNCHANGED cutShort
     \/ /\ stop /\ main \in {"started"} \cup Cleaning
        /\ main' = "left" /\ ending' = "interrupted" /\ cutShort' = TRUE
        /\ UNCHANGED <<os, sent, eof, follower, done, status>>

Step(from, to) ==
  /\ main = from /\ main' = to
  /\ UNCHANGED <<sent, eof, ending, operator, follower, done, status>>

(* The clean-up: the group is signalled if the child lives or the reader   *)
(* still waits for output, then the child is waited for, then the reader.  *)
CleanUp ==
  \/ /\ "child" \in alive \/ holders # {}
     /\ Step("clean", "int") /\ Signal("int")
  \/ /\ "child" \notin alive /\ holders = {}
     /\ Step("clean", "join") /\ UNCHANGED os

Wait ==
  \/ /\ "child" \notin alive /\ UNCHANGED os
     /\ \E from \in {"int", "term", "kill"} : Step(from, "join")
  \/ "child" \in alive /\ Step("int", "term") /\ Signal("term")
  \/ "child" \in alive /\ Step("term", "kill") /\ Signal("kill")

(* Mutation of JoinReader: nothing is done about a reader that waits on.   *)
JoinReaderOnly == Step("join", "left") /\ UNCHANGED os

JoinReader ==
  /\ Step("join", "left")
  /\ IF holders = {} THEN UNCHANGED os ELSE Signal("kill")

-----------------------------------------------------------------------------
(* The end of _run_swift_live and of the run.                              *)

SetDone ==
  /\ main = "left" /\ main' = "told" /\ done' = TRUE
  /\ UNCHANGED <<os, sent, eof, ending, operator, follower, status>>

Disconnect ==
  /\ main = "told" /\ main' = "judged" /\ connection' = "disconnected"
  /\ UNCHANGED <<os, sent, eof, ending, operator, follower, done, phase, state>>

(* The outcome, and what _run_programs makes of it.                        *)
Finish ==
  /\ main = "judged" /\ main' = "finished"
  /\ state' = CASE ending = "interrupted" -> "aborted"
                [] ending = "raised" -> "failed"
                [] ending = "returned" /\ stop -> "aborted"
                [] ending = "returned" /\ ~stop /\ ~landed -> "failed"
                [] OTHER -> IF phase = Last THEN "complete" ELSE "holding"
  /\ UNCHANGED <<os, sent, eof, ending, operator, follower, done, phase, connection>>

Close ==
  /\ main = "finished" /\ main' = "closed"
  /\ UNCHANGED <<os, sent, eof, ending, operator, follower, done, status>>

Main == Start \/ EnterLoop \/ Escalate \/ ReadEnd \/ Return \/ CleanUp \/ Wait
        \/ JoinReader \/ SetDone \/ Disconnect \/ Finish \/ Close

-----------------------------------------------------------------------------
(* The thread that follows the log, twice a second until it is done.       *)

TailLoops ==
  /\ tail = "loop" /\ tail' = IF done THEN "over" ELSE "asleep"
  /\ UNCHANGED <<os, loop, operator, seen, done, status>>

TailReads ==
  /\ tail = "asleep"
  /\ IF fresh THEN tail' = "read" /\ seen' = logged ELSE tail' = "loop" /\ UNCHANGED seen
  /\ fresh' = FALSE
  /\ UNCHANGED <<alive, holders, landed, logged, loop, operator, done, status>>

(* _advance; the event it emits cannot be written to a closed log, which   *)
(* ends the thread.                                                        *)
TailAdvances ==
  /\ tail = "read"
  /\ IF seen > phase
       THEN phase' = seen /\ tail' = IF main = "closed" THEN "over" ELSE "reports"
       ELSE UNCHANGED phase /\ tail' = "reports"
  /\ UNCHANGED <<os, loop, operator, seen, done, connection, state>>

(* At most once a second; the telemetry cannot be written either.          *)
TailReports ==
  /\ tail = "reports"
  /\ \/ connection' = "connected" /\ tail' = IF main = "closed" THEN "over" ELSE "loop"
     \/ UNCHANGED connection /\ tail' = "loop"
  /\ UNCHANGED <<os, loop, operator, seen, done, phase, state>>

Follow == TailLoops \/ TailReads \/ TailAdvances \/ TailReports

Next == System \/ Main \/ Raise \/ Interrupt \/ Follow

Spec == Init /\ [][Next]_vars
(* The controller's thread runs on; its timers run out.                    *)
FairSpec == Spec /\ WF_vars(Main)

-----------------------------------------------------------------------------
TypeOK ==
  /\ alive \subseteq Group /\ holders \subseteq alive /\ landed \in BOOLEAN
  /\ logged \in Phases /\ fresh \in BOOLEAN
  /\ main \in {"ready", "started", "loop"} \cup Cleaning \cup Left
  /\ sent \in {"none", "int", "term", "kill"} /\ eof \in BOOLEAN
  /\ ending \in {"none", "returned", "raised", "interrupted"}
  /\ interrupts \in 0..MaxInterrupts /\ stop \in BOOLEAN /\ cutShort \in BOOLEAN
  /\ tail \in {"none", "loop", "asleep", "read", "reports", "over"}
  /\ seen \in Phases /\ done \in BOOLEAN /\ phase \in Phases
  /\ connection \in {"connecting", "connected", "disconnected"}
  /\ state \in {"running", "complete", "holding", "aborted", "failed"}

(* However the loop was left, when the run goes on the child is gone and   *)
(* nothing of its group has the output open, unless an interrupt struck    *)
(* outside the loop.                                                       *)
ChildReleased == main \in Left /\ ~cutShort => "child" \notin alive /\ holders = {}

(* A stop ends a flight that answers to no signal but SIGKILL: the run is  *)
(* closed and the child gone, or an interrupt cut the clean-up short.      *)
StopEndsFlight ==
  stop /\ main = "loop" ~> main = "closed" /\ ("child" \notin alive \/ cutShort)

(* programs.py:163: "Includes callback failures and KeyboardInterrupt:     *)
(* never abandon a detached flight owner."                                 *)
NeverAbandoned == main \in Left => "child" \notin alive

(* tests/test_operations.py:225: a flight that reports "complete" ends as  *)
(* a complete mission.                                                     *)
LandingReported ==
  (main \in {"finished", "closed"} /\ ending = "returned" /\ landed /\ ~stop)
    => state = "complete"

(* A run that is over says that it is disconnected.                        *)
DisconnectedAtEnd == main = "closed" => connection = "disconnected"
=============================================================================
