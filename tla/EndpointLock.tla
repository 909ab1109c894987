----------------------------- MODULE EndpointLock -----------------------------
(***************************************************************************)
(* ownership.py: mission controllers and observers of one kRPC endpoint,   *)
(* threads of one process or processes of their own, and the lock file     *)
(* they share.  A controller claims the endpoint for the whole of a live   *)
(* run (MissionController.run); an observer asks who owns it (owner), for  *)
(* which it takes the same lock for a moment.  The operating system frees  *)
(* the lock of a process that dies, not the processes it has started; and  *)
(* an exception that interrupts the clean-up after a flight process leaves *)
(* the claim as any other does.                                            *)
(***************************************************************************)
CONSTANTS
  Controllers,  \* live runs of one endpoint, each run once
  Watchers,     \* processes that call owner, again and again
  Free,         \* no holder of the lock
  Empty,        \* the file's contents when nobody is recorded
  MayCrash,     \* whether a controller's process may be killed
  MayFail       \* whether a write of the file may raise OSError

ASSUME LockAssumption ==
  /\ Controllers \cap Watchers = {}
  /\ Free \notin Controllers \cup Watchers
  /\ Empty \notin Controllers
  /\ MayCrash \in BOOLEAN /\ MayFail \in BOOLEAN

VARIABLES
  created,   \* the lock file exists
  lock,      \* who holds the flock
  body,      \* the run recorded in the file
  cpc, wpc,  \* where each controller and each observer is
  children,  \* the controllers whose flight process is running
  abandoned  \* those whose clean-up was interrupted

file == <<created, lock, body>>
flights == <<children, abandoned>>
vars == <<file, cpc, wpc, flights>>

\* The places inside the claim, and those at which a controller holds the lock.
Inside == {"owning", "flying", "reaping"}
Holding == Inside \cup {"locked", "truncated", "leaving", "cleared"}
Ended == {"refused", "done", "failed", "dead"}

TypeOK ==
  /\ created \in BOOLEAN
  /\ lock \in Controllers \cup Watchers \cup {Free}
  /\ body \in Controllers \cup {Empty}
  /\ cpc \in [Controllers -> {"start", "open"} \cup Holding \cup Ended]
  /\ wpc \in [Watchers -> {"idle", "open", "probing", "blocked"}]
  /\ children \subseteq Controllers /\ abandoned \subseteq Controllers

Init ==
  /\ created \in BOOLEAN /\ lock = Free /\ body = Empty
  /\ cpc = [c \in Controllers |-> "start"] /\ wpc = [w \in Watchers |-> "idle"]
  /\ children = {} /\ abandoned = {}

Goes(c, p, q) == cpc[c] = p /\ cpc' = [cpc EXCEPT ![c] = q]
Looks(w, p, q) == wpc[w] = p /\ wpc' = [wpc EXCEPT ![w] = q]

(***************************************************************************)
(* claim.                                                                  *)
(***************************************************************************)
Open(c) ==
  /\ Goes(c, "start", "open")
  /\ created' = TRUE
  /\ UNCHANGED <<lock, body, wpc, flights>>

\* Mutation of TryLock: a shared lock is asked for, which another claim grants.
TryLockShared(c) ==
  /\ \/ lock \in Controllers \cup {Free} /\ Goes(c, "open", "locked") /\ lock' = c
     \/ lock \in Watchers /\ Goes(c, "open", "refused") /\ UNCHANGED lock
  /\ UNCHANGED <<created, body, wpc, flights>>

TryLock(c) ==
  /\ \/ lock = Free /\ Goes(c, "open", "locked") /\ lock' = c
     \/ lock # Free /\ Goes(c, "open", "refused") /\ UNCHANGED lock
  /\ UNCHANGED <<created, body, wpc, flights>>

Truncate(c) ==
  /\ Goes(c, "locked", "truncated")
  /\ body' = Empty
  /\ UNCHANGED <<created, lock, wpc, flights>>

Record(c) ==
  /\ Goes(c, "truncated", "owning")
  /\ body' = c
  /\ UNCHANGED <<created, lock, wpc, flights>>

\* The run inside the claim: its programs start flight processes, one at a time,
\* the children of run_child and the backend of BackendClient.
StartChild(c) ==
  /\ Goes(c, "owning", "flying")
  /\ children' = children \cup {c}
  /\ UNCHANGED <<file, wpc, abandoned>>

ChildEnds(c) ==
  /\ c \in children
  /\ children' = children \ {c}
  /\ UNCHANGED <<file, cpc, wpc, abandoned>>

\* The process has ended, a stop was asked for or an exception raised: the program
\* goes to its finally clause, with or without a child.
LeaveLoop(c) ==
  /\ Goes(c, "flying", "reaping")
  /\ UNCHANGED <<file, wpc, flights>>

\* Mutation of Reap: the process is told to stop and not waited for.
ReapWithoutWaiting(c) ==
  /\ Goes(c, "reaping", "owning")
  /\ UNCHANGED <<file, wpc, flights>>

\* The finally clause signals the child, at last with SIGKILL, and waits for it.
Reap(c) ==
  /\ Goes(c, "reaping", "owning")
  /\ children' = children \ {c}
  /\ UNCHANGED <<file, wpc, abandoned>>

\* KeyboardInterrupt between the start of the process and the try, or in the finally
\* clause: the run is over and leaves the claim, whatever the child does.
Interrupt(c) ==
  /\ \E p \in {"flying", "reaping"} : Goes(c, p, "leaving")
  /\ abandoned' = abandoned \cup {c}
  /\ UNCHANGED <<file, wpc, children>>

Leave(c) ==
  /\ Goes(c, "owning", "leaving")
  /\ UNCHANGED <<file, wpc, flights>>

\* Mutation of Clear: the lock is given up while the file still names the run.
UnlockBeforeClear(c) ==
  /\ Goes(c, "leaving", "cleared")
  /\ lock' = Free
  /\ UNCHANGED <<created, body, wpc, flights>>

Clear(c) ==
  /\ Goes(c, "leaving", "cleared")
  /\ body' = Empty
  /\ UNCHANGED <<created, lock, wpc, flights>>

Unlock(c) ==
  /\ Goes(c, "cleared", "done")
  /\ lock' = Free
  /\ UNCHANGED <<created, body, wpc, flights>>

\* The with statement closes the file, which frees the lock; what was buffered may
\* still reach the file.
WriteFails(c) ==
  /\ MayFail
  /\ \/ Goes(c, "locked", "failed") /\ UNCHANGED body
     \/ Goes(c, "truncated", "failed") /\ body' \in {body, c}
     \/ Goes(c, "leaving", "failed") /\ UNCHANGED body
  /\ lock' = Free
  /\ UNCHANGED <<created, wpc, flights>>

Crash(c) ==
  /\ MayCrash /\ cpc[c] \notin Ended
  /\ cpc' = [cpc EXCEPT ![c] = "dead"]
  /\ lock' = IF cpc[c] \in Holding THEN Free ELSE lock
  /\ UNCHANGED <<created, body, wpc, flights>>

(***************************************************************************)
(* owner.                                                                  *)
(***************************************************************************)
LookForFile(w) ==
  /\ created /\ Looks(w, "idle", "open")
  /\ UNCHANGED <<file, cpc, flights>>

Probe(w) ==
  /\ \/ lock = Free /\ Looks(w, "open", "probing") /\ lock' = w
     \/ lock # Free /\ Looks(w, "open", "blocked") /\ UNCHANGED lock
  /\ UNCHANGED <<created, body, cpc, flights>>

LetGo(w) ==
  /\ Looks(w, "probing", "idle")
  /\ lock' = Free
  /\ UNCHANGED <<created, body, cpc, flights>>

\* The answer is what the file holds now, which need not be the run it was for.
ReadRecord(w) ==
  /\ Looks(w, "blocked", "idle")
  /\ UNCHANGED <<file, cpc, flights>>

ControllerStep(c) ==
  \/ Open(c) \/ TryLock(c) \/ Truncate(c) \/ Record(c) \/ StartChild(c) \/ ChildEnds(c)
  \/ LeaveLoop(c) \/ Reap(c) \/ Interrupt(c) \/ Leave(c) \/ Clear(c) \/ Unlock(c) \/ WriteFails(c) \/ Crash(c)

WatcherStep(w) == LookForFile(w) \/ Probe(w) \/ LetGo(w) \/ ReadRecord(w)

Next ==
  \/ \E c \in Controllers : ControllerStep(c)
  \/ \E w \in Watchers : WatcherStep(w)

Spec == Init /\ [][Next]_vars

(***************************************************************************)
(* Properties.                                                             *)
(***************************************************************************)
\* The file names a run as long as that run owns the endpoint, and a run that has
\* left it in order is not named any more (ownership.owner).
RecordNamesOwner ==
  \A c \in Controllers :
    /\ cpc[c] \in Inside => body = c
    /\ body = c => cpc[c] \in Inside \cup {"leaving", "failed", "dead"}

\* A flight process runs only while its controller owns the endpoint, unless the
\* controller was killed or its clean-up interrupted; so of several processes that fly
\* on one endpoint all but one are left over from such ends (controller.py run around
\* claim, run_child's finally clause, BackendClient.shutdown).
ChildrenOwned ==
  \A c \in children :
    \/ lock = c /\ cpc[c] \in {"flying", "reaping"}
    \/ cpc[c] = "dead" \/ c \in abandoned

\* The lock implements the ownership of the endpoint; a controller flies while it
\* is inside the claim (ownership.claim).
Endpoint == INSTANCE EndpointOwnership WITH
  Nobody <- Free,
  holder <- IF lock \in Controllers THEN lock ELSE Free,
  flying <- {c \in Controllers : cpc[c] \in Inside}

EndpointOwned == Endpoint!Spec

(***************************************************************************)
(* What the documentation says.                                            *)
(***************************************************************************)
\* "Never abandon a detached flight owner" (programs.py run_child): a controller that
\* gives up the endpoint leaves no flight process behind.
NeverAbandoned ==
  \A c \in children : cpc[c] \notin {"done", "failed"}

\* A claim is refused only if another controller owns the endpoint.
RefusedOnlyWhenOwned ==
  [][\A c \in Controllers :
       cpc[c] = "open" /\ cpc'[c] = "refused" => lock \in Controllers]_vars
=============================================================================
