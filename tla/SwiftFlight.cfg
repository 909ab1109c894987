SPECIFICATION FairSpec
CONSTANTS
  Last = 2
  MaxInterrupts = 3
INVARIANTS ChildReleased
PROPERTIES StopEndsFlight
\* A run ends when it is closed.
CHECK_DEADLOCK FALSE
