\* One landing process: every operator request, failing threads and lost releases.
SPECIFICATION FairSpec
CONSTANTS
  Configurations = {k1, k2}
  NoConfiguration = NoConfiguration
  MaxGeneration = 2
  ReleaseMayFail = TRUE
  ThreadMayFail = TRUE
INVARIANTS ControlReleased PlanMatchesConfiguration SessionOwnsState
PROPERTIES AuthorityKept ClosedWithoutThreads AbortReleases OperationEnds
CHECK_DEADLOCK FALSE
