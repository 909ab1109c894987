\* Liveness of two requests, with kills and a second Ctrl-C anywhere.
SPECIFICATION FairSpec
CONSTANTS
  Commands = {r1, r2}
  NoCommand = NoCommand
  MaxPlans = 2
  MayCrash = TRUE
  JoinMayTimeOut = FALSE
INVARIANT NothingLeftOpen
PROPERTIES StopReleases AcceptedAbortCompletes TimelyRequestAnswered
CHECK_DEADLOCK FALSE
