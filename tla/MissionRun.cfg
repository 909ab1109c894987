\* Three requests, two plans; a second Ctrl-C anywhere; the monitor may outlive the
\* join.
SPECIFICATION Spec
CONSTANTS
  Commands = {r1, r2, r3}
  NoCommand = NoCommand
  MaxPlans = 2
  MayCrash = FALSE
  JoinMayTimeOut = TRUE
SYMMETRY AnyRequest
INVARIANTS OrderedAsReviewed ReleasedWhenFinished
CHECK_DEADLOCK FALSE
