\* A replan accepted while the old plan is still in the snapshots.
SPECIFICATION LinkSpec
CONSTANTS
  Configurations = {ca}
  NoConf = NoConf
  Site = ca
  MaxGeneration = 10
  MaxRequests = 8
  MaxPipe = 3
  MayCrash = FALSE
INVARIANT ReviewedPlanFlown
CHECK_DEADLOCK FALSE
