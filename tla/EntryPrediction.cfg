\* The predictor against ticks, barriers, quickloads and every request.
SPECIFICATION FairSpec
CONSTANTS
  MaxUt = 3
  Interval = 2
  MaximumAge = 2
  MaxGeneration = 1
PROPERTIES AdoptedUndisturbed AdoptedInTime BarrierEnds RewindRecovers
CHECK_DEADLOCK FALSE
