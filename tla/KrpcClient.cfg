\* Two engines selected for the burn around an excluded one, two faults.
SPECIFICATION FairSpec
CONSTANTS
  EngineCount = 3
  Selected <- Chosen
  MaxThrottle = 1
  BatchMax = 4
  MaxFaults = 2
INVARIANTS TypeOK EnginesAccounted ReleasedWhenAnswered ThrustAsCommanded
PROPERTIES CutReachesEngines
