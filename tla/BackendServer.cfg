\* Two runways; every client request between any two awaits, and every one answered.
SPECIFICATION FairSpec
CONSTANTS
  Configurations = {ca, cb}
  NoConf = NoConf
  MaxGeneration = 4
INVARIANTS OnlyCurrentFlies FlownConfiguration ReleasedOnExit
PROPERTIES SessionKept RequestAnswered
CHECK_DEADLOCK FALSE
