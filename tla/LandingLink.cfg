\* One runway; every flight a session can make with eight requests, its backend
\* killed at any moment, and every stop.
SPECIFICATION FairLinkSpec
CONSTANTS
  Configurations = {ca}
  NoConf = NoConf
  Site = ca
  MaxGeneration = 10
  MaxRequests = 8
  MaxPipe = 2
  MayCrash = TRUE
INVARIANTS LinkTypeOK TerminalMeansOver
PROPERTIES AskedBeforeKilled StopEndsRun
CHECK_DEADLOCK FALSE
