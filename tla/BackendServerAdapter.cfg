\* A planning task that outlives its stop and connects late.
SPECIFICATION Spec
CONSTANTS
  Configurations = {ca, cb}
  NoConf = NoConf
  MaxGeneration = 6
SYMMETRY AnyRunway
INVARIANT AdapterMatchesFlight
CHECK_DEADLOCK FALSE
