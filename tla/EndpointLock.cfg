\* Three runs and two observers of one endpoint, with crashes and write errors.
SPECIFICATION Spec
CONSTANTS
  Controllers = {c1, c2, c3}
  Watchers = {w1, w2}
  Free = Free
  Empty = Empty
  MayCrash = TRUE
  MayFail = TRUE
INVARIANTS RecordNamesOwner ChildrenOwned
PROPERTY EndpointOwned
CHECK_DEADLOCK FALSE
