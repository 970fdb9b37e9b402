CONSTANTS
  Tid = {t1, t2, t3}
  NoTid = NoTid
  Root = t1
  FollowModes = {TRUE, FALSE}
  HasTimeout = TRUE
  GroupExits = TRUE
  WorkerExecs = TRUE
  MaxStops = 1
SPECIFICATION Spec
INVARIANTS TracedExist
PROPERTIES StopsAreResumed LoopEnds
CHECK_DEADLOCK FALSE
