CONSTANTS
  Tid = {t1, t2}
  NoTid = NoTid
  Root = t1
  FollowModes = {TRUE}
  HasTimeout = FALSE
  GroupExits = FALSE
  WorkerExecs = FALSE
  MaxStops = 1
SPECIFICATION Spec
PROPERTIES ReapingEnds
CHECK_DEADLOCK FALSE
