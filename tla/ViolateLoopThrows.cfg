CONSTANTS
  Tid = {t1, t2}
  NoTid = NoTid
  Root = t1
  FollowModes = {TRUE}
  HasTimeout = FALSE
  GroupExits = TRUE
  WorkerExecs = FALSE
  MaxStops = 1
SPECIFICATION Spec
INVARIANTS NeverThrows
CHECK_DEADLOCK FALSE
