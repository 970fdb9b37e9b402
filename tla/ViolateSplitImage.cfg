CONSTANTS
  Tid = {1, 2, 3}
  Root = 1
  MaxInstances = 4
  MaxGeneration = 1
  MaxTasks = 3
  MaxImages = 1
  Workloads <- MCGroupExit
SPECIFICATION Spec
INVARIANTS ImageHasOneKey
CHECK_DEADLOCK FALSE
