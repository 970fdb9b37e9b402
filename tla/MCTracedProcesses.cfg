CONSTANTS
  Tid = {1, 2, 3}
  Root = 1
  MaxInstances = 5
  MaxGeneration = 1
  MaxTasks = 4
  MaxImages = 1
  Workloads <- MCWorkloads
SPECIFICATION Spec
INVARIANTS KeyIdentifiesImage ImageHasOneKey CausalityFollowsForks NoInstanceOutlivesProcess OneNodePerLifetime LiveProcessIsActive
CHECK_DEADLOCK FALSE
