CONSTANTS
  Tid = {t1,t2}
  Calls = {"fork","clone_thread", "clone3", "exit", "exit_group"}
  MaxInstances = 2
  MaxGeneration = 1
SPECIFICATION Spec
INVARIANTS TypeOK MapsAgree OneCausalParent FreshIdsAreClean
PROPERTIES EndedStaysEnded
SYMMETRY MCSymmetry
CHECK_DEADLOCK FALSE
