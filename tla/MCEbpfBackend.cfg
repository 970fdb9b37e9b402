CONSTANTS
  t1 = t1
  t2 = t2
  t3 = t3
  NoTask = NoTask
  Task <- MCTask
  Root = t1
  Ops = {"read", "discard", "pipe", "fork", "clone", "execve", "exit"}
  RootCalls = 3
  OtherCalls = 1
  MaxCalls <- MCMaxCalls
  RingSize = 2
  FilterSize = 2
SPECIFICATION Spec
INVARIANTS AnnouncedFirst PairsOwnEntry PayloadIsOwn ImagesAreCounted
CHECK_DEADLOCK FALSE
