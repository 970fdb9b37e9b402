CONSTANTS
  p1 = p1
  p2 = p2
  NoProc = NoProc
  Proc <- MCProc
  Root = p1
  Fd <- MCFd
  MaxObjects = 3
  RootCalls = 3
  ChildCalls = 1
  BothEnds = TRUE
  MaxCalls <- MCMaxCalls
  Ops = {"pipe", "open", "socket", "close", "dup", "dup2", "dup3", "F_DUPFD", "F_SETFD", "fork", "execve", "read", "write"}
  Tokens = {a}
  Plain = plain
  InitialTable <- MCInitialTable
SPECIFICATION Spec
INVARIANTS TablesAgree ResourceIsOneObject PipeEndsShareId EdgesAreReal SuppliedReadsAreLinked
CHECK_DEADLOCK FALSE
