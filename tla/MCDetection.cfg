CONSTANTS
  NoValue = NoValue
  NoSource = NoSource
  NoSession = NoSession
  NoProgram = NoProgram
  NoReport = NoReport
  Secret = Secret
  Large = Large
  PathLists <- MCPathLists
  SensitiveEndpoint = {"E"}
  Endpoint = {"E"}
  Program = {"P"}
  Fd = {3, 4}
  Workloads <- MCWorkloads
SPECIFICATION Spec
INVARIANTS
  FlowsAreReal
  FlowsAreFound
  ChainsAreReal
  ChainsAreFound
  DataOnOwnImage
  SupportIsReported
  StoriesAgree
CHECK_DEADLOCK FALSE
