SPECIFICATION FairSpec
CONSTANTS
  Requests = {r1, r2}
  Subjects = {u1}
  NoOne = NoOne
  SandboxIds = {s1}
  NoId = NoId
  MaxRunning = 1
  NativeOps <- CreateAndProxy
  BirthStates <- Running
  BackendMoves <- Nothing
  ReuseIds = FALSE
  MaxLate = 1
  KeptOps <- Nothing
  CredIds = {c1}
  Names = {n1}
  NoCredId = NoCredId
  MaxKeys = 1
  MaxSecret = 2
  KeyOps <- IssueAndRotate
  Words <- Agents
CHECK_DEADLOCK FALSE
PROPERTY DeadKeysFadeOut
