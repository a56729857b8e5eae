SPECIFICATION Spec
CONSTANTS
  Requests = {r1, r2}
  Subjects = {u1, u2}
  NoOne = NoOne
  SandboxIds = {s1}
  NoId = NoId
  MaxRunning = 1
  NativeOps <- CreateAndDelete
  BirthStates <- Running
  BackendMoves <- Nothing
  ReuseIds = FALSE
  MaxLate = 0
  KeptOps <- Nothing
  CredIds = {c1, c2}
  Names = {n1}
  NoCredId = NoCredId
  MaxKeys = 1
  MaxSecret = 2
  KeyOps <- IssueAndRotate
  Words <- Agents
CHECK_DEADLOCK FALSE
SYMMETRY Symmetry
INVARIANT KeysReachOwnSandboxes
PROPERTY ImplementsSandboxes
