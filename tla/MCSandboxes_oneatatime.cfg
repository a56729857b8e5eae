SPECIFICATION FairSpec
CONSTANTS
  Ops <- EveryOp
  BirthStates <- PendingOrRunning
  BackendMoves <- StartsAndExpires
  ReuseIds = FALSE
  MaxLate = 1
  KeptOps <- Nothing
  Requests = {r1}
  Subjects = {u1}
  SandboxIds = {s1}
  MaxRunning = 1
  NoOne = NoOne
  NoId = NoId
PROPERTY RequestsFinish
