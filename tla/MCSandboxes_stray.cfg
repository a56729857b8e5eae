SPECIFICATION Spec
CONSTANTS
  Ops <- OwnershipOps
  BirthStates <- RunningOnly
  BackendMoves <- Nothing
  ReuseIds = FALSE
  MaxLate = 0
  KeptOps <- Nothing
  Requests = {r1}
  Subjects = {u1, u2}
  SandboxIds = {s1, s2}
  MaxRunning = 2
  NoOne = NoOne
  NoId = NoId
INVARIANT CallsStayOnOwnSandboxes
