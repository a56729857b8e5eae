SPECIFICATION Spec
CONSTANTS
  Ops <- CreateDelete
  BirthStates <- RunningOnly
  BackendMoves <- Nothing
  ReuseIds = FALSE
  MaxLate = 1
  KeptOps <- Nothing
  Requests = {r1}
  Subjects = {u1}
  SandboxIds = {s1}
  MaxRunning = 1
  NoOne = NoOne
  NoId = NoId
INVARIANT LiveIsIndexed
