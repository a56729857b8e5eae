SPECIFICATION Spec
CONSTANTS
  Ops <- RevivingOps
  BirthStates <- RunningOnly
  BackendMoves <- Nothing
  ReuseIds = FALSE
  MaxLate = 0
  KeptOps <- Nothing
  Requests = {r1, r2}
  Subjects = {u1}
  SandboxIds = {s1}
  MaxRunning = 1
  NoOne = NoOne
  NoId = NoId
INVARIANT DeletedIsFinal
