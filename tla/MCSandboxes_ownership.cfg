SPECIFICATION Spec
CONSTANTS
  Ops <- OwnershipOps
  BirthStates <- RunningOnly
  BackendMoves <- Stops
  ReuseIds = FALSE
  MaxLate = 1
  KeptOps <- Nothing
  Requests = {r1, r2}
  Subjects = {u1, u2}
  SandboxIds = {s1, s2}
  MaxRunning = 1
  NoOne = NoOne
  NoId = NoId
SYMMETRY Symmetry
INVARIANTS
  Isolation
  EndedRowsNeverRun
