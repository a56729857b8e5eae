SPECIFICATION Spec
CONSTANTS
  Ops <- CreateDelete
  BirthStates <- RunningOnly
  BackendMoves <- Nothing
  ReuseIds = TRUE
  MaxLate = 1
  KeptOps <- CreateDelete
  Requests = {r1, r2, r3}
  Subjects = {u1, u2}
  SandboxIds = {s1}
  MaxRunning = 1
  NoOne = NoOne
  NoId = NoId
SYMMETRY Symmetry
INVARIANTS
  AuditTruth
  CallersHoldTheirRows
PROPERTIES
  RowsArePermanent
  ImplementsRegistry
