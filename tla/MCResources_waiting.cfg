SPECIFICATION FairSpec
CONSTANTS
  Requests = {r1, r2, r3}
  NoOne = NoOne
  PoolSize = 2
  Kinds <- EveryKind
  Backends <- TwoBackends
  Default = "default"
INVARIANTS
  TypeOK
  NobodyHoldsAndWaits
  AnswersFindAConnection
  HealthIsLatest
PROPERTIES
  CreatesAreRecorded
  RequestsFinish
