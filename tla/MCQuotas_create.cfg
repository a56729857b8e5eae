SPECIFICATION Spec
CONSTANTS
  RuleValues <- SomeRules
  Timeouts <- SomeTimeouts
  Window = 1
  MaxTime = 2
  MaxRows = 3
  DefaultRunning = 2
  DefaultTimeout = 2
  DefaultRate = 1
  Requests = {r1, r2}
  RuleIds = {i1, i2}
  SeedId = i1
  Subjects = {alice}
  alice = alice
  NoLimit = NoLimit
  NoTimeout = NoTimeout
SYMMETRY Symmetry
INVARIANTS
  TypeOK
  RateOvershootBounded
  UsageAgreesWithEnforcement
  LifetimesWithinQuota
CHECK_DEADLOCK FALSE
