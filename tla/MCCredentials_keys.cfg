SPECIFICATION Spec
CONSTANTS
  Ops <- EveryOp
  Words <- AdminDismissals
  Requests = {r1, r2}
  Subjects = {u1, u2}
  CredIds = {c1}
  Names = {n1}
  MaxKeys = 1
  MaxSecret = 3
  NoOne = NoOne
  NoCredId = NoCredId
SYMMETRY Symmetry
CHECK_DEADLOCK FALSE
INVARIANTS
  KeysSpeakForTheirHolder
  AuditNamesTheOwner
PROPERTIES
  DeadKeysStayDead
  ImplementsKeyring
