SPECIFICATION Spec
CONSTANTS
  Ops <- IssueAndDisable
  Words <- RoleWithdrawn
  Requests = {r1, r2}
  Subjects = {u1}
  CredIds = {c1, c2, c3}
  Names = {n1, n2, n3}
  MaxKeys = 1
  MaxSecret = 3
  NoOne = NoOne
  NoCredId = NoCredId
SYMMETRY Symmetry
CHECK_DEADLOCK FALSE
INVARIANTS
  TypeOK
  OvershootBounded
