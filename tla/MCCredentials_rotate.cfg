SPECIFICATION Spec
CONSTANTS
  Ops <- IssueDisableRotate
  Words <- AgentsOnly
  Requests = {r1}
  Subjects = {u1}
  CredIds = {c1, c2}
  Names = {n1, n2}
  MaxKeys = 1
  MaxSecret = 3
  NoOne = NoOne
  NoCredId = NoCredId
SYMMETRY Symmetry
CHECK_DEADLOCK FALSE
INVARIANT LimitRespected
