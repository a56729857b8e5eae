SPECIFICATION Spec
CONSTANTS
  Ops <- IssueOnly
  Words <- Dismissals
  Requests = {r1}
  Subjects = {u1}
  CredIds = {c1}
  Names = {n1}
  MaxKeys = 1
  MaxSecret = 1
  NoOne = NoOne
  NoCredId = NoCredId
SYMMETRY Symmetry
CHECK_DEADLOCK FALSE
PROPERTY RefusedUsersStayOut
