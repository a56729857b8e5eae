SPECIFICATION EdgesSpec
CONSTANTS
  Subjects = {u1, u2}
  SandboxIds = {s1, s2}
  s1 = s1
  s2 = s2
  NoOne = NoOne
  NoId = NoId
  Values <- SomeLists
  Names <- SomeNames
  RoleValues <- SomeSayings
  Used <- SomeKeys
  Inbounds <- SomeInbounds
  Answers <- SomeAnswers
CHECK_DEADLOCK FALSE
INVARIANTS
  OwnersSeeTheirOwn
  RolesAreWhatIsSaid
  NobodyIsLetInByDefault
  OurKeyOnly
  StayersLeaveNothingOpen
