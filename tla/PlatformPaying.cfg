\* Reordered events against the promise that only paying users deploy.
SPECIFICATION PlatformSpec
CONSTANTS
  u1 = u1  s1 = s1  s2 = s2  d1 = d1
  User = {u1}
  Sub = {s1}
  SubUser <- SubUserSingle
  PeriodEnd = {1}
  MaxEvents = 3
  MaxTime = 1
  Deploy = {d1}
  Command = {}
  Poll = {}
  PollOf <- NoPolls
  DeployUser <- DeployUserOne
PROPERTIES OnlyPayingUsersDeploy
CHECK_DEADLOCK FALSE
