\* Two subscriptions of one user against a deployment.
SPECIFICATION PlatformSpec
CONSTANTS
  u1 = u1  s1 = s1  s2 = s2  d1 = d1
  User = {u1}
  Sub = {s1, s2}
  SubUser <- SubUserOne
  PeriodEnd = {0, 1}
  MaxEvents = 3
  MaxTime = 1
  Deploy = {d1}
  Command = {}
  Poll = {}
  PollOf <- NoPolls
  DeployUser <- DeployUserOne
SYMMETRY SubSymmetry
INVARIANTS PlatformTypeOK SyncedInOrder PayingUserAdmitted MachinesWerePaidFor
PROPERTIES OrderedDeploysPaid
CHECK_DEADLOCK FALSE
