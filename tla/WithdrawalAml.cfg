\* Withdrawals of two agents of one user against the AML limits.
SPECIFICATION Spec
CONSTANTS
  u1 = u1  a1 = a1  a2 = a2  w1 = w1  w2 = w2
  User = {u1}
  Agent = {a1, a2}
  Addr = {w1}
  Owner <- OwnerTwo
  NoAddr = NoAddr
  HasKey = {a1}
  Req = {r1, r2}
  Change = {c1, c2}
  LockDuration = 0
  QuoteMargin = 3
  Fee = 1
  Rent = 1
  MaxPerTx = 6
  SingleLimit = 6
  Period <- Periods
  VelocitySpan = 1
  MaxVelocity = 1
  HistoryLength = 1
  Retention = 2
  DepositAmount = {6}
  MaxBalance = 7
  MaxTime = 2
  MaxRestarts = 1
SYMMETRY Symmetry
INVARIANTS AmlPeriodCap AmlVelocityCap ApprovalRemembered
CHECK_DEADLOCK FALSE
