\* Two whitelist changes at once against the lock.
SPECIFICATION Spec
CONSTANTS
  u1 = u1  a1 = a1  a2 = a2  w1 = w1  w2 = w2
  User = {u1}
  Agent = {a1}
  Addr = {w1, w2}
  Owner <- OwnerOne
  NoAddr = NoAddr
  HasKey = {a1}
  Req = {r1}
  Change = {c1, c2}
  LockDuration = 1
  QuoteMargin = 3
  Fee = 1
  Rent = 1
  MaxPerTx = 6
  SingleLimit = 50
  Period <- NoPeriods
  VelocitySpan = 1
  MaxVelocity = 5
  HistoryLength = 5
  Retention = 3
  DepositAmount = {4}
  MaxBalance = 5
  MaxTime = 1
  MaxRestarts = 0
PROPERTIES LockedWhitelistStays
CHECK_DEADLOCK FALSE
