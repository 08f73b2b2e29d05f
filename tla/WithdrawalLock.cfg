\* Whitelist changes race with two withdrawals of one agent.
SPECIFICATION Spec
CONSTANTS
  u1 = u1  a1 = a1  a2 = a2  w1 = w1  w2 = w2
  User = {u1}
  Agent = {a1}
  Addr = {w1, w2}
  Owner <- OwnerOne
  NoAddr = NoAddr
  HasKey = {a1}
  Req = {r1, r2}
  Change = {c1, c2}
  LockDuration = 1
  QuoteMargin = 3
  Fee = 1
  Rent = 1
  MaxPerTx = 4
  SingleLimit = 50
  Period <- NoPeriods
  VelocitySpan = 1
  MaxVelocity = 10
  HistoryLength = 5
  Retention = 3
  DepositAmount = {4}
  MaxBalance = 5
  MaxTime = 2
  MaxRestarts = 1
SYMMETRY Symmetry
INVARIANTS TypeOK TransferRespectsLock PaidOnce LockInv CompleteMeansLanded
CHECK_DEADLOCK FALSE
