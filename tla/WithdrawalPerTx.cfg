\* A transfer against the documented cap per transaction.  What one deposit leaves
\* after fee and rent is just within the cap and there is room for a second one, so the
\* cap is exceeded only by a deposit between the check and the second balance reading.
SPECIFICATION Spec
CONSTANTS
  u1 = u1  a1 = a1  a2 = a2  w1 = w1  w2 = w2
  User = {u1}
  Agent = {a1}
  Addr = {w1}
  Owner <- OwnerOne
  NoAddr = NoAddr
  HasKey = {a1}
  Req = {r1}
  Change = {c1}
  LockDuration = 0
  QuoteMargin = 3
  Fee = 1
  Rent = 1
  MaxPerTx = 4
  SingleLimit = 50
  Period <- NoPeriods
  VelocitySpan = 1
  MaxVelocity = 5
  HistoryLength = 5
  Retention = 3
  DepositAmount = {6}
  MaxBalance = 12
  MaxTime = 0
  MaxRestarts = 0
INVARIANTS PerTransactionCap
CHECK_DEADLOCK FALSE
