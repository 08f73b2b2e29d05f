\* Two withdrawals and a change of the whitelist: every request ends, and what is done is a payout.
SPECIFICATION FairSpec
CONSTANTS
  u1 = u1  a1 = a1  a2 = a2  w1 = w1  w2 = w2
  User = {u1}
  Agent = {a1}
  Addr = {w1, w2}
  Owner <- OwnerOne
  NoAddr = NoAddr
  HasKey = {a1}
  Req = {r1, r2}
  Change = {c1}
  LockDuration = 1
  QuoteMargin = 3
  Fee = 1
  Rent = 1
  MaxPerTx = 6
  SingleLimit = 6
  Period <- NoPeriods
  VelocitySpan = 1
  MaxVelocity = 5
  HistoryLength = 5
  Retention = 3
  DepositAmount = {6}
  MaxBalance = 7
  MaxTime = 1
  MaxRestarts = 1
PROPERTIES EveryRequestEnds ImplementsPayout
CHECK_DEADLOCK FALSE
