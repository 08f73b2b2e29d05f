SPECIFICATION Spec
CONSTANTS
  k1 = k1  i1 = i1
  Key = {k1}  Address = {i1}  c1 = c1  c2 = c2  c3 = c3
  Call <- Calls  Op <- Calls  Visit <- Calls
  Limit <- Limits
  WindowSpan = 2  MaxDeaths = 1
  MaxFailed = 2  LockSpan = 2  ResetSpan = 2
  ResetTimeout = 1  PauseDuration = 2
  MaxTime = 4
SYMMETRY Symmetry
CHECK_DEADLOCK FALSE
INVARIANTS RateTypeOK NeverRefusedEarly ExactInMemory LockoutTypeOK BreakerTypeOK
PROPERTIES LockHolds TripHolds
