SPECIFICATION FairSpec
CONSTANTS
  a1 = a1  a2 = a2  q1 = q1  q2 = q2
  s1 = s1  p1 = p1  p2 = p2  d1 = d1  d2 = d2
  g1 = g1  g2 = g2  g3 = g3  h1 = h1  n1 = n1
  Account = {a1, a2}  Address = {e1}  NoAddress = none
  Request = {q1, q2}  Sender <- Senders  MaxChanges = 3
  Strategy = {s1}  Purchase = {p1, p2}  Buyer <- Buyers  Wanted <- Wants
  Delivery = {d1, d2}  Carries <- Carried  MaxSold = 2
  Code = {x1, x2}
  Asking = {g1, g2, g3}  Asks <- Askers  Applying = {h1}  Applies <- Appliers
  Earning = {n1}  Earns <- Earners
CHECK_DEADLOCK FALSE
INVARIANTS MarketTypeOK CountNeverAhead AnsweredIsCounted OwnedIsPaid AffiliatesTypeOK SettledCodeStays EarningsBacked
PROPERTIES EveryUserGetsIn PaidIsOwned
