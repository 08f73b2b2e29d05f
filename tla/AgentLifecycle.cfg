\* Three commands and a dashboard on one agent.
SPECIFICATION FairSpec
CONSTANTS
  d1 = d1  p1 = p1
  Deploy = {d1}
  Command = {c1, c2, c3}
  Poll = {p1}
  PollOf <- PollOne
INVARIANTS TypeOK NoSilentOrphan
PROPERTIES StatusHeals DeletedStays
CHECK_DEADLOCK FALSE
