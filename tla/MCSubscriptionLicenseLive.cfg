\* Two deliveries at a time, of which one fails on the way, under fairness.
SPECIFICATION FairSpec
CONSTANTS
  Subs = {s1}
  NoSub = NoSub
  Workers = {w1, w2}
  MaxEvents = 3
  MaxTime = 1
  MaxFailures = 1
  Trial = 1
  Period = 2
  MaxPeriod = 2
  Ttl = 2
PROPERTIES
  EndedIsRevoked
  PaidIsLicensed
CHECK_DEADLOCK FALSE
