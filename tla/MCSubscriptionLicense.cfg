\* One subscription, two deliveries at a time, three events.
SPECIFICATION Spec
CONSTANTS
  Subs = {s1}
  NoSub = NoSub
  Workers = {w1, w2}
  MaxEvents = 3
  MaxTime = 3
  MaxFailures = 0
  Trial = 1
  Period = 2
  MaxPeriod = 2
  Ttl = 2
SYMMETRY Symmetry
INVARIANTS
  TypeOK
  LedgerExplainsLicense
  SubscriptionRedeliveryIsAnswered
PROPERTIES
  KeepsPromise
CHECK_DEADLOCK FALSE
