\* Three processes, four workers: one process may die and another be cleaning
\* while a third reviews at the limit.
SPECIFICATION FairSpec
CONSTANTS
  d1 = d1
  d2 = d2
  d3 = d3
  w1 = w1
  w2 = w2
  w3 = w3
  w4 = w4
  NoProc = NoProc
  Procs <- MCProcs
  Workers <- MCWorkers
  Owner <- MCOwner
  MaxRuns = 2
INVARIANTS
  TypeOK
  RemovalExcludesReviews
  LeaseIsReturned
PROPERTIES
  CleanupIsExclusive
  DeadOwnersAreDiscarded
