SPECIFICATION FairSpec
CONSTANTS
  t1 = t1
  t2 = t2
  t3 = t3
  Threads <- MCThreads
  max_concurrency = 2
  interval = 2
  MaxLeases = 3
  Horizon = 3
INVARIANTS
  TypeOK
  PermitsConserved
  SlotsSpaced
  AverageRate
PROPERTIES
  PacedCallerProceeds
  PermitsReturn
