SPECIFICATION FairSpec
CONSTANTS
  w1 = w1
  j1 = j1
  j2 = j2
  Jobs = {j1, j2}
  Workers = {w1}
  NoWorker = NoWorker
  NoJob = NoJob
  MaxAttempts = 2
  Limit = 1
  MaxExpiries = 2
INVARIANT TypeInvariant
INVARIANT StatsAddUp
PROPERTY KeepsContract
PROPERTY EventuallySettled
CHECK_DEADLOCK FALSE
