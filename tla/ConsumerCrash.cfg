SPECIFICATION FairSpec
CONSTANTS
  w1 = w1
  w2 = w2
  r1 = r1
  j1 = j1
  j2 = j2
  a1 = a1
  a2 = a2
  None = None
  Jobs = {j1, j2}
  Workers = {w1, w2}
  Reconcilers = {}
  Admins = {}
  Unknown = {j2}
  MaxAttempts = 2
  ScanLimit = 1
  MaxStamp = 6
  MaxFaults = 1
INVARIANT LossOnlyInWindows
PROPERTY LeaseIsExclusive
PROPERTY KeepsContract
 
