SPECIFICATION Spec
CONSTANTS
  w1 = w1
  w2 = w2
  r1 = r1
  j1 = j1
  j2 = j2
  a1 = a1
  a2 = a2
  None = None
  Jobs = {j1}
  Workers = {w1, w2}
  Reconcilers = {}
  Admins = {}
  Unknown = {}
  MaxAttempts = 1
  ScanLimit = 100
  MaxStamp = 6
  MaxFaults = 2
INVARIANT NeverLost
