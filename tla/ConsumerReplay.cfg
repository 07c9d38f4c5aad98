SPECIFICATION Spec
CONSTANTS
  w1 = w1
  w2 = w2
  r1 = r1
  j1 = j1
  j2 = j2
  a1 = a1
  a2 = a2
  None = None
  Jobs = {j1, j2}
  Workers = {w1}
  Reconcilers = {r1}
  Admins = {a1, a2}
  Unknown = {j2}
  MaxAttempts = 2
  ScanLimit = 100
  MaxStamp = 6
  MaxFaults = 1
SYMMETRY Symmetry
INVARIANT NoDoublePromotion
 
INVARIANT DeadIffExhausted
PROPERTY KeepsContract
