SPECIFICATION Spec
CONSTANTS
  p1 = p1
  p2 = p2
  p3 = p3
  c1 = c1
  c2 = c2
  c3 = c3
  c4 = c4
  Callers = {p1, p2, p3}
  Conns = {c1, c2, c3, c4}
  NoConn = NoConn
  MaxSize = 2
  MaxDialFailures = 1
SYMMETRY Symmetry
INVARIANT SizeAccounted
INVARIANT ConnectionIsExclusive
INVARIANT RepliesMatchCommands
