\* Two workers, two versions of one app, its config changed once, one fault;
\* the longest slug whose versions keep distinct names.
SPECIFICATION Spec
CONSTANTS
  w1 = w1
  w2 = w2
  Workers = {w1, w2}
  Versions = {1, 2}
  RawConfigs <- Configs
  SlugLengths = {37}
  MaxName = 40
  MaxOperations = 3
  MaxUpdates = 1
  MaxFaults = 1
SYMMETRY Symmetry
INVARIANT TypeInvariant
 
INVARIANT IngressHasService
INVARIANT DeleteIsComplete
 
INVARIANT ConfigIsStable
PROPERTY WorkspaceKept
CHECK_DEADLOCK FALSE
