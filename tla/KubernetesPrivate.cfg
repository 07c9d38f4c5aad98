\* One worker applies one version; the app changes between public and private.
SPECIFICATION Spec
CONSTANTS
  w1 = w1
  w2 = w2
  Workers = {w1}
  Versions = {1}
  RawConfigs <- Configs
  SlugLengths = {37}
  MaxName = 40
  MaxOperations = 2
  MaxUpdates = 1
  MaxFaults = 0
INVARIANT PrivateRemovesIngress
CHECK_DEADLOCK FALSE
