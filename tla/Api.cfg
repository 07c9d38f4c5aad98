\* Three requests or sync jobs over each driver, one failed call or crash.
CONSTANTS
  r1 = r1
  r2 = r2
  r3 = r3
  t0 = t0
  a0 = a0
  d0 = d0
  k0 = k0
  None = None
  Lower <- LowerCase
  Requests = {r1, r2, r3}
  Inputs <- Asks
  Drivers = {"memory", "postgres"}
  InitialDB <- DB
  MaxFaults = 1
SPECIFICATION Spec
SYMMETRY Symmetry
INVARIANTS
  TypeInvariant
  OwnAppsReachable
  
  VersionsAreHistory
  
  RevokedKeyStaysOut
  
  RefusedChangesNothing
  OwnTenantOnly
  PreflightAgrees
CHECK_DEADLOCK FALSE
