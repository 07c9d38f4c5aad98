SPECIFICATION FairSpec
CONSTANTS
  Deps = {d1}
  Workers = {w1}
  Clients = {c1}
  None = None
  AutoRepair = TRUE
  MaxRepair = 1
  SubmitStatuses = {"provisioning"}
  Rollouts = {"provisioning", "degraded", "running", "failed"}
  MaxCopies = 1
  MaxRequests = 2
  MaxFaults = 1
INVARIANT TypeInvariant
INVARIANT RepairsCounted
 
 
CHECK_DEADLOCK FALSE
