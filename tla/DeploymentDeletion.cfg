SPECIFICATION FairSpec
CONSTANTS
  Deps = {d1}
  Workers = {w1}
  Clients = {c1}
  None = None
  AutoRepair = TRUE
  MaxRepair = 1
  SubmitStatuses = {"provisioning"}
  Rollouts = {"running"}
  MaxCopies = 1
  MaxRequests = 2
  MaxFaults = 1
PROPERTY DeletionCompletes
CHECK_DEADLOCK FALSE
