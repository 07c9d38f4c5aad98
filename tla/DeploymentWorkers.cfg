SPECIFICATION Spec
CONSTANTS
  Deps = {d1}
  Workers = {w1, w2}
  Clients = {c1}
  None = None
  AutoRepair = TRUE
  MaxRepair = 1
  SubmitStatuses = {"provisioning", "running"}
  Rollouts = {"running", "failed"}
  MaxCopies = 1
  MaxRequests = 2
  MaxFaults = 0
SYMMETRY Symmetry
INVARIANT RepairsCounted
INVARIANT CurrentHasRun
INVARIANT ResourcesAccounted
PROPERTY EndedStaysEnded
CHECK_DEADLOCK FALSE
CONSTRAINT NothingOverwritten
