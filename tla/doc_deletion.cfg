SPECIFICATION Spec
CONSTANTS
  Volumes = {v1}
  NoVolume = NoVolume
  NoTarget = NoTarget
  Clients = {c1}
  Targets = {}
  Releases = {}
  MaxCapacity = 1
  Limit = 1
  MaxRetry = 1
  MaxRequests = 2
  MaxFaults = 0
INVARIANTS
  DeletedHasNoClaim
CHECK_DEADLOCK FALSE
