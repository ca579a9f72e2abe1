SPECIFICATION FairSpec
CONSTANTS
  Volumes = {v1}
  NoVolume = NoVolume
  NoTarget = NoTarget
  Clients = {c1}
  Targets = {t1}
  Releases = {r1}
  MaxCapacity = 3
  Limit = 2
  MaxRetry = 1
  MaxRequests = 3
  MaxFaults = 1
INVARIANTS
  QuotaHolds
  MountedStays
PROPERTIES
  VolumesFollowTable
  ReleasedIsDetached
  OperationSettles
CHECK_DEADLOCK FALSE
