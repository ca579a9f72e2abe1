SPECIFICATION FairSpec
CONSTANTS
  Workers = {w1, w2}
  Sweepers = {s1}
  Clients = {c1}
  Nobody = Nobody
  MaxRetry = 1
  MaxGen = 2
  MaxFaults = 1
INVARIANTS
  VolumeAgrees
PROPERTIES
  TransferFollowsTable
  TransferSettles
CHECK_DEADLOCK FALSE
