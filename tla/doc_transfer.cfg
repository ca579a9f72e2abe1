SPECIFICATION Spec
CONSTANTS
  Workers = {w1}
  Sweepers = {s1}
  Clients = {c1}
  Nobody = Nobody
  MaxRetry = 0
  MaxGen = 1
  MaxFaults = 0
INVARIANTS
  SucceededImportKeepsClaim
CHECK_DEADLOCK FALSE
