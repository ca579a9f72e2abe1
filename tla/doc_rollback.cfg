SPECIFICATION Spec
CONSTANTS
  MaxBuilds = 2
  Limit = 2
  Policies = {"parallel", "queue", "cancel_in_progress"}
  MaxFaults = 0
INVARIANTS
  NoReleaseGoesBack
CHECK_DEADLOCK FALSE
