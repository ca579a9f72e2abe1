SPECIFICATION FairSpec
CONSTANTS
  MaxBuilds = 2
  Limit = 2
  Policies = {"parallel", "queue", "cancel_in_progress"}
  MaxFaults = 1
INVARIANTS
  RowsAgree
  OnlyMissedOverlap
  NothingLeftBehind
  ReleasesWereBuilt
PROPERTIES
  BuildsKeepTheirResult
  BuildsEnd
CHECK_DEADLOCK FALSE
