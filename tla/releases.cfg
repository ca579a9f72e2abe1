SPECIFICATION FairSpec
CONSTANTS
  MaxReleases = 2
  MaxFaults = 2
INVARIANTS
  VerdictsAreEarned
PROPERTIES
  ReleasesKeepTheirResult
  ReleasesEnd
CHECK_DEADLOCK FALSE
