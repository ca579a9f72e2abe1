SPECIFICATION DeletionSpec
CONSTANTS
  MaxReleases = 1
  MaxFaults = 0
  MaxMishaps = 0
PROPERTIES
  DeletionEndsAsSuch
CHECK_DEADLOCK FALSE
