SPECIFICATION FairDeletionSpec
CONSTANTS
  MaxReleases = 1
  MaxFaults = 0
  MaxMishaps = 1
INVARIANTS
  NoRelationToWhatGoes
  LeftoversWereRacing
PROPERTIES
  ReleasesGoOn
  DeletionIsAnswered
CHECK_DEADLOCK FALSE
