SPECIFICATION Spec
CONSTANTS
  Tabs = {t1}
  ReadLimit = 1
  Attempts = 2
  MaxSessions = 2
  MaxNumber = 3
  MaxMishaps = 1
INVARIANT
  OneAllocator
CHECK_DEADLOCK FALSE
