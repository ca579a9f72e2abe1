SPECIFICATION Spec
CONSTANTS
  Runs = {r1}
  Executors = {e1, e2}
  Requests = {q1}
  NoRun = NoRun
  NoTask = NoTask
  RunKinds = {"model"}
  RequestKinds = {"approve"}
  CallShapes <- OnlyGated
  MaxModelSteps = 2
  MaxToolCalls = 1
  MaxRecoveries = 1
  UserConcurrentRuns = 1
  MaxRestarts = 1
  MaxOutages = 0
  MaxVersion = 4
  MaxRevision = 1
SYMMETRY Symmetry
INVARIANTS
  BatchBudget
CHECK_DEADLOCK FALSE
