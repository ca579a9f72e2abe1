SPECIFICATION Spec
CONSTANTS
  Runs = {r1, r2}
  Executors = {e1, e2}
  Requests = {q1}
  NoRun = NoRun
  NoTask = NoTask
  RunKinds = {"model"}
  RequestKinds = {"approve", "reject", "cancel"}
  CallShapes <- OnlyGated
  MaxModelSteps = 1
  MaxToolCalls = 1
  MaxRecoveries = 1
  UserConcurrentRuns = 1
  MaxRestarts = 1
  MaxOutages = 0
  MaxVersion = 3
  MaxRevision = 3
SYMMETRY Symmetry
INVARIANTS
  UserQuotaHolds
CHECK_DEADLOCK FALSE
