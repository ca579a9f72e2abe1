SPECIFICATION Spec
CONSTANTS
  Runs = {r1}
  Executors = {e1}
  Requests = {q1}
  NoRun = NoRun
  NoTask = NoTask
  RunKinds = {"model"}
  RequestKinds = {"approve", "reject", "cancel"}
  CallShapes <- OnlyGated
  MaxModelSteps = 1
  MaxToolCalls = 1
  MaxRecoveries = 1
  UserConcurrentRuns = 1
  MaxRestarts = 1
  MaxOutages = 0
  MaxVersion = 4
  MaxRevision = 3
SYMMETRY Symmetry
INVARIANTS
  ApprovalHasNoRival
CHECK_DEADLOCK FALSE
