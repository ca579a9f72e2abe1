SPECIFICATION Spec
CONSTANTS
  Runs = {r1}
  Executors = {e1}
  Requests = {q1}
  NoRun = NoRun
  NoTask = NoTask
  RunKinds = {"model"}
  RequestKinds = {"approve", "reject", "cancel", "input"}
  CallShapes <- AnyShape
  MaxModelSteps = 2
  MaxToolCalls = 2
  MaxRecoveries = 1
  UserConcurrentRuns = 1
  MaxRestarts = 0
  MaxOutages = 0
  MaxVersion = 8
  MaxRevision = 6
SYMMETRY Symmetry
INVARIANTS
  BatchBudget
  CompletedMeansSettled
  CompletedHasNoOpenCall
  ApprovalHasCall
CHECK_DEADLOCK FALSE
