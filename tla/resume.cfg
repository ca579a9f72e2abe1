SPECIFICATION Spec
CONSTANTS
  Runs = {r1}
  Executors = {e1}
  Requests = {q1}
  NoRun = NoRun
  NoTask = NoTask
  RunKinds = {"model"}
  RequestKinds = {"reject", "input"}
  CallShapes <- AnyShape
  MaxModelSteps = 2
  MaxToolCalls = 2
  MaxRecoveries = 2
  UserConcurrentRuns = 1
  MaxRestarts = 2
  MaxOutages = 1
  MaxVersion = 6
  MaxRevision = 4
SYMMETRY Symmetry
INVARIANTS
  BatchBudget
  CompletedMeansSettled
CHECK_DEADLOCK FALSE
