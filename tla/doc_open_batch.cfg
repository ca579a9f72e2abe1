SPECIFICATION Spec
CONSTANTS
  Runs = {r1}
  Executors = {e1}
  Requests = {q1}
  NoRun = NoRun
  NoTask = NoTask
  RunKinds = {"model"}
  RequestKinds = {}
  CallShapes <- AnyShape
  MaxModelSteps = 2
  MaxToolCalls = 2
  MaxRecoveries = 2
  UserConcurrentRuns = 1
  MaxRestarts = 2
  MaxOutages = 0
  MaxVersion = 9
  MaxRevision = 4
SYMMETRY Symmetry
INVARIANTS
  CompletedHasNoOpenCall
CHECK_DEADLOCK FALSE
