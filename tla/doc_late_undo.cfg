SPECIFICATION Spec
CONSTANTS
  Runs = {r1}
  Executors = {e1}
  Requests = {q1, q2}
  NoRun = NoRun
  NoTask = NoTask
  RunKinds = {"direct"}
  RequestKinds = {"approve", "reject", "cancel"}
  CallShapes <- AnyWrite
  MaxModelSteps = 1
  MaxToolCalls = 1
  MaxRecoveries = 1
  UserConcurrentRuns = 1
  MaxRestarts = 0
  MaxOutages = 0
  MaxVersion = 4
  MaxRevision = 3
SYMMETRY Symmetry
PROPERTIES
  OnlyOwnerFailsRun
CHECK_DEADLOCK FALSE
