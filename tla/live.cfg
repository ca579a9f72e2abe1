SPECIFICATION FairSpec
CONSTANTS
  Runs = {r1}
  Executors = {e1}
  Requests = {q1}
  NoRun = NoRun
  NoTask = NoTask
  RunKinds = {"model", "direct"}
  RequestKinds = {"approve", "reject", "cancel"}
  CallShapes <- AnyWrite
  MaxModelSteps = 1
  MaxToolCalls = 1
  MaxRecoveries = 1
  UserConcurrentRuns = 1
  MaxRestarts = 1
  MaxOutages = 0
  MaxVersion = 4
  MaxRevision = 3
PROPERTIES
  RunSettles
CHECK_DEADLOCK FALSE
