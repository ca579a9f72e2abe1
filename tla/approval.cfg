SPECIFICATION Spec
CONSTANTS
  Runs = {r1}
  Executors = {e1}
  Requests = {q1, q2}
  NoRun = NoRun
  NoTask = NoTask
  RunKinds = {"model", "direct"}
  RequestKinds = {"approve", "reject", "cancel"}
  CallShapes <- OnlyGated
  MaxModelSteps = 1
  MaxToolCalls = 1
  MaxRecoveries = 1
  UserConcurrentRuns = 1
  MaxRestarts = 2
  MaxOutages = 1
  MaxVersion = 5
  MaxRevision = 3
SYMMETRY Symmetry
INVARIANTS
  TypeOK
  EffectAtMostOnce
  EffectsHaveConsent
  OutcomeIsStored
PROPERTIES
  CallsSettleOnce
  RunsFollowLifecycle
CHECK_DEADLOCK FALSE
