SPECIFICATION Spec
CONSTANTS
  JobIds = {j1}
  NoJob = NoJob
  Queues = {""}
  AttemptLimits <- EdgeLimits
  ScheduledBatch = 1
  Handlers = {h1, h2}
  Workers = {w1, w2}
  Pools <- SingleWorkerPools
  WorkerQueues = {"default"}
  MaxRequeues = 2
  FaultKinds = {"postgres", "redis", "api", "worker", "flush"}
  MaxFaults = 3
SYMMETRY ProcessSymmetry
INVARIANTS
  SafetyInv
  OneWorkerPerJob
  AttemptsWithinBudget
PROPERTIES
  SettledStaysSettled
  ImplementsLifecycle
