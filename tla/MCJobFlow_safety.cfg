SPECIFICATION Spec
CONSTANTS
  JobIds = {j1, j2}
  NoJob = NoJob
  Queues = {""}
  AttemptLimits <- EdgeLimits
  ScheduledBatch = 2
  Handlers = {h1, h2}
  Workers = {w1, w2}
  Pools <- SingleWorkerPools
  WorkerQueues = {"default"}
  MaxRequeues = 1
  FaultKinds = {}
  MaxFaults = 0
SYMMETRY Symmetry
INVARIANTS
  QueuedIsDelivered
  RunningIsExecuted
  DeliveredOnce
  BackoffRespected
  DeadLetterLedger
  ChangesAreAnnounced
