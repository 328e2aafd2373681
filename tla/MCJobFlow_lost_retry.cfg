SPECIFICATION FairSpec
CONSTANTS
  JobIds = {j1}
  NoJob = NoJob
  Queues = {""}
  AttemptLimits = {3}
  ScheduledBatch = 1
  Handlers = {h1}
  Workers = {w1}
  Pools <- SingleWorkerPools
  WorkerQueues = {"default"}
  MaxRequeues = 0
  FaultKinds = {}
  MaxFaults = 0
PROPERTY RetryingIsRetried
