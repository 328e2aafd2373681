SPECIFICATION FairSpec
CONSTANTS
  JobIds = {j1, j2}
  NoJob = NoJob
  Queues = {""}
  AttemptLimits = {1}
  ScheduledBatch = 2
  Handlers = {h1}
  Workers = {w1}
  Pools <- SingleWorkerPools
  WorkerQueues = {"default"}
  MaxRequeues = 0
  FaultKinds = {"redis", "flush", "api"}
  MaxFaults = 1
PROPERTIES
  QueuedIsPickedUp
  RunningIsResolved
  ScheduledIsPromoted
  ChangeIsPublished
