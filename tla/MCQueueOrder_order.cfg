SPECIFICATION FairSpec
CONSTANTS
  JobIds = {j1, j2}
  NoJob = NoJob
  Queues <- TwoQueues
  Priorities = {0, 1}
  Workers = {w1}
  Step = 2
  Second = 2
  MaxAttempts = 2
  Floor <- LowestScore
  MaxErrors = 1
INVARIANTS
  OrderInv
PROPERTIES
  FirstComeFirstServed
  FirstQueueIsServed
  LaterQueuesAreServed
