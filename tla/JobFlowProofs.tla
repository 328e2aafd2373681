--------------------------- MODULE JobFlowProofs ---------------------------
(***************************************************************************)
(* Proofs about JobFlow, for any sets of jobs, queues, handlers, workers   *)
(* and worker processes, any attempt limits, and any number of faults.     *)
(* The second half is about runs without faults: every change is           *)
(* announced, the dead-letter list counts right, and a job's id is in one  *)
(* place at a time.                                                        *)
(***************************************************************************)
EXTENDS JobFlow, FiniteSetTheorems, TLAPS

\* The system starts well-typed.
LEMMA TypeInit == Init => TypeOK
<1> SUFFICES ASSUME Init PROVE TypeOK
  OBVIOUS
<1>1. RepositoryTypeOK
  BY DEF Init, RepositoryInit, RepositoryTypeOK, Rows, Statuses
<1>2. RedisTypeOK
  BY DEF Init, RedisInit, RedisTypeOK
<1>3. faultsLeft \in Nat
  BY BoundsAssumption DEF Init
<1> QED
  BY <1>1, <1>2, <1>3
     DEF Init, TypeOK, HandlerSteps, WorkerSteps, SchedulerSteps

\* Requests of the API keep the types.
LEMMA TypeRequest ==
  ASSUME TypeOK, NEW h \in Handlers, Request(h) \/ HandlerStep(h)
  PROVE  TypeOK'
<1> USE DEF TypeOK, RepositoryTypeOK, RedisTypeOK, redisVars, handlerVars,
            workerVars, schedulerVars, repositoryVars, HandlerGoes, Returned,
            NoFault, Fault, Changed, Publish, HandlerSteps
<1>1. ASSUME NEW j \in JobIds, NEW q \in Queues, NEW n \in AttemptLimits,
             NEW s \in {"queued", "scheduled"}, CreateJob(h, j, q, n, s)
      PROVE  TypeOK'
  <2>1. [queue |-> EffectiveQueue(q), maxAttempts |-> EffectiveLimit(n)] \in Rows
    BY AttemptLimitsAssumption DEF Rows, QueueNames, EffectiveLimit
  <2>2. s \in Statuses
    BY DEF Statuses
  <2> QED
    BY <1>1, <2>1, <2>2 DEF CreateJob, Create, SetStatus
<1>2. ASSUME NEW j \in JobIds, CancelJob(h, j)
      PROVE  TypeOK'
  BY <1>2 DEF CancelJob, Cancel, SetStatus, Statuses
<1>3. ASSUME NEW j \in JobIds, RetryJob(h, j)
      PROVE  TypeOK'
  BY <1>3 DEF RetryJob, Requeue, SetStatus, Statuses
<1>4. CASE HandlerEnqueue(h)
  BY <1>4 DEF HandlerEnqueue, Enqueue
<1>5. CASE HandlerPublish(h)
  BY <1>5 DEF HandlerPublish
<1> QED
  BY <1>1, <1>2, <1>3, <1>4, <1>5 DEF Request, HandlerStep

\* Steps of the scheduler keep the types.
LEMMA TypeScheduler ==
  ASSUME TypeOK, SchedulerStep
  PROVE  TypeOK'
<1> USE DEF TypeOK, RepositoryTypeOK, RedisTypeOK, redisVars, handlerVars,
            workerVars, schedulerVars, repositoryVars, SchedulerGoes,
            NoFault, Fault, Publish, SchedulerSteps
<1>1. CASE SelectScheduled
  BY <1>1 DEF SelectScheduled, ReadyBatches, DueScheduled
<1>2. CASE ClaimBatch
  BY <1>2 DEF ClaimBatch, ClaimScheduled, Statuses
<1>3. CASE PublishClaimed
  BY <1>3 DEF PublishClaimed
<1>4. CASE ScanRetries
  BY <1>4 DEF ScanRetries, DueRetries
<1>5. CASE RemovePromoted
  BY <1>5 DEF RemovePromoted, RemoveRetry
<1>6. CASE EndTick
  BY <1>6 DEF EndTick
<1>7. ASSUME NEW j \in JobIds, EnqueueClaimed(j) PROVE TypeOK'
  BY <1>7 DEF EnqueueClaimed, Enqueue
<1>8. ASSUME NEW j \in JobIds, PromoteRetry(j) PROVE TypeOK'
  BY <1>8 DEF PromoteRetry, Enqueue
<1> QED
  BY <1>1, <1>2, <1>3, <1>4, <1>5, <1>6, <1>7, <1>8 DEF SchedulerStep

\* Steps of a worker keep the types.
LEMMA TypeWorker ==
  ASSUME TypeOK, NEW w \in Workers, WorkerStep(w)
  PROVE  TypeOK'
<1> USE DEF TypeOK, RepositoryTypeOK, RedisTypeOK, redisVars, handlerVars,
            workerVars, schedulerVars, repositoryVars, WorkerGoes,
            NoFault, Fault, Changed, Publish, WorkerSteps
<1>1. ASSUME NEW j \in JobIds, DequeueJob(w, j) PROVE TypeOK'
  BY <1>1 DEF DequeueJob, Pop
<1>2. CASE StartJob(w)
  BY <1>2 DEF StartJob, MarkRunning, SetStatus, Statuses
<1>3. CASE SkipJob(w)
  BY <1>3 DEF SkipJob
<1>4. CASE PublishRunning(w)
  BY <1>4 DEF PublishRunning
<1>5. CASE CompleteJob(w)
  BY <1>5 DEF CompleteJob, Processing, MarkCompleted, SetStatus, Statuses
<1>6. CASE FailJob(w)
  BY <1>6 DEF FailJob, Processing, MarkFailed, SetStatus, Statuses
<1>7. CASE BackOff(w)
  BY <1>7 DEF BackOff, EnqueueAfter
<1>8. CASE Bury(w)
  BY <1>8 DEF Bury, DeadLetter
<1>9. CASE PublishOutcome(w)
  BY <1>9 DEF PublishOutcome
<1> QED
  BY <1>1, <1>2, <1>3, <1>4, <1>5, <1>6, <1>7, <1>8, <1>9 DEF WorkerStep

\* Clocks and restarts keep the types.
LEMMA TypeEnvironment ==
  ASSUME TypeOK, Restart \/ \E j \in JobIds : ClockStep(j)
  PROVE  TypeOK'
<1> USE DEF TypeOK, RepositoryTypeOK, RedisTypeOK, redisVars, handlerVars,
            workerVars, schedulerVars, repositoryVars, SchedulerGoes,
            NoFault, Fault, HandlerSteps, WorkerSteps, SchedulerSteps
<1>1. CASE ApiRestart
  BY <1>1 DEF ApiRestart
<1>2. CASE RedisFlush
  BY <1>2 DEF RedisFlush
<1>3. ASSUME NEW P \in Pools, WorkerRestart(P) PROVE TypeOK'
  BY <1>3 DEF WorkerRestart
<1>4. ASSUME NEW j \in JobIds, ClockStep(j) PROVE TypeOK'
  BY <1>4 DEF ClockStep, ScheduleTick, ScheduleComesDue, BackoffTick,
              BackoffElapses
<1> QED
  BY <1>1, <1>2, <1>3, <1>4 DEF Restart

\* Every step keeps the types.
LEMMA TypeStep == TypeOK /\ [Next]_vars => TypeOK'
<1> SUFFICES ASSUME TypeOK, [Next]_vars PROVE TypeOK'
  OBVIOUS
<1>1. CASE UNCHANGED vars
  BY <1>1 DEF vars, TypeOK, RepositoryTypeOK, RedisTypeOK, repositoryVars,
              redisVars, handlerVars, workerVars, schedulerVars
<1>2. CASE Next
  BY <1>2, TypeRequest, TypeScheduler, TypeWorker, TypeEnvironment DEF Next
<1> QED
  BY <1>1, <1>2

\* Every reachable state is well-typed.
THEOREM TypeCorrect == Spec => []TypeOK
BY TypeInit, TypeStep, PTL DEF Spec

----------------------------------------------------------------------------
(***************************************************************************)
(* The inductive invariant.  Most steps touch none of what it talks about: *)
(* SafetyFrame covers them.  The others change the status of a job or      *)
(* select a batch and are treated one by one.                              *)
(***************************************************************************)
\* The attempt limit of a row is an integer, that of no row is 0.
LEMMA LimitOfRows == \A r \in Rows : r.maxAttempts \in Int
<1>1. \A r \in [queue : QueueNames, maxAttempts : Int] : r.maxAttempts \in Int
  OBVIOUS
<1>2. NoRow.maxAttempts \in Int
  BY DEF NoRow
<1> QED
  BY <1>1, <1>2 DEF Rows

\* The attempt limit of every job is an integer.
LEMMA LimitIsInt ==
  ASSUME RepositoryTypeOK, NEW j \in JobIds
  PROVE  row[j].maxAttempts \in Int
BY LimitOfRows DEF RepositoryTypeOK

\* Within its budget a job has at least one execution.
LEMMA BudgetPositive ==
  ASSUME TypeOK, NEW j \in JobIds
  PROVE  Budget(j) \in Int /\ Budget(j) >= 1 /\ Budget(j) >= row[j].maxAttempts
<1>1. row[j].maxAttempts \in Int
  BY LimitIsInt DEF TypeOK
<1>2. requeues[j] \in Nat
  BY DEF TypeOK
<1> QED
  BY <1>1, <1>2 DEF Budget

\* The system starts within the invariant.
LEMMA SafetyInit == Init => SafetyInv
<1> SUFFICES ASSUME Init PROVE SafetyInv
  OBVIOUS
<1>1. TypeOK
  BY TypeInit
<1>2. ExecutingIsRunning /\ OneWorkerPerJob /\ SelectedIsUnspent
  BY DEF Init, ExecutingIsRunning, OneWorkerPerJob, SelectedIsUnspent, Executing
<1>3. FreshIsUnspent /\ RunnableHasBudget
  BY DEF Init, RepositoryInit, FreshIsUnspent, RunnableHasBudget
<1>4. AttemptsWithinBudget
  <2>1. ASSUME NEW j \in JobIds PROVE attempts[j] <= Budget(j)
    <3>1. Budget(j) \in Int /\ Budget(j) >= 1
      BY <1>1, BudgetPositive
    <3>2. attempts[j] = 0
      BY DEF Init, RepositoryInit
    <3> QED
      BY <3>1, <3>2
  <2> QED
    BY <2>1 DEF AttemptsWithinBudget
<1> QED
  BY <1>1, <1>2, <1>3, <1>4 DEF SafetyInv

\* A step that keeps the rows, starts no execution and selects no batch
\* keeps the invariant.
LEMMA SafetyFrame ==
  ASSUME SafetyInv, TypeOK', UNCHANGED <<status, attempts, row, requeues>>,
         \A w \in Workers : Executing(w)' => Executing(w) /\ wjob'[w] = wjob[w],
         spc' = "claim" => spc = "claim" /\ todo' = todo
  PROVE  SafetyInv'
BY DEF SafetyInv, ExecutingIsRunning, OneWorkerPerJob, FreshIsUnspent,
       SelectedIsUnspent, RunnableHasBudget, AttemptsWithinBudget, Budget,
       AttemptsLeft

\* An INSERT keeps the invariant: the new row has spent nothing.
LEMMA SafetyCreate ==
  ASSUME SafetyInv, TypeOK', NEW h \in Handlers, NEW j \in JobIds,
         NEW q \in Queues, NEW n \in AttemptLimits,
         NEW s \in {"queued", "scheduled"}, CreateJob(h, j, q, n, s)
  PROVE  SafetyInv'
<1> USE DEF SafetyInv, CreateJob, Create, SetStatus, TypeOK, RepositoryTypeOK,
            workerVars, schedulerVars
<1>1. ExecutingIsRunning' /\ OneWorkerPerJob'
  BY DEF ExecutingIsRunning, OneWorkerPerJob, Executing
<1>2. FreshIsUnspent' /\ SelectedIsUnspent'
  BY DEF FreshIsUnspent, SelectedIsUnspent
<1>3. Budget(j)' >= 1 /\ attempts[j] = 0
  BY AttemptLimitsAssumption
     DEF Budget, EffectiveLimit, FreshIsUnspent
<1>4. \A k \in JobIds \ {j} : /\ Budget(k)' = Budget(k)
                             /\ AttemptsLeft(k)' = AttemptsLeft(k)
  BY DEF Budget, AttemptsLeft
<1>5. attempts' = attempts /\ \A k \in JobIds \ {j} : status'[k] = status[k]
  OBVIOUS
<1>6. status'[j] # "retrying"
  OBVIOUS
<1>7. Budget(j)' \in Int
  BY AttemptLimitsAssumption DEF Budget, EffectiveLimit
<1>8. RunnableHasBudget' /\ AttemptsWithinBudget'
  <2> HIDE DEF CreateJob, Create, TypeOK, RepositoryTypeOK, SetStatus
  <2> QED
    BY <1>3, <1>4, <1>5, <1>6, <1>7 DEF RunnableHasBudget, AttemptsWithinBudget
<1> QED
  BY <1>1, <1>2, <1>8

\* Cancel and Requeue move a job that nobody executes and nobody selected
\* out of turn, and leave it within its budget.
LEMMA SafetyRequest ==
  ASSUME SafetyInv, TypeOK', NEW h \in Handlers, NEW j \in JobIds,
         CancelJob(h, j) \/ RetryJob(h, j)
  PROVE  SafetyInv'
<1> USE DEF SafetyInv, TypeOK, RepositoryTypeOK, SetStatus, workerVars,
            schedulerVars
<1>1. CASE CancelJob(h, j)
  <2> USE <1>1 DEF CancelJob, Cancel
  <2>1. ExecutingIsRunning' /\ OneWorkerPerJob'
    BY DEF ExecutingIsRunning, OneWorkerPerJob, Executing
  <2>2. FreshIsUnspent' /\ SelectedIsUnspent'
    BY DEF FreshIsUnspent, SelectedIsUnspent
  <2>3. RunnableHasBudget' /\ AttemptsWithinBudget'
    BY DEF RunnableHasBudget, AttemptsWithinBudget, Budget, AttemptsLeft
  <2> QED
    BY <2>1, <2>2, <2>3
<1>2. CASE RetryJob(h, j)
  <2> USE <1>2 DEF RetryJob, Requeue
  <2>1. ExecutingIsRunning' /\ OneWorkerPerJob'
    BY DEF ExecutingIsRunning, OneWorkerPerJob, Executing
  <2>2. FreshIsUnspent' /\ SelectedIsUnspent'
    BY DEF FreshIsUnspent, SelectedIsUnspent
  <2>3. /\ Budget(j)' = Budget(j) + 1
        /\ \A k \in JobIds \ {j} : Budget(k)' = Budget(k)
    <3>1. requeues[j] \in Nat /\ row[j].maxAttempts \in Int
      BY LimitIsInt
    <3>2. requeues'[j] = requeues[j] + 1 /\ row'[j] = row[j]
      BY DEF repositoryVars
    <3>3. \A k \in JobIds \ {j} : requeues'[k] = requeues[k] /\ row'[k] = row[k]
      OBVIOUS
    <3> QED
      BY <3>1, <3>2, <3>3 DEF Budget
  <2>4. RunnableHasBudget' /\ AttemptsWithinBudget'
    BY <2>3, BudgetPositive
       DEF RunnableHasBudget, AttemptsWithinBudget, AttemptsLeft
  <2> QED
    BY <2>1, <2>2, <2>4
<1> QED
  BY <1>1, <1>2

\* The scheduler selects only jobs that have never run, and its claim queues
\* only those: scheduled ones, or ones cancelled since.
LEMMA SafetyScheduler ==
  ASSUME SafetyInv, TypeOK', SchedulerStep
  PROVE  SafetyInv'
<1> USE DEF SchedulerGoes, workerVars, repositoryVars, handlerVars
<1>1. CASE SelectScheduled
  <2>1. ExecutingIsRunning' /\ OneWorkerPerJob'
    BY <1>1 DEF SafetyInv, SelectScheduled, ExecutingIsRunning,
                OneWorkerPerJob, Executing
  <2>2. FreshIsUnspent' /\ RunnableHasBudget' /\ AttemptsWithinBudget'
    BY <1>1 DEF SafetyInv, SelectScheduled, FreshIsUnspent, RunnableHasBudget,
                AttemptsWithinBudget, Budget, AttemptsLeft
  <2>3. SelectedIsUnspent'
    BY <1>1 DEF SafetyInv, SelectScheduled, ReadyBatches, DueScheduled,
                SelectedIsUnspent, FreshIsUnspent, TypeOK, RepositoryTypeOK
  <2> QED
    BY <2>1, <2>2, <2>3 DEF SafetyInv
<1>2. CASE ClaimBatch
  <2>1. CASE UNCHANGED repositoryVars
    BY <1>2, <2>1, SafetyFrame DEF ClaimBatch, Executing
  <2>2. CASE ClaimScheduled(todo)
    <3> USE <1>2, <2>2 DEF SafetyInv, ClaimBatch, ClaimScheduled, TypeOK,
                           RepositoryTypeOK
    <3>1. ExecutingIsRunning' /\ OneWorkerPerJob'
      BY DEF ExecutingIsRunning, OneWorkerPerJob, Executing, SelectedIsUnspent
    <3>2. FreshIsUnspent' /\ SelectedIsUnspent'
      BY DEF FreshIsUnspent, SelectedIsUnspent
    <3>3. \A k \in JobIds : /\ Budget(k)' = Budget(k)
                            /\ AttemptsLeft(k)' = AttemptsLeft(k)
      BY DEF Budget, AttemptsLeft
    <3>4. RunnableHasBudget' /\ AttemptsWithinBudget'
      BY <3>3, BudgetPositive
         DEF RunnableHasBudget, AttemptsWithinBudget, SelectedIsUnspent
    <3> QED
      BY <3>1, <3>2, <3>4
  <2> QED
    BY <1>2, <2>1, <2>2 DEF ClaimBatch
<1>3. CASE PublishClaimed
  BY <1>3, SafetyFrame DEF PublishClaimed, Executing
<1>4. CASE ScanRetries
  BY <1>4, SafetyFrame DEF ScanRetries, Executing
<1>5. CASE RemovePromoted
  BY <1>5, SafetyFrame DEF RemovePromoted, Executing
<1>6. CASE EndTick
  BY <1>6, SafetyFrame DEF EndTick, Executing
<1>7. ASSUME NEW j \in JobIds, EnqueueClaimed(j) PROVE SafetyInv'
  BY <1>7, SafetyFrame DEF EnqueueClaimed, Executing
<1>8. ASSUME NEW j \in JobIds, PromoteRetry(j) PROVE SafetyInv'
  BY <1>8, SafetyFrame DEF PromoteRetry, Executing
<1> QED
  BY <1>1, <1>2, <1>3, <1>4, <1>5, <1>6, <1>7, <1>8 DEF SchedulerStep

\* MarkRunning: the job was queued or retrying, so nobody else executes it,
\* and an execution was left in its budget.
LEMMA SafetyStart ==
  ASSUME SafetyInv, TypeOK', NEW w \in Workers, StartJob(w)
  PROVE  SafetyInv'
<1> DEFINE j == wjob[w]
<1> USE DEF StartJob, MarkRunning, Runnable, SetStatus, WorkerGoes
<1>1. j \in JobIds /\ status[j] \in {"queued", "retrying"}
  BY DEF SafetyInv, TypeOK
<1>2. /\ status' = [status EXCEPT ![j] = "running"]
      /\ attempts' = [attempts EXCEPT ![j] = @ + 1]
      /\ UNCHANGED <<row, requeues, spc, todo>>
  BY DEF schedulerVars
<1>3. \A v \in Workers \ {w} : wpc'[v] = wpc[v] /\ wjob'[v] = wjob[v]
  BY DEF SafetyInv, TypeOK
<1>4. Executing(w)' => wjob'[w] = j
  BY DEF SafetyInv, TypeOK, Executing
<1>5. \A v \in Workers : Executing(v) => wjob[v] # j
  BY <1>1 DEF SafetyInv, ExecutingIsRunning
<1> HIDE DEF StartJob, j
<1>6. ExecutingIsRunning' /\ OneWorkerPerJob'
  <2>1. \A v \in Workers : v # w /\ Executing(v)' => Executing(v)
    BY <1>3 DEF Executing
  <2>2. \A k \in JobIds : status'[k] = IF k = j THEN "running" ELSE status[k]
    BY <1>2 DEF SafetyInv, TypeOK, RepositoryTypeOK
  <2>3. \A v \in Workers : Executing(v) => wjob[v] \in JobIds
    BY DEF SafetyInv, TypeOK, Executing
  <2>4. OneWorkerPerJob'
    BY <1>3, <1>4, <1>5, <2>1 DEF SafetyInv, OneWorkerPerJob
  <2>5. ExecutingIsRunning'
    BY <1>1, <1>3, <1>4, <2>1, <2>2, <2>3 DEF SafetyInv, ExecutingIsRunning
  <2> QED
    BY <2>4, <2>5
<1>7. FreshIsUnspent' /\ SelectedIsUnspent'
  BY <1>1, <1>2 DEF SafetyInv, TypeOK, RepositoryTypeOK, FreshIsUnspent,
                    SelectedIsUnspent
<1>8. attempts[j] + 1 <= Budget(j)
  <2>1. Budget(j) \in Int /\ Budget(j) >= row[j].maxAttempts
    BY <1>1, BudgetPositive DEF SafetyInv
  <2>2. attempts[j] \in Nat /\ row[j].maxAttempts \in Int
    BY <1>1, LimitIsInt DEF SafetyInv, TypeOK, RepositoryTypeOK
  <2>3. attempts[j] < Budget(j) \/ attempts[j] < row[j].maxAttempts
    BY <1>1 DEF SafetyInv, RunnableHasBudget, AttemptsLeft
  <2> QED
    BY <2>1, <2>2, <2>3
<1>9. RunnableHasBudget' /\ AttemptsWithinBudget'
  BY <1>1, <1>2, <1>8 DEF SafetyInv, TypeOK, RepositoryTypeOK, Budget,
     RunnableHasBudget, AttemptsWithinBudget, AttemptsLeft
<1> QED
  BY <1>6, <1>7, <1>9 DEF SafetyInv

\* MarkCompleted and MarkFailed: the worker still owns the row, so no other
\* worker finds its job changed, and retrying means an attempt is left.
LEMMA SafetyFinish ==
  ASSUME SafetyInv, TypeOK', NEW w \in Workers, CompleteJob(w) \/ FailJob(w)
  PROVE  SafetyInv'
<1> DEFINE j == wjob[w]
<1>1. CASE UNCHANGED repositoryVars
  <2>1. \A v \in Workers : Executing(v)' => Executing(v) /\ wjob'[v] = wjob[v]
    BY DEF CompleteJob, FailJob, Processing, WorkerGoes, SafetyInv, TypeOK, Executing
  <2>2. UNCHANGED <<status, attempts, row, requeues, spc, todo>>
    BY <1>1 DEF CompleteJob, FailJob, Processing, repositoryVars, schedulerVars
  <2> QED
    BY <2>1, <2>2, SafetyFrame
<1>2. CASE MarkCompleted(j) \/ MarkFailed(j)
  <2>1. j \in JobIds /\ status[j] = "running" /\ Executing(w)
    BY DEF CompleteJob, FailJob, Processing, SafetyInv, TypeOK, ExecutingIsRunning,
           Executing
  <2>2. /\ UNCHANGED <<attempts, row, requeues, spc, todo>>
        /\ \A k \in JobIds \ {j} : status'[k] = status[k]
        /\ \/ status'[j] \in {"completed", "dead_letter"}
           \/ status'[j] = "retrying" /\ AttemptsLeft(j)
    BY <1>2, <2>1 DEF MarkCompleted, MarkFailed, SetStatus, CompleteJob,
       FailJob, Processing, schedulerVars, SafetyInv, TypeOK, RepositoryTypeOK
  <2>3. /\ \A v \in Workers \ {w} : /\ Executing(v)' <=> Executing(v)
                                  /\ wjob'[v] = wjob[v]
        /\ ~Executing(w)'
    BY DEF CompleteJob, FailJob, Processing, WorkerGoes, SafetyInv, TypeOK, Executing
  <2>4. \A v \in Workers \ {w} : Executing(v) => wjob[v] \in JobIds \ {j}
    BY <2>1 DEF SafetyInv, OneWorkerPerJob, TypeOK, Executing
  <2>5. ExecutingIsRunning' /\ OneWorkerPerJob'
    BY <2>2, <2>3, <2>4 DEF SafetyInv, ExecutingIsRunning, OneWorkerPerJob
  <2>6. FreshIsUnspent' /\ SelectedIsUnspent'
    BY <2>1, <2>2 DEF SafetyInv, TypeOK, FreshIsUnspent, SelectedIsUnspent
  <2>7. RunnableHasBudget' /\ AttemptsWithinBudget'
    BY <2>1, <2>2 DEF SafetyInv, RunnableHasBudget, AttemptsWithinBudget,
                      AttemptsLeft, Budget
  <2> QED
    BY <2>5, <2>6, <2>7 DEF SafetyInv
<1> QED
  BY <1>1, <1>2 DEF CompleteJob, FailJob, Processing

\* A worker's steps keep the invariant.
LEMMA SafetyWorker ==
  ASSUME SafetyInv, TypeOK', NEW w \in Workers, WorkerStep(w)
  PROVE  SafetyInv'
<1> USE DEF WorkerGoes, Executing, schedulerVars, repositoryVars, workerVars
<1>1. ASSUME NEW j \in JobIds, DequeueJob(w, j) PROVE SafetyInv'
  BY <1>1, SafetyFrame DEF DequeueJob, SafetyInv, TypeOK
<1>2. CASE SkipJob(w)
  BY <1>2, SafetyFrame DEF SkipJob, SafetyInv, TypeOK
<1>3. CASE PublishRunning(w)
  BY <1>3, SafetyFrame DEF PublishRunning, SafetyInv, TypeOK
<1>4. CASE BackOff(w)
  BY <1>4, SafetyFrame DEF BackOff, SafetyInv, TypeOK
<1>5. CASE Bury(w)
  BY <1>5, SafetyFrame DEF Bury, SafetyInv, TypeOK
<1>6. CASE PublishOutcome(w)
  BY <1>6, SafetyFrame DEF PublishOutcome, SafetyInv, TypeOK
<1> QED
  BY <1>1, <1>2, <1>3, <1>4, <1>5, <1>6, SafetyStart, SafetyFinish
     DEF WorkerStep

\* Clocks and restarts keep the invariant: a process that stops gives up what
\* it executed, and the rows stay as they are.
LEMMA SafetyEnvironment ==
  ASSUME SafetyInv, TypeOK', Restart \/ \E j \in JobIds : ClockStep(j)
  PROVE  SafetyInv'
<1> USE DEF Executing, schedulerVars, repositoryVars, workerVars
<1>1. CASE ApiRestart
  BY <1>1, SafetyFrame DEF ApiRestart, SchedulerGoes
<1>2. CASE RedisFlush
  BY <1>2, SafetyFrame DEF RedisFlush
<1>3. ASSUME NEW P \in Pools, WorkerRestart(P) PROVE SafetyInv'
  BY <1>3, SafetyFrame DEF WorkerRestart
<1>4. ASSUME NEW j \in JobIds, ClockStep(j) PROVE SafetyInv'
  BY <1>4, SafetyFrame DEF ClockStep, ScheduleTick, ScheduleComesDue,
                           BackoffTick, BackoffElapses
<1> QED
  BY <1>1, <1>2, <1>3, <1>4 DEF Restart

\* Every step keeps the invariant.
LEMMA SafetyStep == SafetyInv /\ [Next]_vars => SafetyInv'
<1> SUFFICES ASSUME SafetyInv, [Next]_vars PROVE SafetyInv'
  OBVIOUS
<1>1. TypeOK'
  BY TypeStep DEF SafetyInv
<1>2. ASSUME NEW h \in Handlers, HandlerStep(h) PROVE SafetyInv'
  BY <1>1, <1>2, SafetyFrame
     DEF HandlerStep, HandlerEnqueue, HandlerPublish, repositoryVars,
         workerVars, schedulerVars, Executing
<1>3. ASSUME NEW h \in Handlers, Request(h) PROVE SafetyInv'
  BY <1>1, <1>3, SafetyCreate, SafetyRequest DEF Request
<1>4. CASE UNCHANGED vars
  BY <1>1, <1>4, SafetyFrame
     DEF vars, repositoryVars, workerVars, schedulerVars, Executing
<1>5. CASE Next
  BY <1>1, <1>2, <1>3, <1>5, SafetyScheduler, SafetyWorker, SafetyEnvironment
     DEF Next
<1> QED
  BY <1>4, <1>5

\* The inductive invariant holds in every reachable state, under any faults.
THEOREM SafetyCorrect == Spec => []SafetyInv
BY SafetyInit, SafetyStep, PTL DEF Spec

\* No job is ever executed by two workers at once: the status filter of
\* MarkRunning excludes it whatever the queues deliver and whatever fails.
THEOREM MutualExclusion == Spec => []OneWorkerPerJob
<1>1. SafetyInv => OneWorkerPerJob
  BY DEF SafetyInv
<1> QED
  BY <1>1, SafetyCorrect, PTL

\* No job is executed more often than max_attempts and its manual retries
\* allow, whatever the queues deliver and whatever fails.
THEOREM BudgetRespected == Spec => []AttemptsWithinBudget
<1>1. SafetyInv => AttemptsWithinBudget
  BY DEF SafetyInv
<1> QED
  BY <1>1, SafetyCorrect, PTL

----------------------------------------------------------------------------
(***************************************************************************)
(* Every step moves a job only where the life cycle allows.                *)
(***************************************************************************)
\* The invariant makes every step respect the settled statuses.
LEMMA SettledLemma == SafetyInv /\ [Next]_vars => SettledStep
<1> SUFFICES ASSUME SafetyInv, [Next]_vars PROVE SettledStep
  OBVIOUS
<1> USE DEF SafetyInv, TypeOK, RepositoryTypeOK, SetStatus, Changed
<1>1. CASE UNCHANGED status
  BY <1>1 DEF SettledStep
<1>2. ASSUME NEW h \in Handlers, Request(h) PROVE SettledStep
  <2>1. ASSUME NEW j \in JobIds, NEW q \in Queues, NEW n \in AttemptLimits,
               NEW s \in {"queued", "scheduled"}, CreateJob(h, j, q, n, s)
        PROVE  SettledStep
    BY <2>1 DEF CreateJob, Create, SettledStep
  <2>2. ASSUME NEW j \in JobIds, CancelJob(h, j) PROVE SettledStep
    BY <2>2 DEF CancelJob, Cancel, SettledStep
  <2>3. ASSUME NEW j \in JobIds, RetryJob(h, j) PROVE SettledStep
    BY <2>3 DEF RetryJob, Requeue, SettledStep
  <2> QED
    BY <1>2, <2>1, <2>2, <2>3 DEF Request
<1>3. CASE ClaimBatch
  BY <1>3 DEF ClaimBatch, ClaimScheduled, SelectedIsUnspent, SettledStep,
              repositoryVars
<1>4. ASSUME NEW w \in Workers, StartJob(w) PROVE SettledStep
  BY <1>4 DEF StartJob, MarkRunning, Runnable, SettledStep
<1>5. ASSUME NEW w \in Workers, CompleteJob(w) \/ FailJob(w) PROVE SettledStep
  <2>1. status[wjob[w]] = "running" /\ wjob[w] \in JobIds
    BY <1>5 DEF CompleteJob, FailJob, Processing, ExecutingIsRunning, Executing
  <2>2. \A k \in JobIds \ {wjob[w]} : status'[k] = status[k]
    BY <1>5, <2>1 DEF CompleteJob, FailJob, Processing, MarkCompleted, MarkFailed,
                      repositoryVars
  <2> QED
    BY <2>1, <2>2 DEF SettledStep
<1>6. CASE Next
  <2> HIDE DEF SafetyInv, TypeOK, RepositoryTypeOK, SetStatus, Changed
  <2>1. CASE \E h \in Handlers : Request(h) \/ HandlerStep(h)
    BY <1>1, <1>2, <2>1
       DEF HandlerStep, HandlerEnqueue, HandlerPublish, repositoryVars
  <2>2. CASE SchedulerStep
    BY <1>1, <1>3, <2>2
       DEF SchedulerStep, SelectScheduled, EnqueueClaimed, PublishClaimed,
           ScanRetries, PromoteRetry, RemovePromoted, EndTick, repositoryVars
  <2>3. CASE \E w \in Workers : WorkerStep(w)
    BY <1>1, <1>4, <1>5, <2>3
       DEF WorkerStep, DequeueJob, SkipJob, PublishRunning, BackOff, Bury,
           PublishOutcome, repositoryVars
  <2>4. CASE Restart \/ \E j \in JobIds : ClockStep(j)
    BY <1>1, <2>4
       DEF Restart, ApiRestart, RedisFlush, WorkerRestart, ClockStep,
           ScheduleTick, ScheduleComesDue, BackoffTick, repositoryVars
  <2> QED
    BY <1>6, <2>1, <2>2, <2>3, <2>4 DEF Next
<1> QED
  BY <1>1, <1>6 DEF vars, repositoryVars

\* Completed is final, dead_letter is left only through Retry, cancelled only
\* through a claim that had already selected the job.
THEOREM SettledCorrect == Spec => SettledStaysSettled
BY SafetyCorrect, SettledLemma, PTL DEF Spec, SettledStaysSettled

----------------------------------------------------------------------------
(***************************************************************************)
(* JobFlow implements JobLifecycle.  The mapping keeps status and attempts *)
(* and reads the limit from the row; a step that changes none of them is a *)
(* stutter.                                                                *)
(***************************************************************************)
\* A step that leaves the mapped columns alone stutters.
LEMMA Stutter ==
  ASSUME UNCHANGED <<status, attempts, row>>
  PROVE  UNCHANGED Lifecycle!vars
BY DEF Lifecycle!vars, LimitOfRow

\* The requests of the API are moves of the life cycle.
LEMMA RequestRefines ==
  ASSUME TypeOK, TypeOK', NEW h \in Handlers, Request(h)
  PROVE  Lifecycle!Next
<1> USE DEF TypeOK, RepositoryTypeOK, SetStatus
<1>1. ASSUME NEW j \in JobIds, NEW q \in Queues, NEW n \in AttemptLimits,
             NEW s \in {"queued", "scheduled"}, CreateJob(h, j, q, n, s)
      PROVE  Lifecycle!Submit(j)
  <2>1. Lifecycle!Move(j, {"none"}, s) /\ UNCHANGED attempts
    BY <1>1 DEF CreateJob, Create, Lifecycle!Move
  <2>2. LimitOfRow' \in [JobIds -> Int]
    <3>1. \A k \in JobIds : row'[k].maxAttempts \in Int
      BY LimitOfRows
    <3> QED
      BY <3>1 DEF LimitOfRow
  <2>3. \A k \in JobIds \ {j} : LimitOfRow'[k] = LimitOfRow[k]
    BY <1>1 DEF CreateJob, Create, LimitOfRow
  <2> QED
    BY <2>1, <2>2, <2>3 DEF Lifecycle!Submit
<1>2. ASSUME NEW j \in JobIds, CancelJob(h, j) PROVE Lifecycle!Cancel(j)
  BY <1>2 DEF CancelJob, Cancel, Lifecycle!Cancel, Lifecycle!Move, LimitOfRow
<1>3. ASSUME NEW j \in JobIds, RetryJob(h, j) PROVE Lifecycle!Retry(j)
  BY <1>3 DEF RetryJob, Requeue, Lifecycle!Retry, Lifecycle!Move, LimitOfRow
<1> QED
  BY <1>1, <1>2, <1>3 DEF Request, Lifecycle!Next

\* The scheduler's claim is a Release, its other steps stutter.
LEMMA SchedulerRefines ==
  ASSUME SafetyInv, SchedulerStep
  PROVE  Lifecycle!Next \/ UNCHANGED Lifecycle!vars
<1>1. CASE ClaimBatch /\ ClaimScheduled(todo)
  <2>1. \A j \in todo : /\ status[j] \in {"scheduled", "cancelled"}
                        /\ attempts[j] = 0
    BY <1>1 DEF ClaimBatch, SafetyInv, SelectedIsUnspent
  <2>2. todo \in SUBSET JobIds
    BY DEF SafetyInv, TypeOK
  <2>3. Lifecycle!Release
    BY <1>1, <2>1, <2>2 DEF ClaimScheduled, Lifecycle!Release, LimitOfRow
  <2> QED
    BY <2>3 DEF Lifecycle!Next
<1>2. CASE ~(ClaimBatch /\ ClaimScheduled(todo))
  <2>1. UNCHANGED <<status, attempts, row>>
    BY <1>2 DEF SchedulerStep, ClaimBatch, SelectScheduled, EnqueueClaimed,
       PublishClaimed, ScanRetries, PromoteRetry, RemovePromoted, EndTick,
       repositoryVars
  <2> QED
    BY <2>1, Stutter
<1> QED
  BY <1>1, <1>2

\* Starting, completing and failing are moves of the life cycle although
\* the last two do not look at the status; other worker steps stutter.
LEMMA WorkerRefines ==
  ASSUME SafetyInv, NEW w \in Workers, WorkerStep(w)
  PROVE  Lifecycle!Next \/ UNCHANGED Lifecycle!vars
<1> DEFINE j == wjob[w]
<1>1. CASE StartJob(w)
  <2>1. j \in JobIds
    BY <1>1 DEF StartJob, SafetyInv, TypeOK
  <2>2. Lifecycle!Start(j)
    BY <1>1 DEF StartJob, MarkRunning, Runnable, SetStatus, Lifecycle!Start,
                Lifecycle!Move, LimitOfRow
  <2> QED
    BY <2>1, <2>2 DEF Lifecycle!Next
<1>2. CASE (CompleteJob(w) /\ MarkCompleted(j)) \/ (FailJob(w) /\ MarkFailed(j))
  <2>1. j \in JobIds /\ status[j] = "running"
    BY <1>2 DEF CompleteJob, FailJob, Processing, SafetyInv, TypeOK, ExecutingIsRunning,
                Executing
  <2>2. LimitOfRow[j] = row[j].maxAttempts
    BY <2>1 DEF LimitOfRow
  <2>3. attempts[j] \in Int /\ row[j].maxAttempts \in Int
    BY <2>1, LimitIsInt DEF SafetyInv, TypeOK, RepositoryTypeOK
  <2>4. CASE MarkCompleted(j)
    <3>1. Lifecycle!Complete(j)
      BY <2>1, <2>4 DEF MarkCompleted, SetStatus, Lifecycle!Complete,
                        Lifecycle!Move, LimitOfRow
    <3> QED
      BY <2>1, <3>1 DEF Lifecycle!Next
  <2>5. CASE MarkFailed(j)
    <3>1. UNCHANGED <<attempts, LimitOfRow>>
      BY <2>5 DEF MarkFailed, LimitOfRow
    <3>2. CASE AttemptsLeft(j)
      <4>1. attempts[j] < LimitOfRow[j]
        BY <2>2, <3>2 DEF AttemptsLeft
      <4>2. Lifecycle!Move(j, {"running"}, "retrying")
        BY <2>1, <2>5, <3>2 DEF MarkFailed, SetStatus, Lifecycle!Move
      <4> QED
        BY <2>1, <3>1, <4>1, <4>2 DEF Lifecycle!Fail, Lifecycle!Next
    <3>3. CASE ~AttemptsLeft(j)
      <4>1. attempts[j] >= LimitOfRow[j]
        BY <2>2, <2>3, <3>3 DEF AttemptsLeft
      <4>2. Lifecycle!Move(j, {"running"}, "dead_letter")
        BY <2>1, <2>5, <3>3 DEF MarkFailed, SetStatus, Lifecycle!Move
      <4> QED
        BY <2>1, <3>1, <4>1, <4>2 DEF Lifecycle!Fail, Lifecycle!Next
    <3> QED
      BY <3>2, <3>3
  <2> QED
    BY <1>2, <2>4, <2>5
<1>3. CASE /\ ~StartJob(w)
           /\ ~(CompleteJob(w) /\ MarkCompleted(j))
           /\ ~(FailJob(w) /\ MarkFailed(j))
  <2>1. UNCHANGED <<status, attempts, row>>
    BY <1>3 DEF WorkerStep, DequeueJob, SkipJob, PublishRunning, CompleteJob,
       FailJob, Processing, BackOff, Bury, PublishOutcome, repositoryVars
  <2> QED
    BY <2>1, Stutter
<1> QED
  BY <1>1, <1>2, <1>3

\* Every step of JobFlow is a move of the life cycle or a stutter.
LEMMA StepRefines ==
  SafetyInv /\ SafetyInv' /\ [Next]_vars => [Lifecycle!Next]_(Lifecycle!vars)
<1> SUFFICES ASSUME SafetyInv, SafetyInv', [Next]_vars
             PROVE  Lifecycle!Next \/ UNCHANGED Lifecycle!vars
  OBVIOUS
<1>1. CASE UNCHANGED vars
  BY <1>1, Stutter DEF vars, repositoryVars
<1>2. CASE \E h \in Handlers : HandlerStep(h)
  BY <1>2, Stutter
     DEF HandlerStep, HandlerEnqueue, HandlerPublish, repositoryVars
<1>3. CASE \E h \in Handlers : Request(h)
  BY <1>3, RequestRefines DEF SafetyInv
<1>4. CASE Restart \/ \E j \in JobIds : ClockStep(j)
  BY <1>4, Stutter
     DEF Restart, ApiRestart, RedisFlush, WorkerRestart, ClockStep,
         ScheduleTick, ScheduleComesDue, BackoffTick, repositoryVars
<1> QED
  BY <1>1, <1>2, <1>3, <1>4, SchedulerRefines, WorkerRefines DEF Next

\* JobFlow implements the job state machine, under any faults.
THEOREM LifecycleRefined == Spec => ImplementsLifecycle
<1>1. Init => Lifecycle!Init
  <2>1. RepositoryInit => LimitOfRow = [j \in JobIds |-> 0]
    <3>1. NoRow.maxAttempts = 0
      BY DEF NoRow
    <3> QED
      BY <3>1 DEF RepositoryInit, LimitOfRow
  <2> QED
    BY <2>1 DEF Init, RepositoryInit, Lifecycle!Init
<1> QED
  BY <1>1, SafetyCorrect, StepRefines, PTL
     DEF Spec, ImplementsLifecycle, Lifecycle!Spec

----------------------------------------------------------------------------
(***************************************************************************)
(* Without faults, what waits is delivered and what runs is executed.      *)
(***************************************************************************)
\* Deliveries(j) # {} spelt out.
Delivered(j) ==
  \/ \E h \in Handlers : hpc[h] = "enqueue" /\ hjob[h] = j
  \/ \E w \in Workers : wpc[w] = "popped" /\ wjob[w] = j
  \/ j \in ready
  \/ spc \in {"enqueue", "publish"} /\ j \in todo

\* The two ways to say it agree.
LEMMA DeliveredMeans ==
  ASSUME NEW j
  PROVE  Delivered(j) <=> Deliveries(j) # {}
<1> USE DEF Delivered, Deliveries, HandlersWith, WorkersWith
<1>1. ASSUME NEW h \in Handlers, hpc[h] = "enqueue", hjob[h] = j
      PROVE  <<h, "handler">> \in Deliveries(j)
  BY <1>1
<1>2. ASSUME NEW w \in Workers, wpc[w] = "popped", wjob[w] = j
      PROVE  <<w, "worker">> \in Deliveries(j)
  BY <1>2
<1>3. ASSUME j \in ready
      PROVE  <<j, "ready">> \in Deliveries(j)
  BY <1>3
<1>4. ASSUME spc \in {"enqueue", "publish"}, j \in todo
      PROVE  <<j, "scheduler">> \in Deliveries(j)
  BY <1>4
<1>5. ASSUME NEW d \in Deliveries(j) PROVE Delivered(j)
  <2>1. CASE d \in HandlersWith("enqueue", j) \X {"handler"}
    BY <2>1
  <2>2. CASE d \in WorkersWith("popped", j) \X {"worker"}
    BY <2>2
  <2>3. CASE d \in {k \in ready : k = j} \X {"ready"}
    BY <2>3
  <2>4. CASE d \in {k \in todo : k = j /\ spc \in {"enqueue", "publish"}}
                     \X {"scheduler"}
    BY <2>4
  <2> QED
    BY <1>5, <2>1, <2>2, <2>3, <2>4
<1>6. CASE Delivered(j)
  <2>1. \E d : d \in Deliveries(j)
    <3> HIDE DEF Deliveries
    <3> QED
      BY <1>1, <1>2, <1>3, <1>4, <1>6 DEF Delivered
  <2> QED
    BY <2>1
<1> HIDE DEF Delivered, Deliveries
<1> QED
  BY <1>5, <1>6

\* Hence the property in the spelt-out form.
QueuedInv == \A j \in JobIds : status[j] = "queued" => Delivered(j)

\* The spelt-out form is the property.
LEMMA QueuedInvMeans == QueuedInv <=> QueuedIsDelivered
BY DeliveredMeans DEF QueuedInv, QueuedIsDelivered

\* A step of the API hands a queued row on to the ready queue.
LEMMA DeliveryHandler ==
  ASSUME FaultKinds = {}, TypeOK, QueuedInv, NEW h \in Handlers,
         Request(h) \/ HandlerStep(h)
  PROVE  QueuedInv'
<1> USE DEF TypeOK, RepositoryTypeOK, SetStatus, HandlerGoes, Returned, Fault,
            workerVars, schedulerVars, redisVars, repositoryVars, QueuedInv,
            Delivered
<1>1. ASSUME NEW j \in JobIds, NEW q \in Queues, NEW n \in AttemptLimits,
             NEW s \in {"queued", "scheduled"}, CreateJob(h, j, q, n, s)
      PROVE  QueuedInv'
  BY <1>1 DEF CreateJob, Create
<1>2. ASSUME NEW j \in JobIds, CancelJob(h, j) PROVE QueuedInv'
  BY <1>2 DEF CancelJob, Cancel
<1>3. ASSUME NEW j \in JobIds, RetryJob(h, j) PROVE QueuedInv'
  BY <1>3 DEF RetryJob, Requeue
<1>4. CASE HandlerEnqueue(h)
  BY <1>4 DEF HandlerEnqueue, Enqueue
<1>5. CASE HandlerPublish(h)
  BY <1>5 DEF HandlerPublish
<1> QED
  BY <1>1, <1>2, <1>3, <1>4, <1>5 DEF Request, HandlerStep

\* A step of the scheduler delivers every job it claims.
LEMMA DeliveryScheduler ==
  ASSUME FaultKinds = {}, TypeOK, QueuedInv, SchedulerStep
  PROVE  QueuedInv'
<1> USE DEF TypeOK, RepositoryTypeOK, SchedulerGoes, Fault, Publish, workerVars,
            handlerVars, redisVars, repositoryVars, QueuedInv, Delivered
<1>1. CASE SelectScheduled
  BY <1>1 DEF SelectScheduled
<1>2. CASE ClaimBatch
  BY <1>2 DEF ClaimBatch, ClaimScheduled
<1>3. CASE PublishClaimed
  BY <1>3 DEF PublishClaimed
<1>4. CASE ScanRetries
  BY <1>4 DEF ScanRetries
<1>5. CASE RemovePromoted
  BY <1>5 DEF RemovePromoted, RemoveRetry
<1>6. CASE EndTick
  BY <1>6 DEF EndTick
<1>7. ASSUME NEW j \in JobIds, EnqueueClaimed(j) PROVE QueuedInv'
  BY <1>7 DEF EnqueueClaimed, Enqueue
<1>8. ASSUME NEW j \in JobIds, PromoteRetry(j) PROVE QueuedInv'
  BY <1>8 DEF PromoteRetry, Enqueue
<1> QED
  BY <1>1, <1>2, <1>3, <1>4, <1>5, <1>6, <1>7, <1>8 DEF SchedulerStep

\* A worker lets go of an id only when the row is no longer queued.
LEMMA DeliveryWorker ==
  ASSUME FaultKinds = {}, TypeOK, QueuedInv, NEW w \in Workers, WorkerStep(w)
  PROVE  QueuedInv'
<1> USE DEF TypeOK, RepositoryTypeOK, SetStatus, WorkerGoes, Fault, Publish,
            schedulerVars, handlerVars, redisVars, repositoryVars, QueuedInv,
            Delivered
<1>1. ASSUME NEW j \in JobIds, DequeueJob(w, j) PROVE QueuedInv'
  BY <1>1 DEF DequeueJob, Pop
<1>2. CASE StartJob(w)
  BY <1>2 DEF StartJob, MarkRunning
<1>3. CASE SkipJob(w)
  BY <1>3 DEF SkipJob, Runnable
<1>4. CASE PublishRunning(w)
  BY <1>4 DEF PublishRunning
<1>5. CASE CompleteJob(w)
  BY <1>5 DEF CompleteJob, Processing, MarkCompleted
<1>6. CASE FailJob(w)
  BY <1>6 DEF FailJob, Processing, MarkFailed
<1>7. CASE BackOff(w)
  BY <1>7 DEF BackOff, EnqueueAfter
<1>8. CASE Bury(w)
  BY <1>8 DEF Bury, DeadLetter
<1>9. CASE PublishOutcome(w)
  BY <1>9 DEF PublishOutcome
<1> QED
  BY <1>1, <1>2, <1>3, <1>4, <1>5, <1>6, <1>7, <1>8, <1>9 DEF WorkerStep

\* Every step without a fault keeps queued jobs delivered.
LEMMA DeliveryStep ==
  ASSUME FaultKinds = {}
  PROVE  TypeOK /\ QueuedInv /\ [Next]_vars => QueuedInv'
<1> SUFFICES ASSUME TypeOK, QueuedInv, [Next]_vars PROVE QueuedInv'
  OBVIOUS
<1>1. CASE UNCHANGED vars
  BY <1>1 DEF vars, repositoryVars, redisVars, handlerVars, workerVars,
              schedulerVars, QueuedInv, Delivered
<1>2. ~Restart
  BY DEF Restart, ApiRestart, RedisFlush, WorkerRestart, Fault
<1>3. ASSUME NEW j \in JobIds, ClockStep(j) PROVE QueuedInv'
  BY <1>3 DEF ClockStep, ScheduleTick, ScheduleComesDue, BackoffTick,
     BackoffElapses, repositoryVars, redisVars, handlerVars, workerVars,
     schedulerVars, QueuedInv, Delivered
<1> QED
  BY <1>1, <1>2, <1>3, DeliveryHandler, DeliveryScheduler, DeliveryWorker
     DEF Next

\* As long as nothing fails, a queued row always has its id on the way to a
\* worker: the table and Redis agree although no transaction spans them.
THEOREM QueuedCorrect ==
  ASSUME FaultKinds = {}
  PROVE  Spec => []QueuedIsDelivered
<1>1. Init => QueuedInv
  BY DEF Init, RepositoryInit, QueuedInv
<1>2. TypeOK /\ QueuedInv /\ [Next]_vars => QueuedInv'
  BY DeliveryStep
<1>3. Spec => []QueuedInv
  BY <1>1, <1>2, TypeCorrect, PTL DEF Spec
<1>4. QueuedInv => QueuedIsDelivered
  BY QueuedInvMeans
<1> QED
  BY <1>3, <1>4, PTL

\* A step keeps running rows executed unless a statement fails or a worker
\* process stops.
LEMMA ExecutedStep ==
  ASSUME FaultKinds \cap {"postgres", "worker"} = {}
  PROVE  TypeOK /\ RunningIsExecuted /\ [Next]_vars => RunningIsExecuted'
<1> SUFFICES ASSUME TypeOK, RunningIsExecuted, [Next]_vars
             PROVE  RunningIsExecuted'
  OBVIOUS
<1>1. ASSUME \A w \in Workers : Executing(w) => Executing(w)' /\ wjob'[w] = wjob[w],
             \A j \in JobIds : status'[j] = "running" => status[j] = "running"
      PROVE  RunningIsExecuted'
  BY <1>1 DEF RunningIsExecuted
<1>2. ~Fault("postgres") /\ ~Fault("worker")
  BY DEF Fault
<1>3. ASSUME NEW w \in Workers, WorkerStep(w) PROVE RunningIsExecuted'
  <2>1. \A v \in Workers \ {w} : Executing(v) => Executing(v)' /\ wjob'[v] = wjob[v]
    BY <1>3 DEF WorkerStep, DequeueJob, StartJob, SkipJob, PublishRunning,
       CompleteJob, FailJob, Processing, BackOff, Bury, PublishOutcome, WorkerGoes,
       workerVars, Executing, TypeOK
  <2>2. CASE StartJob(w)
    <3>1. /\ Executing(w)' /\ wjob'[w] = wjob[w] /\ ~Executing(w)
          /\ \A j \in JobIds : status'[j] = "running"
                                => status[j] = "running" \/ j = wjob[w]
      BY <1>2, <2>2 DEF StartJob, MarkRunning, SetStatus, WorkerGoes,
                        Executing, TypeOK, RepositoryTypeOK
    <3> QED
      BY <2>1, <3>1 DEF RunningIsExecuted
  <2>3. CASE CompleteJob(w) \/ FailJob(w)
    <3>1. \A j \in JobIds : status'[j] = "running"
                             => status[j] = "running" /\ j # wjob[w]
      BY <1>2, <2>3 DEF CompleteJob, FailJob, Processing, MarkCompleted, MarkFailed,
                        SetStatus, TypeOK, RepositoryTypeOK
    <3> QED
      BY <2>1, <3>1 DEF RunningIsExecuted
  <2>4. CASE ~StartJob(w) /\ ~CompleteJob(w) /\ ~FailJob(w)
    <3>1. status' = status
      BY <1>3, <2>4 DEF WorkerStep, DequeueJob, SkipJob, PublishRunning,
         BackOff, Bury, PublishOutcome, repositoryVars
    <3>2. Executing(w) => Executing(w)' /\ wjob'[w] = wjob[w]
      BY <1>3, <2>4 DEF WorkerStep, DequeueJob, SkipJob, PublishRunning,
         BackOff, Bury, PublishOutcome, WorkerGoes, workerVars, Executing,
         TypeOK
    <3> QED
      BY <1>1, <2>1, <3>1, <3>2
  <2> QED
    BY <2>2, <2>3, <2>4
<1>4. ASSUME NEW h \in Handlers, Request(h) \/ HandlerStep(h)
      PROVE  RunningIsExecuted'
  <2>1. \A j \in JobIds : status'[j] = "running" => status[j] = "running"
    BY <1>4 DEF Request, HandlerStep, CreateJob, CancelJob, RetryJob, Create,
       Cancel, Requeue, HandlerEnqueue, HandlerPublish, SetStatus,
       repositoryVars, TypeOK, RepositoryTypeOK
  <2>2. UNCHANGED workerVars
    BY <1>4 DEF Request, HandlerStep, CreateJob, CancelJob, RetryJob,
       HandlerEnqueue, HandlerPublish
  <2> QED
    BY <1>1, <2>1, <2>2 DEF workerVars, Executing
<1>5. CASE SchedulerStep
  <2>1. \A j \in JobIds : status'[j] = "running" => status[j] = "running"
    BY <1>5 DEF SchedulerStep, ClaimBatch, ClaimScheduled, SelectScheduled,
       EnqueueClaimed, PublishClaimed, ScanRetries, PromoteRetry,
       RemovePromoted, EndTick, repositoryVars, TypeOK, RepositoryTypeOK
  <2>2. UNCHANGED workerVars
    BY <1>5 DEF SchedulerStep, ClaimBatch, SelectScheduled, EnqueueClaimed,
       PublishClaimed, ScanRetries, PromoteRetry, RemovePromoted, EndTick
  <2> QED
    BY <1>1, <2>1, <2>2 DEF workerVars, Executing
<1>6. CASE UNCHANGED vars \/ Restart \/ \E j \in JobIds : ClockStep(j)
  <2>1. UNCHANGED <<status, wpc, wjob>>
    BY <1>2, <1>6 DEF vars, Restart, ApiRestart, RedisFlush, WorkerRestart,
       ClockStep, ScheduleTick, ScheduleComesDue, BackoffTick, repositoryVars,
       workerVars
  <2> QED
    BY <1>1, <2>1 DEF Executing
<1> QED
  BY <1>3, <1>4, <1>5, <1>6 DEF Next

\* As long as PostgreSQL answers and no worker stops, a row that says running
\* has a worker executing it; Redis may fail and even lose its contents.
THEOREM RunningCorrect ==
  ASSUME FaultKinds \cap {"postgres", "worker"} = {}
  PROVE  Spec => []RunningIsExecuted
<1>1. Init => RunningIsExecuted
  BY DEF Init, RepositoryInit, RunningIsExecuted
<1>2. TypeOK /\ RunningIsExecuted /\ [Next]_vars => RunningIsExecuted'
  BY ExecutedStep
<1> QED
  BY <1>1, <1>2, TypeCorrect, PTL DEF Spec

----------------------------------------------------------------------------
(***************************************************************************)
(* Announcements                                                           *)
(***************************************************************************)
\* Announcing(j) spelt out.
Announced(j) ==
  \/ \E h \in Handlers : hpc[h] \in {"enqueue", "publish"} /\ hjob[h] = j
  \/ \E w \in Workers : wpc[w] \notin {"idle", "popped"} /\ wjob[w] = j
  \/ spc \in {"enqueue", "publish"} /\ j \in todo
  \/ spc = "publish" /\ sjob = j

\* The two ways to say it agree.
LEMMA AnnouncedMeans ==
  ASSUME NEW j
  PROVE  Announced(j) <=> Announcing(j)
<1>1. HandlersWith("enqueue", j) \cup HandlersWith("publish", j) # {}
        <=> \E h \in Handlers : hpc[h] \in {"enqueue", "publish"} /\ hjob[h] = j
  BY DEF HandlersWith
<1> QED
  BY <1>1 DEF Announced, Announcing

AnnouncedInv == \A j \in unannounced : Announced(j)

\* A handler publishes what it has changed before it is done.
LEMMA AnnounceHandler ==
  ASSUME FaultKinds = {}, TypeOK, AnnouncedInv, NEW h \in Handlers,
         Request(h) \/ HandlerStep(h)
  PROVE  AnnouncedInv'
<1> USE DEF TypeOK, HandlerGoes, Returned, Fault, Changed, Publish,
            workerVars, schedulerVars, handlerVars, AnnouncedInv, Announced
<1>1. ASSUME NEW j \in JobIds, NEW q \in Queues, NEW n \in AttemptLimits,
             NEW s \in {"queued", "scheduled"}, CreateJob(h, j, q, n, s)
      PROVE  AnnouncedInv'
  BY <1>1 DEF CreateJob
<1>2. ASSUME NEW j \in JobIds, CancelJob(h, j) PROVE AnnouncedInv'
  BY <1>2 DEF CancelJob
<1>3. ASSUME NEW j \in JobIds, RetryJob(h, j) PROVE AnnouncedInv'
  BY <1>3 DEF RetryJob
<1>4. CASE HandlerEnqueue(h)
  BY <1>4 DEF HandlerEnqueue
<1>5. CASE HandlerPublish(h)
  BY <1>5 DEF HandlerPublish
<1> QED
  BY <1>1, <1>2, <1>3, <1>4, <1>5 DEF Request, HandlerStep

\* The scheduler publishes every job it has claimed.
LEMMA AnnounceScheduler ==
  ASSUME FaultKinds = {}, TypeOK, AnnouncedInv, SchedulerStep
  PROVE  AnnouncedInv'
<1> USE DEF TypeOK, SchedulerGoes, Fault, Publish, workerVars, handlerVars,
            AnnouncedInv, Announced
<1>1. CASE SelectScheduled
  BY <1>1 DEF SelectScheduled
<1>2. CASE ClaimBatch
  BY <1>2 DEF ClaimBatch
<1>3. CASE PublishClaimed
  BY <1>3 DEF PublishClaimed
<1>4. CASE ScanRetries
  BY <1>4 DEF ScanRetries
<1>5. CASE RemovePromoted
  BY <1>5 DEF RemovePromoted
<1>6. CASE EndTick
  BY <1>6 DEF EndTick
<1>7. ASSUME NEW j \in JobIds, EnqueueClaimed(j) PROVE AnnouncedInv'
  BY <1>7 DEF EnqueueClaimed
<1>8. ASSUME NEW j \in JobIds, PromoteRetry(j) PROVE AnnouncedInv'
  BY <1>8 DEF PromoteRetry
<1> QED
  BY <1>1, <1>2, <1>3, <1>4, <1>5, <1>6, <1>7, <1>8 DEF SchedulerStep

\* A worker that has changed a row publishes before it takes another job.
LEMMA AnnounceWorker ==
  ASSUME FaultKinds = {}, TypeOK, AnnouncedInv, NEW w \in Workers, WorkerStep(w)
  PROVE  AnnouncedInv'
<1> USE DEF TypeOK, WorkerGoes, Fault, Changed, Publish, schedulerVars,
            handlerVars, AnnouncedInv, Announced
<1>1. ASSUME NEW j \in JobIds, DequeueJob(w, j) PROVE AnnouncedInv'
  BY <1>1 DEF DequeueJob
<1>2. CASE StartJob(w)
  BY <1>2 DEF StartJob
<1>3. CASE SkipJob(w)
  BY <1>3 DEF SkipJob
<1>4. CASE PublishRunning(w)
  BY <1>4 DEF PublishRunning
<1>5. CASE CompleteJob(w)
  BY <1>5 DEF CompleteJob, Processing
<1>6. CASE FailJob(w)
  BY <1>6 DEF FailJob, Processing
<1>7. CASE BackOff(w)
  BY <1>7 DEF BackOff
<1>8. CASE Bury(w)
  BY <1>8 DEF Bury
<1>9. CASE PublishOutcome(w)
  BY <1>9 DEF PublishOutcome
<1> QED
  BY <1>1, <1>2, <1>3, <1>4, <1>5, <1>6, <1>7, <1>8, <1>9 DEF WorkerStep

\* Without faults there are no restarts.
LEMMA NoRestart == FaultKinds = {} => ~Restart
BY DEF Restart, ApiRestart, RedisFlush, WorkerRestart, Fault

\* Every step without a fault leaves each change somebody to announce it.
LEMMA AnnounceStep ==
  ASSUME FaultKinds = {}
  PROVE  TypeOK /\ AnnouncedInv /\ [Next]_vars => AnnouncedInv'
<1> SUFFICES ASSUME TypeOK, AnnouncedInv, [Next]_vars PROVE AnnouncedInv'
  OBVIOUS
<1>1. CASE UNCHANGED vars \/ \E j \in JobIds : ClockStep(j)
  BY <1>1 DEF vars, ClockStep, ScheduleTick, BackoffTick, handlerVars,
              workerVars, schedulerVars, AnnouncedInv, Announced
<1> QED
  BY <1>1, NoRestart, AnnounceHandler, AnnounceScheduler, AnnounceWorker
     DEF Next

\* As long as nothing fails, somebody is about to publish an event for every
\* change of a job: no return path of a handler, of the scheduler or of
\* handle() skips the call of Publish.
THEOREM AnnouncedCorrect ==
  ASSUME FaultKinds = {}
  PROVE  Spec => []ChangesAreAnnounced
<1>1. Init => AnnouncedInv
  BY DEF Init, AnnouncedInv
<1>2. TypeOK /\ AnnouncedInv /\ [Next]_vars => AnnouncedInv'
  BY AnnounceStep
<1>3. Spec => []AnnouncedInv
  BY <1>1, <1>2, TypeCorrect, PTL DEF Spec
<1>4. AnnouncedInv => ChangesAreAnnounced
  BY AnnouncedMeans DEF AnnouncedInv, ChangesAreAnnounced
<1> QED
  BY <1>3, <1>4, PTL

----------------------------------------------------------------------------
(***************************************************************************)
(* The dead-letter list                                                    *)
(***************************************************************************)
\* The ledger, for one job.
Balanced(j) ==
  dlq[j] + Cardinality(WorkersWith("burying", j))
    = requeues[j] + (IF status[j] = "dead_letter" THEN 1 ELSE 0)

\* The code's statements never write failed, so that Requeue, which admits
\* it, only ever takes jobs from the dead-letter state.
LedgerInv ==
  /\ \A j \in JobIds : status[j] # "failed"
  /\ \A j \in JobIds : Balanced(j)

\* A step that buries nothing and brings nothing back keeps the ledger.
LEMMA LedgerFrame ==
  ASSUME LedgerInv, UNCHANGED <<dlq, requeues>>,
         \A j \in JobIds : /\ status'[j] # "failed"
                           /\ status'[j] = "dead_letter" <=> status[j] = "dead_letter",
         \A w \in Workers : /\ wpc'[w] = "burying" <=> wpc[w] = "burying"
                            /\ wpc[w] = "burying" => wjob'[w] = wjob[w]
  PROVE  LedgerInv'
<1>1. ASSUME NEW j \in JobIds
      PROVE  WorkersWith("burying", j)' = WorkersWith("burying", j)
  BY DEF WorkersWith
<1> QED
  BY <1>1 DEF LedgerInv, Balanced

\* What the burying workers of a set of workers count to.
LEMMA BuryingFinite ==
  ASSUME IsFiniteSet(Workers), NEW j
  PROVE  /\ IsFiniteSet(WorkersWith("burying", j))
         /\ Cardinality(WorkersWith("burying", j)) \in Nat
<1>1. WorkersWith("burying", j) \subseteq Workers
  BY DEF WorkersWith
<1> QED
  BY <1>1, FS_Subset, FS_CardinalityType

\* Retry brings a job back from the dead and is counted.
LEMMA LedgerRetry ==
  ASSUME IsFiniteSet(Workers), FaultKinds = {}, TypeOK, LedgerInv,
         NEW h \in Handlers, NEW j \in JobIds, RetryJob(h, j)
  PROVE  LedgerInv'
<1>1. /\ status[j] = "dead_letter"
      /\ status' = [status EXCEPT ![j] = "queued"]
      /\ requeues' = [requeues EXCEPT ![j] = @ + 1]
      /\ UNCHANGED <<dlq, wpc, wjob>>
  BY DEF RetryJob, Requeue, SetStatus, LedgerInv, redisVars, workerVars
<1>2. \A k : WorkersWith("burying", k)' = WorkersWith("burying", k)
  BY <1>1 DEF WorkersWith
<1>3. \A k \in JobIds : Cardinality(WorkersWith("burying", k)) \in Nat
  BY BuryingFinite
<1>4. \A k \in JobIds : dlq[k] \in Nat /\ requeues[k] \in Nat
  BY DEF TypeOK, RedisTypeOK
<1>5. Balanced(j)'
  BY <1>1, <1>2, <1>3, <1>4
     DEF LedgerInv, Balanced, TypeOK, RepositoryTypeOK
<1>6. \A k \in JobIds \ {j} : Balanced(k)'
  BY <1>1, <1>2 DEF LedgerInv, Balanced, TypeOK, RepositoryTypeOK
<1>7. \A k \in JobIds : status'[k] # "failed"
  BY <1>1 DEF LedgerInv, TypeOK, RepositoryTypeOK
<1> QED
  BY <1>5, <1>6, <1>7 DEF LedgerInv

\* A failure without attempts left makes the row dead and the worker a
\* gravedigger in one step.
LEMMA LedgerFail ==
  ASSUME IsFiniteSet(Workers), FaultKinds = {}, SafetyInv, LedgerInv,
         NEW w \in Workers, FailJob(w)
  PROVE  LedgerInv'
<1>0. PICK j \in JobIds : j = wjob[w]
  BY DEF FailJob, Processing, SafetyInv, TypeOK
<1>1. /\ status[j] = "running"
      /\ wpc[w] = "processing"
  BY <1>0 DEF FailJob, Processing, SafetyInv, ExecutingIsRunning, Executing
<1>2. /\ wjob' = [wjob EXCEPT ![w] = j]
      /\ UNCHANGED <<dlq, requeues>>
  BY <1>0 DEF FailJob, Fault, WorkerGoes, redisVars
<1>3. CASE AttemptsLeft(wjob[w])
  <2>1. /\ status' = [status EXCEPT ![j] = "retrying"]
        /\ wpc' = [wpc EXCEPT ![w] = "backingOff"]
    BY <1>0, <1>3 DEF FailJob, MarkFailed, SetStatus, Fault, WorkerGoes
  <2> QED
    BY <1>1, <1>2, <2>1, LedgerFrame
       DEF LedgerInv, SafetyInv, TypeOK, RepositoryTypeOK
<1>4. CASE ~AttemptsLeft(wjob[w])
  <2>1. /\ status' = [status EXCEPT ![j] = "dead_letter"]
        /\ wpc' = [wpc EXCEPT ![w] = "burying"]
    BY <1>0, <1>4 DEF FailJob, MarkFailed, SetStatus, Fault, WorkerGoes
  <2>2. \A k \in JobIds : WorkersWith("burying", k)' =
          IF k = j THEN WorkersWith("burying", k) \cup {w}
                   ELSE WorkersWith("burying", k)
    BY <1>0, <1>1, <1>2, <2>1 DEF WorkersWith, SafetyInv, TypeOK
  <2>3. w \notin WorkersWith("burying", j)
    BY <1>1 DEF WorkersWith
  <2>4. Cardinality(WorkersWith("burying", j) \cup {w})
          = Cardinality(WorkersWith("burying", j)) + 1
    BY <2>3, BuryingFinite, FS_AddElement
  <2>5. /\ dlq[j] \in Nat /\ requeues[j] \in Nat
        /\ Cardinality(WorkersWith("burying", j)) \in Nat
    BY <1>1, BuryingFinite DEF SafetyInv, TypeOK, RedisTypeOK
  <2>6. \A k \in JobIds : status'[k] = IF k = j THEN "dead_letter" ELSE status[k]
    BY <2>1 DEF SafetyInv, TypeOK, RepositoryTypeOK
  <2>7. Balanced(j)'
    <3>1. dlq[j] + Cardinality(WorkersWith("burying", j)) = requeues[j]
      BY <1>1, <2>5 DEF LedgerInv, Balanced
    <3>2. /\ WorkersWith("burying", j)' = WorkersWith("burying", j) \cup {w}
          /\ status'[j] = "dead_letter"
      BY <1>1, <2>2, <2>6
    <3>3. Cardinality(WorkersWith("burying", j))'
            = Cardinality(WorkersWith("burying", j)) + 1
      BY <2>4, <3>2
    <3>4. dlq'[j] = dlq[j] /\ requeues'[j] = requeues[j]
      BY <1>2
    <3> QED
      BY <2>5, <3>1, <3>2, <3>3, <3>4 DEF Balanced
  <2>8. \A k \in JobIds \ {j} : Balanced(k)'
    BY <1>2, <2>2, <2>6 DEF LedgerInv, Balanced
  <2> QED
    BY <2>6, <2>7, <2>8 DEF LedgerInv
<1> QED
  BY <1>0, <1>3, <1>4

\* LPUSH enters one burial.
LEMMA LedgerBury ==
  ASSUME IsFiniteSet(Workers), FaultKinds = {}, TypeOK, LedgerInv,
         NEW w \in Workers, Bury(w)
  PROVE  LedgerInv'
<1>0. PICK j \in JobIds : j = wjob[w]
  BY DEF Bury, TypeOK
<1>1. /\ wpc[w] = "burying"
      /\ wpc' = [wpc EXCEPT ![w] = "announcing"]
      /\ wjob' = [wjob EXCEPT ![w] = j]
      /\ dlq' = [dlq EXCEPT ![j] = @ + 1]
      /\ UNCHANGED <<status, requeues>>
  BY <1>0 DEF Bury, Fault, WorkerGoes, DeadLetter, repositoryVars
<1>2. \A k \in JobIds : WorkersWith("burying", k)' =
        IF k = j THEN WorkersWith("burying", k) \ {w}
                 ELSE WorkersWith("burying", k)
  BY <1>0, <1>1 DEF WorkersWith, TypeOK
<1>3. w \in WorkersWith("burying", j)
  BY <1>0, <1>1 DEF WorkersWith
<1>4. Cardinality(WorkersWith("burying", j) \ {w})
        = Cardinality(WorkersWith("burying", j)) - 1
  BY <1>3, BuryingFinite, FS_RemoveElement
<1>5. /\ dlq[j] \in Nat /\ requeues[j] \in Nat
      /\ Cardinality(WorkersWith("burying", j)) \in Nat
  BY <1>1, BuryingFinite DEF TypeOK, RedisTypeOK
<1>6. \A k \in JobIds : dlq'[k] = IF k = j THEN dlq[k] + 1 ELSE dlq[k]
  BY <1>1 DEF TypeOK, RedisTypeOK
<1>7. Balanced(j)'
  <2>1. /\ WorkersWith("burying", j)' = WorkersWith("burying", j) \ {w}
        /\ dlq'[j] = dlq[j] + 1
    BY <1>1, <1>2, <1>6
  <2>2. Balanced(j)
    BY <1>1 DEF LedgerInv
  <2>3. Cardinality(WorkersWith("burying", j))'
          = Cardinality(WorkersWith("burying", j)) - 1
    BY <1>4, <2>1
  <2>4. status'[j] = status[j] /\ requeues'[j] = requeues[j]
    BY <1>1
  <2> QED
    BY <1>5, <2>1, <2>2, <2>3, <2>4 DEF Balanced
<1>8. \A k \in JobIds \ {j} : Balanced(k)'
  BY <1>1, <1>2, <1>6 DEF LedgerInv, Balanced
<1> QED
  BY <1>1, <1>7, <1>8 DEF LedgerInv

\* Every step without a fault keeps the ledger.
LEMMA LedgerStep ==
  ASSUME FaultKinds = {}, IsFiniteSet(Workers)
  PROVE  SafetyInv /\ LedgerInv /\ [Next]_vars => LedgerInv'
<1> SUFFICES ASSUME SafetyInv, LedgerInv, [Next]_vars PROVE LedgerInv'
  OBVIOUS
<1>1. TypeOK
  BY DEF SafetyInv
<1>2. ASSUME NEW h \in Handlers, Request(h) \/ HandlerStep(h) PROVE LedgerInv'
  <2>1. CASE \E j \in JobIds : RetryJob(h, j)
    BY <1>1, <2>1, LedgerRetry
  <2>2. CASE ~\E j \in JobIds : RetryJob(h, j)
    <3>1. UNCHANGED <<dlq, requeues, wpc, wjob>>
      BY <1>2, <2>2 DEF Request, HandlerStep, CreateJob, CancelJob,
         HandlerEnqueue, HandlerPublish, Enqueue, Fault, redisVars, workerVars
    <3>2. \A j \in JobIds :
            /\ status'[j] # "failed"
            /\ status'[j] = "dead_letter" <=> status[j] = "dead_letter"
      BY <1>1, <1>2, <2>2 DEF Request, HandlerStep, CreateJob, Create,
         CancelJob, Cancel, HandlerEnqueue, HandlerPublish, SetStatus,
         repositoryVars, LedgerInv, TypeOK, RepositoryTypeOK
    <3> QED
      BY <3>1, <3>2, LedgerFrame
  <2> QED
    BY <2>1, <2>2
<1>3. CASE SchedulerStep
  <2>1. UNCHANGED <<dlq, requeues, wpc, wjob>>
    BY <1>3 DEF SchedulerStep, SelectScheduled, ClaimBatch, EnqueueClaimed,
       PublishClaimed, ScanRetries, PromoteRetry, RemovePromoted, EndTick,
       Enqueue, RemoveRetry, Fault, redisVars, workerVars
  <2>2. CASE ClaimBatch
    <3>1. ClaimScheduled(todo) /\ spc = "claim"
      BY <2>2 DEF ClaimBatch, Fault
    <3>2. \A j \in todo : status[j] \in {"scheduled", "cancelled"}
      BY <3>1 DEF SafetyInv, SelectedIsUnspent
    <3> QED
      BY <2>1, <3>1, <3>2, LedgerFrame DEF ClaimScheduled, LedgerInv
  <2>3. CASE ~ClaimBatch
    <3>1. UNCHANGED status
      BY <1>3, <2>3 DEF SchedulerStep, SelectScheduled, EnqueueClaimed,
         PublishClaimed, ScanRetries, PromoteRetry, RemovePromoted, EndTick,
         repositoryVars
    <3> QED
      BY <2>1, <3>1, LedgerFrame DEF LedgerInv
  <2> QED
    BY <2>2, <2>3
<1>4. ASSUME NEW w \in Workers, WorkerStep(w) PROVE LedgerInv'
  <2>1. CASE FailJob(w)
    BY <2>1, LedgerFail
  <2>2. CASE Bury(w)
    BY <1>1, <2>2, LedgerBury
  <2>3. CASE ~FailJob(w) /\ ~Bury(w)
    <3>1. UNCHANGED <<dlq, requeues>>
      BY <1>4, <2>3 DEF WorkerStep, DequeueJob, StartJob, SkipJob,
         PublishRunning, CompleteJob, BackOff, PublishOutcome, Pop,
         EnqueueAfter, Fault, redisVars
    <3>2. \A v \in Workers : /\ wpc'[v] = "burying" <=> wpc[v] = "burying"
                             /\ wpc[v] = "burying" => wjob'[v] = wjob[v]
      BY <1>1, <1>4, <2>3 DEF WorkerStep, DequeueJob, StartJob, SkipJob,
         PublishRunning, CompleteJob, Processing, BackOff, PublishOutcome,
         WorkerGoes, Fault, TypeOK
    <3>3. \A j \in JobIds :
            /\ status'[j] # "failed"
            /\ status'[j] = "dead_letter" <=> status[j] = "dead_letter"
      <4>1. CASE StartJob(w)
        BY <1>1, <4>1 DEF StartJob, MarkRunning, Runnable, SetStatus,
           LedgerInv, TypeOK, RepositoryTypeOK
      <4>2. CASE CompleteJob(w)
        <5>1. MarkCompleted(wjob[w]) /\ status[wjob[w]] = "running"
          BY <4>2 DEF CompleteJob, Processing, Fault, SafetyInv,
             ExecutingIsRunning, Executing
        <5> QED
          BY <1>1, <5>1 DEF MarkCompleted, SetStatus, LedgerInv, TypeOK,
             RepositoryTypeOK
      <4>3. CASE ~StartJob(w) /\ ~CompleteJob(w)
        <5>1. UNCHANGED status
          BY <1>4, <2>3, <4>3 DEF WorkerStep, DequeueJob, SkipJob,
             PublishRunning, BackOff, PublishOutcome, repositoryVars
        <5> QED
          BY <5>1 DEF LedgerInv
      <4> QED
        BY <4>1, <4>2, <4>3
    <3> QED
      BY <3>1, <3>2, <3>3, LedgerFrame
  <2> QED
    BY <2>1, <2>2, <2>3
<1>5. CASE UNCHANGED vars \/ \E j \in JobIds : ClockStep(j)
  <2>1. UNCHANGED <<status, dlq, requeues, wpc, wjob>>
    BY <1>5 DEF vars, ClockStep, ScheduleTick, ScheduleComesDue, BackoffTick,
       BackoffElapses, repositoryVars, redisVars, workerVars
  <2> QED
    BY <2>1, LedgerFrame DEF LedgerInv
<1> QED
  BY <1>2, <1>3, <1>4, <1>5, NoRestart DEF Next

\* As long as nothing fails, the dead-letter list has one entry for each time
\* a job died, although the row and the list are written by two calls and a
\* user may bring the job back in between.
THEOREM LedgerCorrect ==
  ASSUME FaultKinds = {}, IsFiniteSet(Workers)
  PROVE  Spec => []DeadLetterLedger
<1>1. Init => LedgerInv
  <2> SUFFICES ASSUME Init PROVE LedgerInv
    OBVIOUS
  <2>1. \A j \in JobIds : WorkersWith("burying", j) = {}
    BY DEF Init, WorkersWith
  <2> QED
    BY <2>1, FS_EmptySet
       DEF Init, RepositoryInit, RedisInit, LedgerInv, Balanced
<1>2. SafetyInv /\ LedgerInv /\ [Next]_vars => LedgerInv'
  BY LedgerStep
<1>3. Spec => []LedgerInv
  BY <1>1, <1>2, SafetyCorrect, PTL DEF Spec
<1>4. LedgerInv => DeadLetterLedger
  BY DEF LedgerInv, Balanced, DeadLetterLedger
<1> QED
  BY <1>3, <1>4, PTL

----------------------------------------------------------------------------
(***************************************************************************)
(* One place at a time.  A job that will be executed, is executed or waits *)
(* for its retry has its id in one place: with a handler that will enqueue *)
(* it, in the ready queue, in the scheduler's batch, with a worker, or in  *)
(* scheduled:retries.  Between the Enqueue and the ZREM of PromoteRetries  *)
(* the entry in scheduled:retries no longer counts: it is about to go.     *)
(***************************************************************************)
AtHandler(h, j) == hpc[h] = "enqueue" /\ hjob[h] = j

AtWorker(w, j) ==
  wpc[w] \in {"popped", "started", "processing", "backingOff"} /\ wjob[w] = j

AtReady(j) == j \in ready

AtScheduler(j) == spc \in {"enqueue", "publish"} /\ j \in todo

AtRetries(j) == retries[j] # "absent" /\ ~(spc = "remove" /\ sjob = j)

Nowhere(j) ==
  /\ \A h \in Handlers : ~AtHandler(h, j)
  /\ \A w \in Workers : ~AtWorker(w, j)
  /\ ~AtReady(j) /\ ~AtScheduler(j) /\ ~AtRetries(j)

OnePlace(j) ==
  /\ \A g, h \in Handlers : AtHandler(g, j) /\ AtHandler(h, j) => g = h
  /\ \A v, w \in Workers : AtWorker(v, j) /\ AtWorker(w, j) => v = w
  /\ \A h \in Handlers, w \in Workers : ~(AtHandler(h, j) /\ AtWorker(w, j))
  /\ (\E h \in Handlers : AtHandler(h, j)) \/ (\E w \in Workers : AtWorker(w, j))
       => ~AtReady(j) /\ ~AtScheduler(j) /\ ~AtRetries(j)
  /\ AtReady(j) => ~AtScheduler(j) /\ ~AtRetries(j)
  /\ AtScheduler(j) => ~AtRetries(j)

\* Whoever brings a job into circulation finds it out of circulation.
AtRestInv ==
  \A j \in JobIds :
    /\ status[j] # "failed"
    /\ status[j] \in {"none", "scheduled", "dead_letter"} => Nowhere(j)

\* What a SELECT of the scheduler returned is out of circulation.
SelectedInv == spc = "claim" => \A j \in todo : Nowhere(j)

\* What a scan of scheduled:retries returned stays due until it is promoted.
ScannedInv ==
  /\ spc \in {"promote", "remove"} => \A j \in todo : retries[j] = "due"
  /\ spc = "remove" => sjob \notin todo

\* A new backoff entry that the ZREM will take along is all that is left of
\* its job.
StaleInv ==
  spc = "remove" /\ retries[sjob] = "waiting" =>
    Nowhere(sjob) /\ status[sjob] \in {"retrying", "cancelled"}

\* A job whose worker is about to write its backoff waits for a retry.
BackingOffInv ==
  \A w \in Workers :
    wpc[w] = "backingOff" => status[wjob[w]] \in {"retrying", "cancelled"}

PlacesInv ==
  /\ \A j \in JobIds : OnePlace(j)
  /\ AtRestInv
  /\ SelectedInv
  /\ ScannedInv
  /\ StaleInv
  /\ BackingOffInv

\* Where job j is after a step it was before.
Settles(j) ==
  /\ \A h \in Handlers : AtHandler(h, j)' => AtHandler(h, j)
  /\ \A w \in Workers : AtWorker(w, j)' => AtWorker(w, j)
  /\ AtReady(j)' => AtReady(j)
  /\ AtScheduler(j)' => AtScheduler(j)
  /\ AtRetries(j)' => AtRetries(j)

\* A job that goes nowhere new stays in one place, or out of circulation.
LEMMA SettlesKeeps ==
  ASSUME NEW j, Settles(j)
  PROVE  (OnePlace(j) => OnePlace(j)') /\ (Nowhere(j) => Nowhere(j)')
BY DEF Settles, OnePlace, Nowhere

\* A step by which no job goes anywhere new, and which leaves the statuses
\* and the scheduler alone, keeps the invariant.
LEMMA PlacesFrame ==
  ASSUME TypeOK, PlacesInv, \A j \in JobIds : Settles(j),
         UNCHANGED <<status, spc, todo, sjob>>,
         \A j \in JobIds : retries'[j] = retries[j]
                             \/ (retries[j] = "waiting" /\ retries'[j] = "due"),
         \A w \in Workers : wpc'[w] = "backingOff"
                              => wpc[w] = "backingOff" /\ wjob'[w] = wjob[w]
  PROVE  PlacesInv'
<1>1. \A j \in JobIds : OnePlace(j)'
  BY SettlesKeeps DEF PlacesInv
<1>2. AtRestInv' /\ SelectedInv'
  BY SettlesKeeps DEF PlacesInv, AtRestInv, SelectedInv, TypeOK
<1>3. ScannedInv' /\ StaleInv' /\ BackingOffInv'
  BY SettlesKeeps DEF PlacesInv, ScannedInv, StaleInv, BackingOffInv, TypeOK
<1> QED
  BY <1>1, <1>2, <1>3 DEF PlacesInv

\* A new job is in nobody's hands but the handler's.
LEMMA PlacesCreate ==
  ASSUME FaultKinds = {}, SafetyInv, PlacesInv, NEW h \in Handlers,
         NEW j \in JobIds, NEW q \in Queues, NEW n \in AttemptLimits,
         NEW s \in {"queued", "scheduled"}, CreateJob(h, j, q, n, s)
  PROVE  PlacesInv'
<1>1. /\ hpc[h] = "idle" /\ status[j] = "none"
      /\ status' = [status EXCEPT ![j] = s]
      /\ hpc' = [hpc EXCEPT ![h] = IF s = "queued" THEN "enqueue" ELSE "publish"]
      /\ hjob' = [hjob EXCEPT ![h] = j]
      /\ UNCHANGED <<ready, retries, wpc, wjob, spc, todo, sjob>>
  BY DEF CreateJob, Create, SetStatus, Returned, HandlerGoes, Fault, redisVars,
         workerVars, schedulerVars
<1>2. Nowhere(j)
  BY <1>1 DEF PlacesInv, AtRestInv
<1>3. \A k \in JobIds \ {j} : Settles(k) /\ status'[k] = status[k]
  BY <1>1 DEF Settles, AtHandler, AtWorker, AtReady, AtScheduler, AtRetries,
              SafetyInv, TypeOK, RepositoryTypeOK
<1>4. /\ \A g \in Handlers : AtHandler(g, j)' => g = h /\ s = "queued"
      /\ \A w \in Workers : ~AtWorker(w, j)'
      /\ ~AtReady(j)' /\ ~AtScheduler(j)' /\ ~AtRetries(j)'
  BY <1>1, <1>2 DEF Nowhere, AtHandler, AtWorker, AtReady, AtScheduler,
                    AtRetries, SafetyInv, TypeOK
<1>5. status'[j] = s
  BY <1>1 DEF SafetyInv, TypeOK, RepositoryTypeOK
<1>6. \A k \in JobIds : OnePlace(k)'
  <2>1. OnePlace(j)'
    BY <1>4 DEF OnePlace
  <2> QED
    BY <1>3, <2>1, SettlesKeeps DEF PlacesInv
<1>7. AtRestInv'
  <2>1. s # "queued" => Nowhere(j)'
    BY <1>4 DEF Nowhere
  <2> QED
    BY <1>3, <1>5, <2>1, SettlesKeeps DEF PlacesInv, AtRestInv
<1>8. SelectedInv'
  BY <1>1, <1>3, SettlesKeeps
     DEF PlacesInv, SelectedInv, SafetyInv, SelectedIsUnspent, TypeOK
<1>9. ScannedInv' /\ StaleInv' /\ BackingOffInv'
  BY <1>1, <1>3, SettlesKeeps
     DEF PlacesInv, ScannedInv, StaleInv, BackingOffInv, SafetyInv, TypeOK
<1> QED
  BY <1>6, <1>7, <1>8, <1>9 DEF PlacesInv

\* A cancelled job stays where it is.
LEMMA PlacesCancel ==
  ASSUME FaultKinds = {}, SafetyInv, PlacesInv, NEW h \in Handlers,
         NEW j \in JobIds, CancelJob(h, j)
  PROVE  PlacesInv'
<1>1. /\ hpc[h] = "idle"
      /\ status' = [status EXCEPT ![j] = "cancelled"]
      /\ hpc' = [hpc EXCEPT ![h] = "publish"]
      /\ hjob' = [hjob EXCEPT ![h] = j]
      /\ UNCHANGED <<ready, retries, wpc, wjob, spc, todo, sjob>>
  BY DEF CancelJob, Cancel, SetStatus, Returned, HandlerGoes, Fault, redisVars,
         workerVars, schedulerVars
<1>2. \A k \in JobIds : Settles(k)
  BY <1>1 DEF Settles, AtHandler, AtWorker, AtReady, AtScheduler, AtRetries,
              SafetyInv, TypeOK
<1>3. \A k \in JobIds : status'[k] = status[k] \/ status'[k] = "cancelled"
  BY <1>1 DEF SafetyInv, TypeOK, RepositoryTypeOK
<1>4. (\A k \in JobIds : OnePlace(k)') /\ AtRestInv'
  BY <1>2, <1>3, SettlesKeeps DEF PlacesInv, AtRestInv
<1>5. SelectedInv' /\ ScannedInv'
  BY <1>1, <1>2, SettlesKeeps
     DEF PlacesInv, SelectedInv, ScannedInv, SafetyInv, TypeOK
<1>6. StaleInv' /\ BackingOffInv'
  BY <1>1, <1>2, <1>3, SettlesKeeps
     DEF PlacesInv, StaleInv, BackingOffInv, SafetyInv, TypeOK
<1> QED
  BY <1>4, <1>5, <1>6 DEF PlacesInv

\* A job brought back from the dead is in nobody's hands but the handler's.
LEMMA PlacesRetry ==
  ASSUME FaultKinds = {}, SafetyInv, PlacesInv, NEW h \in Handlers,
         NEW j \in JobIds, RetryJob(h, j)
  PROVE  PlacesInv'
<1>1. /\ hpc[h] = "idle" /\ status[j] = "dead_letter"
      /\ status' = [status EXCEPT ![j] = "queued"]
      /\ hpc' = [hpc EXCEPT ![h] = "enqueue"]
      /\ hjob' = [hjob EXCEPT ![h] = j]
      /\ UNCHANGED <<ready, retries, wpc, wjob, spc, todo, sjob>>
  BY DEF RetryJob, Requeue, SetStatus, Returned, HandlerGoes, Fault, redisVars,
         workerVars, schedulerVars, PlacesInv, AtRestInv
<1>2. Nowhere(j)
  BY <1>1 DEF PlacesInv, AtRestInv
<1>3. \A k \in JobIds \ {j} : Settles(k) /\ status'[k] = status[k]
  BY <1>1 DEF Settles, AtHandler, AtWorker, AtReady, AtScheduler, AtRetries,
              SafetyInv, TypeOK, RepositoryTypeOK
<1>4. /\ \A g \in Handlers : AtHandler(g, j)' => g = h
      /\ \A w \in Workers : ~AtWorker(w, j)'
      /\ ~AtReady(j)' /\ ~AtScheduler(j)' /\ ~AtRetries(j)'
  BY <1>1, <1>2 DEF Nowhere, AtHandler, AtWorker, AtReady, AtScheduler,
                    AtRetries, SafetyInv, TypeOK
<1>5. status'[j] = "queued"
  BY <1>1 DEF SafetyInv, TypeOK, RepositoryTypeOK
<1>6. \A k \in JobIds : OnePlace(k)'
  <2>1. OnePlace(j)'
    BY <1>4 DEF OnePlace
  <2> QED
    BY <1>3, <2>1, SettlesKeeps DEF PlacesInv
<1>7. AtRestInv'
  BY <1>3, <1>5, SettlesKeeps DEF PlacesInv, AtRestInv
<1>8. SelectedInv'
  BY <1>1, <1>3, SettlesKeeps
     DEF PlacesInv, SelectedInv, SafetyInv, SelectedIsUnspent, TypeOK
<1>9. ScannedInv' /\ StaleInv' /\ BackingOffInv'
  BY <1>1, <1>3, SettlesKeeps
     DEF PlacesInv, ScannedInv, StaleInv, BackingOffInv, SafetyInv, TypeOK
<1> QED
  BY <1>6, <1>7, <1>8, <1>9 DEF PlacesInv

\* ZADD takes the id from the handler to the ready queue.
LEMMA PlacesHandler ==
  ASSUME FaultKinds = {}, SafetyInv, PlacesInv, NEW h \in Handlers,
         HandlerStep(h)
  PROVE  PlacesInv'
<1>1. CASE HandlerPublish(h)
  <2>1. /\ UNCHANGED <<status, ready, retries, wpc, wjob, spc, todo, sjob>>
        /\ \A g \in Handlers : hpc'[g] = "enqueue"
                                 => hpc[g] = "enqueue" /\ hjob'[g] = hjob[g]
    BY <1>1 DEF HandlerPublish, HandlerGoes, repositoryVars, redisVars,
                workerVars, schedulerVars, SafetyInv, TypeOK
  <2> QED
    BY <2>1, PlacesFrame DEF Settles, AtHandler, AtWorker, AtReady, AtScheduler,
                             AtRetries, SafetyInv
<1>2. CASE HandlerEnqueue(h)
  <2>0. PICK j \in JobIds : j = hjob[h]
    BY <1>2 DEF HandlerEnqueue, SafetyInv, TypeOK
  <2>1. /\ hpc[h] = "enqueue"
        /\ ready' = ready \cup {j}
        /\ hpc' = [hpc EXCEPT ![h] = "publish"]
        /\ hjob' = [hjob EXCEPT ![h] = j]
        /\ UNCHANGED <<status, retries, wpc, wjob, spc, todo, sjob>>
    BY <1>2, <2>0 DEF HandlerEnqueue, HandlerGoes, Enqueue, Fault,
                      repositoryVars, workerVars, schedulerVars
  <2>2. \A k \in JobIds \ {j} : Settles(k)
    BY <2>1 DEF Settles, AtHandler, AtWorker, AtReady, AtScheduler, AtRetries,
                SafetyInv, TypeOK
  <2>3. AtHandler(h, j) /\ OnePlace(j)
    BY <2>0, <2>1 DEF AtHandler, PlacesInv
  <2>4. /\ \A g \in Handlers : ~AtHandler(g, j)'
        /\ \A w \in Workers : ~AtWorker(w, j)'
        /\ ~AtScheduler(j)' /\ ~AtRetries(j)'
    BY <2>1, <2>3 DEF OnePlace, AtHandler, AtWorker, AtScheduler, AtRetries,
                      SafetyInv, TypeOK
  <2>5. ~Nowhere(j)
    BY <2>3 DEF Nowhere
  <2>6. \A k \in JobIds : OnePlace(k)'
    <3>1. OnePlace(j)'
      BY <2>4 DEF OnePlace
    <3> QED
      BY <2>2, <3>1, SettlesKeeps DEF PlacesInv
  <2>7. AtRestInv' /\ SelectedInv'
    BY <2>1, <2>2, <2>5, SettlesKeeps
       DEF PlacesInv, AtRestInv, SelectedInv, SafetyInv, TypeOK
  <2>8. ScannedInv' /\ StaleInv' /\ BackingOffInv'
    BY <2>1, <2>2, <2>5, SettlesKeeps
       DEF PlacesInv, ScannedInv, StaleInv, BackingOffInv, SafetyInv, TypeOK
  <2> QED
    BY <2>6, <2>7, <2>8 DEF PlacesInv
<1> QED
  BY <1>1, <1>2 DEF HandlerStep

\* The scheduler selects what is out of circulation.
LEMMA PlacesSelect ==
  ASSUME FaultKinds = {}, SafetyInv, PlacesInv, SelectScheduled
  PROVE  PlacesInv'
<1>1. /\ spc = "idle" /\ spc' = "claim"
      /\ \A j \in todo' : status[j] = "scheduled"
      /\ UNCHANGED <<status, ready, retries, hpc, hjob, wpc, wjob>>
  BY DEF SelectScheduled, ReadyBatches, DueScheduled, SchedulerGoes,
         repositoryVars, redisVars, handlerVars, workerVars
<1>2. \A k \in JobIds : Settles(k)
  BY <1>1 DEF Settles, AtHandler, AtWorker, AtReady, AtScheduler, AtRetries
<1>3. (\A k \in JobIds : OnePlace(k)') /\ AtRestInv'
  BY <1>1, <1>2, SettlesKeeps DEF PlacesInv, AtRestInv
<1>4. todo' \subseteq JobIds
  BY DEF SelectScheduled, ReadyBatches, DueScheduled, SchedulerGoes, SafetyInv,
         TypeOK, RepositoryTypeOK
<1>5. SelectedInv'
  BY <1>1, <1>2, <1>4, SettlesKeeps DEF PlacesInv, SelectedInv, AtRestInv
<1>6. ScannedInv' /\ StaleInv' /\ BackingOffInv'
  BY <1>1 DEF PlacesInv, ScannedInv, StaleInv, BackingOffInv
<1> QED
  BY <1>3, <1>5, <1>6 DEF PlacesInv

\* The claim puts the batch into the scheduler's hands.
LEMMA PlacesClaim ==
  ASSUME FaultKinds = {}, SafetyInv, PlacesInv, ClaimBatch
  PROVE  PlacesInv'
<1>1. /\ spc = "claim" /\ spc' = "enqueue" /\ todo' = todo
      /\ status' = [j \in JobIds |-> IF j \in todo THEN "queued" ELSE status[j]]
      /\ UNCHANGED <<ready, retries, hpc, hjob, wpc, wjob>>
  BY DEF ClaimBatch, ClaimScheduled, SchedulerGoes, Fault, redisVars,
         handlerVars, workerVars
<1>2. \A k \in JobIds \ todo : Settles(k) /\ status'[k] = status[k]
  BY <1>1 DEF Settles, AtHandler, AtWorker, AtReady, AtScheduler, AtRetries
<1>3. \A k \in todo : /\ k \in JobIds /\ Nowhere(k) /\ status'[k] = "queued"
                     /\ status[k] \in {"scheduled", "cancelled"}
  BY <1>1 DEF PlacesInv, SelectedInv, SafetyInv, SelectedIsUnspent, TypeOK
<1>4. \A k \in todo : OnePlace(k)'
  BY <1>1, <1>3 DEF Nowhere, OnePlace, AtHandler, AtWorker, AtReady, AtRetries
<1>5. \A k \in JobIds : OnePlace(k)'
  BY <1>2, <1>4, SettlesKeeps DEF PlacesInv
<1>6. AtRestInv'
  BY <1>2, <1>3, SettlesKeeps DEF PlacesInv, AtRestInv
<1>7. SelectedInv' /\ ScannedInv' /\ StaleInv'
  BY <1>1 DEF SelectedInv, ScannedInv, StaleInv
<1>8. BackingOffInv'
  <2>1. \A w \in Workers : wpc[w] = "backingOff" => wjob[w] \in JobIds \ todo
    BY <1>3 DEF Nowhere, AtWorker, SafetyInv, TypeOK
  <2> QED
    BY <1>1, <1>2, <2>1 DEF PlacesInv, BackingOffInv
<1> QED
  BY <1>5, <1>6, <1>7, <1>8 DEF PlacesInv

\* ZADD takes a claimed id to the ready queue.
LEMMA PlacesEnqueue ==
  ASSUME FaultKinds = {}, SafetyInv, PlacesInv, NEW j \in JobIds,
         EnqueueClaimed(j)
  PROVE  PlacesInv'
<1>1. /\ spc = "enqueue" /\ j \in todo
      /\ spc' = "publish" /\ todo' = todo \ {j}
      /\ ready' = ready \cup {j}
      /\ UNCHANGED <<status, retries, hpc, hjob, wpc, wjob>>
  BY DEF EnqueueClaimed, Enqueue, SchedulerGoes, Fault, repositoryVars,
         handlerVars, workerVars
<1>2. \A k \in JobIds \ {j} : Settles(k)
  BY <1>1 DEF Settles, AtHandler, AtWorker, AtReady, AtScheduler, AtRetries
<1>3. AtScheduler(j) /\ OnePlace(j)
  BY <1>1 DEF AtScheduler, PlacesInv
<1>4. OnePlace(j)' /\ ~Nowhere(j)
  BY <1>1, <1>3 DEF OnePlace, Nowhere, AtHandler, AtWorker, AtReady,
                    AtScheduler, AtRetries
<1>5. (\A k \in JobIds : OnePlace(k)') /\ AtRestInv'
  BY <1>1, <1>2, <1>4, SettlesKeeps DEF PlacesInv, AtRestInv
<1>6. SelectedInv' /\ ScannedInv' /\ StaleInv' /\ BackingOffInv'
  BY <1>1 DEF PlacesInv, SelectedInv, ScannedInv, StaleInv, BackingOffInv
<1> QED
  BY <1>5, <1>6 DEF PlacesInv

\* ZADD takes a due id to the ready queue; its entry no longer counts.
LEMMA PlacesPromote ==
  ASSUME FaultKinds = {}, SafetyInv, PlacesInv, NEW j \in JobIds,
         PromoteRetry(j)
  PROVE  PlacesInv'
<1>1. /\ spc = "promote" /\ j \in todo
      /\ spc' = "remove" /\ todo' = todo \ {j} /\ sjob' = j
      /\ ready' = ready \cup {j}
      /\ UNCHANGED <<status, retries, hpc, hjob, wpc, wjob>>
  BY DEF PromoteRetry, Enqueue, SchedulerGoes, Fault, repositoryVars,
         handlerVars, workerVars
<1>2. \A k \in JobIds \ {j} : Settles(k)
  BY <1>1 DEF Settles, AtHandler, AtWorker, AtReady, AtScheduler, AtRetries
<1>3. AtRetries(j) /\ OnePlace(j) /\ retries[j] = "due"
  BY <1>1 DEF AtRetries, PlacesInv, ScannedInv
<1>4. OnePlace(j)' /\ ~Nowhere(j)
  BY <1>1, <1>3 DEF OnePlace, Nowhere, AtHandler, AtWorker, AtReady,
                    AtScheduler, AtRetries
<1>5. (\A k \in JobIds : OnePlace(k)') /\ AtRestInv'
  BY <1>1, <1>2, <1>4, SettlesKeeps DEF PlacesInv, AtRestInv
<1>6. SelectedInv' /\ ScannedInv' /\ StaleInv' /\ BackingOffInv'
  BY <1>1, <1>3 DEF PlacesInv, SelectedInv, ScannedInv, StaleInv, BackingOffInv
<1> QED
  BY <1>5, <1>6 DEF PlacesInv

\* ZREM takes along an entry that no longer counts.
LEMMA PlacesRemove ==
  ASSUME FaultKinds = {}, SafetyInv, PlacesInv, RemovePromoted
  PROVE  PlacesInv'
<1>1. /\ spc = "remove" /\ spc' = "promote" /\ todo' = todo /\ sjob \in JobIds
      /\ retries' = [retries EXCEPT ![sjob] = "absent"]
      /\ UNCHANGED <<status, ready, hpc, hjob, wpc, wjob>>
  BY DEF RemovePromoted, RemoveRetry, SchedulerGoes, Fault, repositoryVars,
         handlerVars, workerVars, SafetyInv, TypeOK
<1>2. \A k \in JobIds : Settles(k)
  BY <1>1 DEF Settles, AtHandler, AtWorker, AtReady, AtScheduler, AtRetries,
              SafetyInv, TypeOK, RedisTypeOK
<1>3. (\A k \in JobIds : OnePlace(k)') /\ AtRestInv'
  BY <1>1, <1>2, SettlesKeeps DEF PlacesInv, AtRestInv
<1>4. ScannedInv'
  BY <1>1 DEF PlacesInv, ScannedInv, SafetyInv, TypeOK, RedisTypeOK
<1>5. SelectedInv' /\ StaleInv' /\ BackingOffInv'
  BY <1>1 DEF PlacesInv, SelectedInv, StaleInv, BackingOffInv
<1> QED
  BY <1>3, <1>4, <1>5 DEF PlacesInv

\* Every step of the scheduler keeps jobs in one place.
LEMMA PlacesScheduler ==
  ASSUME FaultKinds = {}, SafetyInv, PlacesInv, SchedulerStep
  PROVE  PlacesInv'
<1>1. CASE PublishClaimed \/ ScanRetries \/ EndTick
  <2>1. /\ UNCHANGED <<status, ready, retries, hpc, hjob, wpc, wjob>>
        /\ spc \notin {"claim", "remove"}
        /\ spc' \notin {"claim", "remove"}
        /\ spc' \in {"enqueue", "publish"}
             => spc \in {"enqueue", "publish"} /\ todo' = todo
        /\ spc' = "promote" => \A j \in todo' : retries[j] = "due"
    BY <1>1 DEF PublishClaimed, ScanRetries, EndTick, SchedulerGoes, Fault,
       DueRetries, repositoryVars, redisVars, handlerVars, workerVars
  <2>2. \A k \in JobIds : Settles(k)
    BY <2>1 DEF Settles, AtHandler, AtWorker, AtReady, AtScheduler, AtRetries
  <2>3. (\A k \in JobIds : OnePlace(k)') /\ AtRestInv'
    BY <2>1, <2>2, SettlesKeeps DEF PlacesInv, AtRestInv
  <2>4. SelectedInv' /\ ScannedInv' /\ StaleInv' /\ BackingOffInv'
    BY <2>1 DEF PlacesInv, SelectedInv, ScannedInv, StaleInv, BackingOffInv
  <2> QED
    BY <2>3, <2>4 DEF PlacesInv
<1> QED
  BY <1>1, PlacesSelect, PlacesClaim, PlacesEnqueue, PlacesPromote, PlacesRemove
     DEF SchedulerStep

\* A worker takes an id from the ready queue.
LEMMA PlacesDequeue ==
  ASSUME FaultKinds = {}, SafetyInv, PlacesInv, NEW w \in Workers,
         NEW j \in JobIds, DequeueJob(w, j)
  PROVE  PlacesInv'
<1>1. /\ wpc[w] = "idle" /\ j \in ready
      /\ ready' = ready \ {j}
      /\ wpc' = [wpc EXCEPT ![w] = "popped"]
      /\ wjob' = [wjob EXCEPT ![w] = j]
      /\ UNCHANGED <<status, retries, hpc, hjob, spc, todo, sjob>>
  BY DEF DequeueJob, Pop, WorkerGoes, Fault, repositoryVars, handlerVars,
         schedulerVars
<1>2. \A k \in JobIds \ {j} : Settles(k)
  BY <1>1 DEF Settles, AtHandler, AtWorker, AtReady, AtScheduler, AtRetries,
              SafetyInv, TypeOK
<1>3. AtReady(j) /\ OnePlace(j)
  BY <1>1 DEF AtReady, PlacesInv
<1>4. OnePlace(j)' /\ ~Nowhere(j)
  BY <1>1, <1>3 DEF OnePlace, Nowhere, AtHandler, AtWorker, AtReady,
                    AtScheduler, AtRetries, SafetyInv, TypeOK
<1>5. (\A k \in JobIds : OnePlace(k)') /\ AtRestInv' /\ SelectedInv'
  BY <1>1, <1>2, <1>4, SettlesKeeps
     DEF PlacesInv, AtRestInv, SelectedInv, SafetyInv, TypeOK
<1>6. ScannedInv' /\ StaleInv' /\ BackingOffInv'
  BY <1>1, <1>2, <1>4, SettlesKeeps
     DEF PlacesInv, ScannedInv, StaleInv, BackingOffInv, SafetyInv, TypeOK
<1> QED
  BY <1>5, <1>6 DEF PlacesInv

\* A worker that starts, completes or fails a job is the place the job is in,
\* and at most stops being it.
LEMMA PlacesHandle ==
  ASSUME FaultKinds = {}, SafetyInv, PlacesInv, NEW w \in Workers,
         StartJob(w) \/ CompleteJob(w) \/ FailJob(w)
  PROVE  PlacesInv'
<1>0. PICK j \in JobIds : j = wjob[w]
  BY DEF StartJob, CompleteJob, FailJob, Processing, SafetyInv, TypeOK
<1>1. /\ wpc[w] \in {"popped", "processing"}
      /\ wjob' = [wjob EXCEPT ![w] = j]
      /\ UNCHANGED <<ready, retries, hpc, hjob, spc, todo, sjob>>
  BY <1>0 DEF StartJob, CompleteJob, FailJob, Processing, Fault, WorkerGoes,
              redisVars, handlerVars, schedulerVars
<1>2. /\ AtWorker(w, j) /\ OnePlace(j) /\ ~Nowhere(j)
      /\ \A v \in Workers \ {w} : ~AtWorker(v, j)
  BY <1>0, <1>1 DEF AtWorker, Nowhere, PlacesInv, OnePlace
<1>3. PICK s \in {"running", "completed", "retrying", "dead_letter"},
           pc \in {"started", "announcing", "backingOff", "burying"} :
        /\ status' = [status EXCEPT ![j] = s]
        /\ wpc' = [wpc EXCEPT ![w] = pc]
        /\ pc = "backingOff" => s = "retrying"
        /\ s = "dead_letter" => pc = "burying"
  BY <1>0 DEF StartJob, MarkRunning, CompleteJob, MarkCompleted, FailJob,
              MarkFailed, SetStatus, Fault, WorkerGoes
<1>4. \A k \in JobIds : status'[k] = IF k = j THEN s ELSE status[k]
  BY <1>3 DEF SafetyInv, TypeOK, RepositoryTypeOK
<1>5. \A k \in JobIds : Settles(k)
  BY <1>1, <1>2, <1>3 DEF Settles, AtHandler, AtWorker, AtReady, AtScheduler,
     AtRetries, SafetyInv, TypeOK
<1>6. \A k \in JobIds : OnePlace(k)'
  BY <1>5, SettlesKeeps DEF PlacesInv
<1>7. AtRestInv'
  <2>1. pc = "burying" => Nowhere(j)'
    BY <1>1, <1>2, <1>3 DEF Nowhere, OnePlace, AtHandler, AtWorker, AtReady,
       AtScheduler, AtRetries, SafetyInv, TypeOK
  <2> QED
    BY <1>3, <1>4, <1>5, <2>1, SettlesKeeps DEF PlacesInv, AtRestInv
<1>8. SelectedInv' /\ ScannedInv'
  BY <1>1, <1>5, SettlesKeeps
     DEF PlacesInv, SelectedInv, ScannedInv, SafetyInv, TypeOK
<1>9. StaleInv'
  BY <1>1, <1>2, <1>4, <1>5, SettlesKeeps
     DEF PlacesInv, StaleInv, SafetyInv, TypeOK
<1>10. BackingOffInv'
  <2>1. \A v \in Workers \ {w} :
          wpc'[v] = "backingOff" => /\ wpc[v] = "backingOff"
                                    /\ wjob'[v] = wjob[v]
                                    /\ wjob[v] \in JobIds \ {j}
    BY <1>1, <1>2, <1>3 DEF AtWorker, SafetyInv, TypeOK
  <2>2. wpc'[w] = "backingOff" => wjob'[w] = j /\ s = "retrying"
    BY <1>1, <1>3 DEF SafetyInv, TypeOK
  <2> QED
    BY <1>4, <2>1, <2>2 DEF PlacesInv, BackingOffInv
<1> QED
  BY <1>6, <1>7, <1>8, <1>9, <1>10 DEF PlacesInv

\* EnqueueAfter takes the id from the worker to scheduled:retries, or writes
\* an entry that the ZREM under way will take along.
LEMMA PlacesBackOff ==
  ASSUME FaultKinds = {}, SafetyInv, PlacesInv, NEW w \in Workers, BackOff(w)
  PROVE  PlacesInv'
<1>0. PICK j \in JobIds : j = wjob[w]
  BY DEF BackOff, SafetyInv, TypeOK
<1>1. /\ wpc[w] = "backingOff"
      /\ wpc' = [wpc EXCEPT ![w] = "announcing"]
      /\ wjob' = [wjob EXCEPT ![w] = j]
      /\ retries' = [retries EXCEPT ![j] = "waiting"]
      /\ UNCHANGED <<status, ready, hpc, hjob, spc, todo, sjob>>
  BY <1>0 DEF BackOff, EnqueueAfter, Fault, WorkerGoes, repositoryVars,
              handlerVars, schedulerVars
<1>2. \A k \in JobIds \ {j} : Settles(k)
  BY <1>1 DEF Settles, AtHandler, AtWorker, AtReady, AtScheduler, AtRetries,
              SafetyInv, TypeOK, RedisTypeOK
<1>3. /\ AtWorker(w, j) /\ OnePlace(j) /\ ~Nowhere(j)
      /\ status[j] \in {"retrying", "cancelled"}
  BY <1>0, <1>1 DEF AtWorker, Nowhere, PlacesInv, BackingOffInv
<1>4. /\ \A h \in Handlers : ~AtHandler(h, j)'
      /\ \A v \in Workers : ~AtWorker(v, j)'
      /\ ~AtReady(j)' /\ ~AtScheduler(j)'
  BY <1>1, <1>3 DEF OnePlace, AtHandler, AtWorker, AtReady, AtScheduler,
                    SafetyInv, TypeOK
<1>5. \A k \in JobIds : OnePlace(k)'
  <2>1. OnePlace(j)'
    BY <1>4 DEF OnePlace
  <2> QED
    BY <1>2, <2>1, SettlesKeeps DEF PlacesInv
<1>6. AtRestInv' /\ SelectedInv'
  BY <1>1, <1>2, <1>3, SettlesKeeps
     DEF PlacesInv, AtRestInv, SelectedInv, SafetyInv, TypeOK
<1>7. ScannedInv'
  <2>1. ~(spc \in {"promote", "remove"} /\ j \in todo)
    BY <1>3 DEF PlacesInv, ScannedInv, OnePlace, AtRetries
  <2> QED
    BY <1>1, <2>1 DEF PlacesInv, ScannedInv, SafetyInv, TypeOK, RedisTypeOK
<1>8. StaleInv'
  <2>1. spc = "remove" /\ sjob = j => Nowhere(j)'
    BY <1>1, <1>4 DEF Nowhere, AtRetries
  <2> QED
    BY <1>1, <1>2, <1>3, <2>1, SettlesKeeps
       DEF PlacesInv, StaleInv, SafetyInv, TypeOK, RedisTypeOK
<1>9. BackingOffInv'
  BY <1>1 DEF PlacesInv, BackingOffInv, SafetyInv, TypeOK
<1> QED
  BY <1>5, <1>6, <1>7, <1>8, <1>9 DEF PlacesInv

\* Every step of a worker keeps jobs in one place.
LEMMA PlacesWorker ==
  ASSUME FaultKinds = {}, SafetyInv, PlacesInv, NEW w \in Workers, WorkerStep(w)
  PROVE  PlacesInv'
<1>1. CASE SkipJob(w) \/ PublishRunning(w) \/ Bury(w) \/ PublishOutcome(w)
  <2>1. /\ UNCHANGED <<status, ready, retries, hpc, hjob, spc, todo, sjob>>
        /\ \A v \in Workers \ {w} : wpc'[v] = wpc[v] /\ wjob'[v] = wjob[v]
        /\ wpc'[w] \in {"idle", "announcing"}
             \/ /\ wpc[w] = "started" /\ wpc'[w] = "processing"
                /\ wjob'[w] = wjob[w]
    BY <1>1 DEF SkipJob, PublishRunning, Bury, PublishOutcome, WorkerGoes,
       DeadLetter, Fault, repositoryVars, redisVars, handlerVars,
       schedulerVars, SafetyInv, TypeOK
  <2>2. \A k \in JobIds : Settles(k)
    BY <2>1 DEF Settles, AtHandler, AtWorker, AtReady, AtScheduler, AtRetries
  <2> QED
    BY <2>1, <2>2, PlacesFrame DEF SafetyInv
<1> QED
  BY <1>1, PlacesDequeue, PlacesHandle, PlacesBackOff DEF WorkerStep

\* Every step without a fault keeps jobs in one place.
LEMMA PlacesStep ==
  ASSUME FaultKinds = {}
  PROVE  SafetyInv /\ PlacesInv /\ [Next]_vars => PlacesInv'
<1> SUFFICES ASSUME SafetyInv, PlacesInv, [Next]_vars PROVE PlacesInv'
  OBVIOUS
<1>1. CASE UNCHANGED vars \/ \E j \in JobIds : ClockStep(j)
  <2>1. /\ UNCHANGED <<status, ready, hpc, hjob, wpc, wjob, spc, todo, sjob>>
        /\ \A k \in JobIds : retries'[k] = retries[k]
                               \/ (retries[k] = "waiting" /\ retries'[k] = "due")
    BY <1>1 DEF vars, ClockStep, ScheduleTick, ScheduleComesDue, BackoffTick,
       BackoffElapses, repositoryVars, redisVars, handlerVars, workerVars,
       schedulerVars, SafetyInv, TypeOK, RedisTypeOK
  <2>2. \A k \in JobIds : Settles(k)
    BY <2>1 DEF Settles, AtHandler, AtWorker, AtReady, AtScheduler, AtRetries
  <2> QED
    BY <2>1, <2>2, PlacesFrame DEF SafetyInv
<1>2. ASSUME NEW h \in Handlers, Request(h) \/ HandlerStep(h)
      PROVE  PlacesInv'
  BY <1>2, PlacesCreate, PlacesCancel, PlacesRetry, PlacesHandler DEF Request
<1> QED
  BY <1>1, <1>2, NoRestart, PlacesScheduler, PlacesWorker DEF Next

\* The system starts with every job out of circulation.
LEMMA PlacesInit == Init => PlacesInv
<1> SUFFICES ASSUME Init PROVE PlacesInv
  OBVIOUS
<1>1. \A j \in JobIds : Nowhere(j)
  BY DEF Init, RedisInit, Nowhere, AtHandler, AtWorker, AtReady, AtScheduler,
         AtRetries
<1> QED
  BY <1>1 DEF Init, RepositoryInit, PlacesInv, OnePlace, Nowhere, AtRestInv,
     SelectedInv, ScannedInv, StaleInv, BackingOffInv

\* As long as nothing fails, every job is in one place at a time.
THEOREM PlacesCorrect ==
  ASSUME FaultKinds = {}
  PROVE  Spec => []PlacesInv
<1>1. SafetyInv /\ PlacesInv /\ [Next]_vars => PlacesInv'
  BY PlacesStep
<1> QED
  BY <1>1, PlacesInit, SafetyCorrect, PTL DEF Spec

\* A delivery is one of the places.
LEMMA DeliveryPlaces ==
  ASSUME NEW j, NEW d \in Deliveries(j)
  PROVE  \/ \E h \in Handlers : AtHandler(h, j) /\ d = <<h, "handler">>
         \/ \E w \in Workers :
              AtWorker(w, j) /\ wpc[w] = "popped" /\ d = <<w, "worker">>
         \/ AtReady(j) /\ d = <<j, "ready">>
         \/ AtScheduler(j) /\ d = <<j, "scheduler">>
<1>1. CASE d \in HandlersWith("enqueue", j) \X {"handler"}
  BY <1>1 DEF HandlersWith, AtHandler
<1>2. CASE d \in WorkersWith("popped", j) \X {"worker"}
  BY <1>2 DEF WorkersWith, AtWorker
<1>3. CASE d \in {k \in ready : k = j} \X {"ready"}
  BY <1>3 DEF AtReady
<1>4. CASE d \in {k \in todo : k = j /\ spc \in {"enqueue", "publish"}}
                   \X {"scheduler"}
  BY <1>4 DEF AtScheduler
<1> QED
  BY <1>1, <1>2, <1>3, <1>4 DEF Deliveries

\* As long as nothing fails, a job is delivered at most once at a time, for
\* any number of handlers and workers: Create, Retry, the claim of schedules
\* and the promotion of retries never meet in one job.
THEOREM DeliveredOnceCorrect ==
  ASSUME FaultKinds = {}
  PROVE  Spec => []DeliveredOnce
<1>1. PlacesInv => DeliveredOnce
  <2> SUFFICES ASSUME PlacesInv, NEW j \in JobIds, NEW d \in Deliveries(j),
                      NEW e \in Deliveries(j)
               PROVE  d = e
    BY DEF DeliveredOnce
  <2>1. OnePlace(j)
    BY DEF PlacesInv
  <2> QED
    BY <2>1, DeliveryPlaces DEF OnePlace
<1> QED
  BY <1>1, PlacesCorrect, PTL

\* As long as nothing fails, nothing delivers a job before its backoff has
\* elapsed, although ids are promoted by two calls and cancelled jobs keep
\* theirs.
THEOREM BackoffCorrect ==
  ASSUME FaultKinds = {}
  PROVE  Spec => []BackoffRespected
<1>1. PlacesInv => BackoffRespected
  <2> SUFFICES ASSUME PlacesInv, NEW j \in JobIds, retries[j] = "waiting"
               PROVE  Deliveries(j) = {}
    BY DEF BackoffRespected
  <2>1. \/ Nowhere(j)
        \/ AtRetries(j) /\ OnePlace(j)
    BY DEF PlacesInv, StaleInv, AtRetries
  <2>2. \A d \in Deliveries(j) : FALSE
    BY <2>1, DeliveryPlaces DEF Nowhere, OnePlace
  <2> QED
    BY <2>2
<1> QED
  BY <1>1, PlacesCorrect, PTL
=============================================================================
