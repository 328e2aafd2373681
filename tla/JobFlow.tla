------------------------------ MODULE JobFlow ------------------------------
(***************************************************************************)
(* JobFlow end to end: the API server's request handlers and its scheduler *)
(* goroutine, the worker goroutines, the jobs table and the Redis keys.    *)
(* Every process is sequential; one step of a process is one call to       *)
(* PostgreSQL or Redis, because anything may happen between two calls.     *)
(*                                                                         *)
(* Faults of the environment are steps of their own and consume faultsLeft:*)
(*   "postgres"  a statement returns an error, with or without effect      *)
(*   "redis"     a command returns an error, with or without effect (for a *)
(*               handler also: the client hangs up and the request context *)
(*               is cancelled)                                             *)
(*   "api"       the API process stops, at any step                        *)
(*   "worker"    a worker process stops, at any step                       *)
(*   "flush"     Redis comes back empty: docker-compose keeps no volume    *)
(* An error before the first effect of an operation changes nothing and is *)
(* not a step.                                                             *)
(***************************************************************************)
EXTENDS JobRepository, RedisQueue

CONSTANTS
  Handlers,      \* request goroutines of the API server
  Workers,       \* worker goroutines of all worker processes
  Pools,         \* the worker processes: which goroutines each one runs
  WorkerQueues,  \* cfg.WorkerQueues, the queue names the workers listen to
  MaxRequeues,   \* bound on how often users press retry, per job
  FaultKinds,    \* the kinds of fault that may happen
  MaxFaults      \* bound on how many faults happen

ASSUME PoolsAssumption == Pools \subseteq SUBSET Workers
ASSUME BoundsAssumption == MaxRequeues \in Nat /\ MaxFaults \in Nat

VARIABLES
  hpc, hjob,        \* handlers: the call that comes next, and for which job
  wpc, wjob,        \* workers: where in handle() they are, and with which job
  spc, todo, sjob,  \* scheduler: where, the ids left to walk, the current id
  requeues,         \* history: how often each job was put back by a user
  unannounced,      \* history: jobs changed since an event last named them
  faultsLeft        \* how many faults may still happen

handlerVars == <<hpc, hjob>>
workerVars == <<wpc, wjob>>
schedulerVars == <<spc, todo, sjob>>
vars == <<repositoryVars, redisVars, handlerVars, workerVars, schedulerVars,
          requeues, unannounced, faultsLeft>>

HandlerSteps == {"idle", "enqueue", "publish"}
WorkerSteps == {"idle", "popped", "started", "processing", "backingOff",
                "burying", "announcing"}
SchedulerSteps == {"idle", "claim", "enqueue", "publish", "promote", "remove"}

\* The type of every variable of the composed system.
TypeOK ==
  /\ RepositoryTypeOK
  /\ RedisTypeOK
  /\ hpc \in [Handlers -> HandlerSteps]
  /\ hjob \in [Handlers -> JobIds \cup {NoJob}]
  /\ wpc \in [Workers -> WorkerSteps]
  /\ wjob \in [Workers -> JobIds \cup {NoJob}]
  /\ spc \in SchedulerSteps
  /\ todo \in SUBSET JobIds
  /\ sjob \in JobIds \cup {NoJob}
  /\ requeues \in [JobIds -> Nat]
  /\ unannounced \in SUBSET JobIds
  /\ faultsLeft \in Nat
  /\ \A h \in Handlers : hpc[h] # "idle" => hjob[h] \in JobIds
  /\ \A w \in Workers : wpc[w] # "idle" => wjob[w] \in JobIds
  /\ spc \in {"publish", "remove"} => sjob \in JobIds

Init ==
  /\ RepositoryInit
  /\ RedisInit
  /\ hpc = [h \in Handlers |-> "idle"]
  /\ hjob = [h \in Handlers |-> NoJob]
  /\ wpc = [w \in Workers |-> "idle"]
  /\ wjob = [w \in Workers |-> NoJob]
  /\ spc = "idle"
  /\ todo = {}
  /\ sjob = NoJob
  /\ requeues = [j \in JobIds |-> 0]
  /\ unannounced = {}
  /\ faultsLeft = MaxFaults

----------------------------------------------------------------------------
NoFault == UNCHANGED faultsLeft

Fault(kind) ==
  /\ kind \in FaultKinds
  /\ faultsLeft > 0
  /\ faultsLeft' = faultsLeft - 1

HandlerGoes(h, pc, j) ==
  /\ hpc' = [hpc EXCEPT ![h] = pc]
  /\ hjob' = [hjob EXCEPT ![h] = j]

WorkerGoes(w, pc, j) ==
  /\ wpc' = [wpc EXCEPT ![w] = pc]
  /\ wjob' = [wjob EXCEPT ![w] = j]

SchedulerGoes(pc, S, j) ==
  /\ spc' = pc
  /\ todo' = S
  /\ sjob' = j

\* An UPDATE of job j committed; an event should follow.
Changed(j) == unannounced' = unannounced \cup {j}

\* events.Publish: errors are dropped, the caller goes on either way.
Publish(j) ==
  \/ NoFault /\ unannounced' = unannounced \ {j}
  \/ Fault("redis") /\ UNCHANGED unannounced

----------------------------------------------------------------------------
(***************************************************************************)
(* The API: handlers of POST /jobs, /jobs/:id/cancel and /jobs/:id/retry   *)
(***************************************************************************)
\* A statement of handler h returned: it goes on to pc, or replies an error.
Returned(h, pc, j) ==
  \/ NoFault /\ HandlerGoes(h, pc, j)
  \/ Fault("postgres") /\ UNCHANGED handlerVars

\* JobService.Create up to the INSERT; s is how scheduled_at compared to now.
CreateJob(h, j, q, n, s) ==
  /\ hpc[h] = "idle"
  /\ Create(j, q, n, s)
  /\ Changed(j)
  /\ Returned(h, IF s = "queued" THEN "enqueue" ELSE "publish", j)
  /\ UNCHANGED <<redisVars, workerVars, schedulerVars, requeues>>

\* Mutant: Cancel returns without publishing.
CancelJobSilently(h, j) ==
  /\ hpc[h] = "idle"
  /\ Cancel(j)
  /\ Changed(j)
  /\ NoFault
  /\ UNCHANGED <<redisVars, handlerVars, workerVars, schedulerVars, requeues>>

\* JobService.Cancel: the job's id stays wherever Redis has it.
CancelJob(h, j) ==
  /\ hpc[h] = "idle"
  /\ Cancel(j)
  /\ Changed(j)
  /\ Returned(h, "publish", j)
  /\ UNCHANGED <<redisVars, workerVars, schedulerVars, requeues>>

\* Mutant: Retry forgets to enqueue the job it has requeued.
RetryJobWithoutEnqueue(h, j) ==
  /\ hpc[h] = "idle"
  /\ requeues[j] < MaxRequeues
  /\ Requeue(j)
  /\ Changed(j)
  /\ Returned(h, "publish", j)
  /\ requeues' = [requeues EXCEPT ![j] = @ + 1]
  /\ UNCHANGED <<redisVars, workerVars, schedulerVars>>

\* JobService.Retry up to the UPDATE.
RetryJob(h, j) ==
  /\ hpc[h] = "idle"
  /\ requeues[j] < MaxRequeues
  /\ Requeue(j)
  /\ Changed(j)
  /\ Returned(h, "enqueue", j)
  /\ requeues' = [requeues EXCEPT ![j] = @ + 1]
  /\ UNCHANGED <<redisVars, workerVars, schedulerVars>>

\* queue.Enqueue of Create and Retry.  On an error the row stays queued, the
\* handler replies 400 and publishes nothing.
HandlerEnqueue(h) ==
  /\ hpc[h] = "enqueue"
  /\ \/ /\ NoFault
        /\ Enqueue(hjob[h])
        /\ HandlerGoes(h, "publish", hjob[h])
     \/ /\ Fault("redis")
        /\ Enqueue(hjob[h]) \/ UNCHANGED redisVars
        /\ HandlerGoes(h, "idle", NoJob)
  /\ UNCHANGED <<repositoryVars, workerVars, schedulerVars, requeues,
                 unannounced>>

HandlerPublish(h) ==
  /\ hpc[h] = "publish"
  /\ Publish(hjob[h])
  /\ HandlerGoes(h, "idle", NoJob)
  /\ UNCHANGED <<repositoryVars, redisVars, workerVars, schedulerVars,
                 requeues>>

----------------------------------------------------------------------------
(***************************************************************************)
(* The scheduler: PromoteScheduled on every tick                           *)
(***************************************************************************)
\* ReadyScheduled: the inner SELECT.
SelectScheduled ==
  /\ spc = "idle"
  /\ \E S \in ReadyBatches : SchedulerGoes("claim", S, NoJob)
  /\ NoFault
  /\ UNCHANGED <<repositoryVars, redisVars, handlerVars, workerVars, requeues,
                 unannounced>>

\* ReadyScheduled: the UPDATE.  On an error the tick ends.
ClaimBatch ==
  /\ spc = "claim"
  /\ \/ /\ ClaimScheduled(todo)
        /\ unannounced' = unannounced \cup todo
        /\ \/ NoFault /\ SchedulerGoes("enqueue", todo, NoJob)
           \/ Fault("postgres") /\ SchedulerGoes("idle", {}, NoJob)
     \/ /\ Fault("postgres")
        /\ SchedulerGoes("idle", {}, NoJob)
        /\ UNCHANGED <<repositoryVars, unannounced>>
  /\ UNCHANGED <<redisVars, handlerVars, workerVars, requeues>>

\* queue.Enqueue of a claimed job.  On an error the tick ends: the rest of
\* the batch is claimed but never enqueued.
EnqueueClaimed(j) ==
  /\ spc = "enqueue"
  /\ j \in todo
  /\ \/ /\ NoFault
        /\ Enqueue(j)
        /\ SchedulerGoes("publish", todo \ {j}, j)
     \/ /\ Fault("redis")
        /\ Enqueue(j) \/ UNCHANGED redisVars
        /\ SchedulerGoes("idle", {}, NoJob)
  /\ UNCHANGED <<repositoryVars, handlerVars, workerVars, requeues,
                 unannounced>>

PublishClaimed ==
  /\ spc = "publish"
  /\ Publish(sjob)
  /\ SchedulerGoes("enqueue", todo, NoJob)
  /\ UNCHANGED <<repositoryVars, redisVars, handlerVars, workerVars, requeues>>

\* PromoteRetries: the ids that are due now.  On an error the tick ends.
ScanRetries ==
  /\ spc = "enqueue"
  /\ todo = {}
  /\ \/ NoFault /\ SchedulerGoes("promote", DueRetries, NoJob)
     \/ Fault("redis") /\ SchedulerGoes("idle", {}, NoJob)
  /\ UNCHANGED <<repositoryVars, redisVars, handlerVars, workerVars, requeues,
                 unannounced>>

\* PromoteRetries: Find and Enqueue one id.  Find reads columns that never
\* change.  Errors of either are ignored.
PromoteRetry(j) ==
  /\ spc = "promote"
  /\ j \in todo
  /\ SchedulerGoes("remove", todo \ {j}, j)
  /\ \/ NoFault /\ Enqueue(j)
     \/ /\ Fault("postgres") \/ Fault("redis")
        /\ UNCHANGED redisVars
  /\ UNCHANGED <<repositoryVars, handlerVars, workerVars, requeues,
                 unannounced>>

\* Mutant: PromoteRetries leaves the promoted id in scheduled:retries.
KeepPromoted ==
  /\ spc = "remove"
  /\ SchedulerGoes("promote", todo, NoJob)
  /\ NoFault
  /\ UNCHANGED <<repositoryVars, redisVars, handlerVars, workerVars, requeues,
                 unannounced>>

\* PromoteRetries: ZREM the id, whatever became of it.
RemovePromoted ==
  /\ spc = "remove"
  /\ SchedulerGoes("promote", todo, NoJob)
  /\ \/ NoFault /\ RemoveRetry(sjob)
     \/ Fault("redis") /\ UNCHANGED redisVars
  /\ UNCHANGED <<repositoryVars, handlerVars, workerVars, requeues,
                 unannounced>>

EndTick ==
  /\ spc = "promote"
  /\ todo = {}
  /\ SchedulerGoes("idle", {}, NoJob)
  /\ NoFault
  /\ UNCHANGED <<repositoryVars, redisVars, handlerVars, workerVars, requeues,
                 unannounced>>

----------------------------------------------------------------------------
(***************************************************************************)
(* A worker goroutine: Pool.loop and Pool.handle                           *)
(***************************************************************************)
\* Dequeue: ZPOPMIN on one of the listened queues.  A reply that is lost
\* takes the job with it.
DequeueJob(w, j) ==
  /\ wpc[w] = "idle"
  /\ row[j].queue \in WorkerQueues
  /\ Pop(j)
  /\ \/ NoFault /\ WorkerGoes(w, "popped", j)
     \/ Fault("redis") /\ UNCHANGED workerVars
  /\ UNCHANGED <<repositoryVars, handlerVars, schedulerVars, requeues,
                 unannounced>>

\* handle: MarkRunning matched the row.
StartJob(w) ==
  /\ wpc[w] = "popped"
  /\ MarkRunning(wjob[w])
  /\ Changed(wjob[w])
  /\ \/ NoFault /\ WorkerGoes(w, "started", wjob[w])
     \/ Fault("postgres") /\ WorkerGoes(w, "idle", NoJob)
  /\ UNCHANGED <<redisVars, handlerVars, schedulerVars, requeues>>

\* handle: MarkRunning matched no row, or failed; the id is forgotten.
SkipJob(w) ==
  /\ wpc[w] = "popped"
  /\ \/ NoFault /\ ~Runnable(wjob[w])
     \/ Fault("postgres")
  /\ WorkerGoes(w, "idle", NoJob)
  /\ UNCHANGED <<repositoryVars, redisVars, handlerVars, schedulerVars,
                 requeues, unannounced>>

PublishRunning(w) ==
  /\ wpc[w] = "started"
  /\ Publish(wjob[w])
  /\ WorkerGoes(w, "processing", wjob[w])
  /\ UNCHANGED <<repositoryVars, redisVars, handlerVars, schedulerVars,
                 requeues>>

\* processor.Process is at work on the job.  It ends, with nil or an error:
\* simulate and webhook return at the latest when the job's context expires.
Processing(w) == wpc[w] = "processing"

\* Process returned nil.  The error of MarkCompleted is ignored: the event
\* says completed even when the row does not.
CompleteJob(w) ==
  /\ Processing(w)
  /\ WorkerGoes(w, "announcing", wjob[w])
  /\ \/ NoFault /\ MarkCompleted(wjob[w]) /\ Changed(wjob[w])
     \/ Fault("postgres") /\ UNCHANGED <<repositoryVars, unannounced>>
  /\ UNCHANGED <<redisVars, handlerVars, schedulerVars, requeues>>

\* Mutant: a job that ran into its timeout is dropped without MarkFailed.
FailJobDropped(w) ==
  /\ Processing(w)
  /\ WorkerGoes(w, "idle", NoJob)
  /\ NoFault
  /\ UNCHANGED <<repositoryVars, redisVars, handlerVars, schedulerVars,
                 requeues, unannounced>>

\* Process returned an error or ran into the timeout.  When MarkFailed
\* returns an error, handle() gives up.
FailJob(w) ==
  /\ Processing(w)
  /\ \/ /\ MarkFailed(wjob[w])
        /\ Changed(wjob[w])
        /\ \/ NoFault /\ WorkerGoes(w, IF AttemptsLeft(wjob[w]) THEN "backingOff"
                                       ELSE "burying", wjob[w])
           \/ Fault("postgres") /\ WorkerGoes(w, "idle", NoJob)
     \/ /\ Fault("postgres")
        /\ WorkerGoes(w, "idle", NoJob)
        /\ UNCHANGED <<repositoryVars, unannounced>>
  /\ UNCHANGED <<redisVars, handlerVars, schedulerVars, requeues>>

\* Mutant: the retry branch lacks its return and falls into DeadLetter.
BackOffFallsThrough(w) ==
  /\ wpc[w] = "backingOff"
  /\ WorkerGoes(w, "burying", wjob[w])
  /\ NoFault /\ EnqueueAfter(wjob[w])
  /\ UNCHANGED <<repositoryVars, handlerVars, schedulerVars, requeues,
                 unannounced>>

\* EnqueueAfter with the backoff delay; its error is ignored.
BackOff(w) ==
  /\ wpc[w] = "backingOff"
  /\ WorkerGoes(w, "announcing", wjob[w])
  /\ \/ NoFault /\ EnqueueAfter(wjob[w])
     \/ Fault("redis") /\ UNCHANGED redisVars
  /\ UNCHANGED <<repositoryVars, handlerVars, schedulerVars, requeues,
                 unannounced>>

\* DeadLetter; its error is ignored.
Bury(w) ==
  /\ wpc[w] = "burying"
  /\ WorkerGoes(w, "announcing", wjob[w])
  /\ \/ NoFault /\ DeadLetter(wjob[w])
     \/ Fault("redis") /\ UNCHANGED redisVars
  /\ UNCHANGED <<repositoryVars, handlerVars, schedulerVars, requeues,
                 unannounced>>

PublishOutcome(w) ==
  /\ wpc[w] = "announcing"
  /\ Publish(wjob[w])
  /\ WorkerGoes(w, "idle", NoJob)
  /\ UNCHANGED <<repositoryVars, redisVars, handlerVars, schedulerVars,
                 requeues>>

----------------------------------------------------------------------------
(***************************************************************************)
(* The environment: clocks and restarts                                    *)
(***************************************************************************)
ScheduleTick(j) ==
  /\ ScheduleComesDue(j)
  /\ NoFault
  /\ UNCHANGED <<redisVars, handlerVars, workerVars, schedulerVars, requeues,
                 unannounced>>

BackoffTick(j) ==
  /\ BackoffElapses(j)
  /\ NoFault
  /\ UNCHANGED <<repositoryVars, handlerVars, workerVars, schedulerVars,
                 requeues, unannounced>>

\* The API process stops and is started again.
ApiRestart ==
  /\ Fault("api")
  /\ hpc' = [h \in Handlers |-> "idle"]
  /\ hjob' = [h \in Handlers |-> NoJob]
  /\ SchedulerGoes("idle", {}, NoJob)
  /\ UNCHANGED <<repositoryVars, redisVars, workerVars, requeues, unannounced>>

(***************************************************************************)
(* A worker process stops and is started again.  SIGTERM is no gentler     *)
(* than a crash: it cancels the context every call of handle() uses, and   *)
(* Start returns without waiting for the goroutines.                       *)
(***************************************************************************)
WorkerRestart(P) ==
  /\ Fault("worker")
  /\ wpc' = [w \in Workers |-> IF w \in P THEN "idle" ELSE wpc[w]]
  /\ wjob' = [w \in Workers |-> IF w \in P THEN NoJob ELSE wjob[w]]
  /\ UNCHANGED <<repositoryVars, redisVars, handlerVars, schedulerVars,
                 requeues, unannounced>>

RedisFlush ==
  /\ Fault("flush")
  /\ ready' = {}
  /\ retries' = [j \in JobIds |-> "absent"]
  /\ dlq' = [j \in JobIds |-> 0]
  /\ UNCHANGED <<repositoryVars, handlerVars, workerVars, schedulerVars,
                 requeues, unannounced>>

----------------------------------------------------------------------------
Request(h) ==
  \/ \E j \in JobIds, q \in Queues, n \in AttemptLimits,
        s \in {"queued", "scheduled"} : CreateJob(h, j, q, n, s)
  \/ \E j \in JobIds : CancelJob(h, j) \/ RetryJob(h, j)

HandlerStep(h) == HandlerEnqueue(h) \/ HandlerPublish(h)

SchedulerStep ==
  \/ SelectScheduled \/ ClaimBatch \/ PublishClaimed
  \/ ScanRetries \/ RemovePromoted \/ EndTick
  \/ \E j \in JobIds : EnqueueClaimed(j) \/ PromoteRetry(j)

WorkerStep(w) ==
  \/ \E j \in JobIds : DequeueJob(w, j)
  \/ StartJob(w) \/ SkipJob(w) \/ PublishRunning(w)
  \/ CompleteJob(w) \/ FailJob(w)
  \/ BackOff(w) \/ Bury(w) \/ PublishOutcome(w)

ClockStep(j) == ScheduleTick(j) \/ BackoffTick(j)

Restart == ApiRestart \/ RedisFlush \/ \E P \in Pools : WorkerRestart(P)

Next ==
  \/ \E h \in Handlers : Request(h) \/ HandlerStep(h)
  \/ SchedulerStep
  \/ \E w \in Workers : WorkerStep(w)
  \/ \E j \in JobIds : ClockStep(j)
  \/ Restart

Spec == Init /\ [][Next]_vars

(***************************************************************************)
(* Goroutines are scheduled, the ticker keeps ticking, Process is bounded  *)
(* by JOB_TIMEOUT, and clocks advance.  No user is obliged to do anything. *)
(* Fairness is per process, not per job: which of the waiting jobs a       *)
(* worker pops is up to the queue order and the scores.                    *)
(***************************************************************************)
Fairness ==
  /\ \A h \in Handlers : WF_vars(HandlerStep(h))
  /\ WF_vars(SchedulerStep)
  /\ \A w \in Workers : WF_vars(WorkerStep(w))
  /\ \A j \in JobIds : WF_vars(ClockStep(j))

FairSpec == Spec /\ Fairness

----------------------------------------------------------------------------
(***************************************************************************)
(* Safety, whatever faults happen                                          *)
(***************************************************************************)
\* Worker w has started its job and not yet recorded the outcome.
Executing(w) == wpc[w] \in {"started", "processing"}

\* No two workers execute the same job at the same time, although handle()
\* takes no lock: the status filter of MarkRunning has to be enough against
\* cancels, retries, promotions and duplicate queue entries.
OneWorkerPerJob ==
  \A v, w \in Workers :
    Executing(v) /\ Executing(w) /\ wjob[v] = wjob[w] => v = w

\* Executions a job may have: max_attempts, at least one, and one more for
\* each time a user requeued it (Requeue keeps the attempt count).
Budget(j) ==
  (IF row[j].maxAttempts > 0 THEN row[j].maxAttempts ELSE 1) + requeues[j]

\* A job is never executed more often than its limit and its manual retries
\* allow, however often its id is delivered.
AttemptsWithinBudget == \A j \in JobIds : attempts[j] <= Budget(j)

\* The strengthening that makes the three properties inductive: a worker
\* that executes a job finds it running, and only it; a job that never ran
\* has spent no attempt, and so has everything the scheduler selected.
ExecutingIsRunning ==
  \A w \in Workers : Executing(w) => status[wjob[w]] = "running"

FreshIsUnspent ==
  \A j \in JobIds : status[j] \in {"none", "scheduled"} => attempts[j] = 0

SelectedIsUnspent ==
  spc = "claim" => \A j \in todo : /\ status[j] \in {"scheduled", "cancelled"}
                                  /\ attempts[j] = 0

RunnableHasBudget ==
  \A j \in JobIds :
    /\ status[j] = "queued" => attempts[j] < Budget(j)
    /\ status[j] = "retrying" => AttemptsLeft(j)

\* The inductive invariant: at every step of every process, under any fault,
\* a worker past MarkRunning still owns its row, alone, within the budget.
SafetyInv ==
  /\ TypeOK
  /\ ExecutingIsRunning
  /\ OneWorkerPerJob
  /\ FreshIsUnspent
  /\ SelectedIsUnspent
  /\ RunnableHasBudget
  /\ AttemptsWithinBudget

\* A settled status is final: completed is never overwritten by a slower
\* process, dead_letter is left only through Retry, and cancelled only when
\* the scheduler had selected the job before it was cancelled.
SettledStep ==
  \A j \in JobIds : status'[j] # status[j] =>
    /\ status[j] # "completed"
    /\ status[j] = "dead_letter" =>
         status'[j] = "queued" /\ requeues'[j] = requeues[j] + 1
    /\ status[j] = "cancelled" =>
         status'[j] = "queued" /\ spc = "claim" /\ j \in todo

SettledStaysSettled == [][SettledStep]_vars

LimitOfRow == [j \in JobIds |-> row[j].maxAttempts]

Lifecycle == INSTANCE JobLifecycle WITH limit <- LimitOfRow

\* JobFlow implements the job state machine: the UPDATEs without a status
\* filter (MarkCompleted, MarkFailed, ReadyScheduled) only ever make the
\* moves JobLifecycle names.
ImplementsLifecycle == Lifecycle!Spec

----------------------------------------------------------------------------
(***************************************************************************)
(* Safety as long as no fault happens                                      *)
(***************************************************************************)
HandlersWith(pc, j) == {h \in Handlers : hpc[h] = pc /\ hjob[h] = j}
WorkersWith(pc, j) == {w \in Workers : wpc[w] = pc /\ wjob[w] = j}

\* The places from which job j will reach MarkRunning.
Deliveries(j) ==
  (HandlersWith("enqueue", j) \X {"handler"})
  \cup (WorkersWith("popped", j) \X {"worker"})
  \cup ({k \in ready : k = j} \X {"ready"})
  \cup ({k \in todo : k = j /\ spc \in {"enqueue", "publish"}} \X {"scheduler"})

\* A job that waits in the table for a worker is on its way to one: queued
\* rows are not scanned by anybody, so one without a delivery waits forever.
QueuedIsDelivered ==
  \A j \in JobIds : status[j] = "queued" => Deliveries(j) # {}

\* A running row belongs to a worker that is still executing the job.
RunningIsExecuted ==
  \A j \in JobIds : status[j] = "running" =>
    \E w \in Workers : Executing(w) /\ wjob[w] = j

\* A job is delivered at most once at a time, across creation, promotion of
\* schedules, promotion of retries and manual retries.
DeliveredOnce ==
  \A j \in JobIds : \A d, e \in Deliveries(j) : d = e

\* While the backoff of a failed job has not elapsed, nothing delivers it.
BackoffRespected ==
  \A j \in JobIds :
    status[j] = "retrying" /\ retries[j] = "waiting" => Deliveries(j) = {}

\* The dead-letter list counts exhausted jobs exactly: one entry for each
\* time a job became dead_letter, those that were retried since included.
DeadLetterLedger ==
  \A j \in JobIds :
    dlq[j] + Cardinality(WorkersWith("burying", j))
      = requeues[j] + (IF status[j] = "dead_letter" THEN 1 ELSE 0)

\* Somebody is about to publish an event naming j.
Announcing(j) ==
  \/ HandlersWith("enqueue", j) \cup HandlersWith("publish", j) # {}
  \/ \E w \in Workers : wpc[w] \notin {"idle", "popped"} /\ wjob[w] = j
  \/ spc \in {"enqueue", "publish"} /\ j \in todo
  \/ spc = "publish" /\ j = sjob

\* No change of a job goes unannounced: the dashboard refreshes on events
\* only, so a change nobody is about to publish stays invisible.
ChangesAreAnnounced == \A j \in unannounced : Announcing(j)

----------------------------------------------------------------------------
(***************************************************************************)
(* Progress                                                                *)
(***************************************************************************)
Faultless == [](faultsLeft = MaxFaults)

\* As long as no fault happens, a queued job of a listened queue is taken up by
\* a worker or cancelled.  (Nobody looks for a queued row whose id is lost.)
QueuedIsPickedUp ==
  Faultless => \A j \in JobIds :
    status[j] = "queued" /\ row[j].queue \in WorkerQueues
      ~> status[j] # "queued"

\* A running job reaches an outcome.
RunningIsResolved ==
  \A j \in JobIds : status[j] = "running" ~> status[j] # "running"

\* A scheduled job is queued once its time has come, or cancelled before.
ScheduledIsPromoted ==
  \A j \in JobIds : status[j] = "scheduled" ~> status[j] # "scheduled"

\* As long as no fault happens, every change of a job is followed by an event
\* that names it.
ChangeIsPublished ==
  Faultless => \A j \in JobIds : j \in unannounced ~> j \notin unannounced

----------------------------------------------------------------------------
(***************************************************************************)
(* What the documents say and the code does not do                         *)
(***************************************************************************)
\* README.md: "Failed jobs are retried with backoff."
RetryingIsRetried ==
  \A j \in JobIds :
    status[j] = "retrying" /\ row[j].queue \in WorkerQueues
      ~> status[j] # "retrying"

\* JobTable.jsx: a cancelled job "will be stopped and marked as cancelled";
\* nothing brings it back.
CancelIsFinal ==
  [][\A j \in JobIds : status[j] = "cancelled" => status'[j] = "cancelled"]_vars
=============================================================================
