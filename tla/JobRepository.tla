--------------------------- MODULE JobRepository ---------------------------
(***************************************************************************)
(* The jobs table in PostgreSQL and the statements JobRepository runs on   *)
(* it.  Every statement that changes a job is one operator.  A row keeps   *)
(* the columns that decide what may happen next: the status, the attempt   *)
(* count, and the queue and attempt limit fixed at insertion.  Payload,    *)
(* type, timestamps and error text are left out, and so is user_id: a      *)
(* Cancel or Requeue from somebody else than the owner matches no row.     *)
(***************************************************************************)
EXTENDS JobModel, FiniteSets

CONSTANTS
  Queues,        \* queue names a client may ask for; "" asks for none
  AttemptLimits, \* max_attempts values a client may ask for
  ScheduledBatch \* LIMIT of the ReadyScheduled statement (100 in the code)

ASSUME AttemptLimitsAssumption == AttemptLimits \subseteq Int
ASSUME ScheduledBatchAssumption == ScheduledBatch \in Nat \ {0}

VARIABLES
  status,    \* jobs.status, "none" before the row exists
  attempts,  \* jobs.attempts
  row,       \* the columns that never change: queue_name and max_attempts
  due        \* scheduled jobs with scheduled_at <= NOW()

repositoryVars == <<status, attempts, row, due>>

\* service.Create: an empty queue name becomes "default", a zero limit 3.
EffectiveQueue(q) == IF q = "" THEN "default" ELSE q
EffectiveLimit(n) == IF n = 0 THEN 3 ELSE n

QueueNames == {EffectiveQueue(q) : q \in Queues}

NoRow == [queue |-> "", maxAttempts |-> 0]
Rows == [queue : QueueNames, maxAttempts : Int] \cup {NoRow}

RepositoryTypeOK ==
  /\ status \in [JobIds -> Statuses \cup {"none"}]
  /\ attempts \in [JobIds -> Nat]
  /\ row \in [JobIds -> Rows]
  /\ due \in SUBSET JobIds

RepositoryInit ==
  /\ status = [j \in JobIds |-> "none"]
  /\ attempts = [j \in JobIds |-> 0]
  /\ row = [j \in JobIds |-> NoRow]
  /\ due = {}

SetStatus(j, s) == status' = [status EXCEPT ![j] = s]

----------------------------------------------------------------------------
\* INSERT: queued, or scheduled when scheduled_at lies in the future.
Create(j, q, n, s) ==
  /\ status[j] = "none"
  /\ SetStatus(j, s)
  /\ row' = [row EXCEPT ![j] = [queue |-> EffectiveQueue(q),
                                maxAttempts |-> EffectiveLimit(n)]]
  /\ UNCHANGED <<attempts, due>>

\* Mutant: the status filter of Cancel also admits running jobs.
CancelRunningToo(j) ==
  /\ status[j] \in {"queued", "scheduled", "retrying", "running"}
  /\ SetStatus(j, "cancelled")
  /\ UNCHANGED <<attempts, row, due>>

\* UPDATE ... WHERE status IN (queued, scheduled, retrying).
Cancel(j) ==
  /\ status[j] \in {"queued", "scheduled", "retrying"}
  /\ SetStatus(j, "cancelled")
  /\ UNCHANGED <<attempts, row, due>>

\* Mutant: the status filter of MarkRunning names retrying only.
RunnableRetrying(j) == status[j] = "retrying"

Runnable(j) == status[j] \in {"queued", "retrying"}

\* UPDATE ... WHERE status IN (queued, retrying), one attempt is spent.
MarkRunning(j) ==
  /\ Runnable(j)
  /\ SetStatus(j, "running")
  /\ attempts' = [attempts EXCEPT ![j] = @ + 1]
  /\ UNCHANGED <<row, due>>

\* UPDATE ... WHERE id only: no condition on the status.
MarkCompleted(j) ==
  /\ SetStatus(j, "completed")
  /\ UNCHANGED <<attempts, row, due>>

AttemptsLeft(j) == attempts[j] < row[j].maxAttempts

\* Mutant: the comparison of attempts with max_attempts is off by one.
MarkFailedOffByOne(j) ==
  /\ SetStatus(j, IF attempts[j] <= row[j].maxAttempts THEN "retrying"
                                                       ELSE "dead_letter")
  /\ UNCHANGED <<attempts, row, due>>

\* UPDATE ... WHERE id only: retrying while attempts are left, else dead.
MarkFailed(j) ==
  /\ SetStatus(j, IF AttemptsLeft(j) THEN "retrying" ELSE "dead_letter")
  /\ UNCHANGED <<attempts, row, due>>

\* Mutant: Requeue forgets its status filter.
RequeueAnything(j) ==
  /\ status[j] # "none"
  /\ SetStatus(j, "queued")
  /\ UNCHANGED <<attempts, row, due>>

\* UPDATE ... WHERE status IN (failed, dead_letter); attempts are kept.
Requeue(j) ==
  /\ status[j] \in {"failed", "dead_letter"}
  /\ SetStatus(j, "queued")
  /\ UNCHANGED <<attempts, row, due>>

(***************************************************************************)
(* ReadyScheduled is one UPDATE ... WHERE id IN (SELECT ... LIMIT n)       *)
(* without FOR UPDATE, run at READ COMMITTED.  The inner SELECT reads the  *)
(* snapshot taken when the statement starts; a row that another statement  *)
(* commits meanwhile is updated in its new version, because re-checking    *)
(* "id IN (those ids)" on it still succeeds.  Hence two steps.             *)
(***************************************************************************)
\* Mutant: scheduled_at > NOW() instead of scheduled_at <= NOW().
NotYetDueScheduled == {j \in JobIds \ due : status[j] = "scheduled"}

DueScheduled == {j \in due : status[j] = "scheduled"}

\* The batch the inner SELECT may return: everything due, up to the LIMIT.
ReadyBatches ==
  {S \in SUBSET DueScheduled :
     \/ S = DueScheduled /\ Cardinality(S) <= ScheduledBatch
     \/ Cardinality(S) = ScheduledBatch}

\* The outer UPDATE of the ids the inner SELECT returned.
ClaimScheduled(S) ==
  /\ status' = [j \in JobIds |-> IF j \in S THEN "queued" ELSE status[j]]
  /\ UNCHANGED <<attempts, row, due>>

\* NOW() passes the scheduled_at of job j.
ScheduleComesDue(j) ==
  /\ status[j] = "scheduled"
  /\ j \notin due
  /\ due' = due \cup {j}
  /\ UNCHANGED <<status, attempts, row>>
=============================================================================
