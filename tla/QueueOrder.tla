---------------------------- MODULE QueueOrder ----------------------------
(***************************************************************************)
(* The order in which jobs leave Redis: scores made of priority and time   *)
(* (RedisQueue.Enqueue), the fixed order in which a worker looks at its    *)
(* queues (RedisQueue.Dequeue), and backoff entries in whole seconds       *)
(* (EnqueueAfter, PromoteRetries).  JobFlow has the same commands with the *)
(* scores abstracted away, and what may happen between two of them.        *)
(*                                                                         *)
(* Time runs in ticks, Second of them to a second.  Scores are relative to *)
(* the present: instead of the clock going up, the score of a waiting job  *)
(* goes down, until it is so low that only its order among the waiting     *)
(* jobs of its queue matters: all of them keep their order then, from      *)
(* Floor upwards, and below every new score.                               *)
(* Members with one score leave in any order (Redis compares the ids).  A  *)
(* job that has ended makes room for a new one with its model value.       *)
(***************************************************************************)
EXTENDS Integers, SequencesExt

CONSTANTS
  JobIds,
  NoJob,
  Queues,       \* the sequence cfg.WorkerQueues
  Priorities,
  Workers,
  Step,         \* ticks a level of priority is worth (1_000_000_000 ms)
  Second,       \* ticks in a second (1000 ms)
  MaxAttempts,
  Floor,
  MaxErrors     \* bound on errors of Redis

ASSUME NoJobAssumption == NoJob \notin JobIds
ASSUME QueuesAssumption ==
  Queues \in Seq(STRING) /\ IsInjective(Queues) /\ Len(Queues) > 0
ASSUME PrioritiesAssumption == Priorities \subseteq Int
ASSUME UnitsAssumption == Step \in Nat \ {0} /\ Second \in Nat \ {0}
ASSUME FloorAssumption ==
  /\ IsFiniteSet(JobIds) /\ Floor \in Int
  /\ \A p \in Priorities : Floor + Cardinality(JobIds) <= -(p * Step)
ASSUME BoundsAssumption == MaxAttempts \in Nat \ {0} /\ MaxErrors \in Nat

VARIABLES
  place,     \* where a job is: "none", "ready", "running" or "backoff"
  row,       \* its queue, priority and attempts
  score,     \* its score in queue:<name>, while ready
  entry,     \* its score in scheduled:retries, in seconds from now
  waited,    \* history: ticks since EnqueueAfter, while backing off
  young,     \* history: ready jobs enqueued in this tick
  older,     \* history: <<k, j>> if j was enqueued while k had been ready since
             \* an earlier tick
  phase,     \* ticks since the last full second
  scan,      \* where Dequeue is: at an index of Queues, beyond them for its
             \* pause, and 0 while handle runs
  wjob,      \* the job a worker has in hand
  errorsLeft

jobVars == <<place, row, score, entry, waited, young, older>>
workerVars == <<scan, wjob>>
orderVars == <<jobVars, workerVars, phase, errorsLeft>>

NoRow == [queue |-> "", prio |-> 0, attempts |-> 0]

Rows == [queue : Range(Queues), prio : Priorities, attempts : 0..MaxAttempts]

\* handle's delay in seconds.
Delay(j) == 2^(row[j].attempts - 1)

TypeOK ==
  /\ place \in [JobIds -> {"none", "ready", "running", "backoff"}]
  /\ row \in [JobIds -> Rows \cup {NoRow}]
  /\ score \in [JobIds -> Int]
  /\ entry \in [JobIds -> Nat]
  /\ waited \in [JobIds -> Nat]
  /\ young \in SUBSET JobIds
  /\ older \in SUBSET (JobIds \X JobIds)
  /\ phase \in 0..(Second - 1)
  /\ scan \in [Workers -> 0..(Len(Queues) + 1)]
  /\ wjob \in [Workers -> JobIds \cup {NoJob}]
  /\ errorsLeft \in 0..MaxErrors

Init ==
  /\ place = [j \in JobIds |-> "none"]
  /\ row = [j \in JobIds |-> NoRow]
  /\ score = [j \in JobIds |-> 0]
  /\ entry = [j \in JobIds |-> 0]
  /\ waited = [j \in JobIds |-> 0]
  /\ young = {}
  /\ older = {}
  /\ phase = 0
  /\ scan = [w \in Workers |-> 1]
  /\ wjob = [w \in Workers |-> NoJob]
  /\ errorsLeft = MaxErrors

Waiting(q) == {j \in JobIds : place[j] = "ready" /\ row[j].queue = q}

----------------------------------------------------------------------------
(***************************************************************************)
(* RedisQueue                                                              *)
(***************************************************************************)
\* Mutant: the sign of the priority is forgotten.
NewScoreUnsigned(p) == p * Step

\* The score of a job enqueued now, -priority * 1e9 + now.
NewScore(p) == -(p * Step)

\* Mutant: scores have no term for the time; they keep their distance from
\* those that are still to come.
NextScoreTimeless(j) == score[j]

\* The score of a waiting job, a tick later.
NextScore(j) ==
  LET lower == {score[k] : k \in {k \in Waiting(row[j].queue) : score[k] < score[j]}}
  IN  Max({score[j] - 1, Floor + Cardinality(lower)})

\* Enqueue of job j with row r.
Enqueue(j, r) ==
  /\ place' = [place EXCEPT ![j] = "ready"]
  /\ row' = [row EXCEPT ![j] = r]
  /\ score' = [score EXCEPT ![j] = NewScore(r.prio)]
  /\ young' = young \cup {j}
  /\ older' = older \cup ({k \in JobIds : place[k] = "ready" /\ k \notin young} \X {j})

\* ZPOPMIN of one queue: a job with the lowest score.
PopMin(j) ==
  /\ \A k \in Waiting(row[j].queue) : score[j] <= score[k]
  /\ score' = [score EXCEPT ![j] = 0]
  /\ young' = young \ {j}
  /\ older' = {p \in older : j \notin Range(p)}

\* Mutant: the fraction of the second is rounded up when time is compared.
DueRoundedUp(j) == entry[j] <= 1

\* PromoteRetries selects ids up to the current second, Unix().
Due(j) == entry[j] <= 0

\* EnqueueAfter: Unix() cuts off the fraction of a second.
EnqueueAfter(j) ==
  /\ entry' = [entry EXCEPT ![j] = (phase + Delay(j) * Second) \div Second]
  /\ waited' = [waited EXCEPT ![j] = 0]

----------------------------------------------------------------------------
(***************************************************************************)
(* Jobs come, are taken, and end or back off                               *)
(***************************************************************************)
\* JobService.Create; the same for a job that is promoted or retried by hand.
CreateJob(j, q, p) ==
  /\ place[j] = "none"
  /\ Enqueue(j, [queue |-> q, prio |-> p, attempts |-> 0])
  /\ UNCHANGED <<entry, waited, workerVars, phase, errorsLeft>>

\* Dequeue: ZPOPMIN of the queue at hand has a member; handle starts.
TakeJob(w, j) ==
  /\ scan[w] \in DOMAIN Queues
  /\ j \in Waiting(Queues[scan[w]])
  /\ PopMin(j)
  /\ place' = [place EXCEPT ![j] = "running"]
  /\ row' = [row EXCEPT ![j].attempts = @ + 1]
  /\ scan' = [scan EXCEPT ![w] = 0]
  /\ wjob' = [wjob EXCEPT ![w] = j]
  /\ UNCHANGED <<entry, waited, phase, errorsLeft>>

\* Dequeue: the queue at hand is empty.
NextQueue(w) ==
  /\ scan[w] \in DOMAIN Queues
  /\ Waiting(Queues[scan[w]]) = {}
  /\ scan' = [scan EXCEPT ![w] = @ + 1]
  /\ UNCHANGED <<jobVars, wjob, phase, errorsLeft>>

\* Mutant: after its pause Dequeue goes on with the last queue.
ResumeLast(w) ==
  /\ scan[w] > Len(Queues)
  /\ scan' = [scan EXCEPT ![w] = Len(Queues)]
  /\ UNCHANGED <<jobVars, wjob, phase, errorsLeft>>

\* Dequeue: the pause of 500 ms is over.
Resume(w) ==
  /\ scan[w] > Len(Queues)
  /\ scan' = [scan EXCEPT ![w] = 1]
  /\ UNCHANGED <<jobVars, wjob, phase, errorsLeft>>

\* Dequeue returns an error; loop calls it again.
DequeueFails(w) ==
  /\ scan[w] \in DOMAIN Queues
  /\ errorsLeft > 0
  /\ errorsLeft' = errorsLeft - 1
  /\ scan' = [scan EXCEPT ![w] = 1]
  /\ UNCHANGED <<jobVars, wjob, phase>>

\* handle returns: the job is settled, or has attempts left and backs off.
EndJob(w) ==
  LET j == wjob[w]
  IN  /\ scan[w] = 0
      /\ scan' = [scan EXCEPT ![w] = 1]
      /\ wjob' = [wjob EXCEPT ![w] = NoJob]
      /\ \/ /\ place' = [place EXCEPT ![j] = "none"]
            /\ row' = [row EXCEPT ![j] = NoRow]
            /\ UNCHANGED <<entry, waited>>
         \/ /\ row[j].attempts < MaxAttempts
            /\ place' = [place EXCEPT ![j] = "backoff"]
            /\ EnqueueAfter(j)
            /\ UNCHANGED row
      /\ UNCHANGED <<score, young, older, phase, errorsLeft>>

\* PromoteRetries, for one id that is due.
PromoteRetry(j) ==
  /\ place[j] = "backoff"
  /\ Due(j)
  /\ Enqueue(j, row[j])
  /\ entry' = [entry EXCEPT ![j] = 0]
  /\ waited' = [waited EXCEPT ![j] = 0]
  /\ UNCHANGED <<workerVars, phase, errorsLeft>>

\* A tick passes.  The history of a wait ends with the longest delay.
TimePasses ==
  /\ phase' = (phase + 1) % Second
  /\ score' = [j \in JobIds |-> IF place[j] = "ready" THEN NextScore(j) ELSE 0]
  /\ entry' = [j \in JobIds |-> IF phase' = 0 /\ entry[j] > 0 THEN entry[j] - 1
                                                             ELSE entry[j]]
  /\ waited' = [j \in JobIds |->
                  IF place[j] = "backoff" /\ waited[j] < Delay(j) * Second
                    THEN waited[j] + 1 ELSE waited[j]]
  /\ young' = {}
  /\ UNCHANGED <<place, row, older, workerVars, errorsLeft>>

----------------------------------------------------------------------------
WorkerStep(w) ==
  \/ \E j \in JobIds : TakeJob(w, j)
  \/ NextQueue(w) \/ Resume(w) \/ EndJob(w)

Next ==
  \/ TimePasses
  \/ \E j \in JobIds, q \in Range(Queues), p \in Priorities : CreateJob(j, q, p)
  \/ \E j \in JobIds : PromoteRetry(j)
  \/ \E w \in Workers : WorkerStep(w) \/ DequeueFails(w)

Spec == Init /\ [][Next]_orderVars

\* Time passes, workers work and the scheduler ticks.  Jobs need not come, but
\* may come for ever.
Fairness ==
  /\ WF_orderVars(TimePasses)
  /\ \A j \in JobIds : WF_orderVars(PromoteRetry(j))
  /\ \A w \in Workers : WF_orderVars(WorkerStep(w))

FairSpec == Spec /\ Fairness

----------------------------------------------------------------------------
(***************************************************************************)
(* Properties                                                              *)
(***************************************************************************)
\* Within a queue nobody is overtaken by a job that came later and is no more
\* urgent, retries included.
FirstComeFirstServed ==
  [][\A w \in Workers, j, k \in JobIds :
       TakeJob(w, j) /\ <<k, j>> \in older /\ row[k].queue = row[j].queue
       => row[k].prio < row[j].prio]_orderVars

\* A retry is due when its delay is over, and at most a second early.
BackoffWithinASecond ==
  \A j \in JobIds : place[j] = "backoff" =>
    /\ waited[j] >= Delay(j) * Second => Due(j)
    /\ Due(j) => waited[j] > (Delay(j) - 1) * Second

\* The same with the types: where a job is, and since when.
OrderInv == TypeOK /\ BackoffWithinASecond

\* Priorities starve nobody: a job of the first queue is taken, even if more
\* urgent jobs keep coming, because a score counts the time as well.
FirstQueueIsServed ==
  \A j \in JobIds :
    place[j] = "ready" /\ row[j].queue = Queues[1] ~> place[j] # "ready"

\* The fixed order of the queues does not starve a later queue as long as the
\* earlier ones are found empty again and again: the worker that gets to it
\* takes its jobs, each one in the end.
LaterQueuesAreServed ==
  \A i \in DOMAIN Queues : ([]<>\E w \in Workers : scan[w] = i) =>
    \A j \in JobIds :
      place[j] = "ready" /\ row[j].queue = Queues[i] ~> place[j] # "ready"
=============================================================================
