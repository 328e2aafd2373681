---------------------------- MODULE JobLifecycle ----------------------------
(***************************************************************************)
(* What JobFlow promises about one job, with no processes, no queues and   *)
(* no calls: a state machine over the status column.  Every move names the *)
(* status it starts from, whereas MarkCompleted, MarkFailed and the        *)
(* scheduler's claim update a row without looking at its status.  That     *)
(* they never make a move missing here is what JobFlow has to show.        *)
(***************************************************************************)
EXTENDS JobModel

VARIABLES
  status,    \* status of each job, "none" before it is submitted
  attempts,  \* executions started so far
  limit      \* attempt limit fixed at submission

vars == <<status, attempts, limit>>

Init ==
  /\ status = [j \in JobIds |-> "none"]
  /\ attempts = [j \in JobIds |-> 0]
  /\ limit = [j \in JobIds |-> 0]

Move(j, from, to) ==
  /\ status[j] \in from
  /\ status' = [status EXCEPT ![j] = to]

Submit(j) ==
  /\ \E s \in {"queued", "scheduled"} : Move(j, {"none"}, s)
  /\ limit' \in [JobIds -> Int]
  /\ \A k \in JobIds \ {j} : limit'[k] = limit[k]
  /\ UNCHANGED attempts

\* Scheduled jobs are released in batches.  A job cancelled before it ever
\* ran may be released as well: the claim does not re-check the status.
Release ==
  /\ \E S \in SUBSET JobIds :
       /\ \A j \in S : status[j] \in {"scheduled", "cancelled"}
                         /\ attempts[j] = 0
       /\ status' = [j \in JobIds |-> IF j \in S THEN "queued" ELSE status[j]]
  /\ UNCHANGED <<attempts, limit>>

Start(j) ==
  /\ Move(j, {"queued", "retrying"}, "running")
  /\ attempts' = [attempts EXCEPT ![j] = @ + 1]
  /\ UNCHANGED limit

Complete(j) ==
  /\ Move(j, {"running"}, "completed")
  /\ UNCHANGED <<attempts, limit>>

Fail(j) ==
  /\ \/ attempts[j] < limit[j] /\ Move(j, {"running"}, "retrying")
     \/ attempts[j] >= limit[j] /\ Move(j, {"running"}, "dead_letter")
  /\ UNCHANGED <<attempts, limit>>

Cancel(j) ==
  /\ Move(j, {"queued", "scheduled", "retrying"}, "cancelled")
  /\ UNCHANGED <<attempts, limit>>

\* No move leads to "failed"; a job that had it could be retried as well.
Retry(j) ==
  /\ Move(j, {"failed", "dead_letter"}, "queued")
  /\ UNCHANGED <<attempts, limit>>

Next ==
  \/ Release
  \/ \E j \in JobIds : \/ Submit(j) \/ Start(j) \/ Complete(j) \/ Fail(j)
                       \/ Cancel(j) \/ Retry(j)

Spec == Init /\ [][Next]_vars
=============================================================================
