---------------------------- MODULE RedisQueue ----------------------------
(***************************************************************************)
(* The Redis keys of internal/queue: one sorted set per queue name, the    *)
(* sorted set scheduled:retries, and the list queue:dead-letter.  A job id *)
(* is a member of a sorted set at most once, so the ready queues are a set *)
(* of ids (an id's queue is the one stored in its row).  Scores are left   *)
(* out: which of the waiting ids ZPOPMIN returns is any of them, and a     *)
(* retry's score is only known to lie in the future or in the past.        *)
(***************************************************************************)
EXTENDS JobModel

VARIABLES
  ready,    \* the members of the sorted sets queue:<name>
  retries,  \* score of each member of scheduled:retries against the clock
  dlq       \* how often each id occurs in the list queue:dead-letter

redisVars == <<ready, retries, dlq>>

RedisTypeOK ==
  /\ ready \in SUBSET JobIds
  /\ retries \in [JobIds -> {"absent", "waiting", "due"}]
  /\ dlq \in [JobIds -> Nat]

RedisInit ==
  /\ ready = {}
  /\ retries = [j \in JobIds |-> "absent"]
  /\ dlq = [j \in JobIds |-> 0]

\* ZADD queue:<name>
Enqueue(j) ==
  /\ ready' = ready \cup {j}
  /\ UNCHANGED <<retries, dlq>>

\* ZADD scheduled:retries with the score now + delay; an old score is lost.
EnqueueAfter(j) ==
  /\ retries' = [retries EXCEPT ![j] = "waiting"]
  /\ UNCHANGED <<ready, dlq>>

\* Mutant: ZRANGEBYSCORE with the upper bound +inf.
AllRetries == {j \in JobIds : retries[j] # "absent"}

\* ZRANGEBYSCORE scheduled:retries -inf now
DueRetries == {j \in JobIds : retries[j] = "due"}

\* ZREM scheduled:retries, whatever the member's score is by now
RemoveRetry(j) ==
  /\ retries' = [retries EXCEPT ![j] = "absent"]
  /\ UNCHANGED <<ready, dlq>>

\* ZPOPMIN queue:<name>
Pop(j) ==
  /\ j \in ready
  /\ ready' = ready \ {j}
  /\ UNCHANGED <<retries, dlq>>

\* LPUSH queue:dead-letter; nothing ever removes an entry
DeadLetter(j) ==
  /\ dlq' = [dlq EXCEPT ![j] = @ + 1]
  /\ UNCHANGED <<ready, retries>>

\* The clock passes the score of j in scheduled:retries.
BackoffElapses(j) ==
  /\ retries[j] = "waiting"
  /\ retries' = [retries EXCEPT ![j] = "due"]
  /\ UNCHANGED <<ready, dlq>>
=============================================================================
