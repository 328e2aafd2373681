-------------------------- MODULE QueueOrderProofs --------------------------
(***************************************************************************)
(* Proofs about QueueOrder, for any number of jobs, queues, priorities and *)
(* workers: a job is not overtaken by a later one that is no more urgent,  *)
(* and a retry comes when its delay is over, or less than a second before. *)
(***************************************************************************)
EXTENDS QueueOrder, SequenceLemmas

Records == [queue : Range(Queues), prio : Priorities, attempts : Int]

\* The types this argument needs; a job in hand is running, and in one hand only.
Types ==
  /\ place \in [JobIds -> {"none", "ready", "running", "backoff"}]
  /\ row \in [JobIds -> Records \cup {NoRow}]
  /\ \A j \in JobIds : place[j] # "none" => row[j] \in Records
  /\ score \in [JobIds -> Int]
  /\ young \subseteq JobIds
  /\ scan \in [Workers -> Nat]
  /\ wjob \in [Workers -> JobIds \cup {NoJob}]

InHandInv ==
  /\ \A w \in Workers : scan[w] = 0 => wjob[w] \in JobIds /\ place[wjob[w]] = "running"
  /\ \A v, w \in Workers : scan[v] = 0 /\ scan[w] = 0 /\ wjob[v] = wjob[w] => v = w

\* Only waiting jobs are young, or older than others.
WaitingInv ==
  /\ \A j \in young : place[j] = "ready"
  /\ older \subseteq JobIds \X JobIds
  /\ \A k, j \in JobIds : <<k, j>> \in older => place[k] = "ready" /\ place[j] = "ready"

\* A waiting job is no worse than a new one of its priority, and better as soon
\* as time has passed.
AgeInv ==
  \A j \in JobIds : place[j] = "ready" =>
    /\ score[j] <= NewScore(row[j].prio)
    /\ j \notin young => score[j] < NewScore(row[j].prio)

\* So of two jobs the older one is in front, unless it is less urgent.
RankInv ==
  \A k, j \in JobIds :
    <<k, j>> \in older /\ row[k].queue = row[j].queue /\ row[k].prio >= row[j].prio
      => score[k] < score[j]

ServedInv == Types /\ InHandInv /\ WaitingInv /\ AgeInv /\ RankInv

----------------------------------------------------------------------------
(***************************************************************************)
(* Scores                                                                  *)
(***************************************************************************)
\* More urgent jobs start with a lower score.
LEMMA NewScoreDecreases ==
  ASSUME NEW p \in Int, NEW q \in Int, p >= q
  PROVE  NewScore(p) \in Int /\ NewScore(p) <= NewScore(q)
<1>1. Step \in Nat
  BY UnitsAssumption
<1>2. PICK d \in Nat : p = q + d
  <2>1. p - q \in Nat /\ p = q + (p - q)
    OBVIOUS
  <2> QED
    BY <2>1
<1>3. (q + d) * Step = q * Step + d * Step
  BY <1>1
<1>4. d * Step >= 0 /\ d * Step \in Int /\ q * Step \in Int
  BY <1>1
<1> QED
  BY <1>2, <1>3, <1>4 DEF NewScore

\* The scores below that of x in its queue.
LowerScores(x) ==
  {score[k] : k \in {k \in Waiting(row[x].queue) : score[k] < score[x]}}

LEMMA LowerScoresFinite ==
  ASSUME Types, NEW x \in JobIds
  PROVE  /\ IsFiniteSet(LowerScores(x)) /\ Cardinality(LowerScores(x)) \in Nat
         /\ Cardinality(LowerScores(x)) < Cardinality(JobIds)
         /\ Cardinality(JobIds) \in Nat
<1> DEFINE T == {k \in Waiting(row[x].queue) : score[k] < score[x]}
           f == [k \in T |-> score[k]]
<1>1. IsFiniteSet(JobIds) /\ Cardinality(JobIds) \in Nat
  BY FloorAssumption, FS_CardinalityType
<1>2. IsFiniteSet(JobIds \ {x}) /\ Cardinality(JobIds \ {x}) = Cardinality(JobIds) - 1
  BY <1>1, FS_RemoveElement
<1>3. T \in SUBSET (JobIds \ {x})
  BY DEF Types, Waiting
<1>4. IsFiniteSet(T) /\ Cardinality(T) <= Cardinality(JobIds) - 1
  BY <1>2, <1>3, FS_Subset
<1>5. f \in Surjection(T, LowerScores(x))
  BY DEF Surjection, LowerScores
<1> HIDE DEF T, f
<1>6. IsFiniteSet(LowerScores(x)) /\ Cardinality(LowerScores(x)) <= Cardinality(T)
  BY <1>4, <1>5, FS_Surjection
<1>7. Cardinality(LowerScores(x)) \in Nat /\ Cardinality(T) \in Nat
  BY <1>4, <1>6, FS_CardinalityType
<1> QED
  BY <1>1, <1>4, <1>6, <1>7

LEMMA NextScoreIs ==
  ASSUME Types, NEW x \in JobIds
  PROVE  /\ Cardinality(LowerScores(x)) \in Nat /\ score[x] \in Int /\ Floor \in Int
         /\ NextScore(x) = IF score[x] - 1 >= Floor + Cardinality(LowerScores(x))
                             THEN score[x] - 1 ELSE Floor + Cardinality(LowerScores(x))
<1>1. NextScore(x) = Max({score[x] - 1, Floor + Cardinality(LowerScores(x))})
  BY DEF NextScore, LowerScores
<1>2. score[x] - 1 \in Int /\ Floor + Cardinality(LowerScores(x)) \in Int
  BY FloorAssumption, LowerScoresFinite DEF Types
<1>3. Cardinality(LowerScores(x)) \in Nat /\ score[x] \in Int /\ Floor \in Int
  BY FloorAssumption, LowerScoresFinite DEF Types
<1> QED
  BY <1>1, <1>2, <1>3, MaxOfTwo

\* Time makes the score of a waiting job better than that of a new one.
LEMMA NextScoreImproves ==
  ASSUME Types, NEW x \in JobIds, place[x] = "ready", score[x] <= NewScore(row[x].prio)
  PROVE  NextScore(x) \in Int /\ NextScore(x) < NewScore(row[x].prio)
<1>1. row[x].prio \in Priorities /\ row[x].prio \in Int
  BY PrioritiesAssumption DEF Types, Records
<1>2. Floor \in Int /\ Floor + Cardinality(JobIds) <= NewScore(row[x].prio)
  BY <1>1, FloorAssumption DEF NewScore
<1>3. score[x] \in Int /\ NewScore(row[x].prio) \in Int
  BY <1>1, NewScoreDecreases DEF Types
<1>4. PICK c \in Nat, n \in Nat :
        c = Cardinality(LowerScores(x)) /\ n = Cardinality(JobIds) /\ c < n
  BY LowerScoresFinite
<1>5. NextScore(x) = IF score[x] - 1 >= Floor + c THEN score[x] - 1 ELSE Floor + c
  BY <1>4, NextScoreIs
<1>6. Floor + n <= NewScore(row[x].prio)
  BY <1>2, <1>4
<1> QED
  BY <1>2, <1>3, <1>4, <1>5, <1>6

\* Time keeps the order of the scores of a queue, also at the lower end.
LEMMA NextScoreKeepsOrder ==
  ASSUME Types, NEW x \in JobIds, NEW y \in JobIds, place[x] = "ready",
         row[x].queue = row[y].queue, score[x] < score[y]
  PROVE  NextScore(x) < NextScore(y)
<1>1. LowerScores(x) \cup {score[x]} \in SUBSET LowerScores(y)
  <2>1. \A k \in JobIds : score[k] \in Int
    BY DEF Types
  <2>2. x \in Waiting(row[y].queue)
    BY DEF Waiting
  <2>3. \A k \in Waiting(row[x].queue) : k \in JobIds /\ k \in Waiting(row[y].queue)
    BY DEF Waiting
  <2>4. \A k \in Waiting(row[x].queue) : score[k] < score[x] => score[k] < score[y]
    BY <2>1, <2>3
  <2> QED
    BY <2>2, <2>3, <2>4 DEF LowerScores
<1>2. score[x] \notin LowerScores(x)
  BY DEF LowerScores, Types, Waiting
<1>3. Cardinality(LowerScores(x) \cup {score[x]}) = Cardinality(LowerScores(x)) + 1
  BY <1>2, LowerScoresFinite, FS_AddElement
<1>4. Cardinality(LowerScores(x)) + 1 <= Cardinality(LowerScores(y))
  BY <1>1, <1>3, LowerScoresFinite, FS_Subset
<1>5. score[x] \in Int /\ score[y] \in Int /\ Floor \in Int
  BY NextScoreIs
<1>6. PICK c \in Nat, d \in Nat :
        c = Cardinality(LowerScores(x)) /\ d = Cardinality(LowerScores(y)) /\ c + 1 <= d
  BY <1>4, NextScoreIs
<1>7. /\ NextScore(x) = IF score[x] - 1 >= Floor + c THEN score[x] - 1 ELSE Floor + c
      /\ NextScore(y) = IF score[y] - 1 >= Floor + d THEN score[y] - 1 ELSE Floor + d
  BY <1>6, NextScoreIs
<1> QED
  BY <1>5, <1>6, <1>7

----------------------------------------------------------------------------
(***************************************************************************)
(* Actions                                                                 *)
(***************************************************************************)
LEMMA QueueIndexes == DOMAIN Queues \subseteq Nat \ {0} /\ Len(Queues) \in Nat
  BY QueuesAssumption

\* A job that comes is last of its priority: what has waited for a tick is in
\* front of it.
LEMMA EnqueueKeeps ==
  ASSUME ServedInv, NEW j \in JobIds, NEW r \in Records,
         place[j] \notin {"ready", "running"}, Enqueue(j, r), UNCHANGED workerVars
  PROVE  ServedInv'
<1> USE DEF ServedInv
<1>1. /\ place' = [place EXCEPT ![j] = "ready"]
      /\ row' = [row EXCEPT ![j] = r]
      /\ score' = [score EXCEPT ![j] = NewScore(r.prio)]
      /\ young' = young \cup {j}
      /\ older' = older \cup ({k \in JobIds : place[k] = "ready" /\ k \notin young} \X {j})
      /\ UNCHANGED <<scan, wjob>>
  BY DEF Enqueue, workerVars
<1>2. r.prio \in Priorities /\ r.prio \in Int
  BY PrioritiesAssumption DEF Records
<1>3. NewScore(r.prio) \in Int
  BY <1>2, NewScoreDecreases
<1>4. Types'
  BY <1>1, <1>3 DEF Types
<1>5. InHandInv'
  BY <1>1 DEF InHandInv, Types
<1>6. WaitingInv'
  BY <1>1 DEF WaitingInv, Types
<1>7. AgeInv'
  <2> SUFFICES ASSUME NEW k \in JobIds, place'[k] = "ready"
               PROVE  /\ score'[k] <= NewScore(row'[k].prio)
                      /\ k \notin young' => score'[k] < NewScore(row'[k].prio)
    BY DEF AgeInv, NewScore
  <2>1. CASE k = j
    BY <1>1, <1>3, <2>1 DEF Types
  <2>2. CASE k # j
    BY <1>1, <2>2 DEF AgeInv, Types
  <2> QED
    BY <2>1, <2>2
<1>8. RankInv'
  <2> SUFFICES ASSUME NEW k \in JobIds, NEW i \in JobIds, <<k, i>> \in older',
                      row'[k].queue = row'[i].queue, row'[k].prio >= row'[i].prio
               PROVE  score'[k] < score'[i]
    BY DEF RankInv
  <2>1. CASE i = j
    <3>1. <<k, j>> \notin older /\ place[k] = "ready" /\ k \notin young /\ k # j
      BY <1>1, <2>1 DEF WaitingInv, Types
    <3>2. row'[k] = row[k] /\ score'[k] = score[k] /\ row'[j] = r /\ score'[j] = NewScore(r.prio)
      BY <1>1, <3>1 DEF Types
    <3>3. score[k] < NewScore(row[k].prio) /\ row[k].prio \in Int /\ score[k] \in Int
      BY <3>1, PrioritiesAssumption DEF AgeInv, Types, Records
    <3>4. NewScore(row[k].prio) \in Int /\ NewScore(row[k].prio) <= NewScore(r.prio)
      BY <1>2, <2>1, <3>2, <3>3, NewScoreDecreases
    <3> QED
      BY <1>3, <2>1, <3>2, <3>3, <3>4
  <2>2. CASE i # j
    <3>1. <<k, i>> \in older /\ k # j
      BY <1>1, <2>2 DEF WaitingInv
    <3> QED
      BY <1>1, <2>2, <3>1 DEF RankInv, Types
  <2> QED
    BY <2>1, <2>2
<1> QED
  BY <1>4, <1>5, <1>6, <1>7, <1>8

LEMMA TakeKeeps ==
  ASSUME ServedInv, NEW w \in Workers, NEW j \in JobIds, TakeJob(w, j)
  PROVE  ServedInv'
<1> USE DEF ServedInv
<1>1. /\ place[j] = "ready" /\ scan[w] # 0
      /\ place' = [place EXCEPT ![j] = "running"]
      /\ row' = [row EXCEPT ![j].attempts = @ + 1]
      /\ score' = [score EXCEPT ![j] = 0]
      /\ young' = young \ {j}
      /\ older' = {p \in older : j \notin Range(p)}
      /\ scan' = [scan EXCEPT ![w] = 0]
      /\ wjob' = [wjob EXCEPT ![w] = j]
  BY QueueIndexes DEF TakeJob, PopMin, Waiting
<1>2. row[j] \in Records
  BY <1>1 DEF Types
<1>3. row' = [row EXCEPT ![j] = [row[j] EXCEPT !.attempts = row[j].attempts + 1]]
  BY <1>1 DEF Types
<1>4. [row[j] EXCEPT !.attempts = row[j].attempts + 1] \in Records
  BY <1>2 DEF Records
<1>5. \A k \in JobIds : k # j =>
        row'[k] = row[k] /\ score'[k] = score[k] /\ place'[k] = place[k]
  BY <1>1, <1>3 DEF Types
<1>6. \A k, i \in JobIds : <<k, i>> \in older' => <<k, i>> \in older /\ k # j /\ i # j
  <2>1. \A k, i \in JobIds : Range(<<k, i>>) = {k, i}
    BY DEF Range
  <2> QED
    BY <1>1, <2>1
<1>7. Types'
  BY <1>1, <1>3, <1>4 DEF Types
<1>8. InHandInv'
  BY <1>1 DEF InHandInv, Types
<1>9. WaitingInv'
  BY <1>1, <1>5, <1>6 DEF WaitingInv, Types
<1>10. AgeInv'
  <2>1. \A k \in JobIds : place'[k] = "ready" => k # j
    BY <1>1 DEF Types
  <2> QED
    BY <1>1, <1>5, <2>1 DEF AgeInv, NewScore
<1>11. RankInv'
  BY <1>5, <1>6 DEF RankInv
<1> QED
  BY <1>7, <1>8, <1>9, <1>10, <1>11

LEMMA EndKeeps ==
  ASSUME ServedInv, NEW w \in Workers, EndJob(w)
  PROVE  ServedInv'
<1> USE DEF ServedInv
<1>1. PICK j \in JobIds : j = wjob[w] /\ place[j] = "running" /\ scan[w] = 0
  BY DEF EndJob, InHandInv
<1>2. PICK where \in {"none", "backoff"}, r \in Records \cup {NoRow} :
        /\ place' = [place EXCEPT ![j] = where]
        /\ row' = [row EXCEPT ![j] = r]
        /\ where # "none" => r \in Records
  <2>1. CASE place' = [place EXCEPT ![j] = "none"] /\ row' = [row EXCEPT ![j] = NoRow]
    BY <2>1
  <2>2. CASE place' = [place EXCEPT ![j] = "backoff"] /\ row' = row
    <3>1. row' = [row EXCEPT ![j] = row[j]] /\ row[j] \in Records
      BY <1>1, <2>2 DEF Types
    <3> QED
      BY <2>2, <3>1
  <2> QED
    BY <1>1, <2>1, <2>2 DEF EndJob
<1>3. /\ scan' = [scan EXCEPT ![w] = 1]
      /\ wjob' = [wjob EXCEPT ![w] = NoJob]
      /\ UNCHANGED <<score, young, older>>
  BY DEF EndJob
<1>4. \A k \in JobIds : k # j => place'[k] = place[k] /\ row'[k] = row[k]
  BY <1>2 DEF Types
<1>5. Types'
  BY <1>2, <1>3 DEF Types
<1>6. InHandInv'
  BY <1>1, <1>2, <1>3 DEF InHandInv, Types
<1>7. WaitingInv'
  BY <1>1, <1>2, <1>3, <1>4 DEF WaitingInv, Types
<1>8. AgeInv'
  <2>1. \A k \in JobIds : place'[k] = "ready" => k # j /\ place[k] = "ready"
    BY <1>2, <1>4 DEF Types
  <2> QED
    BY <1>3, <1>4, <2>1 DEF AgeInv, NewScore
<1>9. RankInv'
  <2>1. \A k, i \in JobIds : <<k, i>> \in older => k # j /\ i # j
    BY <1>1 DEF WaitingInv
  <2> QED
    BY <1>3, <1>4, <2>1 DEF RankInv
<1> QED
  BY <1>5, <1>6, <1>7, <1>8, <1>9

LEMMA ScanKeeps ==
  ASSUME ServedInv, UNCHANGED <<jobVars, wjob>>,
         \/ scan' = scan
         \/ \E w \in Workers : NextQueue(w) \/ Resume(w) \/ DequeueFails(w)
  PROVE  ServedInv'
<1> USE DEF ServedInv
<1>1. Types' /\ InHandInv'
  <2>1. CASE scan' = scan
    BY <2>1 DEF Types, InHandInv, jobVars
  <2>2. ASSUME NEW w \in Workers, NextQueue(w) \/ Resume(w) \/ DequeueFails(w)
        PROVE  Types' /\ InHandInv'
    <3>1. PICK n \in Nat \ {0} : scan' = [scan EXCEPT ![w] = n] /\ scan[w] # 0
      BY <2>2, QueueIndexes DEF NextQueue, Resume, DequeueFails, Types
    <3> QED
      BY <3>1 DEF Types, InHandInv, jobVars
  <2> QED
    BY <2>1, <2>2
<1>2. WaitingInv' /\ AgeInv' /\ RankInv'
  BY DEF WaitingInv, AgeInv, RankInv, jobVars, NewScore
<1> QED
  BY <1>1, <1>2

\* Time makes every waiting job better than new ones, and keeps their order.
LEMMA TimeKeeps ==
  ASSUME ServedInv, TimePasses
  PROVE  ServedInv'
<1> USE DEF ServedInv
<1>1. /\ score' = [j \in JobIds |-> IF place[j] = "ready" THEN NextScore(j) ELSE 0]
      /\ young' = {}
      /\ UNCHANGED <<place, row, older, scan, wjob>>
  BY DEF TimePasses, workerVars
<1>2. ASSUME NEW k \in JobIds, place[k] = "ready"
      PROVE  NextScore(k) \in Int /\ NextScore(k) < NewScore(row[k].prio)
             /\ NewScore(row[k].prio) \in Int
  <2>1. score[k] <= NewScore(row[k].prio)
    BY <1>2 DEF AgeInv
  <2>2. row[k].prio \in Int
    BY <1>2, PrioritiesAssumption DEF Types, Records
  <2> QED
    BY <1>2, <2>1, <2>2, NextScoreImproves, NewScoreDecreases
<1>3. Types' /\ InHandInv' /\ WaitingInv'
  BY <1>1, <1>2 DEF Types, InHandInv, WaitingInv
<1>4. AgeInv'
  BY <1>1, <1>2 DEF AgeInv, NewScore
<1>5. RankInv'
  <2> SUFFICES ASSUME NEW k \in JobIds, NEW i \in JobIds, <<k, i>> \in older,
                      row[k].queue = row[i].queue, row[k].prio >= row[i].prio
               PROVE  score'[k] < score'[i]
    BY <1>1 DEF RankInv
  <2>1. place[k] = "ready" /\ place[i] = "ready" /\ score[k] < score[i]
    BY DEF WaitingInv, RankInv
  <2>2. NextScore(k) < NextScore(i)
    BY <2>1, NextScoreKeepsOrder
  <2> QED
    BY <1>1, <2>1, <2>2
<1> QED
  BY <1>3, <1>4, <1>5

----------------------------------------------------------------------------
(***************************************************************************)
(* Theorems                                                                *)
(***************************************************************************)
LEMMA ServedCorrect == Spec => []ServedInv
<1>1. Init => ServedInv
  BY DEF Init, ServedInv, Types, InHandInv, WaitingInv, AgeInv, RankInv
<1>2. ServedInv /\ [Next]_orderVars => ServedInv'
  <2> SUFFICES ASSUME ServedInv, [Next]_orderVars PROVE ServedInv'
    OBVIOUS
  <2>1. CASE TimePasses
    BY <2>1, TimeKeeps
  <2>2. ASSUME NEW j \in JobIds, NEW q \in Range(Queues), NEW p \in Priorities,
               CreateJob(j, q, p)
        PROVE  ServedInv'
    <3>1. [queue |-> q, prio |-> p, attempts |-> 0] \in Records
      BY DEF Records
    <3> QED
      BY <2>2, <3>1, EnqueueKeeps DEF CreateJob
  <2>3. ASSUME NEW j \in JobIds, PromoteRetry(j) PROVE ServedInv'
    <3>1. place[j] = "backoff" /\ row[j] \in Records
      BY <2>3 DEF PromoteRetry, ServedInv, Types
    <3> QED
      BY <2>3, <3>1, EnqueueKeeps DEF PromoteRetry
  <2>4. ASSUME NEW w \in Workers, WorkerStep(w) \/ DequeueFails(w) PROVE ServedInv'
    <3>1. ASSUME NEW j \in JobIds, TakeJob(w, j) PROVE ServedInv'
      BY <3>1, TakeKeeps
    <3>2. CASE EndJob(w)
      BY <3>2, EndKeeps
    <3>3. CASE NextQueue(w) \/ Resume(w) \/ DequeueFails(w)
      <4>1. UNCHANGED <<jobVars, wjob>>
        BY <3>3 DEF NextQueue, Resume, DequeueFails
      <4> QED
        BY <3>3, <4>1, ScanKeeps
    <3> QED
      BY <2>4, <3>1, <3>2, <3>3 DEF WorkerStep
  <2>5. CASE UNCHANGED orderVars
    BY <2>5, ScanKeeps DEF orderVars, workerVars
  <2> QED
    BY <2>1, <2>2, <2>3, <2>4, <2>5 DEF Next
<1> QED
  BY <1>1, <1>2, PTL DEF Spec

\* Within a queue nobody is overtaken by a job that came later and is no more
\* urgent, for any number of jobs, queues, priorities and workers, however far
\* apart the priorities are (RedisQueue.Enqueue and Dequeue).
THEOREM ServedInOrder == Spec => FirstComeFirstServed
<1>1. ServedInv /\ [Next]_orderVars =>
        [\A w \in Workers, j, k \in JobIds :
           TakeJob(w, j) /\ <<k, j>> \in older /\ row[k].queue = row[j].queue
           => row[k].prio < row[j].prio]_orderVars
  <2> SUFFICES ASSUME ServedInv, NEW w \in Workers, NEW j \in JobIds, NEW k \in JobIds,
                      TakeJob(w, j), <<k, j>> \in older, row[k].queue = row[j].queue
               PROVE  row[k].prio < row[j].prio
    OBVIOUS
  <2>1. place[k] = "ready" /\ place[j] = "ready"
    BY DEF ServedInv, WaitingInv
  <2>2. score[j] <= score[k]
    BY <2>1 DEF TakeJob, PopMin, Waiting
  <2>3. /\ row[k].prio \in Int /\ row[j].prio \in Int
        /\ score[j] \in Int /\ score[k] \in Int
    BY <2>1, PrioritiesAssumption DEF ServedInv, Types, Records
  <2>4. row[k].prio >= row[j].prio => score[k] < score[j]
    BY DEF ServedInv, RankInv
  <2> QED
    BY <2>2, <2>3, <2>4
<1> QED
  BY <1>1, ServedCorrect, PTL DEF Spec, FirstComeFirstServed

----------------------------------------------------------------------------
(***************************************************************************)
(* Backoff                                                                 *)
(***************************************************************************)
\* How far the wait of a job has got.  While its history counts, the seconds that
\* are left and the ticks that have passed add up to the delay, but for the part
\* of a second that EnqueueAfter has cut off.
BackingOff(j) ==
  LET delay == Delay(j) * Second
  IN  /\ waited[j] <= delay
      /\ waited[j] < delay =>
           delay - entry[j] * Second + phase - waited[j] \in 0..(Second - 1)
      /\ waited[j] = delay => entry[j] = 0

\* Attempts grow when a job is taken, which is when it has some left.
JobInv(j) ==
  /\ row[j] \in Rows \cup {NoRow}
  /\ place[j] # "none" => row[j] \in Rows
  /\ place[j] = "ready" => row[j].attempts < MaxAttempts
  /\ place[j] = "running" => row[j].attempts >= 1
  /\ place[j] = "backoff" => row[j].attempts \in 1..(MaxAttempts - 1) /\ BackingOff(j)

ClockTypes ==
  /\ entry \in [JobIds -> Nat]
  /\ waited \in [JobIds -> Nat]
  /\ phase \in 0..(Second - 1)
  /\ scan \in [Workers -> 0..(Len(Queues) + 1)]
  /\ errorsLeft \in 0..MaxErrors

WaitInv == ClockTypes /\ \A j \in JobIds : JobInv(j)

\* A power of two counts the subsets of a set.
LEMMA PowerOfTwo ==
  ASSUME NEW n \in Nat
  PROVE  2^n \in Nat \ {0}
<1>1. IsFiniteSet(1..n) /\ Cardinality(1..n) = n
  <2>1. IsFiniteSet(1..n) /\ Cardinality(1..n) = IF 1 > n THEN 0 ELSE n - 1 + 1
    BY FS_Interval
  <2> QED
    BY <2>1
<1>2. IsFiniteSet(SUBSET (1..n)) /\ Cardinality(SUBSET (1..n)) = 2^Cardinality(1..n)
  BY <1>1, FS_SUBSET
<1>3. SUBSET (1..n) # {}
  OBVIOUS
<1>4. Cardinality(SUBSET (1..n)) \in Nat /\ Cardinality(SUBSET (1..n)) # 0
  BY <1>2, <1>3, FS_CardinalityType, FS_EmptySet
<1> QED
  BY <1>1, <1>2, <1>4

LEMMA DelayPositive ==
  ASSUME NEW j \in JobIds, row[j] \in Rows, row[j].attempts >= 1
  PROVE  Delay(j) \in Nat \ {0}
<1>1. row[j].attempts - 1 \in Nat
  BY BoundsAssumption DEF Rows
<1> QED
  BY <1>1, PowerOfTwo DEF Delay

\* Whole seconds in ticks.
LEMMA SecondsInTicks ==
  ASSUME NEW e \in Nat
  PROVE  /\ e * Second \in Nat
         /\ e = 0 => e * Second = 0
         /\ e >= 1 => (e - 1) * Second = e * Second - Second /\ e * Second >= Second
         /\ e >= 2 => e * Second >= Second + Second
<1> DEFINE n == Second
<1>1. n \in Nat \ {0} /\ Second = n
  BY UnitsAssumption
<1> HIDE DEF n
<1>2. e * n \in Nat
  BY <1>1
<1>3. CASE e = 0
  BY <1>1, <1>3
<1>4. CASE e >= 1
  <2>1. PICK d \in Nat : e = d + 1
    <3>1. e - 1 \in Nat /\ e = (e - 1) + 1
      BY <1>4
    <3> QED
      BY <3>1
  <2>2. (d + 1) * n = d * n + n /\ d * n \in Nat
    BY <1>1
  <2>3. d >= 1 => d * n >= n
    BY <1>1
  <2>4. e - 1 = d
    BY <2>1
  <2> QED
    BY <1>1, <2>1, <2>2, <2>3, <2>4
<1> QED
  BY <1>1, <1>2, <1>3, <1>4

\* The second a delay of d seconds ends in, whatever the phase.
LEMMA EndOfDelay ==
  ASSUME NEW d \in Nat, NEW p \in 0..(Second - 1)
  PROVE  (p + d * Second) \div Second = d
<1> DEFINE n == Second
           q == (p + d * Second) \div Second
<1>1. n \in Nat \ {0} /\ Second = n
  BY UnitsAssumption
<1>2. d * n \in Nat
  BY <1>1
<1>3. q \in Int /\ n * q <= p + d * n /\ p + d * n < n * q + n
  BY <1>1, <1>2
<1> HIDE DEF n, q
<1>4. q <= d
  <2> SUFFICES ASSUME q >= d + 1 PROVE FALSE
    BY <1>3
  <2>1. n * q >= n * (d + 1)
    BY <1>1, <1>3
  <2>2. n * (d + 1) = d * n + n
    BY <1>1
  <2> QED
    BY <1>1, <1>2, <1>3, <2>1, <2>2
<1>5. q >= d
  <2> SUFFICES ASSUME q + 1 <= d PROVE FALSE
    BY <1>3
  <2>1. n * (q + 1) <= n * d
    BY <1>1, <1>3
  <2>2. n * (q + 1) = n * q + n /\ n * d = d * n
    BY <1>1, <1>3
  <2> QED
    BY <1>1, <1>2, <1>3, <2>1, <2>2
<1> QED
  BY <1>3, <1>4, <1>5 DEF q

\* A job whose part of the state does not change.
LEMMA JobFrame ==
  ASSUME NEW j \in JobIds, JobInv(j), phase' = phase,
         place'[j] = place[j], row'[j] = row[j], entry'[j] = entry[j], waited'[j] = waited[j]
  PROVE  JobInv(j)'
BY DEF JobInv, BackingOff, Delay, Rows, NoRow

LEMMA EnqueueWaits ==
  ASSUME WaitInv, Types, NEW j \in JobIds, NEW r \in Rows, r.attempts < MaxAttempts,
         Enqueue(j, r), entry' \in [JobIds -> Nat], waited' \in [JobIds -> Nat],
         \A k \in JobIds : k # j => entry'[k] = entry[k] /\ waited'[k] = waited[k],
         UNCHANGED <<workerVars, phase, errorsLeft>>
  PROVE  WaitInv'
<1>1. /\ place' = [place EXCEPT ![j] = "ready"]
      /\ row' = [row EXCEPT ![j] = r]
  BY DEF Enqueue
<1>2. place'[j] = "ready" /\ row'[j] = r
  BY <1>1 DEF Types
<1>3. JobInv(j)'
  BY <1>2 DEF JobInv, Rows
<1>4. ASSUME NEW k \in JobIds, k # j PROVE JobInv(k)'
  BY <1>1, <1>4, JobFrame DEF WaitInv, Types
<1>5. ClockTypes'
  BY DEF WaitInv, ClockTypes, workerVars
<1> QED
  BY <1>3, <1>4, <1>5 DEF WaitInv

LEMMA TakeWaits ==
  ASSUME WaitInv, Types, NEW w \in Workers, NEW j \in JobIds, TakeJob(w, j)
  PROVE  WaitInv'
<1>1. /\ place[j] = "ready"
      /\ place' = [place EXCEPT ![j] = "running"]
      /\ row' = [row EXCEPT ![j].attempts = @ + 1]
      /\ scan' = [scan EXCEPT ![w] = 0]
      /\ UNCHANGED <<entry, waited, phase, errorsLeft>>
  BY DEF TakeJob, Waiting
<1>2. row[j] \in Rows /\ row[j].attempts \in 0..(MaxAttempts - 1)
  BY <1>1, BoundsAssumption DEF WaitInv, JobInv, Rows
<1>3. place'[j] = "running" /\ row'[j] = [row[j] EXCEPT !.attempts = row[j].attempts + 1]
  BY <1>1 DEF Types
<1>4. row'[j] \in Rows /\ row'[j].attempts >= 1
  BY <1>2, <1>3, BoundsAssumption DEF Rows
<1>5. JobInv(j)'
  BY <1>3, <1>4 DEF JobInv, Rows
<1>6. ASSUME NEW k \in JobIds, k # j PROVE JobInv(k)'
  BY <1>1, <1>6, JobFrame DEF WaitInv, Types
<1>7. ClockTypes'
  BY <1>1, QueuesAssumption DEF WaitInv, ClockTypes
<1> QED
  BY <1>5, <1>6, <1>7 DEF WaitInv

LEMMA EndWaits ==
  ASSUME WaitInv, Types, InHandInv, NEW w \in Workers, EndJob(w)
  PROVE  WaitInv'
<1>1. PICK j \in JobIds : j = wjob[w] /\ place[j] = "running" /\ scan[w] = 0
  BY DEF EndJob, InHandInv
<1>2. /\ scan' = [scan EXCEPT ![w] = 1]
      /\ UNCHANGED <<phase, errorsLeft>>
  BY DEF EndJob
<1>3. row[j] \in Rows /\ row[j].attempts >= 1 /\ row[j].attempts \in Nat
  BY <1>1, BoundsAssumption DEF WaitInv, JobInv, Rows
<1>4. CASE /\ place' = [place EXCEPT ![j] = "none"]
           /\ row' = [row EXCEPT ![j] = NoRow]
           /\ UNCHANGED <<entry, waited>>
  <2>1. JobInv(j)'
    BY <1>4 DEF JobInv, Types, NoRow
  <2>2. ASSUME NEW k \in JobIds, k # j PROVE JobInv(k)'
    BY <1>2, <1>4, <2>2, JobFrame DEF WaitInv, Types
  <2>3. ClockTypes'
    BY <1>2, <1>4, QueuesAssumption DEF WaitInv, ClockTypes
  <2> QED
    BY <2>1, <2>2, <2>3 DEF WaitInv
<1>5. CASE /\ row[j].attempts < MaxAttempts
           /\ place' = [place EXCEPT ![j] = "backoff"]
           /\ EnqueueAfter(j)
           /\ UNCHANGED row
  <2>1. PICK d \in Nat \ {0} : d = Delay(j)
    BY <1>3, DelayPositive
  <2>2. entry' = [entry EXCEPT ![j] = d] /\ waited' = [waited EXCEPT ![j] = 0]
    BY <1>5, <2>1, EndOfDelay DEF EnqueueAfter, WaitInv, ClockTypes
  <2>3. entry'[j] = d /\ waited'[j] = 0 /\ row'[j] = row[j] /\ place'[j] = "backoff"
    BY <1>5, <2>2 DEF WaitInv, ClockTypes, Types
  <2>4. d * Second \in Nat /\ d * Second > 0 /\ phase \in 0..(Second - 1) /\ Second \in Nat
    BY <2>1, SecondsInTicks, UnitsAssumption DEF WaitInv, ClockTypes
  <2>5. Delay(j)' = d
    BY <2>1, <2>3 DEF Delay
  <2>6. BackingOff(j)'
    BY <1>2, <2>3, <2>4, <2>5 DEF BackingOff
  <2>7. JobInv(j)'
    BY <1>3, <1>5, <2>3, <2>6, BoundsAssumption DEF JobInv, Rows
  <2>8. ASSUME NEW k \in JobIds, k # j PROVE JobInv(k)'
    BY <1>2, <1>5, <2>2, <2>8, JobFrame DEF WaitInv, Types, ClockTypes
  <2>9. ClockTypes'
    BY <1>2, <2>2, QueuesAssumption DEF WaitInv, ClockTypes
  <2> QED
    BY <2>7, <2>8, <2>9 DEF WaitInv
<1> QED
  BY <1>1, <1>4, <1>5 DEF EndJob

\* A tick: a second that ends takes one off every entry.
LEMMA TimeWaits ==
  ASSUME WaitInv, Types, TimePasses
  PROVE  WaitInv'
<1> DEFINE n == Second
<1>1. /\ n \in Nat \ {0} /\ Second = n /\ phase \in 0..(n - 1)
      /\ phase' = (phase + 1) % n
      /\ UNCHANGED <<place, row, scan, errorsLeft>>
  BY UnitsAssumption DEF TimePasses, WaitInv, ClockTypes, workerVars
<1> HIDE DEF n
<1>2. phase' \in 0..(n - 1) /\ phase' = IF phase + 1 = n THEN 0 ELSE phase + 1
  <2>1. CASE phase + 1 = n
    <3>1. n % n = 0
      BY <1>1
    <3> QED
      BY <1>1, <2>1, <3>1
  <2>2. CASE phase + 1 # n
    <3>1. phase + 1 \in 0..(n - 1)
      BY <1>1, <2>2
    <3> QED
      BY <1>1, <2>2, <3>1
  <2> QED
    BY <2>1, <2>2
<1>3. /\ entry' = [j \in JobIds |-> IF phase' = 0 /\ entry[j] > 0 THEN entry[j] - 1
                                                                  ELSE entry[j]]
      /\ waited' = [j \in JobIds |->
                      IF place[j] = "backoff" /\ waited[j] < Delay(j) * Second
                        THEN waited[j] + 1 ELSE waited[j]]
  BY DEF TimePasses
<1>4. ClockTypes'
  <2>1. entry' \in [JobIds -> Nat] /\ waited' \in [JobIds -> Nat]
    BY <1>3 DEF WaitInv, ClockTypes
  <2> QED
    BY <1>1, <1>2, <2>1 DEF WaitInv, ClockTypes
<1>5. ASSUME NEW j \in JobIds PROVE JobInv(j)'
  <2>1. CASE place[j] # "backoff"
    BY <1>1, <1>5, <2>1 DEF JobInv, WaitInv
  <2>2. CASE place[j] = "backoff"
    <3>1. JobInv(j) /\ row[j] \in Rows /\ row[j].attempts \in 1..(MaxAttempts - 1)
      BY <2>2 DEF WaitInv, JobInv
    <3>2. PICK d \in Nat \ {0} : d = Delay(j)
      BY <3>1, DelayPositive
    <3>3. PICK e \in Nat, t \in Nat : e = entry[j] /\ t = waited[j]
      BY DEF WaitInv, ClockTypes
    <3>4. PICK dn \in Nat, en \in Nat : dn = d * n /\ en = e * n
      BY <1>1, <3>2, SecondsInTicks
    <3>5. /\ t <= dn
          /\ t < dn => dn - en + phase - t \in 0..(n - 1)
          /\ t = dn => e = 0
      BY <1>1, <2>2, <3>1, <3>2, <3>3, <3>4 DEF JobInv, BackingOff
    <3>6. /\ e = 0 => en = 0
          /\ e >= 1 => (e - 1) * n = en - n /\ en >= n
          /\ e >= 2 => en >= n + n
      BY <1>1, <3>4, SecondsInTicks
    <3>7. /\ entry'[j] = IF phase + 1 = n /\ e > 0 THEN e - 1 ELSE e
          /\ waited'[j] = IF t < dn THEN t + 1 ELSE t
      BY <1>1, <1>2, <1>3, <2>2, <3>2, <3>3, <3>4
    <3>8. Delay(j)' = d
      BY <1>1, <3>2 DEF Delay
    <3>9. BackingOff(j)'
      <4>1. CASE t = dn
        BY <1>1, <3>4, <3>5, <3>7, <3>8, <4>1 DEF BackingOff
      <4>2. CASE t < dn /\ phase + 1 = n
        <5>1. e >= 1
          BY <1>1, <3>5, <3>6, <4>2
        <5>2. waited'[j] = t + 1 /\ entry'[j] = e - 1 /\ phase' = 0
          BY <1>1, <1>2, <3>7, <4>2, <5>1
        <5>3. (e - 1) * n = en - n
          BY <3>6, <5>1
        <5>4. t + 1 = dn => e - 1 = 0
          BY <1>1, <3>5, <3>6, <4>2, <5>1
        <5>5. dn - (en - n) + 0 - (t + 1) \in 0..(n - 1)
          BY <1>1, <3>5, <4>2
        <5> QED
          BY <1>1, <3>4, <3>8, <4>2, <5>2, <5>3, <5>4, <5>5 DEF BackingOff
      <4>3. CASE t < dn /\ phase + 1 < n
        <5>1. waited'[j] = t + 1 /\ entry'[j] = e /\ phase' = phase + 1
          BY <1>1, <1>2, <3>7, <4>3
        <5>2. t + 1 = dn => e = 0
          BY <1>1, <3>5, <3>6, <4>3
        <5>3. dn - en + (phase + 1) - (t + 1) \in 0..(n - 1)
          BY <1>1, <3>5, <4>3
        <5> QED
          BY <1>1, <3>4, <3>8, <4>3, <5>1, <5>2, <5>3 DEF BackingOff
      <4> QED
        BY <1>1, <3>5, <4>1, <4>2, <4>3
    <3> QED
      BY <1>1, <2>2, <3>1, <3>9 DEF JobInv
  <2> QED
    BY <2>1, <2>2
<1> QED
  BY <1>4, <1>5 DEF WaitInv

LEMMA WaitStep == WaitInv /\ ServedInv /\ [Next]_orderVars => WaitInv'
<1> SUFFICES ASSUME WaitInv, ServedInv, [Next]_orderVars PROVE WaitInv'
  OBVIOUS
<1> USE DEF ServedInv
<1>1. CASE TimePasses
  BY <1>1, TimeWaits
<1>2. ASSUME NEW j \in JobIds, NEW q \in Range(Queues), NEW p \in Priorities,
             CreateJob(j, q, p)
      PROVE  WaitInv'
  <2>1. [queue |-> q, prio |-> p, attempts |-> 0] \in Rows
    BY BoundsAssumption DEF Rows
  <2> QED
    BY <1>2, <2>1, EnqueueWaits, BoundsAssumption DEF CreateJob, WaitInv, ClockTypes
<1>3. ASSUME NEW j \in JobIds, PromoteRetry(j) PROVE WaitInv'
  <2>1. row[j] \in Rows /\ row[j].attempts < MaxAttempts
    BY <1>3, BoundsAssumption DEF PromoteRetry, WaitInv, JobInv, Rows
  <2>2. /\ entry' \in [JobIds -> Nat] /\ waited' \in [JobIds -> Nat]
        /\ \A k \in JobIds : k # j => entry'[k] = entry[k] /\ waited'[k] = waited[k]
    BY <1>3 DEF PromoteRetry, WaitInv, ClockTypes
  <2> QED
    BY <1>3, <2>1, <2>2, EnqueueWaits DEF PromoteRetry
<1>4. ASSUME NEW w \in Workers, NEW j \in JobIds, TakeJob(w, j) PROVE WaitInv'
  BY <1>4, TakeWaits
<1>5. ASSUME NEW w \in Workers, EndJob(w) PROVE WaitInv'
  BY <1>5, EndWaits
<1>6. ASSUME \/ UNCHANGED orderVars
             \/ \E w \in Workers : NextQueue(w) \/ Resume(w) \/ DequeueFails(w)
      PROVE  WaitInv'
  <2>1. UNCHANGED <<place, row, entry, waited, phase>>
    BY <1>6 DEF NextQueue, Resume, DequeueFails, jobVars, orderVars
  <2>2. \A j \in JobIds : JobInv(j)'
    BY <2>1, JobFrame DEF WaitInv
  <2>3. scan' \in [Workers -> 0..(Len(Queues) + 1)]
    <3>0. Len(Queues) \in Nat \ {0} /\ scan \in [Workers -> 0..(Len(Queues) + 1)]
      BY QueuesAssumption DEF WaitInv, ClockTypes
    <3>1. ASSUME NEW w \in Workers, NextQueue(w)
          PROVE  scan' \in [Workers -> 0..(Len(Queues) + 1)]
      <4>1. scan[w] \in 1..Len(Queues)
        BY <3>1, QueuesAssumption DEF NextQueue
      <4>2. PICK n \in 0..(Len(Queues) + 1) : n = scan[w] + 1
        BY <3>0, <4>1
      <4>3. scan' = [scan EXCEPT ![w] = n]
        BY <3>1, <4>2 DEF NextQueue
      <4> QED
        BY <3>0, <4>3
    <3>2. ASSUME NEW w \in Workers, Resume(w) \/ DequeueFails(w)
          PROVE  scan' \in [Workers -> 0..(Len(Queues) + 1)]
      BY <3>0, <3>2 DEF Resume, DequeueFails
    <3>3. CASE UNCHANGED orderVars
      BY <3>0, <3>3 DEF orderVars, workerVars
    <3> QED
      BY <1>6, <3>1, <3>2, <3>3
  <2>4. errorsLeft' \in 0..MaxErrors
    BY <1>6, BoundsAssumption
       DEF NextQueue, Resume, DequeueFails, orderVars, WaitInv, ClockTypes
  <2>5. ClockTypes'
    BY <2>1, <2>3, <2>4 DEF WaitInv, ClockTypes
  <2> QED
    BY <2>2, <2>5 DEF WaitInv
<1> QED
  BY <1>1, <1>2, <1>3, <1>4, <1>5, <1>6 DEF Next, WorkerStep

LEMMA WaitInit == Init => WaitInv
  BY QueuesAssumption, UnitsAssumption, BoundsAssumption
     DEF Init, WaitInv, ClockTypes, JobInv

\* For any length of a second and any number of attempts, whenever in a second a
\* job backs off: its retry is due when the delay is over (RedisQueue.EnqueueAfter
\* and PromoteRetries), and never more than a second before.
THEOREM QueueOrderCorrect == Spec => []OrderInv
<1>1. WaitInv /\ ServedInv => BackoffWithinASecond
  <2> SUFFICES ASSUME WaitInv, NEW j \in JobIds, place[j] = "backoff"
               PROVE  /\ waited[j] >= Delay(j) * Second => Due(j)
                      /\ Due(j) => waited[j] > (Delay(j) - 1) * Second
    BY DEF BackoffWithinASecond
  <2>1. JobInv(j) /\ row[j] \in Rows /\ row[j].attempts >= 1
    BY BoundsAssumption DEF WaitInv, JobInv, Rows
  <2>2. PICK d \in Nat \ {0} : d = Delay(j)
    BY <2>1, DelayPositive
  <2>3. d * Second \in Nat /\ (d - 1) * Second = d * Second - Second /\ 0 * Second = 0
    BY SecondsInTicks
  <2>4. entry[j] \in Nat /\ waited[j] \in Nat /\ phase \in 0..(Second - 1)
        /\ Second \in Nat \ {0}
    BY UnitsAssumption DEF WaitInv, ClockTypes
  <2>5. /\ waited[j] <= d * Second
        /\ waited[j] < d * Second =>
             d * Second - entry[j] * Second + phase - waited[j] \in 0..(Second - 1)
        /\ waited[j] = d * Second => entry[j] = 0
    BY <2>1, <2>2 DEF JobInv, BackingOff
  <2>6. waited[j] >= d * Second => Due(j)
    BY <2>3, <2>4, <2>5 DEF Due
  <2>7. ASSUME entry[j] = 0 PROVE waited[j] > (d - 1) * Second
    BY <2>3, <2>4, <2>5, <2>7
  <2> QED
    BY <2>2, <2>4, <2>6, <2>7 DEF Due
<1>2. WaitInv /\ ServedInv => TypeOK
  <2> SUFFICES ASSUME WaitInv, ServedInv PROVE TypeOK
    OBVIOUS
  <2>1. row \in [JobIds -> Rows \cup {NoRow}]
    BY DEF WaitInv, JobInv, ServedInv, Types
  <2> QED
    BY <2>1 DEF WaitInv, ClockTypes, ServedInv, Types, WaitingInv, TypeOK
<1> QED
  BY <1>1, <1>2, ServedCorrect, WaitInit, WaitStep, PTL DEF Spec, OrderInv
=============================================================================
