-------------------------- MODULE WorkerRegistry --------------------------
(***************************************************************************)
(* The workers table and the worker processes that keep it: the heartbeat  *)
(* loop of Pool.Start, the counters that Pool.handle increments, stops by  *)
(* signal and by crash (internal/worker/pool.go,                           *)
(* internal/repository/worker_repository.go).                              *)
(*                                                                         *)
(* A row's id is the worker id of the process, which is configured or made *)
(* from host name and time; the column is a UUID, so a statement with an   *)
(* id that is none is rejected.  Every error is ignored by the callers.    *)
(***************************************************************************)
EXTENDS Integers, FiniteSets

CONSTANTS
  Processes,
  Ids,         \* worker ids
  IdOf,        \* the worker id of each process
  Uuids,       \* the ids PostgreSQL accepts as UUIDs
  FaultKinds,  \* "database", "late", "crash"
  MaxFaults,   \* bound on faults
  MaxJobs      \* bound on the outcomes per process and kind

ASSUME IdOfAssumption == IdOf \in [Processes -> Ids]
ASSUME UuidsAssumption == Uuids \subseteq Ids
ASSUME BoundsAssumption == MaxFaults \in Nat /\ MaxJobs \in Nat

Kinds == {"processed", "failed"}

VARIABLES
  row,       \* status of a worker's row: "absent", "online" or "offline"
  counter,   \* jobs_processed and jobs_failed of each row
  ppc,       \* where Pool.Start is: "down", "beating", "waiting", "stopping"
  tocount,   \* outcomes recorded by handle and not counted yet
  late,      \* an online heartbeat, given up by the process, that the server
             \* may still execute
  outcomes,  \* history: outcomes recorded under each id
  uncounted, \* history: those whose counting failed or was given up
  early,     \* history: those counted before their worker had a row
  faultsLeft

registryVars == <<row, counter, ppc, tocount, late, outcomes, uncounted,
                  early, faultsLeft>>

TypeOK ==
  /\ row \in [Ids -> {"absent", "online", "offline"}]
  /\ counter \in [Ids -> [Kinds -> Nat]]
  /\ ppc \in [Processes -> {"down", "beating", "waiting", "stopping"}]
  /\ tocount \in [Processes -> [Kinds -> Nat]]
  /\ late \in SUBSET Processes
  /\ outcomes \in [Ids -> [Kinds -> Nat]]
  /\ uncounted \in [Ids -> [Kinds -> Nat]]
  /\ early \in [Ids -> [Kinds -> Nat]]
  /\ faultsLeft \in Nat

None == [k \in Kinds |-> 0]

Init ==
  /\ row = [i \in Ids |-> "absent"]
  /\ counter = [i \in Ids |-> None]
  /\ ppc = [p \in Processes |-> "down"]
  /\ tocount = [p \in Processes |-> None]
  /\ late = {}
  /\ outcomes = [i \in Ids |-> None]
  /\ uncounted = [i \in Ids |-> None]
  /\ early = [i \in Ids |-> None]
  /\ faultsLeft = MaxFaults

Fault(kind) ==
  /\ kind \in FaultKinds
  /\ faultsLeft > 0
  /\ faultsLeft' = faultsLeft - 1

Up(p) == ppc[p] # "down"

----------------------------------------------------------------------------
(***************************************************************************)
(* Statements of WorkerRepository                                          *)
(***************************************************************************)
\* INSERT ... ON CONFLICT DO UPDATE.  An id that is no UUID is an error.
Heartbeat(i, status) ==
  row' = IF i \in Uuids THEN [row EXCEPT ![i] = status] ELSE row

\* Mutant: a failed job is counted as processed, too.
CountBoth(i, kind) ==
  counter' = IF row[i] = "absent" THEN counter
             ELSE [counter EXCEPT ![i] = [k \in Kinds |->
                     IF k \in {kind, "processed"} THEN @[k] + 1 ELSE @[k]]]

\* UPDATE ... WHERE id = $1: without a row nothing is counted.
IncrementProcessed(i, kind) ==
  counter' = IF row[i] = "absent" THEN counter
             ELSE [counter EXCEPT ![i][kind] = @ + 1]

----------------------------------------------------------------------------
(***************************************************************************)
(* Pool.Start                                                              *)
(***************************************************************************)
\* A process starts: the worker goroutines run before the first heartbeat.
StartProcess(p) ==
  /\ ppc[p] = "down"
  /\ p \notin late
  /\ ppc' = [ppc EXCEPT ![p] = "beating"]
  /\ UNCHANGED <<row, counter, tocount, late, outcomes, uncounted, early,
                 faultsLeft>>

\* The online heartbeat at the top of the loop; its error is ignored.
Beat(p) ==
  /\ ppc[p] = "beating"
  /\ ppc' = [ppc EXCEPT ![p] = "waiting"]
  /\ \/ Heartbeat(IdOf[p], "online") /\ UNCHANGED faultsLeft
     \/ Fault("database") /\ UNCHANGED row
  /\ UNCHANGED <<counter, tocount, late, outcomes, uncounted, early>>

\* Mutant: the ticker is not looked at again.
TickNever(p) == ppc[p] = "waiting" /\ UNCHANGED registryVars

\* Five seconds have passed.
Tick(p) ==
  /\ ppc[p] = "waiting"
  /\ ppc' = [ppc EXCEPT ![p] = "beating"]
  /\ UNCHANGED <<row, counter, tocount, late, outcomes, uncounted, early,
                 faultsLeft>>

\* SIGINT or SIGTERM cancels the context.  A heartbeat under way returns with
\* an error; the server may execute it all the same, even after the next
\* statement, which goes through another connection.
Signal(p) ==
  /\ ppc[p] \in {"beating", "waiting"}
  /\ ppc' = [ppc EXCEPT ![p] = "stopping"]
  /\ \/ UNCHANGED <<late, faultsLeft>>
     \/ /\ ppc[p] = "beating"
        /\ Fault("late")
        /\ late' = late \cup {p}
  /\ UNCHANGED <<row, counter, tocount, outcomes, uncounted, early>>

LateBeat(p) ==
  /\ p \in late
  /\ late' = late \ {p}
  /\ Heartbeat(IdOf[p], "online")
  /\ UNCHANGED <<counter, ppc, tocount, outcomes, uncounted, early,
                 faultsLeft>>

\* The process is gone; what its goroutines had not counted is not counted.
Exit(p) ==
  /\ ppc' = [ppc EXCEPT ![p] = "down"]
  /\ tocount' = [tocount EXCEPT ![p] = None]
  /\ uncounted' = [uncounted EXCEPT ![IdOf[p]] =
                     [k \in Kinds |-> @[k] + tocount[p][k]]]
  /\ UNCHANGED <<counter, late, outcomes, early>>

\* Mutant: the last heartbeat uses the cancelled context.
StopWithCancelledContext(p) ==
  /\ ppc[p] = "stopping"
  /\ Exit(p)
  /\ UNCHANGED <<row, faultsLeft>>

\* The offline heartbeat, with a context of its own; Start and main return.
Stop(p) ==
  /\ ppc[p] = "stopping"
  /\ Exit(p)
  /\ \/ Heartbeat(IdOf[p], "offline") /\ UNCHANGED faultsLeft
     \/ Fault("database") /\ UNCHANGED row

\* The process is killed.
Crash(p) ==
  /\ Up(p)
  /\ Fault("crash")
  /\ Exit(p)
  /\ UNCHANGED row

----------------------------------------------------------------------------
(***************************************************************************)
(* Pool.handle                                                             *)
(***************************************************************************)
\* An outcome has been written to the jobs table.  With a cancelled context it
\* is not, so a process that stops adds none.
FinishJob(p, kind) ==
  /\ ppc[p] \in {"beating", "waiting"}
  /\ outcomes[IdOf[p]][kind] < MaxJobs
  /\ outcomes' = [outcomes EXCEPT ![IdOf[p]][kind] = @ + 1]
  /\ tocount' = [tocount EXCEPT ![p][kind] = @ + 1]
  /\ UNCHANGED <<row, counter, ppc, late, uncounted, early, faultsLeft>>

\* The goroutine calls IncrementProcessed; errors are ignored.
CountJob(p, kind) ==
  /\ tocount[p][kind] > 0
  /\ tocount' = [tocount EXCEPT ![p][kind] = @ - 1]
  /\ \/ /\ ppc[p] # "stopping"
        /\ IncrementProcessed(IdOf[p], kind)
        /\ early' = IF row[IdOf[p]] = "absent"
                      THEN [early EXCEPT ![IdOf[p]][kind] = @ + 1]
                      ELSE early
        /\ UNCHANGED <<uncounted, faultsLeft>>
     \/ /\ IF ppc[p] = "stopping" THEN UNCHANGED faultsLeft ELSE Fault("database")
        /\ uncounted' = [uncounted EXCEPT ![IdOf[p]][kind] = @ + 1]
        /\ UNCHANGED <<counter, early>>
  /\ UNCHANGED <<row, ppc, late, outcomes>>

----------------------------------------------------------------------------
ProcessStep(p) ==
  \/ Beat(p) \/ Tick(p) \/ Stop(p)
  \/ \E k \in Kinds : CountJob(p, k)

Next ==
  \E p \in Processes :
    \/ ProcessStep(p) \/ StartProcess(p) \/ Signal(p) \/ Crash(p) \/ LateBeat(p)
    \/ \E k \in Kinds : FinishJob(p, k)

Spec == Init /\ [][Next]_registryVars

\* The ticker fires and goroutines are scheduled; nobody has to start or stop a
\* process or give it work.  A statement the server still has comes to an end.
Fairness ==
  \A p \in Processes :
    /\ WF_registryVars(Beat(p)) /\ WF_registryVars(Tick(p))
    /\ WF_registryVars(Stop(p)) /\ WF_registryVars(LateBeat(p))
    /\ WF_registryVars(\E k \in Kinds : CountJob(p, k))

FairSpec == Spec /\ Fairness

----------------------------------------------------------------------------
(***************************************************************************)
(* Properties                                                              *)
(***************************************************************************)
OfId(i) == {p \in Processes : IdOf[p] = i}

\* The outcomes the processes of worker id i have still to count, one by one.
ToCount(i, k) == UNION {{p} \X (1..tocount[p][k]) : p \in OfId(i)}

\* Every outcome is accounted for exactly once: it is counted in its worker's
\* row, or is going to be, or it was counted too early or not at all.  Processes
\* with one id share a row and may count at the same time.
OutcomesAccounted ==
  \A i \in Ids, k \in Kinds :
    outcomes[i][k] = counter[i][k] + early[i][k] + uncounted[i][k]
                       + Cardinality(ToCount(i, k))

\* The same with the types: rows say online or offline, and counters count.
RegistryInv == TypeOK /\ OutcomesAccounted

\* A process that stays up is shown online again and again, even if another
\* one with the same id has signed off or a late statement has come in.
UpIsShownOnline ==
  \A p \in Processes :
    IdOf[p] \in Uuids /\ <>[](ppc[p] \in {"beating", "waiting"})
      => []<>(row[IdOf[p]] = "online")

\* After a stop by signal the row goes offline, unless another process with the
\* same id is up, or the one offline heartbeat fails, or an online one is late.
StoppedIsShownOffline ==
  \A p \in Processes :
    IdOf[p] \in Uuids /\ [](faultsLeft = MaxFaults)
        /\ <>[](\A q \in OfId(IdOf[p]) : ~Up(q))
      => <>[](row[IdOf[p]] # "online")
=============================================================================
