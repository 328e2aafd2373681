--------------------------- MODULE RegistryProofs ---------------------------
(***************************************************************************)
(* Proofs about WorkerRegistry, for any processes, worker ids and faults:  *)
(* rows stay well-formed and every outcome is accounted for exactly once.  *)
(***************************************************************************)
EXTENDS WorkerRegistry, FiniteSetTheorems, TLAPS

\* What makes the account inductive: what is still to be counted is finite.
AccountInv ==
  /\ TypeOK
  /\ \A i \in Ids, k \in Kinds : IsFiniteSet(ToCount(i, k))
  /\ OutcomesAccounted

----------------------------------------------------------------------------
\* A heartbeat leaves well-formed rows, whatever its id is.
LEMMA HeartbeatTypes ==
  ASSUME TypeOK, NEW i \in Ids, NEW s \in {"online", "offline"}, Heartbeat(i, s)
  PROVE  row' \in [Ids -> {"absent", "online", "offline"}]
BY DEF TypeOK, Heartbeat

\* An outcome of a process is not one of another process.
LEMMA ToCountMeans ==
  ASSUME NEW i \in Ids, NEW k \in Kinds, NEW x
  PROVE  x \in ToCount(i, k) <=>
           \E p \in Processes : /\ IdOf[p] = i
                                /\ x \in {p} \X (1..tocount[p][k])
BY DEF ToCount, OfId

\* A count ends in the row, too early, or in vain, and in one of them only.
LEMMA CountJobEnds ==
  ASSUME TypeOK, NEW p \in Processes, NEW kind \in Kinds, CountJob(p, kind)
  PROVE  /\ counter' \in [Ids -> [Kinds -> Nat]]
         /\ early' \in [Ids -> [Kinds -> Nat]]
         /\ uncounted' \in [Ids -> [Kinds -> Nat]]
         /\ \A i \in Ids, k \in Kinds :
              counter'[i][k] + early'[i][k] + uncounted'[i][k]
                = counter[i][k] + early[i][k] + uncounted[i][k]
                    + IF i = IdOf[p] /\ k = kind THEN 1 ELSE 0
<1> DEFINE bumped(f) == [f EXCEPT ![IdOf[p]][kind] = @ + 1]
<1>1. /\ counter \in [Ids -> [Kinds -> Nat]] /\ early \in [Ids -> [Kinds -> Nat]]
      /\ uncounted \in [Ids -> [Kinds -> Nat]] /\ IdOf[p] \in Ids
  BY IdOfAssumption DEF TypeOK
<1>2. \/ counter' = bumped(counter) /\ early' = early /\ uncounted' = uncounted
      \/ early' = bumped(early) /\ counter' = counter /\ uncounted' = uncounted
      \/ uncounted' = bumped(uncounted) /\ counter' = counter /\ early' = early
  <2>1. CASE row[IdOf[p]] = "absent"
    BY <2>1, Zenon DEF CountJob, IncrementProcessed
  <2>2. CASE row[IdOf[p]] # "absent"
    BY <2>2, Zenon DEF CountJob, IncrementProcessed
  <2> QED
    BY <2>1, <2>2
<1>3. ASSUME NEW f \in [Ids -> [Kinds -> Nat]]
      PROVE  /\ bumped(f) \in [Ids -> [Kinds -> Nat]]
             /\ \A i \in Ids, k \in Kinds :
                  bumped(f)[i][k] = f[i][k] + IF i = IdOf[p] /\ k = kind THEN 1 ELSE 0
  BY <1>1, <1>3
<1> HIDE DEF bumped
<1>4. CASE counter' = bumped(counter) /\ early' = early /\ uncounted' = uncounted
  <2>1. ASSUME NEW i \in Ids, NEW k \in Kinds
        PROVE  /\ counter[i][k] \in Nat /\ early[i][k] \in Nat /\ uncounted[i][k] \in Nat
               /\ counter'[i][k] = counter[i][k] + IF i = IdOf[p] /\ k = kind THEN 1 ELSE 0
    BY <1>1, <1>3, <1>4
  <2>2. counter' \in [Ids -> [Kinds -> Nat]]
    BY <1>1, <1>3, <1>4
  <2>3. ASSUME NEW i \in Ids, NEW k \in Kinds
        PROVE  counter'[i][k] + early'[i][k] + uncounted'[i][k]
                 = counter[i][k] + early[i][k] + uncounted[i][k]
                     + IF i = IdOf[p] /\ k = kind THEN 1 ELSE 0
    BY <1>4, <2>1
  <2> QED
    BY <1>1, <1>4, <2>2, <2>3
<1>5. CASE early' = bumped(early) /\ counter' = counter /\ uncounted' = uncounted
  <2>1. ASSUME NEW i \in Ids, NEW k \in Kinds
        PROVE  /\ counter[i][k] \in Nat /\ early[i][k] \in Nat /\ uncounted[i][k] \in Nat
               /\ early'[i][k] = early[i][k] + IF i = IdOf[p] /\ k = kind THEN 1 ELSE 0
    BY <1>1, <1>3, <1>5
  <2>2. early' \in [Ids -> [Kinds -> Nat]]
    BY <1>1, <1>3, <1>5
  <2>3. ASSUME NEW i \in Ids, NEW k \in Kinds
        PROVE  counter'[i][k] + early'[i][k] + uncounted'[i][k]
                 = counter[i][k] + early[i][k] + uncounted[i][k]
                     + IF i = IdOf[p] /\ k = kind THEN 1 ELSE 0
    BY <1>5, <2>1
  <2> QED
    BY <1>1, <1>5, <2>2, <2>3
<1>6. CASE uncounted' = bumped(uncounted) /\ counter' = counter /\ early' = early
  <2>1. ASSUME NEW i \in Ids, NEW k \in Kinds
        PROVE  /\ counter[i][k] \in Nat /\ early[i][k] \in Nat /\ uncounted[i][k] \in Nat
               /\ uncounted'[i][k] = uncounted[i][k] + IF i = IdOf[p] /\ k = kind THEN 1 ELSE 0
    BY <1>1, <1>3, <1>6
  <2>2. uncounted' \in [Ids -> [Kinds -> Nat]]
    BY <1>1, <1>3, <1>6
  <2>3. ASSUME NEW i \in Ids, NEW k \in Kinds
        PROVE  counter'[i][k] + early'[i][k] + uncounted'[i][k]
                 = counter[i][k] + early[i][k] + uncounted[i][k]
                     + IF i = IdOf[p] /\ k = kind THEN 1 ELSE 0
    BY <1>6, <2>1
  <2> QED
    BY <1>1, <1>6, <2>2, <2>3
<1> QED
  BY <1>2, <1>4, <1>5, <1>6

----------------------------------------------------------------------------
(***************************************************************************)
(* Types                                                                   *)
(***************************************************************************)
LEMMA TypeInit == Init => TypeOK
BY BoundsAssumption DEF Init, TypeOK, None, Kinds

LEMMA TypeExit ==
  ASSUME TypeOK, NEW p \in Processes, Exit(p),
         row' \in [Ids -> {"absent", "online", "offline"}], faultsLeft' \in Nat
  PROVE  TypeOK'
<1>1. None \in [Kinds -> Nat]
  BY DEF None
<1>2. [k \in Kinds |-> uncounted[IdOf[p]][k] + tocount[p][k]] \in [Kinds -> Nat]
  BY IdOfAssumption DEF TypeOK
<1> QED
  BY <1>1, <1>2, IdOfAssumption DEF TypeOK, Exit

LEMMA TypeStep == TypeOK /\ [Next]_registryVars => TypeOK'
<1> SUFFICES ASSUME TypeOK, [Next]_registryVars PROVE TypeOK'
  OBVIOUS
<1> USE IdOfAssumption
<1>1. ASSUME NEW p \in Processes, StartProcess(p) PROVE TypeOK'
  BY <1>1 DEF StartProcess, TypeOK
<1>2. ASSUME NEW p \in Processes, Beat(p) PROVE TypeOK'
  <2>1. row' \in [Ids -> {"absent", "online", "offline"}] /\ faultsLeft' \in Nat
    BY <1>2, HeartbeatTypes DEF Beat, Fault, TypeOK
  <2> QED
    BY <1>2, <2>1 DEF Beat, TypeOK
<1>3. ASSUME NEW p \in Processes, Tick(p) PROVE TypeOK'
  BY <1>3 DEF Tick, TypeOK
<1>4. ASSUME NEW p \in Processes, Signal(p) PROVE TypeOK'
  BY <1>4 DEF Signal, Fault, TypeOK
<1>5. ASSUME NEW p \in Processes, LateBeat(p) PROVE TypeOK'
  <2>1. row' \in [Ids -> {"absent", "online", "offline"}]
    BY <1>5, HeartbeatTypes DEF LateBeat
  <2> QED
    BY <1>5, <2>1 DEF LateBeat, TypeOK
<1>6. ASSUME NEW p \in Processes, Stop(p) PROVE TypeOK'
  <2>1. row' \in [Ids -> {"absent", "online", "offline"}] /\ faultsLeft' \in Nat
    BY <1>6, HeartbeatTypes DEF Stop, Fault, TypeOK
  <2> QED
    BY <1>6, <2>1, TypeExit DEF Stop
<1>7. ASSUME NEW p \in Processes, Crash(p) PROVE TypeOK'
  BY <1>7, TypeExit DEF Crash, Fault, TypeOK
<1>8. ASSUME NEW p \in Processes, NEW k \in Kinds, FinishJob(p, k) PROVE TypeOK'
  BY <1>8 DEF FinishJob, TypeOK
<1>9. ASSUME NEW p \in Processes, NEW k \in Kinds, CountJob(p, k) PROVE TypeOK'
  <2>1. tocount' \in [Processes -> [Kinds -> Nat]]
    BY <1>9 DEF CountJob, TypeOK
  <2>2. /\ counter' \in [Ids -> [Kinds -> Nat]]
        /\ early' \in [Ids -> [Kinds -> Nat]]
        /\ uncounted' \in [Ids -> [Kinds -> Nat]]
    BY <1>9, CountJobEnds
  <2>3. faultsLeft' \in Nat
    BY <1>9 DEF CountJob, Fault, TypeOK
  <2> QED
    BY <1>9, <2>1, <2>2, <2>3 DEF CountJob, TypeOK
<1>10. CASE UNCHANGED registryVars
  BY <1>10 DEF registryVars, TypeOK
<1> QED
  BY <1>1, <1>2, <1>3, <1>4, <1>5, <1>6, <1>7, <1>8, <1>9, <1>10
     DEF Next, ProcessStep

----------------------------------------------------------------------------
(***************************************************************************)
(* The account of the outcomes                                             *)
(***************************************************************************)
\* Steps that count nothing.
LEMMA AccountFrame ==
  ASSUME AccountInv, UNCHANGED <<counter, tocount, outcomes, uncounted, early>>
  PROVE  OutcomesAccounted' /\ \A i \in Ids, k \in Kinds : IsFiniteSet(ToCount(i, k))'
BY DEF AccountInv, OutcomesAccounted, ToCount

\* A process goes: what it had still to count is not counted.
LEMMA AccountExit ==
  ASSUME AccountInv, NEW p \in Processes, Exit(p), NEW i \in Ids, NEW k \in Kinds
  PROVE  /\ IsFiniteSet(ToCount(i, k)')
         /\ outcomes'[i][k] = counter'[i][k] + early'[i][k] + uncounted'[i][k]
                                + Cardinality(ToCount(i, k)')
<1> DEFINE gone == {p} \X (1..tocount[p][k])
           old == ToCount(i, k)
           new == ToCount(i, k)'
<1>1. tocount[p][k] \in Nat /\ uncounted[i][k] \in Nat
  BY DEF AccountInv, TypeOK
<1>2. /\ IsFiniteSet(old) /\ Cardinality(old) \in Nat
      /\ outcomes[i][k] = counter[i][k] + early[i][k] + uncounted[i][k] + Cardinality(old)
  BY FS_CardinalityType DEF AccountInv, OutcomesAccounted
<1>3. \A q \in Processes : tocount'[q][k] = IF q = p THEN 0 ELSE tocount[q][k]
  BY DEF Exit, None, AccountInv, TypeOK
<1>4. ASSUME NEW x
      PROVE  x \in new <=> \E q \in Processes : /\ IdOf[q] = i
                                                /\ x \in {q} \X (1..tocount'[q][k])
  BY DEF ToCount, OfId
<1>5. CASE IdOf[p] # i
  <2>1. uncounted'[i][k] = uncounted[i][k]
    BY <1>5, IdOfAssumption DEF Exit, AccountInv, TypeOK
  <2>2. \A x : x \in new <=> x \in old
    BY <1>3, <1>4, <1>5, ToCountMeans
  <2>3. new = old
    BY <2>2
  <2> QED
    BY <1>2, <2>1, <2>3 DEF Exit
<1>6. CASE IdOf[p] = i
  <2>1. uncounted'[i][k] = uncounted[i][k] + tocount[p][k]
    BY <1>6, IdOfAssumption DEF Exit, AccountInv, TypeOK
  <2>2. \A x : x \in new <=> x \in old /\ x \notin gone
    <3> TAKE x
    <3>1. ASSUME x \in new PROVE x \in old /\ x \notin gone
      <4>1. PICK q \in Processes : IdOf[q] = i /\ x \in {q} \X (1..tocount'[q][k])
        BY <1>4, <3>1
      <4>2. q # p
        BY <1>3, <4>1
      <4> QED
        BY <1>3, <4>1, <4>2, ToCountMeans
    <3>2. ASSUME x \in old, x \notin gone PROVE x \in new
      <4>1. PICK q \in Processes : IdOf[q] = i /\ x \in {q} \X (1..tocount[q][k])
        BY <3>2, ToCountMeans
      <4> QED
        BY <1>3, <1>4, <3>2, <4>1
    <3> QED
      BY <3>1, <3>2
  <2>3. gone \subseteq old
    BY <1>6, ToCountMeans
  <2>4. new = old \ gone /\ old \cap gone = gone
    BY <2>2, <2>3
  <2>5. Cardinality(gone) = tocount[p][k]
    <3>1. IsFiniteSet({p}) /\ Cardinality({p}) = 1
      BY FS_Singleton
    <3>2. ASSUME NEW n \in Nat PROVE IsFiniteSet(1..n) /\ Cardinality(1..n) = n
      <4>1. IsFiniteSet(1..n) /\ Cardinality(1..n) = IF 1 > n THEN 0 ELSE n - 1 + 1
        BY FS_Interval
      <4> QED
        BY <4>1
    <3>3. Cardinality(gone) = Cardinality({p}) * Cardinality(1..tocount[p][k])
      BY <1>1, <3>1, <3>2, FS_Product
    <3> HIDE DEF gone
    <3> QED
      BY <1>1, <3>1, <3>2, <3>3
  <2> HIDE DEF gone, old, new
  <2>6. IsFiniteSet(new) /\ Cardinality(new) = Cardinality(old) - tocount[p][k]
    <3>1. /\ IsFiniteSet(old \ gone)
          /\ Cardinality(old \ gone) = Cardinality(old) - Cardinality(old \cap gone)
      BY <1>2, FS_Difference
    <3> QED
      BY <2>4, <2>5, <3>1
  <2>7. /\ counter'[i][k] = counter[i][k] /\ early'[i][k] = early[i][k]
        /\ outcomes'[i][k] = outcomes[i][k]
        /\ counter[i][k] \in Nat /\ early[i][k] \in Nat
    BY DEF Exit, AccountInv, TypeOK
  <2>8. outcomes'[i][k] = counter'[i][k] + early'[i][k] + uncounted'[i][k]
                            + Cardinality(new)
    BY <1>1, <1>2, <2>1, <2>6, <2>7
  <2> QED
    BY <2>6, <2>8 DEF new
<1> QED
  BY <1>5, <1>6

\* An outcome more is one more to count.
LEMMA AccountFinish ==
  ASSUME AccountInv, NEW p \in Processes, NEW kind \in Kinds, FinishJob(p, kind),
         NEW i \in Ids, NEW k \in Kinds
  PROVE  /\ IsFiniteSet(ToCount(i, k)')
         /\ outcomes'[i][k] = counter'[i][k] + early'[i][k] + uncounted'[i][k]
                                + Cardinality(ToCount(i, k)')
<1> DEFINE old == ToCount(i, k)
           new == ToCount(i, k)'
           one == <<p, tocount[p][k] + 1>>
<1>1. /\ IsFiniteSet(old) /\ Cardinality(old) \in Nat
      /\ outcomes[i][k] = counter[i][k] + early[i][k] + uncounted[i][k] + Cardinality(old)
  BY FS_CardinalityType DEF AccountInv, OutcomesAccounted
<1>2. \A q \in Processes : /\ tocount[q][k] \in Nat
                           /\ tocount'[q][k] = IF q = p /\ k = kind THEN tocount[q][k] + 1
                                                                    ELSE tocount[q][k]
  BY DEF FinishJob, AccountInv, TypeOK
<1>3. ASSUME NEW x
      PROVE  x \in new <=> \E q \in Processes : /\ IdOf[q] = i
                                                /\ x \in {q} \X (1..tocount'[q][k])
  BY DEF ToCount, OfId
<1>4. /\ counter'[i][k] = counter[i][k] /\ early'[i][k] = early[i][k]
      /\ uncounted'[i][k] = uncounted[i][k]
      /\ counter[i][k] \in Nat /\ early[i][k] \in Nat /\ uncounted[i][k] \in Nat
      /\ outcomes[i][k] \in Nat
  BY DEF FinishJob, AccountInv, TypeOK
<1>5. CASE ~(IdOf[p] = i /\ k = kind)
  <2>1. outcomes'[i][k] = outcomes[i][k]
    BY <1>5, IdOfAssumption DEF FinishJob, AccountInv, TypeOK
  <2>2. \A x : x \in new <=> x \in old
    BY <1>2, <1>3, <1>5, ToCountMeans
  <2>3. new = old
    BY <2>2
  <2> QED
    BY <1>1, <1>4, <2>1, <2>3
<1>6. CASE IdOf[p] = i /\ k = kind
  <2>1. outcomes'[i][k] = outcomes[i][k] + 1
    BY <1>6, IdOfAssumption DEF FinishJob, AccountInv, TypeOK
  <2>2. one \notin old
    BY <1>2, ToCountMeans
  <2>3. \A x : x \in new <=> x \in old \/ x = one
    <3> TAKE x
    <3>1. 1..(tocount[p][k] + 1) = (1..tocount[p][k]) \cup {tocount[p][k] + 1}
      BY <1>2
    <3>2. {p} \X (1..tocount'[p][k]) = ({p} \X (1..tocount[p][k])) \cup {one}
      BY <1>2, <1>6, <3>1
    <3> QED
      BY <1>2, <1>3, <1>6, <3>2, ToCountMeans
  <2>4. new = old \cup {one}
    BY <2>3
  <2> HIDE DEF new, old, one
  <2>5. IsFiniteSet(new) /\ Cardinality(new) = Cardinality(old) + 1
    BY <1>1, <2>2, <2>4, FS_AddElement
  <2>6. outcomes'[i][k] = counter'[i][k] + early'[i][k] + uncounted'[i][k]
                            + Cardinality(new)
    BY <1>1, <1>4, <2>1, <2>5
  <2> QED
    BY <2>5, <2>6 DEF new
<1> QED
  BY <1>5, <1>6

\* What is counted, too early or in vain is no longer to be counted.
LEMMA AccountCount ==
  ASSUME AccountInv, NEW p \in Processes, NEW kind \in Kinds, CountJob(p, kind),
         NEW i \in Ids, NEW k \in Kinds
  PROVE  /\ IsFiniteSet(ToCount(i, k)')
         /\ outcomes'[i][k] = counter'[i][k] + early'[i][k] + uncounted'[i][k]
                                + Cardinality(ToCount(i, k)')
<1> DEFINE old == ToCount(i, k)
           new == ToCount(i, k)'
           one == <<p, tocount[p][k]>>
<1>1. /\ IsFiniteSet(old) /\ Cardinality(old) \in Nat
      /\ outcomes[i][k] = counter[i][k] + early[i][k] + uncounted[i][k] + Cardinality(old)
  BY FS_CardinalityType DEF AccountInv, OutcomesAccounted
<1>2. \A q \in Processes : /\ tocount[q][k] \in Nat
                           /\ tocount'[q][k] = IF q = p /\ k = kind THEN tocount[q][k] - 1
                                                                    ELSE tocount[q][k]
  BY DEF CountJob, AccountInv, TypeOK
<1>3. ASSUME NEW x
      PROVE  x \in new <=> \E q \in Processes : /\ IdOf[q] = i
                                                /\ x \in {q} \X (1..tocount'[q][k])
  BY DEF ToCount, OfId
<1>4. /\ counter[i][k] \in Nat /\ early[i][k] \in Nat /\ uncounted[i][k] \in Nat
      /\ outcomes[i][k] \in Nat /\ outcomes'[i][k] = outcomes[i][k]
  BY DEF CountJob, AccountInv, TypeOK
<1>5. /\ counter'[i][k] \in Nat /\ early'[i][k] \in Nat /\ uncounted'[i][k] \in Nat
      /\ counter'[i][k] + early'[i][k] + uncounted'[i][k]
           = counter[i][k] + early[i][k] + uncounted[i][k]
               + IF i = IdOf[p] /\ k = kind THEN 1 ELSE 0
  BY CountJobEnds DEF AccountInv
<1>6. CASE ~(IdOf[p] = i /\ k = kind)
  <2>1. \A x : x \in new <=> x \in old
    BY <1>2, <1>3, <1>6, ToCountMeans
  <2>2. new = old
    BY <2>1
  <2> QED
    BY <1>1, <1>4, <1>5, <1>6, <2>2
<1>7. CASE IdOf[p] = i /\ k = kind
  <2>1. tocount[p][k] > 0
    BY <1>7 DEF CountJob
  <2>2. one \in old
    BY <1>2, <1>7, <2>1, ToCountMeans
  <2>3. \A x : x \in new <=> x \in old /\ x # one
    <3> TAKE x
    <3>1. 1..(tocount[p][k] - 1) = (1..tocount[p][k]) \ {tocount[p][k]}
      BY <1>2, <2>1
    <3>2. {p} \X (1..tocount'[p][k]) = ({p} \X (1..tocount[p][k])) \ {one}
      BY <1>2, <1>7, <3>1
    <3> QED
      BY <1>2, <1>3, <1>7, <3>2, ToCountMeans
  <2>4. new = old \ {one}
    BY <2>3
  <2> HIDE DEF new, old, one
  <2>5. IsFiniteSet(new) /\ Cardinality(new) = Cardinality(old) - 1
    BY <1>1, <2>2, <2>4, FS_RemoveElement
  <2>6. outcomes'[i][k] = counter'[i][k] + early'[i][k] + uncounted'[i][k]
                            + Cardinality(new)
    BY <1>1, <1>4, <1>5, <1>7, <2>5
  <2> QED
    BY <2>5, <2>6 DEF new
<1> QED
  BY <1>6, <1>7

LEMMA AccountStep == AccountInv /\ [Next]_registryVars => AccountInv'
<1> SUFFICES ASSUME AccountInv, [Next]_registryVars PROVE AccountInv'
  OBVIOUS
<1>1. TypeOK'
  BY TypeStep DEF AccountInv
<1>2. ASSUME NEW p \in Processes, Stop(p) \/ Crash(p) PROVE AccountInv'
  BY <1>1, <1>2, AccountExit DEF Stop, Crash, AccountInv, OutcomesAccounted
<1>3. ASSUME NEW p \in Processes, NEW kind \in Kinds, FinishJob(p, kind)
      PROVE  AccountInv'
  BY <1>1, <1>3, AccountFinish DEF AccountInv, OutcomesAccounted
<1>4. ASSUME NEW p \in Processes, NEW kind \in Kinds, CountJob(p, kind)
      PROVE  AccountInv'
  BY <1>1, <1>4, AccountCount DEF AccountInv, OutcomesAccounted
<1>5. ASSUME \/ UNCHANGED registryVars
             \/ \E p \in Processes : \/ StartProcess(p) \/ Beat(p) \/ Tick(p)
                                     \/ Signal(p) \/ LateBeat(p)
      PROVE  AccountInv'
  <2>1. UNCHANGED <<counter, tocount, outcomes, uncounted, early>>
    BY <1>5 DEF StartProcess, Beat, Tick, Signal, LateBeat, registryVars
  <2> QED
    BY <1>1, <2>1, AccountFrame DEF AccountInv
<1> QED
  BY <1>2, <1>3, <1>4, <1>5 DEF Next, ProcessStep

\* Any number of worker processes, whatever ids they share and whatever fails:
\* rows and counters are well-formed, and each outcome that Pool.handle has
\* recorded is counted once in its worker's row, or is still to be, or was
\* counted before there was a row, or its count failed or was given up.
THEOREM RegistryCorrect == Spec => []RegistryInv
<1>1. Init => AccountInv
  <2> SUFFICES ASSUME Init PROVE AccountInv
    OBVIOUS
  <2>1. ASSUME NEW i \in Ids, NEW k \in Kinds PROVE ToCount(i, k) = {}
    BY DEF Init, None, ToCount, OfId
  <2>2. ASSUME NEW i \in Ids, NEW k \in Kinds
        PROVE  outcomes[i][k] = counter[i][k] + early[i][k] + uncounted[i][k]
                                  + Cardinality(ToCount(i, k))
    <3>1. Cardinality(ToCount(i, k)) = 0
      BY <2>1, FS_EmptySet
    <3>2. /\ outcomes[i][k] = 0 /\ counter[i][k] = 0 /\ early[i][k] = 0
          /\ uncounted[i][k] = 0
      BY DEF Init, None
    <3> QED
      BY <3>1, <3>2
  <2> QED
    BY <2>1, <2>2, TypeInit, FS_EmptySet DEF AccountInv, OutcomesAccounted
<1>2. AccountInv => RegistryInv
  BY DEF AccountInv, RegistryInv
<1> QED
  BY <1>1, <1>2, AccountStep, PTL DEF Spec
=============================================================================
