--------------------------- MODULE SequenceLemmas ---------------------------
(***************************************************************************)
(* What taking one element out of a sequence does: lists of things under   *)
(* way (refreshes, submissions) lose an element when it is done.  And what *)
(* filtering a list does (Lists), which is told by ranks: the rank of a    *)
(* place is a one-to-one map of the places that are kept to the places of  *)
(* the result.  Max and Min, which cap lists and pages, come last.         *)
(***************************************************************************)
EXTENDS Integers, SequencesExt, Lists, SequenceTheorems, FiniteSetTheorems, TLAPS

\* The elements before stay where they are, those behind move up.
LEMMA RemoveAtProperties ==
  ASSUME NEW S, NEW s \in Seq(S), NEW i \in DOMAIN s
  PROVE  /\ RemoveAt(s, i) \in Seq(S)
         /\ Len(RemoveAt(s, i)) = Len(s) - 1
         /\ \A j \in 1..(Len(s) - 1) :
              RemoveAt(s, i)[j] = IF j < i THEN s[j] ELSE s[j + 1]
<1> DEFINE a == SubSeq(s, 1, i - 1)
           b == SubSeq(s, i + 1, Len(s))
<1>0. i \in 1..Len(s) /\ Len(s) \in Nat /\ i \in Nat /\ i <= Len(s) /\ 1 <= i
  OBVIOUS
<1>1. a \in Seq(S) /\ Len(a) = i - 1 /\ \A j \in 1..(i - 1) : a[j] = s[j]
  <2>1. 1 \in 1..(Len(s) + 1) /\ i - 1 \in 0..Len(s)
    BY <1>0
  <2> QED
    BY <1>0, <2>1, SubSeqProperties
<1>2. /\ b \in Seq(S) /\ Len(b) = Len(s) - i
      /\ \A j \in 1..(Len(s) - i) : b[j] = s[j + i]
  <2>1. i + 1 \in 1..(Len(s) + 1) /\ Len(s) \in 0..Len(s)
    BY <1>0
  <2>2. Len(s) - (i + 1) + 1 = Len(s) - i
    BY <1>0
  <2>3. /\ b \in Seq(S) /\ Len(b) = IF i + 1 <= Len(s) THEN Len(s) - (i + 1) + 1 ELSE 0
        /\ \A j \in 1..(Len(s) - i) : b[j] = s[j + (i + 1) - 1]
    BY <2>1, <2>2, SubSeqProperties
  <2> QED
    BY <1>0, <2>3
<1>3. PICK c : c = a \o b
  OBVIOUS
<1>4. c = RemoveAt(s, i)
  BY <1>3 DEF RemoveAt
<1> HIDE DEF a, b
<1>5. /\ c \in Seq(S)
      /\ Len(c) = (i - 1) + (Len(s) - i)
      /\ \A j \in 1..((i - 1) + (Len(s) - i)) :
           c[j] = IF j <= i - 1 THEN a[j] ELSE b[j - (i - 1)]
  BY <1>1, <1>2, <1>3, ConcatProperties
<1>6. Len(c) = Len(s) - 1
  BY <1>0, <1>5
<1>7. ASSUME NEW j \in 1..(Len(s) - 1)
      PROVE  c[j] = IF j < i THEN s[j] ELSE s[j + 1]
  <2>1. j \in Nat /\ j >= 1 /\ j <= Len(s) - 1
    BY <1>0, <1>7
  <2>2. j \in 1..((i - 1) + (Len(s) - i))
    BY <1>0, <2>1
  <2>3. c[j] = IF j <= i - 1 THEN a[j] ELSE b[j - (i - 1)]
    BY <1>5, <2>2
  <2>4. CASE j < i
    BY <1>0, <1>1, <2>1, <2>3, <2>4
  <2>5. CASE j >= i
    <3>1. j - (i - 1) \in 1..(Len(s) - i) /\ (j - (i - 1)) + i = j + 1
      BY <1>0, <2>1, <2>5
    <3>2. c[j] = b[j - (i - 1)]
      BY <1>0, <2>1, <2>3, <2>5
    <3> QED
      BY <1>0, <1>2, <2>1, <2>5, <3>1, <3>2
  <2> QED
    BY <1>0, <2>1, <2>4, <2>5
<1> QED
  BY <1>4, <1>5, <1>6, <1>7

----------------------------------------------------------------------------
\* The ranks of n places are 1 to n, in the order of the places.
LEMMA RankProperties ==
  ASSUME NEW n \in Nat, NEW places \in SUBSET (1..n)
  PROVE  /\ IsFiniteSet(places) /\ Cardinality(places) \in 0..n
         /\ \A p \in places : Rank(places, p) \in 1..Cardinality(places)
         /\ \A p, q \in places : p < q => Rank(places, p) < Rank(places, q)
         /\ \A r \in 1..Cardinality(places) : \E p \in places : Rank(places, p) = r
<1> DEFINE Low(p) == {m \in places : m <= p}
           c == Cardinality(places)
<1>0. IsFiniteSet(1..n) /\ Cardinality(1..n) = n
  BY FS_Interval
<1>1. IsFiniteSet(places) /\ c \in 0..n
  <2>1. IsFiniteSet(places) /\ c <= n
    BY <1>0, FS_Subset
  <2> QED
    BY <2>1, FS_CardinalityType
<1>2. ASSUME NEW p \in places PROVE IsFiniteSet(Low(p)) /\ Rank(places, p) \in 1..c
  <2>1. IsFiniteSet(Low(p)) /\ Cardinality(Low(p)) <= c
    <3>1. Low(p) \in SUBSET places
      OBVIOUS
    <3> QED
      BY <1>1, <3>1, FS_Subset
  <2>2. Cardinality(Low(p)) \in Nat
    BY <2>1, FS_CardinalityType
  <2>3. Cardinality(Low(p)) # 0
    <3>1. p \in Low(p)
      OBVIOUS
    <3> QED
      BY <2>1, <3>1, FS_EmptySet
  <2> QED
    BY <1>1, <2>1, <2>2, <2>3 DEF Rank
<1>3. ASSUME NEW p \in places, NEW q \in places, p < q
      PROVE  Rank(places, p) < Rank(places, q)
  <2>0. \A m \in places : m \in Nat
    OBVIOUS
  <2>1. Low(p) \in SUBSET Low(q) /\ q \in Low(q) /\ q \notin Low(p)
    <3>1. p \in Nat /\ q \in Nat /\ q <= q /\ ~(q <= p)
      BY <1>3, <2>0
    <3>2. \A m \in places : m <= p => m <= q
      BY <1>3, <2>0, <3>1
    <3> QED
      BY <3>1, <3>2
  <2>2. Cardinality(Low(p)) <= Cardinality(Low(q)) /\ Cardinality(Low(q)) # Cardinality(Low(p))
    BY <1>2, <2>1, FS_Subset
  <2> QED
    BY <1>2, <2>2 DEF Rank
<1>4. ASSUME NEW r \in 1..c PROVE \E p \in places : Rank(places, p) = r
  <2> DEFINE rank == [p \in places |-> Rank(places, p)]
  <2>1. rank \in Injection(places, 1..c)
    <3>1. rank \in [places -> 1..c]
      BY <1>2
    <3>2. ASSUME NEW p \in places, NEW q \in places, rank[p] = rank[q] PROVE p = q
      <4>1. p \in Nat /\ q \in Nat
        OBVIOUS
      <4>2. Rank(places, p) = Rank(places, q)
        BY <3>2
      <4>3. Rank(places, p) \in Nat
        <5>1. Rank(places, p) \in 1..c
          BY <1>2
        <5>2. c \in Nat
          BY <1>1
        <5> HIDE DEF c
        <5> QED
          BY <5>1, <5>2
      <4> QED
        BY <1>3, <4>1, <4>2, <4>3
    <3> HIDE DEF rank
    <3> QED
      BY <3>1, <3>2 DEF Injection, IsInjective, Restrict
  <2>2. IsFiniteSet(1..c) /\ Cardinality(1..c) = c
    BY <1>1, FS_Interval
  <2>3. rank \in Surjection(places, 1..c)
    <3> HIDE DEF rank, c
    <3>1. Cardinality(places) = Cardinality(1..c)
      BY <2>2 DEF c
    <3> QED
      BY <2>1, <2>2, <3>1, FS_Injection
  <2> QED
    BY <2>3 DEF Surjection
<1> QED
  BY <1>1, <1>2, <1>3, <1>4

\* There is one place of each rank.
LEMMA PlaceProperties ==
  ASSUME NEW n \in Nat, NEW places \in SUBSET (1..n)
  PROVE  /\ \A r \in 1..Cardinality(places) :
              PlaceOf(places, r) \in places /\ Rank(places, PlaceOf(places, r)) = r
         /\ \A p \in places : PlaceOf(places, Rank(places, p)) = p
<1>1. ASSUME NEW r \in 1..Cardinality(places)
      PROVE  PlaceOf(places, r) \in places /\ Rank(places, PlaceOf(places, r)) = r
  BY RankProperties DEF PlaceOf
<1>2. ASSUME NEW p \in places PROVE PlaceOf(places, Rank(places, p)) = p
  <2>1. PICK q \in places : q = PlaceOf(places, Rank(places, p))
    BY <1>1, RankProperties
  <2>2. Rank(places, q) = Rank(places, p)
    BY <1>1, <2>1, RankProperties
  <2>3. Rank(places, q) \in Nat /\ p \in Nat /\ q \in Nat
    BY RankProperties
  <2> QED
    BY <2>1, <2>2, <2>3, RankProperties
<1> QED
  BY <1>1, <1>2

\* What filter returns: the elements at the places that are kept, each one once, in
\* their order.
LEMMA KeepProperties ==
  ASSUME NEW S, NEW s \in Seq(S), NEW places \in SUBSET (DOMAIN s)
  PROVE  /\ Keep(s, places) \in Seq(S)
         /\ Len(Keep(s, places)) = Cardinality(places)
         /\ Cardinality(places) \in 0..Len(s)
         /\ Range(Keep(s, places)) = {s[p] : p \in places}
         /\ \A p \in places : /\ Rank(places, p) \in 1..Cardinality(places)
                             /\ Keep(s, places)[Rank(places, p)] = s[p]
         /\ IsInjective(s) => IsInjective(Keep(s, places))
<1> DEFINE c == Cardinality(places)
           k == Keep(s, places)
<1>1. Len(s) \in Nat /\ places \in SUBSET (1..Len(s)) /\ DOMAIN s = 1..Len(s)
  OBVIOUS
<1>2. /\ c \in 0..Len(s)
      /\ \A p \in places : Rank(places, p) \in 1..c /\ PlaceOf(places, Rank(places, p)) = p
      /\ \A r \in 1..c : PlaceOf(places, r) \in places /\ Rank(places, PlaceOf(places, r)) = r
  BY <1>1, RankProperties, PlaceProperties
<1>3. k = [r \in 1..c |-> s[PlaceOf(places, r)]]
  BY DEF Keep
<1> HIDE DEF c, k
<1>4. k \in Seq(S) /\ Len(k) = c /\ DOMAIN k = 1..c
  <2>1. c \in Nat /\ \A r \in 1..c : s[PlaceOf(places, r)] \in S
    BY <1>1, <1>2
  <2>2. k \in [1..c -> S]
    BY <1>3, <2>1
  <2> QED
    BY <2>1, <2>2
<1>5. \A p \in places : k[Rank(places, p)] = s[p]
  BY <1>2, <1>3
<1>6. Range(k) = {s[p] : p \in places}
  <2>1. Range(k) \subseteq {s[p] : p \in places}
    BY <1>2, <1>3, <1>4 DEF Range
  <2>2. {s[p] : p \in places} \subseteq Range(k)
    BY <1>2, <1>4, <1>5 DEF Range
  <2> QED
    BY <2>1, <2>2
<1>7. ASSUME IsInjective(s) PROVE IsInjective(k)
  <2>1. ASSUME NEW a \in 1..c, NEW b \in 1..c, k[a] = k[b] PROVE a = b
    <3>1. s[PlaceOf(places, a)] = s[PlaceOf(places, b)]
      BY <1>3, <2>1
    <3>2. PlaceOf(places, a) = PlaceOf(places, b)
      BY <1>1, <1>2, <1>7, <3>1 DEF IsInjective
    <3> QED
      BY <1>2, <3>2
  <2> QED
    BY <1>4, <2>1 DEF IsInjective
<1> QED
  BY <1>2, <1>4, <1>5, <1>6, <1>7 DEF c, k

\* Some places have a least one.
LEMMA LeastPlace ==
  ASSUME NEW n \in Nat, NEW places \in SUBSET (1..n), places # {}
  PROVE  \E p \in places : \A q \in places : p <= q
<1>1. IsFiniteSet(places) /\ Cardinality(places) \in Nat
  BY RankProperties
<1>2. Cardinality(places) # 0
  BY <1>1, FS_EmptySet
<1>3. PICK p \in places : Rank(places, p) = 1
  <2>1. 1 \in 1..Cardinality(places)
    BY <1>1, <1>2
  <2> QED
    BY <2>1, RankProperties
<1>4. ASSUME NEW q \in places PROVE p <= q
  <2> SUFFICES ASSUME q < p PROVE FALSE
    OBVIOUS
  <2>1. Rank(places, q) < 1
    BY <1>3, RankProperties
  <2>2. Rank(places, q) \in 1..Cardinality(places)
    BY RankProperties
  <2> HIDE DEF Rank
  <2> QED
    BY <1>1, <2>1, <2>2
<1> QED
  BY <1>4

\* If it makes no difference which of two elements is taken out, they are equal: what lies
\* between them is a run of equal elements, or it would move.
LEMMA RemoveAtEither ==
  ASSUME NEW S, NEW s \in Seq(S), NEW i \in DOMAIN s, NEW j \in DOMAIN s, i < j,
         RemoveAt(s, i) = RemoveAt(s, j)
  PROVE  s[i] = s[j]
<1>1. Len(s) \in Nat /\ i \in 1..Len(s) /\ j \in 1..Len(s) /\ i \in Nat /\ j \in Nat
  OBVIOUS
<1> DEFINE other == {m \in (i + 1)..j : s[m] # s[i]}
<1>2. other = {}
  <2> SUFFICES ASSUME other # {} PROVE FALSE
    OBVIOUS
  <2>1. other \in SUBSET (1..Len(s))
    BY <1>1
  <2>2. PICK p \in other : \A q \in other : p <= q
    BY <1>1, <2>1, LeastPlace
  <2>3. p \in Nat /\ i + 1 <= p /\ p <= j /\ s[p] # s[i]
    BY <1>1
  <2>4. s[p - 1] = s[i]
    <3>1. CASE p = i + 1
      BY <1>1, <3>1
    <3>2. CASE p # i + 1
      <4>1. p - 1 \in (i + 1)..j /\ ~(p <= p - 1)
        BY <1>1, <2>3, <3>2
      <4>2. p - 1 \notin other
        BY <2>2, <4>1
      <4> QED
        BY <4>1, <4>2
    <3> QED
      BY <3>1, <3>2
  <2>5. p - 1 \in 1..(Len(s) - 1) /\ ~(p - 1 < i) /\ p - 1 < j /\ (p - 1) + 1 = p
    BY <1>1, <2>3
  <2>6. \A m \in 1..(Len(s) - 1) :
          RemoveAt(s, i)[m] = IF m < i THEN s[m] ELSE s[m + 1]
    BY RemoveAtProperties
  <2>7. \A m \in 1..(Len(s) - 1) :
          RemoveAt(s, j)[m] = IF m < j THEN s[m] ELSE s[m + 1]
    BY RemoveAtProperties
  <2>8. RemoveAt(s, i)[p - 1] = s[(p - 1) + 1] /\ RemoveAt(s, j)[p - 1] = s[p - 1]
    BY <2>5, <2>6, <2>7
  <2> HIDE DEF other
  <2> QED
    BY <2>3, <2>4, <2>5, <2>8
<1>3. j \in (i + 1)..j
  BY <1>1
<1> QED
  BY <1>2, <1>3

----------------------------------------------------------------------------
\* Math.max and Math.min of two numbers.
LEMMA MaxOfTwo ==
  ASSUME NEW a \in Int, NEW b \in Int
  PROVE  Max({a, b}) = IF a >= b THEN a ELSE b
<1>1. CASE a >= b
  <2>1. \A x \in {a, b} : (\A y \in {a, b} : x >= y) <=> x = a
    BY <1>1
  <2> QED
    BY <1>1, <2>1 DEF Max
<1>2. CASE ~(a >= b)
  <2>1. \A x \in {a, b} : (\A y \in {a, b} : x >= y) <=> x = b
    BY <1>2
  <2> QED
    BY <1>2, <2>1 DEF Max
<1> QED
  BY <1>1, <1>2

LEMMA MinOfTwo ==
  ASSUME NEW a \in Int, NEW b \in Int
  PROVE  Min({a, b}) = IF a <= b THEN a ELSE b
<1>1. CASE a <= b
  <2>1. \A x \in {a, b} : (\A y \in {a, b} : x <= y) <=> x = a
    BY <1>1
  <2> QED
    BY <1>1, <2>1 DEF Min
<1>2. CASE ~(a <= b)
  <2>1. \A x \in {a, b} : (\A y \in {a, b} : x <= y) <=> x = b
    BY <1>2
  <2> QED
    BY <1>2, <2>1 DEF Min
<1> QED
  BY <1>1, <1>2

=============================================================================
