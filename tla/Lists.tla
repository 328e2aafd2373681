-------------------------------- MODULE Lists --------------------------------
(***************************************************************************)
(* Array.prototype.filter, as the dashboard uses it: what is kept of a     *)
(* list, in the order of the list.  It is told by the places that are kept *)
(* and not by a test of the elements, and without recursion (SelectSeq),   *)
(* so that proofs can speak of it.                                         *)
(***************************************************************************)
EXTENDS Integers, Sequences, FiniteSets

\* How many of the places are at or before n.
Rank(places, n) == Cardinality({m \in places : m <= n})

\* The place of the given rank.
PlaceOf(places, r) == CHOOSE n \in places : Rank(places, n) = r

\* The elements of list at some of its places.
Keep(list, places) == [r \in 1..Cardinality(places) |-> list[PlaceOf(places, r)]]
=============================================================================
