------------------------------- MODULE Lists --------------------------------
(***************************************************************************)
(* Operators on lists that several components share.                       *)
(***************************************************************************)
EXTENDS Naturals, FiniteSets

(* The place of a member of a set of numbers, counted from the least, and  *)
(* the set as a list.  The order is defined by counting: of SetToSortSeq,  *)
(* which gives the same list, the prover does not know the definition.     *)
Place(set, n) == Cardinality({m \in set : m <= n})

InOrder(set) ==
  [k \in 1..Cardinality(set) |-> CHOOSE n \in set : Place(set, n) = k]

(* What a list has at some of its places, in its order.                    *)
AtPlaces(list, places) ==
  [k \in 1..Cardinality(places) |-> list[InOrder(places)[k]]]

(* Whether record m may go before record n, where the records of each      *)
(* goroutine keep their order.                                             *)
Before(records, m, n) == m # n /\ (records[m].by = records[n].by => m < n)
=============================================================================
