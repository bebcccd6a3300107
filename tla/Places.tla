------------------------------- MODULE Places -------------------------------
(***************************************************************************)
(* Parts of a sequence, by the places they have in it.  The operators are  *)
(* written without recursion, so that what they yield can be proved.       *)
(***************************************************************************)
EXTENDS Integers, FiniteSets

\* How many of a set's places come before one
Rank(places, i) == Cardinality({j \in places : j < i})

Place(places, n) == CHOOSE i \in places : Rank(places, i) = n - 1

\* The items at a set of places, in their order.
At(is, places) == [n \in 1..Cardinality(places) |-> is[Place(places, n)]]
=============================================================================
