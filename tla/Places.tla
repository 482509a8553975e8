------------------------------- MODULE Places -------------------------------
(***************************************************************************)
(* What a filter leaves of a list: the elements at some of its places, in  *)
(* their order. It is told by counting, so that it can be reasoned about   *)
(* with the cardinality of sets.                                           *)
(***************************************************************************)
EXTENDS Integers, FiniteSets

(* The i-th of the places: there are i up to it.                           *)
Place(places, i) == CHOOSE k \in places : Cardinality({j \in places : j <= k}) = i

(* The elements of s at the places.                                        *)
Picked(s, places) == [i \in 1..Cardinality(places) |-> s[Place(places, i)]]

=============================================================================
