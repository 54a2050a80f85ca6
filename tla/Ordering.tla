------------------------------ MODULE Ordering ------------------------------
(***************************************************************************)
(* What sorted(), list.sort() and "order by" make of a finite set: its      *)
(* members one after the other, each in the place that is the number of     *)
(* those before it.  `before` leaves no two members unordered.              *)
(***************************************************************************)
EXTENDS Integers, FiniteSets

InOrder(S, before(_, _)) ==
    [i \in 1..Cardinality(S) |->
        CHOOSE x \in S : Cardinality({y \in S : before(y, x)}) = i - 1]
=============================================================================
