------------------------------- MODULE Lists -------------------------------
(***************************************************************************)
(* How often a value occurs in a sequence, or among its first elements, and *)
(* the elements at some of its positions.  Unlike SelectSeq, which takes an  *)
(* operator, these can be reasoned about.                                    *)
(***************************************************************************)
EXTENDS Integers, Sequences, FiniteSets

CountUpto(q, n, x) == Cardinality({k \in 1..n : q[k] = x})

Count(q, x) == Cardinality({k \in DOMAIN q : q[k] = x})

(* The elements of a finite set of integers, in increasing order. *)
InOrder(P) ==
  [k \in 1..Cardinality(P) |-> CHOOSE i \in P : Cardinality({j \in P : j <= i}) = k]

(* The elements of q at the positions P, in the order of q. *)
Picked(q, P) == [k \in 1..Cardinality(P) |-> q[InOrder(P)[k]]]
============================================================================
