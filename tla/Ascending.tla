------------------------------ MODULE Ascending ------------------------------
(***************************************************************************)
(* The elements of a finite set of numbers as a sequence, without recursion*)
(* or sorting, so that theorems can be proved about what is built with it. *)
(***************************************************************************)
EXTENDS Naturals, FiniteSets

(* The k-th of them is the one with k elements up to it.                   *)
InAscendingOrder(S) ==
  LET rank == [i \in S |-> Cardinality({j \in S : j <= i})]
  IN [k \in 1 .. Cardinality(S) |-> CHOOSE i \in S : rank[i] = k]
=============================================================================
