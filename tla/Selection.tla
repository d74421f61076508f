------------------------------ MODULE Selection ------------------------------
(***************************************************************************)
(* What Vec::retain keeps of a vector: SelectSeq of the standard modules,  *)
(* by the positions that stay instead of a test, and without recursion.    *)
(***************************************************************************)
EXTENDS Integers, Sequences, FiniteSets

\* The elements of s at the positions K, in their order.
Selected(s, K) ==
  [n \in 1 .. Cardinality(K) |-> s[CHOOSE k \in K : Cardinality({j \in K : j <= k}) = n]]
=============================================================================
