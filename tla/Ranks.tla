-------------------------------- MODULE Ranks --------------------------------
(***************************************************************************)
(* ORDER BY over a set of numbers.                                         *)
(***************************************************************************)
EXTENDS Integers, FiniteSets

\* The n-th smallest member of S.
Nth(S, n) == CHOOSE x \in S : Cardinality({y \in S : y <= x}) = n

=============================================================================
