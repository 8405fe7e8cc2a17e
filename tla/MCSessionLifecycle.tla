------------------------- MODULE MCSessionLifecycle -------------------------
(* Instances of SessionLifecycle for TLC.                                  *)
EXTENDS SessionLifecycle, TLC

\* Servers are interchangeable where none is Stable and all are Used.
ServerSymmetry == Permutations(Servers)

=============================================================================
