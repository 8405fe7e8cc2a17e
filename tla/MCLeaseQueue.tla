---------------------------- MODULE MCLeaseQueue ----------------------------
(* Instances of LeaseQueue for TLC.                                        *)
EXTENDS LeaseQueue, TLC

CONSTANTS q1, q2

\* One agent to whom both items are assigned.
OneAgent == {{q1, q2}}

WorkerSymmetry == Permutations(Workers)

=============================================================================
