------------------------------ MODULE MCReplay ------------------------------
(* Instances of ProjectLog for TLC.                                        *)
EXTENDS ProjectLog

INSTANCE MCEvents

=============================================================================
