------------------------------ MODULE Dialect ------------------------------
(***************************************************************************)
(* The SQL dialect of the engine that storage/database.py opens: it decides*)
(* what a write transaction locks, and when.                               *)
(***************************************************************************)
CONSTANT Backend

ASSUME BackendOK == Backend \in {"sqlite", "postgres"}

=============================================================================
