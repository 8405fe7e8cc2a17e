----------------------------- MODULE MCServers -----------------------------
(***************************************************************************)
(* The servers on SQLite: the locks that the threads of one of them take   *)
(* within a step (WriteLocks), and the life of their sessions, step by     *)
(* step (SessionLifecycle).  The one takes apart a repository call that    *)
(* the other takes for a step, so one of them moves in every behaviour and *)
(* the other rests, where it started and where fairness asks nothing of    *)
(* it.                                                                     *)
(***************************************************************************)
EXTENDS SessionLifecycle, WriteLocks

VARIABLE part  \* the one that moves

BothInit ==
    /\ part \in {"locks", "life"}
    /\ LocksInit /\ Init

BothNext ==
    /\ UNCHANGED part
    /\ \/ part = "locks" /\ LocksNext /\ UNCHANGED vars
       \/ part = "life" /\ Next /\ UNCHANGED lockVars

BothSpec == BothInit /\ [][BothNext]_<<part, vars, lockVars>> /\ LocksFairness /\ Fairness

=============================================================================
