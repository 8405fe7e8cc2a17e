----------------------------- MODULE MCPostgres -----------------------------
(***************************************************************************)
(* The tables of one PostgreSQL database, which locks least: the event     *)
(* store, the session table and the work queue.  They share no row, so one *)
(* of them moves in every behaviour and the others rest.                   *)
(***************************************************************************)
EXTENDS EventStoreRefinement, SessionRows, LeaseQueue, TLC

CONSTANT q1

\* One agent to whom the item is assigned.
OneAgent == {{q1}}

VARIABLE part  \* the one that moves

TablesInit ==
    /\ part \in {"store", "rows", "queue"}
    /\ Init /\ RowsInit /\ QueueInit

\* The bound ends the session table when every id is spent, and a race may
\* leave an item queued with no attempt left.
Ends == part \in {"rows", "queue"} /\ UNCHANGED <<vars, rowVars, queueVars>>

TablesNext ==
    /\ UNCHANGED part
    /\ \/ part = "store" /\ Next /\ UNCHANGED <<rowVars, queueVars>>
       \/ part = "rows" /\ RowsNext /\ UNCHANGED <<vars, queueVars>>
       \/ part = "queue" /\ QueueNext /\ UNCHANGED <<vars, rowVars>>
       \/ Ends

TablesSpec == TablesInit /\ [][TablesNext]_<<part, vars, rowVars, queueVars>>

\* The writers, the clients and the workers are the same threads.
TablesSymmetry == Permutations(Clients)

=============================================================================
