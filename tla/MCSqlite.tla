------------------------------ MODULE MCSqlite ------------------------------
(***************************************************************************)
(* The tables of one SQLite database: the event store, the session table,  *)
(* and a database into which histories are merged.  They share no row, so  *)
(* one of them moves in every behaviour and the others rest.               *)
(***************************************************************************)
EXTENDS EventStore, SessionRows, HistoryRepair, TLC

VARIABLE part  \* the one that moves

TablesInit ==
    /\ part \in {"store", "rows", "repair"}
    /\ Init /\ RowsInit /\ RepairInit
    /\ part # "repair" => ids = 0

TablesNext ==
    /\ UNCHANGED part
    /\ \/ part = "store" /\ Next /\ UNCHANGED <<rowVars, repairVars>>
       \/ part = "rows" /\ RowsNext /\ UNCHANGED <<vars, repairVars>>
       \/ part = "repair" /\ RepairNext /\ UNCHANGED <<vars, rowVars>>

TablesSpec == TablesInit /\ [][TablesNext]_<<part, vars, rowVars, repairVars>>

TablesSymmetry == Permutations(Writers) \cup Permutations(Clients) \cup Permutations(Sources)

=============================================================================
