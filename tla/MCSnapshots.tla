---------------------------- MODULE MCSnapshots ----------------------------
(***************************************************************************)
(* Snapshots: when they are built (SnapshotStore), and what a reader that  *)
(* starts from one must find, wherever it was taken (ProjectLog).  The one *)
(* knows only cursors and the other every cut, so one of them moves in     *)
(* every behaviour and the other rests; the log is one of the events that  *)
(* matter to resume_project, or one of those that matter to the task tools.*)
(***************************************************************************)
EXTENDS SnapshotStore, ProjectLog

INSTANCE MCEvents

VARIABLE part  \* what moves: the store, or the log

Kinds == "labels" :> LabelEvents @@ "tools" :> ToolEvents

BothInit ==
    /\ part \in {"store", "labels", "tools"}
    /\ Init /\ LogInit
    /\ part # "store" => backend = "sqlite"

BothNext ==
    /\ UNCHANGED part
    /\ \/ part = "store" /\ Next /\ UNCHANGED log
       \/ /\ part # "store" /\ LogNext /\ UNCHANGED vars
          /\ [Last(log') EXCEPT !.id = Nothing] \in Kinds[part]

\* The fairness of the store is a claim about the behaviours in which it moves.
BothSpec ==
    /\ BothInit /\ [][BothNext]_<<part, vars, log>>
    /\ WF_vars(part = "store" /\ Tick)
    /\ \A b \in Stable :
          /\ WF_vars(part = "store" /\ AutoStep(b)) /\ WF_vars(part = "store" /\ ManualStep(b))
    /\ \A b \in Builders \ Stable : WF_vars(part = "store" /\ backend = "postgres" /\ AutoStep(b))

=============================================================================
