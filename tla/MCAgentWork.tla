---------------------------- MODULE MCAgentWork ----------------------------
(***************************************************************************)
(* The work that agents are given: the items of a pool's queue (AgentPool) *)
(* and the nodes of a workflow (Workflow, WorkflowGraph).  The pool knows  *)
(* nothing of workflows, so one of them moves in every behaviour and the   *)
(* other is brought to a rest first, where fairness asks nothing of it: a  *)
(* workflow that is refused, a pool that waits for an item.                *)
(***************************************************************************)
EXTENDS AgentPool, WorkflowGraph

VARIABLE part  \* the one that moves

WorkInit ==
    /\ part \in {"pool", "workflow"}
    /\ Init /\ WorkflowInit
    /\ part = "pool" => edges = {<<n, n>> : n \in Nodes} /\ \A b \in Budgets : budget <= b
    /\ part = "workflow" => backend = "memory"

WorkNext ==
    /\ UNCHANGED part
    /\ \/ part = "pool" /\ phase = "new" /\ create_workflow /\ UNCHANGED vars
       \/ part = "pool" /\ phase = "refused" /\ Next /\ UNCHANGED workflowVars
       \/ part = "workflow" /\ ~started /\ Start /\ UNCHANGED workflowVars
       \/ part = "workflow" /\ started /\ WorkflowNext /\ UNCHANGED vars

WorkSpec ==
    /\ WorkInit /\ [][WorkNext]_<<part, vars, workflowVars>>
    /\ Fairness /\ WorkflowFairness

=============================================================================
