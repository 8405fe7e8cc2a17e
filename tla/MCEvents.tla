------------------------------ MODULE MCEvents ------------------------------
(* The events that the instances of ProjectLog append.                     *)
EXTENDS TLC, Naturals

CONSTANT Nothing

\* An event as its type and the fields that are set.
Set(type, fields) ==
    fields @@ [id |-> Nothing, type |-> type, task_id |-> Nothing, task |-> Nothing, file |-> Nothing,
               agent |-> Nothing, payload_agent |-> Nothing, number |-> Nothing,
               depends_on |-> Nothing, node |-> Nothing, kind |-> Nothing, reason |-> Nothing,
               version |-> Nothing]

\* Labels 3 and 4 differ in case alone.
FourNames == <<1, 2, 3, 3>>

\* Three agents: what they can do by default, and how well they fix.
ThreeAgents ==
    LET weights(default, fix) == Nothing :> default @@ "fix" :> fix @@ "late" :> 0
    IN <<weights(9, 4), weights(4, 8), weights(3, 0)>>

\* SchedulerV1.score_agent in thousandths, up to four tasks.
ThousandthsOf(weight, counts, load) ==
    LET total == counts.success + counts.failure + counts.blocked
        rate == IF total = 0 THEN 150 ELSE (300 * counts.success) \div total
        confidence == <<0, 27, 42, 53, 62>>
    IN 40 * weight + rate + confidence[total + 1] + 100 + (50 - 5 * load)

\* Ids 1 and 2; labels that are equal (3), or equal once folded (4).
LabelEvents ==
    {Set("task_started", "task_id" :> i @@ "task" :> 3 @@ "agent" :> 1) : i \in {1, 2}} \cup
    {Set("task_started", "task" :> 4),
     Set("task_completed", "task_id" :> 1 @@ "agent" :> 1),
     Set("task_completed", "task_id" :> 2 @@ "task" :> 3),
     Set("task_completed", "task" :> 4),
     Set("task_deleted", "task_id" :> 2 @@ "reason" :> "late"),
     Set("task_updated", "task_id" :> 1 @@ "task" :> 4),
     Set("goal_set", "task" :> 3),
     Set("task_blocked", "task_id" :> 2 @@ "agent" :> 2),
     Set("file_modified", "agent" :> 1),
     Set("file_modified", "file" :> "f" @@ "agent" :> 1)}

\* What the task tools and the workflow engine append.
ToolEvents ==
    {Set("task_started", "task_id" :> 1 @@ "agent" :> 1),
     Set("task_completed", "task_id" :> 1 @@ "agent" :> 2),
     Set("task_priority_changed", "task_id" :> 1 @@ "number" :> 5),
     Set("task_created", "task_id" :> 2 @@ "number" :> 5 @@ "kind" :> "fix"),
     Set("task_assigned", "task_id" :> 2 @@ "payload_agent" :> 2 @@ "agent" :> 1),
     Set("task_failed", "task_id" :> 1 @@ "agent" :> 2 @@ "reason" :> "late"),
     Set("task_failed", "task_id" :> 2 @@ "agent" :> 3),
     Set("task_blocked", "task_id" :> 2 @@ "agent" :> 2 @@ "reason" :> "late"),
     Set("handoff_created", "task_id" :> 1 @@ "agent" :> 1 @@ "payload_agent" :> 2),
     Set("task_dependency_added", "task_id" :> 1 @@ "depends_on" :> 2),
     Set("subtask_started", "task_id" :> 1 @@ "node" :> 2 @@ "agent" :> 2),
     Set("subtask_failed", "task_id" :> 1 @@ "node" :> 1 @@ "reason" :> "late"),
     Set("workflow_state_changed", "task_id" :> 1 @@ "node" :> 1),
     Set("user_feedback", "agent" :> 2 @@ "number" :> 1),
     Set("file_modified", "file" :> "f" @@ "agent" :> 2 @@ "version" :> "late"),
     Set("file_modified", "file" :> "f" @@ "agent" :> 1)}

AllEvents == LabelEvents \cup ToolEvents
=============================================================================
