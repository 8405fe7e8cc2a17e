----------------------------- MODULE TaskReplay -----------------------------
(***************************************************************************)
(* The task view and the agents' metrics that orchestrate_project and the  *)
(* task tools answer with: TaskStateReducer and AgentPerformanceReducer    *)
(* over the project's events, from a snapshot and page by page behind its  *)
(* cursor; and the queues, lists and next step derived from them, with the *)
(* agent that the scheduler recommends.                                    *)
(*                                                                         *)
(* The tasks are a sequence of records in the order of their first event.  *)
(* A goal stands for the files, too, which events replace the same way.    *)
(***************************************************************************)
EXTENDS StateReplay, Integers

CONSTANTS
    Capability,      \* Capability[a][kind], the registered agents' weights
    Score(_, _, _),  \* an agent's score: its weight, its counts, its load
    UnhealthyAfter   \* UNHEALTHY_FAILURE_THRESHOLD

Registered == DOMAIN Capability

ASSUME TaskConstantsOK ==
    /\ Registered \subseteq Agents
    /\ Capability \in [Registered -> [Optional(Texts) -> 0..10]]
    /\ UnhealthyAfter \in Nat \ {0}

SubtaskTypes == {"subtask_created", "subtask_started", "subtask_completed", "subtask_failed"}

\* Types whose events a task keeps in a list.
ListTypes ==
    {"workflow_state_changed", "retry_scheduled", "agent_execution_started",
     "agent_execution_completed", "agent_execution_failed", "agent_registered",
     "agent_health_changed", "cost_ceiling_exceeded", "capability_updated"}

TaskTypes ==
    SubtaskTypes \cup ListTypes \cup
    {"task_created", "task_assigned", "task_started", "task_blocked", "task_completed",
     "task_failed", "task_dependency_added", "task_priority_changed", "task_updated",
     "task_deleted", "handoff_created", "workflow_created", "workflow_started",
     "workflow_completed", "workflow_failed", "result_aggregated", "queue_item_enqueued",
     "queue_item_dequeued", "worker_started", "worker_stopped"}

\* subtasks: what is known of each node, a dict.  lists: its lists as one, each
\* entry as its event, whose type names the list.
NewTask(id) ==
    [task_id |-> id, goal |-> Nothing, kind |-> Nothing, priority |-> 3, status |-> "created",
     owner |-> Nothing, ownership_history |-> <<>>, history |-> <<>>, failure |-> Nothing,
     blocked_reason |-> Nothing, deleted_reason |-> Nothing, subtasks |-> [n \in {} |-> Nothing],
     lists |-> <<>>]

NoTasks == [tasks |-> <<>>, dependencies |-> <<>>, handoffs |-> <<>>]

-----------------------------------------------------------------------------
(* the handlers: what an event does to its task                             *)

Owned(task, agent) ==
    IF agent = Nothing \/ (task.ownership_history # <<>> /\ Last(task.ownership_history) = agent)
    THEN task.ownership_history
    ELSE Append(task.ownership_history, agent)

\* An agent the payload names, before the one that appended the event.
NamedAgent(event) == Present(event.payload_agent, event.agent)

Created(task, event) ==
    [task EXCEPT !.goal = Present(event.task, @), !.kind = Present(event.kind, @),
                 !.priority = Present(event.number, @), !.status = "created"]

Assigned(task, event) ==
    [task EXCEPT !.owner = NamedAgent(event), !.status = "assigned",
                 !.ownership_history = Owned(task, NamedAgent(event))]

Started(task, event) ==
    [task EXCEPT !.status = "started", !.owner = Present(event.agent, @),
                 !.ownership_history = Owned(task, event.agent),
                 !.goal = Present(event.task, @)]

Updated(task, event) ==
    [task EXCEPT !.goal = Present(event.task, @), !.kind = Present(event.kind, @)]

\* A node that an event names for the first time.
NewSubtask(event) ==
    [status |-> "pending", agent_id |-> Nothing, goal |-> event.task, score |-> event.number,
     reason |-> event.reason, retry_count |-> Nothing]

SubtaskHandled(sub, event) ==
    CASE event.type = "subtask_created" ->
           [sub EXCEPT !.status = "pending", !.goal = Present(event.task, @)]
      [] event.type = "subtask_started" ->
           [sub EXCEPT !.status = "running", !.agent_id = NamedAgent(event)]
      [] event.type = "subtask_completed" ->
           [sub EXCEPT !.status = "completed", !.agent_id = NamedAgent(event)]
      [] event.type = "subtask_failed" ->
           [sub EXCEPT !.status = "failed", !.reason = event.reason,
                       !.retry_count = Present(event.number, 0)]

Subtasks(subtasks, event) ==
    LET sub == IF event.node \in DOMAIN subtasks THEN subtasks[event.node] ELSE NewSubtask(event)
    IN [n \in DOMAIN subtasks \cup {event.node} |->
           IF n = event.node THEN SubtaskHandled(sub, event) ELSE subtasks[n]]

Handled(task, event) ==
    CASE event.type = "task_created" -> Created(task, event)
      [] event.type = "task_assigned" -> Assigned(task, event)
      [] event.type = "task_started" -> Started(task, event)
      [] event.type = "task_blocked" ->
           [task EXCEPT !.status = "blocked", !.blocked_reason = event.reason]
      [] event.type = "task_completed" -> [task EXCEPT !.status = "completed"]
      [] event.type = "task_failed" -> [task EXCEPT !.status = "failed", !.failure = event.reason]
      [] event.type = "task_priority_changed" -> [task EXCEPT !.priority = Present(event.number, @)]
      [] event.type = "task_updated" -> Updated(task, event)
      [] event.type = "task_deleted" ->
           [task EXCEPT !.status = "deleted", !.deleted_reason = event.reason]
      [] event.type \in SubtaskTypes -> [task EXCEPT !.subtasks = Subtasks(@, event)]
      [] event.type \in ListTypes -> [task EXCEPT !.lists = Append(@, <<event.type, event.id>>)]
      [] OTHER -> task

Recorded(task, event) == Handled([task EXCEPT !.history = Append(@, event.id)], event)

KnownTask(view, id) == \E i \in DOMAIN view.tasks : view.tasks[i].task_id = id

\* An event's task, made on its first event.
WithTask(view, id) ==
    IF KnownTask(view, id) THEN view ELSE [view EXCEPT !.tasks = Append(@, NewTask(id))]

\* Dependencies are kept once; an edge may name any task, and no cycle is refused.
Edges(view, event) ==
    LET edge == <<event.task_id, event.depends_on>>
    IN IF event.depends_on = Nothing \/ edge \in AsSet(view.dependencies)
       THEN view.dependencies
       ELSE Append(view.dependencies, edge)

ApplyToTasks(view, event) ==
    LET seen == WithTask(view, event.task_id)
        next == [seen EXCEPT
                   !.tasks = [i \in DOMAIN @ |-> IF @[i].task_id = event.task_id
                                                 THEN Recorded(@[i], event) ELSE @[i]],
                   !.dependencies = IF event.type = "task_dependency_added"
                                    THEN Edges(view, event) ELSE @,
                   !.handoffs = IF event.type = "handoff_created"
                                THEN Append(@, <<event.task_id, event.id>>)
                                ELSE @]
    IN IF event.type \notin TaskTypes \/ event.task_id = Nothing THEN view ELSE next

-----------------------------------------------------------------------------
(* agents                                                                   *)

\* last_failure: the event of the agent's last failure, for its time.
NoCounts ==
    [assigned |-> 0, success |-> 0, failure |-> 0, blocked |-> 0, consecutive |-> 0,
     last_failure |-> Nothing, last_failure_reason |-> Nothing, feedback |-> Nothing]

AgentOf(event) == IF event.type = "task_assigned" THEN NamedAgent(event) ELSE event.agent

Counted(counts, event) ==
    CASE event.type = "task_assigned" -> [counts EXCEPT !.assigned = @ + 1]
      [] event.type = "task_completed" -> [counts EXCEPT !.success = @ + 1, !.consecutive = 0]
      [] event.type = "task_failed" ->
           [counts EXCEPT !.failure = @ + 1, !.consecutive = @ + 1, !.last_failure = event.id,
                          !.last_failure_reason = Present(event.reason, @)]
      [] event.type = "task_blocked" -> [counts EXCEPT !.blocked = @ + 1]
      [] event.type = "user_feedback" -> [counts EXCEPT !.feedback = Present(event.number, @)]
      [] OTHER -> counts

CountsOf(metrics, agent) == IF agent \in DOMAIN metrics THEN metrics[agent] ELSE NoCounts

\* The counts of every agent: those of one without an entry are empty.
AllCounts(metrics) == [a \in Agents |-> CountsOf(metrics, a)]

ApplyToMetrics(metrics, event) ==
    LET agent == AgentOf(event)
    IN IF agent = Nothing
       THEN metrics
       ELSE [a \in DOMAIN metrics \cup {agent} |->
                IF a = agent THEN Counted(CountsOf(metrics, agent), event) ELSE metrics[a]]

NoMetrics == [a \in {} |-> NoCounts]

\* agent_version, kept apart: any event of an agent may name it.
ApplyToVersions(versions, event) ==
    [a \in Agents |-> IF a = AgentOf(event) THEN Present(event.version, versions[a])
                                             ELSE versions[a]]

-----------------------------------------------------------------------------
(* both, over a page of events                                              *)

\* From no snapshot.
NoProjection ==
    [view |-> NoTasks, metrics |-> NoMetrics, versions |-> [a \in Agents |-> Nothing]]

ApplyToBoth(both, event) ==
    [view |-> ApplyToTasks(both.view, event), metrics |-> ApplyToMetrics(both.metrics, event),
     versions |-> ApplyToVersions(both.versions, event)]

\* Both reducers' apply_events; build and reduce are it from nothing.
ApplyPage(both, events) ==
    LET run[n \in 0..Len(events)] == IF n = 0 THEN both ELSE ApplyToBoth(run[n - 1], events[n])
    IN run[Len(events)]

-----------------------------------------------------------------------------
(* what is derived from the tasks, of which the order does not matter       *)

TaskIn(tasks, id) == CHOOSE task \in tasks : task.task_id = id

Ids(tasks) == {task.task_id : task \in tasks}

\* Most urgent first, by id among equals.
Urgency(tasks, x, y) ==
    LET px == TaskIn(tasks, x).priority
        py == TaskIn(tasks, y).priority
    IN px > py \/ (px = py /\ x < y)

ByUrgency(tasks) == SetToSortSeq(Ids(tasks), LAMBDA x, y : Urgency(tasks, x, y))

AgentQueue(tasks, agent) ==
    ByUrgency({t \in tasks : t.owner = agent /\ t.status \notin {"completed", "failed"}})

DeletedTaskIds(tasks) == Ids({t \in tasks : t.status = "deleted"})

\* Nobody is asked again after UnhealthyAfter failures in a row, until the last
\* one is RECOVERY_AFTER ago: old are the events that are.
Healthy(counts, old) == counts.consecutive < UnhealthyAfter \/ counts.last_failure \in old

\* Of those who may be asked, the ones able to do this kind of task, or any.
Suited(agents, kind) ==
    LET able == {a \in agents : Capability[a][kind] > 0}
        skilled == {a \in agents : \E k \in Optional(Texts) : Capability[a][k] > 0}
    IN CASE able # {} -> able
         [] able = {} /\ skilled # {} -> skilled
         [] OTHER -> agents

\* The best score wins, then fewer failures, fewer blocks, and the lesser id.
Best(agents, task, tasks, counts) ==
    LET score(a) == Score(Capability[a][task.kind], counts[a], Len(AgentQueue(tasks, a)))
        rank(a) == <<-score(a), counts[a].failure, counts[a].blocked, a>>
        before(x, y) == \E i \in 1..4 : /\ rank(x)[i] < rank(y)[i]
                                        /\ \A j \in 1..(i - 1) : rank(x)[j] = rank(y)[j]
    IN CHOOSE a \in agents : \A other \in agents \ {a} : before(a, other)

\* OrchestratedResumeEngine._decision_view: a blocked or failed task is handed
\* over to the agent recommended, escalated if there is none, or assigned if
\* nobody owns it; else the most urgent task goes on.
Decision(tasks, counts, old) ==
    LET stuck == ByUrgency({t \in tasks : t.status \in {"blocked", "failed"}})
        open == ByUrgency({t \in tasks : t.status \notin {"completed", "failed"}})
        task == TaskIn(tasks, Head(stuck))
        suited == Suited({a \in Registered \ {task.owner} : Healthy(counts[a], old)}, task.kind)
    IN CASE stuck # <<>> /\ task.owner # Nothing /\ suited # {} ->
              <<"handoff_task", task.task_id, Best(suited, task, tasks, counts)>>
         [] stuck # <<>> /\ task.owner # Nothing /\ suited = {} -> <<"escalate", task.task_id>>
         [] stuck # <<>> /\ task.owner = Nothing -> <<"assign_task", task.task_id>>
         [] stuck = <<>> /\ open # <<>> -> <<"continue", Head(open)>>
         [] OTHER -> <<"none">>

-----------------------------------------------------------------------------
(* from a snapshot and page by page                                         *)

\* sort_keys: the stored tasks come back in the order of their ids.
ById(tasks) == [n \in 1..Cardinality(Ids(tasks)) |-> TaskIn(tasks, Nth(Ids(tasks), n))]

SnapshotProjection(events) ==
    LET both == ApplyPage(NoProjection, Compress(events))
    IN [both EXCEPT !.view.tasks = ById(AsSet(@))]

\* The cursor behind the p-th page.
PageEnd(events, size, p) == IF p * size < Len(events) THEN p * size ELSE Len(events)

PagesOf(events, size) == CHOOSE p \in 0..Len(events) :
    PageEnd(events, size, p) = Len(events) /\ \A q \in 0..(p - 1) : PageEnd(events, size, q) < Len(events)

ApplyPages(both, events, size) ==
    LET page(p) == SubSeq(events, PageEnd(events, size, p - 1) + 1, PageEnd(events, size, p))
        run[p \in 0..PagesOf(events, size)] == IF p = 0 THEN both ELSE ApplyPage(run[p - 1], page(p))
    IN run[PagesOf(events, size)]

\* Mutant: the delta begins with the event the snapshot ended with.
Projected_Inclusive(events, cut, size) ==
    ApplyPages(SnapshotProjection(SubSeq(events, 1, cut)),
               SubSeq(events, IF cut = 0 THEN 1 ELSE cut, Len(events)), size)

\* load_task_projection, with the snapshot taken behind the cut-th event.
Projected(events, cut, size) ==
    ApplyPages(SnapshotProjection(SubSeq(events, 1, cut)),
               SubSeq(events, cut + 1, Len(events)), size)
=============================================================================
