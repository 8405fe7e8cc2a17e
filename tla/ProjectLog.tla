----------------------------- MODULE ProjectLog -----------------------------
(***************************************************************************)
(* A project's log as save_event and the task tools append to it, with the *)
(* two ways the program has of reading it: a replay of everything, and the *)
(* snapshot behind any cut with the events behind its cursor on top.       *)
(* Which snapshot the store hands out is SnapshotStore's subject; here     *)
(* every cut is compared.                                                  *)
(***************************************************************************)
EXTENDS TaskReplay

CONSTANTS Events,       \* the events that may be appended, without their id
          PageSizes,    \* the page sizes that are tried
          MaxLog        \* bound: events of the log

ASSUME LogConstantsOK ==
    /\ \A e \in Events : e \in Event /\ e.id = Nothing
    /\ PageSizes \subseteq Nat \ {0}

VARIABLE log

LogInit == log = <<>>

\* An event at the end of the log; ids follow the log's order.
SaveEvent(event) ==
    /\ Len(log) < MaxLog
    /\ log' = Append(log, [event EXCEPT !.id = Len(log) + 1])

LogNext == \E event \in Events : SaveEvent(event)

LogSpec == LogInit /\ [][LogNext]_log

-----------------------------------------------------------------------------
(* properties                                                               *)

LogTypeOK == log \in Seq(Event) /\ \A i \in DOMAIN log : log[i].id = i

\* Behind which events a snapshot may have been taken.
Cuts == 1..Len(log)

UpTo(cut) == SubSeq(log, 1, cut)

\* The labels that events behind the cut completed.
CompletedSince(cut) ==
    {TaskLabel(log[i]) : i \in {j \in cut + 1..Len(log) :
        log[j].type = "task_completed" /\ TaskRef(log[j]) # Nothing}}

\* Wherever the snapshot was taken, a resumed project has the goal, files,
\* completed tasks, blockers, failures, tool calls and count of a full replay,
\* and its last event, unless that is one that compression dropped from the
\* snapshot and nothing follows.  If no two open tasks had one label at the cut,
\* its open references are the same and in the same order, since from_dict
\* finds the order that the stored JSON lost by the labels; and its open tasks
\* are those of the full replay without the labels completed since
\* (StateMerger.merge, ProjectState.from_dict).
ResumeKeepsState ==
    LET full == BuildState(log)
    IN \A cut \in Cuts :
         LET resumed == Resumed(log, cut)
             delta == cut < Len(log)
         IN /\ \A field \in {"goal", "working_files", "completed_tasks", "notes",
                              "last_working_file", "event_count"} : resumed[field] = full[field]
            /\ delta \/ log[cut] \notin Churn(log) => resumed.last_event_id = full.last_event_id
            /\ delta /\ IsInjective(BuildState(UpTo(cut)).open_tasks) =>
                 /\ resumed.open_task_refs = full.open_task_refs
                 /\ resumed.open_tasks = Drop(full.open_tasks, CompletedSince(cut))

\* A subtask event without a node is filed under the key None, which the stored
\* JSON turns into a name, or refuses to sort.
NodesNamed == \A i \in DOMAIN log : log[i].type \in SubtaskTypes => log[i].node # Nothing

\* Wherever the snapshot was taken, if one was (cut 0: none), and however the
\* events behind it are paged, the task tools see the tasks, edges and handoffs
\* of a full replay, and with them the same queues, the same metrics of each
\* agent, and so the same next step with the same agent recommended, whichever
\* failures are long ago by then.  The version an agent named last is the same,
\* too, unless it named it with a file modification that compression drops
\* (load_task_projection, TaskStateReducer, AgentPerformanceReducer).
ProjectionKeepsTasks ==
    LET full == ApplyPage(NoProjection, log)
        tasks == AsSet(full.view.tasks)
        counts == AllCounts(full.metrics)
        failures == {i \in DOMAIN log : log[i].type = "task_failed"}
    IN NodesNamed => \A cut \in {0} \cup Cuts, size \in PageSizes :
         LET both == Projected(log, cut, size)
             seen == AsSet(both.view.tasks)
         IN /\ seen = tasks
            /\ both.view.dependencies = full.view.dependencies
            /\ both.view.handoffs = full.view.handoffs
            /\ \A a \in Agents : AgentQueue(seen, a) = AgentQueue(tasks, a)
            /\ AllCounts(both.metrics) = counts
            /\ \A old \in SUBSET failures :
                  Decision(seen, AllCounts(both.metrics), old) = Decision(tasks, counts, old)
            /\ (\A e \in Churn(UpTo(cut)) : e.version = Nothing) => both.versions = full.versions

\* tests/test_snapshot.py:285 "snapshot delta rebuild equals full replay", in
\* the open tasks too, which the merge filters by the labels completed since.
ResumeEqualsReplay ==
    \A cut \in Cuts : Resumed(log, cut).open_tasks = BuildState(log).open_tasks

\* server/tools/tasks.py:541 "The task is excluded from agent_queue and
\* open_task_ids during replay": a deleted task is in no agent's queue.
DeletedNotQueued ==
    LET tasks == AsSet(ApplyPage(NoProjection, log).view.tasks)
    IN \A id \in DeletedTaskIds(tasks), a \in Agents : id \notin AsSet(AgentQueue(tasks, a))
=============================================================================
