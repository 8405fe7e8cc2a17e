---------------------------- MODULE StateReplay ----------------------------
(***************************************************************************)
(* The project state that resume_project answers with, as a function of    *)
(* the project's events: the state machine that applies one event after    *)
(* another, the compression in front of a snapshot, the JSON a snapshot is *)
(* stored as, and the merge of a stored state with the events behind its   *)
(* cursor.  Only operators: ProjectLog states what they must agree on.       *)
(*                                                                         *)
(* A dict is the sequence of its entries in insertion order.  Names are    *)
(* the strings used as task ids and as task labels, numbered in the order  *)
(* of their text; Normal folds white space and case away.                  *)
(***************************************************************************)
EXTENDS Naturals, Sequences, SequencesExt, Ranks

CONSTANTS Names,    \* task ids and task labels, a set of numbers
          Normal,   \* Normal[n] is n with white space and case folded
          Files,
          Agents,   \* agent ids, numbered in the order of their text
          Texts,    \* free text: kinds, reasons, versions
          Nothing   \* None, a missing field

ASSUME ReplayConstantsOK ==
    /\ Names \subseteq Nat
    /\ Normal \in [Names -> Names]
    /\ Agents \subseteq Nat
    /\ Nothing \notin Nat /\ Nothing \notin Files /\ Nothing \notin Texts

Optional(S) == S \cup {Nothing}

\* An event, with an id once it is saved: the agent that appended it, and what
\* of its payload counts.  number is a priority, a score or a count of retries.
Event ==
    [id: Optional(Nat), type: STRING, task_id: Optional(Names), task: Optional(Names),
     file: Optional(Files), agent: Optional(Agents), payload_agent: Optional(Agents),
     number: Optional(Nat), depends_on: Optional(Names), node: Optional(Names),
     kind: Optional(Texts), reason: Optional(Texts), version: Optional(Texts)]

NoteTypes == {"task_blocked", "failure", "tool_call"}

\* A task reference: by its id, or by its label where an event gives no id.
Ref == {"id", "legacy"} \X Names

-----------------------------------------------------------------------------
(* dicts                                                                    *)

Has(dict, key) == \E i \in DOMAIN dict : dict[i][1] = key

Put(dict, key, value) ==
    IF Has(dict, key)
    THEN [i \in DOMAIN dict |-> IF dict[i][1] = key THEN <<key, value>> ELSE dict[i]]
    ELSE Append(dict, <<key, value>>)

Values(dict) == [i \in DOMAIN dict |-> dict[i][2]]

AsSet(seq) == {seq[i] : i \in DOMAIN seq}

\* The sequence without the members of S.
Drop(seq, S) ==
    LET rest[n \in 0..Len(seq)] ==
          IF n = 0 THEN <<>>
          ELSE IF seq[n] \in S THEN rest[n - 1] ELSE Append(rest[n - 1], seq[n])
    IN rest[Len(seq)]

Without(dict, key) == Drop(dict, {entry \in AsSet(dict) : entry[1] = key})

-----------------------------------------------------------------------------
(* the state machine                                                        *)

EmptyState ==
    [goal |-> Nothing, working_files |-> <<>>, open_task_refs |-> <<>>, open_tasks |-> <<>>,
     completed_tasks |-> <<>>, notes |-> [t \in NoteTypes |-> <<>>],
     last_event_id |-> Nothing, last_working_file |-> Nothing, event_count |-> 0]

WithRefs(state, refs) ==
    [state EXCEPT !.open_task_refs = refs, !.open_tasks = Values(refs)]

\* What the event calls its task: a label, or the id where there is none.
TaskLabel(event) == IF event.task # Nothing THEN event.task ELSE event.task_id

TaskRef(event) ==
    CASE event.task_id # Nothing -> <<"id", event.task_id>>
      [] event.task_id = Nothing /\ event.task # Nothing -> <<"legacy", Normal[event.task]>>
      [] OTHER -> Nothing

AlternateRef(ref) ==
    IF ref[1] = "id" THEN <<"legacy", Normal[ref[2]]>> ELSE <<"id", ref[2]>>

\* The open task that a completion closes: under its own reference, under the
\* other format of it, or the first one with the same label.
ClosedRef(refs, ref, label) ==
    LET same == {i \in DOMAIN refs : Normal[refs[i][2]] = Normal[label]}
    IN CASE Has(refs, ref) -> ref
         [] ~Has(refs, ref) /\ Has(refs, AlternateRef(ref)) -> AlternateRef(ref)
         [] ~Has(refs, ref) /\ ~Has(refs, AlternateRef(ref)) /\ same # {} ->
              refs[CHOOSE i \in same : \A j \in same : i <= j][1]
         [] OTHER -> ref

GoalSet(state, event) ==
    IF event.task = Nothing THEN state ELSE [state EXCEPT !.goal = event.task]

TaskStarted(state, event) ==
    IF TaskRef(event) = Nothing
    THEN state
    ELSE WithRefs(state, Put(state.open_task_refs, TaskRef(event), TaskLabel(event)))

TaskCompleted(state, event) ==
    LET label == TaskLabel(event)
        ref == ClosedRef(state.open_task_refs, TaskRef(event), label)
        closed == WithRefs(state, Without(state.open_task_refs, ref))
    IN CASE TaskRef(event) = Nothing -> state
         [] TaskRef(event) # Nothing /\ label \in AsSet(state.completed_tasks) -> closed
         [] OTHER -> [closed EXCEPT !.completed_tasks = Append(@, label)]

TaskUpdated(state, event) ==
    IF event.task_id = Nothing \/ event.task = Nothing
    THEN state
    ELSE WithRefs(state, Put(state.open_task_refs, <<"id", event.task_id>>, event.task))

TaskDeleted(state, event) ==
    IF event.task_id = Nothing
    THEN state
    ELSE WithRefs(state, Without(state.open_task_refs, <<"id", event.task_id>>))

\* The file moves to the end of the list.
FileModified(state, event) ==
    IF event.file = Nothing
    THEN state
    ELSE [state EXCEPT
            !.working_files = Append(Drop(@, {event.file}), event.file),
            !.last_working_file = event.file]

Noted(state, event) == [state EXCEPT !.notes[event.type] = Append(@, event.id)]

\* The ids of a log are distinct, so the guard against a repeated id is idle.
Apply(state, event) ==
    LET seen == [state EXCEPT !.last_event_id = event.id]
    IN CASE event.type = "goal_set" -> GoalSet(seen, event)
         [] event.type = "task_started" -> TaskStarted(seen, event)
         [] event.type = "task_completed" -> TaskCompleted(seen, event)
         [] event.type = "task_updated" -> TaskUpdated(seen, event)
         [] event.type = "task_deleted" -> TaskDeleted(seen, event)
         [] event.type = "file_modified" -> FileModified(seen, event)
         [] event.type \in NoteTypes -> Noted(seen, event)
         [] OTHER -> seen

ApplyAll(state, events) ==
    LET run[n \in 0..Len(events)] == IF n = 0 THEN state ELSE Apply(run[n - 1], events[n])
    IN run[Len(events)]

BuildState(events) == [ApplyAll(EmptyState, events) EXCEPT !.event_count = Len(events)]

-----------------------------------------------------------------------------
(* snapshots                                                                *)

\* The modifications that compression drops: of no file, or followed by another
\* one of the same file.
Churn(events) ==
    LET modified == {e \in AsSet(events) : e.type = "file_modified"}
    IN {e \in modified : e.file = Nothing \/ \E f \in modified : f.file = e.file /\ f.id > e.id}

Compress(events) == Drop(events, Churn(events))

ByName(dict, kind) ==
    LET entries == {entry \in AsSet(dict) : entry[1][1] = kind}
        names == {entry[1][2] : entry \in entries}
    IN [n \in 1..Cardinality(names) |-> CHOOSE entry \in entries : entry[1][2] = Nth(names, n)]

\* sort_keys: the dict comes back in the order of its keys, "id:" before "legacy:".
Sorted(dict) == ByName(dict, "id") \o ByName(dict, "legacy")

Stored(state) == [state EXCEPT !.open_task_refs = Sorted(@)]

SnapshotState(events) ==
    Stored([BuildState(Compress(events)) EXCEPT !.event_count = Len(events)])

\* Mutant: the stored references are taken as they are.
FromDict_Plain(state) == state

\* The next open task takes the first stored reference with its label that is left.
Take(refs, stored, task) ==
    LET free == {i \in DOMAIN stored : stored[i][2] = task /\ ~Has(refs, stored[i][1])}
    IN IF free = {}
       THEN Put(refs, <<"legacy", Normal[task]>>, task)
       ELSE Append(refs, stored[CHOOSE i \in free : \A j \in free : i <= j])

\* The references in the order of the open tasks.
Ordered(stored, tasks) ==
    LET run[n \in 0..Len(tasks)] == IF n = 0 THEN <<>> ELSE Take(run[n - 1], stored, tasks[n])
    IN run[Len(tasks)]

\* What no open task took follows.
FromDict(state) ==
    LET stored == state.open_task_refs
        ordered == Ordered(stored, state.open_tasks)
    IN [state EXCEPT !.open_task_refs =
           ordered \o Drop(stored, {entry \in AsSet(stored) : Has(ordered, entry[1])})]

AppendUnique(left, right) == left \o Drop(right, AsSet(left))

Present(value, other) == IF value # Nothing THEN value ELSE other

\* StateMerger.merge: each field by its strategy, then the labels the delta
\* completed leave the open tasks.
Merge(base, delta) ==
    [goal |-> Present(delta.goal, base.goal),
     working_files |-> delta.working_files,
     open_task_refs |-> delta.open_task_refs,
     open_tasks |-> Drop(delta.open_tasks, AsSet(delta.completed_tasks)),
     completed_tasks |-> AppendUnique(base.completed_tasks, delta.completed_tasks),
     notes |-> [t \in NoteTypes |-> base.notes[t] \o delta.notes[t]],
     last_event_id |-> Present(delta.last_event_id, base.last_event_id),
     last_working_file |-> Present(delta.last_working_file, base.last_working_file),
     event_count |-> base.event_count + delta.event_count]

\* StateEngine.apply_events: the lists that only grow come from the delta
\* alone, every other field from the replay on top of the base.
ApplyEvents(base, events) ==
    LET final == ApplyAll(FromDict(base), events)
        delta == ApplyAll(EmptyState, events)
    IN IF events = <<>>
       THEN base
       ELSE Merge(base, [final EXCEPT !.completed_tasks = delta.completed_tasks,
                                      !.notes = delta.notes,
                                      !.event_count = Len(events)])

\* IncrementalResumeEngine.resume, with the snapshot taken behind the cut-th event.
Resumed(events, cut) ==
    ApplyEvents(SnapshotState(SubSeq(events, 1, cut)), SubSeq(events, cut + 1, Len(events)))

=============================================================================
