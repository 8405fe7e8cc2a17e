# A verification project for AllBrain MCP

TLA+ models of the parts of AllBrain where threads, processes and workers meet, and of the
algorithms they rely on: the event store, the session table, the life of sessions across server
processes, the locks inside one process, the work queue, the worker pool and its queues,
snapshots and the resume from them, the task view, the workflow engine, and the repair of histories. TLC checks the models
on small instances; TLAPS proves, for every value of the constants, the safety of all of them,
that the graph algorithms compute what they should, that a resume from a snapshot gives what a full replay gives, and that the event store implements an append-only log and - on SQLite - the session table and the work queue tables whose
operations are atomic. Paths below are relative to `src/allbrain/` unless they start elsewhere.

## 1. Inventory

AllBrain is an MCP server (FastMCP, stdio) that gives coding agents a shared memory. Every
agent starts a **server process of its own**; all processes of a project share **one database**
(SQLite in WAL mode by default, PostgreSQL as the CI-validated alternative;
`docs/two-agent-pilot.md`). Inside a process an asyncio event loop runs the middleware and two
background loops, and a thread pool runs the bodies of tools and the loops' database calls.
The database is the only channel between processes.

`docs/package-maturity.md` separates the production core from opt-in and experimental packages
(world models, counterfactuals, evolution, governance, ...). Most of the 757 source files are
the latter: sequential heuristics over event lists. The behaviour that is hard to test sits in
the core:

| component | state | operations | interacts with | what makes it correct |
|---|---|---|---|---|
| database transactions (`storage/database.py`) | SQLite's writer lock, `_SQLITE_WRITE_LOCK` | `open_write_session` (BEGIN IMMEDIATE), `open_light_write_session` (BEGIN DEFERRED), `open_session` | all below | a decision made in a transaction still holds when it is written |
| event store (`storage/event_repository.py`, `events/integrity.py`, `server/tools/_events.py`) | table `event`, `project.next_event_position` | `append_event`, `list_events*`, `verify_integrity`, cursor iterators | sessions, queue, snapshots | gap-free positions, an unforked hash chain, cursors that miss nothing |
| session table (`storage/session_repository.py`) | table `session` | create, touch, close, reconcile, cleanup | event store, lifecycle | a session ends once, for the right reason, and stays ended |
| session lifecycle (`server/lifecycle*.py`, `server/context.py`, `server/tools/sessions.py`) | `_active_session`, `git_baseline` in each process, `_session_lock` | `on_call_tool`, heartbeat and cleanup loops, finalization, `close_session` | session table, event store | one start and one summary per session; nobody works in a dead session; abandoned sessions end |
| work queue (`server/queueing.py`, `server/tools/queue.py`) | tables `queueitemrecord`, `workerleaserecord` | enqueue, claim (with recovery), renew, complete, fail | event store, sessions | one holder per item, bounded attempts, nothing lost, nothing starved |
| locks of one process (`server/context.py`, `storage/database.py`) | `_session_lock`, `_SQLITE_WRITE_LOCK`, the database's lock | the order in which calls take them | all of the above | every deadlock ends, no wait is unbounded |
| worker pool and agent queues (`domains/collaboration/agents/worker.py`, `queue.py`, `queues/`) | loops, `_in_flight`, `_stop_event`; records in memory, in SQLite, or in the stand-in for Redis | start, stop, submit, join; enqueue, dequeue, ack, nack, renew, recover | work queue's tables | the counter that `join` trusts, one runner per item, bounded attempts, everything settles |
| snapshots (`server/tools/_snapshot.py`, `storage/snapshot_repo.py`, `snapshot/`) | a lease (directory or advisory lock), table `snapshotrecord` | `maybe_auto_snapshot`, `create_snapshot`, `rebuild-snapshots` | event store | one builder at a time, none built twice, what is due is built |
| state and resume (`core/`, `domains/memory/resume/`) | none between calls | snapshot + delta, full replay | event store, snapshots | both give the same state |
| task state and orchestrator (`orchestrator/`, `domains/memory/resume/orchestrated.py`) | derived from events | task view, metrics, queues, next step | event store, snapshots | the paged projection agrees with the log |
| workflow engine (`domains/collaboration/workflow/`) | a graph of subtasks | create, step, run, resume, failure with cascade | agents | dependencies respected, done is final, it completes |
| history repair (`storage/history_repair.py`) | none between runs | merge of source databases, repair of sessions | event store, session table | streams stay whole, sources are taken over once and in order, what is ended has its summary |
| conflict detection, replay frames, decision pipeline | derived from events | reducers | event store | agree with the log |
| security filters, CLI, installers, dashboard | - | pure or offline | - | - |

The hazards found in this code, each at its line with the properties that watch it, are in
`PROJECT.json` (`hazards`). The hard behaviours are: transactions of several processes whose
reads and writes interleave differently on the two databases; heartbeats, closes,
reconciliations and deletions of the same row; processes that crash, hang or sleep between two
transactions of one logical operation; in-memory copies of rows that have changed; leases that
expire while an answer is under way; locks taken in opposite orders; pools that are stopped,
restarted and killed; snapshots that are cut anywhere in a log.

## 2. Modules

| module | models | proofs |
|---|---|---|
| `EventStore` | event store and write transactions | `EventStoreProofs` |
| `EventLog` | what the store promises: an append-only log per project | |
| `EventStoreRefinement` | `EventStore` implements `EventLog`: the mapping | `EventStoreProofs` |
| `SessionTable` | what the session table promises: repository calls that take effect in one instant | |
| `SessionRows` | session table, one transaction = a read step and a commit step; implements `SessionTable` on SQLite | `SessionRowsProofs` |
| `SessionLifecycle` | servers, calls, heartbeats, reconcilers, finalization, crashes | `ServersProofs` |
| `WriteLocks` | the three locks a thread of a server takes, and in which order | `ServersProofs` |
| `WorkQueue` | what the work queue promises: operations that take effect in one instant | |
| `LeaseQueue` | work queue, one transaction = a read step and a commit step; implements `WorkQueue` on SQLite | `LeaseQueueProofs` |
| `AgentPool` | worker pool over the queues in memory, in SQLite and in place of Redis | `AgentPoolProofs` |
| `SnapshotStore` | who builds snapshots, and when: lease, due check, builds without the lease | `SnapshotProofs` |
| `StateReplay` | the state machine, compression, stored JSON, merge and resume, as operators | `SnapshotProofs` |
| `TaskReplay` | the task view, the agents' metrics and what is derived from them, as operators | `SnapshotProofs` |
| `ProjectLog` | a log that grows, and the two ways of reading it compared at every cut | `SnapshotProofs` |
| `Workflow` | the workflow engine on every graph of its nodes | `WorkflowProofs` |
| `WorkflowGraph` | search for cycles, topological sort, critical path | `WorkflowProofs` |
| `HistoryRepair` | `repair-history --apply` beside live servers | `HistoryRepairProofs` |
| `Dialect`, `Ranks` | the constant `Backend` with its assumption; `ORDER BY` over a set of numbers | |
| `MCSqlite`, `MCPostgres`, `MCServers`, `MCSnapshots`, `MCAgentWork` | instances that run side by side, see below | |
| `MCLeaseQueue`, `MCSessionLifecycle`, `MCReplay`, `MCEvents` | instances for TLC: symmetry sets and structured constants | |

`SessionRows` and `LeaseQueue` have as their steps the two halves of one transaction;
`SessionLifecycle` has as its steps whole repository calls. What entitles it to that is proved of `SessionRows`
(`AtomicCalls`): on SQLite every repository call takes effect in one instant, at which all it decided is true. `WriteLocks` goes the other way and takes one such call apart into the
places where it takes a lock. `SnapshotStore` knows a snapshot by its cursor alone; what is behind the
cursor is the subject of `StateReplay` and `TaskReplay`.

**Side by side.** Five MC modules extend several specifications that run on one database (`MCSqlite`, `MCPostgres`) or
belong together (`MCServers`, `MCSnapshots`, `MCAgentWork`) and share no variable. A variable `part`
says which of them moves in a behaviour while the others rest in their initial states, so the state
space is the sum of the parts and not their product, and fairness asks only of the part that moves. Every
property of such a run is a property of one part, and holds of the others in their initial states.

Operators named `<Definition>_<Bug>` and commented "Mutant" are used by no specification. Each
is a variant of the definition after it with a plausible bug, and the property it stands for is
violated when the definition is replaced by it: evidence that the property depends on that code.

### EventStore

* A **writer** is a thread or process. `Begin` is `open_write_session`: on SQLite it takes the one
  writer lock (`lock`, all projects), on PostgreSQL nothing. `ReadHash` is `_append_event_core` up
  to `attach_integrity_hash`; `Insert` is its rest: the `UPDATE ... RETURNING` takes the project's
  row lock on PostgreSQL, claims the position, and the row is added. A tool that passes its own
  `_session` appends a batch: `ReadHash; Insert` repeats up to `MaxBatch` times before `Commit` or
  `Rollback` (exception or death).
* A **reader** follows `list_events_paginated` without end, or `iter_event_pages_through_cursor` up to a
  high-water mark. Each page is one query.
* A hash is represented by the position of the event that carries it: SHA-256 over predecessor and
  body is injective for our purposes, and positions are unique in a stream. `Mismatches` is
  `verify_hash_chain`; legacy rows (numbered by `ensure_stream_position_columns`) have no hash.
* Left out: payloads, redaction, filters of the list queries, the check of the session row (it is in
  `SessionRows`), creation of the project row.

### SessionTable, SessionRows

* `SessionTable` has one action for each repository call - `Creates`, `AppendsTo`, `Touches`, `Closes`, `Reconciles`,
  `Cleans` - that reads and writes at once. `Reconciles` ends **all** sessions that have expired before some cutoff of
  the past and no other. `SessionRows` EXTENDS it, keeps its three variables and takes the calls apart; its property
  `CallsAreAtomic` is the specification of the table. It fails on PostgreSQL, where finding 2 is a counterexample.

* A **client** is a thread of some server process. `CreateSession` and `AppendEvent` write without a
  decision that could go stale, and are one step. `TouchRead`, `CloseRead` and
  `CleanupRead` read and decide (`call[c].after` is what they will write); `CommitCall` writes, `RollbackCall` gives up.
  A reconciliation has two queries, which on PostgreSQL see different states: `ReconcileRead` finds what has expired,
  `ReconcileEvents` looks for the newest events of that and decides.
* SQLite: the readers of `open_write_session` hold `writer` until they end. A heartbeat runs DEFERRED: its
  write needs the lock and fails (`SQLITE_BUSY_SNAPSHOT`) when anything was committed after its
  read (`behind`). SQLite reuses the id of a deleted session (no AUTOINCREMENT) and does not enforce foreign keys
  (no such PRAGMA).
* PostgreSQL: READ COMMITTED; ORM updates name the changed columns and are keyed by id; a row
  that is gone raises `StaleDataError`; ids come from a sequence; a session that events refer to cannot be deleted.
* Cutoffs and `ended_at` are computed by callers before the transaction, hence the nondeterministic
  `cutoff`, `before` and `ended`. There is one host clock.

### SessionLifecycle

* Per server: `mem` is `_active_session` and `git_baseline` (`None`, the `{}` that reserves the
  initialisation, or a fingerprint); `call` its tool calls; `beat`, `clean` and `final` the heartbeat loop, the
  reconciler and the finalization. `row` and `log` are the database.
* The middleware and the finalization are synchronous on the event loop (`LoopFree`); tool bodies,
  heartbeats and reconciliations run in threads and interleave with everything. `_session_lock` is
  modelled where it excludes something: finalization holds it throughout (`LockFree`).
* `Crash` replaces a process at any point; `StartFails`, `FinalizeFails`, `BeatGitFails`, `SummaryFails` and the two
  flags of `FinishCall` are the error paths. `Expire` says that a session has not been touched for
  `STALE_AFTER_SECONDS`: a hang, a sleeping host or a dead server can always bring that about.
* A server has one reconciler: the loop and the tool `cleanup_stale_sessions` do the same, and two servers have
  two of them. Tools do not audit themselves (`central_audit_enabled` is set by the CLI).
* A row says in `by` what ended its session: a finalization, the tool, or a reconciliation. `close_reason` is left out, since
  `close_session` writes any string there that its caller passes, `stdio_eof` included.
* Left out: the snapshot at the end, client info, contents of events other than their kind.

### WorkQueue, LeaseQueue

* `WorkQueue` has one action for each operation: `Adds`, `TakesBack` (leases that have expired), `Grants` (the oldest item
  that waits once they are back), `Renews`, `Completes`, `Fails`. `LeaseQueue` EXTENDS it and takes the operations apart; its
  property `OperationsAreAtomic` is the specification of the table. A claim decides at its beginning what has expired, so that
  it may leave alone what expires while it runs: `E \in SUBSET Overdue(item)`.

* A **worker** is a server process. Every operation has a `...Read` step (all its SELECTs and the
  decision; `seen` is what it read) and a step that writes and commits.
  `Sweep` is a claim that recovers expired leases and finds nothing; `Claim` also leases the oldest
  claimable item, with the guarded UPDATE; `ClaimLoses` is that UPDATE finding no row, after which the
  loop tries again (the bound of five tries is left out).
* `Recovered` decides from the attempts that were read and writes the columns the ORM writes, keyed by id.
* `log` counts the events the queue appends in the same transaction (`_event`), `leases` are the
  `workerleaserecord` rows. A lease id is its number among the leases of its item.
* `left` counts the ticks until a lease expires; the comparisons are those of the code:
  recovery takes `<= now`, an answer is refused when `now > expires`.
* `CutShort` is `_event` failing without a session, a lock timeout, or death.
* `Enqueues` and `Claims` end a transaction that `EnqueueRead` or `ClaimRead` began; their losing halves occur on PostgreSQL alone.
* `Idle` is a step of the model alone: when every item is settled nothing is left to do.

### WriteLocks

* A call is the sequence of the places in its code where a lock is taken or given back: `hold`/`unhold` for
  `_session_lock` (reentrant), `glance` for a property that is read under it, `begin`/`commit` for the database's lock,
  `enter`/`leave` for `_SQLITE_WRITE_LOCK`, `append` for the claim of a position, which on PostgreSQL takes
  the project's row. `Program` lists the kinds: a plain append, a queue tool (`_event` looks at the session inside the
  transaction), `record_git_changes`, finalization, and writes that do not use the Python lock.
* `Fails` and `Locked` raise; `unwinding` is what the exception passes on its way out. `Other` is another process.
* `Awaits` and `Deadlocked` define a wait-for graph: a set of threads each of which waits for one of the set.
* A wait for SQLite ends after `busy_timeout`; time is not counted, and `Locked` is enabled only where
  waiting takes that long: behind another process or in a deadlock.

### AgentPool

* Everything of one pool runs on one event loop, so a step is what the code does between two
  suspensions: a dequeue (with the recovery before it), an answer with its accounting (`PutDown` is `_in_flight`
  and where the loop goes next), one look of `join`.
* `backend` chooses the queue. `item` are the records of SQLite or of the dict in place of Redis, `order` the
  asyncio queue or the age of the records. `Enqueue`, `Expired`, `Nacked` differ by backend as the code does.
* `Stop` sets the event and cancels; `Cancelled` is `CancelledError` where the loop is suspended; `Crash` loses what
  is not in the database; `LoopDies` is a database error that no `except` of the loop catches.
* Left out: statistics, the idle event (`join` looks again after half a second), `workerleaserecord` rows (this queue
  writes and never reads them), a handler that outlives its cancellation.

### SnapshotStore

* A **builder** is a thread of some process. `Call` is the gate of a write tool (`_event_count`), `Finalize` the
  forced check at the end of a session. `Ask`, `RemoveStale` and `Remake` are the three system calls of
  `_snapshot_lease` on SQLite - `mkdir`, `rmdir` of a stale directory, `mkdir` - with anything in between; on PostgreSQL
  an advisory lock is taken or not. `Look` (the latest snapshot and its age), `Count` (the events behind it, a query of its own),
  `Read`, `Stamp` and `Save` are the build, `Release` the end. `RemoveFails` is the directory that cannot be removed, of a
  stale lease or of one's own: it stays, and is stale some day.
* `get_latest` goes by `created_at`, which is taken (`Stamp`) before the wait for the write lock: a row that is inserted
  late may be behind one that is there already (`later`), so that `latest` is not the one committed last.
* `Manual`, `ManualRead`, `ManualSave` are `create_snapshot`, and `Rebuild` the command, neither under the lease.
* `broken` and `overtaken` are history: a lease was removed under its owner; another build saved since this one looked.
* Weights: every semantic event has weight one; the table of weights and thresholds is configuration.
* Left out: an unlock that fails on PostgreSQL. The connection is broken then, and the lock goes with it.

### StateReplay, TaskReplay, ProjectLog

* A Python dict is the sequence of its entries; `Normal` folds white space and case of labels, and the events of
  `MCEvents` include labels that are equal and labels that are equal once folded.
* `Apply` and `ApplyToTasks` are the handlers of the two reducers, `ApplyAll` and `ApplyPage` their loops, written as recursive
  functions over the length of the log. `SnapshotState` is what the builder stores:
  compressed (`Compress` drops `Churn`) and in the key order of the JSON (`Sorted`); `FromDict` restores the order by the labels;
  `Resumed` is `IncrementalResumeEngine`, `Projected` is `load_task_projection` page by page.
* All 33 types of `TASK_EVENT_TYPES` are handled. A task keeps its subtasks by node, and in `lists` the entries of the lists that
  nine types append to, each with its type. A goal stands for the related files, too.
* What is derived from the tasks (`AgentQueue`, `Decision`) sorts them by priority and id, so that it is an operator on the set of tasks: the order
  of their first events, which the stored JSON loses, is not compared.
* `Decision` is `_decision_view` with the scheduler behind it: who may be asked (`Healthy`: not after too many failures in a row, until the last is
  old), who is suited to this kind of task (`Suited`), who is best (`Best`: score, failures, blocks, id), and escalation when nobody
  is. What a score is made of - the agent's weight for the kind, its counts, its load - are the arguments of a constant operator `Score`, so that the proof holds
  for every formula; the instance computes that of `score_agent` in thousandths. Time is a set of failures that are old.
* `ResumeKeepsState` says what a resume owes: the open references in their order if no two open tasks had one label at the cut, and the open tasks
  of a full replay without the labels completed since - the merge filters by label (finding 5). With no delta
  the order of the stored references is not restored (`StateEngine.apply_events` returns the stored state) and nothing is said of it.
* `ProjectionKeepsTasks` says the same of tasks, edges, handoffs, queues, metrics and next step, at every cut and the cut 0. Two exceptions are
  stated: a subtask event without a node (`NodesNamed`) and a version named with a file modification that compression drops; see the observations.
* `ProjectLog` appends any of 28 events and compares, at every cut, the two readings.
* Left out: git, the presentation of the answer; the scheduler's exploration, which never happens (see the observations).

### Workflow, WorkflowGraph

* `step` is one synchronous call whose input are the failures `F` and completions `C` that came since the last. The
  retry count is added to twice, as in the code. When nobody is eligible scheduling raises after the answers were taken: the second branch.
* `Save` and `Reload` are `to_dict`/`from_dict` around a lost process, `resume` is
  `resume_workflow` and the `run` behind it, which may raise as well. Its results may be the first answer of a running node.
* `budget` is the `max_retries` of every node. `Cascade` is what `_cascade_block` visits; what of it is moved the state machine decides (finding 6).
* `held` are the nodes somebody was told to run: the engine executes nothing itself.
* `WorkflowGraph` has the algorithms of `DependencyEngine` and, next to them, definitions of what they compute, for every graph and every
  priority. Each loop is a recursive function of its rounds. The search keeps the path of gray nodes and the set of black ones, and a
  round is what `dfs` does next: go on to a successor that is not black, leave the node, or start from the next root; it ends where a
  gray successor closes the path. `Kahn` takes the least node whose `in_degree` is 0, which is what keeping the queue sorted does. `Relax` looks at
  all successors of one node, `Back` goes one step along `prev`. Where the code goes by the order in which nodes or edges were added
  (the successors in `dfs`, `end` among equals) the model takes the order of ids; the proofs use only that
  it is one of them that is taken.
* Left out: scores (any choice among the ready), aggregation of results, edges of other types.

### HistoryRepair

* The merge is one transaction of the sqlite3 driver, which begins it at the first INSERT: `known` and, when no session is new, `base`
  are read before there is a lock. `PositionsTaken` is the unique index met when drafts are flushed, by the first query of the next source or
  by the commit (`MergeSessions`, `MergeCommit`); `locked` keeps the live servers out from the first flush on.
* `MergeSessions` and `MergeEvents` are two queries on a source that goes on being written: an event of a session that was started between them
  is a `KeyError`. That, a clash of positions, a missing row and the death of the process are `Stops`: the transaction is rolled back, and the
  command may be started again.
* `RepairList`, `RepairLook`, `RepairSummarize`, `RepairClose` are the reads and calls of `_repair_sessions`, with anything in between.
* `Missing` lists the events of a source that are not known yet by their rank (`Nth` of `Ranks`), not by recursion, so that proofs can speak of it.
* A session stands for the pair (agent, `started_at`) by which a merge recognises it. One project, one run of the command at a time.
* A merge takes over a session in any state (`Imported`): active, fresh or expired, empty, or ended (`stale` stands for closed and failed, too). Servers write
  to the sources as they do to the target (`SourceStarts`, `SourceAppends`).
* Left out: hashes and payloads (see the observations), the preview, the backup, the baseline snapshot.

## 3. Runs

| run | question | result |
|---|---|---|
| `tables_sqlite` | do three writers and a reader on two projects keep stream, chain and scans right on SQLite? does every call on the session table take effect in one instant, and do sessions end once and rightly, whatever races? does a merge of two copies beside live servers keep the stream whole and take the sources over in order, and do repaired sessions have summaries? | holds |
| `tables_postgres` | what survives on PostgreSQL: the store implements `EventLog`, no session is resurrected, every lease of the queue is answered at most once | holds |
| `store_postgres_audit` | is the chain unforked on PostgreSQL? | **violated** |
| `rows_late_heartbeat` | can a heartbeat land after the end on PostgreSQL? | **violated** |
| `lifecycle` | has every session a summary that a finalization closed, is a reservation of the start ever left behind, do abandoned sessions end, get their summaries and lose their servers? does every deadlock between the locks of a server end, and every call? | holds |
| `lifecycle_started` | does every call run in a session that was started? | **violated** |
| `queue_sqlite` | one holder, bounded attempts, one story on SQLite? does every operation take effect in one instant? are expired leases taken back and does every item get its turn? | holds |
| `queue_two_holders` | one holder on PostgreSQL? | **violated** |
| `agent_work` | is the counter right that `join` trusts, does a second worker run an item only after its lease ran out, does every item settle and `join` return - on three queues, with stops, restarts, crashes and database errors? on all graphs of three nodes, with budgets of none and of three retries: dependencies respected, done is final, all completes that is not lost, algorithms right? | holds |
| `snapshots` | one builder at a time, nothing built twice, is what is due built though builders hang and die? are the resumed state and the task projection those of a full replay, wherever the snapshot was cut? | holds |
| `replay_parity` | are the open tasks the same, too? | **violated** |
| `workflow_exhausted` | is what depends on a node that is given up blocked with it? | **violated** |

### Findings

1. **Forked hash chain on PostgreSQL** (`storage/event_repository.py:176`). The newest hash is read before
   the `UPDATE` that serialises appends, so two writers chain to one event and the audit reports
   tampering. On SQLite the writer lock is taken first, and `HashChain` is a theorem.
2. **Late heartbeat on PostgreSQL** (`storage/session_repository.py:84`). The status is checked by a SELECT and the update is by
   id. The session does not come back to life (`NeverResurrected` holds: only one column is
   written), but `last_heartbeat_at` passes `ended_at`, which `docs/roadmap.md` rules out.
3. **Calls in a session that was never started** (`server/lifecycle_session.py:166`). `git_baseline is None` means "not started"
   to `ensure_session_started` and "no baseline" to `record_git_changes`, which sets it. No race is needed:
   `close_session` detaches the session, the `record_git_changes` at the end of the same call finds no
   baseline and leaves one, and the next session runs its calls without a `SESSION_STARTED`. A heartbeat's
   comparison that outlives its session has the same effect.
4. **Two holders of an item on PostgreSQL** (`server/queueing.py:317`). `_recover_expired` writes by id what it decided on an
   earlier read. On SQLite `OneHolder` is a theorem.
5. **A resumed project forgets an open task** (`core/merge.py:39`). The merge removes every label that was completed behind the
   snapshot from the open tasks, also one that was started again since; a full replay keeps it. Three events suffice.
   Everything else of the state agrees at every cut (`ResumeKeepsState`).
6. **The cascade blocks nothing** (`domains/collaboration/workflow/recovery.py:132`). With a state machine, which the engine always passes, blocking a successor
   is the transition PENDING to BLOCKED, which its table does not have (`state_machine.py:19-29`) and whose refusal nobody looks at. What depends on a
   node that is given up stays PENDING, the workflow is never done, and the step reports `workflow_state_changed` to blocked for nodes it
   has not changed (`engine.py:134-143`). `docs/sprints/sprint9/architecture.md:224-226` says all successors become BLOCKED, and
   `tests/test_workflow_engine.py:254-266` asserts it, but for a call without a state machine. The run has nodes without
   retries. With `Budgets = {1}` the same definition fails at its other conjunct: the failure is counted
   twice (`handle_failure` and the transition), so that a node whose budget the second count uses up stays FAILED instead of BLOCKED, and `max_retries = 3` allows one retry.

### What one can see by checking another definition or another constant

These definitions are in the modules and no run checks them, because the code does not satisfy them or because a
listed finding says the same:

* `SummariesUnique` in `Servers.cfg`: two summaries of one session. The re-read of the row
  (`server/lifecycle_session.py:78`) narrows the window, but the summary is appended two transactions later.
* `OnlyEventlessDeleted` of `SessionTable` in `Sqlite.cfg` is violated (`storage/session_repository.py:206`). SQLite does
  not enforce the foreign key, `append_event` does not look at the status, so a hung server can append to a session that was
  called empty; cleanup then deletes the row and leaves events without a session. On PostgreSQL the foreign key refuses the deletion. But a reconciliation whose
  session gets its first event between the two queries and the commit leaves an "empty" session with an event there, and as
  cleanup deletes all empty sessions in one transaction, that row makes every later cleanup of the project fail.
* `Backend = "postgres"` in `LeaseQueue_sqlite.cfg`: `OperationsAreAtomic` and `CompletedForGood` of `WorkQueue` are violated: a recovery decided before a completion
  queues the completed item again. The same race can leave an item queued with its attempts used up, which no claim selects.
* `PythonLockFirst` in `WriteLocks`: `tests/test_open_write_session_lock_order.py:1-13` demands the Python lock before BEGIN; the code
  does BEGIN first. Of the two orders the code's is the better: with the demanded one (`LockOrder_PythonFirst`) the deadlock of
  `_event` with `record_git_changes` would have no member that waits with a timeout, and last.
* `Backend = "postgres"` in `Servers.cfg`: `DeadlocksTimeOut` is violated. `_SQLITE_WRITE_LOCK` is taken on PostgreSQL, too, where nothing
  has admitted one writer before it: one thread holds it and waits for `_session_lock`, the other has `_session_lock` and waits for it, for good.
* On SQLite the deadlock ends after 30 seconds with "database is locked", which the comment of `storage/database.py:20-23` says is kept from
  surfacing. Finalization also holds `_session_lock` while it runs `git` (`build_fingerprint`), so every other call waits for that.
* `CompletedIsFinal` in `AgentPool` (`docs/sprints/sprint13_reliability_architecture.md:19`): a late `nack` queues a completed item again, since
  `ack` and `nack` do not compare lease ids (`domains/collaboration/agents/queues/sqlite.py:118`). `CompletedForGood` therefore speaks of items whose
  lease never ran out. Likewise by design of the model's properties, not of the code: an item at its last attempt whose worker died stays leased
  for ever on SQLite (`ItemsSettle` names the exception); a failed item is refused as a duplicate on SQLite for good; `join` returns while an
  item is leased to a process that died (`JoinMeansIdle` is about this pool); a database error in a dequeue or in a nack ends the worker's loop.
* `Mutex` in `SnapshotStore` (`server/tools/_snapshot.py:104`): a holder slower than the staleness bound has its lease removed and removes, when it
  ends, the next holder's. `LeaseExclusive` and the theorem say that this is the only way.
* `EmptyIsEmpty` and `EventsHaveSessions` in `HistoryRepair`: the events of a session are read in one transaction and the row is closed as "empty" in
  another (`storage/history_repair.py:190`), and a later merge adds the events of a source to a row that was called empty; `cleanup_empty_sessions`
  then deletes the row under them. The reconciliation of a live server does the first of the two, too.
* `DeletedNotQueued` in `ProjectLog` (`server/tools/tasks.py:541`): a deleted task stays in its owner's `agent_queue`, whose filter knows
  only completed and failed tasks; the next step may be "continue" with it.
* A snapshot that waited for the write lock is inserted with an earlier `created_at` than one that was saved meanwhile
  (`storage/snapshot_repo.py:34`): the next reader starts from the other one, whose cursor may be the older (`later` in `SnapshotStore`).
* `resume` of a workflow asks for RUNNING to READY (`recovery.py:91`), which the state machine refuses: a node whose worker died is never run again
  unless somebody reports its result (`Lost` counts it); `run` completes nothing itself.

Compression also drops a `file_modified` event that names no file (`snapshot/deduplicator.py:16-19`): if a snapshot is taken right behind such an
event and nothing follows, the `last_event_id` of the resumed project is that of an earlier event. `ResumeKeepsState` makes the exception.
An `agent_version` that is named only by a `file_modified` event that compression drops is lost from the metrics behind the snapshot (`orchestrator/metrics/agent_performance_reducer.py:47`),
and a subtask event without a `node_id` is filed under the key `None` (`orchestrator/task_state.py:259`), which the stored JSON turns into "null" or, beside a named
node, refuses to sort (`storage/snapshot_repo.py:32`): `ProjectionKeepsTasks` makes these two exceptions.

Read but not modelled, for the record: `close_session` passes any `reason` on (`server/tools/sessions.py:94-104`), so that `stdio_eof` in a row is no proof that a
finalization closed it; `user_feedback`, which the metrics count, is no event type that `save_event` accepts; a session that a merge took over as already stale has no
summary unless its source had one, since the repair looks at active rows alone (`RepairedHaveSummaries` is about what the repair ended); `claim_task` announces a `TASK_CLAIMED` event (the code emits `LEASE_ACQUIRED` and
`QUEUE_ITEM_DEQUEUED`); `close_session` announces `SESSION_CLOSED` (none is created); the lease row of an expired lease stays `active`;
`add_task_dependency` says that a task is not assigned before its dependencies are completed, which `assign_task` does not look at; `create_task` with
`enqueue=true` and no agent raises after its event is committed; `repair-history` imports events with the hashes of their source behind another
chain, which the audit reports; the scheduler draws from a fresh `Random(0)` in every call, so that it never explores; `EventReplayEngine._copy_state`
copies shallowly.

### Bounds and why they are enough

* Store: three writers on SQLite, because two can only alternate, and two on PostgreSQL; batches of
  two, so that a transaction sees its own rows; a legacy row, so that the chain restarts after one; pages of one and
  of two, so that boundaries fall inside and at the end of a batch; four events. The proofs cover the rest.
* Merge: two copies, empty or with one event in common, one session of the sources and one of a live server, three event ids: enough for a merge, more events in a copy,
  and an append of the live server between the claim of a position and the lock (with four ids the two parts of `Init` give 2.8 million states and no other answer).
* Session rows: two clients and two sessions (id reuse needs a second one): on SQLite at most one writer and a heartbeat are
  under way that matter to each other, and `AtomicCalls` is proved for any number; a clock of three ticks with
  expiry after one, so that a row can be created, expire, be ended and be deleted.
* Lifecycle: two servers, one that stays and one whose client calls tools, two at a time; one session id, which is
  given again after a deletion. `lifecycle_started` has two ids and one server.
* Locks: two threads and another process; three threads find nothing more, and the safety properties are proved for any number.
* Queue: two workers, two items (head of the queue and the one behind it), two attempts, leases of
  one tick: what matters is only whether a lease has expired when an answer or a recovery arrives. On PostgreSQL one item, since `AnsweredOnce` is about one.
* Agent pool: two workers of which one may lose its loop, two items, three submissions (so one is a duplicate), two attempts, two
  troubles (a stop and a crash, or a crash in the restarted pool), a queue in memory that holds one item, so that it overflows.
* Snapshots: two builders, three events with a threshold of two, a look every second call, one tick between builds, a lease that is stale
  after its first tick, two troubles, so that a builder can die with the lease its rescuer then breaks.
* Logs: four events, of the 12 that matter to a resume (two ids and four labels of which two fold to one) or of the 16 that matter to the task tools
  (two tasks, three agents, two nodes); pages of two. Two tasks, a completion and a second start fit in, and so do two failures and a handoff; every cut is compared. One
  failure makes an agent unhealthy, where the code has five (`UnhealthyAfter`), so that the escalation and the second choice are reached.
* Workflow: all 512 graphs on three nodes - chain, fork, join, cycles and loops; budgets of no retry (a first failure is given up) and of three (one in effect), two failures,
  one crash, two started by a step, so that one of three has to wait; priorities 1 and 2 in the algorithms. `workflow_exhausted` needs one failure and no retry.
* Symmetry is used for writers, clients, servers and workers, in runs without liveness properties, whose constants do not
  distinguish them.
* Deadlock is checked, but for `snapshots` and `replay_parity`, whose bound ends the log, and `agent_work` and `workflow_exhausted`, where a refused graph or a finished
  workflow is the end. In `tables_postgres`, `Ends` is a stutter of two parts: their ids run out, or the race above leaves an item nobody can claim.

### Fairness

* `SessionLifecycle!Fairness`. `BeatStep` is strongly fair: an event loop runs what is ready in turn, so that
  calls can delay the heartbeat but not for ever. Threads and the finalization go on (weak fairness), calls that
  have begun proceed, time passes (`Expire`). `Reconcile` is fair only for `Stable` servers, which neither
  crash nor leave nor have a database call of a reconciliation fail: the claims are about a system in which one
  such server remains. The hypothesis of `StaleSummarized` is real: a reconciler that dies between
  its two transactions leaves stale sessions without a summary for good.
* `WriteLocks!Fairness`. Who tries again and again for a lock gets it some day (strong fairness: lock queues and SQLite's busy handler are
  fair in practice, not by contract); `busy_timeout` ends (`Locked`), and so do other processes' transactions.
* `LeaseQueue!Fairness`. Time passes, transactions end, and a stable worker keeps polling; strong fairness,
  since the writer lock comes and goes and `busy_timeout` queues for it. The other worker may die at any moment.
  That the oldest item is served first does not starve the others only because attempts are bounded.
* `AgentPool!Fairness`. The application starts its pool again, handlers end, cancelled loops end (`stop` awaits them), time passes, and the
  loops of `Stable` workers go on. Nothing is asked of the others, nor of submissions.
* `SnapshotStore!Fairness`. A stable server's tools are called again and again; the other builder may hang anywhere on SQLite. On PostgreSQL it
  must end some day, since only the end of its connection frees an advisory lock.
* `Workflow!WorkflowFairness`. The caller creates the workflow and goes on stepping it; the agents get another chance 15 minutes after a failure (`RECOVERY_AFTER`), so that a step
  does not fail to find one for ever; each node somebody was told to run is answered some day, with success once the bound on failures is spent. `WorkflowCompletes` does not
  speak of what is `Lost`: nodes that failed for good, nodes whose worker died, and what depends on them.

## 4. Proofs

All proofs are about `Spec` of the module and use no assumption but the ASSUME on its constants;
nothing bounds the number of writers, sessions, items, workers, builders, nodes or steps. What holds on one database
alone says so in its hypothesis (`Backend = "sqlite"`, `SQLiteThreads` for the locks).

* **EventStore.** `PositionsContiguous` is not inductive: a commit writes the transaction's own counter. `IInv`
  adds `TransactionsOK` (an open transaction that has claimed positions holds the project's lock, and what it sees -
  committed rows plus its own - is contiguous up to its counter), `ChainOK` (on SQLite that view has no mismatch and
  `head` is the hash of its newest row), `ReadersOK` (what a reader has seen is the interval from its start to
  its cursor) and `BatchesOK` (the rows of a transaction are its author's and continue the stream). `Invariance` has one
  lemma per action; `NoGaps`, `HashChain`, `CursorsMissNothing` and `ScansAreComplete` follow. `VerifyIntegrityOK`, which
  `HashChain` proves on SQLite, follows from `ChainOK` and is checked by itself only where it fails.
  `Implements` is the refinement of `EventLog`, on both backends. Its mapping reads the log off the set of rows
  (the row at each position) and a client's inbox off what it has seen, by rank. A commit is `Extend` by the whole
  batch (`CommitRefines`), opening a scan is `Open`, a page is `Deliver` of the next entries or a stutter
  (`ReadPageRefines`), and all else stutters, uncommitted rows included.
* **SessionRows.** `RowsIInv` adds `DecisionsHold`: on SQLite a transaction that has read holds the lock, and what it is about to
  write is what it would decide now; a heartbeat may be out of date but then knows it. So every step is a call of
  `SessionTable` or a stutter (`StepIsCall`, `AtomicCalls`), and `LateHeartbeats`, `SessionsEndOnce` and
  `OnlyExpiredReconciled` are then proved of the six calls of the table, where no race is left to think of. On both backends the
  invariant says what no race can change (`WritesAreFinal`: a pending close or reconciliation ends its row, a cleanup deletes it;
  `IdsIssued`), from which `EndedStaysEnded` is read off each kind of commit (`RowFate`).
* **SessionLifecycle** (`ServersProofs`). `SummaryBeforeClose` is about one step that reads `mem` and closes what it finds, so `LifecycleIInv` adds why
  that is the session whose summary was seen to: a finalizer that is about to close has seen a summary of the session in its memory
  (`SummaryInTime`), and nothing of its own process changes that memory, since its calls have ended, the event loop starts none and the
  heartbeat needs the loop (`FinalizationAlone`). Other processes may close or delete the row, but take no summary from the log.
  `SummaryComesFirst` and `StartsAreBacked` follow, for any number of servers and whatever crashes.
* **LeaseQueue.** `QueueIInv` has for SQLite `LockProtects`: a transaction that has read holds the lock, so only the
  clock has touched what it saw, and its decision is still right. Hence every step is an operation of `WorkQueue` or a stutter
  (`StepIsStep`, `AtomicOperations`); what makes this less than obvious is the clock, which may expire leases between a claim's
  reads and its writes. `LedgerTheorem`, `AttemptsTheorem` and `CompletedStays` are proved of the operations of
  `WorkQueue`; `OneHolder` names the operation under way and uses `LockProtects` itself. On both backends
  `RecordsOpen` (a lease that is being answered was given to that worker and is unanswered) makes `AnsweredOnce` inductive: `AnswersTakeLeases`.
* **HistoryRepair.** That a merge inserts each event once and each source in its order is about three logs and two moments. `RepairIInv`
  adds `LogsAgree` (the sources are copies of one database up to their last common event), `IdsSpent` (ids are never given twice),
  `KnownOK` (the ids a merge knows are those it found and those it will insert, each once; what servers appended since is in
  no source) and `DraftsOK` (the log before a draft is in the stream or among the drafts before it).
  `HistoryMerges` and `RepairSummarizes` follow (`RepairInvariance`), for any number and length of sources and whatever the live servers do meanwhile.
* **WriteLocks** (`ServersProofs`). `LocksIInv` says for SQLite that who asks for `_SQLITE_WRITE_LOCK` or is inside a transaction's body owns the database's lock, and
  who owns the Python lock is in such a body (`ThreadsOK`, `WritersOwnDatabase`, `PythonInTransaction`). A thread that waits for
  the Python lock would then own the database's lock together with its holder, unless the holder has committed: `PythonLockIsFree`. A cycle
  therefore needs a wait for the database's lock, which has a timeout: `NoDeadlockForGood`.
* **AgentPool.** `PoolIInv` joins the count (`InFlightCounts`, by cardinality lemmas about adding and removing one worker), `AttemptsLeft` and
  `OneRunner`: while no lease of an item was taken back its runner is unique and the record leased. `CompletedStaysCompleted` follows, since only a
  runner's answer could touch a completed record; `JoinMeansIdleAlways` needs the count.
* **SnapshotStore.** `LeaseOwned`: who works under the lease owns it until it is broken, and on PostgreSQL nobody breaks it. `StillDue`: the
  build that saves is the only one since it looked. `LeaseIsExclusive` and `NothingBuiltTwice` follow.
* **Replay** (`SnapshotProofs`). `ResumeCorrect` and `ProjectionCorrect` hold of every log, every cut and every page size. The library's induction
  theorems take an operator as a parameter, which the provers cannot instantiate. `LeastNumber` gets the least element of a set of
  numbers from `WFMin`, and `SeqInduction` makes of it: if some log breaks a claim, so does one whose prefixes do not. Each loop has a lemma that
  it consumes one more event (`ApplyAllAppend`, `DropAppend`, `OrderedAppend`, `ApplyPageAppend`). Then:
  * *compression* (`CompressKeeps`). An event appended may make an earlier one churn, so dropping is not a step of the fold. The working files that are
    left when those modified behind a point are taken away (`LeftOf`) are those of the full replay at every point (`CompressStep`); all other fields agree outright.
  * *the stored JSON* (`SortedIs`, `FromDictFinds`). Sorting keeps the entries; the order comes back from the labels, if no two entries have one.
  * *the delta* (`AlongStep`, `Abreast`). A replay from the base and one from nothing, event by event: the lists that only grow are those of the base with those of the
    delta behind, and every other field of the merge is the replay's, but for the labels completed since (`ResumedIs`).
  * *the tasks* (`SameStep`, `SnapshotSame`, `PagesAreOne`). Two task views are the `Same` if they have the same tasks as a set, the same edges, handoffs,
    metrics and versions; every event keeps that, sorting by id and dropping churn keep it, and the pages up to any cursor are one page.
* **Workflow.** `Ordered` for the graph and for its saved copy; the cascade is where it is used: what depends on a failed node has never been started, so
  that blocking finds nothing it may move (finding 6 in other words). `DependenciesRespected`, `DoneStaysDone`.
  `GraphAlgorithmsCorrect` needs only that edges join nodes; each algorithm has an invariant of its rounds and `BoundedInduction` over
  their number. The search (`SearchOK`): gray is a path, what is black leads only to what is black, and every part of that has a node
  nothing else in the part leads to, so that it holds no cycle. Twice the black nodes plus the length of the path is the number of rounds, so they suffice (`FoundIs`). Kahn (`SortOK`): what is
  sorted is sorted once and behind what it depends on; without a cycle some node is free as long as one is left. Relaxation
  (`RelaxOK`): dist is the weight of the path that prev leads back, and no edge out of a node already taken promises more; the order of the sort makes
  a node's own distance final when it is taken. `NoHeavier` sums that along any path, `BackWeighs` along the one found.

Two abstract specifications carry the argument on SQLite: what `SessionTable` and `WorkQueue` do at once, the code does in
transactions that read first, and the refinement proofs are where the writer lock is used. On PostgreSQL they do not hold - findings
2 and 4 are the counterexamples - and what is proved there is the rest: the type invariants, the log with its positions and cursors,
`NeverResurrected`, `AnsweredOnce`, and all of the modules that do not depend on the database.

Only model-checked is liveness: `EveryCallEnds`, `AbandonedEnds`, `StaleSummarized`, `ServersLeaveDeadSessions`, `ExpiredTakenBack`, `NothingStarves`,
  `DueIsTaken`, `ItemsSettle`, `JoinReturns`, `WorkflowCompletes`. Reasoning with fairness needs ENABLED, which no installed backend decides.

## 5. Not modelled

Components without a module and the reasons are in `PROJECT.json`. In short:

* Most of the repository by lines: opt-in and experimental packages (`docs/package-maturity.md`) that compute scores, forecasts, summaries and
  recommendations from a list of events. They keep no state between calls, nothing runs concurrently in them, and a model of their arithmetic
  would be the code over again. This is why the map covers a small share of all lines and most of the core's.
* Text: redaction, input guards, parsers, formatting, schemas. Process control and files: CLI, installers, dashboard.
* A real Redis or RabbitMQ (`queues/redis.py:98-136`), which the code marks experimental: `LPOP` takes an item from the list before it is leased, so that a
  consumer that dies in between loses it, and attempts are not kept.
* The rate limiter, the circuit breaker and the idempotency helpers are used by no component that is modelled, or by nothing else at all.
* A lock that times out is a rollback; disk failures and corruption are outside. Filters and paging limits of read-only queries are left out.

## 6. Plan

Done: store, session table, lifecycle, locks, both queues, snapshots, replay, workflow, history repair; the abstract log, table
and queue with their refinements; a theorem for every safety property of the runs. Next, in this order:

1. Proofs: a step of `SessionLifecycle` on the rows is a call of `SessionTable`, so that the two meet in one theorem; an abstract
   specification of the builds of a snapshot, and of the item in `AgentPool` seen by its submitter.
2. The baseline snapshot of the repair beside `SnapshotStore`, the task tools over `TaskReplay` and the queue, the rate limiter, a real Redis.
