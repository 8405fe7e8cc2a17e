--------------------------- MODULE HistoryRepair ---------------------------
(***************************************************************************)
(* allbrain repair-history --apply on SQLite: it merges the databases of   *)
(* single agents into the shared one and ends the sessions nobody ended,   *)
(* while servers go on writing to both (storage/history_repair.py).        *)
(*                                                                         *)
(* The merge is one transaction.  What it reads before its first INSERT is *)
(* read without a lock (the driver begins a transaction only then): the    *)
(* ids it knows, and, when no session is new, the next position.  The      *)
(* repair behind it is one transaction per call.  A run of the command may *)
(* end anywhere and be started again.                                      *)
(*                                                                         *)
(* A session stands for the pair (agent, started_at) by which the merge    *)
(* recognises it.  There is one project.                                   *)
(***************************************************************************)
EXTENDS Ranks, Sequences

CONSTANTS
    Sources,         \* the databases to merge
    SourceSessions,  \* sessions of their agents
    LiveSessions,    \* other sessions, of the servers on the shared database
    MaxIds           \* bound: event ids

ASSUME RepairConstantsOK == MaxIds \in Nat \ {0}

VARIABLES
    sharedRow,  \* sharedRow[s]: the row of session s in the shared database
    merged,     \* the rows of its event table
    next,       \* project.next_event_position
    ids,        \* event ids given so far; they are ordered by time (uuid7)
    source,     \* source[d]: the sessions and the log of database d
    job         \* the run of the command

repairVars == <<sharedRow, merged, next, ids, source, job>>

HistorySessions == SourceSessions \cup LiveSessions

\* expired: last_heartbeat_at is older than 120 seconds; reason "imported": the
\* row came with the close_reason, and the end, that it had in its source.
SharedRow == [status: {"none", "active", "closed", "stale", "empty"},
        reason: {"", "stdio_eof", "legacy_repair", "heartbeat_expired", "imported"},
        expired: BOOLEAN]
NoSharedRow == [status |-> "none", reason |-> "", expired |-> FALSE]
OpenedRow == [status |-> "active", reason |-> "", expired |-> FALSE]

HistoryEvent == [id: 1..MaxIds, session: HistorySessions, summary: BOOLEAN]

Job == [pc: {"idle", "merging", "copying", "listing", "repairing",
             "emptying", "summarizing", "closing"},
        todo: SUBSET Sources, known: SUBSET (1..MaxIds), base: Nat, drafts: Seq(HistoryEvent),
        opened: SUBSET SourceSessions, mapped: SUBSET SourceSessions, locked: BOOLEAN,
        stale: SUBSET HistorySessions, at: SUBSET (Sources \cup HistorySessions)]

\* base: the first position the merge claimed, 0 if none; drafts: the events it
\* will insert there; opened: the sessions it will insert; mapped: session_map.
IdleJob == [pc |-> "idle", todo |-> {}, known |-> {}, base |-> 0, drafts |-> <<>>,
         opened |-> {}, mapped |-> {}, locked |-> FALSE, stale |-> {}, at |-> {}]

Active(s) == sharedRow[s].status = "active"

\* The row of an event at position n of the stream.
Placed(e, n) == [pos |-> n, id |-> e.id, session |-> e.session, summary |-> e.summary]

EventsOf(s) == {e \in merged : e.session = s}
Summarized(s) == \E e \in EventsOf(s) : e.summary

\* close_session leaves a row that has ended, or is gone, alone.
Closed(s, status, reason) ==
    IF Active(s)
    THEN [sharedRow EXCEPT ![s] = [status |-> status, reason |-> reason, expired |-> FALSE]]
    ELSE sharedRow

\* append_event of an event that is new.
Appended(s, summary) ==
    /\ ids < MaxIds
    /\ sharedRow[s].status # "none"
    /\ merged' = merged \cup
          {Placed([id |-> ids + 1, session |-> s, summary |-> summary], next)}
    /\ next' = next + 1
    /\ ids' = ids + 1

-----------------------------------------------------------------------------
(* The merge.                                                              *)

Start ==
    /\ job.pc = "idle"
    /\ job' = [IdleJob EXCEPT !.pc = "merging", !.todo = Sources,
                              !.known = {e.id : e \in merged}]
    /\ UNCHANGED <<sharedRow, merged, next, ids, source>>

\* Mutant: without uq_event_project_stream_position.
PositionsTaken_NoIndex == FALSE

\* The unique index on (project_id, stream_position), when drafts are flushed.
PositionsTaken ==
    \E e \in merged : e.pos \in job.base..(job.base + Len(job.drafts) - 1)

\* The first query flushes the drafts of the source before; a new session is
\* inserted at once.  Either takes SQLite's lock, for the rest of the merge.
MergeSessions(d) ==
    /\ job.pc = "merging" /\ d \in job.todo
    /\ ~PositionsTaken
    /\ LET new == {s \in source[d].sessions : sharedRow[s].status = "none"} \ job.opened
       IN job' = [job EXCEPT !.pc = "copying", !.todo = @ \ {d}, !.at = {d},
                             !.opened = @ \cup new, !.mapped = source[d].sessions,
                             !.locked = @ \/ new # {} \/ job.drafts # <<>>]
    /\ UNCHANGED <<sharedRow, merged, next, ids, source>>

\* The events of a log whose ids are not known, in the order of the log.
Missing(log, known) ==
    LET kept == {i \in DOMAIN log : log[i].id \notin known}
    IN  [n \in 1..Cardinality(kept) |-> log[Nth(kept, n)]]

\* The source goes on between the two queries: an event of a session that came
\* after the first is a KeyError (Stops).
MergeEvents(d) ==
    /\ job.pc = "copying" /\ job.at = {d}
    /\ LET missing == Missing(source[d].log, job.known)
       IN /\ \A i \in DOMAIN missing : missing[i].session \in job.mapped
          /\ job' = [job EXCEPT !.pc = "merging", !.at = {}, !.mapped = {},
                                !.drafts = @ \o missing,
                                !.known = @ \cup {missing[i].id : i \in DOMAIN missing},
                                !.base = IF @ = 0 /\ missing # <<>> THEN next ELSE @]
    /\ UNCHANGED <<sharedRow, merged, next, ids, source>>

\* A new row takes status and close_reason over from its source, whatever they
\* are; "stale" stands for closed and failed, too, which nothing tells apart.
Imported == {OpenedRow, [OpenedRow EXCEPT !.expired = TRUE]} \cup
            [status: {"stale", "empty"}, reason: {"imported"}, expired: {FALSE}]

MergeCommit ==
    /\ job.pc = "merging" /\ job.todo = {}
    /\ ~PositionsTaken
    /\ \E arrived \in [job.opened -> Imported] :
          sharedRow' = [s \in HistorySessions |->
                           IF s \in job.opened THEN arrived[s] ELSE sharedRow[s]]
    /\ merged' = merged \cup
          {Placed(job.drafts[i], job.base + i - 1) : i \in DOMAIN job.drafts}
    /\ next' = IF job.drafts = <<>> THEN next ELSE job.base + Len(job.drafts)
    /\ job' = [IdleJob EXCEPT !.pc = "listing"]
    /\ UNCHANGED <<ids, source>>

-----------------------------------------------------------------------------
(* The repair of sessions: read once, then one transaction per call.       *)

RepairList ==
    /\ job.pc = "listing"
    /\ job' = [job EXCEPT !.pc = "repairing",
                          !.stale = {s \in HistorySessions : Active(s) /\ sharedRow[s].expired}]
    /\ UNCHANGED <<sharedRow, merged, next, ids, source>>

\* Mutant: the row is closed first.
RepairLook_CloseFirst(s) ==
    /\ job.pc = "repairing" /\ s \in job.stale
    /\ job' = [job EXCEPT !.at = {s}, !.pc = IF EventsOf(s) = {} THEN "emptying" ELSE "closing"]
    /\ UNCHANGED <<sharedRow, merged, next, ids, source>>

RepairLook(s) ==
    /\ job.pc = "repairing" /\ s \in job.stale
    /\ job' = [job EXCEPT !.at = {s},
                          !.pc = CASE EventsOf(s) = {} -> "emptying"
                                   [] EventsOf(s) # {} /\ ~Summarized(s) -> "summarizing"
                                   [] OTHER -> "closing"]
    /\ UNCHANGED <<sharedRow, merged, next, ids, source>>

\* append_event fails when the row is gone (Stops).
RepairSummarize(s) ==
    /\ job.pc = "summarizing" /\ job.at = {s}
    /\ Appended(s, TRUE)
    /\ job' = [job EXCEPT !.pc = "closing"]
    /\ UNCHANGED <<sharedRow, source>>

RepairClose(s) ==
    /\ job.pc \in {"emptying", "closing"} /\ job.at = {s}
    /\ sharedRow' = Closed(s, IF job.pc = "emptying" THEN "empty" ELSE "stale", "legacy_repair")
    /\ job' = [job EXCEPT !.pc = "repairing", !.stale = @ \ {s}, !.at = {}]
    /\ UNCHANGED <<merged, next, ids, source>>

\* The baseline snapshot is left out.
RepairEnds ==
    /\ job.pc = "repairing" /\ job.stale = {}
    /\ job' = IdleJob
    /\ UNCHANGED <<sharedRow, merged, next, ids, source>>

\* An exception or the death of the process: the transaction is rolled back.
Stops ==
    /\ job.pc # "idle"
    /\ job' = IdleJob
    /\ UNCHANGED <<sharedRow, merged, next, ids, source>>

-----------------------------------------------------------------------------
(* The servers on the shared database, whose writes need SQLite's lock,    *)
(* and those on the sources.                                               *)

LiveStart(s) ==
    /\ sharedRow[s] = NoSharedRow /\ EventsOf(s) = {}
    /\ sharedRow' = [sharedRow EXCEPT ![s] = OpenedRow]
    /\ UNCHANGED <<merged, next, ids>>

LiveAppend(s) == \E summary \in BOOLEAN : Appended(s, summary) /\ UNCHANGED sharedRow

LiveTouch(s) ==
    /\ Active(s)
    /\ sharedRow' = [sharedRow EXCEPT ![s].expired = FALSE]
    /\ UNCHANGED <<merged, next, ids>>

LiveFinalize(s) ==
    /\ Summarized(s)
    /\ sharedRow' = Closed(s, "closed", "stdio_eof")
    /\ UNCHANGED <<merged, next, ids>>

\* Of any session of the project, imported ones included.
LiveReconcile(s) ==
    /\ sharedRow[s].expired
    /\ sharedRow' = Closed(s, IF EventsOf(s) = {} THEN "empty" ELSE "stale",
                           "heartbeat_expired")
    /\ UNCHANGED <<merged, next, ids>>

LiveCleanup(s) ==
    /\ sharedRow[s].status = "empty"
    /\ sharedRow' = [sharedRow EXCEPT ![s] = NoSharedRow]
    /\ UNCHANGED <<merged, next, ids>>

Live ==
    /\ ~job.locked
    /\ \/ \E s \in LiveSessions :
             LiveStart(s) \/ LiveAppend(s) \/ LiveTouch(s) \/ LiveFinalize(s)
       \/ \E s \in HistorySessions : LiveReconcile(s) \/ LiveCleanup(s)
    /\ UNCHANGED <<source, job>>

Expire(s) ==
    /\ Active(s)
    /\ sharedRow' = [sharedRow EXCEPT ![s].expired = TRUE]
    /\ UNCHANGED <<merged, next, ids, source, job>>

SourceStarts(d, s) ==
    /\ \A q \in Sources : s \notin source[q].sessions
    /\ source' = [source EXCEPT ![d].sessions = @ \cup {s}]
    /\ UNCHANGED <<sharedRow, merged, next, ids, job>>

SourceAppends(d, s) ==
    /\ ids < MaxIds
    /\ s \in source[d].sessions
    /\ \E summary \in BOOLEAN :
          source' = [source EXCEPT ![d].log =
                        Append(@, [id |-> ids + 1, session |-> s, summary |-> summary])]
    /\ ids' = ids + 1
    /\ UNCHANGED <<sharedRow, merged, next, job>>

-----------------------------------------------------------------------------
\* The sources are empty, or copies of one database that have gone their ways.
RepairInit ==
    /\ sharedRow = [s \in HistorySessions |-> NoSharedRow]
    /\ merged = {}
    /\ next = 1
    /\ \/ /\ ids = 0
          /\ source = [d \in Sources |-> [sessions |-> {}, log |-> <<>>]]
       \/ /\ ids = 1
          /\ \E s \in SourceSessions :
                source = [d \in Sources |->
                            [sessions |-> {s},
                             log |-> <<[id |-> 1, session |-> s, summary |-> FALSE]>>]]
    /\ job = IdleJob

RepairNext ==
    \/ Start
    \/ \E d \in Sources : MergeSessions(d) \/ MergeEvents(d)
    \/ MergeCommit
    \/ RepairList
    \/ \E s \in HistorySessions : RepairLook(s) \/ RepairSummarize(s) \/ RepairClose(s)
    \/ RepairEnds
    \/ Stops
    \/ Live
    \/ \E s \in HistorySessions : Expire(s)
    \/ \E d \in Sources, s \in SourceSessions : SourceStarts(d, s) \/ SourceAppends(d, s)

RepairSpec == RepairInit /\ [][RepairNext]_repairVars

-----------------------------------------------------------------------------
(* Properties.                                                             *)

RepairTypeOK ==
    /\ sharedRow \in [HistorySessions -> SharedRow]
    /\ merged \subseteq [pos: 1..(next - 1), id: 1..MaxIds, session: HistorySessions,
                        summary: BOOLEAN]
    /\ next \in Nat \ {0} /\ ids \in 0..MaxIds
    /\ source \in [Sources -> [sessions: SUBSET SourceSessions, log: Seq(HistoryEvent)]]
    /\ job \in Job

\* The merge gives out positions it read without a lock, and ids it did not find
\* then: the stream has no gap and no event twice all the same.
StreamIntact ==
    /\ {e.pos : e \in merged} = 1..(next - 1)
    /\ \A e, f \in merged : e.pos = f.pos \/ e.id = f.id => e = f

\* However often it is run or breaks off, and whatever copies are merged: what is
\* there of a source is a beginning of its log, in the order of its log.
SourcesInOrder ==
    \A d \in Sources :
        LET log == source[d].log
        IN \A j \in DOMAIN log : \A e \in merged : e.id = log[j].id =>
              \A i \in 1..(j - 1) : \E f \in merged : f.id = log[i].id /\ f.pos < e.pos

\* A session that this repair ended as stale has a summary, wherever the command
\* broke off (_repair_sessions).  Of rows that were imported as they had ended
\* elsewhere it says nothing.
RepairedHaveSummaries ==
    \A s \in HistorySessions :
        sharedRow[s].status = "stale" /\ sharedRow[s].reason = "legacy_repair" => Summarized(s)

-----------------------------------------------------------------------------
(* The inductive invariant.                                                *)

\* An id is one event: no two places of a log have the same, and logs with a
\* common event are copies of one database up to it.
LogsAgree ==
    \A d, q \in Sources :
        \A i \in DOMAIN source[d].log, j \in DOMAIN source[q].log :
            source[d].log[i].id = source[q].log[j].id =>
                i = j /\ \A k \in 1..i : source[d].log[k] = source[q].log[k]

\* Ids are given in the order of time.
IdsSpent ==
    /\ \A e \in merged : e.id <= ids
    /\ \A d \in Sources : \A i \in DOMAIN source[d].log : source[d].log[i].id <= ids
    /\ \A i \in DOMAIN job.drafts : job.drafts[i].id <= ids

\* The ids a merge knows are those it found and those it will insert, each once;
\* what servers appended since is in no source.
KnownOK ==
    /\ \A x \in job.known : \/ \E e \in merged : e.id = x
                            \/ \E i \in DOMAIN job.drafts : job.drafts[i].id = x
    /\ \A i \in DOMAIN job.drafts :
          /\ job.drafts[i].id \in job.known
          /\ \A e \in merged : e.id # job.drafts[i].id
          /\ \A j \in DOMAIN job.drafts : job.drafts[i].id = job.drafts[j].id => i = j
    /\ job.pc \in {"merging", "copying"} =>
          \A e \in merged : e.id \notin job.known =>
              \A d \in Sources : \A i \in DOMAIN source[d].log : source[d].log[i].id # e.id

\* The drafts follow the stream as it was when the first of them was read, and
\* every log they come from is there before them, or among them in its order.
DraftsOK ==
    /\ job.pc \notin {"merging", "copying"} =>
          job.known = {} /\ job.drafts = <<>> /\ job.base = 0
    /\ job.base <= next
    /\ job.base = 0 <=> job.drafts = <<>>
    /\ \A n \in DOMAIN job.drafts, d \in Sources : \A j \in DOMAIN source[d].log :
          job.drafts[n].id = source[d].log[j].id =>
             \A i \in 1..(j - 1) :
                \/ \E e \in merged : e.id = source[d].log[i].id
                \/ \E m \in 1..(n - 1) : job.drafts[m].id = source[d].log[i].id

\* The session that is about to be closed has its summary.
CloserOK == job.pc = "closing" => \E s \in HistorySessions : job.at = {s} /\ Summarized(s)

RepairIInv ==
    /\ RepairTypeOK /\ StreamIntact /\ SourcesInOrder /\ RepairedHaveSummaries
    /\ LogsAgree /\ IdsSpent /\ KnownOK /\ DraftsOK /\ CloserOK

-----------------------------------------------------------------------------
\* Not so in the code: the events are read in one transaction and the row is
\* closed in another, and a merge adds events to whatever row it finds.
EmptyIsEmpty == \A s \in HistorySessions : sharedRow[s].status = "empty" => EventsOf(s) = {}

\* Not so in the code: cleanup_empty_sessions then deletes the row.
EventsHaveSessions == \A e \in merged : sharedRow[e.session].status # "none"

=============================================================================
