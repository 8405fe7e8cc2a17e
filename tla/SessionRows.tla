---------------------------- MODULE SessionRows ----------------------------
(***************************************************************************)
(* The session table (storage/session_repository.py).                      *)
(*                                                                         *)
(* Clients are the threads of the server processes that share a database.  *)
(* Every repository call is a transaction that reads rows, decides, and    *)
(* writes at its commit.  On SQLite open_write_session takes the writer    *)
(* lock before it reads, and open_light_write_session (the heartbeat) runs *)
(* DEFERRED: its write fails when anything was committed after its read.   *)
(* On PostgreSQL both are plain READ COMMITTED transactions, so a decision *)
(* may rest on a row that has changed by the time it is written.           *)
(***************************************************************************)
EXTENDS Dialect, SessionTable

CONSTANTS
    Clients,      \* threads that call the repository
    NoClient      \* nobody holds the writer lock

ASSUME ClientsOK == NoClient \notin Clients

VARIABLES
    issued,     \* the largest id ever given to a session
    writer,     \* the holder of SQLite's writer lock
    call        \* call[c]: the open transaction of a client

rowVars == <<tableVars, issued, writer, call>>

\* after: what the transaction will write, on the rows it decided to write (of a
\* reconciliation between its queries, "expired", what it has read of them);
\* behind: something was committed after its read.
IsCall(t) ==
    \E S \in SUBSET Sessions :
        t \in [op: {"idle", "touch", "close", "expired", "reconcile", "cleanup"},
              after: [S -> Row], behind: BOOLEAN]

Only(s, r) == [q \in {s} |-> r]
NoCall == [op |-> "idle", after |-> [q \in {} |-> NoRow], behind |-> FALSE]

-----------------------------------------------------------------------------
(* Transactions.                                                           *)

\* open_write_session: BEGIN IMMEDIATE takes SQLite's only writer lock.
WriterFree(c) == Backend = "sqlite" => writer = NoClient

\* Mutant: the writer lock is taken by the first write, not by BEGIN.
BeginCall_Deferred(c, op, after) ==
    /\ call[c].op = "idle"
    /\ call' = [call EXCEPT ![c] = [op |-> op, after |-> after, behind |-> FALSE]]
    /\ UNCHANGED <<now, row, lastEvent, issued, writer>>

BeginCall(c, op, after) ==
    /\ call[c].op = "idle"
    /\ WriterFree(c)
    /\ writer' = IF Backend = "sqlite" THEN c ELSE writer
    /\ call' = [call EXCEPT ![c] = [op |-> op, after |-> after, behind |-> FALSE]]
    /\ UNCHANGED <<now, row, lastEvent, issued>>

\* Mutant: a heartbeat does not notice that its read is out of date.
CommittedBy_Unnoticed(c) == [call EXCEPT ![c] = NoCall]

\* The transactions of the other clients once c has committed a change.
CommittedBy(c) ==
    [d \in Clients |->
        IF d = c THEN NoCall
        ELSE [call[d] EXCEPT !.behind = @ \/ call[d].op = "touch"]]

Released(c) == IF writer = c THEN NoClient ELSE writer

-----------------------------------------------------------------------------
(* The repository.                                                         *)

\* INTEGER PRIMARY KEY without AUTOINCREMENT: SQLite gives out one more than
\* the largest id in the table, PostgreSQL the next value of a sequence.
NextId(s) ==
    IF Backend = "sqlite"
    THEN \A q \in Sessions : IF q < s THEN q = s - 1 => Exists(q) ELSE ~Exists(q)
    ELSE s = issued + 1

\* create_session
CreateSession(c, s) ==
    /\ call[c].op = "idle" /\ WriterFree(c)
    /\ NextId(s)
    /\ row' = [row EXCEPT ![s] =
                [status |-> "active", started |-> now, heartbeat |-> now, ended |-> 0]]
    /\ issued' = IF s > issued THEN s ELSE issued
    /\ call' = CommittedBy(c)
    /\ UNCHANGED <<now, lastEvent, writer>>

\* append_event
AppendEvent(c, s) ==
    /\ call[c].op = "idle" /\ WriterFree(c)
    /\ AppendsTo(s)
    /\ call' = CommittedBy(c)
    /\ UNCHANGED <<issued, writer>>

\* Mutant: the instant of the heartbeat was taken before the transaction.
TouchRead_EarlyTime(c, s) ==
    /\ call[c].op = "idle"
    /\ row[s].status = "active"
    /\ \E t \in row[s].started..now :
          call' = [call EXCEPT ![c] = [op |-> "touch",
                                  after |-> Only(s, [row[s] EXCEPT !.heartbeat = t]),
                                  behind |-> FALSE]]
    /\ UNCHANGED <<now, row, lastEvent, issued, writer>>

\* touch_session up to the assignment: BEGIN DEFERRED, no lock yet.
TouchRead(c, s) ==
    /\ call[c].op = "idle"
    /\ row[s].status = "active"
    /\ call' = [call EXCEPT ![c] = [op |-> "touch",
                                after |-> Only(s, [row[s] EXCEPT !.heartbeat = now]),
                                behind |-> FALSE]]
    /\ UNCHANGED <<now, row, lastEvent, issued, writer>>

\* Mutant: a session is closed again.
CloseRead_AnyStatus(c, s, status, ended) ==
    /\ Exists(s)
    /\ ended \in row[s].started..now
    /\ BeginCall(c, "close", Only(s, Ended(s, status, ended)))

\* close_session: the caller took ended_at before the transaction began.
CloseRead(c, s, status, ended) ==
    /\ row[s].status = "active"
    /\ ended \in row[s].started..now
    /\ BeginCall(c, "close", Only(s, Ended(s, status, ended)))

\* reconcile_stale_sessions, its first query: the caller computed the cutoff
\* before the transaction began.
ReconcileRead(c, cutoff) ==
    /\ cutoff + StaleAfter <= now
    /\ Expired(cutoff) # {}
    /\ BeginCall(c, "expired", [s \in Expired(cutoff) |-> row[s]])

\* Its second query: the newest events of the sessions that it found expired.
ReconcileEvents(c) ==
    LET read == call[c].after
    IN  /\ call[c].op = "expired"
        /\ call' = [call EXCEPT ![c] =
                      [op |-> "reconcile",
                       after |-> [s \in DOMAIN read |-> ReconciledFrom(s, read[s])],
                       behind |-> FALSE]]
        /\ UNCHANGED <<now, row, lastEvent, issued, writer>>

\* cleanup_empty_sessions; before is computed by the caller, too.
CleanupRead(c, before) ==
    /\ before + EmptyTTL <= now
    /\ Forgotten(before) # {}
    /\ BeginCall(c, "cleanup", [s \in Forgotten(before) |-> NoRow])

\* Mutant: the UPDATE names every column.
Written_WholeRow(op, old, new) == new

\* The UPDATE of a heartbeat names last_heartbeat_at alone.
Written(op, old, new) ==
    IF op = "touch" THEN [old EXCEPT !.heartbeat = new.heartbeat] ELSE new

\* A statement that finds its row gone raises StaleDataError, and PostgreSQL
\* refuses to delete a session that events refer to (SQLite's foreign keys are
\* off): then only RollbackCall is left.
CommitCall(c) ==
    LET after == call[c].after
    IN  /\ call[c].op \notin {"idle", "expired"}
        /\ \A s \in DOMAIN after : Exists(s)
        /\ call[c].op = "touch" /\ Backend = "sqlite" => writer = NoClient /\ ~call[c].behind
        /\ call[c].op = "cleanup" /\ Backend = "postgres" =>
              \A s \in DOMAIN after : lastEvent[s] = 0
        /\ row' = [s \in Sessions |->
                      IF s \in DOMAIN after THEN Written(call[c].op, row[s], after[s])
                      ELSE row[s]]
        /\ call' = CommittedBy(c)
        /\ writer' = Released(c)
        /\ UNCHANGED <<now, lastEvent, issued>>

\* An exception, a lock that timed out, or the death of the process.
RollbackCall(c) ==
    /\ call[c].op # "idle"
    /\ call' = [call EXCEPT ![c] = NoCall]
    /\ writer' = Released(c)
    /\ UNCHANGED <<now, row, lastEvent, issued>>

Tick == TimePasses /\ UNCHANGED <<issued, writer, call>>

-----------------------------------------------------------------------------
RowsInit ==
    /\ TableInit
    /\ issued = 0
    /\ writer = NoClient
    /\ call = [c \in Clients |-> NoCall]

ClientStep(c) ==
    \/ \E s \in Sessions :
          \/ CreateSession(c, s)
          \/ AppendEvent(c, s)
          \/ TouchRead(c, s)
          \/ \E status \in {"closed", "failed"}, t \in 1..MaxTime : CloseRead(c, s, status, t)
    \/ \E t \in 0..MaxTime : ReconcileRead(c, t) \/ CleanupRead(c, t)
    \/ ReconcileEvents(c)
    \/ CommitCall(c)
    \/ RollbackCall(c)

RowsNext == Tick \/ \E c \in Clients : ClientStep(c)

RowsSpec == RowsInit /\ [][RowsNext]_rowVars

-----------------------------------------------------------------------------
(* Properties.                                                             *)

\* Every variable has its type.
RowsTypeOK ==
    /\ now \in 1..(MaxTime + 1)
    /\ row \in [Sessions -> Row]
    /\ lastEvent \in [Sessions -> Nat]
    /\ issued \in 0..MaxSessions
    /\ writer \in Clients \cup {NoClient}
    /\ call = [c \in Clients |-> call[c]]
    /\ \A c \in Clients : IsCall(call[c])

\* On SQLite every call takes effect in one instant, whatever its transaction
\* raced with: the table behaves as if calls were atomic.
CallsAreAtomic == TableSpec

-----------------------------------------------------------------------------
(* The inductive invariant.                                                *)

\* Whatever became of a row since it was read, a close or a reconciliation ends
\* it, a cleanup deletes it, and a heartbeat writes no status at all.
WritesAreFinal ==
    \A c \in Clients : \A s \in DOMAIN call[c].after :
        /\ call[c].op \in {"close", "reconcile"} => call[c].after[s].status \in Terminal
        /\ call[c].op = "cleanup" => call[c].after[s] = NoRow

\* The sequence of ids is past every row.
IdsIssued == \A s \in Sessions : Exists(s) => s <= issued

\* On SQLite, what client c is about to write is what its call would write now.
StillDecided(c) ==
    LET op == call[c].op
        after == call[c].after
    IN  /\ op = "touch" /\ ~call[c].behind =>
              \E s \in Sessions, t \in 0..now :
                  /\ row[s].status = "active" /\ row[s].heartbeat <= t
                  /\ after = Only(s, [row[s] EXCEPT !.heartbeat = t])
        /\ op = "close" =>
              \E s \in Sessions, status \in {"closed", "failed"}, t \in 0..now :
                  /\ row[s].status = "active" /\ row[s].started <= t
                  /\ after = Only(s, Ended(s, status, t))
        /\ op = "expired" =>
              \E cutoff \in 0..MaxTime :
                  /\ cutoff + StaleAfter <= now
                  /\ after = [s \in Expired(cutoff) |-> row[s]]
        /\ op = "reconcile" =>
              \E cutoff \in 0..MaxTime :
                  /\ cutoff + StaleAfter <= now
                  /\ after = [s \in Expired(cutoff) |-> Reconciled(s)]
        /\ op = "cleanup" =>
              \E before \in 0..MaxTime :
                  /\ before + EmptyTTL <= now
                  /\ after = [s \in Forgotten(before) |-> NoRow]

\* A writer that has read holds the lock until it ends, and a heartbeat whose
\* read is out of date knows it.
DecisionsHold ==
    \A c \in Clients :
        /\ call[c].op \in {"close", "expired", "reconcile", "cleanup"} => writer = c
        /\ StillDecided(c)

RowsIInv ==
    /\ RowsTypeOK /\ WritesAreFinal /\ IdsIssued
    /\ Backend = "sqlite" => DecisionsHold /\ DatedInPast /\ HeartbeatNotPastEnd

=============================================================================
