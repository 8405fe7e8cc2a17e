----------------------------- MODULE EventStore -----------------------------
(***************************************************************************)
(* The append-only event store (storage/event_repository.py on top of the  *)
(* transactions of storage/database.py).                                   *)
(*                                                                         *)
(* Writers are the threads and processes that share one database.  A write *)
(* transaction appends one or more events to the stream of one project:    *)
(* for every event it reads the integrity hash of the newest event it can  *)
(* see, claims the next stream position with UPDATE ... RETURNING on the   *)
(* project's row, and inserts the event.  Readers page through a stream by *)
(* cursor.                                                                 *)
(*                                                                         *)
(* Backend = "sqlite": BEGIN IMMEDIATE takes the database's writer lock    *)
(* before anything is read.  Backend = "postgres": nothing is locked until *)
(* the UPDATE takes the project's row lock; reads are READ COMMITTED.      *)
(*                                                                         *)
(* A hash is identified with the position of the event that carries it: it *)
(* covers the whole chain up to that event, and positions are UNIQUE.      *)
(***************************************************************************)
EXTENDS Dialect, Integers, FiniteSets

CONSTANTS
    Writers,     \* threads and processes that append
    Readers,     \* clients that page through a stream
    Projects,    \* projects, each with a stream of its own
    NoWriter,    \* nobody holds a lock
    Legacy,      \* number of events stored before hashes were introduced
    PageSize,    \* LIMIT of a page query
    MaxBatch,    \* bound: events one transaction appends
    MaxEvents    \* bound: events of a stream

ASSUME ConstantsOK ==
    /\ NoWriter \notin Writers
    /\ Projects # {}
    /\ Legacy \in Nat
    /\ PageSize \in Nat \ {0}
    /\ MaxBatch \in Nat
    /\ MaxEvents \in Nat

VARIABLES
    events,       \* events[p]: the committed rows of table event
    nextPosition, \* nextPosition[p]: committed project.next_event_position
    lock,         \* lock[p]: the writer that may write p's rows
    tx,           \* tx[w]: the open transaction of a writer
    reader        \* reader[r]: a client's cursor and what it was given

vars == <<events, nextPosition, lock, tx, reader>>

Genesis == 0
Phases == {"idle", "open", "hashed"}

\* prev is the hash the event was chained to; a legacy row has no hash.
Event == [pos: Nat \ {0}, prev: Nat, hashed: BOOLEAN, by: Writers \cup {NoWriter}]

\* head: the hash read for the event being appended; next: the transaction's
\* own uncommitted value of the position counter, 0 before it claims one.
Transaction ==
    [phase: Phases, project: Projects, head: Nat, next: Nat, batch: SUBSET Event]

\* through is the high-water position, 0 for a client that simply follows.
Client ==
    [project: Projects, from: Nat, cursor: Nat, through: Nat,
     reading: BOOLEAN, seen: SUBSET (Nat \ {0})]

-----------------------------------------------------------------------------
(* What a statement of a transaction or of a reader sees.                  *)

PositionsOf(rows) == {e.pos : e \in rows}

\* ORDER BY stream_position DESC LIMIT 1; 0 when there is no row.
Newest(rows) ==
    IF rows = {} THEN 0
    ELSE CHOOSE n \in PositionsOf(rows) : \A m \in PositionsOf(rows) : m <= n

\* The hash stored in the newest row, Genesis when it has none.
LatestHash(rows) ==
    IF \E e \in rows : e.pos = Newest(rows) /\ e.hashed
    THEN Newest(rows) ELSE Genesis

\* Mutant: the cursor is off by one.
Page_Boundary(rows, cursor, through) ==
    LET wanted == {n \in PositionsOf(rows) :
                      n > cursor + 1 /\ (through = 0 \/ n <= through)}
    IN  {n \in wanted : Cardinality({m \in wanted : m <= n}) <= PageSize}

\* Mutant: the high-water mark is not passed to the query.
Page_NoHighWater(rows, cursor, through) ==
    LET wanted == {n \in PositionsOf(rows) : n > cursor}
    IN  {n \in wanted : Cardinality({m \in wanted : m <= n}) <= PageSize}

\* The first PageSize positions after the cursor, up to the high-water mark.
Page(rows, cursor, through) ==
    LET wanted == {n \in PositionsOf(rows) :
                      n > cursor /\ (through = 0 \/ n <= through)}
    IN  {n \in wanted : Cardinality({m \in wanted : m <= n}) <= PageSize}

\* What a write lock taken on behalf of project p covers.
LockScope(p) == IF Backend = "sqlite" THEN Projects ELSE {p}

Acquire(w, p) ==
    /\ \A q \in LockScope(p) : lock[q] \in {NoWriter, w}
    /\ lock' = [q \in Projects |-> IF q \in LockScope(p) THEN w ELSE lock[q]]

Release(w) ==
    lock' = [q \in Projects |-> IF lock[q] = w THEN NoWriter ELSE lock[q]]

\* The value of the counter the transaction's UPDATE starts from.
Counter(w) ==
    IF tx[w].next # 0 THEN tx[w].next ELSE nextPosition[tx[w].project]

-----------------------------------------------------------------------------
(* Write transactions.                                                     *)

NoTransaction ==
    [phase |-> "idle", project |-> CHOOSE p \in Projects : TRUE,
     head |-> 0, next |-> 0, batch |-> {}]

\* Mutant: a DEFERRED transaction.
Begin_Deferred(w, p) ==
    /\ tx[w].phase = "idle"
    /\ tx' = [tx EXCEPT ![w] = [NoTransaction EXCEPT !.phase = "open",
                                                       !.project = p]]
    /\ UNCHANGED <<events, nextPosition, lock, reader>>

\* open_write_session: BEGIN IMMEDIATE on SQLite, a plain BEGIN elsewhere.
Begin(w, p) ==
    /\ tx[w].phase = "idle"
    /\ IF Backend = "sqlite" THEN Acquire(w, p) ELSE UNCHANGED lock
    /\ tx' = [tx EXCEPT ![w] = [NoTransaction EXCEPT !.phase = "open",
                                                       !.project = p]]
    /\ UNCHANGED <<events, nextPosition, reader>>

\* _append_event_core up to attach_integrity_hash.
ReadHash(w) ==
    /\ tx[w].phase = "open"
    /\ Counter(w) <= MaxEvents
    /\ Cardinality(tx[w].batch) < MaxBatch
    /\ tx' = [tx EXCEPT ![w].phase = "hashed",
                        ![w].head = LatestHash(events[tx[w].project] \cup tx[w].batch)]
    /\ UNCHANGED <<events, nextPosition, lock, reader>>

\* _append_event_core from the UPDATE on: claim the position, insert the row.
\* A position already taken violates UNIQUE(project_id, stream_position): the
\* statement fails and only Rollback is left.
Insert(w) ==
    LET p == tx[w].project
        e == [pos |-> Counter(w), prev |-> tx[w].head, hashed |-> TRUE, by |-> w]
    IN  /\ tx[w].phase = "hashed"
        /\ Acquire(w, p)
        /\ e.pos \notin PositionsOf(events[p] \cup tx[w].batch)
        /\ tx' = [tx EXCEPT ![w].phase = "open",
                            ![w].next = Counter(w) + 1,
                            ![w].batch = @ \cup {e}]
        /\ UNCHANGED <<events, nextPosition, reader>>

\* Mutant: the counter advances by one, however many events were appended.
Commit_ByOne(w) ==
    LET p == tx[w].project
    IN  /\ tx[w].phase = "open"
        /\ tx[w].batch # {}
        /\ events' = [events EXCEPT ![p] = @ \cup tx[w].batch]
        /\ nextPosition' = [nextPosition EXCEPT ![p] = @ + 1]
        /\ tx' = [tx EXCEPT ![w] = NoTransaction]
        /\ Release(w)
        /\ UNCHANGED reader

Commit(w) ==
    LET p == tx[w].project
    IN  /\ tx[w].phase = "open"
        /\ tx[w].batch # {}
        /\ events' = [events EXCEPT ![p] = @ \cup tx[w].batch]
        /\ nextPosition' = [nextPosition EXCEPT ![p] = tx[w].next]
        /\ tx' = [tx EXCEPT ![w] = NoTransaction]
        /\ Release(w)
        /\ UNCHANGED reader

\* An exception in the body, a failed statement, or the death of the process.
Rollback(w) ==
    /\ tx[w].phase # "idle"
    /\ tx' = [tx EXCEPT ![w] = NoTransaction]
    /\ Release(w)
    /\ UNCHANGED <<events, nextPosition, reader>>

-----------------------------------------------------------------------------
(* Readers.                                                                *)

Opened(p, from, through) ==
    [project |-> p, from |-> from, cursor |-> from, through |-> through,
     reading |-> TRUE, seen |-> {}]

\* iter_event_pages_through_cursor: fix the high-water mark, start at a cursor.
StartThrough(r, p, from) ==
    /\ ~reader[r].reading
    /\ events[p] # {}
    /\ from \in {0} \cup PositionsOf(events[p])
    /\ reader' = [reader EXCEPT ![r] = Opened(p, from, Newest(events[p]))]
    /\ UNCHANGED <<events, nextPosition, lock, tx>>

\* list_events_paginated called with the last id of the page before.
StartFollow(r, p) ==
    /\ ~reader[r].reading
    /\ reader' = [reader EXCEPT ![r] = Opened(p, 0, 0)]
    /\ UNCHANGED <<events, nextPosition, lock, tx>>

\* The last position of a page; the cursor stays where it is on an empty one.
LastOf(page, cursor) ==
    IF page = {} THEN cursor ELSE CHOOSE n \in page : \A m \in page : m <= n

\* One page query, and the loop's tests on what it returned.
ReadPage(r) ==
    LET c == reader[r]
        page == Page(events[c.project], c.cursor, c.through)
        last == LastOf(page, c.cursor)
    IN  /\ c.reading
        /\ reader' = [reader EXCEPT
              ![r].seen = @ \cup page,
              ![r].cursor = last,
              ![r].reading = (c.through = 0 \/ (page # {} /\ last # c.through))]
        /\ UNCHANGED <<events, nextPosition, lock, tx>>

\* The client stops asking.
Stop(r) ==
    /\ reader[r].reading /\ reader[r].through = 0
    /\ reader' = [reader EXCEPT ![r].reading = FALSE]
    /\ UNCHANGED <<events, nextPosition, lock, tx>>

-----------------------------------------------------------------------------
\* A row that ensure_stream_position_columns numbered: it carries no hash.
LegacyRow(n) == [pos |-> n, prev |-> Genesis, hashed |-> FALSE, by |-> NoWriter]
LegacyEvents == {LegacyRow(n) : n \in 1..Legacy}

Init ==
    /\ events = [p \in Projects |-> LegacyEvents]
    /\ nextPosition = [p \in Projects |-> Legacy + 1]
    /\ lock = [p \in Projects |-> NoWriter]
    /\ tx = [w \in Writers |-> NoTransaction]
    /\ reader = [r \in Readers |->
                    [project |-> CHOOSE p \in Projects : TRUE, from |-> 0, cursor |-> 0,
                     through |-> 0, reading |-> FALSE, seen |-> {}]]

WriterStep(w) ==
    \/ \E p \in Projects : Begin(w, p)
    \/ ReadHash(w)
    \/ Insert(w)
    \/ Commit(w)
    \/ Rollback(w)

ReaderStep(r) ==
    \/ \E p \in Projects, n \in 0..MaxEvents : StartThrough(r, p, n)
    \/ \E p \in Projects : StartFollow(r, p)
    \/ ReadPage(r)
    \/ Stop(r)

Next ==
    \/ \E w \in Writers : WriterStep(w)
    \/ \E r \in Readers : ReaderStep(r)

Spec == Init /\ [][Next]_vars

-----------------------------------------------------------------------------
(* Properties.                                                             *)

\* Every variable has its type.
TypeOK ==
    /\ events \in [Projects -> SUBSET Event]
    /\ nextPosition \in [Projects -> Nat \ {0}]
    /\ lock \in [Projects -> Writers \cup {NoWriter}]
    /\ tx \in [Writers -> Transaction]
    /\ reader \in [Readers -> Client]

Contiguous(rows, next) ==
    /\ PositionsOf(rows) = 1..(next - 1)
    /\ \A e, f \in rows : e.pos = f.pos => e = f

\* Aborts, crashes and concurrent appends leave neither a gap nor a duplicate
\* in a stream, and the counter is always one past the newest event
\* (append_event against the UPDATE ... RETURNING of the position).
PositionsContiguous ==
    \A p \in Projects : Contiguous(events[p], nextPosition[p])

\* verify_hash_chain over the rows in position order: the positions whose hash
\* is not chained to the row before them.
HashOf(rows, n) ==
    IF \E e \in rows : e.pos = n /\ e.hashed THEN n ELSE Genesis

Mismatches(rows) ==
    {n \in PositionsOf(rows) :
        \E e \in rows : e.pos = n /\ e.hashed /\ e.prev # HashOf(rows, n - 1)}

\* A store nobody tampered with always passes its own audit: verify_integrity
\* reports no mismatch however appends interleave.
VerifyIntegrityOK == \A p \in Projects : Mismatches(events[p]) = {}

\* A client that pages by cursor is never overtaken: every committed event at
\* or before its cursor was handed to it, so a position that commits late can
\* not be skipped (list_events_paginated, list_events_after).
NothingSkipped ==
    \A r \in Readers :
        {n \in PositionsOf(events[reader[r].project]) :
            reader[r].from < n /\ n <= reader[r].cursor} \subseteq reader[r].seen

\* iter_event_pages_through_cursor ends having handed over exactly the events
\* between its start cursor and the high-water mark, whatever was appended
\* while it was paging.
ThroughComplete ==
    \A r \in Readers :
        LET c == reader[r]
        IN  c.through # 0 /\ ~c.reading => c.seen = (c.from + 1)..c.through

-----------------------------------------------------------------------------
(* The inductive invariant.                                                *)

\* What a transaction sees of its stream: the committed rows and its own.
View(w) == events[tx[w].project] \cup tx[w].batch

\* A transaction that claimed a position holds the row lock until it ends, and
\* sees a gap-free stream that ends where its own counter says.
TransactionsOK ==
    \A w \in Writers :
        /\ tx[w].phase = "idle" => tx[w].next = 0
        /\ tx[w].next = 0 => tx[w].batch = {}
        /\ tx[w].next # 0 => lock[tx[w].project] = w /\ Contiguous(View(w), tx[w].next)

\* On SQLite an open transaction holds the writer lock from its first
\* statement, so the hash it read is still the newest one when it inserts.
ChainOK ==
    Backend = "sqlite" =>
        /\ VerifyIntegrityOK
        /\ \A w \in Writers :
            tx[w].phase # "idle" =>
                /\ \A p \in Projects : lock[p] = w
                /\ Mismatches(View(w)) = {}
                /\ (tx[w].phase = "hashed" => tx[w].head = LatestHash(View(w)))

\* A client was given exactly what lies between its start and its cursor.
ReadersOK ==
    \A r \in Readers :
        LET c == reader[r]
        IN  /\ c.from <= c.cursor /\ c.cursor < nextPosition[c.project]
            /\ c.seen = (c.from + 1)..c.cursor
            /\ c.through # 0 => /\ c.cursor <= c.through
                               /\ c.through < nextPosition[c.project]
                               /\ (~c.reading => c.cursor = c.through)

StoreIInv == TypeOK /\ PositionsContiguous /\ TransactionsOK /\ ChainOK /\ ReadersOK

\* The uncommitted rows of a transaction are its author's own, at most MaxBatch
\* of them, and continue the committed stream without a gap.
BatchOK(w) ==
    LET first == nextPosition[tx[w].project]
    IN  /\ \A e \in tx[w].batch : e.by = w
        /\ tx[w].phase = "hashed" => Counter(w) < first + MaxBatch
        /\ tx[w].next # 0 => /\ first < tx[w].next /\ tx[w].next <= first + MaxBatch
                             /\ PositionsOf(tx[w].batch) = first..(tx[w].next - 1)

BatchesOK == \A w \in Writers : BatchOK(w)

IInv == StoreIInv /\ BatchesOK

=============================================================================
