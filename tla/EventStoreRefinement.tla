------------------------ MODULE EventStoreRefinement ------------------------
(***************************************************************************)
(* EventStore implements EventLog, on SQLite and on PostgreSQL.            *)
(***************************************************************************)
EXTENDS EventStore, Ranks, Sequences

RowAt(rows, n) == CHOOSE e \in rows : e.pos = n

\* The authors of a project's rows in ORDER BY stream_position.
LogOf(rows) == [n \in 1..Cardinality(rows) |-> RowAt(rows, n).by]

\* What a client received of a stream, in the order of the pages.
Received(rows, seen) ==
    [i \in 1..Cardinality(seen) |->
        [position |-> Nth(seen, i), author |-> RowAt(rows, Nth(seen, i)).by]]

InboxOf(c, rows) ==
    [stream |-> c.project, from |-> c.from, received |-> Received(rows, c.seen)]

Log == INSTANCE EventLog WITH
    Authors <- Writers,
    Clients <- Readers,
    Streams <- Projects,
    InitialLog <- [n \in 1..Legacy |-> NoWriter],
    log <- [p \in Projects |-> LogOf(events[p])],
    inbox <- [r \in Readers |-> InboxOf(reader[r], events[reader[r].project])]

\* The store behaves like one append-only log per project that transactions
\* extend atomically and that clients read in order, gap-free, exactly once.
ImplementsEventLog == Log!LogSpec

=============================================================================
