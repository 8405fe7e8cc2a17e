----------------------------- MODULE WriteLocks -----------------------------
(***************************************************************************)
(* The locks that the threads of one server process take to write: the     *)
(* context's _session_lock, _SQLITE_WRITE_LOCK, and the database's own     *)
(* lock, which other processes take, too: SQLite's writer lock from BEGIN  *)
(* IMMEDIATE on, or PostgreSQL's lock of the project row from the first    *)
(* claim of a stream position on.                                          *)
(*                                                                         *)
(* A call is the sequence of the places where its code takes and gives     *)
(* back a lock; what it writes is the subject of the other modules.  A     *)
(* wait for SQLite ends after busy_timeout; the waits for the two Python   *)
(* locks and for PostgreSQL's row lock have no timeout.  Left out: reads   *)
(* (they block nobody), and the connection pool.                           *)
(***************************************************************************)
EXTENDS Dialect, Naturals, Sequences

CONSTANTS
    Threads,   \* the event loop and the worker threads
    Nobody,    \* a lock that is free
    Other      \* another process that has the database's lock

VARIABLES
    session,   \* who has _session_lock
    python,    \* who has _SQLITE_WRITE_LOCK
    database,  \* who has the database's lock
    thread     \* thread[t]: its call, and how far it has come

lockVars == <<session, python, database, thread>>

-----------------------------------------------------------------------------
(* the calls                                                                *)

\* Mutant: the order that tests/test_open_write_session_lock_order.py asks for.
LockOrder_PythonFirst == <<"enter", "begin">>

\* open_write_session: BEGIN IMMEDIATE, then _SQLITE_WRITE_LOCK.
LockOrder == <<"begin", "enter">>

\* append_event on its own.
AppendEvent == <<LockOrder[1], LockOrder[2], "append", "commit", "leave">>

\* A queue tool: the session is looked up before, and for each of its events
\* within the transaction (_event).
QueueTool ==
    <<"glance", LockOrder[1], LockOrder[2],
      "glance", "append", "glance", "append", "commit", "leave">>

\* touch_session and the agents' queue do not use _SQLITE_WRITE_LOCK.
LightWrite == <<"begin", "commit">>

\* The baseline is read, git is asked, then the changes are appended.
record_git_changes ==
    <<"glance", "hold", LockOrder[1], LockOrder[2], "append", "commit", "leave", "unhold">>

\* Git changes, summary and close; the lock it holds is reentrant.
finalize_active_session ==
    <<"hold", LockOrder[1], LockOrder[2], "append", "commit", "leave",
              LockOrder[1], LockOrder[2], "append", "commit", "leave",
              LockOrder[1], LockOrder[2], "commit", "leave", "unhold">>

\* Mutant: _session_lock is released on the regular way out alone.
Unwinding_KeepsSession == <<"leave", "commit">>

\* What an exception passes on its way out: the with of _SQLITE_WRITE_LOCK, the
\* rollback, and the with of _session_lock.
Unwinding == <<"leave", "commit", "unhold">>

Program ==
    [append |-> AppendEvent, queue |-> QueueTool, light |-> LightWrite,
     git |-> record_git_changes, finalize |-> finalize_active_session, unwinding |-> Unwinding]

CallKinds == DOMAIN Program \ {"unwinding"}

Idle == [call |-> "none", at |-> 0]

Busy(t) == thread[t] # Idle

\* The place t has come to.
Place(t) == IF Busy(t) THEN Program[thread[t].call][thread[t].at] ELSE "idle"

LocksInit ==
    /\ session = Nobody /\ python = Nobody /\ database = Nobody
    /\ thread = [t \in Threads |-> Idle]

-----------------------------------------------------------------------------
(* steps                                                                    *)

Start(t, call) ==
    /\ ~Busy(t)
    /\ thread' = [thread EXCEPT ![t] = [call |-> call, at |-> 1]]
    /\ UNCHANGED <<session, python, database>>

GoesOn(t) ==
    LET here == thread[t]
    IN thread' = [thread EXCEPT ![t] = IF here.at < Len(Program[here.call])
                                       THEN [here EXCEPT !.at = here.at + 1] ELSE Idle]

Without(lock, t) == IF lock = t THEN Nobody ELSE lock

\* A property of the context that is read under the lock.
Glance(t) ==
    /\ Place(t) = "glance" /\ session \in {Nobody, t}
    /\ GoesOn(t)
    /\ UNCHANGED <<session, python, database>>

Hold(t) ==
    /\ Place(t) = "hold" /\ session \in {Nobody, t}
    /\ session' = t /\ GoesOn(t)
    /\ UNCHANGED <<python, database>>

Unhold(t) ==
    /\ Place(t) = "unhold"
    /\ session' = Without(session, t) /\ GoesOn(t)
    /\ UNCHANGED <<python, database>>

\* Mutant: BEGIN DEFERRED, which takes no lock yet.
Begin_Deferred(t) ==
    /\ Place(t) = "begin"
    /\ GoesOn(t)
    /\ UNCHANGED <<session, python, database>>

\* BEGIN IMMEDIATE, or the UPDATE of a light transaction; nothing on PostgreSQL.
Begin(t) ==
    /\ Place(t) = "begin"
    /\ IF Backend = "sqlite"
       THEN database = Nobody /\ database' = t
       ELSE UNCHANGED database
    /\ GoesOn(t)
    /\ UNCHANGED <<session, python>>

Enter(t) ==
    /\ Place(t) = "enter" /\ python = Nobody
    /\ python' = t /\ GoesOn(t)
    /\ UNCHANGED <<session, database>>

\* append_event claims a stream position of the project.
Append_(t) ==
    /\ Place(t) = "append" /\ database \in {Nobody, t}
    /\ database' = t /\ GoesOn(t)
    /\ UNCHANGED <<session, python>>

Commit(t) ==
    /\ Place(t) = "commit"
    /\ database' = Without(database, t) /\ GoesOn(t)
    /\ UNCHANGED <<session, python>>

Leave(t) ==
    /\ Place(t) = "leave"
    /\ python' = Without(python, t) /\ GoesOn(t)
    /\ UNCHANGED <<session, database>>

Raise(t) == thread' = [thread EXCEPT ![t] = [call |-> "unwinding", at |-> 1]]

\* The body of a transaction fails.
Fails(t) ==
    /\ python = t /\ Place(t) \in {"glance", "append", "commit"}
    /\ thread[t].call # "unwinding"
    /\ Raise(t)
    /\ UNCHANGED <<session, python, database>>

\* Whom t waits for, as things are; Nobody if it can go on.
Awaits(t) ==
    LET wanted == CASE Place(t) \in {"glance", "hold"} -> session
                    [] Place(t) = "enter" -> python
                    [] Place(t) = "begin" -> IF Backend = "sqlite" THEN database ELSE Nobody
                    [] Place(t) = "append" -> database
                    [] OTHER -> Nobody
    IN IF wanted = t THEN Nobody ELSE wanted

\* Threads that wait for one another, so that none of them ever goes on by itself.
Deadlocked(S) == S # {} /\ \A t \in S : Awaits(t) \in S

\* busy_timeout applies to SQLite's lock alone.
TimesOut(t) == Backend = "sqlite" /\ Place(t) = "begin"

\* "database is locked".  Whoever is not kept from going on is done in less than
\* busy_timeout, so that it passes only behind another process or a deadlock.
Locked(t) ==
    /\ TimesOut(t)
    /\ database = Other \/ \E S \in SUBSET Threads : t \in S /\ Deadlocked(S)
    /\ Raise(t)
    /\ UNCHANGED <<session, python, database>>

OtherTakes ==
    /\ database = Nobody
    /\ database' = Other
    /\ UNCHANGED <<session, python, thread>>

OtherReleases ==
    /\ database = Other
    /\ database' = Nobody
    /\ UNCHANGED <<session, python, thread>>

Go(t) ==
    \/ Glance(t) \/ Hold(t) \/ Unhold(t) \/ Begin(t) \/ Enter(t)
    \/ Append_(t) \/ Commit(t) \/ Leave(t)

LocksNext ==
    \/ OtherTakes \/ OtherReleases
    \/ \E t \in Threads :
          \/ Go(t) \/ Fails(t) \/ Locked(t)
          \/ \E call \in CallKinds : Start(t, call)

LocksSpec == LocksInit /\ [][LocksNext]_lockVars

\* Who tries for a lock again and again gets it some day; transactions of other
\* processes end, and so does busy_timeout.
LocksFairness ==
    /\ WF_lockVars(OtherReleases)
    /\ \A t \in Threads : SF_lockVars(Go(t)) /\ WF_lockVars(Locked(t))

-----------------------------------------------------------------------------
(* properties                                                               *)

LocksTypeOK ==
    /\ {session, python} \subseteq Threads \cup {Nobody}
    /\ database \in Threads \cup {Nobody, Other}
    /\ \A t \in Threads :
          Busy(t) => thread[t].call \in DOMAIN Program /\ thread[t].at \in DOMAIN Program[thread[t].call]

\* _event takes _session_lock inside a transaction and record_git_changes takes
\* them in the other order.  Whenever threads deadlock one of them waits with a
\* timeout, so that the deadlock ends (open_write_session on SQLite).
DeadlocksTimeOut ==
    \A S \in SUBSET Threads : Deadlocked(S) => \E t \in S : TimesOut(t)

\* On SQLite BEGIN IMMEDIATE has admitted one writer before it asks for
\* _SQLITE_WRITE_LOCK, so that whoever waits for that lock waits for a
\* transaction that is over, never for one that could wait in its turn.
PythonWaitsAreShort ==
    \A t, u \in Threads : Place(t) = "enter" /\ python = u => Place(u) = "leave"

\* Every call ends, if not always well.
EveryCallEnds == \A t \in Threads : Busy(t) ~> ~Busy(t)

-----------------------------------------------------------------------------
(* what the tests say and the code does not                                 *)

\* tests/test_open_write_session_lock_order.py:6 "let a thread hold SQLite's
\* process-wide DB lock while waiting for the Python lock" is the order of old.
PythonLockFirst ==
    \A t \in Threads : ~(database = t /\ Place(t) = "enter" /\ Awaits(t) # Nobody)

=============================================================================
