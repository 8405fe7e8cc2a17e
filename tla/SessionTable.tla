---------------------------- MODULE SessionTable ----------------------------
(***************************************************************************)
(* What the session table promises its callers                             *)
(* (storage/session_repository.py): every repository call takes effect in  *)
(* one instant, at which everything it decides is true.  SessionRows takes *)
(* the calls apart into transactions that read first and write later.      *)
(***************************************************************************)
EXTENDS Integers

CONSTANTS
    StaleAfter,   \* age at which a heartbeat has expired
    EmptyTTL,     \* age at which an empty session is deleted
    MaxSessions,  \* bound: session ids
    MaxTime       \* bound: the clock

ASSUME TableConstantsOK ==
    /\ StaleAfter \in Nat
    /\ EmptyTTL \in Nat
    /\ MaxSessions \in Nat
    /\ MaxTime \in Nat

VARIABLES
    now,       \* the clock of the host
    row,       \* row[s]: the committed row of session s
    lastEvent  \* lastEvent[s]: created_at of the newest event of s, 0 if none

tableVars == <<now, row, lastEvent>>

Sessions == 1..MaxSessions
Terminal == {"closed", "failed", "stale", "empty"}

Row == [status: {"none", "active"} \cup Terminal, started: Nat, heartbeat: Nat, ended: Nat]

NoRow == [status |-> "none", started |-> 0, heartbeat |-> 0, ended |-> 0]

Exists(s) == row[s].status # "none"

-----------------------------------------------------------------------------
(* The calls.                                                              *)

\* create_session: an id larger than every one in the table.
Creates(s) ==
    /\ \A q \in Sessions : Exists(q) => q < s
    /\ row' = [row EXCEPT ![s] =
                [status |-> "active", started |-> now, heartbeat |-> now, ended |-> 0]]
    /\ UNCHANGED <<now, lastEvent>>

\* append_event: the session must exist, its status is not looked at.
AppendsTo(s) ==
    /\ Exists(s)
    /\ lastEvent' = [lastEvent EXCEPT ![s] = now]
    /\ UNCHANGED <<now, row>>

\* touch_session: an active session's heartbeat never goes back.
Touches(s, t) ==
    /\ row[s].status = "active"
    /\ t \in row[s].heartbeat..now
    /\ row' = [row EXCEPT ![s].heartbeat = t]
    /\ UNCHANGED <<now, lastEvent>>

\* A session that ends takes its end for its last heartbeat.
EndedRow(r, status, t) == [status |-> status, started |-> r.started, heartbeat |-> t, ended |-> t]

Ended(s, status, t) == EndedRow(row[s], status, t)

\* close_session
Closes(s, status, t) ==
    /\ row[s].status = "active"
    /\ t \in row[s].started..now
    /\ row' = [row EXCEPT ![s] = Ended(s, status, t)]
    /\ UNCHANGED <<now, lastEvent>>

\* reconcile_stale_sessions: what becomes of an expired session, of which r was read.
ReconciledFrom(s, r) ==
    IF lastEvent[s] = 0 THEN EndedRow(r, "empty", r.started) ELSE EndedRow(r, "stale", lastEvent[s])

Reconciled(s) == ReconciledFrom(s, row[s])

Expired(cutoff) ==
    {s \in Sessions : row[s].status = "active" /\ row[s].heartbeat < cutoff}

\* All sessions that have expired, and no other, end at once.
Reconciles(cutoff) ==
    /\ cutoff + StaleAfter <= now
    /\ row' = [s \in Sessions |-> IF s \in Expired(cutoff) THEN Reconciled(s) ELSE row[s]]
    /\ UNCHANGED <<now, lastEvent>>

\* cleanup_empty_sessions
Forgotten(before) ==
    {s \in Sessions : row[s].status = "empty" /\ row[s].started < before}

Cleans(before) ==
    /\ before + EmptyTTL <= now
    /\ row' = [s \in Sessions |-> IF s \in Forgotten(before) THEN NoRow ELSE row[s]]
    /\ UNCHANGED <<now, lastEvent>>

TimePasses ==
    /\ now < MaxTime
    /\ now' = now + 1
    /\ UNCHANGED <<row, lastEvent>>

-----------------------------------------------------------------------------
TableInit ==
    /\ now = 1
    /\ row = [s \in Sessions |-> NoRow]
    /\ lastEvent = [s \in Sessions |-> 0]

TableNext ==
    \/ TimePasses
    \/ \E s \in Sessions :
          \/ Creates(s)
          \/ AppendsTo(s)
          \/ \E t \in 0..now :
                \/ Touches(s, t)
                \/ \E status \in {"closed", "failed"} : Closes(s, status, t)
    \/ \E t \in 0..MaxTime : Reconciles(t) \/ Cleans(t)

TableSpec == TableInit /\ [][TableNext]_tableVars

-----------------------------------------------------------------------------
(* Properties of the table.                                                *)

\* However late a heartbeat lands, an ended session's last heartbeat is the
\* instant it ended (the status check of touch_session).
HeartbeatNotPastEnd ==
    \A s \in Sessions : row[s].status \in Terminal => row[s].heartbeat = row[s].ended

\* A session ends once: whoever loses the race between a close, a second close
\* and a reconciliation changes nothing.  Only an "empty" row may be deleted.
EndsOnce ==
    [][\A s \in Sessions : row[s].status \in Terminal =>
          row'[s] = row[s] \/ (row[s].status = "empty" /\ row'[s] = NoRow)]_tableVars

\* At the instant a reconciliation ends a session, that session's heartbeat has
\* expired, and it is called "empty" exactly when it has no event: no heartbeat
\* or event slips in between what was read and what is written.
ReconciledRightly ==
    [][\A s \in Sessions :
          row[s].status = "active" /\ row'[s].status \in {"stale", "empty"} =>
              /\ row[s].heartbeat + StaleAfter < now
              /\ row'[s].status = "empty" <=> lastEvent[s] = 0]_tableVars

\* No race brings an ended session back to life.
NeverResurrected ==
    [][\A s \in Sessions : row[s].status \in Terminal => row'[s].status # "active"]_tableVars

\* Nothing is dated later than the clock.
DatedInPast ==
    /\ now \in Nat
    /\ row \in [Sessions -> Row]
    /\ lastEvent \in [Sessions -> 0..now]
    /\ \A s \in Sessions : row[s].started <= now /\ row[s].heartbeat <= now

-----------------------------------------------------------------------------
\* Not so on SQLite, whose foreign keys are off.  server/tools/sessions.py:197
\* "Empty sessions with no events are automatically deleted": one that has an
\* event is not.
OnlyEventlessDeleted ==
    [][\A s \in Sessions : Exists(s) /\ row'[s] = NoRow => lastEvent[s] = 0]_tableVars

=============================================================================
