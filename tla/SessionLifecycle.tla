-------------------------- MODULE SessionLifecycle --------------------------
(***************************************************************************)
(* The life of sessions across server processes that share one SQLite      *)
(* database: server/lifecycle.py, lifecycle_session.py,                    *)
(* lifecycle_middleware.py, context.py and the close_session tool.         *)
(*                                                                         *)
(* A server keeps an in-memory copy of its session and a git baseline.  On *)
(* its event loop run tool calls and the lifespan's finalization; in       *)
(* worker threads run tool bodies, the heartbeat and the cleanup.  A step  *)
(* is one repository call (SessionRows has the argument for SQLite), or    *)
(* the few in a row that end a tool call.  Between two steps anything else *)
(* may happen, a crash included.                                           *)
(***************************************************************************)
EXTENDS Integers, FiniteSets

CONSTANTS
    Servers,      \* server processes
    Stable,       \* servers that neither crash, nor see their client leave, nor
                  \* have a reconciliation fail on the database
    Used,         \* bound: servers whose client calls tools
    Calls,        \* bound: tool calls one server has in flight
    NoSession,    \* no session
    MaxSessions   \* bound: session ids

ASSUME LifecycleConstantsOK ==
    /\ Stable \subseteq Servers /\ Used \subseteq Servers
    /\ MaxSessions \in Nat
    /\ NoSession \notin 1..MaxSessions

VARIABLES
    row,      \* row[s]: the committed row of session s
    log,      \* log[s]: what the event stream holds for session s
    mem,      \* mem[i]: the in-memory session state of server i
    call,     \* call[i][k]: a tool call in flight
    beat,     \* beat[i]: the heartbeat loop
    clean,    \* clean[i]: the reconciler
    final     \* final[i]: the finalization at the end of the lifespan

vars == <<row, log, mem, call, beat, clean, final>>

Sessions == 1..MaxSessions
Terminal == {"closed", "failed", "stale", "empty"}

\* expired: last_heartbeat_at is older than STALE_AFTER_SECONDS; by: what ended
\* the session.  close_reason is left out: the close_session tool writes any
\* string its caller likes, "stdio_eof" included.
Row == [status: {"none", "active"} \cup Terminal,
        by: {"nobody", "finalization", "tool", "reconciler"}, expired: BOOLEAN]
NoRow == [status |-> "none", by |-> "nobody", expired |-> FALSE]

\* started, other: there is such an event; summaries are counted, up to two.
Log == [started: BOOLEAN, summaries: 0..2, other: BOOLEAN]
Inc(n) == IF n = 2 THEN 2 ELSE n + 1

Exists(s) == row[s].status # "none"
Active(s) == row[s].status = "active"
Eventful(s) == log[s].started \/ log[s].summaries > 0 \/ log[s].other

\* baseline: None, the {} that reserves the initialisation, or a fingerprint.
Memory == [session: Sessions \cup {NoSession}, baseline: {"none", "reserved", "set"}]
Detached == [session |-> NoSession, baseline |-> "none"]

\* session: the one the call was given; made: one a step of it created.
IdleCall == [pc |-> "idle", session |-> NoSession, made |-> NoSession]
IdleBeat == [pc |-> "idle", session |-> NoSession, baseline |-> "none"]
IdleClean == [todo |-> {}, owing |-> NoSession]
Serving == [pc |-> "serving", summarized |-> FALSE]

-----------------------------------------------------------------------------
(* Repository calls: what they do to row and log.                          *)

\* create_session on SQLite: one more than the largest id in the table.
NextId(s) ==
    \A q \in Sessions : IF q < s THEN q = s - 1 => Exists(q) ELSE ~Exists(q)

Created(s) ==
    [row EXCEPT ![s] = [status |-> "active", by |-> "nobody", expired |-> FALSE]]

\* append_event of an event that is neither a start nor a summary; it fails,
\* and the callers below swallow that, when the session row is gone.
Noted(s) == [log EXCEPT ![s].other = @ \/ Exists(s)]

Summarized(s) == [log EXCEPT ![s].summaries = Inc(@)]

\* close_session leaves a row that has ended alone.
Closed(s, status, by) ==
    IF Active(s)
    THEN [row EXCEPT ![s] = [status |-> status, by |-> by, expired |-> FALSE]]
    ELSE row

\* touch_session
Touched(s) == IF Active(s) THEN [row EXCEPT ![s].expired = FALSE] ELSE row

-----------------------------------------------------------------------------
(* A tool call.  on_call_tool keeps the event loop up to call_next, and    *)
(* finalize_active_session to its end; tool bodies run in threads.         *)

LoopFree(i) ==
    /\ final[i].pc = "serving"
    /\ \A k \in Calls : call[i][k].pc \in {"idle", "running", "making", "detaching"}

\* ensure_active_session, up to the INSERT that it makes outside the lock.
EnsureSession(i, k, s) ==
    /\ i \in Used /\ LoopFree(i)
    /\ call[i][k].pc = "idle"
    /\ IF mem[i].session = NoSession
       THEN /\ NextId(s)
            /\ row' = Created(s)
            /\ call' = [call EXCEPT ![i][k].pc = "creating", ![i][k].made = s]
       ELSE /\ s = mem[i].session
            /\ call' = [call EXCEPT ![i][k].pc = "ensured", ![i][k].session = s]
            /\ UNCHANGED row
    /\ UNCHANGED <<log, mem, beat, clean, final>>

\* The session a creator ends up with: whoever assigned first wins.
Adopted(i, s) == IF mem[i].session = NoSession THEN s ELSE mem[i].session

AdoptSession(i, k) ==
    LET s == Adopted(i, call[i][k].made)
    IN  /\ call[i][k].pc = "creating"
        /\ mem' = [mem EXCEPT ![i].session = s]
        /\ call' = [call EXCEPT ![i][k] =
                      [pc |-> "ensured", session |-> s, made |-> NoSession]]
        /\ UNCHANGED <<row, log, beat, clean, final>>

\* ensure_session_started: whoever finds no baseline reserves the start.
ReserveStart(i, k) ==
    /\ call[i][k].pc = "ensured"
    /\ IF mem[i].baseline = "none"
       THEN /\ mem' = [mem EXCEPT ![i].baseline = "reserved"]
            /\ call' = [call EXCEPT ![i][k].pc = "starting"]
       ELSE /\ call' = [call EXCEPT ![i][k].pc = "started"]
            /\ UNCHANGED mem
    /\ UNCHANGED <<row, log, beat, clean, final>>

RecordStart(i, k) ==
    LET s == call[i][k].session
    IN  /\ call[i][k].pc = "starting"
        /\ Exists(s)
        /\ log' = [log EXCEPT ![s].started = TRUE]
        /\ mem' = [mem EXCEPT ![i].baseline = "set"]
        /\ call' = [call EXCEPT ![i][k].pc = "started"]
        /\ UNCHANGED <<row, beat, clean, final>>

\* Mutant: the reservation is not released.
StartFails_Keeps(i, k) ==
    /\ call[i][k].pc = "starting"
    /\ call' = [call EXCEPT ![i][k] = IdleCall]
    /\ UNCHANGED <<row, log, mem, beat, clean, final>>

\* The fingerprint or the append raises: the call ends with the error.
StartFails(i, k) ==
    /\ call[i][k].pc = "starting"
    /\ mem' = [mem EXCEPT ![i].baseline = "none"]
    /\ call' = [call EXCEPT ![i][k] = IdleCall]
    /\ UNCHANGED <<row, log, beat, clean, final>>

\* on_call_tool: the TOOL_CALL event, then call_next.
RecordCall(i, k) ==
    /\ call[i][k].pc = "started"
    /\ log' = Noted(call[i][k].session)
    /\ call' = [call EXCEPT ![i][k].pc = "running"]
    /\ UNCHANGED <<row, mem, beat, clean, final>>

\* The body of the close_session tool; the session need not be the caller's.
CloseTool(i, k, s) ==
    /\ call[i][k].pc = "running"
    /\ Exists(s)
    /\ row' = Closed(s, "closed", "tool")
    /\ call' = [call EXCEPT ![i][k].pc = "detaching", ![i][k].made = s]
    /\ UNCHANGED <<log, mem, beat, clean, final>>

DetachClosed(i, k) ==
    /\ call[i][k].pc = "detaching"
    /\ final[i].pc \in {"serving", "exiting"}
    /\ mem' = [mem EXCEPT ![i] = IF @.session = call[i][k].made THEN Detached ELSE @]
    /\ call' = [call EXCEPT ![i][k].pc = "running", ![i][k].made = NoSession]
    /\ UNCHANGED <<row, log, beat, clean, final>>

\* The body of a queue tool calls ensure_active_session in its own thread.
MakeInTool(i, k, s) ==
    /\ call[i][k].pc = "running"
    /\ mem[i].session = NoSession
    /\ NextId(s)
    /\ row' = Created(s)
    /\ call' = [call EXCEPT ![i][k].pc = "making", ![i][k].made = s]
    /\ UNCHANGED <<log, mem, beat, clean, final>>

AdoptInTool(i, k) ==
    /\ call[i][k].pc = "making"
    /\ mem' = [mem EXCEPT ![i].session = Adopted(i, call[i][k].made)]
    /\ call' = [call EXCEPT ![i][k].pc = "running", ![i][k].made = NoSession]
    /\ UNCHANGED <<row, log, beat, clean, final>>

\* on_call_tool after call_next: the outcome goes to the session the call was
\* given; unless the tool raised, record_git_changes leaves a baseline behind,
\* whatever session the server has by now, and the session is touched.  Each of
\* the two may fail by itself, which is swallowed.
FinishCall(i, k, compared, touched) ==
    LET s == call[i][k].session
    IN  /\ LoopFree(i)
        /\ call[i][k].pc = "running"
        /\ log' = Noted(s)
        /\ mem' = IF compared THEN [mem EXCEPT ![i].baseline = "set"] ELSE mem
        /\ row' = IF touched THEN Touched(s) ELSE row
        /\ call' = [call EXCEPT ![i][k] = IdleCall]
        /\ UNCHANGED <<beat, clean, final>>

-----------------------------------------------------------------------------
(* _heartbeat_loop: a coroutine that runs touch_session and                *)
(* record_git_changes in threads.                                          *)

\* finalize_active_session holds _session_lock from its start to its end.
LockFree(i) == final[i].pc \in {"serving", "exiting"}

\* Mutant: the result of touch_session is not looked at.
BeatTouch_Blind(i) ==
    /\ beat[i].pc = "idle" /\ LoopFree(i)
    /\ mem[i].session # NoSession
    /\ row' = Touched(mem[i].session)
    /\ beat' = [beat EXCEPT ![i].pc = "alive", ![i].session = mem[i].session]
    /\ UNCHANGED <<log, mem, call, clean, final>>

BeatTouch(i) ==
    LET s == mem[i].session
    IN  /\ beat[i].pc = "idle" /\ LoopFree(i)
        /\ s # NoSession
        /\ row' = Touched(s)
        /\ beat' = [beat EXCEPT ![i].pc = IF Active(s) THEN "alive" ELSE "dead",
                                ![i].session = s]
        /\ UNCHANGED <<log, mem, call, clean, final>>

\* The session has ended or is gone: detach, unless it was replaced already.
BeatDetach(i) ==
    /\ beat[i].pc = "dead" /\ LoopFree(i)
    /\ mem' = [mem EXCEPT ![i] = IF @.session = beat[i].session THEN Detached ELSE @]
    /\ beat' = [beat EXCEPT ![i] = IdleBeat]
    /\ UNCHANGED <<row, log, call, clean, final>>

\* record_git_changes reads the baseline under the lock ...
BeatGitRead(i) ==
    /\ beat[i].pc = "alive" /\ LockFree(i)
    /\ beat' = [beat EXCEPT ![i].pc = "git", ![i].baseline = mem[i].baseline]
    /\ UNCHANGED <<row, log, mem, call, clean, final>>

\* ... compares fingerprints outside it, and takes it again to append what
\* changed to the session that was touched and to set the new baseline.
BeatGitWrite(i, changed) ==
    /\ beat[i].pc = "git" /\ LockFree(i)
    /\ changed => beat[i].baseline # "none" /\ Exists(beat[i].session)
    /\ log' = IF changed THEN Noted(beat[i].session) ELSE log
    /\ mem' = [mem EXCEPT ![i].baseline = "set"]
    /\ beat' = [beat EXCEPT ![i] = IdleBeat]
    /\ UNCHANGED <<row, call, clean, final>>

\* An exception in it is logged, and the loop goes on.
BeatGitFails(i) ==
    /\ beat[i].pc = "git"
    /\ beat' = [beat EXCEPT ![i] = IdleBeat]
    /\ UNCHANGED <<row, log, mem, call, clean, final>>

-----------------------------------------------------------------------------
(* _cleanup_loop and the cleanup_stale_sessions tool, in a thread.         *)

\* Mutant: a session without an event is not reconciled.
Stale_Eventful == {s \in Sessions : Active(s) /\ row[s].expired /\ Eventful(s)}

Stale == {s \in Sessions : Active(s) /\ row[s].expired}

\* The transaction that ends every expired session; an overslept loop skips it.
Reconcile(i) ==
    /\ clean[i] = IdleClean /\ LoopFree(i)
    /\ Stale # {}
    /\ row' = [s \in Sessions |->
                  IF s \in Stale
                  THEN [status |-> IF Eventful(s) THEN "stale" ELSE "empty",
                        by |-> "reconciler", expired |-> FALSE]
                  ELSE row[s]]
    /\ clean' = [clean EXCEPT ![i].todo = {s \in Stale : Eventful(s)}]
    /\ UNCHANGED <<log, mem, call, beat, final>>

\* Mutant: the missing summary is not written.
LookForSummary_Drops(i, s) ==
    /\ s \in clean[i].todo /\ clean[i].owing = NoSession
    /\ clean' = [clean EXCEPT ![i].todo = @ \ {s}]
    /\ UNCHANGED <<row, log, mem, call, beat, final>>

\* For each of them: look for a summary ...
LookForSummary(i, s) ==
    /\ s \in clean[i].todo /\ clean[i].owing = NoSession
    /\ clean' = [clean EXCEPT ![i] =
                    [todo |-> @.todo \ {s},
                     owing |-> IF log[s].summaries > 0 THEN NoSession ELSE s]]
    /\ UNCHANGED <<row, log, mem, call, beat, final>>

\* ... and append the missing one in a transaction of its own.
AppendSummary(i) ==
    /\ clean[i].owing # NoSession
    /\ log' = Summarized(clean[i].owing)
    /\ clean' = [clean EXCEPT ![i].owing = NoSession]
    /\ UNCHANGED <<row, mem, call, beat, final>>

\* Either may raise; the rows are terminal by now, and nothing will list these
\* sessions again.
SummaryFails(i) ==
    /\ i \notin Stable
    /\ clean[i] # IdleClean
    /\ clean' = [clean EXCEPT ![i] = IdleClean]
    /\ UNCHANGED <<row, log, mem, call, beat, final>>

\* cleanup_empty_sessions deletes those started long enough ago.
CleanupEmpty(i, S) ==
    /\ clean[i] = IdleClean /\ LoopFree(i)
    /\ S # {} /\ \A s \in S : row[s].status = "empty"
    /\ row' = [s \in Sessions |-> IF s \in S THEN NoRow ELSE row[s]]
    /\ UNCHANGED <<log, mem, call, beat, clean, final>>

-----------------------------------------------------------------------------
(* finalize_active_session, at the end of the lifespan.                    *)

\* The client is gone and its calls have ended: re-read the row.
FinalizeBegin(i) ==
    LET s == mem[i].session
    IN  /\ i \notin Stable
        /\ final[i].pc = "serving"
        /\ \A k \in Calls : call[i][k].pc = "idle"
        /\ final' = [final EXCEPT ![i].pc =
              IF s = NoSession \/ row[s].status \in Terminal THEN "exiting" ELSE "listing"]
        /\ mem' = IF s # NoSession /\ row[s].status \in Terminal
                  THEN [mem EXCEPT ![i].baseline = "none"] ELSE mem
        /\ UNCHANGED <<row, log, call, beat, clean>>

\* record_git_changes, then list_session_events.
FinalizeList(i, changed) ==
    LET s == mem[i].session
    IN  /\ final[i].pc = "listing"
        /\ changed => mem[i].baseline # "none" /\ Exists(s)
        /\ log' = IF changed THEN Noted(s) ELSE log
        /\ final' = [final EXCEPT ![i].pc = "summarizing",
                                  ![i].summarized = log[s].summaries > 0]
        /\ mem' = [mem EXCEPT ![i].baseline = "set"]
        /\ UNCHANGED <<row, call, beat, clean>>

FinalizeSummary(i) ==
    LET s == mem[i].session
    IN  /\ final[i].pc = "summarizing"
        /\ final[i].summarized \/ Exists(s)
        /\ log' = IF final[i].summarized THEN log ELSE Summarized(s)
        /\ final' = [final EXCEPT ![i].pc = "closing"]
        /\ UNCHANGED <<row, mem, call, beat, clean>>

\* close_session, and the assignment of active_session.
FinalizeClose(i, status) ==
    LET s == mem[i].session
    IN  /\ final[i].pc = "closing"
        /\ row' = Closed(s, status, "finalization")
        /\ mem' = IF Exists(s) THEN [mem EXCEPT ![i].baseline = "none"] ELSE mem
        /\ final' = [final EXCEPT ![i].pc = "exiting"]
        /\ UNCHANGED <<log, call, beat, clean>>

\* Mutant: the error is swallowed where it is raised.
FinalizeFails_GoesOn(i) ==
    /\ final[i].pc \in {"listing", "summarizing", "closing"}
    /\ final' = [final EXCEPT ![i].pc = "closing"]
    /\ UNCHANGED <<row, log, mem, call, beat, clean>>

\* An exception in it is logged and the process ends.
FinalizeFails(i) ==
    /\ final[i].pc \in {"listing", "summarizing", "closing"}
    /\ final' = [final EXCEPT ![i].pc = "exiting"]
    /\ UNCHANGED <<row, log, mem, call, beat, clean>>

\* What a new process in i's place starts from.
Restarted(i) ==
    /\ mem' = [mem EXCEPT ![i] = Detached]
    /\ call' = [call EXCEPT ![i] = [k \in Calls |-> IdleCall]]
    /\ beat' = [beat EXCEPT ![i] = IdleBeat]
    /\ clean' = [clean EXCEPT ![i] = IdleClean]
    /\ final' = [final EXCEPT ![i] = Serving]
    /\ UNCHANGED <<row, log>>

\* The background tasks are cancelled and awaited: a thread ends its function.
Exit(i) ==
    /\ final[i].pc = "exiting"
    /\ beat[i].pc # "git" /\ clean[i] = IdleClean
    /\ Restarted(i)

Crash(i) == i \notin Stable /\ Restarted(i)

\* Nobody touches s for STALE_AFTER_SECONDS: its server hangs, the host sleeps,
\* or it has no server.
Expire(s) ==
    /\ Active(s) /\ ~row[s].expired
    /\ row' = [row EXCEPT ![s].expired = TRUE]
    /\ UNCHANGED <<log, mem, call, beat, clean, final>>

-----------------------------------------------------------------------------
Init ==
    /\ row = [s \in Sessions |-> NoRow]
    /\ log = [s \in Sessions |-> [started |-> FALSE, summaries |-> 0, other |-> FALSE]]
    /\ mem = [i \in Servers |-> Detached]
    /\ call = [i \in Servers |-> [k \in Calls |-> IdleCall]]
    /\ beat = [i \in Servers |-> IdleBeat]
    /\ clean = [i \in Servers |-> IdleClean]
    /\ final = [i \in Servers |-> Serving]

\* The steps a call takes by itself once it was begun.
CallProgress(i, k) ==
    \/ AdoptSession(i, k)
    \/ ReserveStart(i, k)
    \/ RecordStart(i, k)
    \/ StartFails(i, k)
    \/ RecordCall(i, k)
    \/ DetachClosed(i, k)
    \/ AdoptInTool(i, k)
    \/ \E compared, touched \in BOOLEAN : FinishCall(i, k, compared, touched)

BeatStep(i) ==
    \/ BeatTouch(i)
    \/ BeatDetach(i)
    \/ BeatGitRead(i)
    \/ \E changed \in BOOLEAN : BeatGitWrite(i, changed)
    \/ BeatGitFails(i)

SummaryStep(i) ==
    \/ \E s \in Sessions : LookForSummary(i, s)
    \/ AppendSummary(i)
    \/ SummaryFails(i)

FinalStep(i) ==
    \/ \E changed \in BOOLEAN : FinalizeList(i, changed)
    \/ FinalizeSummary(i)
    \/ \E status \in {"closed", "failed"} : FinalizeClose(i, status)
    \/ FinalizeFails(i)
    \/ Exit(i)

ServerStep(i) ==
    \/ \E k \in Calls : CallProgress(i, k)
    \/ \E k \in Calls, s \in Sessions :
          EnsureSession(i, k, s) \/ CloseTool(i, k, s) \/ MakeInTool(i, k, s)
    \/ BeatStep(i)
    \/ Reconcile(i)
    \/ SummaryStep(i)
    \/ \E S \in SUBSET Sessions : CleanupEmpty(i, S)
    \/ FinalizeBegin(i)
    \/ FinalStep(i)
    \/ Crash(i)

Next == (\E i \in Servers : ServerStep(i)) \/ (\E s \in Sessions : Expire(s))

Spec == Init /\ [][Next]_vars

\* Threads go on, time passes, and an event loop runs what is ready in turn, so
\* that calls cannot keep the heartbeat from it for ever.
Fairness ==
    /\ \A i \in Servers :
          /\ SF_vars(BeatStep(i)) /\ WF_vars(SummaryStep(i)) /\ WF_vars(FinalStep(i))
          /\ \A k \in Calls : WF_vars(CallProgress(i, k))
    /\ \A i \in Stable : WF_vars(Reconcile(i))
    /\ \A s \in Sessions : WF_vars(Expire(s))

FairSpec == Spec /\ Fairness

-----------------------------------------------------------------------------
(* Properties.                                                             *)

Call == [pc: {"idle", "creating", "making", "ensured", "starting", "started", "running", "detaching"},
         session: Sessions \cup {NoSession}, made: Sessions \cup {NoSession}]
Beat == [pc: {"idle", "alive", "dead", "git"}, session: Sessions \cup {NoSession},
         baseline: {"none", "reserved", "set"}]
Clean == [todo: SUBSET Sessions, owing: Sessions \cup {NoSession}]
Finalization == [pc: {"serving", "listing", "summarizing", "closing", "exiting"},
                 summarized: BOOLEAN]

TypeOK ==
    /\ row \in [Sessions -> Row]
    /\ log \in [Sessions -> Log]
    /\ mem \in [Servers -> Memory]
    /\ call \in [Servers -> [Calls -> Call]]
    /\ beat \in [Servers -> Beat]
    /\ clean \in [Servers -> Clean]
    /\ final \in [Servers -> Finalization]

\* A session that the finalization of its own server ended has a summary: no
\* crash, failure or race leaves a row that it closed without one.
SummaryBeforeClose ==
    \A s \in Sessions : row[s].by = "finalization" => log[s].summaries > 0

\* A reserved initialisation is always backed by the call that will record or
\* release it: a server is never stuck believing that a start is under way.
ReservationsBacked ==
    \A i \in Servers :
        mem[i].baseline = "reserved" => \E k \in Calls : call[i][k].pc = "starting"

\* Nothing of the client runs once its lifespan ends (LoopFree).
FinalizationAlone ==
    \A i \in Servers :
        final[i].pc # "serving" => \A k \in Calls : call[i][k].pc = "idle"

\* The finalization keeps to one session, and goes on to close it only when its
\* summary is there.
SummaryInTime ==
    \A i \in Servers :
        /\ final[i].pc \in {"listing", "summarizing", "closing"} => mem[i].session \in Sessions
        /\ (final[i].pc = "summarizing" /\ final[i].summarized) \/ final[i].pc = "closing" =>
              log[mem[i].session].summaries > 0

\* The inductive invariant: a finalization that is about to close has seen to the
\* summary of the very session it closes, since no call, heartbeat or other
\* server can take the session from under it; and whoever reserved a start is
\* still there to release it (finalize_active_session, ensure_session_started).
LifecycleIInv ==
    TypeOK /\ FinalizationAlone /\ SummaryInTime /\ SummaryBeforeClose /\ ReservationsBacked

\* "finalization re-reads the authoritative row to avoid duplicate summaries"
\* (SECURITY.md): no session ever has two summaries.
SummariesUnique == \A s \in Sessions : log[s].summaries <= 1

\* A call that is past ensure_session_started runs in a session that has its
\* SESSION_STARTED event.
CallsRunInStartedSessions ==
    \A i \in Servers, k \in Calls :
        call[i][k].pc = "running" => log[call[i][k].session].started

\* A session in which nobody works any more does not stay active for ever.
Abandoned(s) ==
    /\ Active(s)
    /\ \A i \in Servers :
          /\ s \notin {mem[i].session, beat[i].session}
          /\ \A k \in Calls : s \notin {call[i][k].session, call[i][k].made}

AbandonedEnds == \A s \in Sessions : Abandoned(s) ~> ~Active(s)

\* Every session that a reconciler ended as stale gets its summary, as long as
\* that reconciler's process lives and its database calls succeed.
StaleSummarized ==
    \A i \in Stable, s \in Sessions :
        s \in clean[i].todo \cup {clean[i].owing} ~> log[s].summaries > 0

\* A server whose session was ended or deleted behind its back leaves it: the
\* heartbeat finds out and the next call starts a fresh one.
ServersLeaveDeadSessions ==
    \A i \in Servers, s \in Sessions :
        mem[i].session = s /\ ~Active(s) ~> mem[i].session # s \/ Active(s)

=============================================================================
