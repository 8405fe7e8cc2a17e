--------------------------- MODULE SnapshotStore ---------------------------
(***************************************************************************)
(* Who builds a project's snapshots, and when: the automatic snapshot of   *)
(* the write tools and of finalization under the snapshot lease (a         *)
(* directory on SQLite, an advisory lock on PostgreSQL), the tool          *)
(* create_snapshot and the command rebuild-snapshots without it.           *)
(*                                                                         *)
(* A builder is a thread of some server process.  It takes the lease,      *)
(* looks for the latest snapshot, counts the events behind it, reads the   *)
(* log up to a high-water mark, stamps the new row and commits it, with    *)
(* anything in between; it may be arbitrarily slow, fail or die.  The      *)
(* events counted are the semantic ones, of weight one.  What a snapshot   *)
(* holds is StateReplay's subject, here it is its cursor.                  *)
(***************************************************************************)
EXTENDS Naturals, Sequences, FiniteSets

CONSTANTS
    Builders,
    Stable,         \* the builders that go on calling, and neither fail nor die
    Nobody,
    NoSnapshot,
    Backends,       \* the SQL dialects that are tried
    Threshold,      \* auto_snapshot_threshold
    CheckInterval,  \* snapshot_check_interval: calls between two looks
    MinInterval,    \* snapshot_min_interval_seconds, in ticks
    StaleAfter,     \* _SNAPSHOT_LEASE_STALE_SECONDS, in ticks
    MaxEvents,      \* bound: semantic events
    MaxTroubles     \* bound: failures, deaths, manual snapshots and rebuilds

ASSUME SnapshotConstantsOK ==
    /\ Nobody \notin Builders
    /\ Stable \subseteq Builders
    /\ Backends \subseteq {"sqlite", "postgres"}
    /\ {Threshold, CheckInterval} \subseteq Nat \ {0}
    /\ {MinInterval, StaleAfter, MaxEvents, MaxTroubles} \subseteq Nat
    /\ NoSnapshot \notin Nat

VARIABLES
    backend,
    events,    \* semantic events of the log
    latest,    \* the cursor of the snapshot created last (get_latest), or NoSnapshot
    rowAge,    \* ticks since it was created, saturated at MinInterval
    lease,     \* the lease: whether it exists, its age, and who made it
    builder,   \* builder[b]: how far its current build has come
    calls,     \* calls[b]: _event_count of its process
    broken,    \* history: a lease was removed while its owner still worked
    troubles

vars == <<backend, events, latest, rowAge, lease, builder, calls, broken, troubles>>

Building == {"looked", "due", "read", "stamped"}
LeasePhases == Building \cup {"holding", "leaving"}
Phases == LeasePhases \cup {"idle", "asking", "stale", "remaking",
                             "manual", "manual_read", "manual_stamped"}

\* cursor: that of the latest snapshot once looked, of the new one once read.
\* later: whose created_at will be later than this one's, with Nobody if the
\* latest row's is.  overtaken: history, another automatic snapshot was saved
\* since the look.
NotBuilding ==
    [phase |-> "idle", force |-> FALSE, cursor |-> 0, later |-> {}, overtaken |-> FALSE]

Asking(force) == [NotBuilding EXCEPT !.phase = "asking", !.force = force]

\* Nothing left to do but to release the lease.
Leaving == [NotBuilding EXCEPT !.phase = "leaving"]

NoLease == [held |-> FALSE, age |-> 0, owner |-> Nobody]
LeaseOf(b) == [held |-> TRUE, age |-> 0, owner |-> b]

Init ==
    /\ backend \in Backends
    /\ events = 0
    /\ latest = NoSnapshot
    /\ rowAge = MinInterval
    /\ lease = NoLease
    /\ builder = [b \in Builders |-> NotBuilding]
    /\ calls = [b \in Builders |-> 0]
    /\ broken = FALSE
    /\ troubles = 0

Goes(b, phase) == builder' = [builder EXCEPT ![b].phase = phase]

\* The builder goes on with the cursor it has found.
Finds(b, phase, cursor) ==
    builder' = [builder EXCEPT ![b] = [builder[b] EXCEPT !.phase = phase, !.cursor = cursor]]

InLease(b) == builder[b].phase \in LeasePhases

Stamped(b) == builder[b].phase \in {"stamped", "manual_stamped"}

\* event_type_counts_after a cursor, weighted.
WeightAfter(cursor) ==
    LET start == IF cursor = NoSnapshot THEN 0 ELSE cursor
    IN IF events > start THEN events - start ELSE 0

Weight == WeightAfter(latest)

-----------------------------------------------------------------------------
(* the call, and the lease                                                  *)

\* A write tool has appended something; every CheckInterval-th call looks.
Call(b) ==
    /\ builder[b].phase = "idle"
    /\ \/ events < MaxEvents /\ events' = events + 1
       \/ UNCHANGED events
    /\ calls' = [calls EXCEPT ![b] = IF @ + 1 >= CheckInterval THEN 0 ELSE @ + 1]
    /\ builder' = [builder EXCEPT ![b] = IF calls[b] + 1 >= CheckInterval
                                         THEN Asking(FALSE) ELSE @]
    /\ UNCHANGED <<backend, latest, rowAge, lease, broken, troubles>>

\* Finalization asks for a baseline, without the gate.
Finalize(b) ==
    /\ builder[b].phase = "idle"
    /\ builder' = [builder EXCEPT ![b] = Asking(TRUE)]
    /\ UNCHANGED <<backend, events, latest, rowAge, lease, calls, broken, troubles>>

\* Mutant: a lease that is there is never called stale.
IsStale_Never == FALSE

IsStale == lease.age > StaleAfter

\* Mutant: mkdir that does not mind a directory in its place.
Makes_ExistOk(b) ==
    /\ lease' = LeaseOf(b)
    /\ Goes(b, "holding")

\* mkdir, which succeeds for one process alone; pg_try_advisory_lock.
Makes(b) ==
    /\ ~lease.held
    /\ lease' = LeaseOf(b)
    /\ Goes(b, "holding")

\* Mutant: an advisory lock is judged by its age, too.
Ask_AnyBackend(b) ==
    /\ builder[b].phase = "asking"
    /\ \/ Makes(b)
       \/ /\ lease.held
          /\ Goes(b, IF IsStale THEN "stale" ELSE "idle")
          /\ UNCHANGED lease
    /\ UNCHANGED <<backend, events, latest, rowAge, calls, broken, troubles>>

Ask(b) ==
    /\ builder[b].phase = "asking"
    /\ \/ Makes(b)
       \/ /\ lease.held
          /\ Goes(b, IF backend = "sqlite" /\ IsStale THEN "stale" ELSE "idle")
          /\ UNCHANGED lease
    /\ UNCHANGED <<backend, events, latest, rowAge, calls, broken, troubles>>

\* The lease was seen to be stale a moment ago; whatever is there now is removed.
RemoveStale(b) ==
    /\ builder[b].phase = "stale"
    /\ lease' = NoLease
    /\ broken' = (broken \/ (lease.held /\ lease.owner \in Builders /\ InLease(lease.owner)))
    /\ Goes(b, "remaking")
    /\ UNCHANGED <<backend, events, latest, rowAge, calls, troubles>>

Remake(b) ==
    /\ builder[b].phase = "remaking"
    /\ \/ Makes(b)
       \/ lease.held /\ Goes(b, "idle") /\ UNCHANGED lease
    /\ UNCHANGED <<backend, events, latest, rowAge, calls, broken, troubles>>

\* The directory is removed whoever made it; an advisory lock is one's own.
Release(b) ==
    /\ builder[b].phase = "leaving"
    /\ lease' = IF backend = "sqlite" \/ lease.owner = b THEN NoLease ELSE lease
    /\ broken' = (broken \/ (backend = "sqlite" /\ lease.held /\ lease.owner \in Builders \ {b}
                             /\ InLease(lease.owner)))
    /\ builder' = [builder EXCEPT ![b] = NotBuilding]
    /\ UNCHANGED <<backend, events, latest, rowAge, calls, troubles>>

\* The directory cannot be removed (_force_remove_lease gives up): it stays.
RemoveFails(b) ==
    /\ backend = "sqlite" /\ builder[b].phase \in {"stale", "leaving"}
    /\ troubles < MaxTroubles
    /\ troubles' = troubles + 1
    /\ builder' = [builder EXCEPT ![b] = NotBuilding]
    /\ UNCHANGED <<backend, events, latest, rowAge, lease, calls, broken>>

-----------------------------------------------------------------------------
(* the build                                                                *)

\* get_latest, and the minimum interval behind it.
Look(b) ==
    /\ builder[b].phase = "holding"
    /\ \/ /\ latest = NoSnapshot \/ builder[b].force \/ rowAge >= MinInterval
          /\ builder' = [builder EXCEPT ![b] = [builder[b] EXCEPT
                            !.phase = "looked", !.cursor = latest, !.overtaken = FALSE]]
       \/ /\ latest # NoSnapshot /\ ~builder[b].force /\ rowAge < MinInterval
          /\ builder' = [builder EXCEPT ![b] = Leaving]
    /\ UNCHANGED <<backend, events, latest, rowAge, lease, calls, broken, troubles>>

\* Enough events behind the snapshot it has seen, or a baseline where none was.
Due(b) ==
    \/ WeightAfter(builder[b].cursor) >= Threshold
    \/ builder[b].cursor = NoSnapshot /\ builder[b].force /\ events > 0

Count(b) ==
    /\ builder[b].phase = "looked"
    /\ builder' = [builder EXCEPT ![b] =
                     IF Due(b) THEN [NotBuilding EXCEPT !.phase = "due", !.overtaken = builder[b].overtaken]
                               ELSE Leaving]
    /\ UNCHANGED <<backend, events, latest, rowAge, lease, calls, broken, troubles>>

\* The events up to the newest one.
Read(b) ==
    /\ builder[b].phase = "due"
    /\ Finds(b, "read", events)
    /\ UNCHANGED <<backend, events, latest, rowAge, lease, calls, broken, troubles>>

\* created_at is taken before the transaction that inserts the row.
Stamps(b, phase) ==
    builder' = [c \in Builders |->
                  CASE c = b -> [builder[b] EXCEPT !.phase = phase, !.later = {}]
                    [] c # b /\ Stamped(c) -> [builder[c] EXCEPT !.later = @ \cup {b}]
                    [] OTHER -> builder[c]]

Stamp(b) ==
    /\ builder[b].phase = "read"
    /\ Stamps(b, "stamped")
    /\ UNCHANGED <<backend, events, latest, rowAge, lease, calls, broken, troubles>>

\* The row is the latest unless one with a later created_at is there already.  It
\* is as old as the wait for the write lock was long.
Inserted(b) ==
    \/ Nobody \in builder[b].later /\ UNCHANGED <<latest, rowAge>>
    \/ Nobody \notin builder[b].later /\ latest' = builder[b].cursor /\ rowAge' \in 0..MinInterval

\* Any other row that waits for its insertion learns what is before it.
LearnsOf(b, c) ==
    [builder[c] EXCEPT !.later = IF b \in @ THEN (@ \ {b}) \cup {Nobody} ELSE @]

Save(b) ==
    /\ builder[b].phase = "stamped"
    /\ Inserted(b)
    /\ builder' = [c \in Builders |->
                     IF c = b THEN Leaving
                     ELSE [LearnsOf(b, c) EXCEPT !.overtaken = builder[c].phase \in Building]]
    /\ UNCHANGED <<backend, events, lease, calls, broken, troubles>>

\* An exception: the lease is released all the same.
Fails(b) ==
    /\ b \notin Stable /\ builder[b].phase \in Building \cup {"holding"}
    /\ troubles < MaxTroubles
    /\ troubles' = troubles + 1
    /\ builder' = [builder EXCEPT ![b] = Leaving]
    /\ UNCHANGED <<backend, events, latest, rowAge, lease, calls, broken>>

\* Death: the directory stays, the advisory lock goes with its connection.
Dies(b) ==
    /\ b \notin Stable /\ troubles < MaxTroubles
    /\ troubles' = troubles + 1
    /\ builder' = [builder EXCEPT ![b] = NotBuilding]
    /\ calls' = [calls EXCEPT ![b] = 0]
    /\ lease' = IF backend = "postgres" /\ lease.owner = b THEN NoLease ELSE lease
    /\ UNCHANGED <<backend, events, latest, rowAge, broken>>

-----------------------------------------------------------------------------
(* snapshots without the lease                                              *)

\* create_snapshot: nothing is built when the latest snapshot covers the log.
Manual(b, force) ==
    /\ builder[b].phase = "idle" /\ troubles < MaxTroubles
    /\ latest = NoSnapshot \/ force \/ Weight > 0
    /\ troubles' = troubles + 1
    /\ Goes(b, "manual")
    /\ UNCHANGED <<backend, events, latest, rowAge, lease, calls, broken>>

\* rebuild-snapshots: all snapshots are deleted before the log is read.
Rebuild(b) ==
    /\ builder[b].phase = "idle" /\ troubles < MaxTroubles
    /\ troubles' = troubles + 1
    /\ latest' = NoSnapshot /\ rowAge' = MinInterval
    /\ builder' = [c \in Builders |->
                     IF c = b THEN [NotBuilding EXCEPT !.phase = IF events > 0 THEN "manual" ELSE "idle"]
                     ELSE [builder[c] EXCEPT !.later = @ \ {Nobody}]]
    /\ UNCHANGED <<backend, events, lease, calls, broken>>

ManualRead(b) ==
    /\ builder[b].phase = "manual"
    /\ Finds(b, "manual_read", events)
    /\ UNCHANGED <<backend, events, latest, rowAge, lease, calls, broken, troubles>>

ManualStamp(b) ==
    /\ builder[b].phase = "manual_read"
    /\ Stamps(b, "manual_stamped")
    /\ UNCHANGED <<backend, events, latest, rowAge, lease, calls, broken, troubles>>

ManualSave(b) ==
    /\ builder[b].phase = "manual_stamped"
    /\ Inserted(b)
    /\ builder' = [c \in Builders |-> IF c = b THEN NotBuilding ELSE LearnsOf(b, c)]
    /\ UNCHANGED <<backend, events, lease, calls, broken, troubles>>

\* Ages saturate where nothing distinguishes them any more.
Tick ==
    /\ (lease.held /\ lease.age <= StaleAfter) \/ rowAge < MinInterval
    /\ lease' = IF lease.held /\ lease.age <= StaleAfter THEN [lease EXCEPT !.age = @ + 1] ELSE lease
    /\ rowAge' = IF rowAge < MinInterval THEN rowAge + 1 ELSE rowAge
    /\ UNCHANGED <<backend, events, latest, builder, calls, broken, troubles>>

AutoStep(b) ==
    \/ Call(b) \/ Ask(b) \/ RemoveStale(b) \/ Remake(b)
    \/ Look(b) \/ Count(b) \/ Read(b) \/ Stamp(b) \/ Save(b) \/ Release(b)

ManualStep(b) == ManualRead(b) \/ ManualStamp(b) \/ ManualSave(b)

Next ==
    \/ Tick
    \/ \E b \in Builders :
          \/ AutoStep(b) \/ Finalize(b) \/ RemoveFails(b) \/ Fails(b) \/ Dies(b)
          \/ Rebuild(b) \/ ManualStep(b)
          \/ \E force \in BOOLEAN : Manual(b, force)

Spec == Init /\ [][Next]_vars

\* Time passes; a stable server's tools are called again and again and go on.
\* The others may hang, but for PostgreSQL, where only the end of its connection
\* takes the advisory lock from a holder that hangs.
Fairness ==
    /\ WF_vars(Tick)
    /\ \A b \in Stable : WF_vars(AutoStep(b)) /\ WF_vars(ManualStep(b))
    /\ \A b \in Builders \ Stable : WF_vars(backend = "postgres" /\ AutoStep(b))

FairSpec == Spec /\ Fairness

-----------------------------------------------------------------------------
(* properties                                                               *)

TypeOK ==
    /\ backend \in Backends
    /\ events \in Nat
    /\ latest \in Nat \cup {NoSnapshot}
    /\ rowAge \in 0..MinInterval
    /\ lease \in [held: BOOLEAN, age: 0..StaleAfter + 1, owner: Builders \cup {Nobody}]
    /\ builder \in [Builders -> [phase: Phases, force: BOOLEAN, cursor: Nat \cup {NoSnapshot},
                                 later: SUBSET (Builders \cup {Nobody}), overtaken: BOOLEAN]]
    /\ calls \in [Builders -> Nat]
    /\ broken \in BOOLEAN
    /\ troubles \in Nat

\* Until a lease is removed under its owner, at most one builder works at a
\* time, across processes, deaths and failures; and PostgreSQL's never is
\* (_snapshot_lease).
LeaseExclusive ==
    /\ ~broken => \A b, c \in Builders : InLease(b) /\ InLease(c) => b = c
    /\ backend = "postgres" => ~broken

\* As long as leases last, what an automatic build found due is still due when
\* it saves: no other automatic build has saved in between, so that none is
\* built twice (_build_snapshot_if_due reads under the lease).
StillDue ==
    ~broken => \A b \in Builders : builder[b].phase \in Building => ~builder[b].overtaken

LeaseOwned ==
    /\ ~broken => \A b \in Builders : InLease(b) => lease.held /\ lease.owner = b
    /\ backend = "postgres" => ~broken
    /\ backend = "postgres" => \A b \in Builders : builder[b].phase \notin {"stale", "remaking"}

CursorInLog ==
    /\ latest # NoSnapshot => latest <= events
    /\ \A b \in Builders : builder[b].cursor # NoSnapshot => builder[b].cursor <= events

\* The inductive invariant: who works under the lease owns it until it is
\* broken, an advisory lock is never taken for stale, no build is overtaken,
\* and no snapshot points past the log (maybe_auto_snapshot).
SnapshotIInv == TypeOK /\ LeaseOwned /\ StillDue /\ CursorInLog

\* Once Threshold events have gathered behind the latest snapshot, a new one is
\* taken some day, even if a builder died with the lease or hangs in it.
DueIsTaken == Weight >= Threshold ~> Weight < Threshold

\* server/tools/_snapshot.py:104 "Cross-process snapshot mutex".
Mutex == \A b, c \in Builders : InLease(b) /\ InLease(c) => b = c

=============================================================================
