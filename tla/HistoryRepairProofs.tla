------------------------- MODULE HistoryRepairProofs -------------------------
(***************************************************************************)
(* repair-history keeps the shared history intact, for any number of       *)
(* sources, sessions and servers, wherever it breaks off.                  *)
(*                                                                         *)
(* The merge reads positions and ids without a lock.  Positions are saved  *)
(* by the unique index: the first position it claimed was the end of the   *)
(* stream then (DraftsOK), so if that is free at the commit it still is.   *)
(* Ids are saved because what servers append meanwhile is in no source     *)
(* (KnownOK), and the order of a log because logs with a common event      *)
(* agree up to it (LogsAgree).                                             *)
(***************************************************************************)
EXTENDS HistoryRepair, FunctionTheorems, FiniteSetTheorems, TLAPS

-----------------------------------------------------------------------------
(* What the merge takes from a log.                                        *)

\* Every member of a finite set has its rank, and every rank its member.
LEMMA Ranked ==
    ASSUME NEW S \in SUBSET Int, IsFiniteSet(S)
    PROVE  /\ Cardinality(S) \in Nat
           /\ \A n \in 1..Cardinality(S) :
                 /\ Nth(S, n) \in S
                 /\ \A m \in 1..Cardinality(S) : n < m => Nth(S, n) < Nth(S, m)
           /\ \A x \in S : \E n \in 1..Cardinality(S) : Nth(S, n) = x
<1> DEFINE upto(x) == {y \in S : y <= x}
           N == Cardinality(S)
           rank == [x \in S |-> Cardinality(upto(x))]
<1>0. \A x \in S : x \in Int
  OBVIOUS
<1>1. N \in Nat
  BY FS_CardinalityType
<1>2. \A x \in S : IsFiniteSet(upto(x)) /\ Cardinality(upto(x)) \in 1..N
  <2> SUFFICES ASSUME NEW x \in S
               PROVE  IsFiniteSet(upto(x)) /\ Cardinality(upto(x)) \in 1..N
    OBVIOUS
  <2>1. upto(x) \in SUBSET S /\ x \in upto(x)
    OBVIOUS
  <2> HIDE DEF upto
  <2>2. IsFiniteSet(upto(x)) /\ Cardinality(upto(x)) <= N
    BY <2>1, FS_Subset
  <2>3. Cardinality(upto(x)) \in Nat /\ Cardinality(upto(x)) # 0
    BY <2>1, <2>2, FS_CardinalityType, FS_EmptySet
  <2> QED BY <1>1, <2>2, <2>3
<1>3. \A x, y \in S : x < y => Cardinality(upto(x)) < Cardinality(upto(y))
  <2> SUFFICES ASSUME NEW x \in S, NEW y \in S, x < y
               PROVE  Cardinality(upto(x)) < Cardinality(upto(y))
    OBVIOUS
  <2>0. x \in Int /\ y \in Int
    BY <1>0
  <2>0a. \A z \in S : z <= x => z <= y
    BY <1>0, <2>0
  <2>0b. y <= y /\ ~(y <= x)
    BY <2>0
  <2>1. upto(x) \in SUBSET upto(y) /\ y \in upto(y) /\ y \notin upto(x)
    BY <2>0a, <2>0b, Zenon
  <2> HIDE DEF upto, N
  <2>2. Cardinality(upto(x)) <= Cardinality(upto(y))
        /\ Cardinality(upto(x)) # Cardinality(upto(y))
    BY <1>2, <2>1, FS_Subset
  <2>3. Cardinality(upto(x)) \in 1..N /\ Cardinality(upto(y)) \in 1..N
    BY <1>2
  <2> QED BY <1>1, <2>2, <2>3
<1>4. \A x, y \in S : Cardinality(upto(x)) = Cardinality(upto(y)) => x = y
  <2> HIDE DEF upto, N
  <2>1. \A x, y \in S : x \in Int /\ y \in Int
    OBVIOUS
  <2>2. \A x, y \in S : x < y \/ y < x \/ x = y
    BY <2>1
  <2>3. \A x \in S : Cardinality(upto(x)) \in Int
    BY <1>1, <1>2
  <2> QED BY <1>3, <2>2, <2>3
<1>5. \A n \in 1..N : \E x \in S : Cardinality(upto(x)) = n
  <2> HIDE DEF upto
  <2>1. rank \in [S -> 1..N] /\ \A x, y \in S : rank[x] = rank[y] => x = y
    BY <1>2, <1>4
  <2>2. IsFiniteSet(1..N) /\ Cardinality(1..N) = N
    BY <1>1, FS_Interval
  <2>3. rank \in Injection(S, 1..N)
    BY <2>1 DEF Injection, IsInjective
  <2> HIDE DEF rank
  <2>4. rank \in Surjection(S, 1..N)
    BY <2>2, <2>3, FS_Injection
  <2>5. \A n \in 1..N : \E x \in S : rank[x] = n
    BY <2>4 DEF Surjection
  <2> QED BY <2>5 DEF rank
<1>6. \A n \in 1..N : Nth(S, n) \in S /\ Cardinality(upto(Nth(S, n))) = n
  BY <1>5 DEF Nth
<1>7. \A x \in S : Nth(S, Cardinality(upto(x))) = x
  <2> HIDE DEF upto, N
  <2> QED BY <1>2, <1>4, <1>6
<1>8. \A n, m \in 1..N : n < m => Nth(S, n) < Nth(S, m)
  <2> SUFFICES ASSUME NEW n \in 1..N, NEW m \in 1..N, n < m
               PROVE  Nth(S, n) < Nth(S, m)
    OBVIOUS
  <2> HIDE DEF upto, N
  <2>1. Nth(S, n) \in S /\ Nth(S, m) \in S
        /\ Cardinality(upto(Nth(S, n))) = n /\ Cardinality(upto(Nth(S, m))) = m
    BY <1>6
  <2>2. /\ Nth(S, n) \in Int /\ Nth(S, m) \in Int
        /\ n \in Int /\ m \in Int
    <3>1. Nth(S, n) \in Int /\ Nth(S, m) \in Int
      BY <1>0, <2>1, Zenon
    <3>2. \A k \in 1..N : k \in Int
      BY <1>1
    <3> QED BY <3>1, <3>2, Zenon
  <2>3. ~(Nth(S, m) < Nth(S, n)) /\ Nth(S, n) # Nth(S, m)
    BY <1>3, <2>1, <2>2
  <2> QED BY <2>2, <2>3
<1> HIDE DEF upto
<1> QED BY <1>1, <1>2, <1>6, <1>7, <1>8

\* Where in the log the n-th missing event stands.
Place(log, known, n) == Nth({i \in DOMAIN log : log[i].id \notin known}, n)

\* Missing takes the unknown events, all of them, in the order of the log.
LEMMA MissingIs ==
    ASSUME NEW log \in Seq(HistoryEvent), NEW known
    PROVE  /\ Missing(log, known) \in Seq(HistoryEvent)
           /\ \A n \in DOMAIN Missing(log, known) :
                 /\ Place(log, known, n) \in DOMAIN log
                 /\ Missing(log, known)[n] = log[Place(log, known, n)]
                 /\ log[Place(log, known, n)].id \notin known
                 /\ \A m \in DOMAIN Missing(log, known) :
                       n < m => Place(log, known, n) < Place(log, known, m)
           /\ \A j \in DOMAIN log : log[j].id \notin known =>
                 \E n \in DOMAIN Missing(log, known) : Place(log, known, n) = j
<1> DEFINE kept == {i \in DOMAIN log : log[i].id \notin known}
<1>1. DOMAIN log = 1..Len(log) /\ Len(log) \in Nat
  OBVIOUS
<1>2. kept \in SUBSET Int /\ kept \in SUBSET (1..Len(log))
  BY <1>1
<1>3. IsFiniteSet(kept)
  <2>1. IsFiniteSet(1..Len(log))
    BY <1>1, FS_Interval
  <2> HIDE DEF kept
  <2> QED BY <1>2, <2>1, FS_Subset
<1>4. Missing(log, known) = [n \in 1..Cardinality(kept) |-> log[Nth(kept, n)]]
  BY DEF Missing
<1>5. \A n : Place(log, known, n) = Nth(kept, n)
  BY DEF Place
<1>6. \A j : j \in kept <=> j \in DOMAIN log /\ log[j].id \notin known
  OBVIOUS
<1> HIDE DEF kept
<1>7. /\ Cardinality(kept) \in Nat
      /\ \A n \in 1..Cardinality(kept) :
            /\ Nth(kept, n) \in kept
            /\ \A m \in 1..Cardinality(kept) : n < m => Nth(kept, n) < Nth(kept, m)
      /\ \A x \in kept : \E n \in 1..Cardinality(kept) : Nth(kept, n) = x
  BY <1>2, <1>3, Ranked
<1>8. \A j \in DOMAIN log : log[j] \in HistoryEvent
  OBVIOUS
<1>9. Missing(log, known) \in Seq(HistoryEvent)
      /\ DOMAIN Missing(log, known) = 1..Cardinality(kept)
  BY <1>4, <1>6, <1>7, <1>8
<1>10. ASSUME NEW n \in DOMAIN Missing(log, known)
       PROVE  /\ Place(log, known, n) \in DOMAIN log
              /\ Missing(log, known)[n] = log[Place(log, known, n)]
              /\ log[Place(log, known, n)].id \notin known
              /\ \A m \in DOMAIN Missing(log, known) :
                    n < m => Place(log, known, n) < Place(log, known, m)
  <2>1. n \in 1..Cardinality(kept) /\ Nth(kept, n) \in kept
    BY <1>7, <1>9
  <2>2. Missing(log, known)[n] = log[Nth(kept, n)]
    BY <1>4, <2>1
  <2>3. Nth(kept, n) \in DOMAIN log /\ log[Nth(kept, n)].id \notin known
    BY <1>6, <2>1
  <2>4. \A m \in DOMAIN Missing(log, known) : n < m => Nth(kept, n) < Nth(kept, m)
    BY <1>7, <1>9, <2>1
  <2> QED BY <1>5, <2>2, <2>3, <2>4
<1>11. ASSUME NEW j \in DOMAIN log, log[j].id \notin known
       PROVE  \E n \in DOMAIN Missing(log, known) : Place(log, known, n) = j
  <2>1. j \in kept
    BY <1>6, <1>11
  <2>2. PICK n \in 1..Cardinality(kept) : Nth(kept, n) = j
    BY <1>7, <2>1
  <2> QED BY <1>5, <1>9, <2>2
<1> QED BY <1>9, <1>10, <1>11

-----------------------------------------------------------------------------
(* The types, taken apart.                                                 *)

LEMMA EventTyped ==
    ASSUME NEW log \in Seq(HistoryEvent)
    PROVE  /\ Len(log) \in Nat /\ DOMAIN log = 1..Len(log)
           /\ \A i \in DOMAIN log : log[i] \in HistoryEvent /\ log[i].id \in 1..MaxIds
<1>1. \A i \in DOMAIN log : log[i] \in HistoryEvent
  OBVIOUS
<1>2. \A e \in HistoryEvent : e.id \in 1..MaxIds
  BY DEF HistoryEvent
<1> QED BY <1>1, <1>2

LEMMA JobTyped ==
    ASSUME NEW j \in Job
    PROVE  /\ j.pc \in {"idle", "merging", "copying", "listing", "repairing",
                        "emptying", "summarizing", "closing"}
           /\ j.todo \subseteq Sources /\ j.known \subseteq 1..MaxIds /\ j.base \in Nat
           /\ j.drafts \in Seq(HistoryEvent)
           /\ j.opened \subseteq SourceSessions /\ j.mapped \subseteq SourceSessions
           /\ j.locked \in BOOLEAN
           /\ j.stale \subseteq HistorySessions /\ j.at \subseteq Sources \cup HistorySessions
BY DEF Job

LEMMA Typed ==
    ASSUME RepairTypeOK
    PROVE  /\ sharedRow \in [HistorySessions -> SharedRow]
           /\ MaxIds \in Nat \ {0} /\ next \in Nat \ {0} /\ ids \in Nat /\ ids <= MaxIds
           /\ \A e \in merged : /\ e.pos \in 1..(next - 1) /\ e.id \in 1..MaxIds
                                /\ e.session \in HistorySessions /\ e.summary \in BOOLEAN
           /\ \A d \in Sources : /\ source[d].log \in Seq(HistoryEvent)
                                 /\ source[d].sessions \subseteq SourceSessions
                                 /\ \A i \in DOMAIN source[d].log :
                                       source[d].log[i].id \in 1..MaxIds
           /\ job \in Job /\ \A i \in DOMAIN job.drafts : job.drafts[i].id \in 1..MaxIds
<1> USE DEF RepairTypeOK
<1>1. \A d \in Sources : source[d].log \in Seq(HistoryEvent)
                         /\ source[d].sessions \subseteq SourceSessions
  OBVIOUS
<1>2. \A d \in Sources : \A i \in DOMAIN source[d].log : source[d].log[i].id \in 1..MaxIds
  BY <1>1, EventTyped
<1>3. \A i \in DOMAIN job.drafts : job.drafts[i].id \in 1..MaxIds
  BY JobTyped, EventTyped
<1>4. MaxIds \in Nat \ {0} /\ next \in Nat \ {0} /\ ids \in Nat /\ ids <= MaxIds
  BY RepairConstantsOK
<1>5. \A e \in merged : /\ e.pos \in 1..(next - 1) /\ e.id \in 1..MaxIds
                        /\ e.session \in HistorySessions /\ e.summary \in BOOLEAN
  OBVIOUS
<1> QED BY <1>1, <1>2, <1>3, <1>4, <1>5

-----------------------------------------------------------------------------
(* The steps that leave history alone.                                     *)

\* Summaries stay, and so do the sessions that have one.
LEMMA SummariesStay ==
    ASSUME merged \subseteq merged'
    PROVE  /\ \A s \in HistorySessions : Summarized(s) => Summarized(s)'
           /\ CloserOK /\ UNCHANGED <<job>> => CloserOK'
BY DEF Summarized, EventsOf, CloserOK

\* A row the repair has ended.
Repaired(r) == r.status = "stale" /\ r.reason = "legacy_repair"

\* A step that only rewrites rows keeps the invariant when no row becomes
\* repaired without a summary.
LEMMA RowsKeep ==
    ASSUME RepairIInv, merged' = merged, next' = next, ids' = ids, source' = source,
           sharedRow' \in [HistorySessions -> SharedRow],
           \A s \in HistorySessions :
              Repaired(sharedRow'[s]) => Repaired(sharedRow[s]) \/ Summarized(s),
           job' \in Job, job'.known = job.known, job'.drafts = job.drafts, job'.base = job.base,
           job'.pc \in {"merging", "copying"} <=> job.pc \in {"merging", "copying"},
           job'.pc = "closing" => job' = job
    PROVE  RepairIInv'
<1> USE DEF RepairIInv
<1>2. RepairTypeOK' /\ StreamIntact' /\ SourcesInOrder' /\ LogsAgree'
  BY DEF RepairTypeOK, StreamIntact, SourcesInOrder, LogsAgree
<1>3. RepairedHaveSummaries'
  BY DEF RepairedHaveSummaries, Summarized, EventsOf, Repaired
<1>4. IdsSpent' /\ KnownOK' /\ DraftsOK'
  BY DEF IdsSpent, KnownOK, DraftsOK
<1>5. CloserOK'
  BY SummariesStay DEF CloserOK
<1> QED BY <1>2, <1>3, <1>4, <1>5

\* The same for a step of the servers.
LEMMA LiveRowsKeep ==
    ASSUME RepairIInv, merged' = merged, next' = next, ids' = ids, source' = source, job' = job,
           NEW s \in HistorySessions, NEW r \in SharedRow,
           sharedRow' = [sharedRow EXCEPT ![s] = r],
           Repaired(r) => Repaired(sharedRow[s])
    PROVE  RepairIInv'
<1>1. sharedRow \in [HistorySessions -> SharedRow] /\ job \in Job
  BY DEF RepairIInv, RepairTypeOK
<1>2. /\ sharedRow' \in [HistorySessions -> SharedRow]
      /\ \A q \in HistorySessions :
            Repaired(sharedRow'[q]) => Repaired(sharedRow[q]) \/ Summarized(q)
  BY <1>1
<1> QED BY <1>1, <1>2, RowsKeep

\* close_session writes the row it was asked for, or leaves it.
LEMMA ClosedIs ==
    ASSUME RepairTypeOK, NEW s \in HistorySessions,
           NEW status \in {"none", "active", "closed", "stale", "empty"},
           NEW reason \in {"", "stdio_eof", "legacy_repair", "heartbeat_expired"},
           sharedRow' = Closed(s, status, reason)
    PROVE  /\ sharedRow' = [sharedRow EXCEPT ![s] = sharedRow'[s]]
           /\ sharedRow'[s] \in SharedRow
           /\ \/ sharedRow'[s] = sharedRow[s]
              \/ sharedRow'[s].status = status /\ sharedRow'[s].reason = reason
<1>1. sharedRow \in [HistorySessions -> SharedRow]
  BY DEF RepairTypeOK
<1>2. CASE Active(s)
  <2> DEFINE r == [status |-> status, reason |-> reason, expired |-> FALSE]
  <2>1. r \in SharedRow /\ r.status = status /\ r.reason = reason
    BY DEF SharedRow
  <2>2. sharedRow' = [sharedRow EXCEPT ![s] = r]
    BY <1>2 DEF Closed
  <2> HIDE DEF r
  <2> QED BY <1>1, <2>1, <2>2
<1>3. CASE ~Active(s)
  <2>1. sharedRow' = sharedRow
    BY <1>3 DEF Closed
  <2> QED BY <1>1, <2>1
<1> QED BY <1>2, <1>3

LEMMA LiveKeeps ==
    ASSUME RepairIInv, NEW s \in HistorySessions, UNCHANGED <<source, job>>,
           \/ LiveStart(s) \/ LiveTouch(s) \/ LiveFinalize(s)
           \/ LiveReconcile(s) \/ LiveCleanup(s)
    PROVE  RepairIInv'
<1>0. RepairTypeOK /\ sharedRow[s] \in SharedRow
  BY DEF RepairIInv, RepairTypeOK
<1>1. CASE LiveStart(s)
  <2>1. OpenedRow \in SharedRow /\ ~Repaired(OpenedRow)
    BY DEF OpenedRow, SharedRow, Repaired
  <2>2. /\ sharedRow' = [sharedRow EXCEPT ![s] = OpenedRow]
        /\ merged' = merged /\ next' = next /\ ids' = ids
    BY <1>1 DEF LiveStart
  <2> QED BY <2>1, <2>2, LiveRowsKeep
<1>2. CASE LiveTouch(s)
  <2> DEFINE r == [sharedRow[s] EXCEPT !.expired = FALSE]
  <2>1. r \in SharedRow /\ (Repaired(r) => Repaired(sharedRow[s]))
    BY <1>0 DEF SharedRow, Repaired
  <2>2. sharedRow' = [sharedRow EXCEPT ![s] = r]
    BY <1>2 DEF LiveTouch
  <2> HIDE DEF r
  <2> QED BY <1>2, <2>1, <2>2, LiveRowsKeep DEF LiveTouch
<1>3. CASE LiveCleanup(s)
  <2>1. NoSharedRow \in SharedRow /\ ~Repaired(NoSharedRow)
    BY DEF NoSharedRow, SharedRow, Repaired
  <2>2. /\ sharedRow' = [sharedRow EXCEPT ![s] = NoSharedRow]
        /\ merged' = merged /\ next' = next /\ ids' = ids
    BY <1>3 DEF LiveCleanup
  <2> QED BY <2>1, <2>2, LiveRowsKeep
<1>4. CASE LiveFinalize(s) \/ LiveReconcile(s)
  <2>1. PICK status \in {"closed", "stale", "empty"}, reason \in {"stdio_eof", "heartbeat_expired"} :
            sharedRow' = Closed(s, status, reason)
    BY <1>4 DEF LiveFinalize, LiveReconcile
  <2> DEFINE r == sharedRow'[s]
  <2>2. /\ sharedRow' = [sharedRow EXCEPT ![s] = r] /\ r \in SharedRow
        /\ r = sharedRow[s] \/ (r.status = status /\ r.reason = reason)
    <3>1. /\ status \in {"none", "active", "closed", "stale", "empty"}
          /\ reason \in {"", "stdio_eof", "legacy_repair", "heartbeat_expired"}
      OBVIOUS
    <3> QED BY <1>0, <2>1, <3>1, ClosedIs
  <2> HIDE DEF r
  <2>3. Repaired(r) => Repaired(sharedRow[s])
    BY <2>2 DEF Repaired
  <2>4. merged' = merged /\ next' = next /\ ids' = ids
    BY <1>4 DEF LiveFinalize, LiveReconcile
  <2> QED BY <2>1, <2>2, <2>3, <2>4, LiveRowsKeep
<1> QED BY <1>1, <1>2, <1>3, <1>4

LEMMA ExpireKeeps ==
    ASSUME RepairIInv, NEW s \in HistorySessions, Expire(s)
    PROVE  RepairIInv'
<1> DEFINE r == [sharedRow[s] EXCEPT !.expired = TRUE]
<1>1. sharedRow[s] \in SharedRow
  BY DEF RepairIInv, RepairTypeOK
<1>2. r \in SharedRow /\ (Repaired(r) => Repaired(sharedRow[s]))
  BY <1>1 DEF SharedRow, Repaired
<1>3. sharedRow' = [sharedRow EXCEPT ![s] = r]
  BY DEF Expire
<1> HIDE DEF r
<1> QED BY <1>2, <1>3, LiveRowsKeep DEF Expire

\* The repair closes as stale only the session whose summary it saw or wrote.
LEMMA RepairCloseKeeps ==
    ASSUME RepairIInv, NEW s \in HistorySessions, RepairClose(s)
    PROVE  RepairIInv'
<1> DEFINE status == IF job.pc = "emptying" THEN "empty" ELSE "stale"
<1>0. RepairTypeOK /\ job \in Job /\ sharedRow \in [HistorySessions -> SharedRow]
  BY DEF RepairIInv, RepairTypeOK
<1>1. /\ job.pc \in {"emptying", "closing"}
      /\ merged' = merged /\ next' = next /\ ids' = ids /\ source' = source
      /\ sharedRow' = Closed(s, status, "legacy_repair")
      /\ job' = [job EXCEPT !.pc = "repairing", !.stale = @ \ {s}, !.at = {}]
  BY DEF RepairClose
<1>2. /\ job' \in Job /\ job'.pc = "repairing"
      /\ job'.known = job.known /\ job'.drafts = job.drafts /\ job'.base = job.base
  BY <1>0, <1>1 DEF Job
<1>3. job.pc = "closing" => Summarized(s)
  BY DEF RepairIInv, CloserOK, RepairClose
<1> DEFINE r == sharedRow'[s]
<1>4. /\ sharedRow' = [sharedRow EXCEPT ![s] = r] /\ r \in SharedRow
      /\ r = sharedRow[s] \/ r.status = status
  <2>1. status \in {"none", "active", "closed", "stale", "empty"}
    OBVIOUS
  <2>2. "legacy_repair" \in {"", "stdio_eof", "legacy_repair", "heartbeat_expired"}
    OBVIOUS
  <2> HIDE DEF status
  <2> QED BY <1>0, <1>1, <2>1, <2>2, ClosedIs
<1> HIDE DEF r
<1>5. Repaired(r) => Repaired(sharedRow[s]) \/ Summarized(s)
  BY <1>1, <1>3, <1>4 DEF Repaired
<1>6. /\ sharedRow' \in [HistorySessions -> SharedRow]
      /\ \A q \in HistorySessions :
            Repaired(sharedRow'[q]) => Repaired(sharedRow[q]) \/ Summarized(q)
  <2>1. /\ sharedRow' \in [HistorySessions -> SharedRow] /\ sharedRow'[s] = r
        /\ \A q \in HistorySessions \ {s} : sharedRow'[q] = sharedRow[q]
    BY <1>0, <1>4
  <2> QED BY <1>5, <2>1, Zenon
<1> QED BY <1>1, <1>2, <1>6, RowsKeep

\* A step of the command that is not part of a merge.
LEMMA OutsideKeeps ==
    ASSUME RepairIInv, UNCHANGED <<sharedRow, merged, next, ids, source>>,
           job' \in Job, job'.pc \notin {"merging", "copying"},
           job'.known = {}, job'.drafts = <<>>, job'.base = 0, CloserOK'
    PROVE  RepairIInv'
<1> USE DEF RepairIInv
<1>1. RepairTypeOK' /\ StreamIntact' /\ SourcesInOrder' /\ LogsAgree'
  BY DEF RepairTypeOK, StreamIntact, SourcesInOrder, LogsAgree
<1>2. RepairedHaveSummaries'
  BY DEF RepairedHaveSummaries, Summarized, EventsOf
<1>3. IdsSpent' /\ KnownOK'
  BY DEF IdsSpent, KnownOK
<1>4. DraftsOK'
  BY DEF DraftsOK, RepairTypeOK
<1> QED BY <1>1, <1>2, <1>3, <1>4

LEMMA IdleIsJob == IdleJob \in Job
BY DEF IdleJob, Job

LEMMA CommandKeeps ==
    ASSUME RepairIInv, RepairList \/ RepairEnds \/ Stops \/ \E s \in HistorySessions : RepairLook(s)
    PROVE  RepairIInv'
<1>0. job \in Job
  BY DEF RepairIInv, RepairTypeOK
<1>1. CASE RepairEnds \/ Stops
  <2>1. job' = IdleJob /\ UNCHANGED <<sharedRow, merged, next, ids, source>>
    BY <1>1 DEF RepairEnds, Stops
  <2> QED BY <2>1, OutsideKeeps, IdleIsJob DEF IdleJob, CloserOK
<1>2. CASE RepairList
  <2>1. job.known = {} /\ job.drafts = <<>> /\ job.base = 0
    BY <1>2 DEF RepairIInv, DraftsOK, RepairList
  <2>2. /\ job' = [job EXCEPT !.pc = "repairing", !.stale = job'.stale]
        /\ job'.stale \subseteq HistorySessions
        /\ UNCHANGED <<sharedRow, merged, next, ids, source>>
    BY <1>0, <1>2 DEF RepairList, Job
  <2>3. job' \in Job /\ job'.pc = "repairing"
        /\ job'.known = {} /\ job'.drafts = <<>> /\ job'.base = 0
    BY <1>0, <2>1, <2>2 DEF Job
  <2> QED BY <2>2, <2>3, OutsideKeeps DEF CloserOK
<1>3. ASSUME NEW s \in HistorySessions, RepairLook(s) PROVE RepairIInv'
  <2>1. job.known = {} /\ job.drafts = <<>> /\ job.base = 0
    BY <1>3 DEF RepairIInv, DraftsOK, RepairLook
  <2>2. PICK pc \in {"emptying", "summarizing", "closing"} :
           /\ job' = [job EXCEPT !.at = {s}, !.pc = pc]
           /\ pc = "closing" => Summarized(s)
    BY <1>3 DEF RepairLook
  <2>3. UNCHANGED <<sharedRow, merged, next, ids, source>>
    BY <1>3 DEF RepairLook
  <2>4. job' \in Job /\ job'.pc = pc /\ job'.at = {s}
        /\ job'.known = {} /\ job'.drafts = <<>> /\ job'.base = 0
    BY <1>0, <2>1, <2>2 DEF Job
  <2>5. CloserOK'
    BY <2>2, <2>3, <2>4, SummariesStay DEF CloserOK
  <2> QED BY <2>3, <2>4, <2>5, OutsideKeeps
<1> QED BY <1>1, <1>2, <1>3

-----------------------------------------------------------------------------
(* Events that are new.                                                    *)

\* append_event claims the next position and gives a fresh id, so it disturbs
\* neither the stream nor what a merge has read.
LEMMA AppendedKeeps ==
    ASSUME RepairIInv, NEW s \in HistorySessions, NEW summary \in BOOLEAN,
           Appended(s, summary), sharedRow' = sharedRow, source' = source,
           job' \in Job, job'.known = job.known, job'.drafts = job.drafts, job'.base = job.base,
           job'.pc \in {"merging", "copying"} <=> job.pc \in {"merging", "copying"},
           CloserOK'
    PROVE  RepairIInv'
<1> DEFINE e0 == [pos |-> next, id |-> ids + 1, session |-> s, summary |-> summary]
<1>1. /\ RepairTypeOK /\ StreamIntact /\ SourcesInOrder /\ RepairedHaveSummaries
      /\ LogsAgree /\ IdsSpent /\ KnownOK /\ DraftsOK
  BY DEF RepairIInv
<1>2. /\ merged' = merged \cup {e0} /\ next' = next + 1 /\ ids' = ids + 1
      /\ ids + 1 <= MaxIds
  <2>1. merged' = merged \cup {e0} /\ next' = next + 1 /\ ids' = ids + 1 /\ ids < MaxIds
    BY DEF Appended, Placed
  <2>2. ids \in Nat /\ MaxIds \in Nat
    BY <1>1, Typed
  <2> HIDE DEF e0
  <2> QED BY <2>1, <2>2
<1>3. /\ next \in Nat \ {0} /\ ids \in Nat /\ MaxIds \in Nat /\ job \in Job
      /\ e0.pos = next /\ e0.id = ids + 1 /\ e0.session = s /\ e0.summary = summary
      /\ \A e \in merged : e.pos \in 1..(next - 1) /\ e.id \in 1..MaxIds
      /\ \A d \in Sources : \A i \in DOMAIN source[d].log : source[d].log[i].id \in 1..MaxIds
      /\ \A i \in DOMAIN job.drafts : job.drafts[i].id \in 1..MaxIds
  BY <1>1, Typed
<1>4. \A e \in merged : e.id # e0.id /\ e.pos # e0.pos
  <2>1. \A e \in merged : e.id <= ids
    BY <1>1 DEF IdsSpent
  <2> QED BY <1>3, <2>1
<1>5. \A d \in Sources : \A i \in DOMAIN source[d].log : source[d].log[i].id # e0.id
  <2>1. \A d \in Sources : \A i \in DOMAIN source[d].log : source[d].log[i].id <= ids
    BY <1>1 DEF IdsSpent
  <2> QED BY <1>3, <2>1
<1>6. \A i \in DOMAIN job.drafts : job.drafts[i].id # e0.id
  <2>1. \A i \in DOMAIN job.drafts : job.drafts[i].id <= ids
    BY <1>1 DEF IdsSpent
  <2> QED BY <1>3, <2>1
<1>7. RepairTypeOK'
  <2>1. merged' \subseteq [pos: 1..next, id: 1..MaxIds, session: HistorySessions,
                           summary: BOOLEAN]
    <3>1. /\ 1..(next - 1) \subseteq 1..next /\ next \in 1..next
          /\ ids + 1 \in 1..MaxIds
      BY <1>2, <1>3
    <3>2. e0 \in [pos: 1..next, id: 1..MaxIds, session: HistorySessions, summary: BOOLEAN]
      BY <3>1
    <3> QED BY <1>1, <1>2, <3>1, <3>2 DEF RepairTypeOK
  <2>2. next' - 1 = next /\ next' \in Nat \ {0} /\ ids' \in 0..MaxIds
    BY <1>2, <1>3
  <2> QED BY <1>1, <2>1, <2>2 DEF RepairTypeOK
<1> HIDE DEF e0
<1>8. StreamIntact'
  <2>1. {e.pos : e \in merged'} = 1..(next' - 1)
    <3>1. {e.pos : e \in merged'} = {e.pos : e \in merged} \cup {next}
      BY <1>2, <1>3
    <3>2. 1..(next' - 1) = 1..(next - 1) \cup {next}
      BY <1>2, <1>3
    <3> QED BY <1>1, <3>1, <3>2 DEF StreamIntact
  <2>2. \A e, f \in merged' : e.pos = f.pos \/ e.id = f.id => e = f
    BY <1>1, <1>2, <1>4 DEF StreamIntact
  <2> QED BY <2>1, <2>2 DEF StreamIntact
<1>9. SourcesInOrder'
  BY <1>1, <1>2, <1>5 DEF SourcesInOrder
<1>10. RepairedHaveSummaries'
  BY <1>1, <1>2, SummariesStay DEF RepairedHaveSummaries
<1>11. LogsAgree'
  BY <1>1 DEF LogsAgree
<1>12. IdsSpent'
  <2>1. \A e \in merged' : e.id <= ids'
    BY <1>1, <1>2, <1>3 DEF IdsSpent
  <2>2. \A d \in Sources : \A i \in DOMAIN source[d].log : source[d].log[i].id <= ids
    BY <1>1 DEF IdsSpent
  <2>3. \A i \in DOMAIN job.drafts : job.drafts[i].id <= ids
    BY <1>1 DEF IdsSpent
  <2>4. \A d \in Sources : \A i \in DOMAIN source[d].log : source[d].log[i].id <= ids + 1
    BY <1>3, <2>2
  <2>5. \A i \in DOMAIN job.drafts : job.drafts[i].id <= ids + 1
    BY <1>3, <2>3
  <2> QED BY <1>2, <2>1, <2>4, <2>5 DEF IdsSpent
<1>13. KnownOK'
  BY <1>1, <1>2, <1>5, <1>6 DEF KnownOK
<1>14. DraftsOK'
  <2>1. job.base <= next'
    BY <1>1, <1>2, <1>3 DEF DraftsOK, RepairTypeOK, Job
  <2> QED BY <1>1, <1>2, <2>1 DEF DraftsOK
<1> QED BY <1>7, <1>8, <1>9, <1>10, <1>11, <1>12, <1>13, <1>14 DEF RepairIInv

LEMMA AppendsKeep ==
    ASSUME RepairIInv, NEW s \in HistorySessions,
           \/ LiveAppend(s) /\ UNCHANGED <<source, job>>
           \/ RepairSummarize(s)
    PROVE  RepairIInv'
<1>0. RepairTypeOK /\ job \in Job /\ CloserOK
  BY DEF RepairIInv, RepairTypeOK
<1>1. CASE LiveAppend(s) /\ UNCHANGED <<source, job>>
  <2>1. PICK summary \in BOOLEAN : Appended(s, summary)
    BY <1>1 DEF LiveAppend
  <2>2. sharedRow' = sharedRow /\ merged \subseteq merged'
    BY <1>1, <2>1 DEF LiveAppend, Appended
  <2> QED BY <1>0, <1>1, <2>1, <2>2, SummariesStay, AppendedKeeps
<1>2. CASE RepairSummarize(s)
  <2>1. /\ Appended(s, TRUE) /\ sharedRow' = sharedRow /\ source' = source
        /\ job.pc = "summarizing" /\ job.at = {s} /\ job' = [job EXCEPT !.pc = "closing"]
    BY <1>2 DEF RepairSummarize
  <2>2. /\ job' \in Job /\ job'.pc = "closing" /\ job'.at = {s}
        /\ job'.known = job.known /\ job'.drafts = job.drafts /\ job'.base = job.base
    BY <1>0, <2>1 DEF Job
  <2>3. CloserOK'
    <3> DEFINE e0 == Placed([id |-> ids + 1, session |-> s, summary |-> TRUE], next)
    <3>1. e0.session = s /\ e0.summary = TRUE
      BY DEF Placed
    <3>2. e0 \in merged'
      BY <2>1 DEF Appended
    <3> HIDE DEF e0
    <3>3. (\E e \in merged : e.session = s /\ e.summary)'
      BY <3>1, <3>2
    <3>4. Summarized(s)'
      BY <3>3 DEF Summarized, EventsOf
    <3> QED BY <2>2, <3>4 DEF CloserOK
  <2> QED BY <2>1, <2>2, <2>3, AppendedKeeps
<1> QED BY <1>1, <1>2

-----------------------------------------------------------------------------
(* The sources go on.                                                      *)

LEMMA SourceStartsKeeps ==
    ASSUME RepairIInv, NEW d \in Sources, NEW s \in SourceSessions, SourceStarts(d, s)
    PROVE  RepairIInv'
<1>1. RepairTypeOK
  BY DEF RepairIInv
<1>2. /\ source' \in [Sources -> [sessions: SUBSET SourceSessions, log: Seq(HistoryEvent)]]
      /\ \A q \in Sources : source'[q].log = source[q].log
      /\ UNCHANGED <<sharedRow, merged, next, ids, job>>
  BY <1>1 DEF SourceStarts, RepairTypeOK
<1> USE DEF RepairIInv
<1>3. RepairTypeOK'
  BY <1>1, <1>2 DEF RepairTypeOK
<1>4. StreamIntact' /\ RepairedHaveSummaries' /\ CloserOK'
  BY <1>2, SummariesStay DEF StreamIntact, RepairedHaveSummaries
<1>5. SourcesInOrder'
  <2> SUFFICES ASSUME NEW q \in Sources, NEW j \in DOMAIN source'[q].log, NEW e \in merged,
                      e.id = source'[q].log[j].id, NEW i \in 1..(j - 1)
               PROVE  \E f \in merged : f.id = source'[q].log[i].id /\ f.pos < e.pos
    BY <1>2 DEF SourcesInOrder
  <2>1. source'[q].log = source[q].log
    BY <1>2
  <2> QED BY <2>1 DEF SourcesInOrder
<1>6. LogsAgree'
  <2> SUFFICES ASSUME NEW q \in Sources, NEW p \in Sources,
                      NEW i \in DOMAIN source'[q].log, NEW j \in DOMAIN source'[p].log,
                      source'[q].log[i].id = source'[p].log[j].id
               PROVE  i = j /\ \A k \in 1..i : source'[q].log[k] = source'[p].log[k]
    BY DEF LogsAgree
  <2>1. source'[q].log = source[q].log /\ source'[p].log = source[p].log
    BY <1>2
  <2> QED BY <2>1 DEF LogsAgree
<1>7. IdsSpent'
  BY <1>2 DEF IdsSpent
<1>8. KnownOK'
  <2>1. ASSUME job.pc \in {"merging", "copying"}, NEW f \in merged, f.id \notin job.known,
               NEW q \in Sources, NEW i \in DOMAIN source'[q].log
        PROVE  source'[q].log[i].id # f.id
    <3>1. source'[q].log = source[q].log
      BY <1>2
    <3> QED BY <2>1, <3>1 DEF KnownOK
  <2> QED BY <1>2, <2>1 DEF KnownOK
<1>9. DraftsOK'
  <2>1. ASSUME NEW n \in DOMAIN job.drafts, NEW q \in Sources, NEW j \in DOMAIN source'[q].log,
               job.drafts[n].id = source'[q].log[j].id, NEW i \in 1..(j - 1)
        PROVE  \/ \E f \in merged : f.id = source'[q].log[i].id
               \/ \E m \in 1..(n - 1) : job.drafts[m].id = source'[q].log[i].id
    <3>1. source'[q].log = source[q].log
      BY <1>2
    <3> QED BY <2>1, <3>1 DEF DraftsOK
  <2>2. job' = job /\ merged' = merged /\ next' = next
    BY <1>2
  <2>3. /\ job.pc \notin {"merging", "copying"} =>
              job.known = {} /\ job.drafts = <<>> /\ job.base = 0
        /\ job.base <= next
        /\ job.base = 0 <=> job.drafts = <<>>
    BY DEF DraftsOK
  <2> QED BY ONLY <2>1, <2>2, <2>3 DEF DraftsOK
<1> QED BY <1>3, <1>4, <1>5, <1>6, <1>7, <1>8, <1>9

\* An event of a source has a fresh id: no merge and no other log knows it.
LEMMA SourceAppendsKeeps ==
    ASSUME RepairIInv, NEW d \in Sources, NEW s \in SourceSessions, SourceAppends(d, s)
    PROVE  RepairIInv'
<1> DEFINE Log(q) == source[q].log
           new == ids + 1
           grown(q) == Len(source[q].log) + 1
<1>1. /\ RepairTypeOK /\ StreamIntact /\ SourcesInOrder /\ RepairedHaveSummaries
      /\ LogsAgree /\ IdsSpent /\ KnownOK /\ DraftsOK /\ CloserOK
  BY DEF RepairIInv
<1>2. PICK e \in HistoryEvent :
        /\ e.id = new
        /\ source' = [source EXCEPT ![d].log = Append(@, e)]
  <2>1. PICK summary \in BOOLEAN :
           source' = [source EXCEPT ![d].log =
                        Append(@, [id |-> ids + 1, session |-> s, summary |-> summary])]
    BY DEF SourceAppends
  <2>2. [id |-> ids + 1, session |-> s, summary |-> summary] \in HistoryEvent
    <3>1. ids + 1 \in 1..MaxIds
      BY <1>1, Typed DEF SourceAppends
    <3> QED BY <3>1 DEF HistoryEvent, HistorySessions
  <2> QED BY <2>1, <2>2
<1>3. /\ ids' = ids + 1 /\ ids < MaxIds
      /\ sharedRow' = sharedRow /\ merged' = merged /\ next' = next /\ job' = job
  BY DEF SourceAppends
<1>4. /\ ids \in Nat /\ MaxIds \in Nat
      /\ \A q \in Sources : Log(q) \in Seq(HistoryEvent) /\ Len(Log(q)) \in Nat
                            /\ DOMAIN Log(q) = 1..Len(Log(q))
  BY <1>1, Typed, EventTyped
<1>5. /\ source' \in [Sources -> [sessions: SUBSET SourceSessions, log: Seq(HistoryEvent)]]
      /\ source'[d].log = Append(Log(d), e)
      /\ \A q \in Sources \ {d} : source'[q].log = Log(q)
  <2>1. source \in [Sources -> [sessions: SUBSET SourceSessions, log: Seq(HistoryEvent)]]
    BY <1>1 DEF RepairTypeOK
  <2>2. Append(Log(d), e) \in Seq(HistoryEvent)
    BY <1>4
  <2>3. source' = [source EXCEPT ![d] = [source[d] EXCEPT !.log = Append(Log(d), e)]]
    BY <1>2, <2>1
  <2>4. [source[d] EXCEPT !.log = Append(Log(d), e)]
            \in [sessions: SUBSET SourceSessions, log: Seq(HistoryEvent)]
        /\ [source[d] EXCEPT !.log = Append(Log(d), e)].log = Append(Log(d), e)
    BY <2>1, <2>2
  <2> QED BY <2>1, <2>3, <2>4
<1>6. \A q \in Sources :
        /\ DOMAIN Log(q) \subseteq DOMAIN source'[q].log
        /\ \A i \in DOMAIN Log(q) : source'[q].log[i] = Log(q)[i]
        /\ \A i \in DOMAIN source'[q].log :
              \/ i \in DOMAIN Log(q)
              \/ q = d /\ i = grown(q) /\ source'[q].log[i].id = new
        /\ \A i \in DOMAIN source'[q].log : i \in Nat /\ 1..i \subseteq DOMAIN source'[q].log
                                            /\ 1..(i - 1) \subseteq DOMAIN Log(q)
  <2> SUFFICES ASSUME NEW q \in Sources
               PROVE  /\ DOMAIN Log(q) \subseteq DOMAIN source'[q].log
                      /\ \A i \in DOMAIN Log(q) : source'[q].log[i] = Log(q)[i]
                      /\ \A i \in DOMAIN source'[q].log :
                            \/ i \in DOMAIN Log(q)
                            \/ q = d /\ i = grown(q) /\ source'[q].log[i].id = new
                      /\ \A i \in DOMAIN source'[q].log :
                            i \in Nat /\ 1..i \subseteq DOMAIN source'[q].log
                            /\ 1..(i - 1) \subseteq DOMAIN Log(q)
    OBVIOUS
  <2>1. CASE q # d
    <3>1. source'[q].log = Log(q)
      BY <1>5, <2>1
    <3>2. DOMAIN Log(q) = 1..Len(Log(q)) /\ Len(Log(q)) \in Nat
      BY <1>4
    <3> HIDE DEF Log
    <3> QED BY <3>1, <3>2
  <2>2. CASE q = d
    <3>1. source'[q].log = Append(Log(q), e)
      BY <1>5, <2>2
    <3>2. Log(q) \in Seq(HistoryEvent) /\ DOMAIN Log(q) = 1..Len(Log(q)) /\ Len(Log(q)) \in Nat
          /\ grown(q) = Len(Log(q)) + 1
      BY <1>4
    <3> HIDE DEF Log, grown
    <3>3. /\ DOMAIN source'[q].log = 1..(Len(Log(q)) + 1)
          /\ \A i \in 1..Len(Log(q)) : source'[q].log[i] = Log(q)[i]
          /\ source'[q].log[Len(Log(q)) + 1] = e
      BY <3>1, <3>2
    <3> QED BY <1>2, <2>2, <3>2, <3>3
  <2> QED BY <2>1, <2>2
<1> HIDE DEF Log
<1>7. \A q \in Sources : \A i \in DOMAIN Log(q) :
         Log(q)[i].id <= ids /\ Log(q)[i].id \in 1..MaxIds /\ Log(q)[i].id # new
  <2>1. \A q \in Sources : \A i \in DOMAIN Log(q) :
           Log(q)[i].id <= ids /\ Log(q)[i].id \in 1..MaxIds
    BY <1>1, Typed DEF IdsSpent, Log
  <2> QED BY <1>4, <2>1
<1>8. \A f \in merged : f.id <= ids /\ f.id \in 1..MaxIds /\ f.id # new
  <2>1. \A f \in merged : f.id <= ids /\ f.id \in 1..MaxIds
    BY <1>1, Typed DEF IdsSpent
  <2> QED BY <1>4, <2>1
<1>9. \A i \in DOMAIN job.drafts :
         job.drafts[i].id <= ids /\ job.drafts[i].id \in 1..MaxIds /\ job.drafts[i].id # new
  <2>1. \A i \in DOMAIN job.drafts : job.drafts[i].id <= ids /\ job.drafts[i].id \in 1..MaxIds
    BY <1>1, Typed DEF IdsSpent
  <2> QED BY <1>4, <2>1
<1>10. RepairTypeOK'
  <2>1. ids' \in 0..MaxIds
    BY <1>3, <1>4
  <2> QED BY <1>1, <1>3, <1>5, <2>1 DEF RepairTypeOK
<1>11. StreamIntact' /\ RepairedHaveSummaries' /\ CloserOK'
  BY <1>1, <1>3, SummariesStay DEF StreamIntact, RepairedHaveSummaries
<1>12. SourcesInOrder'
  <2> SUFFICES ASSUME NEW q \in Sources, NEW j \in DOMAIN source'[q].log, NEW f \in merged,
                      f.id = source'[q].log[j].id, NEW i \in 1..(j - 1)
               PROVE  \E g \in merged : g.id = source'[q].log[i].id /\ g.pos < f.pos
    BY <1>3 DEF SourcesInOrder
  <2>1. j \in DOMAIN Log(q) /\ Log(q)[j].id = f.id
    BY <1>6, <1>8
  <2>2. source'[q].log[i] = Log(q)[i]
    BY <1>6
  <2> QED BY <1>1, <2>1, <2>2 DEF SourcesInOrder, Log
<1>13. LogsAgree'
  <2> SUFFICES ASSUME NEW q \in Sources, NEW p \in Sources,
                      NEW i \in DOMAIN source'[q].log, NEW j \in DOMAIN source'[p].log,
                      source'[q].log[i].id = source'[p].log[j].id
               PROVE  i = j /\ \A k \in 1..i : source'[q].log[k] = source'[p].log[k]
    BY DEF LogsAgree
  <2>1. CASE i \in DOMAIN Log(q)
    <3>1. j \in DOMAIN Log(p) /\ Log(q)[i].id = Log(p)[j].id
      BY <1>6, <1>7, <2>1
    <3>2. i = j /\ \A k \in 1..i : Log(q)[k] = Log(p)[k]
      BY <1>1, <2>1, <3>1 DEF LogsAgree, Log
    <3>3. 1..i \subseteq DOMAIN Log(q) /\ 1..j \subseteq DOMAIN Log(p)
      BY <1>4, <2>1, <3>1
    <3> QED BY <1>6, <3>2, <3>3
  <2>2. CASE i \notin DOMAIN Log(q)
    <3>1. q = d /\ i = grown(q) /\ source'[q].log[i].id = new
      BY <1>6, <2>2
    <3>2. j \notin DOMAIN Log(p)
      BY <1>6, <1>7, <3>1
    <3>3. p = d /\ j = grown(p)
      BY <1>6, <3>2
    <3> QED BY <3>1, <3>3
  <2> QED BY <2>1, <2>2
<1>14. IdsSpent'
  <2>1. \A f \in merged : f.id <= ids + 1
    BY <1>4, <1>8
  <2>2. \A q \in Sources : \A i \in DOMAIN source'[q].log : source'[q].log[i].id <= ids + 1
    <3>1. \A q \in Sources : \A i \in DOMAIN Log(q) : Log(q)[i].id <= ids + 1
      BY <1>4, <1>7
    <3> QED BY <1>4, <1>6, <3>1
  <2>3. \A i \in DOMAIN job.drafts : job.drafts[i].id <= ids + 1
    BY <1>4, <1>9
  <2> QED BY <1>3, <2>1, <2>2, <2>3 DEF IdsSpent
<1>15. KnownOK'
  <2>1. job.pc \in {"merging", "copying"} =>
          \A f \in merged : f.id \notin job.known =>
              \A q \in Sources : \A i \in DOMAIN source'[q].log : source'[q].log[i].id # f.id
    BY <1>1, <1>6, <1>8 DEF KnownOK, Log
  <2> QED BY <1>1, <1>3, <2>1 DEF KnownOK
<1>16. DraftsOK'
  <2>1. ASSUME NEW n \in DOMAIN job.drafts, NEW q \in Sources, NEW j \in DOMAIN source'[q].log,
               job.drafts[n].id = source'[q].log[j].id, NEW i \in 1..(j - 1)
        PROVE  \/ \E f \in merged : f.id = source'[q].log[i].id
               \/ \E m \in 1..(n - 1) : job.drafts[m].id = source'[q].log[i].id
    <3>1. j \in DOMAIN Log(q) /\ Log(q)[j].id = job.drafts[n].id
      BY <1>6, <1>9, <2>1
    <3>2. source'[q].log[i] = Log(q)[i]
      BY <1>6
    <3> QED BY <1>1, <3>1, <3>2 DEF DraftsOK, Log
  <2> QED BY <1>1, <1>3, <2>1 DEF DraftsOK
<1> QED BY <1>10, <1>11, <1>12, <1>13, <1>14, <1>15, <1>16 DEF RepairIInv

-----------------------------------------------------------------------------
(* The merge.                                                              *)

LEMMA StartKeeps ==
    ASSUME RepairIInv, Start
    PROVE  RepairIInv'
<1>1. /\ RepairTypeOK /\ StreamIntact /\ SourcesInOrder /\ RepairedHaveSummaries
      /\ LogsAgree /\ IdsSpent /\ DraftsOK
  BY DEF RepairIInv
<1>2. /\ job'.pc = "merging" /\ job'.known = {e.id : e \in merged}
      /\ job'.drafts = <<>> /\ job'.base = 0
      /\ sharedRow' = sharedRow /\ merged' = merged /\ next' = next /\ ids' = ids
      /\ source' = source
  BY DEF Start, IdleJob
<1>3. job' \in Job
  <2>1. {e.id : e \in merged} \in SUBSET (1..MaxIds)
    BY <1>1, Typed
  <2> QED BY <2>1, IdleIsJob DEF Start, IdleJob, Job
<1>4. RepairTypeOK' /\ StreamIntact' /\ SourcesInOrder' /\ LogsAgree'
  BY <1>1, <1>2, <1>3 DEF RepairTypeOK, StreamIntact, SourcesInOrder, LogsAgree
<1>5. RepairedHaveSummaries' /\ CloserOK'
  BY <1>1, <1>2, SummariesStay DEF RepairedHaveSummaries, CloserOK
<1>6. DOMAIN job'.drafts = {}
  BY <1>2
<1>7. IdsSpent'
  BY <1>1, <1>2, <1>6 DEF IdsSpent
<1>8. KnownOK'
  BY <1>2, <1>6 DEF KnownOK
<1>9. DraftsOK'
  <2>1. job'.base <= next'
    BY <1>1, <1>2, Typed
  <2> QED BY <1>2, <1>6, <2>1 DEF DraftsOK
<1> QED BY <1>4, <1>5, <1>7, <1>8, <1>9 DEF RepairIInv

LEMMA MergeSessionsKeeps ==
    ASSUME RepairIInv, NEW d \in Sources, MergeSessions(d)
    PROVE  RepairIInv'
<1>1. RepairTypeOK /\ job \in Job
  BY DEF RepairIInv, RepairTypeOK
<1>2. /\ sharedRow' = sharedRow /\ merged' = merged /\ next' = next /\ ids' = ids
      /\ source' = source /\ job.pc = "merging"
  BY DEF MergeSessions
<1>3. PICK new \in SUBSET SourceSessions :
        job' = [job EXCEPT !.pc = "copying", !.todo = @ \ {d}, !.at = {d},
                           !.opened = @ \cup new, !.mapped = source[d].sessions,
                           !.locked = @ \/ new # {} \/ job.drafts # <<>>]
  <2> DEFINE new == {s \in source[d].sessions : sharedRow[s].status = "none"} \ job.opened
  <2>1. new \in SUBSET SourceSessions
    BY <1>1, Typed
  <2> QED BY <2>1 DEF MergeSessions
<1>4. /\ job' \in Job /\ job'.pc = "copying"
      /\ job'.known = job.known /\ job'.drafts = job.drafts /\ job'.base = job.base
  <2>1. source[d].sessions \in SUBSET SourceSessions
    BY <1>1, Typed
  <2>2. /\ job.todo \in SUBSET Sources /\ job.opened \in SUBSET SourceSessions
        /\ job.locked \in BOOLEAN
    BY <1>1 DEF Job
  <2>3. {d} \in SUBSET (Sources \cup HistorySessions) /\ job.todo \ {d} \in SUBSET Sources
        /\ job.opened \cup new \in SUBSET SourceSessions
        /\ (job.locked \/ new # {} \/ job.drafts # <<>>) \in BOOLEAN
    BY <2>2
  <2> QED BY <1>1, <1>3, <2>1, <2>3 DEF Job
<1>5. sharedRow' \in [HistorySessions -> SharedRow]
  BY <1>1, <1>2, Typed
<1> QED BY <1>2, <1>4, <1>5, RowsKeep

\* The ids a source adds are known to nobody, each of them is one event, and the
\* rest of their log is in the stream or before them among the drafts.
LEMMA MergeEventsKeeps ==
    ASSUME RepairIInv, NEW d \in Sources, MergeEvents(d)
    PROVE  RepairIInv'
<1> DEFINE M == Missing(source[d].log, job.known)
           D == job.drafts
           E == D \o M
           P(n) == Place(source[d].log, job.known, n)
<1>1. /\ RepairTypeOK /\ StreamIntact /\ SourcesInOrder /\ RepairedHaveSummaries
      /\ LogsAgree /\ IdsSpent /\ KnownOK /\ DraftsOK /\ job \in Job
  BY DEF RepairIInv, RepairTypeOK
<1>2. /\ sharedRow' = sharedRow /\ merged' = merged /\ next' = next /\ ids' = ids
      /\ source' = source /\ job.pc = "copying"
      /\ job' = [job EXCEPT !.pc = "merging", !.at = {}, !.mapped = {}, !.drafts = E,
                            !.known = @ \cup {M[i].id : i \in DOMAIN M},
                            !.base = IF @ = 0 /\ M # <<>> THEN next ELSE @]
  BY DEF MergeEvents
<1>3. /\ source[d].log \in Seq(HistoryEvent) /\ D \in Seq(HistoryEvent)
      /\ next \in Nat \ {0} /\ ids \in Nat /\ job.base \in Nat /\ MaxIds \in Nat
      /\ job.known \subseteq 1..MaxIds
  BY <1>1, Typed, JobTyped
<1>4. /\ M \in Seq(HistoryEvent)
      /\ \A n \in DOMAIN M :
            /\ P(n) \in DOMAIN source[d].log
            /\ M[n] = source[d].log[P(n)]
            /\ source[d].log[P(n)].id \notin job.known
            /\ \A m \in DOMAIN M : n < m => P(n) < P(m)
      /\ \A j \in DOMAIN source[d].log : source[d].log[j].id \notin job.known =>
            \E n \in DOMAIN M : P(n) = j
  BY <1>3, MissingIs, SMTT(30)
<1>5. /\ Len(D) \in Nat /\ DOMAIN D = 1..Len(D)
      /\ Len(M) \in Nat /\ DOMAIN M = 1..Len(M)
      /\ \A n \in DOMAIN M : M[n].id \in 1..MaxIds
  BY <1>3, <1>4, EventTyped
<1> HIDE DEF M, D, P
<1>6. /\ E \in Seq(HistoryEvent) /\ DOMAIN E = 1..(Len(D) + Len(M))
      /\ \A i \in DOMAIN D : i \in DOMAIN E /\ E[i] = D[i]
      /\ \A n \in DOMAIN M : Len(D) + n \in DOMAIN E /\ E[Len(D) + n] = M[n]
      /\ \A i \in DOMAIN E : i \in DOMAIN D \/ \E n \in DOMAIN M : i = Len(D) + n
      /\ E = <<>> <=> D = <<>> /\ M = <<>>
  <2>1. /\ E \in Seq(HistoryEvent) /\ DOMAIN E = 1..(Len(D) + Len(M))
        /\ \A i \in 1..(Len(D) + Len(M)) :
              E[i] = IF i <= Len(D) THEN D[i] ELSE M[i - Len(D)]
    BY <1>3, <1>4, <1>5
  <2> HIDE DEF E
  <2>2. \A i \in DOMAIN D : i \in DOMAIN E /\ E[i] = D[i]
    BY <1>5, <2>1
  <2>3. \A n \in DOMAIN M : Len(D) + n \in DOMAIN E /\ E[Len(D) + n] = M[n]
    <3>1. \A n \in 1..Len(M) : Len(D) + n \in 1..(Len(D) + Len(M)) /\ ~(Len(D) + n <= Len(D))
                               /\ (Len(D) + n) - Len(D) = n
      BY <1>5
    <3> QED BY <1>5, <2>1, <3>1
  <2>4. \A i \in DOMAIN E : i \in DOMAIN D \/ \E n \in DOMAIN M : i = Len(D) + n
    <3> SUFFICES ASSUME NEW i \in 1..(Len(D) + Len(M)), i \notin 1..Len(D)
                 PROVE  \E n \in 1..Len(M) : i = Len(D) + n
      BY <1>5, <2>1
    <3>1. i - Len(D) \in 1..Len(M) /\ i = Len(D) + (i - Len(D))
      BY <1>5
    <3> QED BY <3>1
  <2>5. E = <<>> <=> D = <<>> /\ M = <<>>
    BY <1>3, <1>4, <1>5, <2>1 DEF E
  <2> QED BY <2>1, <2>2, <2>3, <2>4, <2>5
<1> HIDE DEF E
<1>7. /\ job'.pc = "merging" /\ job'.drafts = E
      /\ job'.known = job.known \cup {M[i].id : i \in DOMAIN M}
      /\ job'.base = IF job.base = 0 /\ M # <<>> THEN next ELSE job.base
      /\ job' \in Job
  <2>1. {M[i].id : i \in DOMAIN M} \subseteq 1..MaxIds
    BY <1>5
  <2>2. (job.known \cup {M[i].id : i \in DOMAIN M}) \in SUBSET (1..MaxIds)
    BY <1>3, <2>1
  <2>3. (IF job.base = 0 /\ M # <<>> THEN next ELSE job.base) \in Nat
    BY <1>3
  <2> QED BY <1>1, <1>2, <1>6, <2>2, <2>3 DEF Job
<1>8. RepairTypeOK' /\ StreamIntact' /\ SourcesInOrder' /\ LogsAgree'
  BY <1>1, <1>2, <1>7 DEF RepairTypeOK, StreamIntact, SourcesInOrder, LogsAgree
<1>9. RepairedHaveSummaries' /\ CloserOK'
  BY <1>1, <1>2, <1>7, SummariesStay DEF RepairedHaveSummaries, CloserOK
<1>10. IdsSpent'
  <2>1. \A i \in DOMAIN source[d].log : source[d].log[i].id <= ids
    BY <1>1 DEF IdsSpent
  <2>2. \A i \in DOMAIN D : D[i].id <= ids
    BY <1>1 DEF IdsSpent, D
  <2>3. \A i \in DOMAIN E : E[i].id <= ids
    BY <1>4, <1>6, <2>1, <2>2, SMTT(30)
  <2> QED BY <1>1, <1>2, <1>7, <2>3 DEF IdsSpent
<1>11. KnownOK'
  <2>1. \A x \in job'.known : \/ \E e \in merged : e.id = x
                              \/ \E i \in DOMAIN E : E[i].id = x
    <3> SUFFICES ASSUME NEW x \in job'.known, \A e \in merged : e.id # x
                 PROVE  \E i \in DOMAIN E : E[i].id = x
      OBVIOUS
    <3>1. CASE x \in job.known
      <4>1. \E i \in DOMAIN D : D[i].id = x
        BY <1>1, <3>1 DEF KnownOK, D
      <4> QED BY <1>6, <4>1
    <3>2. CASE x \notin job.known
      <4>1. PICK n \in DOMAIN M : x = M[n].id
        BY <1>7, <3>2
      <4> QED BY <1>6, <4>1
    <3> QED BY <3>1, <3>2
  <2>2. \A i \in DOMAIN D : D[i].id \in job.known /\ \A e \in merged : e.id # D[i].id
    BY <1>1 DEF KnownOK, D
  <2>3. \A n \in DOMAIN M : M[n].id \notin job.known /\ \A e \in merged : e.id # M[n].id
    <3>1. \A e \in merged : e.id \notin job.known =>
             \A i \in DOMAIN source[d].log : source[d].log[i].id # e.id
      BY <1>1, <1>2 DEF KnownOK
    <3> QED BY <1>4, <3>1
  <2>4. \A i \in DOMAIN E : E[i].id \in job'.known /\ \A e \in merged : e.id # E[i].id
    <3> SUFFICES ASSUME NEW i \in DOMAIN E
                 PROVE  E[i].id \in job'.known /\ \A e \in merged : e.id # E[i].id
      OBVIOUS
    <3>1. CASE i \in DOMAIN D
      BY <1>6, <1>7, <2>2, <3>1
    <3>2. CASE \E n \in DOMAIN M : i = Len(D) + n
      BY <1>6, <1>7, <2>3, <3>2
    <3> QED BY <1>6, <3>1, <3>2
  <2>5. \A n, m \in DOMAIN M : M[n].id = M[m].id => n = m
    <3> SUFFICES ASSUME NEW n \in DOMAIN M, NEW m \in DOMAIN M, M[n].id = M[m].id
                 PROVE  n = m
      OBVIOUS
    <3>1. P(n) = P(m)
      BY <1>1, <1>4 DEF LogsAgree
    <3>2. P(n) \in Int /\ n \in Int /\ m \in Int
      BY <1>3, <1>4, <1>5, SMTT(30)
    <3>3. ~(n < m) /\ ~(m < n)
      BY <1>4, <3>1, <3>2
    <3> QED BY <3>2, <3>3
  <2>6. \A i, j \in DOMAIN E : E[i].id = E[j].id => i = j
    <3> SUFFICES ASSUME NEW i \in DOMAIN E, NEW j \in DOMAIN E, E[i].id = E[j].id
                 PROVE  i = j
      OBVIOUS
    <3>1. CASE i \in DOMAIN D /\ j \in DOMAIN D
      BY <1>1, <1>6, <3>1 DEF KnownOK, D
    <3>2. CASE i \in DOMAIN D <=> j \notin DOMAIN D
      BY <1>6, <2>2, <2>3, <3>2
    <3>3. CASE i \notin DOMAIN D /\ j \notin DOMAIN D
      BY <1>6, <2>5, <3>3
    <3> QED BY <3>1, <3>2, <3>3
  <2>7. \A e \in merged : e.id \notin job'.known =>
           \A q \in Sources : \A i \in DOMAIN source[q].log : source[q].log[i].id # e.id
    BY <1>1, <1>2, <1>7 DEF KnownOK
  <2> QED BY <1>2, <1>7, <2>1, <2>4, <2>6, <2>7 DEF KnownOK
<1>12. DraftsOK'
  <2>1. job'.base <= next /\ (job'.base = 0 <=> E = <<>>)
    <3>1. job.base <= next /\ (job.base = 0 <=> D = <<>>)
      BY <1>1 DEF DraftsOK, D
    <3> QED BY <1>3, <1>6, <1>7, <3>1
  <2>2. ASSUME NEW n \in DOMAIN E, NEW q \in Sources, NEW j \in DOMAIN source[q].log,
               E[n].id = source[q].log[j].id, NEW i \in 1..(j - 1),
               \A e \in merged : e.id # source[q].log[i].id
        PROVE  \E m \in 1..(n - 1) : E[m].id = source[q].log[i].id
    <3>1. CASE n \in DOMAIN D
      <4>1. PICK m \in 1..(n - 1) : D[m].id = source[q].log[i].id
        BY <1>1, <1>6, <2>2, <3>1 DEF DraftsOK, D
      <4>2. m \in DOMAIN D
        BY <1>5, <3>1
      <4> QED BY <1>6, <4>1, <4>2
    <3>2. ASSUME NEW k \in DOMAIN M, n = Len(D) + k
          PROVE  \E m \in 1..(n - 1) : E[m].id = source[q].log[i].id
      <4>1. j = P(k) /\ \A t \in 1..j : source[d].log[t] = source[q].log[t]
        <5>1. E[n] = source[d].log[P(k)] /\ P(k) \in DOMAIN source[d].log
          BY <1>4, <1>6, <3>2
        <5>2. source[d].log[P(k)].id = source[q].log[j].id
          BY <2>2, <5>1
        <5>3. P(k) = j /\ \A t \in 1..P(k) : source[d].log[t] = source[q].log[t]
          BY <1>1, <5>1, <5>2 DEF LogsAgree
        <5> QED BY <5>3
      <4>2. /\ j \in 1..Len(source[d].log) /\ Len(source[d].log) \in Nat
            /\ i \in 1..j /\ i \in DOMAIN source[d].log /\ i < j
            /\ source[d].log[i] = source[q].log[i]
        <5>1. Len(source[d].log) \in Nat /\ DOMAIN source[d].log = 1..Len(source[d].log)
          BY <1>3, EventTyped
        <5>2. j \in 1..Len(source[d].log)
          BY <1>4, <4>1, <5>1
        <5> QED BY <4>1, <5>1, <5>2
      <4>3. CASE source[d].log[i].id \in job.known
        <5>1. PICK m \in DOMAIN D : D[m].id = source[q].log[i].id
          BY <1>1, <2>2, <4>2, <4>3 DEF KnownOK, D
        <5>2. m \in 1..(n - 1)
          BY <1>5, <3>2
        <5> QED BY <1>6, <5>1, <5>2
      <4>4. CASE source[d].log[i].id \notin job.known
        <5>1. PICK m \in DOMAIN M : P(m) = i
          BY <1>4, <4>2, <4>4
        <5>2. m < k
          <6>1. m \in Int /\ k \in Int /\ i \in Int /\ j \in Int
            BY <1>5, <4>2
          <6>2. ~(k < m) /\ k # m
            BY <1>4, <4>1, <4>2, <5>1, <6>1
          <6> QED BY <6>1, <6>2
        <5>3. Len(D) + m \in 1..(n - 1) /\ E[Len(D) + m].id = source[q].log[i].id
          <6>1. Len(D) + m \in 1..(n - 1)
            BY <1>5, <3>2, <5>2
          <6>2. E[Len(D) + m] = source[d].log[i]
            BY <1>4, <1>6, <5>1
          <6> QED BY <4>2, <6>1, <6>2
        <5> QED BY <5>3
      <4> QED BY <4>3, <4>4
    <3> QED BY <1>6, <3>1, <3>2
  <2> QED BY <1>2, <1>7, <2>1, <2>2 DEF DraftsOK
<1> QED BY <1>8, <1>9, <1>10, <1>11, <1>12 DEF RepairIInv

\* The drafts go to the end of the stream: the first position they claim was its
\* end when it was read, and the unique index refuses it when it no longer is.
LEMMA CommitPlaces ==
    ASSUME RepairIInv, MergeCommit
    PROVE  /\ next' = next + Len(job.drafts)
           /\ merged' = merged \cup
                 {Placed(job.drafts[i], next + i - 1) : i \in DOMAIN job.drafts}
<1> DEFINE D == job.drafts
<1>1. /\ RepairTypeOK /\ StreamIntact /\ DraftsOK /\ job \in Job
  BY DEF RepairIInv, RepairTypeOK
<1>2. /\ next \in Nat \ {0} /\ job.base \in Nat /\ D \in Seq(HistoryEvent) /\ Len(D) \in Nat
      /\ DOMAIN D = 1..Len(D)
  BY <1>1, Typed, JobTyped, EventTyped
<1>3. CASE D = <<>>
  <2>1. DOMAIN D = {} /\ Len(D) = 0
    BY <1>3
  <2>2. next' = next
    BY <1>3 DEF MergeCommit
  <2>3. {Placed(job.drafts[i], job.base + i - 1) : i \in DOMAIN job.drafts} = {}
        /\ {Placed(job.drafts[i], next + i - 1) : i \in DOMAIN job.drafts} = {}
    BY <2>1
  <2> QED BY <1>2, <2>1, <2>2, <2>3 DEF MergeCommit
<1>4. CASE D # <<>>
  <2>1. job.base <= next /\ job.base # 0 /\ Len(D) >= 1
    BY <1>1, <1>2, <1>4 DEF DraftsOK
  <2>2. \A e \in merged : e.pos # job.base
    <3>1. job.base \in job.base..(job.base + Len(D) - 1)
      BY <1>2, <2>1
    <3> QED BY <3>1 DEF MergeCommit, PositionsTaken
  <2>3. job.base \notin 1..(next - 1)
    BY <1>1, <2>2 DEF StreamIntact
  <2>4. job.base = next
    BY <1>2, <2>1, <2>3
  <2> QED BY <1>4, <2>4 DEF MergeCommit
<1> QED BY <1>3, <1>4

\* What a merge inserts is a row, and none the repair has ended.
LEMMA ImportedRows == \A r \in Imported : r \in SharedRow /\ ~Repaired(r)
<1>1. OpenedRow \in SharedRow /\ ~Repaired(OpenedRow)
  BY DEF OpenedRow, SharedRow, Repaired
<1>2. /\ [OpenedRow EXCEPT !.expired = TRUE] \in SharedRow
      /\ ~Repaired([OpenedRow EXCEPT !.expired = TRUE])
  BY DEF OpenedRow, SharedRow, Repaired
<1>3. \A r \in [status: {"stale", "empty"}, reason: {"imported"}, expired: {FALSE}] :
         r \in SharedRow /\ ~Repaired(r)
  BY DEF SharedRow, Repaired
<1> QED BY <1>1, <1>2, <1>3 DEF Imported

LEMMA MergeCommitKeeps ==
    ASSUME RepairIInv, MergeCommit
    PROVE  RepairIInv'
<1> DEFINE D == job.drafts
           row(i) == Placed(D[i], next + i - 1)
           New == {row(i) : i \in DOMAIN D}
<1>1. /\ RepairTypeOK /\ StreamIntact /\ SourcesInOrder /\ RepairedHaveSummaries
      /\ LogsAgree /\ IdsSpent /\ KnownOK /\ DraftsOK /\ job \in Job
  BY DEF RepairIInv, RepairTypeOK
<1>2. /\ next' = next + Len(D) /\ merged' = merged \cup New
      /\ ids' = ids /\ source' = source
      /\ job'.pc = "listing" /\ job'.known = {} /\ job'.drafts = <<>> /\ job'.base = 0
      /\ job' \in Job
  <2>1. next' = next + Len(D) /\ merged' = merged \cup New
    BY CommitPlaces
  <2> QED BY <2>1, IdleIsJob DEF MergeCommit, IdleJob, Job
<1>3. /\ next \in Nat \ {0} /\ D \in Seq(HistoryEvent) /\ Len(D) \in Nat
      /\ DOMAIN D = 1..Len(D)
      /\ \A e \in merged : e.pos \in 1..(next - 1)
  BY <1>1, Typed, JobTyped, EventTyped
<1>4. \A i \in DOMAIN D : /\ row(i).pos = next + i - 1 /\ row(i).id = D[i].id
                          /\ row(i).pos \in next..(next + Len(D) - 1)
                          /\ row(i).pos \notin 1..(next - 1)
                          /\ row(i).pos \in 1..(next + Len(D) - 1)
  <2>1. \A i \in DOMAIN D : row(i).pos = next + i - 1 /\ row(i).id = D[i].id
    BY DEF Placed
  <2>2. \A i \in 1..Len(D) : /\ next + i - 1 \in next..(next + Len(D) - 1)
                             /\ next + i - 1 \notin 1..(next - 1)
                             /\ next + i - 1 \in 1..(next + Len(D) - 1)
    BY <1>3
  <2> QED BY <1>3, <2>1, <2>2
<1>5. RepairTypeOK'
  <2>1. sharedRow' \in [HistorySessions -> SharedRow]
    <3>1. PICK arrived \in [job.opened -> Imported] :
             sharedRow' = [s \in HistorySessions |->
                              IF s \in job.opened THEN arrived[s] ELSE sharedRow[s]]
      BY DEF MergeCommit
    <3> QED BY <1>1, <3>1, ImportedRows, Typed
  <2>2. merged' \subseteq [pos: 1..(next + Len(D) - 1), id: 1..MaxIds,
                           session: HistorySessions, summary: BOOLEAN]
    <3>1. 1..(next - 1) \subseteq 1..(next + Len(D) - 1)
      BY <1>3
    <3>2. merged \subseteq [pos: 1..(next + Len(D) - 1), id: 1..MaxIds,
                            session: HistorySessions, summary: BOOLEAN]
      BY <1>1, <3>1 DEF RepairTypeOK
    <3>3. \A i \in DOMAIN D : row(i) \in [pos: 1..(next + Len(D) - 1), id: 1..MaxIds,
                                          session: HistorySessions, summary: BOOLEAN]
      <4> SUFFICES ASSUME NEW i \in DOMAIN D
                   PROVE  row(i) \in [pos: 1..(next + Len(D) - 1), id: 1..MaxIds,
                                      session: HistorySessions, summary: BOOLEAN]
        OBVIOUS
      <4>1. D[i] \in HistoryEvent
        BY <1>3
      <4>2. next + i - 1 \in 1..(next + Len(D) - 1)
        BY <1>3
      <4> QED BY <4>1, <4>2 DEF HistoryEvent, Placed
    <3> HIDE DEF row
    <3> QED BY <1>2, <3>2, <3>3
  <2>3. next' \in Nat \ {0} /\ next' - 1 = next + Len(D) - 1
    BY <1>2, <1>3
  <2> QED BY <1>1, <1>2, <2>1, <2>2, <2>3 DEF RepairTypeOK
<1> HIDE DEF row
<1>6. \A e \in New : \E i \in DOMAIN D : e = row(i)
  OBVIOUS
<1>7. \A e \in merged, f \in New : e.pos # f.pos /\ e.id # f.id
  <2>1. \A i \in DOMAIN D : \A e \in merged : e.id # D[i].id
    BY <1>1 DEF KnownOK
  <2> QED BY <1>3, <1>4, <1>6, <2>1
<1>8. \A i, j \in DOMAIN D : row(i).pos = row(j).pos \/ row(i).id = row(j).id => i = j
  <2>1. \A i, j \in DOMAIN D : D[i].id = D[j].id => i = j
    BY <1>1 DEF KnownOK
  <2>2. \A i, j \in 1..Len(D) : next + i - 1 = next + j - 1 => i = j
    BY <1>3
  <2> QED BY <1>3, <1>4, <2>1, <2>2, SMTT(30)
<1>9. StreamIntact'
  <2>1. {e.pos : e \in merged'} = {e.pos : e \in merged} \cup {e.pos : e \in New}
    BY <1>2
  <2>2. {e.pos : e \in New} = next..(next + Len(D) - 1)
    <3>1. {e.pos : e \in New} \subseteq next..(next + Len(D) - 1)
      BY <1>4
    <3>2. ASSUME NEW p \in next..(next + Len(D) - 1)
          PROVE  \E e \in New : e.pos = p
      <4>1. p - next + 1 \in DOMAIN D /\ next + (p - next + 1) - 1 = p
        BY <1>3
      <4>2. row(p - next + 1) \in New /\ row(p - next + 1).pos = p
        BY <1>4, <4>1
      <4> QED BY <4>2
    <3> QED BY <3>1, <3>2
  <2>3. 1..(next' - 1) = 1..(next - 1) \cup next..(next + Len(D) - 1)
    BY <1>2, <1>3
  <2>4. {e.pos : e \in merged'} = 1..(next' - 1)
    BY <1>1, <2>1, <2>2, <2>3 DEF StreamIntact
  <2>5. \A e, f \in New : e.pos = f.pos \/ e.id = f.id => e = f
    BY <1>6, <1>8
  <2>6. \A e, f \in merged' : e.pos = f.pos \/ e.id = f.id => e = f
    BY <1>1, <1>2, <1>7, <2>5 DEF StreamIntact
  <2> QED BY <2>4, <2>6 DEF StreamIntact
<1>10. SourcesInOrder'
  <2> SUFFICES ASSUME NEW d \in Sources, NEW j \in DOMAIN source[d].log, NEW e \in merged',
                      e.id = source[d].log[j].id, NEW i \in 1..(j - 1)
               PROVE  \E f \in merged' : f.id = source[d].log[i].id /\ f.pos < e.pos
    BY <1>2 DEF SourcesInOrder
  <2>1. CASE e \in merged
    BY <1>1, <1>2, <2>1 DEF SourcesInOrder
  <2>2. ASSUME NEW n \in DOMAIN D, e = row(n)
        PROVE  \E f \in merged' : f.id = source[d].log[i].id /\ f.pos < e.pos
    <3>1. \/ \E f \in merged : f.id = source[d].log[i].id
          \/ \E m \in 1..(n - 1) : D[m].id = source[d].log[i].id
      <4>1. D[n].id = source[d].log[j].id
        BY <1>4, <2>2
      <4> QED BY <1>1, <4>1 DEF DraftsOK
    <3>2. ASSUME NEW f \in merged, f.id = source[d].log[i].id
          PROVE  f \in merged' /\ f.pos < e.pos
      <4>1. /\ f.pos \in 1..(next - 1) /\ e.pos \in next..(next + Len(D) - 1)
        BY <1>3, <1>4, <2>2
      <4> QED BY <1>2, <1>3, <4>1
    <3>3. ASSUME NEW m \in 1..(n - 1), D[m].id = source[d].log[i].id
          PROVE  row(m) \in merged' /\ row(m).id = source[d].log[i].id /\ row(m).pos < e.pos
      <4>1. m \in DOMAIN D /\ next + m - 1 < next + n - 1
        BY <1>3
      <4> QED BY <1>2, <1>4, <2>2, <3>3, <4>1
    <3> QED BY <3>1, <3>2, <3>3
  <2> QED BY <1>2, <1>6, <2>1, <2>2
<1>11. RepairedHaveSummaries'
  <2>1. PICK arrived \in [job.opened -> Imported] :
           sharedRow' = [s \in HistorySessions |->
                            IF s \in job.opened THEN arrived[s] ELSE sharedRow[s]]
    BY DEF MergeCommit
  <2>3. \A s \in HistorySessions : Repaired(sharedRow'[s]) => Repaired(sharedRow[s])
    BY <2>1, ImportedRows
  <2> QED BY <1>1, <1>2, <2>3, SummariesStay DEF RepairedHaveSummaries, Repaired
<1>12. LogsAgree'
  BY <1>1, <1>2 DEF LogsAgree
<1>13. DOMAIN job'.drafts = {}
  BY <1>2
<1>14. IdsSpent'
  <2>1. \A e \in New : e.id <= ids
    BY <1>1, <1>4, <1>6 DEF IdsSpent
  <2> QED BY <1>1, <1>2, <1>13, <2>1 DEF IdsSpent
<1>15. KnownOK' /\ CloserOK'
  BY <1>2, <1>13 DEF KnownOK, CloserOK
<1>16. DraftsOK'
  <2>1. job'.base <= next'
    BY <1>2, <1>3
  <2> QED BY <1>2, <1>13, <2>1 DEF DraftsOK
<1> QED BY <1>5, <1>9, <1>10, <1>11, <1>12, <1>14, <1>15, <1>16 DEF RepairIInv

-----------------------------------------------------------------------------
(* The theorems.                                                           *)

LEMMA RepairStarts == RepairInit => RepairIInv
<1> SUFFICES ASSUME RepairInit PROVE RepairIInv
  OBVIOUS
<1>1. /\ sharedRow = [s \in HistorySessions |-> NoSharedRow] /\ merged = {} /\ next = 1
      /\ job.known = {} /\ job.drafts = <<>> /\ job.base = 0 /\ job.pc = "idle"
      /\ job \in Job
  BY IdleIsJob DEF RepairInit, IdleJob
<1>2. /\ ids \in 0..MaxIds
      /\ source \in [Sources -> [sessions: SUBSET SourceSessions, log: Seq(HistoryEvent)]]
      /\ \A d, q \in Sources : source[d].log = source[q].log
      /\ \A d \in Sources : DOMAIN source[d].log \subseteq {1}
                            /\ \A i \in DOMAIN source[d].log : source[d].log[i].id <= ids
  <2>1. CASE ids = 0 /\ source = [d \in Sources |-> [sessions |-> {}, log |-> <<>>]]
    <3>1. \A d \in Sources : source[d].log = <<>> /\ source[d].sessions = {}
      BY <2>1
    <3>2. <<>> \in Seq(HistoryEvent) /\ DOMAIN <<>> = {}
      OBVIOUS
    <3>3. 0 \in 0..MaxIds
      BY RepairConstantsOK
    <3> QED BY <2>1, <3>1, <3>2, <3>3
  <2>2. ASSUME ids = 1, NEW s \in SourceSessions,
               source = [d \in Sources |->
                            [sessions |-> {s},
                             log |-> <<[id |-> 1, session |-> s, summary |-> FALSE]>>]]
        PROVE  /\ ids \in 0..MaxIds
               /\ source \in [Sources -> [sessions: SUBSET SourceSessions, log: Seq(HistoryEvent)]]
               /\ \A d, q \in Sources : source[d].log = source[q].log
               /\ \A d \in Sources : DOMAIN source[d].log \subseteq {1}
                            /\ \A i \in DOMAIN source[d].log : source[d].log[i].id <= ids
    <3> DEFINE e == [id |-> 1, session |-> s, summary |-> FALSE]
    <3>1. e \in HistoryEvent /\ e.id = 1 /\ 1 \in 0..MaxIds
      BY RepairConstantsOK DEF HistoryEvent, HistorySessions
    <3> HIDE DEF e
    <3>2. <<e>> \in Seq(HistoryEvent) /\ DOMAIN <<e>> = {1} /\ <<e>>[1] = e
      BY <3>1
    <3>3. source = [d \in Sources |-> [sessions |-> {s}, log |-> <<e>>]]
      BY <2>2 DEF e
    <3>4. \A d \in Sources : source[d].log = <<e>> /\ source[d].sessions = {s}
      BY <3>3
    <3>5. source \in [Sources -> [sessions: SUBSET SourceSessions, log: Seq(HistoryEvent)]]
      BY <3>2, <3>3
    <3>6. \A d \in Sources : /\ DOMAIN source[d].log = {1}
                             /\ \A i \in DOMAIN source[d].log : source[d].log[i].id = 1
      BY <3>1, <3>2, <3>4
    <3>7. 1 <= 1
      OBVIOUS
    <3> QED BY <2>2, <3>1, <3>4, <3>5, <3>6, <3>7
  <2> QED BY <2>1, <2>2 DEF RepairInit
<1>3. RepairTypeOK
  <2>1. NoSharedRow \in SharedRow
    BY DEF NoSharedRow, SharedRow
  <2> QED BY <1>1, <1>2, <2>1 DEF RepairTypeOK
<1>4. DOMAIN job.drafts = {}
  BY <1>1
<1>5. StreamIntact /\ SourcesInOrder
  BY <1>1 DEF StreamIntact, SourcesInOrder
<1>6. RepairedHaveSummaries /\ CloserOK
  BY <1>1 DEF RepairedHaveSummaries, NoSharedRow, CloserOK
<1>7. LogsAgree
  BY <1>2 DEF LogsAgree
<1>8. IdsSpent /\ KnownOK
  BY <1>1, <1>2, <1>4 DEF IdsSpent, KnownOK
<1>9. DraftsOK
  BY <1>1, <1>4 DEF DraftsOK
<1> QED BY <1>3, <1>5, <1>6, <1>7, <1>8, <1>9 DEF RepairIInv

LEMMA RepairKeeps == RepairIInv /\ [RepairNext]_repairVars => RepairIInv'
<1> SUFFICES ASSUME RepairIInv, [RepairNext]_repairVars PROVE RepairIInv'
  OBVIOUS
<1>1. CASE Start
  BY <1>1, StartKeeps
<1>2. ASSUME NEW d \in Sources, MergeSessions(d) \/ MergeEvents(d) PROVE RepairIInv'
  BY <1>2, MergeSessionsKeeps, MergeEventsKeeps
<1>3. CASE MergeCommit
  BY <1>3, MergeCommitKeeps
<1>4. CASE RepairList \/ RepairEnds \/ Stops
  BY <1>4, CommandKeeps
<1>5. ASSUME NEW s \in HistorySessions, RepairLook(s) \/ RepairSummarize(s) \/ RepairClose(s)
      PROVE  RepairIInv'
  BY <1>5, CommandKeeps, AppendsKeep, RepairCloseKeeps
<1>6. CASE Live
  <2>1. UNCHANGED <<source, job>>
    BY <1>6 DEF Live
  <2>2. \E s \in HistorySessions : \/ LiveStart(s) \/ LiveAppend(s) \/ LiveTouch(s)
                                   \/ LiveFinalize(s) \/ LiveReconcile(s) \/ LiveCleanup(s)
    BY <1>6 DEF Live, HistorySessions
  <2> QED BY <2>1, <2>2, AppendsKeep, LiveKeeps
<1>7. ASSUME NEW s \in HistorySessions, Expire(s) PROVE RepairIInv'
  BY <1>7, ExpireKeeps
<1>8. ASSUME NEW d \in Sources, NEW s \in SourceSessions, SourceStarts(d, s) \/ SourceAppends(d, s)
      PROVE  RepairIInv'
  BY <1>8, SourceStartsKeeps, SourceAppendsKeeps
<1>9. CASE UNCHANGED repairVars
  BY <1>9, RowsKeep DEF repairVars, RepairIInv, RepairTypeOK
<1> QED BY <1>1, <1>2, <1>3, <1>4, <1>5, <1>6, <1>7, <1>8, <1>9 DEF RepairNext

\* Whatever databases repair-history merges, however often, wherever it breaks off
\* and whatever servers do meanwhile, the invariant above holds.
THEOREM RepairInvariance == RepairSpec => []RepairIInv
BY RepairStarts, RepairKeeps, PTL DEF RepairSpec

\* The stream of the shared database has no gap and no event twice, and of every
\* source it holds a beginning of the log, in the order of the log.
THEOREM HistoryMerges == RepairSpec => [](StreamIntact /\ SourcesInOrder)
<1>1. RepairIInv => StreamIntact /\ SourcesInOrder
  BY DEF RepairIInv
<1> QED BY <1>1, RepairInvariance, PTL

\* A session the repair has ended as stale has a summary, whichever of its
\* transactions was the last (_repair_sessions).
THEOREM RepairSummarizes == RepairSpec => []RepairedHaveSummaries
<1>1. RepairIInv => RepairedHaveSummaries
  BY DEF RepairIInv
<1> QED BY <1>1, RepairInvariance, PTL

=============================================================================
