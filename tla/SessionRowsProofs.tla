-------------------------- MODULE SessionRowsProofs -------------------------
(***************************************************************************)
(* What the session table guarantees, on SQLite and on PostgreSQL, for     *)
(* every number of clients and sessions and every timeout.                 *)
(***************************************************************************)
EXTENDS SessionRows, TLAPS

-----------------------------------------------------------------------------
(* Lemmas.                                                                 *)

LEMMA IdleType == IsCall(NoCall)
<1>1. [q \in {} |-> NoRow] \in [{} -> Row]
  OBVIOUS
<1> QED BY <1>1 DEF NoCall, IsCall

\* After a commit no other client's heartbeat believes in what it has read.
LEMMA CommittedByOthers ==
    ASSUME RowsTypeOK, NEW c \in Clients, call' = CommittedBy(c)
    PROVE  /\ call' = [d \in Clients |-> call'[d]]
           /\ \A d \in Clients : IsCall(call'[d])
           /\ call'[c] = NoCall
           /\ \A d \in Clients \ {c} :
                 /\ call'[d].op = call[d].op
                 /\ call'[d].after = call[d].after
                 /\ call[d].op = "touch" => call'[d].behind = TRUE
<1>1. IsCall(NoCall)
  BY IdleType
<1>2. ASSUME NEW d \in Clients
      PROVE  IsCall([call[d] EXCEPT !.behind = @ \/ call[d].op = "touch"])
  BY DEF RowsTypeOK, IsCall
<1>3. /\ call' = [d \in Clients |-> call'[d]]
      /\ \A d \in Clients : IsCall(call'[d])
  BY <1>1, <1>2 DEF CommittedBy
<1>4. call'[c] = NoCall
  BY DEF CommittedBy
<1>5. ASSUME NEW d \in Clients \ {c}
      PROVE  /\ call'[d].op = call[d].op
             /\ call'[d].after = call[d].after
             /\ call[d].op = "touch" => call'[d].behind = TRUE
  <2>1. call'[d] = [call[d] EXCEPT !.behind = @ \/ call[d].op = "touch"]
    BY DEF CommittedBy
  <2>2. IsCall(call[d])
    BY DEF RowsTypeOK
  <2> QED BY <2>1, <2>2 DEF IsCall
<1> QED BY <1>3, <1>4, <1>5

\* The row a reconciliation writes is a row, and it has ended.
LEMMA ReconciledRow ==
    ASSUME RowsTypeOK, NEW s \in Sessions
    PROVE  /\ Reconciled(s) \in Row
           /\ Reconciled(s).heartbeat = Reconciled(s).ended
           /\ Reconciled(s).status = IF lastEvent[s] = 0 THEN "empty" ELSE "stale"
<1>1. row[s] \in Row /\ lastEvent[s] \in Nat
  BY DEF RowsTypeOK
<1> QED BY <1>1 DEF Reconciled, ReconciledFrom, EndedRow, Row, Terminal

\* The decisions a transaction has taken concern sessions.
LEMMA AfterType ==
    ASSUME RowsTypeOK, NEW c \in Clients
    PROVE  /\ DOMAIN call[c].after \subseteq Sessions
           /\ \A s \in DOMAIN call[c].after : call[c].after[s] \in Row
<1>1. PICK S \in SUBSET Sessions : call[c].after \in [S -> Row]
  BY DEF RowsTypeOK, IsCall
<1> QED BY <1>1

-----------------------------------------------------------------------------
(* Type correctness.                                                       *)

LEMMA InitType == RowsInit => RowsTypeOK
<1>1. IsCall(NoCall)
  BY IdleType
<1> QED BY <1>1, TableConstantsOK DEF RowsInit, TableInit, RowsTypeOK, Row, NoRow, Sessions

\* A read changes one transaction and perhaps the lock.
LEMMA ReadType ==
    ASSUME RowsTypeOK, NEW c \in Clients, NEW t, IsCall(t),
           call' = [call EXCEPT ![c] = t],
           writer' \in Clients \cup {NoClient},
           UNCHANGED <<tableVars, issued>>
    PROVE  RowsTypeOK'
BY DEF RowsTypeOK, tableVars

LEMMA BeginType ==
    ASSUME RowsTypeOK, NEW c \in Clients, NEW op \in {"touch", "close", "expired", "cleanup"},
           NEW S \in SUBSET Sessions, NEW after \in [S -> Row], BeginCall(c, op, after)
    PROVE  RowsTypeOK'
<1>1. IsCall([op |-> op, after |-> after, behind |-> FALSE])
  BY DEF IsCall
<1> QED BY <1>1, ReadType DEF BeginCall, RowsTypeOK, tableVars

LEMMA StepType == RowsTypeOK /\ [RowsNext]_rowVars => RowsTypeOK'
<1> SUFFICES ASSUME RowsTypeOK, [RowsNext]_rowVars PROVE RowsTypeOK'
  OBVIOUS
<1>1. CASE Tick
  BY <1>1, TableConstantsOK DEF Tick, TimePasses, RowsTypeOK
<1>2. ASSUME NEW c \in Clients, NEW s \in Sessions, CreateSession(c, s) PROVE RowsTypeOK'
  <2>1. row' \in [Sessions -> Row] /\ issued' \in 0..MaxSessions
    BY <1>2, TableConstantsOK DEF CreateSession, RowsTypeOK, Row, Sessions, Terminal
  <2> QED BY <1>2, <2>1, CommittedByOthers DEF CreateSession, RowsTypeOK
<1>3. ASSUME NEW c \in Clients, NEW s \in Sessions, AppendEvent(c, s) PROVE RowsTypeOK'
  <2>1. lastEvent' \in [Sessions -> Nat]
    BY <1>3 DEF AppendEvent, AppendsTo, RowsTypeOK
  <2> QED BY <1>3, <2>1, CommittedByOthers DEF AppendEvent, AppendsTo, RowsTypeOK
<1>4. ASSUME NEW c \in Clients, NEW s \in Sessions, TouchRead(c, s) PROVE RowsTypeOK'
  <2>1. [row[s] EXCEPT !.heartbeat = now] \in Row
    BY DEF RowsTypeOK, Row
  <2>2. Only(s, [row[s] EXCEPT !.heartbeat = now]) \in [{s} -> Row]
    BY <2>1 DEF Only
  <2>3. IsCall([op |-> "touch",
                       after |-> Only(s, [row[s] EXCEPT !.heartbeat = now]),
                       behind |-> FALSE])
    BY <2>2 DEF IsCall
  <2> QED BY <1>4, <2>3, ReadType DEF TouchRead, RowsTypeOK, tableVars
<1>5. ASSUME NEW c \in Clients, NEW s \in Sessions, NEW status \in {"closed", "failed"},
             NEW t \in 1..MaxTime, CloseRead(c, s, status, t)
      PROVE  RowsTypeOK'
  <2>1. Ended(s, status, t) \in Row
    <3>1. row[s] \in Row
      BY DEF RowsTypeOK
    <3> QED BY <3>1 DEF Ended, EndedRow, Row, Terminal
  <2>2. Only(s, Ended(s, status, t)) \in [{s} -> Row]
    BY <2>1 DEF Only
  <2> QED BY <1>5, <2>2, BeginType DEF CloseRead
<1>6. ASSUME NEW c \in Clients, NEW t \in 0..MaxTime, ReconcileRead(c, t) PROVE RowsTypeOK'
  <2>1. Expired(t) \subseteq Sessions
    BY DEF Expired
  <2>2. [s \in Expired(t) |-> row[s]] \in [Expired(t) -> Row]
    BY <2>1 DEF RowsTypeOK
  <2> QED BY <1>6, <2>1, <2>2, BeginType DEF ReconcileRead
<1>7. ASSUME NEW c \in Clients, NEW t \in 0..MaxTime, CleanupRead(c, t) PROVE RowsTypeOK'
  <2>1. Forgotten(t) \subseteq Sessions /\ NoRow \in Row
    BY DEF Forgotten, NoRow, Row
  <2>2. [s \in Forgotten(t) |-> NoRow] \in [Forgotten(t) -> Row]
    BY <2>1
  <2> QED BY <1>7, <2>1, <2>2, BeginType DEF CleanupRead
<1>8. ASSUME NEW c \in Clients, CommitCall(c) PROVE RowsTypeOK'
  <2>1. ASSUME NEW s \in DOMAIN call[c].after
        PROVE  Written(call[c].op, row[s], call[c].after[s]) \in Row
    <3>1. row[s] \in Row /\ call[c].after[s] \in Row
      BY AfterType DEF RowsTypeOK
    <3> QED BY <3>1 DEF Written, Row
  <2>2. row' \in [Sessions -> Row]
    BY <1>8, <2>1 DEF CommitCall, RowsTypeOK
  <2> QED BY <1>8, <2>2, CommittedByOthers DEF CommitCall, RowsTypeOK, Released
<1>9. ASSUME NEW c \in Clients, RollbackCall(c) PROVE RowsTypeOK'
  <2> QED BY <1>9, IdleType, ReadType DEF RollbackCall, Released, RowsTypeOK, tableVars
<1>10. ASSUME NEW c \in Clients, ReconcileEvents(c) PROVE RowsTypeOK'
  <2> DEFINE read == call[c].after
             after == [s \in DOMAIN read |-> ReconciledFrom(s, read[s])]
  <2>1. PICK S \in SUBSET Sessions : read \in [S -> Row]
    BY DEF RowsTypeOK, IsCall
  <2>2. \A s \in S : lastEvent[s] \in Nat
    BY DEF RowsTypeOK
  <2>3. \A s \in S : ReconciledFrom(s, read[s]) \in Row
    <3> HIDE DEF read
    <3> QED BY <2>1, <2>2 DEF ReconciledFrom, EndedRow, Row, Terminal
  <2>4. after \in [S -> Row]
    BY <2>1, <2>3
  <2>5. /\ call' = [call EXCEPT ![c] = [op |-> "reconcile", after |-> after, behind |-> FALSE]]
        /\ UNCHANGED <<tableVars, issued, writer>>
    BY <1>10 DEF ReconcileEvents, tableVars
  <2> HIDE DEF after
  <2>6. IsCall([op |-> "reconcile", after |-> after, behind |-> FALSE])
    BY <2>4 DEF IsCall
  <2> QED BY <2>5, <2>6, ReadType DEF RowsTypeOK
<1>11. CASE UNCHANGED rowVars
  BY <1>11 DEF rowVars, tableVars, RowsTypeOK
<1> QED
  BY <1>1, <1>2, <1>3, <1>4, <1>5, <1>6, <1>7, <1>8, <1>9, <1>10, <1>11 DEF RowsNext, ClientStep

\* Every variable keeps its type, on either backend.
THEOREM RowsTypeCorrect == RowsSpec => []RowsTypeOK
BY InitType, StepType, PTL DEF RowsSpec

-----------------------------------------------------------------------------
(* Decisions hold until they are written.                                  *)

Deciding == {"close", "expired", "reconcile", "cleanup"}

\* What DecisionsHold says of one client.
Sound(c) ==
    /\ call[c].op \in Deciding => writer = c
    /\ StillDecided(c)

LEMMA DecisionsAreSound == DecisionsHold <=> \A c \in Clients : Sound(c)
BY DEF DecisionsHold, Sound, Deciding

\* A client that neither decides nor believes what it has read is sound, here in
\* the state after a step.
LEMMA NothingDecidedNext ==
    ASSUME NEW c, call'[c].op \notin Deciding, call'[c].op = "touch" => call'[c].behind
    PROVE  Sound(c)'
BY DEF Sound, StillDecided, Deciding

\* When another client may write, nobody is deciding.
LEMMA OnlyTheHolderDecides ==
    ASSUME NEW c \in Clients, NEW d \in Clients, d # c, Sound(d), writer \in {NoClient, c}
    PROVE  call[d].op \notin Deciding
BY ClientsOK DEF Sound

\* A step that commits leaves every client sound: the others can only be idle
\* or be heartbeats that know they are behind.
LEMMA CommitSound ==
    ASSUME RowsTypeOK, DecisionsHold, NEW c \in Clients,
           writer \in {NoClient, c}, call' = CommittedBy(c)
    PROVE  DecisionsHold'
<1>1. ASSUME NEW d \in Clients, d # c PROVE Sound(d)'
  <2>1. call[d].op \notin Deciding
    BY <1>1, OnlyTheHolderDecides, DecisionsAreSound
  <2> QED BY <1>1, <2>1, CommittedByOthers, NothingDecidedNext
<1>2. Sound(c)'
  <2>1. NoCall.op = "idle"
    BY DEF NoCall
  <2>2. call'[c] = NoCall
    BY CommittedByOthers
  <2>3. call'[c].op = "idle"
    BY <2>1, <2>2
  <2> QED BY <2>3, NothingDecidedNext DEF Deciding
<1> QED BY <1>1, <1>2 DEF DecisionsHold, Sound, Deciding

\* What a call would write does not change while the rows stay as they are.
LEMMA SameDecisions ==
    ASSUME UNCHANGED <<row, lastEvent>>
    PROVE  /\ \A t : Expired(t)' = Expired(t) /\ Forgotten(t)' = Forgotten(t)
           /\ \A s : Reconciled(s)' = Reconciled(s)
           /\ \A s, status, t : Ended(s, status, t)' = Ended(s, status, t)
BY DEF Expired, Forgotten, Reconciled, ReconciledFrom, Ended, EndedRow

\* A client whose own transaction did not change stays sound while the rows it
\* looked at are the same, however much time has passed.
LEMMA UntouchedSound ==
    ASSUME NEW d \in Clients, Sound(d), call'[d] = call[d],
           UNCHANGED <<row, lastEvent>>, now \in Nat, now' \in Nat, now <= now',
           call[d].op \in Deciding => writer' = writer
    PROVE  Sound(d)'
<1> DEFINE op == call[d].op
           after == call[d].after
<1>1. ASSUME op = "touch", ~call[d].behind
      PROVE  \E s \in Sessions, t \in 0..now' :
                /\ row'[s].status = "active" /\ row'[s].heartbeat <= t
                /\ after = Only(s, [row'[s] EXCEPT !.heartbeat = t])
  <2>1. PICK s \in Sessions, t \in 0..now :
                /\ row[s].status = "active" /\ row[s].heartbeat <= t
                /\ after = Only(s, [row[s] EXCEPT !.heartbeat = t])
    BY <1>1 DEF Sound, StillDecided
  <2>2. t \in 0..now'
    OBVIOUS
  <2> QED BY <2>1, <2>2
<1>2. ASSUME op = "close"
      PROVE  \E s \in Sessions, status \in {"closed", "failed"}, t \in 0..now' :
                /\ row'[s].status = "active" /\ row'[s].started <= t
                /\ after = Only(s, Ended(s, status, t)')
  <2>1. PICK s \in Sessions, status \in {"closed", "failed"}, t \in 0..now :
                /\ row[s].status = "active" /\ row[s].started <= t
                /\ after = Only(s, Ended(s, status, t))
    BY <1>2 DEF Sound, StillDecided
  <2>2. t \in 0..now'
    OBVIOUS
  <2>3. Ended(s, status, t)' = Ended(s, status, t)
    BY SameDecisions
  <2> QED BY <2>1, <2>2, <2>3
<1>3. ASSUME op = "reconcile"
      PROVE  \E cutoff \in 0..MaxTime :
                /\ cutoff + StaleAfter <= now'
                /\ after = [s \in Expired(cutoff)' |-> Reconciled(s)']
  <2>1. PICK cutoff \in 0..MaxTime :
                /\ cutoff + StaleAfter <= now
                /\ after = [s \in Expired(cutoff) |-> Reconciled(s)]
    BY <1>3 DEF Sound, StillDecided
  <2>2. cutoff + StaleAfter <= now'
    BY <2>1, TableConstantsOK
  <2>3. [s \in Expired(cutoff)' |-> Reconciled(s)'] = [s \in Expired(cutoff) |-> Reconciled(s)]
    BY SameDecisions
  <2> QED BY <2>1, <2>2, <2>3
<1>4. ASSUME op = "cleanup"
      PROVE  \E before \in 0..MaxTime :
                /\ before + EmptyTTL <= now'
                /\ after = [s \in Forgotten(before)' |-> NoRow]
  <2>1. PICK before \in 0..MaxTime :
                /\ before + EmptyTTL <= now
                /\ after = [s \in Forgotten(before) |-> NoRow]
    BY <1>4 DEF Sound, StillDecided
  <2>2. before + EmptyTTL <= now'
    BY <2>1, TableConstantsOK
  <2>3. Forgotten(before)' = Forgotten(before)
    BY SameDecisions
  <2> QED BY <2>1, <2>2, <2>3
<1>5. ASSUME op = "expired"
      PROVE  \E cutoff \in 0..MaxTime :
                /\ cutoff + StaleAfter <= now'
                /\ after = [s \in Expired(cutoff)' |-> row'[s]]
  <2>1. PICK cutoff \in 0..MaxTime :
                /\ cutoff + StaleAfter <= now
                /\ after = [s \in Expired(cutoff) |-> row[s]]
    BY <1>5 DEF Sound, StillDecided
  <2>2. cutoff + StaleAfter <= now'
    BY <2>1, TableConstantsOK
  <2>3. Expired(cutoff)' = Expired(cutoff)
    BY SameDecisions
  <2> QED BY <2>1, <2>2, <2>3
<1>6. StillDecided(d)'
  BY <1>1, <1>2, <1>3, <1>4, <1>5 DEF StillDecided
<1> QED BY <1>6 DEF Sound

\* The read of a transaction that takes the lock.
LEMMA BeginSound ==
    ASSUME RowsTypeOK, DecisionsHold, Backend = "sqlite", NEW c \in Clients,
           NEW op, NEW after, BeginCall(c, op, after), StillDecided(c)'
    PROVE  DecisionsHold'
<1>1. /\ writer = NoClient
      /\ writer' = c
      /\ \A d \in Clients \ {c} : call'[d] = call[d]
      /\ UNCHANGED <<row, lastEvent>>
      /\ now \in Nat /\ now' = now /\ now <= now'
  BY DEF BeginCall, WriterFree, RowsTypeOK
<1>2. ASSUME NEW d \in Clients, d # c PROVE Sound(d)'
  <2>1. Sound(d)
    BY DecisionsAreSound
  <2>2. call[d].op \notin Deciding
    BY <1>1, <1>2, <2>1, OnlyTheHolderDecides
  <2> QED BY <1>1, <1>2, <2>1, <2>2, UntouchedSound
<1>3. Sound(c)'
  BY <1>1 DEF Sound
<1> QED BY <1>2, <1>3 DEF DecisionsHold, Sound, Deciding

LEMMA StepDecisions ==
    RowsTypeOK /\ DecisionsHold /\ DatedInPast /\ Backend = "sqlite" /\ [RowsNext]_rowVars
        => DecisionsHold'
<1> SUFFICES ASSUME RowsTypeOK, DecisionsHold, DatedInPast, Backend = "sqlite",
                    [RowsNext]_rowVars
             PROVE  DecisionsHold'
  OBVIOUS
<1>0. now \in Nat /\ now <= now
  BY DEF RowsTypeOK
<1>1. CASE Tick
  <2>1. UNCHANGED <<row, lastEvent, call, writer>> /\ now' \in Nat /\ now <= now'
    BY <1>0, <1>1 DEF Tick, TimePasses
  <2>2. \A d \in Clients : Sound(d)'
    BY <1>0, <2>1, UntouchedSound, DecisionsAreSound
  <2> QED BY <2>2 DEF DecisionsHold, Sound, Deciding
<1>2. ASSUME NEW c \in Clients, NEW s \in Sessions, CreateSession(c, s)
      PROVE  DecisionsHold'
  BY <1>2, CommitSound DEF CreateSession, WriterFree
<1>3. ASSUME NEW c \in Clients, NEW s \in Sessions, AppendEvent(c, s)
      PROVE  DecisionsHold'
  BY <1>3, CommitSound DEF AppendEvent, WriterFree
<1>4. ASSUME NEW c \in Clients, NEW s \in Sessions, TouchRead(c, s)
      PROVE  DecisionsHold'
  <2>1. /\ call'[c].op = "touch"
        /\ call'[c].after = Only(s, [row[s] EXCEPT !.heartbeat = now])
        /\ row[s].status = "active"
        /\ UNCHANGED <<now, row, lastEvent, writer>>
        /\ \A d \in Clients \ {c} : call'[d] = call[d]
    BY <1>4 DEF TouchRead, RowsTypeOK
  <2>2. Sound(c)'
    <3>1. row[s].heartbeat <= now /\ now \in 0..now
      BY <1>0 DEF DatedInPast
    <3>2. \E q \in Sessions, t \in 0..now :
              /\ row[q].status = "active" /\ row[q].heartbeat <= t
              /\ call'[c].after = Only(q, [row[q] EXCEPT !.heartbeat = t])
      BY <2>1, <3>1
    <3>3. StillDecided(c)'
      BY <2>1, <3>2 DEF StillDecided
    <3> QED BY <2>1, <3>3 DEF Sound, Deciding
  <2>3. ASSUME NEW d \in Clients, d # c PROVE Sound(d)'
    BY <1>0, <2>1, <2>3, UntouchedSound, DecisionsAreSound
  <2> QED BY <2>2, <2>3 DEF DecisionsHold, Sound, Deciding
<1>5. ASSUME NEW c \in Clients, NEW s \in Sessions, NEW status \in {"closed", "failed"},
             NEW t \in 1..MaxTime, CloseRead(c, s, status, t)
      PROVE  DecisionsHold'
  <2>1. /\ BeginCall(c, "close", Only(s, Ended(s, status, t)))
        /\ row[s].status = "active" /\ row[s].started <= t /\ t \in 0..now
    <3>1. row[s].started \in Nat
      BY DEF RowsTypeOK, Row
    <3> QED BY <1>0, <1>5, <3>1 DEF CloseRead
  <2>2. /\ call'[c].op = "close"
        /\ call'[c].after = Only(s, Ended(s, status, t))
        /\ UNCHANGED <<now, row, lastEvent>>
    BY <2>1 DEF BeginCall, RowsTypeOK
  <2>3. call'[c].after = Only(s, Ended(s, status, t)')
    BY <2>2, SameDecisions
  <2>4. StillDecided(c)'
    BY <2>1, <2>2, <2>3 DEF StillDecided
  <2> QED BY <2>1, <2>4, BeginSound
<1>6. ASSUME NEW c \in Clients, NEW t \in 0..MaxTime, ReconcileRead(c, t)
      PROVE  DecisionsHold'
  <2> DEFINE after == [s \in Expired(t) |-> row[s]]
  <2>1. BeginCall(c, "expired", after) /\ t + StaleAfter <= now
    BY <1>6 DEF ReconcileRead
  <2>2. call'[c].op = "expired" /\ call'[c].after = after /\ UNCHANGED <<now, row, lastEvent>>
    BY <2>1 DEF BeginCall, RowsTypeOK
  <2>3. after = [s \in Expired(t)' |-> row'[s]]
    BY <2>2, SameDecisions
  <2>4. StillDecided(c)'
    BY <2>1, <2>2, <2>3 DEF StillDecided
  <2> HIDE DEF after
  <2> QED BY <2>1, <2>4, BeginSound
<1>7. ASSUME NEW c \in Clients, NEW t \in 0..MaxTime, CleanupRead(c, t)
      PROVE  DecisionsHold'
  <2> DEFINE after == [s \in Forgotten(t) |-> NoRow]
  <2>1. BeginCall(c, "cleanup", after) /\ t + EmptyTTL <= now
    BY <1>7 DEF CleanupRead
  <2>2. call'[c].op = "cleanup" /\ call'[c].after = after /\ UNCHANGED <<now, row, lastEvent>>
    BY <2>1 DEF BeginCall, RowsTypeOK
  <2>3. Forgotten(t)' = Forgotten(t)
    BY <2>2, SameDecisions
  <2>4. StillDecided(c)'
    BY <2>1, <2>2, <2>3 DEF StillDecided
  <2> HIDE DEF after
  <2> QED BY <2>1, <2>4, BeginSound
<1>8. ASSUME NEW c \in Clients, CommitCall(c) PROVE DecisionsHold'
  <2>1. call' = CommittedBy(c) /\ call[c].op # "idle"
    BY <1>8 DEF CommitCall
  <2>2. writer \in {NoClient, c}
    BY <1>8 DEF CommitCall, DecisionsHold, RowsTypeOK, IsCall
  <2> QED BY <2>1, <2>2, CommitSound
<1>9. ASSUME NEW c \in Clients, RollbackCall(c) PROVE DecisionsHold'
  <2>1. /\ call'[c].op = "idle"
        /\ \A d \in Clients \ {c} : call'[d] = call[d]
        /\ writer' = Released(c)
        /\ UNCHANGED <<now, row, lastEvent>>
    BY <1>9 DEF RollbackCall, NoCall, RowsTypeOK
  <2>2. Sound(c)'
    BY <2>1, NothingDecidedNext DEF Deciding
  <2>3. ASSUME NEW d \in Clients, d # c PROVE Sound(d)'
    <3>1. Sound(d)
      BY DecisionsAreSound
    <3>2. call[d].op \in Deciding => writer' = writer
      BY <2>1, <2>3, <3>1 DEF Sound, Released
    <3> QED BY <1>0, <2>1, <2>3, <3>1, <3>2, UntouchedSound
  <2> QED BY <2>2, <2>3 DEF DecisionsHold, Sound, Deciding
<1>10. ASSUME NEW c \in Clients, ReconcileEvents(c) PROVE DecisionsHold'
  <2> DEFINE read == call[c].after
             after == [s \in DOMAIN read |-> ReconciledFrom(s, read[s])]
  <2>1. /\ call[c].op = "expired" /\ call'[c].op = "reconcile" /\ call'[c].after = after
        /\ \A d \in Clients \ {c} : call'[d] = call[d]
        /\ UNCHANGED <<now, row, lastEvent, writer>>
    BY <1>10 DEF ReconcileEvents, RowsTypeOK
  <2>2. Sound(c)
    BY DecisionsAreSound
  <2>3. PICK t \in 0..MaxTime : t + StaleAfter <= now /\ read = [s \in Expired(t) |-> row[s]]
    BY <2>1, <2>2 DEF Sound, StillDecided
  <2>4. after = [s \in Expired(t) |-> Reconciled(s)]
    BY <2>3 DEF Reconciled
  <2>5. after = [s \in Expired(t)' |-> Reconciled(s)']
    BY <2>1, <2>4, SameDecisions
  <2> HIDE DEF after, read
  <2>6. StillDecided(c)'
    BY <2>1, <2>3, <2>5 DEF StillDecided
  <2>7. Sound(c)'
    BY <2>1, <2>2, <2>6 DEF Sound, Deciding
  <2>8. ASSUME NEW d \in Clients, d # c PROVE Sound(d)'
    BY <1>0, <2>1, <2>8, UntouchedSound, DecisionsAreSound
  <2> QED BY <2>7, <2>8 DEF DecisionsHold, Sound, Deciding
<1>11. CASE UNCHANGED rowVars
  <2>1. UNCHANGED <<now, row, lastEvent, call, writer>>
    BY <1>11 DEF rowVars, tableVars
  <2>2. \A d \in Clients : Sound(d)'
    BY <1>0, <2>1, UntouchedSound, DecisionsAreSound
  <2> QED BY <2>2 DEF DecisionsHold, Sound, Deciding
<1> QED
  BY <1>1, <1>2, <1>3, <1>4, <1>5, <1>6, <1>7, <1>8, <1>9, <1>10, <1>11 DEF RowsNext, ClientStep

-----------------------------------------------------------------------------
(* On SQLite every step is a call of the table, or none.                   *)

\* A commit writes what the call writes in one instant.
LEMMA CommitIsCall ==
    ASSUME RowsTypeOK, DecisionsHold, Backend = "sqlite", NEW c \in Clients, CommitCall(c)
    PROVE  TableNext
<1> DEFINE op == call[c].op
           after == call[c].after
<1>1. /\ op \in {"touch", "close", "reconcile", "cleanup"}
      /\ op = "touch" => ~call[c].behind
      /\ row' = [s \in Sessions |->
                    IF s \in DOMAIN after THEN Written(op, row[s], after[s]) ELSE row[s]]
      /\ UNCHANGED <<now, lastEvent>>
      /\ StillDecided(c)
  BY DEF CommitCall, RowsTypeOK, IsCall, DecisionsHold
<1>2. now \in Nat /\ row \in [Sessions -> Row]
  BY DEF RowsTypeOK
<1>3. ASSUME op = "touch" PROVE TableNext
  <2>1. PICK s \in Sessions, t \in 0..now :
                /\ row[s].status = "active" /\ row[s].heartbeat <= t
                /\ after = Only(s, [row[s] EXCEPT !.heartbeat = t])
    BY <1>1, <1>3 DEF StillDecided
  <2>2. row[s] \in Row /\ row[s].heartbeat \in Nat
    BY <1>2 DEF Row
  <2>3. DOMAIN after = {s} /\ after[s].heartbeat = t
    BY <2>1, <2>2 DEF Only, Row
  <2>4. row' = [row EXCEPT ![s].heartbeat = t]
    BY <1>1, <1>2, <1>3, <2>3 DEF Written
  <2>5. t \in row[s].heartbeat..now
    BY <2>1, <2>2
  <2>6. Touches(s, t)
    BY <1>1, <2>1, <2>4, <2>5 DEF Touches
  <2> QED BY <2>6 DEF TableNext
<1>4. ASSUME op = "close" PROVE TableNext
  <2>1. PICK s \in Sessions, status \in {"closed", "failed"}, t \in 0..now :
                /\ row[s].status = "active" /\ row[s].started <= t
                /\ after = Only(s, Ended(s, status, t))
    BY <1>1, <1>4 DEF StillDecided
  <2>2. row[s].started \in Nat
    BY <1>2 DEF Row
  <2>3. DOMAIN after = {s} /\ after[s] = Ended(s, status, t)
    BY <2>1 DEF Only
  <2>4. row' = [row EXCEPT ![s] = Ended(s, status, t)]
    BY <1>1, <1>2, <1>4, <2>3 DEF Written
  <2>5. t \in row[s].started..now
    BY <2>1, <2>2
  <2>6. Closes(s, status, t)
    BY <1>1, <2>1, <2>4, <2>5 DEF Closes
  <2> QED BY <2>6 DEF TableNext
<1>5. ASSUME op = "reconcile" PROVE TableNext
  <2>1. PICK t \in 0..MaxTime :
                /\ t + StaleAfter <= now
                /\ after = [s \in Expired(t) |-> Reconciled(s)]
    BY <1>1, <1>5 DEF StillDecided
  <2>2. DOMAIN after = Expired(t) /\ \A s \in Expired(t) : after[s] = Reconciled(s)
    BY <2>1
  <2>3. row' = [s \in Sessions |-> IF s \in Expired(t) THEN Reconciled(s) ELSE row[s]]
    BY <1>1, <1>5, <2>2 DEF Written
  <2>4. Reconciles(t)
    BY <1>1, <2>1, <2>3 DEF Reconciles
  <2> QED BY <2>4 DEF TableNext
<1>6. ASSUME op = "cleanup" PROVE TableNext
  <2>1. PICK t \in 0..MaxTime :
                /\ t + EmptyTTL <= now
                /\ after = [s \in Forgotten(t) |-> NoRow]
    BY <1>1, <1>6 DEF StillDecided
  <2>2. DOMAIN after = Forgotten(t) /\ \A s \in Forgotten(t) : after[s] = NoRow
    BY <2>1
  <2>3. row' = [s \in Sessions |-> IF s \in Forgotten(t) THEN NoRow ELSE row[s]]
    BY <1>1, <1>6, <2>2 DEF Written
  <2>4. Cleans(t)
    BY <1>1, <2>1, <2>3 DEF Cleans
  <2> QED BY <2>4 DEF TableNext
<1> QED BY <1>1, <1>3, <1>4, <1>5, <1>6

LEMMA StepIsCall ==
    RowsTypeOK /\ DecisionsHold /\ Backend = "sqlite" /\ [RowsNext]_rowVars
        => [TableNext]_tableVars
<1> SUFFICES ASSUME RowsTypeOK, DecisionsHold, Backend = "sqlite", [RowsNext]_rowVars
             PROVE  [TableNext]_tableVars
  OBVIOUS
<1>1. ASSUME NEW c \in Clients, NEW s \in Sessions, CreateSession(c, s) PROVE TableNext
  <2>1. \A q \in Sessions : Exists(q) => q < s
    BY <1>1 DEF CreateSession, NextId, Sessions
  <2> QED BY <1>1, <2>1 DEF CreateSession, Creates, TableNext
<1>2. ASSUME NEW c \in Clients, NEW s \in Sessions, AppendEvent(c, s) PROVE TableNext
  BY <1>2 DEF AppendEvent, TableNext
<1>3. ASSUME NEW c \in Clients, CommitCall(c) PROVE TableNext
  BY <1>3, CommitIsCall
<1>4. ASSUME Tick PROVE TableNext
  BY <1>4 DEF Tick, TableNext
<1>5. \/ TableNext \/ UNCHANGED tableVars
  BY <1>1, <1>2, <1>3, <1>4, ZenonT(30) DEF RowsNext, ClientStep, rowVars, tableVars, TouchRead, CloseRead,
     ReconcileRead, ReconcileEvents, CleanupRead, BeginCall, RollbackCall
<1> QED BY <1>5

-----------------------------------------------------------------------------
(* What atomic calls guarantee.                                            *)

\* A call leaves a row alone, creates it where there was none, moves the heartbeat
\* of an active row, ends an active row, or deletes an empty one.
LEMMA CallOnRow ==
    ASSUME DatedInPast, [TableNext]_tableVars, NEW s \in Sessions
    PROVE  \/ row'[s] = row[s]
           \/ /\ row[s].status = "none" /\ row'[s] \in Row
              /\ row'[s].status = "active"
              /\ row'[s].started = now /\ row'[s].heartbeat = now
           \/ /\ row[s].status = "active" /\ row'[s] \in Row
              /\ row'[s].status = "active"
              /\ row'[s].started = row[s].started
              /\ row[s].heartbeat <= row'[s].heartbeat /\ row'[s].heartbeat <= now
           \/ /\ row[s].status = "active" /\ row'[s] \in Row
              /\ row'[s].status \in {"closed", "failed"}
              /\ row'[s].started = row[s].started
              /\ row'[s].heartbeat = row'[s].ended /\ row'[s].heartbeat <= now
           \/ /\ row[s].status = "active" /\ row'[s] \in Row
              /\ row'[s].status = IF lastEvent[s] = 0 THEN "empty" ELSE "stale"
              /\ row'[s].started = row[s].started
              /\ row'[s].heartbeat = row'[s].ended /\ row'[s].heartbeat <= now
              /\ row[s].heartbeat + StaleAfter < now
           \/ row[s].status = "empty" /\ row'[s] = NoRow
<1> DEFINE Fate ==
           \/ row'[s] = row[s]
           \/ /\ row[s].status = "none" /\ row'[s] \in Row
              /\ row'[s].status = "active"
              /\ row'[s].started = now /\ row'[s].heartbeat = now
           \/ /\ row[s].status = "active" /\ row'[s] \in Row
              /\ row'[s].status = "active"
              /\ row'[s].started = row[s].started
              /\ row[s].heartbeat <= row'[s].heartbeat /\ row'[s].heartbeat <= now
           \/ /\ row[s].status = "active" /\ row'[s] \in Row
              /\ row'[s].status \in {"closed", "failed"}
              /\ row'[s].started = row[s].started
              /\ row'[s].heartbeat = row'[s].ended /\ row'[s].heartbeat <= now
           \/ /\ row[s].status = "active" /\ row'[s] \in Row
              /\ row'[s].status = IF lastEvent[s] = 0 THEN "empty" ELSE "stale"
              /\ row'[s].started = row[s].started
              /\ row'[s].heartbeat = row'[s].ended /\ row'[s].heartbeat <= now
              /\ row[s].heartbeat + StaleAfter < now
           \/ row[s].status = "empty" /\ row'[s] = NoRow
<1> SUFFICES Fate
  OBVIOUS
<1>0. /\ now \in Nat /\ row \in [Sessions -> Row] /\ row[s] \in Row
      /\ lastEvent[s] \in 0..now
      /\ row[s].started \in Nat /\ row[s].started <= now
      /\ row[s].heartbeat \in Nat /\ row[s].heartbeat <= now
      /\ StaleAfter \in Nat
  BY TableConstantsOK DEF DatedInPast, Row
<1>1. ASSUME NEW q \in Sessions, Creates(q) PROVE Fate
  <2>1. CASE s = q
    <3>1. row[s].status = "none"
      BY <1>1, <2>1 DEF Creates, Exists, Sessions
    <3>2. row'[s] = [status |-> "active", started |-> now, heartbeat |-> now, ended |-> 0]
      BY <1>0, <1>1, <2>1 DEF Creates
    <3> QED BY <1>0, <3>1, <3>2 DEF Row
  <2>2. CASE s # q
    BY <1>0, <1>1, <2>2 DEF Creates
  <2> QED BY <2>1, <2>2
<1>2. ASSUME NEW q \in Sessions, NEW t \in 0..now, Touches(q, t) PROVE Fate
  <2>1. CASE s = q
    BY <1>0, <1>2, <2>1 DEF Touches, Row
  <2>2. CASE s # q
    BY <1>0, <1>2, <2>2 DEF Touches
  <2> QED BY <2>1, <2>2
<1>3. ASSUME NEW q \in Sessions, NEW t \in 0..now, NEW status \in {"closed", "failed"},
             Closes(q, status, t)
      PROVE  Fate
  <2>1. CASE s = q
    <3>1. row[s].status = "active" /\ row'[s] = Ended(s, status, t)
      BY <1>0, <1>3, <2>1 DEF Closes
    <3>2. Ended(s, status, t) \in Row
      BY <1>0 DEF Ended, EndedRow, Row, Terminal
    <3> QED BY <1>0, <3>1, <3>2 DEF Ended, EndedRow
  <2>2. CASE s # q
    BY <1>0, <1>3, <2>2 DEF Closes
  <2> QED BY <2>1, <2>2
<1>4. ASSUME NEW t \in 0..MaxTime, Reconciles(t) PROVE Fate
  <2>1. CASE s \in Expired(t)
    <3>1. /\ row'[s] = Reconciled(s) /\ t + StaleAfter <= now
          /\ row[s].status = "active" /\ row[s].heartbeat < t
      BY <1>4, <2>1 DEF Reconciles, Expired
    <3>2. row[s].heartbeat + StaleAfter < now
      BY <1>0, <3>1
    <3>3. /\ Reconciled(s) \in Row
          /\ Reconciled(s).status = IF lastEvent[s] = 0 THEN "empty" ELSE "stale"
          /\ Reconciled(s).started = row[s].started
          /\ Reconciled(s).heartbeat = Reconciled(s).ended
          /\ Reconciled(s).heartbeat <= now
      BY <1>0 DEF Reconciled, ReconciledFrom, EndedRow, Row, Terminal
    <3> QED BY <3>1, <3>2, <3>3
  <2>2. CASE s \notin Expired(t)
    BY <1>4, <2>2 DEF Reconciles
  <2> QED BY <2>1, <2>2
<1>5. ASSUME NEW t \in 0..MaxTime, Cleans(t) PROVE Fate
  BY <1>5 DEF Cleans, Forgotten
<1>6. ASSUME row' = row PROVE Fate
  BY <1>6
<1> HIDE DEF Fate
<1> QED
  BY <1>1, <1>2, <1>3, <1>4, <1>5, <1>6 DEF TableNext, tableVars, TimePasses, AppendsTo

LEMMA TableStarts == TableInit => DatedInPast /\ HeartbeatNotPastEnd
BY DEF TableInit, DatedInPast, HeartbeatNotPastEnd, NoRow, Row, Terminal

LEMMA CallsKeep ==
    DatedInPast /\ HeartbeatNotPastEnd /\ [TableNext]_tableVars
        => DatedInPast' /\ HeartbeatNotPastEnd'
<1> SUFFICES ASSUME DatedInPast, HeartbeatNotPastEnd, [TableNext]_tableVars
             PROVE  DatedInPast' /\ HeartbeatNotPastEnd'
  OBVIOUS
<1>1. now \in Nat /\ now' \in Nat /\ now <= now'
  BY DEF DatedInPast, TableNext, tableVars, TimePasses, Creates, AppendsTo, Touches, Closes,
     Reconciles, Cleans
<1>2. lastEvent' \in [Sessions -> 0..now']
  <2>1. ASSUME NEW s \in Sessions, AppendsTo(s) PROVE lastEvent' \in [Sessions -> 0..now']
    BY <1>1, <2>1 DEF AppendsTo, DatedInPast
  <2>2. ASSUME lastEvent' = lastEvent PROVE lastEvent' \in [Sessions -> 0..now']
    <3>1. 0..now \subseteq 0..now'
      BY <1>1
    <3> QED BY <2>2, <3>1 DEF DatedInPast
  <2> QED BY <2>1, <2>2 DEF TableNext, tableVars, TimePasses, Creates, Touches, Closes, Reconciles,
             Cleans
<1>3. row' = [s \in Sessions |-> row'[s]]
  BY DEF DatedInPast, TableNext, tableVars, TimePasses, Creates, AppendsTo, Touches, Closes,
     Reconciles, Cleans
<1>4. ASSUME NEW s \in Sessions
      PROVE  /\ row'[s] \in Row /\ row'[s].started <= now' /\ row'[s].heartbeat <= now'
             /\ row'[s].status \in Terminal => row'[s].heartbeat = row'[s].ended
  <2>1. /\ row[s] \in Row
        /\ row[s].started \in Nat /\ row[s].started <= now
        /\ row[s].heartbeat \in Nat /\ row[s].heartbeat <= now
        /\ row[s].status \in Terminal => row[s].heartbeat = row[s].ended
    BY DEF DatedInPast, HeartbeatNotPastEnd, Row
  <2>2. /\ NoRow \in Row /\ NoRow.status \notin Terminal
        /\ NoRow.started = 0 /\ NoRow.heartbeat = 0
    BY DEF NoRow, Row, Terminal
  <2>3. row'[s] \in Row
    BY <2>1, <2>2, CallOnRow
  <2>4. row'[s].started \in Nat /\ row'[s].heartbeat \in Nat
    BY <2>3 DEF Row
  <2>5. "active" \notin Terminal
    BY DEF Terminal
  <2>6. row'[s].status \in Terminal => row'[s].heartbeat = row'[s].ended
    BY <2>1, <2>2, <2>5, CallOnRow
  <2>7. row'[s].started <= now /\ row'[s].heartbeat <= now
    BY <1>1, <2>1, <2>2, <2>4, CallOnRow
  <2> QED BY <1>1, <2>3, <2>4, <2>6, <2>7
<1> QED BY <1>1, <1>2, <1>3, <1>4 DEF DatedInPast, HeartbeatNotPastEnd

LEMMA TableInvariance == TableSpec => [](DatedInPast /\ HeartbeatNotPastEnd)
BY TableStarts, CallsKeep, PTL DEF TableSpec

-----------------------------------------------------------------------------
(* What may be written, on either backend.                                 *)

LEMMA CommittedWrites ==
    ASSUME RowsTypeOK, WritesAreFinal, NEW c \in Clients, call' = CommittedBy(c)
    PROVE  WritesAreFinal'
<1>1. NoCall.op = "idle" /\ DOMAIN NoCall.after = {}
  BY DEF NoCall
<1>2. ASSUME NEW d \in Clients, NEW s \in DOMAIN call'[d].after
      PROVE  /\ call'[d].op \in {"close", "reconcile"} => call'[d].after[s].status \in Terminal
             /\ call'[d].op = "cleanup" => call'[d].after[s] = NoRow
  <2>1. d # c
    BY <1>1, <1>2, CommittedByOthers
  <2>2. call'[d].op = call[d].op /\ call'[d].after = call[d].after
    BY <2>1, CommittedByOthers
  <2> QED BY <1>2, <2>2 DEF WritesAreFinal
<1> QED BY <1>2 DEF WritesAreFinal

\* One transaction changes, and what it will write now is as it should be.
LEMMA DecidedWrites ==
    ASSUME RowsTypeOK, WritesAreFinal, NEW c \in Clients, NEW op, NEW after, NEW behind,
           call' = [call EXCEPT ![c] = [op |-> op, after |-> after, behind |-> behind]],
           \A s \in DOMAIN after : /\ op \in {"close", "reconcile"} => after[s].status \in Terminal
                                   /\ op = "cleanup" => after[s] = NoRow
    PROVE  WritesAreFinal'
<1>1. /\ call'[c].op = op /\ call'[c].after = after
      /\ \A d \in Clients \ {c} : call'[d] = call[d]
  BY DEF RowsTypeOK
<1> QED BY <1>1 DEF WritesAreFinal

LEMMA StepWrites == RowsTypeOK /\ WritesAreFinal /\ [RowsNext]_rowVars => WritesAreFinal'
<1> SUFFICES ASSUME RowsTypeOK, WritesAreFinal, [RowsNext]_rowVars PROVE WritesAreFinal'
  OBVIOUS
<1>1. CASE UNCHANGED call
  BY <1>1 DEF WritesAreFinal
<1>2. ASSUME NEW c \in Clients, call' = CommittedBy(c) PROVE WritesAreFinal'
  BY <1>2, CommittedWrites
<1>3. ASSUME NEW c \in Clients, NEW s \in Sessions, TouchRead(c, s) PROVE WritesAreFinal'
  <2> DEFINE after == Only(s, [row[s] EXCEPT !.heartbeat = now])
  <2>1. call' = [call EXCEPT ![c] = [op |-> "touch", after |-> after, behind |-> FALSE]]
    BY <1>3 DEF TouchRead
  <2>2. "touch" \notin {"close", "reconcile"} /\ "touch" # "cleanup"
    OBVIOUS
  <2> HIDE <1>3 DEF after
  <2> QED BY <2>1, <2>2, DecidedWrites
<1>4. ASSUME NEW c \in Clients, NEW s \in Sessions, NEW status \in {"closed", "failed"},
             NEW t \in 1..MaxTime, CloseRead(c, s, status, t)
      PROVE  WritesAreFinal'
  <2>1. \A q \in DOMAIN Only(s, Ended(s, status, t)) :
           Only(s, Ended(s, status, t))[q].status \in Terminal
    BY DEF Only, Ended, EndedRow, Terminal
  <2>2. call' = [call EXCEPT ![c] = [op |-> "close", after |-> Only(s, Ended(s, status, t)),
                                     behind |-> FALSE]]
    BY <1>4 DEF CloseRead, BeginCall
  <2> HIDE <1>4
  <2>3. "close" # "cleanup"
    OBVIOUS
  <2> QED BY <2>1, <2>2, <2>3, DecidedWrites
<1>5. ASSUME NEW c \in Clients, NEW t \in 0..MaxTime, ReconcileRead(c, t) PROVE WritesAreFinal'
  BY <1>5, DecidedWrites DEF ReconcileRead, BeginCall
<1>6. ASSUME NEW c \in Clients, NEW t \in 0..MaxTime, CleanupRead(c, t) PROVE WritesAreFinal'
  BY <1>6, DecidedWrites DEF CleanupRead, BeginCall
<1>7. ASSUME NEW c \in Clients, RollbackCall(c) PROVE WritesAreFinal'
  <2>1. /\ \A d \in Clients \ {c} : call'[d] = call[d]
        /\ call'[c] = NoCall
    BY <1>7 DEF RollbackCall, RowsTypeOK
  <2>2. DOMAIN NoCall.after = {}
    BY DEF NoCall
  <2> QED BY <2>1, <2>2 DEF WritesAreFinal
<1>8. ASSUME NEW c \in Clients, ReconcileEvents(c) PROVE WritesAreFinal'
  <2> DEFINE read == call[c].after
             after == [s \in DOMAIN read |-> ReconciledFrom(s, read[s])]
  <2>1. \A s \in DOMAIN after : after[s].status \in Terminal
    BY DEF ReconciledFrom, EndedRow, Terminal
  <2>2. call' = [call EXCEPT ![c] = [op |-> "reconcile", after |-> after, behind |-> FALSE]]
    BY <1>8 DEF ReconcileEvents
  <2> HIDE <1>8 DEF after, read
  <2>3. \A s \in DOMAIN after :
           /\ "reconcile" \in {"close", "reconcile"} => after[s].status \in Terminal
           /\ "reconcile" = "cleanup" => after[s] = NoRow
    BY <2>1
  <2> QED BY <2>2, <2>3, DecidedWrites, ZenonT(30)
<1> QED
  BY <1>1, <1>2, <1>3, <1>4, <1>5, <1>6, <1>7, <1>8
     DEF RowsNext, ClientStep, Tick, CreateSession, AppendEvent, CommitCall, rowVars

\* What a step does to one row, on either backend.
LEMMA RowFate ==
    ASSUME RowsTypeOK, WritesAreFinal, IdsIssued, [RowsNext]_rowVars, NEW s \in Sessions
    PROVE  \/ row'[s].status = row[s].status
           \/ ~Exists(s) /\ row'[s].status = "active" /\ s <= issued'
           \/ Exists(s) /\ row'[s].status \in Terminal
           \/ Exists(s) /\ row'[s] = NoRow
<1> DEFINE Fate ==
           \/ row'[s].status = row[s].status
           \/ ~Exists(s) /\ row'[s].status = "active" /\ s <= issued'
           \/ Exists(s) /\ row'[s].status \in Terminal
           \/ Exists(s) /\ row'[s] = NoRow
<1> SUFFICES Fate
  OBVIOUS
<1>1. ASSUME NEW c \in Clients, NEW q \in Sessions, CreateSession(c, q) PROVE Fate
  <2>1. CASE s = q
    <3>1. ~Exists(s)
      BY <1>1, <2>1 DEF CreateSession, NextId, Sessions, IdsIssued, RowsTypeOK
    <3>2. s <= issued'
      BY <1>1, <2>1 DEF CreateSession, Sessions, RowsTypeOK
    <3> QED BY <1>1, <2>1, <3>1, <3>2 DEF CreateSession, RowsTypeOK
  <2>2. CASE s # q
    BY <1>1, <2>2 DEF CreateSession, RowsTypeOK
  <2> QED BY <2>1, <2>2
<1>2. ASSUME NEW c \in Clients, CommitCall(c) PROVE Fate
  <2>1. CASE s \notin DOMAIN call[c].after
    BY <1>2, <2>1 DEF CommitCall
  <2>2. CASE s \in DOMAIN call[c].after
    <3>1. /\ row'[s] = Written(call[c].op, row[s], call[c].after[s])
          /\ Exists(s)
      BY <1>2, <2>2 DEF CommitCall
    <3>2. CASE call[c].op = "touch"
      <4>1. row[s] \in Row
        BY DEF RowsTypeOK
      <4> QED BY <3>1, <3>2, <4>1 DEF Written, Row
    <3>3. CASE call[c].op \in {"close", "reconcile"}
      BY <2>2, <3>1, <3>3 DEF Written, WritesAreFinal
    <3>4. CASE call[c].op = "cleanup"
      BY <2>2, <3>1, <3>4 DEF Written, WritesAreFinal
    <3>5. call[c].op \in {"touch", "close", "reconcile", "cleanup"}
      BY <1>2 DEF RowsTypeOK, IsCall, CommitCall
    <3> QED BY <3>2, <3>3, <3>4, <3>5
  <2> QED BY <2>1, <2>2
<1>3. ASSUME row' = row PROVE Fate
  BY <1>3
<1> HIDE DEF Fate
<1>4. \/ row' = row
      \/ \E c \in Clients, q \in Sessions : CreateSession(c, q)
      \/ \E c \in Clients : CommitCall(c)
  BY ZenonT(30) DEF RowsNext, rowVars, tableVars, ClientStep, Tick, TimePasses, AppendEvent,
     AppendsTo, TouchRead, CloseRead, ReconcileRead, ReconcileEvents, CleanupRead, BeginCall,
     RollbackCall
<1> QED BY <1>1, <1>2, <1>3, <1>4

LEMMA StepIds ==
    RowsTypeOK /\ WritesAreFinal /\ IdsIssued /\ [RowsNext]_rowVars => IdsIssued'
<1> SUFFICES ASSUME RowsTypeOK, WritesAreFinal, IdsIssued, [RowsNext]_rowVars,
                    NEW s \in Sessions, Exists(s)'
             PROVE  s <= issued'
  BY DEF IdsIssued, Sessions
<1>1. issued <= issued' /\ issued \in Nat /\ issued' \in Nat /\ s \in Nat
  <2>1. issued \in Nat /\ s \in Nat /\ MaxSessions \in Nat
    BY TableConstantsOK DEF RowsTypeOK, Sessions
  <2>2. ASSUME NEW c \in Clients, NEW q \in Sessions, CreateSession(c, q)
        PROVE  issued <= issued' /\ issued' \in Nat
    BY <2>1, <2>2 DEF CreateSession, Sessions
  <2>3. UNCHANGED issued \/ \E c \in Clients, q \in Sessions : CreateSession(c, q)
    BY ZenonT(30) DEF RowsNext, rowVars, ClientStep, Tick, AppendEvent, TouchRead, CloseRead, ReconcileRead,
       ReconcileEvents, CleanupRead, BeginCall, CommitCall, RollbackCall
  <2> QED BY <2>1, <2>2, <2>3
<1>2. Exists(s) => s <= issued
  BY DEF IdsIssued
<1>3. row'[s].status # "none" /\ NoRow.status = "none"
  BY DEF Exists, NoRow
<1> QED BY <1>1, <1>2, <1>3, RowFate DEF Exists

-----------------------------------------------------------------------------
(* The inductive invariant and what follows from it.                       *)

LEMMA InitRows == RowsInit => RowsIInv
<1> SUFFICES ASSUME RowsInit PROVE RowsIInv
  OBVIOUS
<1>1. DecisionsHold
  BY DEF RowsInit, DecisionsHold, StillDecided, NoCall
<1>2. DatedInPast /\ HeartbeatNotPastEnd
  BY TableStarts DEF RowsInit
<1>3. WritesAreFinal /\ IdsIssued
  BY DEF RowsInit, TableInit, WritesAreFinal, IdsIssued, Exists, NoCall, NoRow
<1> QED BY <1>1, <1>2, <1>3, InitType DEF RowsIInv

LEMMA StepRows == RowsIInv /\ [RowsNext]_rowVars => RowsIInv'
<1> SUFFICES ASSUME RowsIInv, [RowsNext]_rowVars PROVE RowsIInv'
  OBVIOUS
<1>1. RowsTypeOK'
  BY StepType DEF RowsIInv
<1>2. ASSUME Backend = "sqlite" PROVE DecisionsHold'
  BY <1>2, StepDecisions DEF RowsIInv
<1>3. ASSUME Backend = "sqlite" PROVE DatedInPast' /\ HeartbeatNotPastEnd'
  BY <1>3, StepIsCall, CallsKeep DEF RowsIInv
<1>4. WritesAreFinal' /\ IdsIssued'
  BY StepWrites, StepIds DEF RowsIInv
<1> QED BY <1>1, <1>2, <1>3, <1>4 DEF RowsIInv

\* RowsIInv holds in every reachable state.
THEOREM RowsInvariance == RowsSpec => []RowsIInv
BY InitRows, StepRows, PTL DEF RowsSpec

\* On SQLite the transactions of SessionRows, which read first and write later,
\* behave like calls that take effect in one instant each.
THEOREM AtomicCalls ==
    ASSUME Backend = "sqlite" PROVE RowsSpec => CallsAreAtomic
<1>1. RowsInit => TableInit
  BY DEF RowsInit
<1>2. RowsIInv /\ [RowsNext]_rowVars => [TableNext]_tableVars
  BY StepIsCall DEF RowsIInv
<1> QED BY <1>1, <1>2, RowsInvariance, PTL DEF RowsSpec, CallsAreAtomic, TableSpec

\* On SQLite an ended session's heartbeat is its end, however late a heartbeat
\* thread wakes up.
THEOREM LateHeartbeats ==
    ASSUME Backend = "sqlite" PROVE RowsSpec => []HeartbeatNotPastEnd
BY AtomicCalls, TableInvariance, PTL DEF CallsAreAtomic

\* On SQLite a session ends once, whoever else tries to end it.
THEOREM SessionsEndOnce ==
    ASSUME Backend = "sqlite" PROVE RowsSpec => EndsOnce
<1>1. DatedInPast /\ [TableNext]_tableVars =>
        [\A s \in Sessions : row[s].status \in Terminal =>
            row'[s] = row[s] \/ (row[s].status = "empty" /\ row'[s] = NoRow)]_tableVars
  <2> SUFFICES ASSUME DatedInPast, [TableNext]_tableVars, NEW s \in Sessions,
                      row[s].status \in Terminal
               PROVE  row'[s] = row[s] \/ (row[s].status = "empty" /\ row'[s] = NoRow)
    OBVIOUS
  <2>1. row[s].status \notin {"none", "active"}
    BY DEF Terminal
  <2> QED BY <2>1, CallOnRow
<1> QED BY <1>1, AtomicCalls, TableInvariance, PTL DEF CallsAreAtomic, TableSpec, EndsOnce

\* On SQLite only sessions that have expired at that very instant are reconciled,
\* and only the eventless ones become "empty".
THEOREM OnlyExpiredReconciled ==
    ASSUME Backend = "sqlite" PROVE RowsSpec => ReconciledRightly
<1>1. DatedInPast /\ [TableNext]_tableVars =>
        [\A s \in Sessions :
          row[s].status = "active" /\ row'[s].status \in {"stale", "empty"} =>
              /\ row[s].heartbeat + StaleAfter < now
              /\ row'[s].status = "empty" <=> lastEvent[s] = 0]_tableVars
  <2> SUFFICES ASSUME DatedInPast, [TableNext]_tableVars, NEW s \in Sessions,
                      row[s].status = "active", row'[s].status \in {"stale", "empty"}
               PROVE  /\ row[s].heartbeat + StaleAfter < now
                      /\ row'[s].status = "empty" <=> lastEvent[s] = 0
    OBVIOUS
  <2>1. row'[s] # row[s] /\ row'[s].status \notin {"active", "closed", "failed"}
    OBVIOUS
  <2> QED BY <2>1, CallOnRow
<1> QED BY <1>1, AtomicCalls, TableInvariance, PTL DEF CallsAreAtomic, TableSpec, ReconciledRightly

\* On either backend no race brings an ended session back to life: neither a
\* heartbeat that read the row while it was active, nor a second close, nor the
\* id of a session that was deleted.
THEOREM EndedStaysEnded == RowsSpec => NeverResurrected
<1>1. RowsIInv /\ [RowsNext]_rowVars =>
        [\A s \in Sessions : row[s].status \in Terminal => row'[s].status # "active"]_tableVars
  <2> SUFFICES ASSUME RowsIInv, [RowsNext]_rowVars, NEW s \in Sessions, row[s].status \in Terminal
               PROVE  row'[s].status # "active"
    OBVIOUS
  <2> QED BY RowFate DEF RowsIInv, Exists, Terminal, NoRow
<1> QED BY <1>1, RowsInvariance, PTL DEF RowsSpec, NeverResurrected

=============================================================================
