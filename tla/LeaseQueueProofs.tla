-------------------------- MODULE LeaseQueueProofs --------------------------
(***************************************************************************)
(* What the queue guarantees, most of it on SQLite alone, for every number *)
(* of workers and items, every max_attempts and every lease_ttl_seconds.   *)
(***************************************************************************)
EXTENDS LeaseQueue, SequenceTheorems, FiniteSetTheorems, TLAPS

-----------------------------------------------------------------------------
(* Lemmas about rows, tallies and lease records.                           *)

LEMMA NoRowType == NoItem \in ItemRow
BY ItemsConstantsOK DEF NoItem, ItemRow

LEMMA NoTransactionType == NoWork \in Work
<1>1. [q \in Items |-> NoItem] \in [Items -> ItemRow]
  BY NoRowType
<1> QED BY <1>1 DEF NoWork, Work

LEMMA UnleasedType ==
    ASSUME NEW r \in ItemRow, NEW state \in {"queued", "failed"}
    PROVE  Unleased(r, state) \in ItemRow
BY ItemsConstantsOK DEF Unleased, ItemRow

LEMMA RecoveredType ==
    ASSUME NEW r \in ItemRow, NEW seen \in ItemRow
    PROVE  Recovered(r, seen) \in ItemRow
BY UnleasedType DEF Recovered

LEMMA AfterRecoveryType ==
    ASSUME item \in [Items -> ItemRow], NEW E, NEW seen \in [Items -> ItemRow]
    PROVE  AfterRecovery(E, seen) \in [Items -> ItemRow]
BY RecoveredType DEF AfterRecovery

LEMMA OneType == \A b \in BOOLEAN : One(b) \in 0..1
BY DEF One

LEMMA ToldType ==
    ASSUME NEW t \in Tally, NEW e \in 0..1, NEW f \in 0..1, NEW r \in 0..1, NEW c \in 0..1
    PROVE  Told(t, e, f, r, c) \in Tally
BY DEF Told, Tally

LEMMA RecoveryLoggedType ==
    ASSUME log \in [Items -> Tally], NEW E, NEW seen \in [Items -> ItemRow]
    PROVE  RecoveryLogged(E, seen) \in [Items -> Tally]
<1> SUFFICES ASSUME NEW q \in Items
             PROVE  Told(log[q], 1, 0, One(seen[q].attempts < MaxAttempts), 0) \in Tally
  BY DEF RecoveryLogged
<1>1. One(seen[q].attempts < MaxAttempts) \in 0..1
  BY DEF One
<1> QED BY <1>1, ToldType

\* Releasing a lease record changes neither how many there are nor whose.
LEMMA ReleaseType ==
    ASSUME NEW ls \in Seq(Lease), NEW n \in Nat
    PROVE  LET after == [ls EXCEPT ![n].state = "released"]
           IN  /\ after \in Seq(Lease)
               /\ Len(after) = Len(ls)
<1> DEFINE after == [ls EXCEPT ![n].state = "released"]
<1>1. CASE n \in 1..Len(ls)
  <2>1. ls[n] \in Lease
    BY <1>1, ElementOfSeq
  <2>2. [ls[n] EXCEPT !.state = "released"] \in Lease
    BY <2>1 DEF Lease
  <2>3. after = [ls EXCEPT ![n] = [ls[n] EXCEPT !.state = "released"]]
    OBVIOUS
  <2> QED BY <1>1, <2>2, <2>3, ExceptSeq
<1>2. CASE n \notin 1..Len(ls)
  <2>1. DOMAIN ls = 1..Len(ls) /\ ls = [i \in DOMAIN ls |-> ls[i]]
    BY LenProperties
  <2>2. after = ls
    BY <1>2, <2>1
  <2> QED BY <2>2
<1> QED BY <1>1, <1>2

-----------------------------------------------------------------------------
(* Type correctness.                                                       *)

LEMMA InitType == QueueInit => QueueTypeOK
<1> SUFFICES ASSUME QueueInit PROVE QueueTypeOK
  OBVIOUS
<1>1. << >> \in Seq(Items) /\ << >> \in Seq(Lease)
  BY EmptySeq
<1>2. [expired |-> 0, failed |-> 0, requeued |-> 0, completed |-> 0] \in Tally
  BY DEF Tally
<1> QED BY <1>1, <1>2, NoRowType, NoTransactionType DEF QueueInit, ItemsInit, QueueTypeOK

LEMMA BeginType ==
    ASSUME QueueTypeOK, NEW w \in Workers,
           NEW op \in {"enqueue", "sweep", "claim", "renew", "complete", "fail"},
           NEW on \in SUBSET Items, NEW lease \in Nat, NEW again \in BOOLEAN,
           BeginWork(w, op, on, lease, again)
    PROVE  QueueTypeOK'
<1>1. [op |-> op, on |-> on, lease |-> lease, again |-> again, seen |-> item] \in Work
  BY DEF QueueTypeOK, Work
<1> QED BY <1>1 DEF BeginWork, QueueTypeOK

LEMMA EndType ==
    ASSUME QueueTypeOK, NEW w \in Workers, End(w)
    PROVE  /\ work' \in [Workers -> Work]
           /\ queueLock' \in Workers \cup {NoWorker}
BY NoTransactionType DEF End, QueueTypeOK

LEMMA RollbackType ==
    ASSUME QueueTypeOK, NEW w \in Workers, RollbackWork(w)
    PROVE  QueueTypeOK'
BY EndType DEF RollbackWork, QueueTypeOK

LEMMA TransactionType ==
    ASSUME QueueTypeOK, NEW w \in Workers
    PROVE  /\ work[w].on \subseteq Items /\ work[w].lease \in Nat
           /\ work[w].again \in BOOLEAN /\ work[w].seen \in [Items -> ItemRow]
BY DEF QueueTypeOK, Work

LEMMA LeaseType ==
    ASSUME QueueTypeOK, NEW q \in Items, NEW n \in DOMAIN leases[q]
    PROVE  n \in Nat
BY LenProperties DEF QueueTypeOK

LEMMA ReadsType ==
    ASSUME QueueTypeOK, NEW w \in Workers,
           \/ \E q \in Items : EnqueueRead(w, q)
           \/ Polls(w)
           \/ Answers(w)
    PROVE  QueueTypeOK'
<1>1. ASSUME NEW q \in Items, EnqueueRead(w, q) PROVE QueueTypeOK'
  BY <1>1, BeginType DEF EnqueueRead
<1>2. ASSUME NEW scope \in Scopes, SweepRead(w, scope) PROVE QueueTypeOK'
  BY <1>2, BeginType DEF SweepRead
<1>3. ASSUME NEW scope \in Scopes, ClaimRead(w, scope) PROVE QueueTypeOK'
  <2>1. Oldest(Found(scope)) \subseteq Items
    BY ItemsConstantsOK DEF Oldest, Found, Claimable
  <2> QED BY <1>3, <2>1, BeginType DEF ClaimRead
<1>4. ASSUME NEW q \in Items, NEW n \in DOMAIN leases[q],
             RenewRead(w, q, n) \/ CompleteRead(w, q, n)
      PROVE  QueueTypeOK'
  BY <1>4, BeginType, LeaseType DEF RenewRead, CompleteRead
<1>5. ASSUME NEW q \in Items, NEW n \in DOMAIN leases[q], NEW requeue \in BOOLEAN,
             FailRead(w, q, n, requeue)
      PROVE  QueueTypeOK'
  <2>1. (requeue /\ item[q].attempts < MaxAttempts) \in BOOLEAN
    OBVIOUS
  <2> QED BY <1>5, <2>1, BeginType, LeaseType DEF FailRead
<1> QED BY <1>1, <1>2, <1>3, <1>4, <1>5 DEF Polls, Answers

LEMMA FinishesType ==
    ASSUME QueueTypeOK, NEW w \in Workers, Finishes(w)
    PROVE  QueueTypeOK'
<1>1. CASE Enqueue(w)
  <2>1. PICK q \in work[w].on : item' = [item EXCEPT ![q] = [NoItem EXCEPT !.state = "queued"]]
                              /\ order' = Append(order, q)
    BY <1>1 DEF Enqueue
  <2>2. q \in Items /\ [NoItem EXCEPT !.state = "queued"] \in ItemRow
    BY TransactionType, ItemsConstantsOK DEF NoItem, ItemRow
  <2>3. item' \in [Items -> ItemRow] /\ order' \in Seq(Items)
    BY <2>1, <2>2, AppendProperties DEF QueueTypeOK
  <2> QED BY <1>1, <2>3, EndType DEF Enqueue, QueueTypeOK
<1>2. CASE EnqueueLoses(w) \/ ClaimLoses(w)
  BY <1>2, RollbackType DEF EnqueueLoses, ClaimLoses
<1>3. CASE Sweep(w)
  BY <1>3, TransactionType, AfterRecoveryType, RecoveryLoggedType, EndType DEF Sweep, QueueTypeOK
<1>4. CASE Claim(w)
  <2>1. PICK q \in work[w].on :
           /\ leases' = [leases EXCEPT ![q] = Append(@, [worker |-> w, state |-> "active"])]
           /\ item' = [AfterRecovery(Overdue(work[w].seen), work[w].seen) EXCEPT ![q] =
                         Granted(q, work[w].seen[q].attempts)]
    BY <1>4 DEF Claim
  <2>2. q \in Items /\ work[w].seen[q] \in ItemRow /\ leases[q] \in Seq(Lease)
    BY TransactionType DEF QueueTypeOK
  <2>3. Len(leases[q]) \in Nat /\ [worker |-> w, state |-> "active"] \in Lease
    BY <2>2, LenProperties DEF Lease
  <2>4. Granted(q, work[w].seen[q].attempts) \in ItemRow
    BY <2>2, <2>3, ItemsConstantsOK, SMTT(30) DEF Granted, ItemRow
  <2>5. AfterRecovery(Overdue(work[w].seen), work[w].seen) \in [Items -> ItemRow]
    BY TransactionType, AfterRecoveryType DEF QueueTypeOK
  <2>6. item' \in [Items -> ItemRow]
    BY <2>1, <2>2, <2>4, <2>5
  <2>7. leases' \in [Items -> Seq(Lease)]
    BY <2>1, <2>2, <2>3, AppendProperties DEF QueueTypeOK
  <2>8. log' \in [Items -> Tally] /\ order' = order
    BY <1>4, TransactionType, RecoveryLoggedType DEF Claim, QueueTypeOK
  <2>9. End(w)
    BY <1>4 DEF Claim
  <2> QED BY <2>6, <2>7, <2>8, <2>9, EndType DEF QueueTypeOK
<1>5. CASE Renew(w)
  <2>1. PICK q \in work[w].on : item' = [item EXCEPT ![q].left = TTL]
    BY <1>5 DEF Renew
  <2>2. q \in Items /\ item[q] \in ItemRow
    BY TransactionType DEF QueueTypeOK
  <2>3. [item[q] EXCEPT !.left = TTL] \in ItemRow
    BY <2>2, ItemsConstantsOK DEF ItemRow
  <2>4. item' \in [Items -> ItemRow]
    BY <2>1, <2>2, <2>3 DEF QueueTypeOK
  <2> QED BY <1>5, <2>4, EndType DEF Renew, QueueTypeOK
<1>6. CASE Complete(w)
  <2>1. PICK q \in work[w].on :
           /\ item' = [item EXCEPT ![q].state = "completed"]
           /\ leases' = [leases EXCEPT ![q][work[w].lease].state = "released"]
           /\ log' = [log EXCEPT ![q] = Told(@, 0, 0, 0, 1)]
    BY <1>6 DEF Complete
  <2>2. q \in Items /\ item[q] \in ItemRow /\ leases[q] \in Seq(Lease) /\ log[q] \in Tally
    BY TransactionType DEF QueueTypeOK
  <2>3. [item[q] EXCEPT !.state = "completed"] \in ItemRow
    BY <2>2 DEF ItemRow
  <2>4. [leases[q] EXCEPT ![work[w].lease].state = "released"] \in Seq(Lease)
    BY <2>2, TransactionType, ReleaseType
  <2>5. Told(log[q], 0, 0, 0, 1) \in Tally
    BY <2>2, ToldType
  <2>6. /\ item' \in [Items -> ItemRow] /\ leases' \in [Items -> Seq(Lease)]
        /\ log' \in [Items -> Tally]
    BY <2>1, <2>2, <2>3, <2>4, <2>5 DEF QueueTypeOK
  <2> QED BY <1>6, <2>6, EndType DEF Complete, QueueTypeOK
<1>7. CASE Fail(w)
  <2>1. PICK q \in work[w].on :
           /\ item' = [item EXCEPT ![q] =
                         Unleased(@, IF work[w].again THEN "queued" ELSE "failed")]
           /\ leases' = [leases EXCEPT ![q][work[w].lease].state = "released"]
           /\ log' = [log EXCEPT ![q] = Told(@, 0, 1, One(work[w].again), 0)]
    BY <1>7 DEF Fail
  <2>2. q \in Items /\ item[q] \in ItemRow /\ leases[q] \in Seq(Lease) /\ log[q] \in Tally
    BY TransactionType DEF QueueTypeOK
  <2>3. Unleased(item[q], IF work[w].again THEN "queued" ELSE "failed") \in ItemRow
    BY <2>2, UnleasedType
  <2>4. [leases[q] EXCEPT ![work[w].lease].state = "released"] \in Seq(Lease)
    BY <2>2, TransactionType, ReleaseType
  <2>5. Told(log[q], 0, 1, One(work[w].again), 0) \in Tally
    BY <2>2, TransactionType, OneType, ToldType
  <2>6. /\ item' \in [Items -> ItemRow] /\ leases' \in [Items -> Seq(Lease)]
        /\ log' \in [Items -> Tally]
    BY <2>1, <2>2, <2>3, <2>4, <2>5 DEF QueueTypeOK
  <2> QED BY <1>7, <2>6, EndType DEF Fail, QueueTypeOK
<1> QED BY <1>1, <1>2, <1>3, <1>4, <1>5, <1>6, <1>7 DEF Finishes, Enqueues, Claims

LEMMA TickType == QueueTypeOK /\ LeaseTick => QueueTypeOK'
<1> SUFFICES ASSUME QueueTypeOK, LeaseTick, NEW q \in Items, item[q].left >= 0
             PROVE  [item[q] EXCEPT !.left = @ - 1] \in ItemRow
  BY DEF LeaseTick, LeasesAge, QueueTypeOK
<1>1. item[q] \in ItemRow
  BY DEF QueueTypeOK
<1>2. item[q].left - 1 \in -1..TTL
  BY <1>1, ItemsConstantsOK DEF ItemRow
<1> QED BY <1>1, <1>2 DEF ItemRow

LEMMA StepType == QueueTypeOK /\ [QueueNext]_queueVars => QueueTypeOK'
<1> SUFFICES ASSUME QueueTypeOK, [QueueNext]_queueVars PROVE QueueTypeOK'
  OBVIOUS
<1>1. CASE UNCHANGED queueVars
  BY <1>1 DEF queueVars, QueueTypeOK
<1>2. ASSUME NEW w \in Workers, CutShort(w) PROVE QueueTypeOK'
  BY <1>2, RollbackType DEF CutShort
<1> QED BY <1>1, <1>2, TickType, ReadsType, FinishesType DEF QueueNext, Idle, WorkerStep

\* Every variable keeps its type on both backends.
THEOREM QueueTypeCorrect == QueueSpec => []QueueTypeOK
<1> QED BY InitType, StepType, PTL DEF QueueSpec

-----------------------------------------------------------------------------
(* Lease records and their answers, on either backend.                     *)

\* What RecordsOpen says of one transaction and of one row.
Pending(w) ==
    \A q \in work[w].on :
        work[w].op \in {"renew", "complete", "fail"} =>
            /\ work[w].lease \in DOMAIN leases[q] \ Answered(q)
            /\ leases[q][work[w].lease].worker = w

Named(q) == item[q].state = "leased" => item[q].lease \in DOMAIN leases[q] \ Answered(q)

LEMMA RecordsAreOpen ==
    RecordsOpen <=> (\A w \in Workers : Pending(w)) /\ (\A q \in Items : Named(q))
BY DEF RecordsOpen, Pending, Named

\* The answers to one item are finitely many.
LEMMA AnsweredFinite ==
    ASSUME QueueTypeOK, NEW q \in Items
    PROVE  /\ DOMAIN leases[q] = 1..Len(leases[q]) /\ Len(leases[q]) \in Nat
           /\ IsFiniteSet(Answered(q))
<1>1. DOMAIN leases[q] = 1..Len(leases[q]) /\ Len(leases[q]) \in Nat
  BY LenProperties DEF QueueTypeOK
<1>2. IsFiniteSet(1..Len(leases[q]))
  BY <1>1, FS_Interval
<1>3. Answered(q) \subseteq 1..Len(leases[q])
  BY <1>1 DEF Answered
<1> QED BY <1>1, <1>2, <1>3, FS_Subset

\* A step that leaves the records alone leases no item to anybody.
LEMMA RecordsKept ==
    ASSUME RecordsOpen, AnsweredOnce, UNCHANGED leases,
           \A w \in Workers : Pending(w)',
           \A q \in Items : /\ item'[q].state = "leased" =>
                                item[q].state = "leased" /\ item'[q].lease = item[q].lease
                            /\ log'[q].completed = log[q].completed
                            /\ log'[q].failed = log[q].failed
    PROVE  RecordsOpen' /\ AnsweredOnce'
<1>1. \A q \in Items : Answered(q)' = Answered(q)
  BY DEF Answered
<1>2. \A q \in Items : Named(q)'
  BY <1>1 DEF RecordsOpen, Named
<1>3. AnsweredOnce'
  BY <1>1 DEF AnsweredOnce
<1> QED BY <1>2, <1>3 DEF RecordsOpen, Named, Pending

LEMMA IdlePending ==
    ASSUME QueueTypeOK, NEW w \in Workers, End(w), UNCHANGED leases,
           \A v \in Workers : Pending(v)
    PROVE  \A v \in Workers : Pending(v)'
<1>1. work'[w] = NoWork /\ \A v \in Workers \ {w} : work'[v] = work[v]
  BY DEF End, QueueTypeOK
<1>2. NoWork.on = {}
  BY DEF NoWork
<1> QED BY <1>1, <1>2 DEF Pending, Answered

\* Who may answer a lease holds an open record of it.
LEMMA HoldersPending ==
    ASSUME QueueTypeOK, RecordsOpen, NEW w \in Workers, NEW op, NEW on, NEW lease, NEW again,
           BeginWork(w, op, on, lease, again),
           op \in {"renew", "complete", "fail"} =>
              \E q \in Items : on = {q} /\ Holds(w, q, lease)
    PROVE  \A v \in Workers : Pending(v)'
<1>1. /\ UNCHANGED leases
      /\ work'[w].op = op /\ work'[w].on = on /\ work'[w].lease = lease
      /\ \A v \in Workers \ {w} : work'[v] = work[v]
  BY DEF BeginWork, QueueTypeOK
<1>2. \A q : Answered(q)' = Answered(q)
  BY <1>1 DEF Answered
<1>3. ASSUME NEW v \in Workers, v # w PROVE Pending(v)'
  BY <1>1, <1>2, <1>3 DEF RecordsOpen, Pending
<1>4. Pending(w)'
  BY <1>1, <1>2 DEF RecordsOpen, Pending, Holds
<1> QED BY <1>3, <1>4

LEMMA ReadsPending ==
    ASSUME QueueTypeOK, RecordsOpen, NEW w \in Workers,
           (\E q \in Items : EnqueueRead(w, q)) \/ Polls(w) \/ Answers(w)
    PROVE  \A v \in Workers : Pending(v)'
<1>1. ASSUME NEW q \in Items, EnqueueRead(w, q) PROVE \A v \in Workers : Pending(v)'
  BY <1>1, HoldersPending DEF EnqueueRead
<1>2. ASSUME NEW scope \in Scopes, SweepRead(w, scope) PROVE \A v \in Workers : Pending(v)'
  BY <1>2, HoldersPending DEF SweepRead
<1>3. ASSUME NEW scope \in Scopes, ClaimRead(w, scope) PROVE \A v \in Workers : Pending(v)'
  BY <1>3, HoldersPending DEF ClaimRead
<1>4. ASSUME NEW q \in Items, NEW n, RenewRead(w, q, n) \/ CompleteRead(w, q, n)
      PROVE  \A v \in Workers : Pending(v)'
  BY <1>4, HoldersPending DEF RenewRead, CompleteRead
<1>5. ASSUME NEW q \in Items, NEW n, NEW requeue \in BOOLEAN, FailRead(w, q, n, requeue)
      PROVE  \A v \in Workers : Pending(v)'
  BY <1>5, HoldersPending DEF FailRead
<1> QED BY <1>1, <1>2, <1>3, <1>4, <1>5 DEF Polls, Answers

\* Taking leases back answers none.
LEMMA RecoveryUnanswered ==
    ASSUME NEW E, NEW seen, NEW q \in Items
    PROVE  /\ AfterRecovery(E, seen)[q].state = "leased" => AfterRecovery(E, seen)[q] = item[q]
           /\ RecoveryLogged(E, seen)[q].completed = log[q].completed + 0
                \/ RecoveryLogged(E, seen)[q].completed = log[q].completed
           /\ RecoveryLogged(E, seen)[q].failed = log[q].failed + 0
                \/ RecoveryLogged(E, seen)[q].failed = log[q].failed
BY DEF AfterRecovery, Recovered, Unleased, RecoveryLogged, Told

LEMMA ClaimRecords ==
    ASSUME QueueTypeOK, RecordsOpen, AnsweredOnce, NEW w \in Workers, Claim(w)
    PROVE  RecordsOpen' /\ AnsweredOnce'
<1> DEFINE seen == work[w].seen
           rows == AfterRecovery(Overdue(seen), seen)
<1>1. PICK p \in work[w].on :
         /\ leases' = [leases EXCEPT ![p] = Append(@, [worker |-> w, state |-> "active"])]
         /\ item' = [rows EXCEPT ![p] =
                       Granted(p, seen[p].attempts)]
         /\ log' = RecoveryLogged(Overdue(seen), seen)
         /\ End(w)
  BY DEF Claim
<1>2. p \in Items
  BY TransactionType
<1>3. /\ DOMAIN leases'[p] = 1..(Len(leases[p]) + 1)
      /\ \A n \in 1..Len(leases[p]) : leases'[p][n] = leases[p][n]
      /\ leases'[p][Len(leases[p]) + 1].state = "active"
      /\ \A q \in Items \ {p} : leases'[q] = leases[q]
  <2>1. leases'[p] = Append(leases[p], [worker |-> w, state |-> "active"])
    BY <1>1, <1>2 DEF QueueTypeOK
  <2>2. [worker |-> w, state |-> "active"] \in Lease /\ leases[p] \in Seq(Lease)
    BY <1>2 DEF QueueTypeOK, Lease
  <2> QED BY <1>1, <2>1, <2>2, AppendProperties DEF QueueTypeOK
<1>4. ASSUME NEW q \in Items
      PROVE  /\ Answered(q)' = Answered(q)
             /\ DOMAIN leases[q] \subseteq DOMAIN leases'[q]
             /\ \A n \in DOMAIN leases[q] : leases'[q][n] = leases[q][n]
  BY <1>3, AnsweredFinite DEF Answered
<1>5. ASSUME NEW v \in Workers PROVE Pending(v)'
  <2>1. work'[w] = NoWork /\ (v # w => work'[v] = work[v]) /\ NoWork.on = {}
    BY <1>1 DEF End, QueueTypeOK, NoWork
  <2>2. work[v].on \subseteq Items
    BY TransactionType
  <2> QED BY <1>4, <2>1, <2>2 DEF RecordsOpen, Pending
<1>6. ASSUME NEW q \in Items PROVE Named(q)'
  <2>1. CASE q = p
    <3>1. item'[p].lease = Len(leases[p]) + 1
      BY <1>1, <1>2 DEF AfterRecovery, Granted
    <3>2. Len(leases[p]) + 1 \in DOMAIN leases'[p]
      BY <1>2, <1>3, AnsweredFinite
    <3> QED BY <1>3, <2>1, <3>1, <3>2 DEF Named, Answered
  <2>2. CASE q # p
    <3>1. item'[q] = rows[q]
      BY <1>1, <2>2 DEF AfterRecovery
    <3> QED BY <1>4, <3>1, RecoveryUnanswered DEF RecordsOpen, Named
  <2> QED BY <2>1, <2>2
<1>7. ASSUME NEW q \in Items
      PROVE  log'[q].completed = log[q].completed /\ log'[q].failed = log[q].failed
  <2>1. log[q].completed \in Nat /\ log[q].failed \in Nat
    BY DEF QueueTypeOK, Tally
  <2> QED BY <1>1, <2>1, RecoveryUnanswered
<1>8. AnsweredOnce'
  BY <1>4, <1>7 DEF AnsweredOnce
<1> QED BY <1>5, <1>6, <1>8, RecordsAreOpen DEF RecordsOpen, Pending, Named

\* An answer takes one lease, which nobody else can answer any more.
LEMMA AnswerRecords ==
    ASSUME QueueTypeOK, RecordsOpen, AnsweredOnce, NEW w \in Workers, Complete(w) \/ Fail(w)
    PROVE  RecordsOpen' /\ AnsweredOnce'
<1> DEFINE n == work[w].lease
<1>1. PICK p \in work[w].on :
         /\ work[w].op \in {"complete", "fail"}
         /\ leases' = [leases EXCEPT ![p][n].state = "released"]
         /\ \/ /\ item' = [item EXCEPT ![p].state = "completed"]
               /\ log' = [log EXCEPT ![p] = Told(@, 0, 0, 0, 1)]
            \/ /\ item' = [item EXCEPT ![p] =
                             Unleased(@, IF work[w].again THEN "queued" ELSE "failed")]
               /\ log' = [log EXCEPT ![p] = Told(@, 0, 1, One(work[w].again), 0)]
         /\ End(w)
  BY DEF Complete, Fail
<1>2. p \in Items
  BY <1>1, TransactionType
<1>3. n \in DOMAIN leases[p] \ Answered(p) /\ leases[p][n].worker = w
  BY <1>1 DEF RecordsOpen
<1>4. /\ DOMAIN leases'[p] = DOMAIN leases[p]
      /\ \A m \in DOMAIN leases[p] \ {n} : leases'[p][m] = leases[p][m]
      /\ leases'[p][n].state = "released"
      /\ \A q \in Items \ {p} : leases'[q] = leases[q]
  <2>1. leases'[p] = [leases[p] EXCEPT ![n].state = "released"]
    BY <1>1, <1>2 DEF QueueTypeOK
  <2>2. leases[p][n] \in Lease
    BY <1>2, <1>3, ElementOfSeq, AnsweredFinite DEF QueueTypeOK
  <2> QED BY <1>1, <1>2, <1>3, <2>1, <2>2 DEF QueueTypeOK, Lease
<1>5. Answered(p)' = Answered(p) \cup {n} /\ \A q \in Items \ {p} : Answered(q)' = Answered(q)
  BY <1>3, <1>4 DEF Answered
<1>6. ASSUME NEW v \in Workers PROVE Pending(v)'
  <2>1. work'[w] = NoWork /\ (v # w => work'[v] = work[v]) /\ NoWork.on = {}
    BY <1>1 DEF End, QueueTypeOK, NoWork
  <2>2. work[v].on \subseteq Items
    BY TransactionType
  <2> SUFFICES ASSUME v # w, NEW q \in work[v].on, work[v].op \in {"renew", "complete", "fail"}
               PROVE  /\ work[v].lease \in DOMAIN leases'[q] \ Answered(q)'
                      /\ leases'[q][work[v].lease].worker = v
    BY <2>1 DEF Pending
  <2>3. work[v].lease \in DOMAIN leases[q] \ Answered(q) /\ leases[q][work[v].lease].worker = v
    BY DEF RecordsOpen
  <2>4. q = p => work[v].lease # n
    BY <1>3, <2>3
  <2> QED BY <1>4, <1>5, <2>2, <2>3, <2>4
<1>7. ASSUME NEW q \in Items PROVE Named(q)'
  <2>1. item'[p].state # "leased"
    BY <1>1, <1>2 DEF QueueTypeOK, Unleased, ItemRow
  <2>2. q # p => item'[q] = item[q]
    BY <1>1 DEF QueueTypeOK
  <2> QED BY <1>4, <1>5, <2>1, <2>2 DEF RecordsOpen, Named
<1>8. ASSUME NEW q \in Items
      PROVE  log'[q].completed + log'[q].failed = Cardinality(Answered(q)')
  <2>1. log[q].completed \in Nat /\ log[q].failed \in Nat
    BY DEF QueueTypeOK, Tally
  <2>2. log[q].completed + log[q].failed = Cardinality(Answered(q))
    BY DEF AnsweredOnce
  <2>3. CASE q = p
    <3>1. log'[p].completed + log'[p].failed = log[p].completed + log[p].failed + 1
      <4>1. \/ log'[p] = Told(log[p], 0, 0, 0, 1)
            \/ log'[p] = Told(log[p], 0, 1, One(work[w].again), 0)
        BY <1>1, <1>2 DEF QueueTypeOK
      <4> QED BY <2>1, <2>3, <4>1 DEF Told
    <3>2. Cardinality(Answered(p)') = Cardinality(Answered(p)) + 1
      BY <1>2, <1>3, <1>5, AnsweredFinite, FS_AddElement, ZenonT(30)
    <3> QED BY <2>2, <2>3, <3>1, <3>2
  <2>4. CASE q # p
    <3>1. log'[q] = log[q]
      BY <1>1, <2>4 DEF QueueTypeOK
    <3> QED BY <1>5, <2>2, <2>4, <3>1
  <2> QED BY <2>3, <2>4
<1> QED BY <1>6, <1>7, <1>8 DEF RecordsOpen, Pending, Named, AnsweredOnce

LEMMA RecordsStep ==
    QueueTypeOK /\ RecordsOpen /\ AnsweredOnce /\ [QueueNext]_queueVars
      => RecordsOpen' /\ AnsweredOnce'
<1> SUFFICES ASSUME QueueTypeOK, RecordsOpen, AnsweredOnce, [QueueNext]_queueVars
             PROVE  RecordsOpen' /\ AnsweredOnce'
  OBVIOUS
<1>1. CASE Idle \/ UNCHANGED queueVars
  BY <1>1 DEF Idle, queueVars, RecordsOpen, AnsweredOnce, Answered
<1>2. CASE LeaseTick
  <2>1. UNCHANGED <<leases, log, work>>
    BY <1>2 DEF LeaseTick, LeasesAge
  <2>2. \A q \in Items : item'[q].state = item[q].state /\ item'[q].lease = item[q].lease
    BY <1>2, TickType DEF LeaseTick, LeasesAge, QueueTypeOK, ItemRow
  <2>3. \A w \in Workers : Pending(w)'
    BY <2>1 DEF RecordsOpen, Pending, Answered
  <2> QED BY <2>1, <2>2, <2>3, RecordsKept
<1>3. ASSUME NEW w \in Workers,
             (\E q \in Items : EnqueueRead(w, q)) \/ Polls(w) \/ Answers(w)
      PROVE  RecordsOpen' /\ AnsweredOnce'
  <2>1. UNCHANGED <<item, leases, log>>
    BY <1>3 DEF EnqueueRead, Polls, Answers, SweepRead, ClaimRead, RenewRead, CompleteRead,
                FailRead, BeginWork
  <2> QED BY <1>3, <2>1, ReadsPending, RecordsKept
<1>4. ASSUME NEW w \in Workers, Enqueue(w) PROVE RecordsOpen' /\ AnsweredOnce'
  <2>1. /\ UNCHANGED <<leases, log>> /\ End(w)
        /\ \E q \in work[w].on : item' = [item EXCEPT ![q] = [NoItem EXCEPT !.state = "queued"]]
    BY <1>4 DEF Enqueue
  <2>2. \A q \in Items : item'[q] = item[q] \/ item'[q].state = "queued"
    BY <2>1 DEF QueueTypeOK, NoItem
  <2> QED BY <2>1, <2>2, IdlePending, RecordsAreOpen, RecordsKept
<1>5. ASSUME NEW w \in Workers, Sweep(w) PROVE RecordsOpen' /\ AnsweredOnce'
  <2>1. /\ UNCHANGED leases /\ End(w)
        /\ item' = AfterRecovery(Overdue(work[w].seen), work[w].seen) /\ log' = RecoveryLogged(Overdue(work[w].seen), work[w].seen)
    BY <1>5 DEF Sweep
  <2>2. \A q \in Items : log[q].completed \in Nat /\ log[q].failed \in Nat
    BY DEF QueueTypeOK, Tally
  <2> QED BY <2>1, <2>2, RecoveryUnanswered, IdlePending, RecordsAreOpen, RecordsKept
<1>6. ASSUME NEW w \in Workers, Renew(w) PROVE RecordsOpen' /\ AnsweredOnce'
  <2>1. UNCHANGED <<leases, log>> /\ End(w)
    BY <1>6 DEF Renew
  <2>2. \A q \in Items : item'[q].state = item[q].state /\ item'[q].lease = item[q].lease
    BY <1>6 DEF Renew, QueueTypeOK, ItemRow
  <2> QED BY <2>1, <2>2, IdlePending, RecordsAreOpen, RecordsKept
<1>7. ASSUME NEW w \in Workers, CutShort(w) \/ EnqueueLoses(w) \/ ClaimLoses(w)
      PROVE  RecordsOpen' /\ AnsweredOnce'
  <2>1. UNCHANGED <<item, leases, log>> /\ End(w)
    BY <1>7 DEF CutShort, EnqueueLoses, ClaimLoses, RollbackWork
  <2> QED BY <2>1, IdlePending, RecordsAreOpen, RecordsKept
<1> QED
  BY <1>1, <1>2, <1>3, <1>4, <1>5, <1>6, <1>7, ClaimRecords, AnswerRecords
     DEF QueueNext, WorkerStep, Finishes, Enqueues, Claims

-----------------------------------------------------------------------------
(* The writer lock protects every decision on SQLite.                      *)

LEMMA OthersIdle ==
    ASSUME Backend = "sqlite", LockProtects, NEW w \in Workers, work[w].op # "idle"
    PROVE  \A v \in Workers \ {w} : work[v].op = "idle"
BY DEF LockProtects

LEMMA AllIdle ==
    ASSUME Backend = "sqlite", LockProtects, QueueFree
    PROVE  \A v \in Workers : work[v].op = "idle"
BY QueueWorkersOK DEF LockProtects, QueueFree

LEMMA EndLock ==
    ASSUME QueueTypeOK, Backend = "sqlite", LockProtects,
           NEW w \in Workers, work[w].op # "idle", End(w)
    PROVE  LockProtects'
<1>1. \A v \in Workers : work'[v].op = "idle"
  BY OthersIdle DEF End, QueueTypeOK, NoWork
<1> QED BY <1>1 DEF LockProtects

\* A transaction begins well if its decision is right on the rows it has read.
LEMMA BeginLock ==
    ASSUME QueueTypeOK, Backend = "sqlite", LockProtects,
           NEW w \in Workers, NEW op, NEW on, NEW lease, NEW again,
           BeginWork(w, op, on, lease, again),
           WorkStillDecided(w)'
    PROVE  LockProtects'
<1>1. \A v \in Workers \ {w} : work'[v].op = "idle"
  BY AllIdle DEF BeginWork, QueueTypeOK
<1>2. queueLock' = w /\ work'[w].seen = item' /\ item' = item
  BY DEF BeginWork, QueueTypeOK
<1>3. \A q \in Items : StillAsSeen(item'[q], work'[w].seen[q])
  BY <1>2 DEF StillAsSeen, QueueTypeOK, ItemRow
<1> QED BY <1>1, <1>2, <1>3 DEF LockProtects

LEMMA ReadsLock ==
    ASSUME QueueTypeOK, Backend = "sqlite", LockProtects, NEW w \in Workers,
           \/ \E q \in Items : EnqueueRead(w, q)
           \/ Polls(w)
           \/ Answers(w)
    PROVE  LockProtects'
<1>1. ASSUME NEW q \in Items, EnqueueRead(w, q) PROVE LockProtects'
  <2>1. WorkStillDecided(w)'
    BY <1>1 DEF EnqueueRead, BeginWork, WorkStillDecided, QueueTypeOK
  <2> QED BY <1>1, <2>1, BeginLock DEF EnqueueRead
<1>2. ASSUME NEW scope \in Scopes, SweepRead(w, scope) PROVE LockProtects'
  <2>1. WorkStillDecided(w)'
    BY <1>2 DEF SweepRead, BeginWork, WorkStillDecided, QueueTypeOK
  <2> QED BY <1>2, <2>1, BeginLock DEF SweepRead
<1>3. ASSUME NEW scope \in Scopes, ClaimRead(w, scope) PROVE LockProtects'
  <2>1. PICK q \in Oldest(Found(scope)) : BeginWork(w, "claim", {q}, 0, FALSE)
    BY <1>3 DEF ClaimRead
  <2>2. /\ work'[w].op = "claim" /\ work'[w].on = {q} /\ work'[w].seen = item
        /\ item' = item /\ order' = order
    BY <2>1 DEF BeginWork, QueueTypeOK
  <2>3. q \in Oldest(Claimable(AfterRecovery(Overdue(item), item), scope))'
    BY <2>2 DEF Found, Oldest, Claimable, AfterRecovery, Overdue
  <2>4. WorkStillDecided(w)'
    BY <2>2, <2>3 DEF WorkStillDecided
  <2> QED BY <2>1, <2>4, BeginLock
<1>4. ASSUME NEW q \in Items, NEW n \in DOMAIN leases[q],
             RenewRead(w, q, n) \/ CompleteRead(w, q, n)
      PROVE  LockProtects'
  <2>1. n \in 1..Len(leases[q])
    BY LenProperties DEF QueueTypeOK
  <2>2. WorkStillDecided(w)'
    BY <1>4, <2>1 DEF RenewRead, CompleteRead, Holds, BeginWork, WorkStillDecided, QueueTypeOK
  <2> QED BY <1>4, <2>2, BeginLock DEF RenewRead, CompleteRead
<1>5. ASSUME NEW q \in Items, NEW n \in DOMAIN leases[q], NEW requeue \in BOOLEAN,
             FailRead(w, q, n, requeue)
      PROVE  LockProtects'
  <2>1. n \in 1..Len(leases[q])
    BY LenProperties DEF QueueTypeOK
  <2>2. WorkStillDecided(w)'
    BY <1>5, <2>1 DEF FailRead, Holds, BeginWork, WorkStillDecided, QueueTypeOK
  <2> QED BY <1>5, <2>2, BeginLock DEF FailRead
<1> QED BY <1>1, <1>2, <1>3, <1>4, <1>5 DEF Polls, Answers

\* The clock only brings leases closer to their end.
LEMMA TickRow ==
    ASSUME QueueTypeOK, LeaseTick, NEW q \in Items
    PROVE  StillAsSeen(item'[q], item[q])
<1>1. item[q] \in ItemRow
  BY DEF QueueTypeOK
<1> QED BY <1>1 DEF LeaseTick, LeasesAge, StillAsSeen, ItemRow

\* Nor does it change what a claim may be given.
LEMMA ClaimableKept ==
    ASSUME QueueTypeOK, LeaseTick, NEW E, NEW scope \in SUBSET Items, NEW w \in Workers
    PROVE  Oldest(Claimable(AfterRecovery(E, work[w].seen), scope))'
             = Oldest(Claimable(AfterRecovery(E, work[w].seen), scope))
<1>1. /\ \A q \in Items : item'[q].state = item[q].state /\ item'[q].attempts = item[q].attempts
      /\ work' = work /\ order' = order
  BY TickRow DEF LeaseTick, LeasesAge, StillAsSeen
<1>2. Claimable(AfterRecovery(E, work[w].seen), scope)'
        = Claimable(AfterRecovery(E, work[w].seen), scope)
  BY <1>1 DEF Claimable, AfterRecovery, Recovered, Unleased
<1> QED BY <1>1, <1>2 DEF Oldest

LEMMA TickLock == QueueTypeOK /\ LockProtects /\ LeaseTick => LockProtects'
<1> SUFFICES ASSUME QueueTypeOK, LockProtects, LeaseTick, NEW w \in Workers, work[w].op # "idle"
             PROVE  /\ \A q \in Items : StillAsSeen(item'[q], work[w].seen[q])
                    /\ WorkStillDecided(w)'
  BY DEF LeaseTick, LeasesAge, LockProtects
<1>1. ASSUME NEW q \in Items PROVE StillAsSeen(item'[q], work[w].seen[q])
  <2>1. StillAsSeen(item'[q], item[q]) /\ StillAsSeen(item[q], work[w].seen[q])
    BY TickRow DEF LockProtects
  <2>2. item'[q].left \in Int /\ item[q].left \in Int /\ work[w].seen[q].left \in Int
    BY TickType, TransactionType, SMTT(30) DEF QueueTypeOK, ItemRow
  <2> QED BY <2>1, <2>2 DEF StillAsSeen
<1>2. \A q \in work[w].on : q \in Items /\ StillAsSeen(item'[q], item[q])
  BY TransactionType, TickRow
<1>3. \A E, scope : scope \in SUBSET Items =>
        Oldest(Claimable(AfterRecovery(E, work[w].seen), scope))'
          = Oldest(Claimable(AfterRecovery(E, work[w].seen), scope))
  BY ClaimableKept
<1>4. WorkStillDecided(w)'
  BY <1>2, <1>3, ItemsConstantsOK DEF LeaseTick, LeasesAge, LockProtects, WorkStillDecided, StillAsSeen
<1> QED BY <1>1, <1>4

LEMMA LockStep ==
    ASSUME QueueTypeOK, Backend = "sqlite", LockProtects, [QueueNext]_queueVars
    PROVE  LockProtects'
<1>1. CASE UNCHANGED queueVars
  BY <1>1, SMTT(30) DEF queueVars, LockProtects, WorkStillDecided, Oldest, Claimable, AfterRecovery
<1>2. ASSUME NEW w \in Workers, Finishes(w) \/ CutShort(w) PROVE LockProtects'
  <2>1. work[w].op # "idle" /\ End(w)
    BY <1>2 DEF Finishes, Enqueues, Claims, CutShort, RollbackWork, Enqueue, EnqueueLoses, Sweep, Claim,
                ClaimLoses, Renew, Complete, Fail
  <2> QED BY <2>1, EndLock
<1> QED BY <1>1, <1>2, TickLock, ReadsLock DEF QueueNext, Idle, WorkerStep

-----------------------------------------------------------------------------
(* On SQLite every transaction is one step of WorkQueue.                   *)

\* Only the clock has touched what a transaction read, so what it recovers is
\* what it would recover now.
LEMMA RecoveryAsNow ==
    ASSUME QueueTypeOK, LockProtects, NEW w \in Workers, work[w].op # "idle"
    PROVE  LET seen == work[w].seen
           IN  /\ Overdue(seen) \in SUBSET Overdue(item)
               /\ AfterRecovery(Overdue(seen), seen) = AfterRecovery(Overdue(seen), item)
               /\ RecoveryLogged(Overdue(seen), seen) = RecoveryLogged(Overdue(seen), item)
<1> DEFINE seen == work[w].seen
<1>1. \A q \in Items : StillAsSeen(item[q], seen[q])
  BY DEF LockProtects
<1>2. \A q \in Items : item[q].left \in Int /\ seen[q].left \in Int
  BY TransactionType DEF QueueTypeOK, ItemRow
<1>3. Overdue(seen) \in SUBSET Overdue(item)
  BY <1>1, <1>2 DEF Overdue, LeaseExpired, StillAsSeen
<1>4. \A q \in Items : item[q].attempts = seen[q].attempts
  BY <1>1 DEF StillAsSeen
<1>5. AfterRecovery(Overdue(seen), seen) = AfterRecovery(Overdue(seen), item)
  BY <1>4 DEF AfterRecovery, Recovered
<1>6. RecoveryLogged(Overdue(seen), seen) = RecoveryLogged(Overdue(seen), item)
  BY <1>4 DEF RecoveryLogged
<1> QED BY <1>3, <1>5, <1>6

LEMMA TransactionIsStep ==
    ASSUME QueueTypeOK, LockProtects, NEW w \in Workers, Finishes(w)
    PROVE  ItemsNext \/ UNCHANGED itemVars
<1>1. CASE EnqueueLoses(w) \/ ClaimLoses(w)
  BY <1>1 DEF EnqueueLoses, ClaimLoses, RollbackWork, itemVars
<1>2. CASE Enqueue(w)
  <2>1. PICK q \in work[w].on : Adds(q)
    BY <1>2 DEF Enqueue, Adds
  <2> QED BY <2>1, TransactionType DEF ItemsNext
<1>3. CASE Sweep(w)
  <2>1. TakesBack(Overdue(work[w].seen))
    BY <1>3, RecoveryAsNow DEF Sweep, TakesBack
  <2>2. Overdue(work[w].seen) \in SUBSET Overdue(item)
    BY <1>3, RecoveryAsNow DEF Sweep
  <2> QED BY <2>1, <2>2 DEF ItemsNext
<1>4. CASE Claim(w)
  <2> DEFINE seen == work[w].seen
             E == Overdue(seen)
             rows == AfterRecovery(E, item)
  <2>1. /\ work[w].op = "claim" /\ E \in SUBSET Overdue(item)
        /\ AfterRecovery(E, seen) = rows
        /\ RecoveryLogged(E, seen) = RecoveryLogged(E, item)
    BY <1>4, RecoveryAsNow DEF Claim
  <2>2. PICK q \in work[w].on :
           /\ item' = [rows EXCEPT ![q] = Granted(q, seen[q].attempts)]
           /\ leases' = [leases EXCEPT ![q] = Append(@, [worker |-> w, state |-> "active"])]
           /\ log' = RecoveryLogged(E, item)
           /\ UNCHANGED order
    BY <1>4, <2>1 DEF Claim
  <2>3. PICK scope \in Scopes : q \in Oldest(Claimable(rows, scope))
    BY <2>1 DEF LockProtects, WorkStillDecided
  <2>4. seen[q].attempts = rows[q].attempts
    <3>1. q \in Items /\ StillAsSeen(item[q], seen[q])
      BY <2>1, TransactionType DEF LockProtects
    <3> QED BY <3>1 DEF AfterRecovery, Recovered, Unleased, StillAsSeen
  <2>5. Grants(w, scope, E)
    BY <2>2, <2>3, <2>4 DEF Grants
  <2> QED BY <2>1, <2>5 DEF ItemsNext
<1>5. CASE Renew(w) \/ Complete(w) \/ Fail(w)
  <2>1. \A q \in work[w].on :
           /\ q \in Items /\ item[q].state = "leased" /\ item[q].lease = work[w].lease
           /\ work[w].op = "fail" /\ work[w].again => item[q].attempts < MaxAttempts
    BY <1>5, TransactionType DEF LockProtects, WorkStillDecided, Renew, Complete, Fail
  <2>2. CASE Renew(w)
    <3>1. PICK q \in work[w].on : Renews(q)
      BY <2>1, <2>2 DEF Renew, Renews
    <3> QED BY <2>1, <3>1 DEF ItemsNext
  <2>3. CASE Complete(w)
    <3>1. PICK q \in work[w].on : Completes(q)
      BY <2>1, <2>3 DEF Complete, Completes
    <3> QED BY <2>1, <3>1 DEF ItemsNext
  <2>4. CASE Fail(w)
    <3>1. PICK q \in work[w].on : Fails(q, work[w].again)
      BY <2>1, <2>4 DEF Fail, Fails
    <3> QED BY <2>1, <3>1, TransactionType DEF ItemsNext
  <2> QED BY <1>5, <2>2, <2>3, <2>4
<1> QED BY <1>1, <1>2, <1>3, <1>4, <1>5 DEF Finishes, Enqueues, Claims

LEMMA StepIsStep ==
    ASSUME QueueTypeOK, Backend = "sqlite", LockProtects, [QueueNext]_queueVars
    PROVE  [ItemsNext]_itemVars
<1>1. CASE UNCHANGED queueVars \/ Idle
  BY <1>1 DEF Idle, queueVars, itemVars
<1>2. CASE LeaseTick
  BY <1>2 DEF LeaseTick, ItemsNext
<1>3. ASSUME NEW w \in Workers,
             (\E q \in Items : EnqueueRead(w, q)) \/ Polls(w) \/ Answers(w) \/ CutShort(w)
      PROVE  UNCHANGED itemVars
  BY <1>3 DEF EnqueueRead, Polls, Answers, SweepRead, ClaimRead, RenewRead, CompleteRead,
              FailRead, BeginWork, CutShort, RollbackWork, itemVars
<1> QED BY <1>1, <1>2, <1>3, TransactionIsStep DEF QueueNext, WorkerStep

-----------------------------------------------------------------------------
(* The ledger and the bound on attempts: step by step of WorkQueue.        *)

\* What the three invariants say of one item.
ItemOK(q) ==
    /\ OneStory(item[q], leases[q], log[q])
    /\ Len(leases[q]) <= MaxAttempts
    /\ item[q].state = "queued" => item[q].attempts < MaxAttempts
    /\ item[q].state = "absent" => item[q].attempts = 0

LEMMA ItemsOK ==
    LedgerAgrees /\ AttemptsBounded /\ NotYetLeased <=> \A q \in Items : ItemOK(q)
BY DEF LedgerAgrees, AttemptsBounded, NotYetLeased, ItemOK

LEMMA KeptOK ==
    ASSUME NEW q \in Items, ItemOK(q),
           leases'[q] = leases[q], log'[q] = log[q],
           item'[q].state = item[q].state, item'[q].attempts = item[q].attempts
    PROVE  ItemOK(q)'
BY DEF ItemOK, OneStory

\* The numbers of an item.
LEMMA CountsType ==
    ASSUME QueueTypeOK, NEW q \in Items
    PROVE  /\ item[q].attempts \in Nat /\ Len(leases[q]) \in Nat /\ MaxAttempts \in Nat \ {0}
           /\ log[q].expired \in Nat /\ log[q].failed \in Nat
           /\ log[q].requeued \in Nat /\ log[q].completed \in Nat
BY LenProperties, ItemsConstantsOK DEF QueueTypeOK, ItemRow, Tally

\* The story of an item that is held, and of one that has nobody yet or again.
LEMMA StorySoFar ==
    ASSUME QueueTypeOK, NEW q \in Items, ItemOK(q), item[q].state \in {"absent", "queued", "leased"}
    PROVE  LET held == IF item[q].state = "leased" THEN 1 ELSE 0
           IN  /\ item[q].attempts = Len(leases[q])
               /\ log[q].completed = 0
               /\ log[q].expired + log[q].failed = log[q].requeued
               /\ log[q].requeued + held = Len(leases[q])
<1>1. One(item[q].state = "failed") = 0 /\ One(item[q].state = "completed") = 0
  BY DEF One
<1>2. One(item[q].state = "leased") = IF item[q].state = "leased" THEN 1 ELSE 0
  BY DEF One
<1>3. OneStory(item[q], leases[q], log[q])
  BY DEF ItemOK
<1> QED BY <1>1, <1>2, <1>3, CountsType DEF OneStory

\* The story of an item after a step, told by what the step adds.
LEMMA StoryGoesOn ==
    ASSUME QueueTypeOK, NEW q \in Items,
           ItemOK(q), item[q].state \in {"absent", "queued", "leased"},
           NEW grants \in 0..1, NEW e \in 0..1, NEW f \in 0..1, NEW r \in 0..1, NEW c \in 0..1,
           Len(leases'[q]) = Len(leases[q]) + grants,
           item'[q].attempts = item[q].attempts + grants,
           log'[q] = Told(log[q], e, f, r, c),
           Len(leases[q]) + grants <= MaxAttempts,
           \/ /\ item'[q].state = "leased" /\ e = r /\ f = 0 /\ c = 0 /\ grants = 1
              /\ e = 1 <=> item[q].state = "leased"
           \/ /\ item'[q].state = "queued" /\ e + f = r /\ c = 0 /\ grants = 0
              /\ r = 1 <=> item[q].state = "leased"
              /\ item[q].attempts < MaxAttempts
           \/ /\ item'[q].state = "failed" /\ e + f = 1 /\ r = 0 /\ c = 0 /\ grants = 0
              /\ item[q].state = "leased"
           \/ /\ item'[q].state = "completed" /\ e = 0 /\ f = 0 /\ r = 0 /\ c = 1 /\ grants = 0
              /\ item[q].state = "leased"
    PROVE  ItemOK(q)'
<1> DEFINE n == Len(leases[q])
           a == item[q].attempts
           E == log[q].expired
           F == log[q].failed
           R == log[q].requeued
<1>1. /\ n \in Nat /\ a = n /\ E \in Nat /\ F \in Nat /\ R \in Nat /\ E + F = R
      /\ log[q].completed = 0
      /\ IF item[q].state = "leased" THEN R + 1 = n ELSE R + 0 = n
  BY StorySoFar, CountsType
<1>2. /\ log'[q].expired = E + e /\ log'[q].failed = F + f
      /\ log'[q].requeued = R + r /\ log'[q].completed = 0 + c
      /\ Len(leases'[q]) = n + grants /\ item'[q].attempts = n + grants
  BY <1>1 DEF Told
<1> HIDE DEF n, a, E, F, R
<1>3. CASE item'[q].state = "leased"
  <2>1. /\ One(item'[q].state = "leased") = 1 /\ One(item'[q].state = "completed") = 0
        /\ One(item'[q].state = "failed") = 0
    BY <1>3 DEF One
  <2>2. (E + e) + (F + f) + (0 + c) + 1 = n + grants /\ 0 + c = 0 /\ (E + e) + (F + f) = (R + r) + 0
    BY <1>1, <1>3
  <2>3. OneStory(item[q], leases[q], log[q])'
    BY <1>2, <2>1, <2>2 DEF OneStory
  <2> QED BY <1>2, <1>3, <2>3 DEF ItemOK, n
<1>4. CASE item'[q].state = "queued"
  <2>1. /\ One(item'[q].state = "leased") = 0 /\ One(item'[q].state = "completed") = 0
        /\ One(item'[q].state = "failed") = 0
    BY <1>4 DEF One
  <2>2. (E + e) + (F + f) + (0 + c) + 0 = n + grants /\ 0 + c = 0 /\ (E + e) + (F + f) = (R + r) + 0
    BY <1>1, <1>4
  <2>3. OneStory(item[q], leases[q], log[q])'
    BY <1>2, <2>1, <2>2 DEF OneStory
  <2>4. grants = 0 /\ item'[q].attempts < MaxAttempts
    BY <1>1, <1>2, <1>4 DEF a
  <2> QED BY <1>2, <1>4, <2>3, <2>4 DEF ItemOK, n
<1>5. CASE item'[q].state = "failed"
  <2>1. /\ One(item'[q].state = "leased") = 0 /\ One(item'[q].state = "completed") = 0
        /\ One(item'[q].state = "failed") = 1
    BY <1>5 DEF One
  <2>2. (E + e) + (F + f) + (0 + c) + 0 = n + grants /\ 0 + c = 0 /\ (E + e) + (F + f) = (R + r) + 1
    BY <1>1, <1>5
  <2>3. OneStory(item[q], leases[q], log[q])'
    BY <1>2, <2>1, <2>2 DEF OneStory
  <2> QED BY <1>2, <1>5, <2>3 DEF ItemOK, n
<1>6. CASE item'[q].state = "completed"
  <2>1. /\ One(item'[q].state = "leased") = 0 /\ One(item'[q].state = "completed") = 1
        /\ One(item'[q].state = "failed") = 0
    BY <1>6 DEF One
  <2>2. (E + e) + (F + f) + (0 + c) + 0 = n + grants /\ 0 + c = 1 /\ (E + e) + (F + f) = (R + r) + 0
    BY <1>1, <1>6
  <2>3. OneStory(item[q], leases[q], log[q])'
    BY <1>2, <2>1, <2>2 DEF OneStory
  <2> QED BY <1>2, <1>6, <2>3 DEF ItemOK, n
<1> QED BY <1>3, <1>4, <1>5, <1>6

\* Taking back a lease that has expired.
LEMMA RecoveryOK ==
    ASSUME QueueTypeOK, NEW E \in SUBSET Overdue(item), NEW q \in Items, ItemOK(q),
           leases'[q] = leases[q],
           item'[q] = AfterRecovery(E, item)[q],
           log'[q] = RecoveryLogged(E, item)[q]
    PROVE  ItemOK(q)'
<1>1. CASE q \notin E
  <2>1. item'[q] = item[q] /\ log'[q] = log[q]
    BY <1>1 DEF AfterRecovery, RecoveryLogged
  <2> QED BY <2>1, KeptOK
<1>2. CASE q \in E
  <2>1. item'[q] = Recovered(item[q], item[q])
        /\ log'[q] = Told(log[q], 1, 0, One(item[q].attempts < MaxAttempts), 0)
    BY <1>2 DEF AfterRecovery, RecoveryLogged
  <2>2. item[q].state = "leased" /\ Len(leases[q]) \in Nat /\ Len(leases[q]) <= MaxAttempts
        /\ item[q].attempts \in Nat
    BY <1>2, CountsType DEF Overdue, LeaseExpired, ItemOK
  <2>3. /\ item'[q].attempts = item[q].attempts + 0
        /\ Len(leases'[q]) = Len(leases[q]) + 0
        /\ Len(leases[q]) + 0 <= MaxAttempts
    BY <2>1, <2>2 DEF Recovered, Unleased
  <2>4. CASE item[q].attempts < MaxAttempts
    <3>1. item'[q].state = "queued" /\ log'[q] = Told(log[q], 1, 0, 1, 0)
      BY <2>1, <2>4 DEF Recovered, Unleased, One
    <3> QED BY <2>2, <2>3, <2>4, <3>1, StoryGoesOn
  <2>5. CASE ~(item[q].attempts < MaxAttempts)
    <3>1. item'[q].state = "failed" /\ log'[q] = Told(log[q], 1, 0, 0, 0)
      BY <2>1, <2>5 DEF Recovered, Unleased, One
    <3> QED BY <2>2, <2>3, <3>1, StoryGoesOn
  <2> QED BY <2>4, <2>5
<1> QED BY <1>1, <1>2

LEMMA AddsOK ==
    ASSUME QueueTypeOK, \A q \in Items : ItemOK(q), NEW p \in Items, Adds(p)
    PROVE  \A q \in Items : ItemOK(q)'
<1>1. ASSUME NEW q \in Items, q # p PROVE ItemOK(q)'
  <2>1. item'[q] = item[q]
    BY <1>1 DEF Adds, QueueTypeOK
  <2> QED BY <2>1, KeptOK DEF Adds
<1>2. /\ item'[p].state = "queued" /\ item'[p].attempts = 0
      /\ leases' = leases /\ log' = log /\ item[p].state = "absent"
  BY DEF Adds, QueueTypeOK, NoItem
<1>3. item[p].attempts = 0 /\ ItemOK(p)
  BY <1>2 DEF ItemOK
<1>4. log[p] = Told(log[p], 0, 0, 0, 0)
  BY DEF Told, QueueTypeOK, Tally
<1>5. /\ Len(leases[p]) \in Nat /\ MaxAttempts \in Nat \ {0}
      /\ Len(leases[p]) <= MaxAttempts
  BY <1>3, CountsType DEF ItemOK
<1>6. /\ Len(leases'[p]) = Len(leases[p]) + 0 /\ Len(leases[p]) + 0 <= MaxAttempts
      /\ item'[p].attempts = item[p].attempts + 0 /\ item[p].attempts < MaxAttempts
      /\ log'[p] = Told(log[p], 0, 0, 0, 0)
      /\ item'[p].state = "queued" /\ item[p].state = "absent" /\ ItemOK(p)
  BY <1>2, <1>3, <1>4, <1>5
<1>7. ItemOK(p)'
  BY <1>6, StoryGoesOn
<1> QED BY <1>1, <1>7

\* A grant: one more attempt, one more lease, on an item that was waiting or
\* whose lease had expired.
LEMMA GrantsOK ==
    ASSUME QueueTypeOK, \A q \in Items : ItemOK(q), NEW w \in Workers, NEW scope \in Scopes,
           NEW E \in SUBSET Overdue(item), Grants(w, scope, E)
    PROVE  \A q \in Items : ItemOK(q)'
<1> DEFINE rows == AfterRecovery(E, item)
<1>1. PICK p \in Oldest(Claimable(rows, scope)) :
         /\ item' = [rows EXCEPT ![p] = Granted(p, rows[p].attempts)]
         /\ leases' = [leases EXCEPT ![p] = Append(@, [worker |-> w, state |-> "active"])]
         /\ log' = RecoveryLogged(E, item)
  BY DEF Grants
<1>2. p \in Items /\ rows[p].state = "queued" /\ rows[p].attempts < MaxAttempts
  BY ItemsConstantsOK DEF Oldest, Claimable
<1>3. ASSUME NEW q \in Items, q # p PROVE ItemOK(q)'
  <2>1. item'[q] = rows[q] /\ leases'[q] = leases[q] /\ log'[q] = RecoveryLogged(E, item)[q]
    BY <1>1, <1>3 DEF QueueTypeOK, AfterRecovery
  <2> QED BY <2>1, RecoveryOK
<1>4. ItemOK(p)'
  <2>1. item[p].attempts = rows[p].attempts
    BY <1>2 DEF AfterRecovery, Recovered, Unleased
  <2>2. Len(leases'[p]) = Len(leases[p]) + 1
    <3>1. leases'[p] = Append(leases[p], [worker |-> w, state |-> "active"])
      BY <1>1, <1>2 DEF QueueTypeOK
    <3>2. leases[p] \in Seq(Lease) /\ [worker |-> w, state |-> "active"] \in Lease
      BY <1>2 DEF QueueTypeOK, Lease
    <3> QED BY <3>1, <3>2, AppendProperties
  <2>3. item'[p].state = "leased" /\ item'[p].attempts = item[p].attempts + 1
    BY <1>1, <1>2, <2>1 DEF Granted, AfterRecovery
  <2>4. ItemOK(p)
    BY <1>2
  <2>5. item[p].state = IF p \in E THEN "leased" ELSE "queued"
    BY <1>2 DEF AfterRecovery, Overdue, LeaseExpired
  <2>6. Len(leases[p]) + 1 <= MaxAttempts
    <3>1. item[p].attempts = Len(leases[p])
      BY <2>4 DEF ItemOK, OneStory
    <3> QED BY <1>2, <2>1, <3>1, CountsType
  <2>7. CASE p \in E
    <3>1. log'[p] = Told(log[p], 1, 0, 1, 0) /\ item[p].state = "leased"
      BY <1>1, <1>2, <2>1, <2>5, <2>7 DEF RecoveryLogged, One
    <3> QED BY <2>2, <2>3, <2>4, <2>6, <3>1, <1>2, StoryGoesOn
  <2>8. CASE p \notin E
    <3>1. log'[p] = log[p] /\ item[p].state = "queued"
      BY <1>1, <1>2, <2>5, <2>8 DEF RecoveryLogged
    <3>2. log[p] = Told(log[p], 0, 0, 0, 0)
      BY <1>2 DEF Told, QueueTypeOK, Tally
    <3> QED BY <2>2, <2>3, <2>4, <2>6, <3>1, <3>2, <1>2, StoryGoesOn
  <2> QED BY <2>7, <2>8
<1> QED BY <1>3, <1>4

\* An answer ends the one lease that is open.
LEMMA AnswerOK ==
    ASSUME QueueTypeOK, \A q \in Items : ItemOK(q), NEW p \in Items,
           Completes(p) \/ \E again \in BOOLEAN : Fails(p, again)
    PROVE  \A q \in Items : ItemOK(q)'
<1>1. ASSUME NEW q \in Items, q # p PROVE ItemOK(q)'
  <2>1. item'[q] = item[q] /\ leases'[q] = leases[q] /\ log'[q] = log[q]
    BY <1>1 DEF Completes, Fails, QueueTypeOK
  <2> QED BY <2>1, KeptOK
<1>2. item[p].state = "leased" /\ ItemOK(p)
  BY DEF Completes, Fails
<1>3. Len(leases'[p]) = Len(leases[p]) + 0 /\ Len(leases[p]) + 0 <= MaxAttempts
  <2>1. leases'[p] = [leases[p] EXCEPT ![item[p].lease].state = "released"]
    BY DEF Completes, Fails, QueueTypeOK
  <2>2. Len(leases'[p]) = Len(leases[p])
    BY <2>1, ReleaseType DEF QueueTypeOK, ItemRow
  <2>3. Len(leases[p]) \in Nat /\ Len(leases[p]) <= MaxAttempts
    BY <1>2, CountsType DEF ItemOK
  <2> QED BY <2>2, <2>3
<1>4. item'[p].attempts = item[p].attempts + 0
  <2>1. item'[p].attempts = item[p].attempts
    BY DEF Completes, Fails, QueueTypeOK, ItemRow, Unleased
  <2> QED BY <2>1, CountsType
<1>5. CASE Completes(p)
  <2>1. item'[p].state = "completed" /\ log'[p] = Told(log[p], 0, 0, 0, 1)
    BY <1>5 DEF Completes, QueueTypeOK, ItemRow
  <2> QED BY <1>1, <1>2, <1>3, <1>4, <2>1, StoryGoesOn
<1>6. ASSUME NEW again \in BOOLEAN, Fails(p, again) PROVE ItemOK(p)'
  <2>1. CASE again
    <3>1. /\ item'[p].state = "queued" /\ log'[p] = Told(log[p], 0, 1, 1, 0)
          /\ item[p].attempts < MaxAttempts
      BY <1>6, <2>1 DEF Fails, QueueTypeOK, Unleased, One
    <3> QED BY <1>2, <1>3, <1>4, <3>1, StoryGoesOn
  <2>2. CASE ~again
    <3>1. item'[p].state = "failed" /\ log'[p] = Told(log[p], 0, 1, 0, 0)
      BY <1>6, <2>2 DEF Fails, QueueTypeOK, Unleased, One
    <3> QED BY <1>2, <1>3, <1>4, <3>1, StoryGoesOn
  <2> QED BY <2>1, <2>2
<1> QED BY <1>1, <1>5, <1>6

LEMMA LedgerStep ==
    ASSUME QueueTypeOK, \A q \in Items : ItemOK(q), [ItemsNext]_itemVars
    PROVE  \A q \in Items : ItemOK(q)'
<1>1. CASE UNCHANGED itemVars
  BY <1>1 DEF itemVars, ItemOK, OneStory
<1>2. CASE LeasesAge
  <2> SUFFICES ASSUME NEW q \in Items PROVE ItemOK(q)'
    OBVIOUS
  <2>1. item'[q].state = item[q].state /\ item'[q].attempts = item[q].attempts
    BY <1>2 DEF LeasesAge, QueueTypeOK, ItemRow
  <2> QED BY <1>2, <2>1, KeptOK DEF LeasesAge
<1>3. ASSUME NEW p \in Items, Renews(p) PROVE \A q \in Items : ItemOK(q)'
  <2> SUFFICES ASSUME NEW q \in Items PROVE ItemOK(q)'
    OBVIOUS
  <2>1. item'[q].state = item[q].state /\ item'[q].attempts = item[q].attempts
    BY <1>3 DEF Renews, QueueTypeOK, ItemRow
  <2> QED BY <1>3, <2>1, KeptOK DEF Renews
<1>4. ASSUME NEW E \in SUBSET Overdue(item), TakesBack(E) PROVE \A q \in Items : ItemOK(q)'
  BY <1>4, RecoveryOK DEF TakesBack
<1> QED BY <1>1, <1>2, <1>3, <1>4, AddsOK, AnswerOK, GrantsOK DEF ItemsNext

-----------------------------------------------------------------------------
(* The theorems.                                                           *)

LEMMA InitInv == QueueInit => QueueIInv
<1> SUFFICES ASSUME QueueInit PROVE QueueIInv
  OBVIOUS
<1>1. QueueTypeOK
  BY InitType
<1>2. LockProtects
  BY DEF QueueInit, ItemsInit, LockProtects, NoWork
<1>3. LedgerAgrees /\ AttemptsBounded /\ NotYetLeased
  BY EmptySeq, ItemsConstantsOK
     DEF QueueInit, ItemsInit, LedgerAgrees, AttemptsBounded, NotYetLeased, OneStory, One, NoItem
<1>4. RecordsOpen
  BY DEF QueueInit, ItemsInit, RecordsOpen, NoWork, NoItem
<1>5. AnsweredOnce
  <2>1. \A q \in Items : Answered(q) = {}
    BY DEF QueueInit, ItemsInit, Answered
  <2>2. Cardinality({}) = 0
    BY FS_EmptySet
  <2>3. \A q \in Items : log[q].completed + log[q].failed = 0
    BY DEF QueueInit, ItemsInit
  <2> QED BY <2>1, <2>2, <2>3 DEF AnsweredOnce
<1> QED BY <1>1, <1>2, <1>3, <1>4, <1>5 DEF QueueIInv

LEMMA StepInv == QueueIInv /\ [QueueNext]_queueVars => QueueIInv'
<1> SUFFICES ASSUME QueueIInv, [QueueNext]_queueVars PROVE QueueIInv'
  OBVIOUS
<1>1. QueueTypeOK'
  BY StepType DEF QueueIInv
<1>2. ASSUME Backend = "sqlite" PROVE (LockProtects /\ LedgerAgrees /\ AttemptsBounded /\ NotYetLeased)'
  <2>1. LockProtects'
    BY <1>2, LockStep DEF QueueIInv
  <2>2. \A q \in Items : ItemOK(q)'
    BY <1>2, StepIsStep, LedgerStep, ItemsOK DEF QueueIInv
  <2>3. (LedgerAgrees /\ AttemptsBounded /\ NotYetLeased)'
    BY <2>2 DEF LedgerAgrees, AttemptsBounded, NotYetLeased, ItemOK
  <2> QED BY <2>1, <2>3
<1>3. RecordsOpen' /\ AnsweredOnce'
  BY RecordsStep DEF QueueIInv
<1> QED BY <1>1, <1>2, <1>3 DEF QueueIInv

\* The inductive invariant holds throughout: on SQLite an operation decides
\* under the writer lock, and what it decided is still right when it writes.
THEOREM QueueInvariance == QueueSpec => []QueueIInv
<1> QED BY InitInv, StepInv, PTL DEF QueueSpec

\* On either backend, whatever commits between the reads and the writes of an
\* operation, each answer takes a lease of its own.
THEOREM AnswersTakeLeases == QueueSpec => []AnsweredOnce
<1>1. QueueIInv => AnsweredOnce
  BY DEF QueueIInv
<1> QED BY <1>1, QueueInvariance, PTL

\* On SQLite the queue refines WorkQueue: every operation takes effect in the
\* instant in which it commits, as if nothing ran beside it.
THEOREM AtomicOperations == Backend = "sqlite" => (QueueSpec => OperationsAreAtomic)
<1> SUFFICES ASSUME Backend = "sqlite" PROVE QueueSpec => OperationsAreAtomic
  OBVIOUS
<1>1. QueueInit => ItemsInit
  BY DEF QueueInit
<1>2. QueueIInv /\ [QueueNext]_queueVars => [ItemsNext]_itemVars
  BY StepIsStep DEF QueueIInv
<1> QED BY <1>1, <1>2, QueueInvariance, PTL DEF QueueSpec, OperationsAreAtomic, ItemsSpec

\* On SQLite the events, the lease records and the row of an item agree.
THEOREM LedgerTheorem == Backend = "sqlite" => (QueueSpec => []LedgerAgrees)
<1> SUFFICES ASSUME Backend = "sqlite" PROVE QueueSpec => []LedgerAgrees
  OBVIOUS
<1>1. QueueIInv => LedgerAgrees
  BY DEF QueueIInv
<1> QED BY <1>1, QueueInvariance, PTL

\* On SQLite no item is leased more than max_attempts times, and none is left
\* in the queue where no claim can select it.
THEOREM AttemptsTheorem == Backend = "sqlite" => (QueueSpec => []AttemptsBounded)
<1> SUFFICES ASSUME Backend = "sqlite" PROVE QueueSpec => []AttemptsBounded
  OBVIOUS
<1>1. QueueIInv => AttemptsBounded
  BY DEF QueueIInv
<1> QED BY <1>1, QueueInvariance, PTL

\* The steps that change whether or by which lease an item is held.
LEMMA RowChanges ==
    ASSUME QueueTypeOK, [QueueNext]_queueVars, NEW q \in Items,
           ~ /\ item'[q].state = item[q].state /\ item'[q].lease = item[q].lease
    PROVE  \E w \in Workers : Enqueue(w) \/ Sweep(w) \/ Claim(w) \/ Complete(w) \/ Fail(w)
<1>1. CASE LeaseTick
  BY <1>1, TickRow DEF StillAsSeen
<1>2. ASSUME NEW w \in Workers, Renew(w)
      PROVE  item'[q].state = item[q].state /\ item'[q].lease = item[q].lease
  BY <1>2 DEF Renew, QueueTypeOK, ItemRow
<1>3. ASSUME NEW w \in Workers,
             \/ (\E p \in Items : EnqueueRead(w, p)) \/ Polls(w) \/ Answers(w)
             \/ CutShort(w) \/ EnqueueLoses(w) \/ ClaimLoses(w)
      PROVE  item' = item
  BY <1>3 DEF EnqueueRead, Polls, Answers, SweepRead, ClaimRead, RenewRead, CompleteRead,
              FailRead, BeginWork, CutShort, EnqueueLoses, ClaimLoses, RollbackWork
<1> QED BY <1>1, <1>2, <1>3 DEF QueueNext, Idle, queueVars, WorkerStep, Finishes, Enqueues, Claims

LEMMA LiveStep ==
    ASSUME QueueIInv, Backend = "sqlite", [QueueNext]_queueVars, NEW q \in Items,
           item[q].state = "leased", item[q].left > 0
    PROVE  \/ item'[q].state = "leased" /\ item'[q].lease = item[q].lease
           \/ /\ work[leases[q][item[q].lease].worker].op \in {"complete", "fail"}
              /\ item'[q].state # "leased"
<1> SUFFICES ASSUME ~(item'[q].state = "leased" /\ item'[q].lease = item[q].lease)
             PROVE  /\ work[leases[q][item[q].lease].worker].op \in {"complete", "fail"}
                    /\ item'[q].state # "leased"
  OBVIOUS
<1> USE DEF QueueIInv
<1>1. PICK w \in Workers : Enqueue(w) \/ Sweep(w) \/ Claim(w) \/ Complete(w) \/ Fail(w)
  BY RowChanges
<1>2. work[w].op # "idle"
  BY <1>1 DEF Enqueue, Sweep, Claim, Complete, Fail
<1>3. StillAsSeen(item[q], work[w].seen[q]) /\ WorkStillDecided(w)
  BY <1>2 DEF LockProtects
<1>4. item[q].left \in Int /\ work[w].seen[q].left \in Int
  BY TransactionType DEF QueueTypeOK, ItemRow
<1>5. ~LeaseExpired(work[w].seen[q])
  BY <1>3, <1>4 DEF StillAsSeen, LeaseExpired
<1>6. AfterRecovery(Overdue(work[w].seen), work[w].seen)[q] = item[q]
  BY <1>5 DEF AfterRecovery, Overdue
<1>7. ~Enqueue(w)
  <2> SUFFICES ASSUME Enqueue(w) PROVE FALSE
    OBVIOUS
  <2>1. PICK p \in work[w].on :
           item[p].state = "absent" /\ item' = [item EXCEPT ![p] = [NoItem EXCEPT !.state = "queued"]]
    BY DEF Enqueue
  <2> QED BY <2>1 DEF QueueTypeOK
<1>8. ~Sweep(w)
  BY <1>6 DEF Sweep
<1>9. ~Claim(w)
  <2> SUFFICES ASSUME Claim(w) PROVE FALSE
    OBVIOUS
  <2>1. PICK p \in work[w].on :
           /\ AfterRecovery(Overdue(work[w].seen), work[w].seen)[p].state = "queued"
           /\ item' = [AfterRecovery(Overdue(work[w].seen), work[w].seen) EXCEPT ![p] =
                         Granted(p, work[w].seen[p].attempts)]
    BY DEF Claim
  <2>2. AfterRecovery(Overdue(work[w].seen), work[w].seen) \in [Items -> ItemRow]
    BY TransactionType, AfterRecoveryType DEF QueueTypeOK
  <2> QED BY <1>6, <2>1, <2>2
<1>10. CASE Complete(w)
  <2>1. PICK p \in work[w].on :
           work[w].op = "complete" /\ item' = [item EXCEPT ![p].state = "completed"]
    BY <1>10 DEF Complete
  <2>2. p = q /\ item'[q].state = "completed"
    BY <2>1, TransactionType DEF QueueTypeOK, ItemRow
  <2> QED BY <1>3, <2>1, <2>2 DEF WorkStillDecided
<1>11. CASE Fail(w)
  <2>1. PICK p \in work[w].on :
           /\ work[w].op = "fail"
           /\ item' = [item EXCEPT ![p] =
                         Unleased(@, IF work[w].again THEN "queued" ELSE "failed")]
    BY <1>11 DEF Fail
  <2>2. p = q
    BY <2>1, TransactionType DEF QueueTypeOK
  <2>3. item'[q].state # "leased"
    BY <2>1, <2>2 DEF QueueTypeOK, Unleased
  <2> QED BY <1>3, <2>1, <2>2, <2>3 DEF WorkStillDecided
<1> QED BY <1>1, <1>7, <1>8, <1>9, <1>10, <1>11

\* On SQLite a lease that has not expired is ended by nobody but its holder,
\* whatever the other workers claim, sweep, complete or fail meanwhile.
THEOREM OneHolder == Backend = "sqlite" => (QueueSpec => LiveLeaseRespected)
<1> SUFFICES ASSUME Backend = "sqlite" PROVE QueueSpec => LiveLeaseRespected
  OBVIOUS
<1>1. QueueIInv /\ [QueueNext]_queueVars =>
        [\A q \in Items :
           LET r == item[q]
           IN  r.state = "leased" /\ r.left > 0 =>
                 \/ item'[q].state = "leased" /\ item'[q].lease = r.lease
                 \/ /\ work[leases[q][r.lease].worker].op \in {"complete", "fail"}
                    /\ item'[q].state # "leased"]_queueVars
  BY LiveStep
<1> QED BY <1>1, QueueInvariance, PTL DEF QueueSpec, LiveLeaseRespected

LEMMA CompletedStep ==
    ASSUME QueueTypeOK, [ItemsNext]_itemVars, NEW q \in Items, item[q].state = "completed"
    PROVE  item'[q] = item[q] /\ leases'[q] = leases[q]
<1>1. CASE UNCHANGED itemVars
  BY <1>1 DEF itemVars
<1>2. CASE LeasesAge
  BY <1>2 DEF LeasesAge
<1>3. ASSUME NEW p \in Items,
             Adds(p) \/ Renews(p) \/ Completes(p) \/ \E again \in BOOLEAN : Fails(p, again)
      PROVE  item'[q] = item[q] /\ leases'[q] = leases[q]
  <2>1. p # q
    BY <1>3 DEF Adds, Renews, Completes, Fails
  <2> QED BY <1>3, <2>1 DEF Adds, Renews, Completes, Fails, QueueTypeOK
<1>4. ASSUME NEW E \in SUBSET Overdue(item) PROVE AfterRecovery(E, item)[q] = item[q]
  BY <1>4 DEF AfterRecovery, Overdue, LeaseExpired
<1>5. ASSUME NEW E \in SUBSET Overdue(item), TakesBack(E)
      PROVE  item'[q] = item[q] /\ leases'[q] = leases[q]
  BY <1>4, <1>5 DEF TakesBack
<1>6. ASSUME NEW E \in SUBSET Overdue(item), NEW w \in Workers, NEW scope \in Scopes,
             Grants(w, scope, E)
      PROVE  item'[q] = item[q] /\ leases'[q] = leases[q]
  <2> DEFINE rows == AfterRecovery(E, item)
  <2>1. PICK p \in Oldest(Claimable(rows, scope)) :
           /\ item' = [rows EXCEPT ![p] = Granted(p, rows[p].attempts)]
           /\ leases' = [leases EXCEPT ![p] = Append(@, [worker |-> w, state |-> "active"])]
    BY <1>6 DEF Grants
  <2>2. p # q
    BY <1>4 DEF Oldest, Claimable
  <2> QED BY <1>4, <2>1, <2>2 DEF QueueTypeOK, AfterRecovery
<1> QED BY <1>1, <1>2, <1>3, <1>5, <1>6 DEF ItemsNext

\* On SQLite a completed item stays completed: no recovery, claim or late
\* answer of an earlier holder touches it again.
THEOREM CompletedStays == Backend = "sqlite" => (QueueSpec => CompletedForGood)
<1> SUFFICES ASSUME Backend = "sqlite" PROVE QueueSpec => CompletedForGood
  OBVIOUS
<1>1. QueueTypeOK /\ [ItemsNext]_itemVars =>
        [\A q \in Items :
           item[q].state = "completed" => item'[q] = item[q] /\ leases'[q] = leases[q]]_itemVars
  BY CompletedStep
<1> QED BY <1>1, QueueTypeCorrect, AtomicOperations, PTL
        DEF OperationsAreAtomic, ItemsSpec, CompletedForGood

=============================================================================
