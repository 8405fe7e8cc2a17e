----------------------------- MODULE LeaseQueue -----------------------------
(***************************************************************************)
(* The work queue behind claim_task, renew_task_lease, complete_task and   *)
(* fail_task (server/queueing.py).                                         *)
(*                                                                         *)
(* A worker is a server process; its queue operations run one at a time.   *)
(* Every operation is one transaction of open_write_session: it reads rows,*)
(* decides, writes rows and the events that tell of them, and commits.  On *)
(* SQLite it holds the database's writer lock from before its first read;  *)
(* on PostgreSQL it is a plain READ COMMITTED transaction, whose UPDATEs   *)
(* are keyed by the item's id alone - but for the one of a claim, which    *)
(* also asks for state = 'queued'.                                         *)
(***************************************************************************)
EXTENDS Dialect, WorkQueue

CONSTANTS
    Stable,    \* the workers whose transactions are not cut short
    NoWorker   \* nobody holds the writer lock

ASSUME QueueWorkersOK ==
    /\ NoWorker \notin Workers
    /\ Stable \subseteq Workers

VARIABLES
    queueLock,  \* the holder of SQLite's writer lock
    work        \* work[w]: the open transaction of a worker

queueVars == <<item, order, leases, log, queueLock, work>>

\* seen: the rows as the transaction read them.
Work ==
    [op: {"idle", "enqueue", "sweep", "claim", "renew", "complete", "fail"},
     on: SUBSET Items, lease: Nat, again: BOOLEAN, seen: [Items -> ItemRow]]

NoWork ==
    [op |-> "idle", on |-> {}, lease |-> 0, again |-> FALSE, seen |-> [q \in Items |-> NoItem]]

-----------------------------------------------------------------------------
(* Transactions.                                                           *)

QueueFree == Backend = "sqlite" => queueLock = NoWorker

\* Mutant: the writer lock is taken by the first write, not by BEGIN.
BeginWork_Deferred(w, op, on, lease, again) ==
    /\ work[w].op = "idle"
    /\ work' = [work EXCEPT ![w] =
                [op |-> op, on |-> on, lease |-> lease, again |-> again, seen |-> item]]
    /\ UNCHANGED <<item, order, leases, log, queueLock>>

\* The reads of an operation, which end with its decision.
BeginWork(w, op, on, lease, again) ==
    /\ work[w].op = "idle"
    /\ QueueFree
    /\ queueLock' = IF Backend = "sqlite" THEN w ELSE queueLock
    /\ work' = [work EXCEPT ![w] =
                [op |-> op, on |-> on, lease |-> lease, again |-> again, seen |-> item]]
    /\ UNCHANGED <<item, order, leases, log>>

End(w) ==
    /\ queueLock' = IF queueLock = w THEN NoWorker ELSE queueLock
    /\ work' = [work EXCEPT ![w] = NoWork]

RollbackWork(w) == End(w) /\ UNCHANGED <<item, order, leases, log>>

-----------------------------------------------------------------------------
(* QueueManager.                                                           *)

\* enqueue_task returns the item that its key already has.
EnqueueRead(w, q) ==
    /\ item[q].state = "absent"
    /\ BeginWork(w, "enqueue", {q}, 0, FALSE)

Enqueue(w) ==
    \E q \in work[w].on :
        /\ work[w].op = "enqueue"
        /\ item[q].state = "absent"
        /\ item' = [item EXCEPT ![q] = [NoItem EXCEPT !.state = "queued"]]
        /\ order' = Append(order, q)
        /\ End(w)
        /\ UNCHANGED <<leases, log>>

\* IntegrityError: another process has inserted the key since.
EnqueueLoses(w) ==
    /\ work[w].op = "enqueue"
    /\ \E q \in work[w].on : item[q].state # "absent"
    /\ RollbackWork(w)

-----------------------------------------------------------------------------
(* QueueProcessor.                                                         *)

\* What the SELECT of a claim finds once the expired leases are recovered.
Found(scope) == Claimable(AfterRecovery(Overdue(item), item), scope)

\* Mutant: it returns None without a commit, and the recovery is lost.
SweepRead_Discarded(w, scope) ==
    work[w].op = "idle" /\ Found(scope) = {} /\ UNCHANGED queueVars

\* claim with nothing to claim still commits the recovery.
SweepRead(w, scope) ==
    /\ Found(scope) = {}
    /\ Overdue(item) # {}
    /\ BeginWork(w, "sweep", {}, 0, FALSE)

Sweep(w) ==
    /\ work[w].op = "sweep"
    /\ item' = AfterRecovery(Overdue(work[w].seen), work[w].seen)
    /\ log' = RecoveryLogged(Overdue(work[w].seen), work[w].seen)
    /\ End(w)
    /\ UNCHANGED <<order, leases>>

\* Mutant: without ORDER BY created_at, id.
ClaimRead_AnyOrder(w, scope) ==
    \E q \in Found(scope) : BeginWork(w, "claim", {q}, 0, FALSE)

ClaimRead(w, scope) ==
    \E q \in Oldest(Found(scope)) : BeginWork(w, "claim", {q}, 0, FALSE)

\* The guarded UPDATE; attempts was read with the candidate.
Claim(w) ==
    LET seen == work[w].seen
        rows == AfterRecovery(Overdue(seen), seen)
    IN  \E q \in work[w].on :
            /\ work[w].op = "claim"
            /\ rows[q].state = "queued"
            /\ leases' = [leases EXCEPT ![q] =
                            Append(@, [worker |-> w, state |-> "active"])]
            /\ item' = [rows EXCEPT ![q] = Granted(q, seen[q].attempts)]
            /\ log' = RecoveryLogged(Overdue(seen), seen)
            /\ End(w)
            /\ UNCHANGED order

\* Its rowcount is 0: roll back, the recovery included, and start over.
ClaimLoses(w) ==
    /\ work[w].op = "claim"
    /\ \E q \in work[w].on : AfterRecovery(Overdue(work[w].seen), work[w].seen)[q].state # "queued"
    /\ RollbackWork(w)

\* Mutant: leased_by is not compared.
Holds_AnyWorker(w, q, n) ==
    item[q].state = "leased" /\ item[q].lease = n /\ item[q].left >= 0

\* Mutant: the state is not looked at; completion leaves lease and worker behind.
Holds_AnyState(w, q, n) ==
    /\ item[q].lease = n
    /\ n \in DOMAIN leases[q] /\ leases[q][n].worker = w
    /\ item[q].left >= 0

\* _leased_record: a lease is good up to and including the instant it expires.
Holds(w, q, n) ==
    /\ item[q].state = "leased"
    /\ item[q].lease = n
    /\ n \in DOMAIN leases[q] /\ leases[q][n].worker = w
    /\ item[q].left >= 0

RenewRead(w, q, n) == Holds(w, q, n) /\ BeginWork(w, "renew", {q}, n, FALSE)

CompleteRead(w, q, n) == Holds(w, q, n) /\ BeginWork(w, "complete", {q}, n, FALSE)

\* Mutant: the attempts are not looked at.
FailRead_Requeues(w, q, n, requeue) ==
    Holds(w, q, n) /\ BeginWork(w, "fail", {q}, n, requeue)

\* will_requeue is decided from the row that was read.
FailRead(w, q, n, requeue) ==
    /\ Holds(w, q, n)
    /\ BeginWork(w, "fail", {q}, n, requeue /\ item[q].attempts < MaxAttempts)

Renew(w) ==
    \E q \in work[w].on :
        /\ work[w].op = "renew"
        /\ item' = [item EXCEPT ![q].left = TTL]
        /\ End(w)
        /\ UNCHANGED <<order, leases, log>>

Complete(w) ==
    \E q \in work[w].on :
        /\ work[w].op = "complete"
        /\ item' = [item EXCEPT ![q].state = "completed"]
        /\ leases' = [leases EXCEPT ![q][work[w].lease].state = "released"]
        /\ log' = [log EXCEPT ![q] = Told(@, 0, 0, 0, 1)]
        /\ End(w)
        /\ UNCHANGED order

Fail(w) ==
    \E q \in work[w].on :
        /\ work[w].op = "fail"
        /\ item' = [item EXCEPT ![q] =
                      Unleased(@, IF work[w].again THEN "queued" ELSE "failed")]
        /\ leases' = [leases EXCEPT ![q][work[w].lease].state = "released"]
        /\ log' = [log EXCEPT ![q] = Told(@, 0, 1, One(work[w].again), 0)]
        /\ End(w)
        /\ UNCHANGED order

-----------------------------------------------------------------------------
(* The environment.                                                        *)

\* An event that cannot be appended (no active session), a lock that timed
\* out, or the death of the process.  A worker that dies never uses its leases
\* again, which needs no step.
CutShort(w) == w \notin Stable /\ work[w].op # "idle" /\ RollbackWork(w)

LeaseTick == LeasesAge /\ UNCHANGED <<queueLock, work>>

-----------------------------------------------------------------------------
QueueInit ==
    /\ ItemsInit
    /\ queueLock = NoWorker
    /\ work = [w \in Workers |-> NoWork]

Polls(w) == \E scope \in Scopes : SweepRead(w, scope) \/ ClaimRead(w, scope)

Answers(w) ==
    \E q \in Items : \E n \in DOMAIN leases[q] :
        \/ RenewRead(w, q, n)
        \/ CompleteRead(w, q, n)
        \/ \E requeue \in BOOLEAN : FailRead(w, q, n, requeue)

\* Without the writer lock another worker may have been first.
Enqueues(w) == work[w].op = "enqueue" /\ (Enqueue(w) \/ EnqueueLoses(w))

Claims(w) == work[w].op = "claim" /\ (Claim(w) \/ ClaimLoses(w))

Finishes(w) ==
    \/ Enqueues(w)
    \/ Sweep(w) \/ Claims(w)
    \/ Renew(w) \/ Complete(w) \/ Fail(w)

WorkerStep(w) ==
    \/ \E q \in Items : EnqueueRead(w, q)
    \/ Polls(w)
    \/ Answers(w)
    \/ Finishes(w)
    \/ CutShort(w)

\* Every key enqueued and settled: the queue is idle.
Idle == (\A q \in Items : item[q].state \in {"completed", "failed"}) /\ UNCHANGED queueVars

QueueNext == LeaseTick \/ Idle \/ \E w \in Workers : WorkerStep(w)

QueueSpec == QueueInit /\ [][QueueNext]_queueVars

\* Time passes, a transaction that has begun ends, and a stable worker keeps
\* polling each of the scopes and gets the writer lock again and again.
QueueFairness ==
    /\ WF_queueVars(LeaseTick)
    /\ \A w \in Workers : WF_queueVars(Finishes(w) \/ CutShort(w))
    /\ \A w \in Stable : \A scope \in Scopes :
          SF_queueVars(SweepRead(w, scope) \/ ClaimRead(w, scope))

QueueFairSpec == QueueSpec /\ QueueFairness

-----------------------------------------------------------------------------
(* Properties.                                                             *)

\* Every variable has its type.
QueueTypeOK ==
    /\ item \in [Items -> ItemRow]
    /\ order \in Seq(Items)
    /\ leases \in [Items -> Seq(Lease)]
    /\ log \in [Items -> Tally]
    /\ queueLock \in Workers \cup {NoWorker}
    /\ work \in [Workers -> Work]

\* "Only one agent can successfully claim a given queue_item at a time": a
\* lease that has not expired is ended by nobody but the worker that holds it.
LiveLeaseRespected ==
    [][\A q \in Items :
          LET r == item[q]
          IN  r.state = "leased" /\ r.left > 0 =>
                \/ item'[q].state = "leased" /\ item'[q].lease = r.lease
                \/ /\ work[leases[q][r.lease].worker].op \in {"complete", "fail"}
                   /\ item'[q].state # "leased"]_queueVars

\* On SQLite the worker's transactions are as good as single steps: what a claim
\* takes back has expired when it commits, what it is given is the oldest item
\* that waits, and an answer finds the lease it was decided for.
OperationsAreAtomic == ItemsSpec

\* A lease that has expired is taken back, also when its worker is gone.
ExpiredTakenBack ==
    \A q \in Items : \A n \in 1..MaxAttempts :
        (item[q].lease = n /\ LeaseExpired(item[q])) ~>
            ~(item[q].lease = n /\ LeaseExpired(item[q]))

\* No item starves in the queue, however often the ones before it fail and
\* return to their old place at the head.
NothingStarves ==
    \A q \in Items : item[q].state = "queued" ~> item[q].state # "queued"

-----------------------------------------------------------------------------
(* The inductive invariant.                                                *)

\* Who is about to answer a lease was given it and has not answered it, and the
\* lease that a row names is not answered either.
RecordsOpen ==
    /\ \A w \in Workers : \A q \in work[w].on :
          work[w].op \in {"renew", "complete", "fail"} =>
              /\ work[w].lease \in DOMAIN leases[q] \ Answered(q)
              /\ leases[q][work[w].lease].worker = w
    /\ \A q \in Items : item[q].state = "leased" =>
          item[q].lease \in DOMAIN leases[q] \ Answered(q)

\* On SQLite: since an operation read a row, only the clock may have touched it.
StillAsSeen(r, seen) ==
    /\ r.state = seen.state /\ r.attempts = seen.attempts /\ r.lease = seen.lease
    /\ r.left <= seen.left

\* What the transaction of w decided of the items it is about is still right.
WorkStillDecided(w) ==
    \A q \in work[w].on :
        /\ work[w].op = "enqueue" => item[q].state = "absent"
        /\ work[w].op = "claim" =>
              \E scope \in Scopes :
                 q \in Oldest(Claimable(AfterRecovery(Overdue(work[w].seen), work[w].seen), scope))
        /\ work[w].op \in {"renew", "complete", "fail"} =>
              /\ item[q].state = "leased" /\ item[q].lease = work[w].lease
              /\ work[w].lease \in 1..Len(leases[q])
              /\ leases[q][work[w].lease].worker = w
        /\ work[w].op = "fail" /\ work[w].again => item[q].attempts < MaxAttempts

\* An open transaction holds the writer lock, and what it read still holds.
LockProtects ==
    \A w \in Workers :
        work[w].op # "idle" =>
            /\ queueLock = w
            /\ \A q \in Items : StillAsSeen(item[q], work[w].seen[q])
            /\ WorkStillDecided(w)

QueueIInv ==
    /\ QueueTypeOK /\ RecordsOpen /\ AnsweredOnce
    /\ Backend = "sqlite" => LockProtects /\ LedgerAgrees /\ AttemptsBounded /\ NotYetLeased

=============================================================================
