----------------------------- MODULE WorkQueue -----------------------------
(***************************************************************************)
(* What the work queue promises its callers (server/queueing.py): every    *)
(* operation takes effect in one instant, at which the lease it ends has   *)
(* expired, the item it grants is the oldest of those that wait, and the   *)
(* lease it answers is still held.  LeaseQueue takes the operations apart  *)
(* into transactions that read first and write later.                      *)
(*                                                                         *)
(* An item is identified with its idempotency key.  A lease id is its      *)
(* number among the leases of its item.                                    *)
(***************************************************************************)
EXTENDS Integers, Sequences, FiniteSets

CONSTANTS
    Workers,      \* server processes
    Items,        \* the idempotency keys that are ever enqueued
    Scopes,       \* what the agent_id and workflow_id of a claim select
    MaxAttempts,  \* leases an item may be given
    TTL           \* ticks a lease is granted for

ASSUME ItemsConstantsOK ==
    /\ Scopes \subseteq SUBSET Items
    /\ MaxAttempts \in Nat \ {0}
    /\ TTL \in Nat \ {0}

VARIABLES
    item,    \* item[q]: the committed queue_items row of q
    order,   \* the items that exist, oldest first (created_at, id)
    leases,  \* leases[q]: the worker_leases rows of q, in the order of their grants
    log      \* log[q]: how many events of each type tell of q

itemVars == <<item, order, leases, log>>

\* left: ticks until lease_expires_at, -1 once that instant is in the past;
\* lease: the lease held, 0 for None.  leased_by is the worker of that lease.
ItemRow == [state: {"absent", "queued", "leased", "completed", "failed"},
        attempts: Nat, lease: Nat, left: -1..TTL]

NoItem == [state |-> "absent", attempts |-> 0, lease |-> 0, left |-> 0]

Lease == [worker: Workers, state: {"active", "released"}]

Tally == [expired: Nat, failed: Nat, requeued: Nat, completed: Nat]

One(b) == IF b THEN 1 ELSE 0

\* The tally once that many more events of each type were appended.
Told(t, expired, failed, requeued, completed) ==
    [expired |-> t.expired + expired, failed |-> t.failed + failed,
     requeued |-> t.requeued + requeued, completed |-> t.completed + completed]

-----------------------------------------------------------------------------
(* Expired leases: _recover_expired, the first statement of every claim.   *)

LeaseExpired(r) == r.state = "leased" /\ r.left <= 0

Overdue(rows) == {q \in Items : LeaseExpired(rows[q])}

\* The columns an UPDATE names that takes a lease from an item; it may decide
\* the state from the attempts that were read, but does not write them.
Unleased(r, state) == [state |-> state, attempts |-> r.attempts, lease |-> 0, left |-> 0]

Recovered(r, seen) ==
    Unleased(r, IF seen.attempts < MaxAttempts THEN "queued" ELSE "failed")

\* The rows once the leases of E are taken back, as decided from rows seen.
AfterRecovery(E, seen) ==
    [q \in Items |-> IF q \in E THEN Recovered(item[q], seen[q]) ELSE item[q]]

\* LEASE_EXPIRED, and TASK_REQUEUED unless the attempts are used up.
RecoveryLogged(E, seen) ==
    [q \in Items |->
        IF q \in E THEN Told(log[q], 1, 0, One(seen[q].attempts < MaxAttempts), 0) ELSE log[q]]

-----------------------------------------------------------------------------
(* What a claim may be given.                                              *)

Claimable(rows, scope) ==
    {q \in scope : rows[q].state = "queued" /\ rows[q].attempts < MaxAttempts}

Oldest(S) ==
    {q \in S : \E i \in DOMAIN order :
                  order[i] = q /\ \A j \in 1..(i - 1) : order[j] \notin S}

\* The row of q with the next lease on it.
Granted(q, attempts) ==
    [state |-> "leased", attempts |-> attempts + 1, lease |-> Len(leases[q]) + 1, left |-> TTL]

-----------------------------------------------------------------------------
(* The operations.                                                         *)

\* enqueue_task
Adds(q) ==
    /\ item[q].state = "absent"
    /\ item' = [item EXCEPT ![q] = [NoItem EXCEPT !.state = "queued"]]
    /\ order' = Append(order, q)
    /\ UNCHANGED <<leases, log>>

\* claim, when nothing is to be had but leases that have expired.
TakesBack(E) ==
    /\ item' = AfterRecovery(E, item)
    /\ log' = RecoveryLogged(E, item)
    /\ UNCHANGED <<order, leases>>

\* claim: the oldest item of the scope that then waits.
Grants(w, scope, E) ==
    LET rows == AfterRecovery(E, item)
    IN  \E q \in Oldest(Claimable(rows, scope)) :
            /\ item' = [rows EXCEPT ![q] = Granted(q, rows[q].attempts)]
            /\ leases' = [leases EXCEPT ![q] = Append(@, [worker |-> w, state |-> "active"])]
            /\ log' = RecoveryLogged(E, item)
            /\ UNCHANGED order

\* renew
Renews(q) ==
    /\ item[q].state = "leased"
    /\ item' = [item EXCEPT ![q].left = TTL]
    /\ UNCHANGED <<order, leases, log>>

\* complete
Completes(q) ==
    /\ item[q].state = "leased"
    /\ item' = [item EXCEPT ![q].state = "completed"]
    /\ leases' = [leases EXCEPT ![q][item[q].lease].state = "released"]
    /\ log' = [log EXCEPT ![q] = Told(@, 0, 0, 0, 1)]
    /\ UNCHANGED order

\* fail
Fails(q, again) ==
    /\ item[q].state = "leased"
    /\ again => item[q].attempts < MaxAttempts
    /\ item' = [item EXCEPT ![q] = Unleased(@, IF again THEN "queued" ELSE "failed")]
    /\ leases' = [leases EXCEPT ![q][item[q].lease].state = "released"]
    /\ log' = [log EXCEPT ![q] = Told(@, 0, 1, One(again), 0)]
    /\ UNCHANGED order

LeasesAge ==
    /\ \E q \in Items : item[q].state = "leased" /\ item[q].left >= 0
    /\ item' = [q \in Items |->
                  IF item[q].state = "leased" /\ item[q].left >= 0
                  THEN [item[q] EXCEPT !.left = @ - 1] ELSE item[q]]
    /\ UNCHANGED <<order, leases, log>>

-----------------------------------------------------------------------------
ItemsInit ==
    /\ item = [q \in Items |-> NoItem]
    /\ order = << >>
    /\ leases = [q \in Items |-> << >>]
    /\ log = [q \in Items |-> [expired |-> 0, failed |-> 0, requeued |-> 0, completed |-> 0]]

\* A claim decides what has expired at its beginning: it may leave alone what
\* expires while it runs.
ItemsNext ==
    \/ LeasesAge
    \/ \E q \in Items :
          \/ Adds(q)
          \/ Renews(q)
          \/ Completes(q)
          \/ \E again \in BOOLEAN : Fails(q, again)
    \/ \E E \in SUBSET Overdue(item) :
          \/ TakesBack(E)
          \/ \E w \in Workers, scope \in Scopes : Grants(w, scope, E)

ItemsSpec == ItemsInit /\ [][ItemsNext]_itemVars

-----------------------------------------------------------------------------
(* Properties of the table.                                                *)

\* The events of an item, the leases it was given and the row it ended up with
\* tell one story: as many attempts as leases, no lease with two outcomes, and
\* only the last one may be without.
OneStory(r, given, told) ==
    /\ r.attempts = Len(given)
    /\ told.expired + told.failed + told.completed + One(r.state = "leased") = Len(given)
    /\ told.completed = One(r.state = "completed")
    /\ told.expired + told.failed = told.requeued + One(r.state = "failed")

LedgerAgrees == \A q \in Items : OneStory(item[q], leases[q], log[q])

\* No item is given more leases than max_attempts, and none waits in the queue
\* with no attempt left - no claim would ever select it.
AttemptsBounded ==
    \A q \in Items :
        /\ Len(leases[q]) <= MaxAttempts
        /\ item[q].state = "queued" => item[q].attempts < MaxAttempts

NotYetLeased == \A q \in Items : item[q].state = "absent" => item[q].attempts = 0

\* An item that was completed is never offered again.
CompletedForGood ==
    [][\A q \in Items :
          item[q].state = "completed" => item'[q] = item[q] /\ leases'[q] = leases[q]]_itemVars

\* The leases of q that were answered.
Answered(q) == {n \in DOMAIN leases[q] : leases[q][n].state = "released"}

\* On either backend each TASK_COMPLETED or TASK_FAILED answers a lease of its
\* own, one that was granted and not answered before.
AnsweredOnce ==
    \A q \in Items : log[q].completed + log[q].failed = Cardinality(Answered(q))

=============================================================================
