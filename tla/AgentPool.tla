----------------------------- MODULE AgentPool -----------------------------
(***************************************************************************)
(* The worker pool of one process over a task queue: InMemoryTaskQueue,    *)
(* SQLiteTaskQueue, or RedisTaskQueue without a Redis (which RabbitMQ's    *)
(* queue inherits).  One event loop runs workers, submitters and joiners,  *)
(* so what they do between two suspensions is one step: a dequeue, a whole *)
(* answer with its accounting.  Handlers take time, and so leases expire,  *)
(* pools are stopped and started, the database fails, the process dies.    *)
(*                                                                         *)
(* Left out: statistics, the idle event (join looks again after half a     *)
(* second whatever it says), worker_leases rows (this queue never reads    *)
(* them), a handler that outlives its cancellation by stop's timeout.      *)
(***************************************************************************)
EXTENDS Naturals, Sequences, FiniteSets

CONSTANTS
    Items,        \* the idempotency keys
    Workers,      \* the worker loops of a pool
    Stable,       \* the workers whose queue operations do not raise
    Nothing,      \* a worker that runs no item
    Backends,     \* the queues that are tried
    MaxAttempts,  \* max_attempts of the queue
    TTL,          \* ticks a lease is granted for
    MaxSize,      \* max_size of the queue in memory
    MaxSubmits,   \* bound: submissions
    MaxTroubles   \* bound: stops, crashes and failures of the database

ASSUME PoolConstantsOK ==
    /\ Nothing \notin Items
    /\ Stable \subseteq Workers
    /\ Backends \subseteq {"memory", "sqlite", "redis"}
    /\ MaxAttempts \in Nat \ {0}
    /\ TTL \in Nat
    /\ IsFiniteSet(Workers)

VARIABLES
    backend,   \* the queue in use
    item,      \* item[q]: the stored record of q (not in memory)
    order,     \* the queue in memory; else the records, oldest first
    worker,    \* worker[w]: where its loop is, and the item it runs
    inFlight,  \* _in_flight
    started,   \* _tasks is not empty
    stopping,  \* _stop_event
    joining,   \* somebody awaits join()
    expired,   \* history: the items whose lease was ever taken back
    submits, troubles

vars == <<backend, item, order, worker, inFlight, started, stopping, joining, expired,
          submits, troubles>>

\* left: ticks until lease_expires_at, while leased.
Record == [state: {"absent", "queued", "leased", "completed", "failed"},
           attempts: 0..MaxAttempts, left: 0..TTL]

NoRecord == [state |-> "absent", attempts |-> 0, left |-> 0]

Idle == [at |-> "idle", item |-> Nothing]
Off == [at |-> "off", item |-> Nothing]
Runs(q) == [at |-> "running", item |-> q]

Runners(q) == {w \in Workers : worker[w] = Runs(q)}

Init ==
    /\ backend \in Backends
    /\ item = [q \in Items |-> NoRecord]
    /\ order = <<>>
    /\ worker = [w \in Workers |-> Off]
    /\ inFlight = 0
    /\ started = FALSE /\ stopping = FALSE /\ joining = FALSE
    /\ expired = {}
    /\ submits = 0 /\ troubles = 0

-----------------------------------------------------------------------------
(* the queue                                                                *)

New(q) == [item EXCEPT ![q] = [NoRecord EXCEPT !.state = "queued"]]

\* Mutant: what is done may be done again.
NotKnown_OrDone(q) == item[q].state \in {"absent", "failed", "completed"}

NotKnown(q) == item[q].state \in IF backend = "redis" THEN {"absent", "failed"} ELSE {"absent"}

\* enqueue: a duplicate of a live or completed record is ignored.  SQLite's key
\* is unique, so that a failed item is refused there and replaced in Redis; the
\* queue in memory keeps every copy and raises when it is full.
Enqueue(q) ==
    \/ /\ backend = "memory" /\ Len(order) < MaxSize
       /\ order' = Append(order, q)
       /\ UNCHANGED item
    \/ /\ backend = "memory" /\ Len(order) >= MaxSize
       /\ UNCHANGED <<item, order>>
    \/ /\ backend # "memory"
       /\ NotKnown(q)
       /\ item' = New(q)
       /\ order' = Append(order, q)
    \/ /\ backend # "memory"
       /\ ~NotKnown(q)
       /\ UNCHANGED <<item, order>>

\* Leases that have run out; SQLite leaves those of the last attempt alone.
Expired(q) ==
    /\ item[q].state = "leased" /\ item[q].left = 0
    /\ backend = "redis" \/ item[q].attempts < MaxAttempts

Recovered ==
    [q \in Items |->
        IF Expired(q)
        THEN [item[q] EXCEPT !.state = IF item[q].attempts < MaxAttempts THEN "queued" ELSE "failed",
                             !.left = 0]
        ELSE item[q]]

\* What an answer leaves: whoever gives it, and whatever became of the lease.
Acked(q) == [item EXCEPT ![q].state = "completed", ![q].left = 0]

\* Mutant: requeue whatever the attempts.
Nacked_Always(q) == [item EXCEPT ![q].state = "queued", ![q].left = 0]

Nacked(q) ==
    [item EXCEPT ![q].state = IF item[q].attempts < MaxAttempts THEN "queued" ELSE "failed",
                 ![q].left = 0]

\* The hooks of the queue in memory do nothing, and a record lost is not written.
Ack(q) == item' = IF backend = "memory" THEN item ELSE Acked(q)
Nack(q) == item' = IF backend = "memory" THEN item ELSE Nacked(q)

-----------------------------------------------------------------------------
(* the pool                                                                 *)

Submit(q) ==
    /\ submits < MaxSubmits
    /\ submits' = submits + 1
    /\ Enqueue(q)
    /\ UNCHANGED <<backend, worker, inFlight, started, stopping, joining, expired, troubles>>

Start ==
    /\ ~started
    /\ started' = TRUE /\ stopping' = FALSE
    /\ worker' = [w \in Workers |-> Idle]
    /\ UNCHANGED <<backend, item, order, inFlight, joining, expired, submits, troubles>>

\* stop() tells the loops and cancels their tasks; see Cancelled and Stopped.
Stop ==
    /\ started /\ ~stopping /\ troubles < MaxTroubles
    /\ stopping' = TRUE /\ troubles' = troubles + 1
    /\ UNCHANGED <<backend, item, order, worker, inFlight, started, joining, expired, submits>>

Stopped ==
    /\ stopping /\ started /\ \A w \in Workers : worker[w] = Off
    /\ started' = FALSE
    /\ UNCHANGED <<backend, item, order, worker, inFlight, stopping, joining, expired, submits, troubles>>

Taken(w, q) ==
    /\ worker' = [worker EXCEPT ![w] = Runs(q)]
    /\ inFlight' = inFlight + 1

DequeueFromMemory(w) ==
    /\ backend = "memory" /\ worker[w] = Idle /\ ~stopping
    /\ order # <<>>
    /\ Taken(w, Head(order))
    /\ order' = Tail(order)
    /\ UNCHANGED <<backend, item, started, stopping, joining, expired, submits, troubles>>

Ready(records, i) ==
    /\ records[order[i]].state = "queued"
    /\ records[order[i]].attempts < MaxAttempts

\* Mutant: what is taken is not marked.
Leased_Unmarked(record) == [record EXCEPT !.attempts = @ + 1, !.left = TTL]

Leased(record) == [record EXCEPT !.state = "leased", !.attempts = @ + 1, !.left = TTL]

\* Recovery first, then the oldest item that is ready.
DequeueRecord(w) ==
    /\ backend # "memory" /\ worker[w] = Idle /\ ~stopping
    /\ expired' = expired \cup {q \in Items : Expired(q)}
    /\ \/ \E i \in DOMAIN order :
            /\ Ready(Recovered, i) /\ \A j \in 1..(i - 1) : ~Ready(Recovered, j)
            /\ item' = [Recovered EXCEPT ![order[i]] = Leased(@)]
            /\ Taken(w, order[i])
       \/ /\ \A i \in DOMAIN order : ~Ready(Recovered, i)
          /\ \E q \in Items : Expired(q)
          /\ item' = Recovered
          /\ UNCHANGED <<worker, inFlight>>
    /\ UNCHANGED <<backend, order, started, stopping, joining, submits, troubles>>

\* Mutant: a cancelled loop leaves its item counted.
PutDown_Leaks(w, next) ==
    /\ worker' = [worker EXCEPT ![w] = next]
    /\ inFlight' = IF stopping THEN inFlight ELSE inFlight - 1

\* The end of an iteration: the item is put down and the loop goes on, or ends.
PutDown(w, next) ==
    /\ worker' = [worker EXCEPT ![w] = next]
    /\ inFlight' = inFlight - 1

After == IF stopping THEN Off ELSE Idle

HandlerReturns(w, q) ==
    /\ worker[w] = Runs(q)
    /\ Ack(q) /\ PutDown(w, After)
    /\ UNCHANGED <<backend, order, started, stopping, joining, expired, submits, troubles>>

HandlerRaises(w, q) ==
    /\ worker[w] = Runs(q)
    /\ Nack(q) /\ PutDown(w, After)
    /\ UNCHANGED <<backend, order, started, stopping, joining, expired, submits, troubles>>

\* CancelledError where the loop is suspended: in a dequeue, or in the handler.
Cancelled(w) ==
    /\ stopping
    /\ \/ /\ worker[w] = Idle
          /\ worker' = [worker EXCEPT ![w] = Off]
          /\ UNCHANGED <<item, inFlight>>
       \/ \E q \in Items : worker[w] = Runs(q) /\ Nack(q) /\ PutDown(w, Off)
    /\ UNCHANGED <<backend, order, started, stopping, joining, expired, submits, troubles>>

\* A database error ends the loop for good: in a dequeue, or in the answer and
\* in the nack that follows it (an ack that fails alone is HandlerRaises), or
\* behind the answer, where the loop looks whether the queue is empty.
LoopDies(w) ==
    /\ w \notin Stable /\ backend = "sqlite" /\ troubles < MaxTroubles
    /\ troubles' = troubles + 1
    /\ \/ /\ worker[w] = Idle
          /\ worker' = [worker EXCEPT ![w] = Off]
          /\ UNCHANGED <<item, inFlight>>
       \/ \E q \in Items :
            /\ worker[w] = Runs(q)
            /\ UNCHANGED item \/ Ack(q) \/ Nack(q)
            /\ PutDown(w, Off)
    /\ UNCHANGED <<backend, order, started, stopping, joining, expired, submits>>

Join ==
    /\ ~joining
    /\ joining' = TRUE
    /\ UNCHANGED <<backend, item, order, worker, inFlight, started, stopping, expired, submits, troubles>>

Empty == IF backend = "memory" THEN order = <<>> ELSE \A q \in Items : item[q].state # "queued"

\* Mutant: nothing in flight is enough.
Joined_Unlooked ==
    /\ joining /\ inFlight = 0
    /\ joining' = FALSE
    /\ UNCHANGED <<backend, item, order, worker, inFlight, started, stopping, expired, submits, troubles>>

Joined ==
    /\ joining /\ inFlight = 0 /\ Empty
    /\ joining' = FALSE
    /\ UNCHANGED <<backend, item, order, worker, inFlight, started, stopping, expired, submits, troubles>>

-----------------------------------------------------------------------------
(* leases and failures                                                      *)

\* renew_lease by a handler, for whoever holds the lease by now.
Renew(w, q) ==
    /\ worker[w] = Runs(q) /\ backend # "memory" /\ item[q].state = "leased"
    /\ item' = [item EXCEPT ![q].left = TTL]
    /\ UNCHANGED <<backend, order, worker, inFlight, started, stopping, joining, expired, submits, troubles>>

RecoverExpired ==
    /\ backend # "memory" /\ \E q \in Items : Expired(q)
    /\ item' = Recovered
    /\ expired' = expired \cup {q \in Items : Expired(q)}
    /\ UNCHANGED <<backend, order, worker, inFlight, started, stopping, joining, submits, troubles>>

Tick ==
    /\ \E q \in Items : item[q].state = "leased" /\ item[q].left > 0
    /\ item' = [q \in Items |->
                  IF item[q].state = "leased" /\ item[q].left > 0
                  THEN [item[q] EXCEPT !.left = @ - 1] ELSE item[q]]
    /\ UNCHANGED <<backend, order, worker, inFlight, started, stopping, joining, expired, submits, troubles>>

\* The process dies, and with it what is not in the database.
Crash ==
    /\ troubles < MaxTroubles
    /\ troubles' = troubles + 1
    /\ worker' = [w \in Workers |-> Off]
    /\ inFlight' = 0
    /\ started' = FALSE /\ stopping' = FALSE /\ joining' = FALSE
    /\ IF backend = "sqlite"
       THEN UNCHANGED <<item, order, expired>>
       ELSE item' = [q \in Items |-> NoRecord] /\ order' = <<>> /\ expired' = {}
    /\ UNCHANGED <<backend, submits>>

Next ==
    \/ Start \/ Stop \/ Stopped \/ Join \/ Joined \/ RecoverExpired \/ Tick \/ Crash
    \/ \E q \in Items : Submit(q)
    \/ \E w \in Workers :
          \/ DequeueFromMemory(w) \/ DequeueRecord(w) \/ Cancelled(w) \/ LoopDies(w)
          \/ \E q \in Items : HandlerReturns(w, q) \/ HandlerRaises(w, q) \/ Renew(w, q)

Spec == Init /\ [][Next]_vars

\* The application starts its pool again and somebody always joins; handlers
\* end; time passes; loops of Stable workers go on.
Fairness ==
    /\ WF_vars(Start) /\ WF_vars(Stopped) /\ WF_vars(Joined) /\ WF_vars(Tick)
    /\ \A w \in Workers :
          /\ WF_vars(\E q \in Items : HandlerReturns(w, q) \/ HandlerRaises(w, q))
          /\ WF_vars(Cancelled(w))
    /\ \A w \in Stable : WF_vars(DequeueFromMemory(w) \/ DequeueRecord(w))

FairSpec == Spec /\ Fairness

-----------------------------------------------------------------------------
(* properties                                                               *)

TypeOK ==
    /\ backend \in Backends
    /\ item \in [Items -> Record]
    /\ order \in Seq(Items)
    /\ worker \in [Workers -> {Idle, Off} \cup {Runs(q) : q \in Items}]
    /\ inFlight \in Nat
    /\ started \in BOOLEAN /\ stopping \in BOOLEAN /\ joining \in BOOLEAN
    /\ expired \subseteq Items
    /\ troubles \in Nat

\* _in_flight counts the workers that have an item, through errors, stops and
\* restarts; a pool that is not started has no worker left.
InFlightCounts ==
    /\ inFlight = Cardinality({w \in Workers : worker[w].at = "running"})
    /\ ~started => \A w \in Workers : worker[w] = Off

\* A queued item has an attempt left, or no dequeue would ever select it; it
\* has failed only when none is left.
AttemptsLeft ==
    \A q \in Items :
        /\ item[q].state = "queued" => item[q].attempts < MaxAttempts
        /\ item[q].state = "failed" => item[q].attempts = MaxAttempts

\* As long as no lease of an item was taken back, at most one worker runs it,
\* and the item is leased meanwhile.
OneRunner ==
    backend # "memory" =>
        \A q \in Items \ expired :
            /\ \A v, w \in Runners(q) : v = w
            /\ Runners(q) # {} => item[q].state = "leased"

\* The inductive invariant of the pool: the counter that join trusts is right,
\* no item waits without an attempt left (_dequeue_once would pass it over for
\* ever), and a second worker runs an item only after its lease ran out.
PoolIInv == TypeOK /\ InFlightCounts /\ AttemptsLeft /\ OneRunner

\* An item that was completed, and whose lease never ran out, is never run again:
\* not by an answer, a recovery, a duplicate submission or a restart.
CompletedForGood ==
    [][\A q \in Items \ expired :
          item[q].state = "completed" =>
             \/ item'[q].state = "completed"
             \/ backend # "sqlite" /\ item'[q] = NoRecord]_vars

\* When join returns, no worker has an item and none waits.
JoinMeansIdle ==
    [][joining /\ ~joining' /\ troubles' = troubles =>
          /\ \A q \in Items : Runners(q) = {} /\ (backend # "memory" => item[q].state # "queued")
          /\ backend = "memory" => order = <<>>]_vars

\* Every item that waits or is leased is settled some day, whoever else's loop
\* died; but for one whose last attempt lost its worker, on SQLite, and what
\* dies with the process in Redis's stand-in.
ItemsSettle ==
    \A q \in Items :
        item[q].state \in {"queued", "leased"} ~>
            \/ item[q].state \in {"completed", "failed", "absent"}
            \/ backend = "sqlite" /\ item[q].attempts = MaxAttempts /\ Runners(q) = {}

\* join returns (or its process has died).
JoinReturns == joining ~> ~joining

-----------------------------------------------------------------------------
(* what the documents say and the code does not                             *)

\* docs/sprints/sprint13_reliability_architecture.md:19 "queued -> leased ->
\* completed" is the end of an item.
CompletedIsFinal ==
    [][backend = "sqlite" => \A q \in Items :
          item[q].state = "completed" => item'[q].state = "completed"]_vars

=============================================================================
