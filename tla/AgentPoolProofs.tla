-------------------------- MODULE AgentPoolProofs --------------------------
(***************************************************************************)
(* What holds of the pool and its queue for every number of items, workers *)
(* and attempts and for every lease time.                                  *)
(***************************************************************************)
EXTENDS AgentPool, FiniteSetTheorems, TLAPS

Places == {Idle, Off} \cup {Runs(q) : q \in Items}

Running(placed) == {w \in Workers : placed[w].at = "running"}

LEMMA ConstantsTyped ==
    /\ Nothing \notin Items /\ MaxAttempts \in Nat /\ MaxAttempts > 0
    /\ TTL \in Nat /\ IsFiniteSet(Workers)
BY PoolConstantsOK

\* The three kinds of places are told apart by "at", and runs by their items.
LEMMA PlacesApart ==
    /\ Idle.at = "idle" /\ Off.at = "off" /\ Idle \in Places /\ Off \in Places
    /\ \A q \in Items : Runs(q).at = "running" /\ Runs(q).item = q /\ Runs(q) \in Places
    /\ \A q \in Items : Runs(q) # Idle /\ Runs(q) # Off
    /\ \A p, q \in Items : Runs(p) = Runs(q) => p = q
BY DEF Idle, Off, Runs, Places

\* A worker that takes an item is one more that runs.
LEMMA OneMoreRuns ==
    ASSUME worker \in [Workers -> Places], NEW w \in Workers, NEW q \in Items,
           worker[w].at # "running", worker' = [worker EXCEPT ![w] = Runs(q)]
    PROVE  /\ Cardinality(Running(worker)) \in Nat
           /\ Cardinality(Running(worker')) = Cardinality(Running(worker)) + 1
<1>1. Running(worker') = Running(worker) \cup {w}
  BY PlacesApart DEF Running
<1>2. IsFiniteSet(Running(worker))
  BY ConstantsTyped, FS_Subset DEF Running
<1>3. w \notin Running(worker)
  BY DEF Running
<1> QED BY <1>1, <1>2, <1>3, FS_AddElement, FS_CardinalityType

\* A worker that puts its item down is one less.
LEMMA OneLessRuns ==
    ASSUME worker \in [Workers -> Places], NEW w \in Workers, NEW p \in {Idle, Off},
           worker[w].at = "running", worker' = [worker EXCEPT ![w] = p]
    PROVE  /\ Cardinality(Running(worker)) \in Nat \ {0}
           /\ Cardinality(Running(worker')) = Cardinality(Running(worker)) - 1
<1>1. Running(worker') = Running(worker) \ {w}
  BY PlacesApart DEF Running
<1>2. IsFiniteSet(Running(worker))
  BY ConstantsTyped, FS_Subset DEF Running
<1>3. w \in Running(worker)
  BY DEF Running
<1>4. Cardinality(Running(worker')) = Cardinality(Running(worker)) - 1
  BY <1>1, <1>2, <1>3, FS_RemoveElement
<1>5. Cardinality(Running(worker)) # 0
  BY <1>2, <1>3, FS_EmptySet
<1> QED BY <1>2, <1>4, <1>5, FS_CardinalityType

LEMMA NobodyRuns ==
    ASSUME NEW placed, \A w \in Workers : placed[w].at # "running"
    PROVE  Cardinality(Running(placed)) = 0
<1>1. Running(placed) = {}
  BY DEF Running
<1> QED BY <1>1, FS_EmptySet

\* The records an answer, a recovery, a renewal or a tick leaves.
LEMMA RecordTypes ==
    ASSUME NEW r \in Record
    PROVE  /\ NoRecord \in Record
           /\ [NoRecord EXCEPT !.state = "queued"] \in Record
           /\ \A s \in {"queued", "completed", "failed"} : [r EXCEPT !.state = s, !.left = 0] \in Record
           /\ [r EXCEPT !.left = TTL] \in Record
           /\ r.left > 0 => [r EXCEPT !.left = r.left - 1] \in Record
           /\ r.attempts < MaxAttempts => Leased(r) \in Record
<1>1. NoRecord \in Record /\ [NoRecord EXCEPT !.state = "queued"] \in Record
  BY ConstantsTyped DEF NoRecord, Record
<1>2. \A s \in {"queued", "completed", "failed"} : [r EXCEPT !.state = s, !.left = 0] \in Record
  <2>1. TAKE s \in {"queued", "completed", "failed"}
  <2>3. r.attempts \in 0..MaxAttempts /\ 0 \in 0..TTL
    BY ConstantsTyped DEF Record
  <2>4. s \in {"absent", "queued", "leased", "completed", "failed"}
    OBVIOUS
  <2> QED BY <2>3, <2>4 DEF Record
<1>3. [r EXCEPT !.left = TTL] \in Record /\ (r.left > 0 => [r EXCEPT !.left = r.left - 1] \in Record)
  BY ConstantsTyped DEF Record
<1>4. r.attempts < MaxAttempts => Leased(r) \in Record
  <2>1. HAVE r.attempts < MaxAttempts
  <2>2. r.attempts + 1 \in 0..MaxAttempts /\ TTL \in 0..TTL
    BY <2>1, ConstantsTyped DEF Record
  <2> QED BY <2>2 DEF Record, Leased
<1> QED BY <1>1, <1>2, <1>3, <1>4

-----------------------------------------------------------------------------
(* what a change of the records or of the workers keeps                     *)

Recorded(records) ==
    /\ records \in [Items -> Record]
    /\ \A q \in Items :
          /\ records[q].state = "queued" => records[q].attempts < MaxAttempts
          /\ records[q].state = "failed" => records[q].attempts = MaxAttempts

\* An answer to q settles or requeues q and leaves the other items alone.
LEMMA AnswerRecorded ==
    ASSUME Recorded(item), NEW q \in Items, item' \in {item, Acked(q), Nacked(q)}
    PROVE  Recorded(item') /\ \A p \in Items : p # q => item'[p] = item[p]
<1>1. CASE item' = item
  BY <1>1
<1>2. CASE item' = Acked(q)
  <2>1. item' = [item EXCEPT ![q] = [item[q] EXCEPT !.state = "completed", !.left = 0]]
    BY <1>2 DEF Acked, Recorded
  <2>2. [item[q] EXCEPT !.state = "completed", !.left = 0] \in Record
    BY RecordTypes DEF Recorded
  <2> QED BY <2>1, <2>2 DEF Recorded, Record
<1>3. CASE item' = Nacked(q)
  <2>1. PICK s \in {"queued", "failed"} :
          /\ item' = [item EXCEPT ![q] = [item[q] EXCEPT !.state = s, !.left = 0]]
          /\ s = IF item[q].attempts < MaxAttempts THEN "queued" ELSE "failed"
    BY <1>3 DEF Nacked, Recorded
  <2>2. [item[q] EXCEPT !.state = s, !.left = 0] \in Record
    BY RecordTypes DEF Recorded
  <2>3. item[q].attempts \in 0..MaxAttempts /\ MaxAttempts \in Nat
    BY ConstantsTyped DEF Recorded, Record
  <2> QED BY <2>1, <2>2, <2>3 DEF Recorded, Record
<1> QED BY <1>1, <1>2, <1>3

\* Recovery touches the expired leases alone.
LEMMA RecoveredRecorded ==
    ASSUME Recorded(item)
    PROVE  /\ Recorded(Recovered)
           /\ \A q \in Items : ~Expired(q) => Recovered[q] = item[q]
<1>1. \A q \in Items : ~Expired(q) => Recovered[q] = item[q]
  BY DEF Recovered
<1>2. ASSUME NEW q \in Items, Expired(q)
      PROVE  /\ Recovered[q] \in Record
             /\ Recovered[q].state = "queued" => Recovered[q].attempts < MaxAttempts
             /\ Recovered[q].state = "failed" => Recovered[q].attempts = MaxAttempts
  <2>1. PICK s \in {"queued", "failed"} :
          /\ Recovered[q] = [item[q] EXCEPT !.state = s, !.left = 0]
          /\ s = IF item[q].attempts < MaxAttempts THEN "queued" ELSE "failed"
    BY <1>2 DEF Recovered
  <2>2. [item[q] EXCEPT !.state = s, !.left = 0] \in Record
    BY RecordTypes DEF Recorded
  <2>3. item[q].attempts \in 0..MaxAttempts /\ MaxAttempts \in Nat
    BY ConstantsTyped DEF Recorded, Record
  <2> QED BY <2>1, <2>2, <2>3 DEF Recorded, Record
<1>3. \A q \in Items : Recovered[q] \in Record
  BY <1>1, <1>2 DEF Recorded
<1>4. Recovered \in [Items -> Record]
  BY <1>3 DEF Recovered
<1> QED BY <1>1, <1>2, <1>4 DEF Recorded

\* No worker starts to run an item, and an item that changes is run by nobody.
LEMMA KeepsOneRunner ==
    ASSUME OneRunner, backend' = backend, expired \subseteq expired',
           \A q \in Items \ expired' :
              /\ Runners(q)' \subseteq Runners(q)
              /\ Runners(q)' # {} => item'[q].state = item[q].state
    PROVE  OneRunner'
BY DEF OneRunner

\* A worker that is not at work moves to another place where it is not.
LEMMA MovesAtRest ==
    ASSUME TypeOK, InFlightCounts, NEW w \in Workers, NEW p \in {Idle, Off},
           worker[w] \in {Idle, Off}, worker' = [worker EXCEPT ![w] = p],
           inFlight' = inFlight, started' = started, p = Idle => started
    PROVE  /\ worker' \in [Workers -> Places]
           /\ InFlightCounts'
           /\ \A q \in Items : Runners(q)' = Runners(q)
<1>1. worker \in [Workers -> Places]
  BY DEF TypeOK, Places
<1>2. worker' \in [Workers -> Places]
  BY <1>1, PlacesApart
<1>3. Running(worker') = Running(worker)
  BY <1>1, PlacesApart DEF Running
<1>4. \A q \in Items : Runners(q)' = Runners(q)
  BY <1>1, PlacesApart DEF Runners
<1>5. inFlight' = Cardinality(Running(worker'))
  BY <1>3 DEF InFlightCounts, Running
<1>6. ~started' => \A v \in Workers : worker'[v] = Off
  BY <1>1 DEF InFlightCounts
<1> QED BY <1>2, <1>4, <1>5, <1>6 DEF InFlightCounts, Running

\* A worker that ran q, and puts it down.
LEMMA PutsDown ==
    ASSUME TypeOK, InFlightCounts, NEW w \in Workers, NEW q \in Items, NEW p \in {Idle, Off},
           worker[w] = Runs(q), PutDown(w, p), started' = started
    PROVE  /\ worker' \in [Workers -> Places]
           /\ inFlight' \in Nat
           /\ InFlightCounts'
           /\ \A r \in Items : Runners(r)' = Runners(r) \ {w}
<1>1. worker \in [Workers -> Places] /\ worker[w].at = "running"
      /\ worker' = [worker EXCEPT ![w] = p]
  BY PlacesApart DEF TypeOK, Places, PutDown
<1>2. worker' \in [Workers -> Places]
  BY <1>1, PlacesApart
<1>3. /\ inFlight = Cardinality(Running(worker))
      /\ inFlight' = Cardinality(Running(worker')) /\ inFlight' \in Nat
  <2>1. inFlight = Cardinality(Running(worker)) /\ inFlight' = inFlight - 1
    BY DEF InFlightCounts, Running, PutDown
  <2>2. /\ Cardinality(Running(worker)) \in Nat \ {0}
        /\ Cardinality(Running(worker')) = Cardinality(Running(worker)) - 1
    BY <1>1, OneLessRuns
  <2> QED BY <2>1, <2>2
<1>4. \A r \in Items : Runners(r)' = Runners(r) \ {w}
  BY <1>1, PlacesApart DEF Runners
<1>5. started
  BY <1>1, PlacesApart DEF InFlightCounts
<1> QED BY <1>2, <1>3, <1>4, <1>5 DEF InFlightCounts, Running

-----------------------------------------------------------------------------
(* one lemma per kind of step                                               *)

LEMMA RecordedIs == (item \in [Items -> Record] /\ AttemptsLeft) <=> Recorded(item)
BY DEF AttemptsLeft, Recorded

LEMMA InitPool == Init => PoolIInv
<1> SUFFICES ASSUME Init PROVE PoolIInv
  OBVIOUS
<1>1. \A w \in Workers : worker[w] = Off
  BY DEF Init
<1>2. TypeOK
  <2>1. NoRecord \in Record
    BY ConstantsTyped DEF NoRecord, Record
  <2>2. worker \in [Workers -> Places]
    BY PlacesApart DEF Init
  <2>3. item \in [Items -> Record] /\ order \in Seq(Items) /\ inFlight \in Nat /\ expired \subseteq Items
    BY <2>1 DEF Init
  <2>4. backend \in Backends /\ started \in BOOLEAN /\ stopping \in BOOLEAN /\ joining \in BOOLEAN
        /\ troubles \in Nat
    BY DEF Init
  <2> QED BY <2>2, <2>3, <2>4 DEF TypeOK, Places
<1>3. InFlightCounts
  <2>1. Cardinality(Running(worker)) = 0
    BY <1>1, NobodyRuns, PlacesApart
  <2> QED BY <1>1, <2>1 DEF Init, InFlightCounts, Running
<1>4. AttemptsLeft
  BY DEF Init, AttemptsLeft, NoRecord
<1>5. OneRunner
  BY <1>1, PlacesApart DEF OneRunner, Runners
<1> QED BY <1>2, <1>3, <1>4, <1>5 DEF PoolIInv

\* A new record is nobody's: what a duplicate could restart has no runner.
LEMMA SubmitStep ==
    ASSUME PoolIInv, NEW q \in Items, Submit(q)
    PROVE  PoolIInv'
<1> USE DEF PoolIInv
<1>1. UNCHANGED <<backend, worker, inFlight, started, stopping, joining, expired, troubles>>
  BY DEF Submit
<1>2. order' \in Seq(Items)
  <2>1. order \in Seq(Items) /\ (order' = order \/ order' = Append(order, q))
    BY DEF Submit, Enqueue, TypeOK
  <2> QED BY <2>1
<1>3. \/ item' = item
      \/ /\ item' = New(q)
         /\ item[q].state \in {"absent", "failed"} /\ backend # "memory"
  BY DEF Submit, Enqueue, NotKnown
<1>4. Recorded(item') /\ \A r \in Items : r # q => item'[r] = item[r]
  <2>1. CASE item' = item
    BY <2>1, RecordedIs DEF TypeOK
  <2>2. CASE item' = New(q)
    <3>1. item' = [item EXCEPT ![q] = [NoRecord EXCEPT !.state = "queued"]]
      BY <2>2 DEF New
    <3>2. [NoRecord EXCEPT !.state = "queued"] = [state |-> "queued", attempts |-> 0, left |-> 0]
      BY DEF NoRecord
    <3>3. [state |-> "queued", attempts |-> 0, left |-> 0] \in Record
      BY ConstantsTyped DEF Record
    <3> QED BY <3>1, <3>2, <3>3, RecordedIs, ConstantsTyped DEF TypeOK, Recorded
  <2> QED BY <1>3, <2>1, <2>2
<1>5. TypeOK'
  BY <1>1, <1>2, <1>4 DEF TypeOK, Recorded
<1>6. InFlightCounts' /\ AttemptsLeft'
  BY <1>1, <1>4 DEF InFlightCounts, AttemptsLeft, Recorded
<1>7. OneRunner'
  <2>1. \A r \in Items : Runners(r)' = Runners(r)
    BY <1>1 DEF Runners
  <2>2. \A r \in Items \ expired' : Runners(r)' # {} => item'[r].state = item[r].state
    BY <1>1, <1>3, <1>4, <2>1 DEF OneRunner
  <2> QED BY <1>1, <2>1, <2>2, KeepsOneRunner
<1> QED BY <1>5, <1>6, <1>7

\* A pool starts with no item in flight, and stops with none.
LEMMA PoolStep ==
    ASSUME PoolIInv, Start \/ Stop \/ Stopped \/ Join \/ Joined
    PROVE  PoolIInv'
<1> USE DEF PoolIInv
<1>1. UNCHANGED <<backend, item, order, inFlight, expired>>
  BY DEF Start, Stop, Stopped, Join, Joined
<1>2. /\ worker' = worker \/ worker' = [w \in Workers |-> Idle]
      /\ worker' # worker => ~started /\ started'
      /\ ~started' => \A w \in Workers : worker'[w] = Off
      /\ started' \in BOOLEAN /\ stopping' \in BOOLEAN /\ joining' \in BOOLEAN
  BY DEF Start, Stop, Stopped, Join, Joined, TypeOK, InFlightCounts
<1>3. worker' \in [Workers -> Places] /\ \A q \in Items : Runners(q)' \subseteq Runners(q)
  BY <1>2, PlacesApart DEF TypeOK, Places, Runners
<1>4. TypeOK'
  <2>1. troubles' \in Nat
    <3>1. troubles \in Nat /\ (troubles' = troubles \/ troubles' = troubles + 1)
      BY DEF Start, Stop, Stopped, Join, Joined, TypeOK
    <3> QED BY <3>1
  <2> QED BY <1>1, <1>2, <1>3, <2>1 DEF TypeOK, Places
<1>5. inFlight' = Cardinality(Running(worker'))
  <2>1. CASE worker' = worker
    BY <1>1, <2>1 DEF InFlightCounts, Running
  <2>2. CASE worker' # worker
    <3>1. \A w \in Workers : worker[w].at # "running" /\ worker'[w].at # "running"
      BY <1>2, <2>2, PlacesApart DEF InFlightCounts
    <3>2. Cardinality(Running(worker)) = 0 /\ Cardinality(Running(worker')) = 0
      BY <3>1, NobodyRuns
    <3> QED BY <1>1, <3>2 DEF InFlightCounts, Running
  <2> QED BY <2>1, <2>2
<1>6. InFlightCounts' /\ AttemptsLeft'
  BY <1>1, <1>2, <1>5 DEF InFlightCounts, Running, AttemptsLeft
<1>7. OneRunner'
  BY <1>1, <1>3, KeepsOneRunner
<1> QED BY <1>4, <1>6, <1>7

\* The item that is taken had no runner, for as its lease never ran out it
\* would have been leased and not queued.
LEMMA DequeueStep ==
    ASSUME PoolIInv, NEW w \in Workers, DequeueFromMemory(w) \/ DequeueRecord(w)
    PROVE  PoolIInv'
<1> USE DEF PoolIInv
<1>1. /\ UNCHANGED <<backend, started, stopping, joining, troubles>>
      /\ expired' \subseteq Items /\ expired \subseteq expired'
      /\ order' \in Seq(Items)
  <2>1. CASE DequeueFromMemory(w)
    BY <2>1 DEF DequeueFromMemory, TypeOK
  <2>2. CASE DequeueRecord(w)
    BY <2>2 DEF DequeueRecord, TypeOK
  <2> QED BY <2>1, <2>2
<1>2. worker[w] = Idle /\ worker \in [Workers -> Places] /\ worker[w].at # "running" /\ started
  <2>1. worker[w] = Idle /\ worker \in [Workers -> Places]
    BY DEF DequeueFromMemory, DequeueRecord, TypeOK, Places
  <2> QED BY <2>1, PlacesApart DEF InFlightCounts
<1>3. Recorded(item) /\ Recorded(Recovered)
  BY RecordedIs, RecoveredRecorded DEF TypeOK
<1>4. CASE item' = Recovered /\ UNCHANGED <<worker, inFlight>> /\ DequeueRecord(w)
  <2>1. \A q \in Items \ expired' : item'[q] = item[q]
    BY <1>3, <1>4, RecoveredRecorded DEF DequeueRecord
  <2>2. \A q \in Items : Runners(q)' = Runners(q)
    BY <1>4 DEF Runners
  <2>3. TypeOK'
    BY <1>1, <1>3, <1>4 DEF TypeOK, Recorded
  <2>4. InFlightCounts' /\ AttemptsLeft'
    BY <1>1, <1>3, <1>4 DEF InFlightCounts, AttemptsLeft, Recorded
  <2>5. OneRunner'
    BY <1>1, <2>1, <2>2, KeepsOneRunner
  <2> QED BY <2>3, <2>4, <2>5
<1>5. ASSUME NEW q \in Items, Taken(w, q), Recorded(item'),
             backend # "memory" =>
                /\ item'[q].state = "leased"
                /\ q \notin expired' => item[q].state = "queued"
                /\ \A r \in Items \ expired' : r # q => item'[r] = item[r]
      PROVE  PoolIInv'
  <2>1. /\ inFlight = Cardinality(Running(worker)) /\ inFlight' = inFlight + 1
        /\ worker' = [worker EXCEPT ![w] = Runs(q)]
    BY <1>5 DEF Taken, InFlightCounts, Running
  <2>2. inFlight' = Cardinality(Running(worker')) /\ inFlight' \in Nat
    <3>1. /\ Cardinality(Running(worker)) \in Nat
          /\ Cardinality(Running(worker')) = Cardinality(Running(worker)) + 1
      BY <1>2, <2>1, OneMoreRuns
    <3> QED BY <2>1, <3>1
  <2>3. worker' \in [Workers -> Places]
    BY <1>2, <2>1, PlacesApart
  <2>4. TypeOK'
    BY <1>1, <1>5, <2>2, <2>3 DEF TypeOK, Recorded, Places
  <2>5. InFlightCounts' /\ AttemptsLeft'
    BY <1>1, <1>2, <1>5, <2>2 DEF InFlightCounts, Running, AttemptsLeft, Recorded
  <2>6. OneRunner'
    <3>1. \A r \in Items : r # q => Runners(r)' = Runners(r)
      BY <1>2, <2>1, PlacesApart DEF Runners
    <3>2. Runners(q)' = Runners(q) \cup {w}
      BY <1>2, <2>1, PlacesApart DEF Runners
    <3>3. backend # "memory" /\ q \notin expired' => Runners(q) = {}
      BY <1>1, <1>5 DEF OneRunner
    <3>4. ASSUME backend # "memory", NEW r \in Items \ expired', r # q
          PROVE  Runners(r)' = Runners(r) /\ item'[r] = item[r] /\ r \notin expired
      BY <1>1, <1>5, <3>1, <3>4
    <3> QED BY <1>1, <1>5, <3>2, <3>3, <3>4 DEF OneRunner
  <2> QED BY <2>4, <2>5, <2>6
<1>6. CASE DequeueFromMemory(w)
  <2>1. Head(order) \in Items
    BY <1>6 DEF DequeueFromMemory, TypeOK
  <2>2. Taken(w, Head(order)) /\ item' = item /\ backend = "memory"
    BY <1>6 DEF DequeueFromMemory
  <2> QED BY <1>3, <1>5, <2>1, <2>2
<1>7. ASSUME NEW i \in DOMAIN order, DequeueRecord(w), Ready(Recovered, i),
             item' = [Recovered EXCEPT ![order[i]] = Leased(@)], Taken(w, order[i])
      PROVE  PoolIInv'
  <2> DEFINE q == order[i]
  <2>0. order \in Seq(Items)
    BY DEF TypeOK
  <2>1. q \in Items /\ Recovered[q].state = "queued" /\ Recovered[q].attempts < MaxAttempts
    BY <1>7, <2>0 DEF Ready
  <2>2. Recovered \in [Items -> Record] /\ item' = [Recovered EXCEPT ![q] = Leased(Recovered[q])]
    BY <1>3, <1>7 DEF Recorded
  <2>3. Leased(Recovered[q]) \in Record /\ Leased(Recovered[q]).state = "leased"
    <3>1. Recovered[q] \in Record
      BY <2>1, <2>2
    <3>2. Leased(Recovered[q]) \in Record
      BY <2>1, <3>1, RecordTypes
    <3>3. Leased(Recovered[q]).state = "leased"
      BY <3>1 DEF Leased, Record
    <3> QED BY <3>2, <3>3
  <2>4. Recorded(item') /\ item'[q].state = "leased" /\ \A r \in Items : r # q => item'[r] = Recovered[r]
    BY <1>3, <2>1, <2>2, <2>3 DEF Recorded
  <2>5. \A r \in Items \ expired' : Recovered[r] = item[r]
    BY <1>3, <1>7, RecoveredRecorded, RecordedIs DEF DequeueRecord, TypeOK
  <2> HIDE DEF q
  <2>6. Taken(w, q)
    BY <1>7 DEF q
  <2>7. q \notin expired' => item[q].state = "queued"
    BY <2>1, <2>5
  <2>8. \A r \in Items \ expired' : r # q => item'[r] = item[r]
    BY <2>4, <2>5
  <2> QED BY <1>5, <2>1, <2>4, <2>6, <2>7, <2>8
<1> QED BY <1>4, <1>6, <1>7 DEF DequeueRecord

\* Whatever a loop does with the item it puts down, it is no longer counted.
LEMMA AnswerStep ==
    ASSUME PoolIInv, NEW w \in Workers, NEW q \in Items, NEW p \in {Idle, Off},
           worker[w] = Runs(q), PutDown(w, p), item' \in {item, Acked(q), Nacked(q)},
           UNCHANGED <<backend, order, started, stopping, joining, expired>>, troubles' \in Nat
    PROVE  PoolIInv'
<1> USE DEF PoolIInv
<1>1. /\ worker' \in [Workers -> Places] /\ inFlight' \in Nat
      /\ InFlightCounts'
      /\ \A r \in Items : Runners(r)' = Runners(r) \ {w}
  BY PutsDown
<1>2. Recorded(item') /\ \A r \in Items : r # q => item'[r] = item[r]
  BY RecordedIs, AnswerRecorded DEF TypeOK
<1>3. TypeOK'
  BY <1>1, <1>2 DEF TypeOK, Recorded, Places
<1>4. AttemptsLeft'
  BY <1>2 DEF AttemptsLeft, Recorded
<1>5. OneRunner'
  <2>1. w \in Runners(q)
    BY DEF Runners
  <2>2. backend # "memory" /\ q \notin expired => Runners(q)' = {}
    BY <1>1, <2>1 DEF OneRunner
  <2> QED BY <1>1, <1>2, <2>2 DEF OneRunner
<1> QED BY <1>1, <1>3, <1>4, <1>5

LEMMA WorkerStep ==
    ASSUME PoolIInv, NEW w \in Workers,
           \/ Cancelled(w) \/ LoopDies(w)
           \/ \E q \in Items : HandlerReturns(w, q) \/ HandlerRaises(w, q)
    PROVE  PoolIInv'
<1>1. UNCHANGED <<backend, order, started, stopping, joining, expired>> /\ troubles' \in Nat
  BY DEF PoolIInv, TypeOK, Cancelled, LoopDies, HandlerReturns, HandlerRaises
<1>2. CASE \E q \in Items, p \in {Idle, Off} :
              worker[w] = Runs(q) /\ PutDown(w, p) /\ item' \in {item, Acked(q), Nacked(q)}
  BY <1>1, <1>2, AnswerStep
<1>3. CASE /\ worker[w] = Idle /\ worker' = [worker EXCEPT ![w] = Off]
           /\ UNCHANGED <<item, inFlight>>
  <2>1. /\ worker' \in [Workers -> Places] /\ InFlightCounts'
        /\ \A q \in Items : Runners(q)' = Runners(q)
    <3>1. worker[w] \in {Idle, Off} /\ Off \in {Idle, Off} /\ Off # Idle
      BY <1>3 DEF Idle, Off
    <3> QED BY <1>1, <1>3, <3>1, MovesAtRest DEF PoolIInv
  <2>2. TypeOK' /\ AttemptsLeft'
    BY <1>1, <1>3, <2>1 DEF PoolIInv, TypeOK, AttemptsLeft, Places
  <2>3. OneRunner'
    BY <1>1, <1>3, <2>1, KeepsOneRunner DEF PoolIInv
  <2> QED BY <2>1, <2>2, <2>3 DEF PoolIInv
<1>4. After \in {Idle, Off}
  BY DEF After
<1>5. \A q \in Items : (Ack(q) => item' \in {item, Acked(q), Nacked(q)})
                      /\ (Nack(q) => item' \in {item, Acked(q), Nacked(q)})
  BY DEF Ack, Nack
<1>6. CASE Cancelled(w)
  BY <1>2, <1>3, <1>5, <1>6 DEF Cancelled
<1>7. CASE LoopDies(w)
  BY <1>2, <1>3, <1>5, <1>7 DEF LoopDies
<1>8. CASE \E q \in Items : HandlerReturns(w, q) \/ HandlerRaises(w, q)
  BY <1>2, <1>4, <1>5, <1>8 DEF HandlerReturns, HandlerRaises
<1> QED BY <1>6, <1>7, <1>8

\* What renewals, recoveries and time do to the records alone.
LEMMA RecordStep ==
    ASSUME PoolIInv,
           \/ RecoverExpired \/ Tick
           \/ \E w \in Workers, q \in Items : Renew(w, q)
    PROVE  PoolIInv'
<1> USE DEF PoolIInv
<1>1. /\ UNCHANGED <<backend, order, worker, inFlight, started, stopping, joining, troubles>>
      /\ expired' \subseteq Items /\ expired \subseteq expired'
  BY DEF RecoverExpired, Tick, Renew, TypeOK
<1>2. /\ Recorded(item')
      /\ \A q \in Items \ expired' : item'[q].state = item[q].state
  <2>1. CASE RecoverExpired
    BY <2>1, RecoveredRecorded, RecordedIs DEF RecoverExpired, TypeOK
  <2>2. CASE Tick
    <3>1. \A q \in Items : /\ item'[q] \in Record
                           /\ item'[q].state = item[q].state /\ item'[q].attempts = item[q].attempts
      <4>1. TAKE q \in Items
      <4>2. \/ item'[q] = item[q]
            \/ item[q].left > 0 /\ item'[q] = [item[q] EXCEPT !.left = item[q].left - 1]
        BY <2>2 DEF Tick
      <4>3. item[q] \in Record
        BY DEF TypeOK
      <4>4. item'[q] \in Record
        BY <4>2, <4>3, RecordTypes
      <4>5. item'[q].state = item[q].state /\ item'[q].attempts = item[q].attempts
        BY <4>2, <4>3 DEF Record
      <4> QED BY <4>4, <4>5
    <3>2. item' \in [Items -> Record]
      BY <2>2, <3>1 DEF Tick
    <3> QED BY <3>1, <3>2 DEF Recorded, AttemptsLeft
  <2>3. CASE \E w \in Workers, q \in Items : Renew(w, q)
    <3>1. PICK w \in Workers, q \in Items : Renew(w, q)
      BY <2>3
    <3>2. item[q] \in Record /\ item \in [Items -> Record]
          /\ item' = [item EXCEPT ![q] = [item[q] EXCEPT !.left = TTL]]
      BY <3>1 DEF Renew, TypeOK
    <3>3. [item[q] EXCEPT !.left = TTL] \in Record
      BY <3>2, RecordTypes
    <3>4. /\ [item[q] EXCEPT !.left = TTL].state = item[q].state
          /\ [item[q] EXCEPT !.left = TTL].attempts = item[q].attempts
      BY <3>2 DEF Record
    <3> QED BY <3>2, <3>3, <3>4 DEF Recorded, AttemptsLeft
  <2> QED BY <2>1, <2>2, <2>3
<1>3. \A q \in Items : Runners(q)' = Runners(q)
  BY <1>1 DEF Runners
<1>4. TypeOK'
  BY <1>1, <1>2 DEF TypeOK, Recorded
<1>5. InFlightCounts' /\ AttemptsLeft'
  BY <1>1, <1>2 DEF InFlightCounts, AttemptsLeft, Recorded
<1>6. OneRunner'
  BY <1>1, <1>2, <1>3, KeepsOneRunner
<1> QED BY <1>4, <1>5, <1>6

LEMMA CrashStep ==
    ASSUME PoolIInv, Crash
    PROVE  PoolIInv'
<1> USE DEF PoolIInv
<1>1. \/ UNCHANGED <<item, order, expired>>
      \/ item' = [q \in Items |-> NoRecord] /\ order' = <<>> /\ expired' = {}
  BY DEF Crash
<1>2. /\ worker' = [w \in Workers |-> Off] /\ inFlight' = 0 /\ backend' = backend
      /\ started' = FALSE /\ stopping' = FALSE /\ joining' = FALSE /\ troubles' \in Nat
  BY DEF Crash, TypeOK
<1>3. Recorded(item') /\ order' \in Seq(Items) /\ expired' \subseteq Items
  <2>1. NoRecord \in Record /\ NoRecord.state = "absent"
    BY ConstantsTyped DEF NoRecord, Record
  <2>2. CASE UNCHANGED <<item, order, expired>>
    BY <2>2, RecordedIs DEF TypeOK
  <2>3. CASE item' = [q \in Items |-> NoRecord] /\ order' = <<>> /\ expired' = {}
    BY <2>1, <2>3 DEF Recorded
  <2> QED BY <1>1, <2>2, <2>3
<1>4. \A w \in Workers : worker'[w] = Off
  BY <1>2
<1>5. worker' \in [Workers -> Places]
  BY <1>2, PlacesApart
<1>6. TypeOK'
  BY <1>2, <1>3, <1>5 DEF TypeOK, Recorded, Places
<1>7. InFlightCounts'
  <2>1. Cardinality(Running(worker')) = 0
    BY <1>4, NobodyRuns, PlacesApart
  <2> QED BY <1>2, <1>4, <2>1 DEF InFlightCounts, Running
<1>8. AttemptsLeft' /\ OneRunner'
  <2>1. \A q \in Items : Runners(q)' = {}
    BY <1>4, PlacesApart DEF Runners
  <2> QED BY <1>3, <2>1 DEF AttemptsLeft, Recorded, OneRunner
<1> QED BY <1>6, <1>7, <1>8

LEMMA NextPool == PoolIInv /\ [Next]_vars => PoolIInv'
<1> SUFFICES ASSUME PoolIInv, [Next]_vars PROVE PoolIInv'
  OBVIOUS
<1>1. CASE UNCHANGED vars
  BY <1>1 DEF vars, PoolIInv, TypeOK, InFlightCounts, AttemptsLeft, OneRunner, Runners
<1>2. CASE Start \/ Stop \/ Stopped \/ Join \/ Joined
  BY <1>2, PoolStep
<1>3. CASE RecoverExpired \/ Tick
  BY <1>3, RecordStep
<1>4. CASE Crash
  BY <1>4, CrashStep
<1>5. ASSUME NEW q \in Items, Submit(q) PROVE PoolIInv'
  BY <1>5, SubmitStep
<1>6. ASSUME NEW w \in Workers, DequeueFromMemory(w) \/ DequeueRecord(w) PROVE PoolIInv'
  BY <1>6, DequeueStep
<1>7. ASSUME NEW w \in Workers, Cancelled(w) \/ LoopDies(w) PROVE PoolIInv'
  BY <1>7, WorkerStep
<1>8. ASSUME NEW w \in Workers, NEW q \in Items, HandlerReturns(w, q) \/ HandlerRaises(w, q)
      PROVE  PoolIInv'
  BY <1>8, WorkerStep
<1>9. ASSUME NEW w \in Workers, NEW q \in Items, Renew(w, q) PROVE PoolIInv'
  BY <1>9, RecordStep
<1> QED BY <1>1, <1>2, <1>3, <1>4, <1>5, <1>6, <1>7, <1>8, <1>9 DEF Next

-----------------------------------------------------------------------------
(* theorems                                                                 *)

\* The counter that join trusts, the attempts of what waits or failed, and the
\* one runner of an item whose lease never ran out.
THEOREM PoolInvariance == Spec => []PoolIInv
BY InitPool, NextPool, PTL DEF Spec

\* What was completed under a lease that never ran out is never run again.
THEOREM CompletedStaysCompleted == Spec => CompletedForGood
<1> DEFINE Keeps == \A q \in Items \ expired :
                       item[q].state = "completed" =>
                          \/ item'[q].state = "completed"
                          \/ backend # "sqlite" /\ item'[q] = NoRecord
<1>1. PoolIInv /\ [Next]_vars => [Keeps]_vars
  <2> SUFFICES ASSUME PoolIInv, [Next]_vars,
                      NEW q \in Items \ expired, item[q].state = "completed"
               PROVE  \/ item'[q].state = "completed"
                      \/ backend # "sqlite" /\ item'[q] = NoRecord
    OBVIOUS
  <2>1. /\ item \in [Items -> Record] /\ Recorded(item) /\ ~Expired(q)
        /\ backend # "memory" => Runners(q) = {}
    BY RecordedIs DEF PoolIInv, TypeOK, OneRunner, Expired
  <2>2. Recovered[q] = item[q]
    BY <2>1, RecoveredRecorded
  <2>3. CASE UNCHANGED item
    BY <2>3
  <2>4. ASSUME NEW p \in Items, NEW w \in Workers,
               worker[w] = Runs(p), (Ack(p) \/ Nack(p)), ~UNCHANGED item
        PROVE  item'[q] = item[q]
    <3>1. backend # "memory" /\ item' \in {Acked(p), Nacked(p)}
      BY <2>4 DEF Ack, Nack
    <3>2. p # q
      BY <2>1, <2>4, <3>1 DEF Runners
    <3> QED BY <2>1, <3>1, <3>2, AnswerRecorded
  <2>5. ASSUME NEW p \in Items, Submit(p) PROVE item'[q] = item[q]
    BY <2>1, <2>5 DEF Submit, Enqueue, NotKnown, New
  <2>6. ASSUME NEW w \in Workers, DequeueFromMemory(w) \/ DequeueRecord(w)
        PROVE  item'[q] = item[q]
    <3>1. CASE UNCHANGED item
      BY <3>1
    <3>2. CASE item' = Recovered
      BY <2>2, <3>2
    <3>3. ASSUME NEW i \in DOMAIN order, Ready(Recovered, i),
                 item' = [Recovered EXCEPT ![order[i]] = Leased(@)]
          PROVE  item'[q] = item[q]
      <4>1. order[i] # q
        BY <2>2, <3>3 DEF Ready
      <4> QED BY <2>2, <3>3, <4>1 DEF Recovered
    <3> QED BY <2>6, <3>1, <3>2, <3>3 DEF DequeueFromMemory, DequeueRecord
  <2>7. ASSUME NEW w \in Workers, Cancelled(w) \/ LoopDies(w) PROVE item'[q] = item[q]
    BY <2>4, <2>7 DEF Cancelled, LoopDies
  <2>8. ASSUME NEW w \in Workers, NEW p \in Items, HandlerReturns(w, p) \/ HandlerRaises(w, p)
        PROVE  item'[q] = item[q]
    BY <2>4, <2>8 DEF HandlerReturns, HandlerRaises
  <2>9. ASSUME NEW w \in Workers, NEW p \in Items, Renew(w, p) PROVE item'[q] = item[q]
    BY <2>1, <2>9 DEF Renew
  <2>10. CASE RecoverExpired
    BY <2>2, <2>10 DEF RecoverExpired
  <2>11. CASE Tick
    BY <2>1, <2>11 DEF Tick
  <2>12. CASE Crash
    BY <2>12 DEF Crash
  <2>13. CASE UNCHANGED vars \/ Start \/ Stop \/ Stopped \/ Join \/ Joined
    BY <2>3, <2>13 DEF vars, Start, Stop, Stopped, Join, Joined
  <2> QED BY <2>5, <2>6, <2>7, <2>8, <2>9, <2>10, <2>11, <2>12, <2>13 DEF Next
<1> QED BY <1>1, PoolInvariance, PTL DEF Spec, CompletedForGood

\* When join returns, nothing runs and nothing waits.
THEOREM JoinMeansIdleAlways == Spec => JoinMeansIdle
<1> DEFINE Left == joining /\ ~joining' /\ troubles' = troubles =>
                      /\ \A q \in Items : Runners(q) = {} /\ (backend # "memory" => item[q].state # "queued")
                      /\ backend = "memory" => order = <<>>
<1>1. PoolIInv /\ [Next]_vars => [Left]_vars
  <2> SUFFICES ASSUME PoolIInv, [Next]_vars, joining, ~joining', troubles' = troubles
               PROVE  /\ \A q \in Items : Runners(q) = {} /\ (backend # "memory" => item[q].state # "queued")
                      /\ backend = "memory" => order = <<>>
    OBVIOUS
  <2>1. ~Crash
    <3>1. troubles \in Nat
      BY DEF PoolIInv, TypeOK
    <3> QED BY <3>1 DEF Crash
  <2>2. Joined
    BY <2>1 DEF Next, vars, Start, Stop, Stopped, Join, RecoverExpired, Tick, Submit, DequeueFromMemory,
        DequeueRecord, Cancelled, LoopDies, HandlerReturns, HandlerRaises, Renew
  <2>3. \A q \in Items : Runners(q) = {}
    <3>1. Cardinality(Running(worker)) = 0 /\ IsFiniteSet(Running(worker))
      BY <2>2, ConstantsTyped, FS_Subset DEF PoolIInv, InFlightCounts, Running, Joined
    <3>2. Running(worker) = {}
      BY <3>1, FS_EmptySet
    <3> QED BY <3>2, PlacesApart DEF Running, Runners
  <2> QED BY <2>2, <2>3 DEF Joined, Empty
<1> QED BY <1>1, PoolInvariance, PTL DEF Spec, JoinMeansIdle

=============================================================================
