-------------------------- MODULE EventStoreProofs --------------------------
(***************************************************************************)
(* What EventStore guarantees for every number of writers, readers and     *)
(* projects, every page size and every bound.                              *)
(***************************************************************************)
EXTENDS EventStoreRefinement, FunctionTheorems, FiniteSetTheorems, SequenceTheorems, TLAPS

-----------------------------------------------------------------------------
(* Lemmas about the queries.                                               *)

\* The newest row of a gap-free stream is the one before the next position.
LEMMA NewestContiguous ==
    ASSUME NEW rows, NEW next \in Nat \ {0}, Contiguous(rows, next)
    PROVE  Newest(rows) = next - 1
<1>1. CASE next = 1
  <2>1. rows = {}
    BY <1>1 DEF Contiguous, PositionsOf
  <2> QED BY <1>1, <2>1 DEF Newest
<1>2. CASE next # 1
  <2>1. rows # {}
    BY <1>2 DEF Contiguous, PositionsOf
  <2>2. /\ next - 1 \in PositionsOf(rows)
        /\ \A m \in PositionsOf(rows) : m <= next - 1
        /\ \A m \in PositionsOf(rows) : m \in Nat
    BY <1>2 DEF Contiguous
  <2>3. \A n \in PositionsOf(rows) :
          (\A m \in PositionsOf(rows) : m <= n) => n = next - 1
    BY <2>2
  <2> QED BY <2>1, <2>2, <2>3 DEF Newest
<1> QED BY <1>1, <1>2

\* The hash an append chains to is the one the audit will expect before it.
LEMMA LatestHashContiguous ==
    ASSUME NEW rows, NEW next \in Nat \ {0}, Contiguous(rows, next)
    PROVE  LatestHash(rows) = HashOf(rows, next - 1)
BY NewestContiguous DEF LatestHash, HashOf

\* Appending the next position to a gap-free stream leaves it gap-free.
LEMMA ContiguousAppend ==
    ASSUME NEW rows, NEW next \in Nat \ {0}, Contiguous(rows, next),
           NEW e, e.pos = next
    PROVE  Contiguous(rows \cup {e}, next + 1)
<1>1. PositionsOf(rows \cup {e}) = PositionsOf(rows) \cup {next}
  BY DEF PositionsOf
<1>2. PositionsOf(rows \cup {e}) = (1..(next - 1)) \cup {next}
  BY <1>1 DEF Contiguous
<1>2a. (next + 1) - 1 = next /\ 1..next = (1..(next - 1)) \cup {next}
  OBVIOUS
<1>3. PositionsOf(rows \cup {e}) = 1..((next + 1) - 1)
  BY <1>2, <1>2a, Zenon
<1>4. \A f \in rows : f.pos \in 1..(next - 1)
  BY DEF Contiguous, PositionsOf
<1>5. \A f, g \in rows \cup {e} : f.pos = g.pos => f = g
  BY <1>4 DEF Contiguous
<1> QED BY <1>3, <1>5 DEF Contiguous

\* Appending a row chained to the newest hash keeps the audit clean.
LEMMA ChainAppend ==
    ASSUME NEW rows, NEW next \in Nat \ {0}, Contiguous(rows, next),
           Mismatches(rows) = {},
           NEW e, e.pos = next, e.prev = LatestHash(rows)
    PROVE  Mismatches(rows \cup {e}) = {}
<1>1. \A f \in rows : f.pos \in 1..(next - 1)
  BY DEF Contiguous, PositionsOf
<1>2. \A n \in 0..(next - 1) : HashOf(rows \cup {e}, n) = HashOf(rows, n)
  BY DEF HashOf
<1>3. e.prev = HashOf(rows, next - 1)
  BY LatestHashContiguous
<1>4. SUFFICES ASSUME NEW f \in rows \cup {e}, f.hashed,
                      f.prev # HashOf(rows \cup {e}, f.pos - 1)
               PROVE  FALSE
  BY DEF Mismatches
<1>5. CASE f = e
  BY <1>2, <1>3, <1>4, <1>5
<1>6. CASE f \in rows
  <2>1. f.prev = HashOf(rows, f.pos - 1)
    BY <1>4, <1>6 DEF Mismatches, PositionsOf
  <2> QED BY <1>1, <1>2, <1>4, <1>6, <2>1
<1> QED BY <1>4, <1>5, <1>6

\* The page is the interval after the cursor, and it is empty only when the
\* cursor has reached the end of the range.
IsPage(page, cursor, through, next, last) ==
    /\ last \in cursor..(next - 1)
    /\ page = (cursor + 1)..last
    /\ through # 0 => last <= through
    /\ last = cursor => (last = next - 1 \/ last = through)

\* A page of a gap-free stream is the interval that follows the cursor: it
\* starts right after it, and it is empty only at the end of the range.
LEMMA PageContiguous ==
    ASSUME NEW rows, NEW next \in Nat \ {0}, Contiguous(rows, next),
           NEW cursor \in Nat, cursor < next,
           NEW through \in Nat, through # 0 => cursor <= through /\ through < next
    PROVE  \E last : IsPage(Page(rows, cursor, through), cursor, through, next, last)
<1> DEFINE top == IF through = 0 THEN next - 1 ELSE through
           wanted == {n \in PositionsOf(rows) :
                         n > cursor /\ (through = 0 \/ n <= through)}
           last == IF top <= cursor + PageSize THEN top ELSE cursor + PageSize
<1>0. PageSize \in Nat \ {0}
  BY ConstantsOK
<1>1. wanted = (cursor + 1)..top
  BY DEF Contiguous
<1> HIDE DEF wanted
<1>2. \A n \in wanted : Cardinality({m \in wanted : m <= n}) = n - cursor
  <2> TAKE n \in wanted
  <2>1. {m \in wanted : m <= n} = (cursor + 1)..n
    BY <1>1
  <2>2. n \in Int /\ cursor + 1 \in Int /\ cursor + 1 <= n
    BY <1>1
  <2>3. Cardinality((cursor + 1)..n) = n - (cursor + 1) + 1
    BY <2>2, FS_Interval
  <2>4. n - (cursor + 1) + 1 = n - cursor
    BY <2>2
  <2> QED BY <2>1, <2>3, <2>4, Zenon
<1>3. Page(rows, cursor, through) = {n \in wanted : n - cursor <= PageSize}
  BY <1>2 DEF Page, wanted
<1>4. Page(rows, cursor, through) = (cursor + 1)..last
  BY <1>0, <1>1, <1>3
<1>5. last \in cursor..(next - 1) /\ (through # 0 => last <= through)
      /\ (last = cursor => (last = next - 1 \/ last = through))
  BY <1>0
<1> QED BY <1>4, <1>5 DEF IsPage

-----------------------------------------------------------------------------
(* Type correctness.                                                       *)

LEMMA NewestType ==
    ASSUME NEW rows \in SUBSET Event, NEW next \in Nat \ {0}, Contiguous(rows, next)
    PROVE  Newest(rows) \in Nat /\ LatestHash(rows) \in Nat
BY NewestContiguous DEF LatestHash, Genesis

LEMMA IdleType == NoTransaction \in Transaction
BY ConstantsOK DEF NoTransaction, Transaction, Phases, Event

LEMMA LockType ==
    ASSUME TypeOK, NEW w \in Writers, NEW p \in Projects,
           Release(w) \/ Acquire(w, p) \/ UNCHANGED lock
    PROVE  lock' \in [Projects -> Writers \cup {NoWriter}]
BY DEF TypeOK, Release, Acquire

\* Every transaction sees a gap-free stream that ends before its counter.
LEMMA ViewContiguous ==
    ASSUME StoreIInv, NEW w \in Writers
    PROVE  /\ Counter(w) \in Nat \ {0}
           /\ tx[w].project \in Projects
           /\ View(w) \in SUBSET Event
           /\ Contiguous(View(w), Counter(w))
<1>1. /\ tx[w] \in Transaction
      /\ nextPosition[tx[w].project] \in Nat \ {0}
      /\ events[tx[w].project] \in SUBSET Event
  BY DEF StoreIInv, TypeOK, Transaction
<1>2. tx[w].project \in Projects /\ tx[w].next \in Nat /\ tx[w].batch \in SUBSET Event
  BY <1>1 DEF Transaction
<1>3. CASE tx[w].next = 0
  <2>1. View(w) = events[tx[w].project] /\ Counter(w) = nextPosition[tx[w].project]
    BY <1>3 DEF View, Counter, StoreIInv, TransactionsOK
  <2> QED BY <1>1, <1>2, <2>1 DEF StoreIInv, PositionsContiguous
<1>4. CASE tx[w].next # 0
  <2>1. Counter(w) = tx[w].next /\ Contiguous(View(w), tx[w].next)
    BY <1>4 DEF Counter, StoreIInv, TransactionsOK
  <2> QED BY <1>1, <1>2, <1>4, <2>1 DEF View
<1> QED BY <1>3, <1>4

LEMMA BeginType ==
    ASSUME StoreIInv, NEW w \in Writers, NEW p \in Projects, Begin(w, p)
    PROVE  TypeOK'
<1>1. [NoTransaction EXCEPT !.phase = "open", !.project = p] \in Transaction
  BY IdleType DEF Transaction, Phases
<1>2. tx' \in [Writers -> Transaction]
  BY <1>1 DEF StoreIInv, TypeOK, Begin
<1>3. lock' \in [Projects -> Writers \cup {NoWriter}]
  BY LockType DEF StoreIInv, Begin
<1> QED BY <1>2, <1>3 DEF StoreIInv, TypeOK, Begin

LEMMA ReadHashType ==
    ASSUME StoreIInv, NEW w \in Writers, ReadHash(w)
    PROVE  TypeOK'
<1>1. LatestHash(View(w)) \in Nat
  BY ViewContiguous, NewestType
<1>2. [tx[w] EXCEPT !.phase = "hashed", !.head = LatestHash(View(w))] \in Transaction
  BY <1>1 DEF StoreIInv, TypeOK, Transaction, Phases
<1>3. tx' \in [Writers -> Transaction]
  BY <1>2 DEF StoreIInv, TypeOK, ReadHash, View
<1> QED BY <1>3 DEF StoreIInv, TypeOK, ReadHash

LEMMA InsertType ==
    ASSUME StoreIInv, NEW w \in Writers, Insert(w)
    PROVE  TypeOK'
<1> DEFINE e == [pos |-> Counter(w), prev |-> tx[w].head, hashed |-> TRUE, by |-> w]
<1>1. tx[w] \in Transaction /\ Counter(w) \in Nat \ {0} /\ tx[w].project \in Projects
  BY ViewContiguous DEF StoreIInv, TypeOK
<1>2. e \in Event
  BY <1>1 DEF Event, Transaction
<1> HIDE DEF e
<1>3. [tx[w] EXCEPT !.phase = "open", !.next = Counter(w) + 1, !.batch = @ \cup {e}]
        \in Transaction
  <2>1. tx[w].batch \cup {e} \in SUBSET Event
    BY <1>1, <1>2 DEF Transaction
  <2>2. Counter(w) + 1 \in Nat
    BY <1>1
  <2>3. \A b \in SUBSET Event, n \in Nat :
           [tx[w] EXCEPT !.phase = "open", !.next = n, !.batch = b] \in Transaction
    BY <1>1, Zenon DEF Transaction, Phases
  <2> QED BY <2>1, <2>2, <2>3
<1>4. tx' \in [Writers -> Transaction]
  BY <1>3 DEF StoreIInv, TypeOK, Insert, e
<1>5. lock' \in [Projects -> Writers \cup {NoWriter}]
  BY <1>1, LockType DEF StoreIInv, Insert
<1> QED BY <1>4, <1>5 DEF StoreIInv, TypeOK, Insert

LEMMA CommitType ==
    ASSUME StoreIInv, NEW w \in Writers, Commit(w)
    PROVE  TypeOK'
<1> DEFINE p == tx[w].project
<1>1. /\ p \in Projects /\ tx[w].batch \in SUBSET Event
      /\ tx[w].next \in Nat \ {0}
  BY DEF StoreIInv, TypeOK, Transaction, TransactionsOK, Commit
<1>2. events' \in [Projects -> SUBSET Event]
  BY <1>1 DEF StoreIInv, TypeOK, Commit
<1>3. nextPosition' \in [Projects -> Nat \ {0}]
  BY <1>1 DEF StoreIInv, TypeOK, Commit
<1>4. tx' \in [Writers -> Transaction]
  BY IdleType DEF StoreIInv, TypeOK, Commit
<1>5. lock' \in [Projects -> Writers \cup {NoWriter}]
  BY <1>1, LockType DEF StoreIInv, Commit
<1> QED BY <1>2, <1>3, <1>4, <1>5 DEF StoreIInv, TypeOK, Commit

LEMMA RollbackType ==
    ASSUME StoreIInv, NEW w \in Writers, Rollback(w)
    PROVE  TypeOK'
<1>1. tx' \in [Writers -> Transaction]
  BY IdleType DEF StoreIInv, TypeOK, Rollback
<1>2. lock' \in [Projects -> Writers \cup {NoWriter}]
  BY DEF StoreIInv, TypeOK, Rollback, Release
<1> QED BY <1>1, <1>2 DEF StoreIInv, TypeOK, Rollback

-----------------------------------------------------------------------------
(* Writers preserve the invariant.  A step of one writer leaves what every *)
(* other transaction sees alone: the row lock keeps them apart.            *)

LEMMA InitStoreIInv == Init => StoreIInv
<1> SUFFICES ASSUME Init PROVE StoreIInv
  OBVIOUS
<1>1. Legacy \in Nat /\ (CHOOSE p \in Projects : TRUE) \in Projects
  BY ConstantsOK
<1>2a. \A n \in 1..Legacy : /\ LegacyRow(n) \in Event
                           /\ LegacyRow(n).pos = n
                           /\ ~LegacyRow(n).hashed
  BY <1>1 DEF LegacyRow, Event, Genesis
<1>2. LegacyEvents \in SUBSET Event
  BY <1>2a DEF LegacyEvents
<1>3. TypeOK
  BY <1>1, <1>2, IdleType DEF Init, TypeOK, Client
<1>4. Contiguous(LegacyEvents, Legacy + 1)
  <2>1. \A n : n \in PositionsOf(LegacyEvents) <=> n \in 1..Legacy
    BY <1>2a DEF LegacyEvents, PositionsOf
  <2>2. (Legacy + 1) - 1 = Legacy
    BY <1>1
  <2>3. \A e, f \in LegacyEvents : e.pos = f.pos => e = f
    BY <1>2a DEF LegacyEvents
  <2> QED BY <2>1, <2>2, <2>3 DEF Contiguous
<1>5. PositionsContiguous
  BY <1>4 DEF Init, PositionsContiguous
<1>6. TransactionsOK
  BY DEF Init, TransactionsOK, NoTransaction
<1>7. ChainOK
  <2>1. Mismatches(LegacyEvents) = {}
    BY <1>2a DEF Mismatches, LegacyEvents
  <2> QED BY <2>1 DEF Init, ChainOK, VerifyIntegrityOK, NoTransaction
<1>8. ReadersOK
  <2> USE DEF ReadersOK
  <2>1. 0 < Legacy + 1 /\ {} = (0 + 1)..0
    BY <1>1
  <2> TAKE r \in Readers
  <2>2. /\ reader[r].from = 0 /\ reader[r].cursor = 0 /\ reader[r].through = 0
        /\ reader[r].seen = {}
        /\ reader[r].project \in Projects
    BY <1>1 DEF Init
  <2>3. nextPosition[reader[r].project] = Legacy + 1
    BY <2>2 DEF Init
  <2> QED BY <2>1, <2>2, <2>3
<1> QED BY <1>3, <1>5, <1>6, <1>7, <1>8 DEF StoreIInv

\* ReadersOK survives whatever only lengthens the streams.
LEMMA ReadersKept ==
    ASSUME StoreIInv, UNCHANGED reader, TypeOK',
           \A p \in Projects : nextPosition[p] <= nextPosition'[p]
    PROVE  ReadersOK'
BY DEF StoreIInv, TypeOK, ReadersOK, Client

LEMMA BeginIInv ==
    ASSUME StoreIInv, NEW w \in Writers, NEW p \in Projects, Begin(w, p)
    PROVE  StoreIInv'
<1>1. TypeOK'
  BY BeginType
<1>2. /\ tx'[w].phase = "open" /\ tx'[w].next = 0 /\ tx'[w].batch = {}
      /\ tx'[w].project = p
      /\ \A v \in Writers \ {w} : tx'[v] = tx[v]
      /\ events' = events /\ nextPosition' = nextPosition /\ reader' = reader
  BY DEF Begin, StoreIInv, TypeOK, NoTransaction
<1>3. PositionsContiguous'
  BY <1>2 DEF StoreIInv, PositionsContiguous
<1>4. \A v \in Writers \ {w} : View(v)' = View(v)
  BY <1>2 DEF View
<1>5. \A v \in Writers \ {w}, q \in Projects : lock[q] = v => lock'[q] = v
  BY ConstantsOK DEF Begin, Acquire, StoreIInv, TypeOK
<1>6. TransactionsOK'
  BY <1>2, <1>4, <1>5, ViewContiguous DEF StoreIInv, TransactionsOK
<1>7. ASSUME Backend = "sqlite" PROVE
        /\ VerifyIntegrityOK'
        /\ \A q \in Projects : lock'[q] = w
        /\ \A v \in Writers \ {w} : tx'[v].phase = "idle"
  <2>1. \A q \in Projects : lock[q] \in {NoWriter, w} /\ lock'[q] = w
    BY <1>7 DEF Begin, Acquire, LockScope
  <2>2. \A v \in Writers \ {w} : tx[v].phase = "idle"
    BY <1>7, <2>1, ConstantsOK DEF StoreIInv, ChainOK
  <2> QED BY <1>2, <1>7, <2>1, <2>2 DEF StoreIInv, ChainOK, VerifyIntegrityOK
<1>8. ChainOK'
  <2>1. View(w)' = events[p]
    BY <1>2 DEF View
  <2> QED BY <1>2, <1>7, <2>1 DEF ChainOK, VerifyIntegrityOK
<1>9. ReadersOK'
  BY <1>1, <1>2, ReadersKept DEF StoreIInv, TypeOK
<1> QED BY <1>1, <1>3, <1>6, <1>8, <1>9 DEF StoreIInv

LEMMA ReadHashIInv ==
    ASSUME StoreIInv, NEW w \in Writers, ReadHash(w)
    PROVE  StoreIInv'
<1>1. TypeOK'
  BY ReadHashType
<1>2. /\ tx[w].phase = "open" /\ tx'[w].phase = "hashed"
      /\ tx'[w].next = tx[w].next /\ tx'[w].batch = tx[w].batch
      /\ tx'[w].project = tx[w].project
      /\ tx'[w].head = LatestHash(View(w))
      /\ \A v \in Writers \ {w} : tx'[v] = tx[v]
      /\ UNCHANGED <<events, nextPosition, lock, reader>>
  BY DEF ReadHash, StoreIInv, TypeOK, View, Transaction
<1>3. PositionsContiguous'
  BY <1>2 DEF StoreIInv, PositionsContiguous
<1>4. \A v \in Writers : View(v)' = View(v)
  BY <1>2 DEF View
<1>5. TransactionsOK'
  BY <1>2, <1>4 DEF StoreIInv, TransactionsOK
<1>6. ChainOK'
  BY <1>2, <1>4 DEF StoreIInv, ChainOK, VerifyIntegrityOK
<1>7. ReadersOK'
  BY <1>1, <1>2, ReadersKept DEF StoreIInv, TypeOK
<1> QED BY <1>1, <1>3, <1>5, <1>6, <1>7 DEF StoreIInv

LEMMA InsertIInv ==
    ASSUME StoreIInv, NEW w \in Writers, Insert(w)
    PROVE  StoreIInv'
<1> DEFINE p == tx[w].project
           e == [pos |-> Counter(w), prev |-> tx[w].head, hashed |-> TRUE, by |-> w]
<1>1. TypeOK'
  BY InsertType
<1>2. /\ tx[w].phase = "hashed" /\ tx'[w].phase = "open"
      /\ tx'[w].next = Counter(w) + 1
      /\ tx'[w].batch = tx[w].batch \cup {e}
      /\ tx'[w].project = p
      /\ \A v \in Writers \ {w} : tx'[v] = tx[v]
      /\ UNCHANGED <<events, nextPosition, reader>>
  BY DEF Insert, StoreIInv, TypeOK, Transaction
<1>3. /\ Counter(w) \in Nat \ {0} /\ p \in Projects
      /\ Contiguous(View(w), Counter(w))
  BY ViewContiguous
<1>4. View(w)' = View(w) \cup {e} /\ e.pos = Counter(w) /\ e.prev = tx[w].head
  BY <1>2 DEF View
<1>5. \A v \in Writers \ {w} : View(v)' = View(v)
  BY <1>2 DEF View
<1>6. /\ lock'[p] = w
      /\ \A v \in Writers, q \in Projects : lock[q] = v => lock'[q] = v
  BY <1>3, ConstantsOK DEF Insert, Acquire, LockScope, StoreIInv, TypeOK
<1> HIDE DEF e
<1>7. Contiguous(View(w)', tx'[w].next)
  <2>1. Contiguous(View(w) \cup {e}, Counter(w) + 1)
    BY <1>3, <1>4, ContiguousAppend
  <2> QED BY <1>2, <1>4, <2>1
<1>8. PositionsContiguous'
  BY <1>2 DEF StoreIInv, PositionsContiguous
<1>9. TransactionsOK'
  <2> SUFFICES ASSUME NEW v \in Writers
               PROVE  /\ tx'[v].phase = "idle" => tx'[v].next = 0
                      /\ tx'[v].next = 0 => tx'[v].batch = {}
                      /\ tx'[v].next # 0 => /\ lock'[tx'[v].project] = v
                                            /\ Contiguous(View(v)', tx'[v].next)
    BY DEF TransactionsOK
  <2>1. CASE v = w
    BY <1>2, <1>3, <1>6, <1>7, <2>1
  <2>2. CASE v # w
    BY <1>2, <1>5, <1>6, <2>2, ViewContiguous DEF StoreIInv, TransactionsOK
  <2> QED BY <2>1, <2>2
<1>10. ChainOK'
  <2> SUFFICES ASSUME Backend = "sqlite"
               PROVE  /\ VerifyIntegrityOK'
                      /\ \A v \in Writers :
                          tx'[v].phase # "idle" =>
                            /\ \A q \in Projects : lock'[q] = v
                            /\ Mismatches(View(v)') = {}
                            /\ (tx'[v].phase = "hashed" =>
                                   tx'[v].head = LatestHash(View(v)'))
    BY DEF ChainOK
  <2>1. /\ \A q \in Projects : lock[q] = w
        /\ Mismatches(View(w)) = {} /\ tx[w].head = LatestHash(View(w))
    BY <1>2 DEF StoreIInv, ChainOK
  <2>2. Mismatches(View(w)') = {}
    BY <1>3, <1>4, <2>1, ChainAppend
  <2>3. \A v \in Writers \ {w} : tx'[v].phase = "idle"
    BY <1>2, <1>3, <2>1 DEF StoreIInv, ChainOK
  <2>4. VerifyIntegrityOK'
    BY <1>2 DEF StoreIInv, ChainOK, VerifyIntegrityOK
  <2> QED BY <1>2, <1>6, <2>1, <2>2, <2>3, <2>4
<1>11. ReadersOK'
  BY <1>1, <1>2, ReadersKept DEF StoreIInv, TypeOK
<1> QED BY <1>1, <1>8, <1>9, <1>10, <1>11 DEF StoreIInv

LEMMA CommitIInv ==
    ASSUME StoreIInv, NEW w \in Writers, Commit(w)
    PROVE  StoreIInv'
<1> DEFINE p == tx[w].project
<1>1. TypeOK'
  BY CommitType
<1>2. /\ tx[w].phase = "open" /\ tx[w].batch # {} /\ tx[w].next # 0
      /\ p \in Projects
      /\ lock[p] = w
      /\ Contiguous(View(w), tx[w].next)
  BY DEF Commit, StoreIInv, TypeOK, Transaction, TransactionsOK
<1>3. /\ tx'[w] = NoTransaction
      /\ \A v \in Writers \ {w} : tx'[v] = tx[v]
      /\ events'[p] = View(w) /\ nextPosition'[p] = tx[w].next
      /\ \A q \in Projects \ {p} : events'[q] = events[q] /\ nextPosition'[q] = nextPosition[q]
      /\ reader' = reader
  BY <1>2 DEF Commit, StoreIInv, TypeOK, View
<1>4. PositionsContiguous'
  BY <1>2, <1>3 DEF StoreIInv, PositionsContiguous
<1>5. \A v \in Writers \ {w}, q \in Projects : lock[q] = v => q # p /\ lock'[q] = v
  BY <1>2 DEF Commit, Release, StoreIInv, TypeOK
<1>6. TransactionsOK'
  <2> SUFFICES ASSUME NEW v \in Writers
               PROVE  /\ tx'[v].phase = "idle" => tx'[v].next = 0
                      /\ tx'[v].next = 0 => tx'[v].batch = {}
                      /\ tx'[v].next # 0 => /\ lock'[tx'[v].project] = v
                                            /\ Contiguous(View(v)', tx'[v].next)
    BY DEF TransactionsOK
  <2>1. CASE v = w
    BY <1>3, <2>1 DEF NoTransaction
  <2>2. CASE v # w
    <3>1. /\ tx[v].phase = "idle" => tx[v].next = 0
          /\ tx[v].next = 0 => tx[v].batch = {}
          /\ tx[v].next # 0 => lock[tx[v].project] = v /\ Contiguous(View(v), tx[v].next)
          /\ tx[v].project \in Projects
      BY ViewContiguous DEF StoreIInv, TransactionsOK
    <3>2. ASSUME tx[v].next # 0 PROVE View(v)' = View(v) /\ lock'[tx[v].project] = v
      BY <1>3, <1>5, <2>2, <3>1, <3>2 DEF View
    <3> QED BY <1>3, <2>2, <3>1, <3>2
  <2> QED BY <2>1, <2>2
<1>7. ChainOK'
  <2> SUFFICES ASSUME Backend = "sqlite"
               PROVE  VerifyIntegrityOK' /\ \A v \in Writers : tx'[v].phase = "idle"
    BY DEF ChainOK
  <2>1. Mismatches(View(w)) = {} /\ (\A v \in Writers \ {w} : tx[v].phase = "idle")
    BY <1>2 DEF StoreIInv, ChainOK
  <2>2. VerifyIntegrityOK'
    BY <1>3, <2>1 DEF StoreIInv, ChainOK, VerifyIntegrityOK
  <2> QED BY <1>3, <2>1, <2>2 DEF NoTransaction
<1>8. nextPosition[p] <= nextPosition'[p]
  <2>1. PositionsOf(events[p]) \subseteq PositionsOf(View(w))
    BY DEF PositionsOf, View
  <2>2. 1..(nextPosition[p] - 1) \subseteq 1..(tx[w].next - 1)
    BY <1>2, <2>1 DEF StoreIInv, PositionsContiguous, Contiguous
  <2>3. nextPosition[p] \in Nat \ {0} /\ tx[w].next \in Nat \ {0}
    BY <1>2 DEF StoreIInv, TypeOK, Transaction
  <2>4. nextPosition[p] <= tx[w].next
    BY <2>2, <2>3
  <2> QED BY <1>3, <2>4
<1>9. ReadersOK'
  BY <1>1, <1>3, <1>8, ReadersKept DEF StoreIInv, TypeOK
<1> QED BY <1>1, <1>4, <1>6, <1>7, <1>9 DEF StoreIInv

LEMMA RollbackIInv ==
    ASSUME StoreIInv, NEW w \in Writers, Rollback(w)
    PROVE  StoreIInv'
<1>1. TypeOK'
  BY RollbackType
<1>2. /\ tx'[w] = NoTransaction
      /\ \A v \in Writers \ {w} : tx'[v] = tx[v] /\ View(v)' = View(v)
      /\ UNCHANGED <<events, nextPosition, reader>>
  BY DEF Rollback, StoreIInv, TypeOK, View
<1>3. \A v \in Writers \ {w}, q \in Projects : lock[q] = v => lock'[q] = v
  BY DEF Rollback, Release, StoreIInv, TypeOK
<1>4. PositionsContiguous'
  BY <1>2 DEF StoreIInv, PositionsContiguous
<1>5. TransactionsOK'
  BY <1>2, <1>3, ViewContiguous DEF StoreIInv, TransactionsOK, NoTransaction
<1>6. ChainOK'
  BY <1>2, <1>3 DEF StoreIInv, ChainOK, VerifyIntegrityOK, NoTransaction
<1>7. ReadersOK'
  BY <1>1, <1>2, ReadersKept DEF StoreIInv, TypeOK
<1> QED BY <1>1, <1>4, <1>5, <1>6, <1>7 DEF StoreIInv

-----------------------------------------------------------------------------
(* Readers preserve the invariant.                                         *)

\* A reader's step leaves the store alone: only its own cursor is at stake.
LEMMA ReaderKeepsStore ==
    ASSUME StoreIInv, UNCHANGED <<events, nextPosition, lock, tx>>,
           reader' \in [Readers -> Client], ReadersOK'
    PROVE  StoreIInv'
<1>1. \A w \in Writers : View(w)' = View(w)
  BY DEF View
<1>2. TypeOK' /\ PositionsContiguous'
  BY DEF StoreIInv, TypeOK, PositionsContiguous
<1>3. TransactionsOK' /\ ChainOK'
  BY <1>1 DEF StoreIInv, TransactionsOK, ChainOK, VerifyIntegrityOK
<1> QED BY <1>2, <1>3 DEF StoreIInv

\* A client may start at any cursor of its stream, with any later high-water
\* mark or none.
LEMMA OpenedIInv ==
    ASSUME StoreIInv, NEW r \in Readers, NEW p \in Projects,
           NEW from \in Nat, from < nextPosition[p],
           NEW through \in Nat, through # 0 => from <= through /\ through < nextPosition[p],
           reader' = [reader EXCEPT ![r] = Opened(p, from, through)],
           UNCHANGED <<events, nextPosition, lock, tx>>
    PROVE  StoreIInv'
<1> DEFINE c == Opened(p, from, through)
<1>1. /\ c.project = p /\ c.from = from /\ c.cursor = from /\ c.through = through
      /\ c.seen = {} /\ c.reading = TRUE /\ c \in Client
  BY DEF Opened, Client
<1> HIDE DEF c
<1>2. /\ reader' = [reader EXCEPT ![r] = c] /\ nextPosition' = nextPosition
      /\ reader'[r] = c
      /\ \A q \in Readers \ {r} : reader'[q] = reader[q]
  BY DEF StoreIInv, TypeOK, c
<1>3. reader' \in [Readers -> Client]
  BY <1>1, <1>2 DEF StoreIInv, TypeOK
<1>4. (from + 1)..from = {} /\ from <= from
  OBVIOUS
<1>5. ReadersOK'
  <2> SUFFICES ASSUME NEW q \in Readers
               PROVE  LET d == reader'[q]
                      IN  /\ d.from <= d.cursor /\ d.cursor < nextPosition[d.project]
                          /\ d.seen = (d.from + 1)..d.cursor
                          /\ d.through # 0 => /\ d.cursor <= d.through
                                             /\ d.through < nextPosition[d.project]
                                             /\ (~d.reading => d.cursor = d.through)
    BY <1>2 DEF ReadersOK
  <2>1. CASE q = r
    BY <1>1, <1>2, <1>4, <2>1
  <2>2. CASE q # r
    <3>1. reader'[q] = reader[q]
      BY <1>2, <2>2
    <3> QED BY <3>1 DEF StoreIInv, ReadersOK
  <2> QED BY <2>1, <2>2
<1> QED BY <1>3, <1>5, ReaderKeepsStore

LEMMA StartFollowIInv ==
    ASSUME StoreIInv, NEW r \in Readers, NEW p \in Projects, StartFollow(r, p)
    PROVE  StoreIInv'
<1>1. 0 \in Nat /\ 0 < nextPosition[p]
  BY DEF StoreIInv, TypeOK
<1>2. reader' = [reader EXCEPT ![r] = Opened(p, 0, 0)]
      /\ UNCHANGED <<events, nextPosition, lock, tx>>
  BY DEF StartFollow
<1> QED BY <1>1, <1>2, OpenedIInv

LEMMA StartThroughIInv ==
    ASSUME StoreIInv, NEW r \in Readers, NEW p \in Projects, NEW n, StartThrough(r, p, n)
    PROVE  StoreIInv'
<1> DEFINE top == Newest(events[p])
<1>1. nextPosition[p] \in Nat \ {0} /\ Contiguous(events[p], nextPosition[p])
  BY DEF StoreIInv, TypeOK, PositionsContiguous
<1>2. top = nextPosition[p] - 1
  BY <1>1, NewestContiguous
<1>3. n \in {0} \cup 1..(nextPosition[p] - 1)
  BY <1>1 DEF StartThrough, Contiguous
<1>4. reader' = [reader EXCEPT ![r] = Opened(p, n, top)]
      /\ UNCHANGED <<events, nextPosition, lock, tx>>
  BY DEF StartThrough
<1> HIDE DEF top
<1>5. n \in Nat /\ n < nextPosition[p] /\ top \in Nat /\ n <= top /\ top < nextPosition[p]
  BY <1>1, <1>2, <1>3
<1> QED BY <1>4, <1>5, OpenedIInv

LEMMA ReadPageIInv ==
    ASSUME StoreIInv, NEW r \in Readers, ReadPage(r)
    PROVE  StoreIInv'
<1> DEFINE c == reader[r]
           rows == events[c.project]
           next == nextPosition[c.project]
           page == Page(rows, c.cursor, c.through)
<1>1. /\ c \in Client /\ c.project \in Projects /\ next \in Nat \ {0}
      /\ c.from \in Nat /\ c.cursor \in Nat /\ c.through \in Nat
      /\ Contiguous(rows, next)
  BY DEF StoreIInv, TypeOK, Client, PositionsContiguous
<1>2. /\ c.from <= c.cursor /\ c.cursor < next
      /\ c.seen = (c.from + 1)..c.cursor
      /\ c.through # 0 => c.cursor <= c.through /\ c.through < next
  BY DEF StoreIInv, ReadersOK
<1>3. PICK last : IsPage(page, c.cursor, c.through, next, last)
  <2> DEFINE from == c.cursor
             through == c.through
  <2> HIDE DEF from, through, rows, next
  <2>1. from \in Nat /\ from < next /\ through \in Nat /\ next \in Nat \ {0}
        /\ Contiguous(rows, next)
        /\ (through # 0 => from <= through /\ through < next)
    BY <1>1, <1>2 DEF from, through
  <2>2. \E last : IsPage(Page(rows, from, through), from, through, next, last)
    BY <2>1, PageContiguous
  <2> QED BY <2>2 DEF from, through
<1>3a. /\ last \in c.cursor..(next - 1)
       /\ page = (c.cursor + 1)..last
       /\ c.through # 0 => last <= c.through
       /\ last = c.cursor => (last = next - 1 \/ last = c.through)
  BY <1>3 DEF IsPage
<1>4. last = LastOf(page, c.cursor)
  <2> USE DEF LastOf
  <2>1. CASE last = c.cursor
    BY <1>1, <1>3a, <2>1
  <2>2. CASE last # c.cursor
    <3>1. last \in page /\ \A m \in page : m \in Nat /\ m <= last
      BY <1>1, <1>3a, <2>2
    <3>2. \A n \in page : (\A m \in page : m <= n) => n = last
      BY <3>1, <1>1, <1>3a
    <3> QED BY <3>1, <3>2
  <2> QED BY <2>1, <2>2
<1>5. UNCHANGED <<events, nextPosition, lock, tx>>
  BY DEF ReadPage
<1>6. reader' = [reader EXCEPT
        ![r].seen = @ \cup page,
        ![r].cursor = last,
        ![r].reading = (c.through = 0 \/ (page # {} /\ last # c.through))]
  BY <1>4 DEF ReadPage
<1> HIDE DEF page
<1>7. /\ reader'[r].project = c.project /\ reader'[r].from = c.from
      /\ reader'[r].through = c.through
      /\ reader'[r].cursor = last /\ reader'[r].seen = c.seen \cup page
      /\ reader'[r].reading = (c.through = 0 \/ (page # {} /\ last # c.through))
      /\ \A q \in Readers \ {r} : reader'[q] = reader[q]
  BY <1>1, <1>6 DEF StoreIInv, TypeOK, Client
<1>8. c.seen \cup page = (c.from + 1)..last
  BY <1>1, <1>2, <1>3a
<1>9. page = {} => last = c.cursor
  BY <1>1, <1>3a
<1>10. reader' \in [Readers -> Client]
  <2>1. last \in Nat /\ c.seen \cup page \in SUBSET (Nat \ {0})
    BY <1>1, <1>3a, <1>8, SMTT(30)
  <2>2. \A S \in SUBSET (Nat \ {0}), b \in BOOLEAN :
          [c EXCEPT !.seen = S, !.cursor = last, !.reading = b] \in Client
    BY <1>1, <2>1, Zenon DEF Client
  <2>3. (c.through = 0 \/ (page # {} /\ last # c.through)) \in BOOLEAN
    OBVIOUS
  <2> QED BY <1>6, <2>1, <2>2, <2>3 DEF StoreIInv, TypeOK
<1>11. ReadersOK'
  <2>1. ASSUME NEW q \in Readers \ {r}
        PROVE  /\ reader'[q] = reader[q]
               /\ nextPosition'[reader'[q].project] = nextPosition[reader[q].project]
    BY <1>5, <1>7
  <2>2. /\ c.from <= last /\ last < next
        /\ c.through # 0 => /\ last <= c.through /\ c.through < next
    BY <1>1, <1>2, <1>3a
  <2>3. ASSUME c.through # 0, ~reader'[r].reading PROVE last = c.through
    <3>1. page = {} \/ last = c.through
      BY <1>7, <2>3
    <3>2. CASE page = {}
      <4>1. last = c.cursor /\ (last = next - 1 \/ last = c.through)
        BY <1>3a, <1>9, <3>2
      <4> QED BY <1>1, <2>2, <2>3, <4>1
    <3> QED BY <3>1, <3>2
  <2> QED BY <1>5, <1>7, <1>8, <2>1, <2>2, <2>3, ZenonT(30) DEF StoreIInv, ReadersOK
<1> QED BY <1>5, <1>10, <1>11, ReaderKeepsStore

LEMMA StopIInv ==
    ASSUME StoreIInv, NEW r \in Readers, Stop(r)
    PROVE  StoreIInv'
<1>1. UNCHANGED <<events, nextPosition, lock, tx>>
  BY DEF Stop
<1>2. reader' \in [Readers -> Client]
  <2>1. [reader[r] EXCEPT !.reading = FALSE] \in Client
    BY DEF StoreIInv, TypeOK, Client
  <2> QED BY <2>1 DEF Stop, StoreIInv, TypeOK
<1>3. \A q \in Readers :
        /\ reader'[q].project = reader[q].project /\ reader'[q].from = reader[q].from
        /\ reader'[q].cursor = reader[q].cursor /\ reader'[q].seen = reader[q].seen
        /\ reader'[q].through = reader[q].through
        /\ reader[q].through # 0 => reader'[q].reading = reader[q].reading
  BY DEF Stop, StoreIInv, TypeOK, Client
<1>4. ReadersOK'
  BY <1>1, <1>3 DEF StoreIInv, ReadersOK
<1> QED BY <1>1, <1>2, <1>4, ReaderKeepsStore

-----------------------------------------------------------------------------
LEMMA NextStoreIInv == StoreIInv /\ [Next]_vars => StoreIInv'
<1> SUFFICES ASSUME StoreIInv, [Next]_vars PROVE StoreIInv'
  OBVIOUS
<1>1. ASSUME NEW w \in Writers, WriterStep(w) PROVE StoreIInv'
  BY <1>1, BeginIInv, ReadHashIInv, InsertIInv, CommitIInv, RollbackIInv DEF WriterStep
<1>2. ASSUME NEW r \in Readers, ReaderStep(r) PROVE StoreIInv'
  BY <1>2, StartThroughIInv, StartFollowIInv, ReadPageIInv, StopIInv DEF ReaderStep
<1>3. CASE UNCHANGED vars
  <2>1. UNCHANGED <<events, nextPosition, lock, tx, reader>>
    BY <1>3 DEF vars
  <2> QED BY <2>1, ReaderKeepsStore DEF StoreIInv, TypeOK, ReadersOK
<1> QED BY <1>1, <1>2, <1>3 DEF Next

-----------------------------------------------------------------------------
(* Batches: what a transaction adds continues the committed stream.        *)

\* Rows with distinct positions are as many as their positions.
LEMMA CountRows ==
    ASSUME NEW rows, NEW a \in Int, NEW b \in Int, PositionsOf(rows) = a..b,
           \A e, f \in rows : e.pos = f.pos => e = f
    PROVE  IsFiniteSet(rows) /\ Cardinality(rows) = IF a > b THEN 0 ELSE b - a + 1
<1> DEFINE at == [e \in rows |-> e.pos]
<1>1. at \in [rows -> a..b]
  BY DEF PositionsOf
<1>2. \A e, f \in rows : at[e] = at[f] => e = f
  OBVIOUS
<1>3. \A n \in a..b : \E e \in rows : at[e] = n
  BY DEF PositionsOf
<1> HIDE DEF at
<1>4. at \in Bijection(rows, a..b)
  BY <1>1, <1>2, <1>3, Fun_IsBij, Zenon
<1>5. ExistsBijection(rows, a..b)
  BY <1>4 DEF ExistsBijection
<1>6. ExistsBijection(a..b, rows)
  BY <1>5, Fun_ExistsBijSymmetric, Zenon
<1>7. IsFiniteSet(a..b) /\ Cardinality(a..b) = IF a > b THEN 0 ELSE b - a + 1
  BY FS_Interval
<1>8. IsFiniteSet(rows) /\ Cardinality(rows) = Cardinality(a..b)
  BY <1>6, <1>7, FS_Bijection, Zenon
<1> QED BY <1>7, <1>8

\* The size of a batch is the distance its counter has moved.
LEMMA BatchSize ==
    ASSUME StoreIInv, NEW w \in Writers, BatchOK(w)
    PROVE  /\ IsFiniteSet(tx[w].batch)
           /\ Counter(w) = nextPosition[tx[w].project] + Cardinality(tx[w].batch)
<1>1. /\ tx[w].project \in Projects /\ tx[w].next \in Nat
      /\ nextPosition[tx[w].project] \in Nat \ {0}
  BY DEF StoreIInv, TypeOK, Transaction
<1>2. CASE tx[w].next = 0
  <2>1. tx[w].batch = {}
    BY <1>2 DEF StoreIInv, TransactionsOK
  <2>2. IsFiniteSet({}) /\ Cardinality({}) = 0
    BY FS_EmptySet
  <2> QED BY <1>1, <1>2, <2>1, <2>2 DEF Counter
<1>3. CASE tx[w].next # 0
  <2> DEFINE a == nextPosition[tx[w].project]
             b == tx[w].next - 1
             batch == tx[w].batch
  <2>1. a \in Int /\ b \in Int /\ a <= b /\ PositionsOf(batch) = a..b
    BY <1>1, <1>3 DEF BatchOK
  <2>2. \A e, f \in batch : e.pos = f.pos => e = f
    <3>1. Contiguous(View(w), tx[w].next) /\ batch \subseteq View(w)
      BY <1>3 DEF StoreIInv, TransactionsOK, View
    <3> QED BY <3>1 DEF Contiguous
  <2>3. Counter(w) = b + 1
    BY <1>1, <1>3 DEF Counter
  <2> HIDE DEF a, b, batch
  <2>4. IsFiniteSet(batch) /\ Cardinality(batch) = IF a > b THEN 0 ELSE b - a + 1
    BY <2>1, <2>2, CountRows
  <2>5. Counter(w) = a + Cardinality(batch)
    BY <2>1, <2>3, <2>4
  <2> QED BY <2>4, <2>5 DEF a, batch
<1> QED BY <1>2, <1>3

\* A step of another writer leaves a transaction's batch in order: it cannot
\* move the counter of the stream the transaction has claimed.
LEMMA OthersBatch ==
    ASSUME StoreIInv, TypeOK', NEW w \in Writers, BatchOK(w), tx'[w] = tx[w],
           tx[w].next # 0 => nextPosition'[tx[w].project] = nextPosition[tx[w].project]
    PROVE  BatchOK(w)'
<1> DEFINE p == tx[w].project
<1>1. /\ p \in Projects /\ tx[w].next \in Nat
      /\ nextPosition[p] \in Nat /\ nextPosition'[p] \in Nat
  BY DEF StoreIInv, TypeOK, Transaction
<1>2. tx[w].next = 0 => Counter(w) = nextPosition[p] /\ Counter(w)' = nextPosition'[p]
  BY DEF Counter
<1>3. tx[w].next # 0 => Counter(w) = tx[w].next /\ Counter(w)' = tx[w].next
  BY DEF Counter
<1>4. MaxBatch \in Nat
  BY ConstantsOK
<1>5. tx[w].phase = "hashed" => Counter(w)' < nextPosition'[p] + MaxBatch
  BY <1>1, <1>2, <1>3, <1>4 DEF BatchOK
<1> QED BY <1>5 DEF BatchOK

LEMMA NextBatchesOK == StoreIInv /\ BatchesOK /\ [Next]_vars => BatchesOK'
<1> SUFFICES ASSUME StoreIInv, BatchesOK, [Next]_vars, NEW v \in Writers
             PROVE  BatchOK(v)'
  BY DEF BatchesOK
<1>0. TypeOK' /\ BatchOK(v) /\ MaxBatch \in Nat
  BY NextStoreIInv, ConstantsOK DEF StoreIInv, BatchesOK
<1>1. /\ tx[v].project \in Projects /\ tx[v].next \in Nat
      /\ nextPosition[tx[v].project] \in Nat \ {0} /\ Counter(v) \in Nat \ {0}
  BY ViewContiguous DEF StoreIInv, TypeOK, Transaction
<1>2. ASSUME tx'[v] = tx[v], UNCHANGED nextPosition PROVE BatchOK(v)'
  BY <1>0, <1>2, OthersBatch
<1>3. ASSUME NEW w \in Writers, WriterStep(w), w # v PROVE BatchOK(v)'
  <2>1. tx'[v] = tx[v]
    BY <1>3 DEF WriterStep, Begin, ReadHash, Insert, Commit, Rollback, StoreIInv, TypeOK
  <2>2. CASE UNCHANGED nextPosition
    BY <1>2, <2>1, <2>2
  <2>3. CASE Commit(w)
    <3>1. tx[v].next # 0 => tx[v].project # tx[w].project
      <4>1. /\ tx[v].next # 0 => lock[tx[v].project] = v
            /\ tx[w].next = 0 => tx[w].batch = {}
            /\ tx[w].next # 0 => lock[tx[w].project] = w
        BY DEF StoreIInv, TransactionsOK
      <4> QED BY <1>3, <2>3, <4>1 DEF Commit
    <3>2. tx[v].next # 0 => nextPosition'[tx[v].project] = nextPosition[tx[v].project]
      BY <1>1, <2>3, <3>1 DEF Commit, StoreIInv, TypeOK
    <3> QED BY <1>0, <2>1, <3>2, OthersBatch
  <2> QED BY <1>3, <2>2, <2>3 DEF WriterStep, Begin, ReadHash, Insert, Rollback
<1>4. ASSUME tx'[v] = NoTransaction \/ \E p \in Projects :
               tx'[v] = [NoTransaction EXCEPT !.phase = "open", !.project = p]
      PROVE  BatchOK(v)'
  <2>1. tx'[v].phase # "hashed" /\ tx'[v].next = 0 /\ tx'[v].batch = {}
    <3>1. CASE tx'[v] = NoTransaction
      BY <3>1 DEF NoTransaction
    <3>2. ASSUME NEW p \in Projects,
                 tx'[v] = [NoTransaction EXCEPT !.phase = "open", !.project = p]
          PROVE  tx'[v].phase = "open" /\ tx'[v].next = 0 /\ tx'[v].batch = {}
      BY <3>2 DEF NoTransaction
    <3> QED BY <1>4, <3>1, <3>2
  <2> QED BY <2>1 DEF BatchOK
<1>5. CASE \E p \in Projects : Begin(v, p)
  BY <1>4, <1>5 DEF Begin, StoreIInv, TypeOK
<1>6. CASE ReadHash(v)
  <2>1. /\ tx'[v].next = tx[v].next /\ tx'[v].batch = tx[v].batch
        /\ tx'[v].project = tx[v].project
        /\ nextPosition' = nextPosition /\ Cardinality(tx[v].batch) < MaxBatch
    BY <1>6 DEF ReadHash, StoreIInv, TypeOK, Transaction
  <2>2. Counter(v)' = Counter(v)
    BY <2>1 DEF Counter
  <2>3. Counter(v) = nextPosition[tx[v].project] + Cardinality(tx[v].batch)
        /\ Cardinality(tx[v].batch) \in Nat
    BY <1>0, BatchSize, FS_CardinalityType
  <2>4. Counter(v) < nextPosition[tx[v].project] + MaxBatch
    BY <1>0, <1>1, <2>1, <2>3
  <2> QED BY <1>0, <2>1, <2>2, <2>4 DEF BatchOK
<1>7. CASE Insert(v)
  <2> DEFINE e == [pos |-> Counter(v), prev |-> tx[v].head, hashed |-> TRUE, by |-> v]
             first == nextPosition[tx[v].project]
  <2>1. /\ tx[v].phase = "hashed" /\ tx'[v].phase = "open"
        /\ tx'[v].next = Counter(v) + 1
        /\ tx'[v].batch = tx[v].batch \cup {e}
        /\ tx'[v].project = tx[v].project
        /\ nextPosition' = nextPosition
    BY <1>7 DEF Insert, StoreIInv, TypeOK, Transaction
  <2>2. e.by = v /\ e.pos = Counter(v)
    OBVIOUS
  <2> HIDE DEF e
  <2>3. first <= Counter(v) /\ PositionsOf(tx[v].batch) = first..(Counter(v) - 1)
    <3>1. CASE tx[v].next = 0
      <4>1. tx[v].batch = {} /\ Counter(v) = first
        BY <3>1 DEF StoreIInv, TransactionsOK, Counter
      <4>2. first..(first - 1) = {} /\ PositionsOf({}) = {}
        BY <1>1 DEF PositionsOf
      <4>3. PositionsOf(tx[v].batch) = {}
        BY <4>1, <4>2
      <4>4. first <= Counter(v) /\ first..(Counter(v) - 1) = {}
        BY <1>1, <4>1, <4>2
      <4> QED BY <4>3, <4>4
    <3>2. CASE tx[v].next # 0
      BY <1>0, <1>1, <3>2 DEF BatchOK, Counter
    <3> QED BY <3>1, <3>2
  <2>4. PositionsOf(tx[v].batch \cup {e}) = PositionsOf(tx[v].batch) \cup {Counter(v)}
    BY <2>2 DEF PositionsOf
  <2>5. PositionsOf(tx'[v].batch) = first..((Counter(v) + 1) - 1)
    <3>1. first..((Counter(v) + 1) - 1) = (first..(Counter(v) - 1)) \cup {Counter(v)}
      BY <1>1, <2>3
    <3> QED BY <2>1, <2>3, <2>4, <3>1
  <2>6. first < Counter(v) + 1 /\ Counter(v) + 1 <= first + MaxBatch
    BY <1>0, <1>1, <2>1, <2>3 DEF BatchOK
  <2>7. \A f \in tx'[v].batch : f.by = v
    BY <1>0, <2>1, <2>2 DEF BatchOK
  <2> QED BY <2>1, <2>5, <2>6, <2>7 DEF BatchOK
<1>8. CASE Commit(v)
  BY <1>4, <1>8 DEF Commit, StoreIInv, TypeOK
<1>9. CASE Rollback(v)
  BY <1>4, <1>9 DEF Rollback, StoreIInv, TypeOK
<1>10. ASSUME NEW r \in Readers, ReaderStep(r) PROVE BatchOK(v)'
  BY <1>2, <1>10 DEF ReaderStep, StartThrough, StartFollow, ReadPage, Stop
<1>11. CASE UNCHANGED vars
  BY <1>2, <1>11 DEF vars
<1> QED BY <1>3, <1>5, <1>6, <1>7, <1>8, <1>9, <1>10, <1>11 DEF Next, WriterStep

-----------------------------------------------------------------------------
LEMMA InitIInv ==
    ASSUME Init PROVE IInv
<1>1. BatchesOK
  BY DEF Init, BatchesOK, BatchOK, NoTransaction
<1> QED BY <1>1, InitStoreIInv DEF IInv

\* The invariant is inductive.
LEMMA NextIInv == IInv /\ [Next]_vars => IInv'
BY NextStoreIInv, NextBatchesOK DEF IInv

\* Every reachable state of the store satisfies the inductive invariant.
THEOREM Invariance == Spec => []IInv
<1>1. Init => IInv
  BY InitIInv
<1> QED BY <1>1, NextIInv, PTL DEF Spec

\* Every variable keeps its type (TypeOK).
THEOREM TypeCorrect == Spec => []TypeOK
BY Invariance, PTL DEF IInv, StoreIInv

\* append_event leaves neither a gap nor a duplicate position in any stream,
\* on either backend, however transactions interleave, fail or die.
THEOREM NoGaps == Spec => []PositionsContiguous
BY Invariance, PTL DEF IInv, StoreIInv

\* On SQLite verify_integrity never reports a mismatch in a store nobody
\* tampered with: BEGIN IMMEDIATE makes reading the previous hash and
\* inserting the next event one critical section.
THEOREM HashChain ==
    ASSUME Backend = "sqlite"
    PROVE  Spec => []VerifyIntegrityOK
<1>1. IInv => VerifyIntegrityOK
  BY DEF IInv, StoreIInv, ChainOK
<1> QED BY <1>1, Invariance, PTL

\* A following client never misses an event at or before its cursor
\* (list_events_after).
THEOREM CursorsMissNothing == Spec => []NothingSkipped
<1>1. IInv => NothingSkipped
  BY DEF IInv, StoreIInv, ReadersOK, NothingSkipped, TypeOK, Client, PositionsContiguous,
         Contiguous
<1> QED BY <1>1, Invariance, PTL

\* A scan under a high-water mark returns the whole prefix up to it, however
\* many events are appended meanwhile (iter_event_pages_through_cursor).
THEOREM ScansAreComplete == Spec => []ThroughComplete
<1>1. IInv => ThroughComplete
  BY DEF IInv, StoreIInv, ReadersOK, ThroughComplete
<1> QED BY <1>1, Invariance, PTL

-----------------------------------------------------------------------------
(* The refinement.  First the operators of the mapping.                    *)

\* A sequence is its first x elements followed by the rest.
LEMMA SplitSeq ==
    ASSUME NEW S, NEW x \in Nat, NEW y \in Nat, NEW f \in [1..(x + y) -> S]
    PROVE  f = [i \in 1..x |-> f[i]] \o [i \in 1..y |-> f[x + i]]
<1> DEFINE s == [i \in 1..x |-> f[i]]
           t == [i \in 1..y |-> f[x + i]]
<1>1. s \in Seq(S) /\ Len(s) = x /\ \A i \in 1..x : s[i] = f[i]
  OBVIOUS
<1>2. t \in Seq(S) /\ Len(t) = y /\ \A i \in 1..y : t[i] = f[x + i]
  OBVIOUS
<1>3. f \in Seq(S) /\ Len(f) = x + y
  OBVIOUS
<1> HIDE DEF s, t
<1>4. /\ s \o t \in Seq(S) /\ Len(s \o t) = x + y
      /\ \A i \in 1..(x + y) : (s \o t)[i] = IF i <= x THEN s[i] ELSE t[i - x]
  BY <1>1, <1>2, ConcatProperties, ZenonT(30)
<1>5. \A i \in 1..(x + y) : f[i] = (s \o t)[i]
  BY <1>1, <1>2, <1>4
<1>6. f = s \o t
  BY <1>3, <1>4, <1>5, SeqEqual
<1> QED BY <1>6 DEF s, t

\* A position determines its row.
LEMMA RowAtIs ==
    ASSUME NEW rows, \A e, f \in rows : e.pos = f.pos => e = f, NEW e \in rows
    PROVE  RowAt(rows, e.pos) = e
BY DEF RowAt

\* The log of a gap-free stream: one author per position.
LEMMA LogIs ==
    ASSUME NEW rows \in SUBSET Event, NEW next \in Nat \ {0}, Contiguous(rows, next)
    PROVE  /\ LogOf(rows) \in Seq(Writers \cup {NoWriter})
           /\ Len(LogOf(rows)) = next - 1
           /\ \A n \in 1..(next - 1) : LogOf(rows)[n] = RowAt(rows, n).by
<1>1. Cardinality(rows) = next - 1
  <2>1. PositionsOf(rows) = 1..(next - 1) /\ \A e, f \in rows : e.pos = f.pos => e = f
    BY DEF Contiguous
  <2>2. 1 \in Int /\ next - 1 \in Int
    OBVIOUS
  <2>3. Cardinality(rows) = IF 1 > next - 1 THEN 0 ELSE (next - 1) - 1 + 1
    BY <2>1, <2>2, CountRows
  <2> QED BY <2>3
<1>2. \A n \in 1..(next - 1) : RowAt(rows, n).by \in Writers \cup {NoWriter}
  <2> SUFFICES ASSUME NEW n \in 1..(next - 1)
               PROVE  RowAt(rows, n).by \in Writers \cup {NoWriter}
    OBVIOUS
  <2>1. PICK e \in rows : e.pos = n
    BY DEF Contiguous, PositionsOf
  <2>2. RowAt(rows, n) = e
    BY <2>1, RowAtIs DEF Contiguous
  <2> QED BY <2>2 DEF Event
<1>3. LogOf(rows) = [n \in 1..(next - 1) |-> RowAt(rows, n).by]
  BY <1>1, Zenon DEF LogOf
<1> QED BY <1>2, <1>3

\* Committing a batch that continues the stream appends its author to the log
\* once per event, and moves no row that was there.
LEMMA LogExtends ==
    ASSUME NEW rows \in SUBSET Event, NEW next \in Nat \ {0}, Contiguous(rows, next),
           NEW batch \in SUBSET Event, NEW last \in Nat \ {0}, next <= last,
           Contiguous(rows \cup batch, last), PositionsOf(batch) = next..(last - 1),
           NEW w \in Writers, \A e \in batch : e.by = w
    PROVE  /\ LogOf(rows \cup batch) = LogOf(rows) \o [i \in 1..(last - next) |-> w]
           /\ \A n \in PositionsOf(rows) : RowAt(rows \cup batch, n) = RowAt(rows, n)
<1> DEFINE all == rows \cup batch
           S == Writers \cup {NoWriter}
<1>1. \A n \in PositionsOf(rows) : RowAt(all, n) = RowAt(rows, n)
  <2> SUFFICES ASSUME NEW e \in rows PROVE RowAt(all, e.pos) = RowAt(rows, e.pos)
    BY DEF PositionsOf
  <2>1. RowAt(rows, e.pos) = e
    BY RowAtIs DEF Contiguous
  <2>2. e \in all /\ \A f, g \in all : f.pos = g.pos => f = g
    BY DEF Contiguous
  <2> HIDE DEF all
  <2>3. RowAt(all, e.pos) = e
    BY <2>2, RowAtIs
  <2> QED BY <2>1, <2>3
<1>2. \A n \in next..(last - 1) : RowAt(all, n).by = w
  <2> SUFFICES ASSUME NEW e \in batch PROVE RowAt(all, e.pos).by = w
    BY DEF PositionsOf
  <2>2. e \in all /\ \A f, g \in all : f.pos = g.pos => f = g
    BY DEF Contiguous
  <2> HIDE DEF all
  <2>3. RowAt(all, e.pos) = e
    BY <2>2, RowAtIs
  <2> QED BY <2>3
<1>3. /\ LogOf(rows) \in Seq(S) /\ Len(LogOf(rows)) = next - 1
      /\ \A n \in 1..(next - 1) : LogOf(rows)[n] = RowAt(rows, n).by
  BY LogIs
<1>4. /\ LogOf(all) \in Seq(S) /\ Len(LogOf(all)) = last - 1
      /\ \A n \in 1..(last - 1) : LogOf(all)[n] = RowAt(all, n).by
  <2>1. all \in SUBSET Event /\ Contiguous(all, last)
    OBVIOUS
  <2> HIDE DEF all
  <2> QED BY <2>1, LogIs
<1>5. PositionsOf(rows) = 1..(next - 1)
  BY DEF Contiguous
<1>6. LogOf(all) = [i \in 1..(next - 1) |-> LogOf(all)[i]]
                     \o [i \in 1..(last - next) |-> LogOf(all)[(next - 1) + i]]
  <2> DEFINE x == next - 1
             y == last - next
  <2>1. x \in Nat /\ y \in Nat /\ x + y = last - 1
    OBVIOUS
  <2> HIDE DEF x, y, S, all
  <2>2. LogOf(all) \in [1..(x + y) -> S]
    BY <1>4, <2>1
  <2>3. LogOf(all) = [i \in 1..x |-> LogOf(all)[i]] \o [i \in 1..y |-> LogOf(all)[x + i]]
    BY <2>1, <2>2, SplitSeq
  <2> QED BY <2>3 DEF x, y
<1> HIDE DEF all, S
<1>7. [i \in 1..(next - 1) |-> LogOf(all)[i]] = LogOf(rows)
  BY <1>1, <1>3, <1>4, <1>5
<1>8. [i \in 1..(last - next) |-> LogOf(all)[(next - 1) + i]] = [i \in 1..(last - next) |-> w]
  <2>1. \A i \in 1..(last - next) : LogOf(all)[(next - 1) + i] = w
    BY <1>2, <1>4
  <2> QED BY <2>1
<1> QED BY <1>1, <1>6, <1>7, <1>8 DEF all

\* The i-th position of an interval.
LEMMA NthIs ==
    ASSUME NEW a \in Int, NEW b \in Int, NEW i \in 1..(b - a)
    PROVE  Nth((a + 1)..b, i) = a + i
<1> DEFINE S == (a + 1)..b
<1>1. \A n \in S : Cardinality({m \in S : m <= n}) = n - a
  <2> TAKE n \in S
  <2>1. {m \in S : m <= n} = (a + 1)..n
    OBVIOUS
  <2>2. n \in Int /\ a + 1 \in Int /\ a + 1 <= n
    OBVIOUS
  <2>3. Cardinality((a + 1)..n) = n - (a + 1) + 1
    BY <2>2, FS_Interval
  <2>4. n - (a + 1) + 1 = n - a
    BY <2>2
  <2> QED BY <2>1, <2>3, <2>4, Zenon
<1>2. a + i \in S /\ \A n \in S : n - a = i => n = a + i
  OBVIOUS
<1>3. (a + i) - a = i
  OBVIOUS
<1> HIDE DEF S
<1>4. \A n \in S : Cardinality({m \in S : m <= n}) = i <=> n = a + i
  BY <1>1, <1>2, <1>3
<1>5. Nth(S, i) = a + i
  BY <1>2, <1>4 DEF Nth
<1> QED BY <1>5 DEF S

\* The entries of a stream after one position up to another.
Entries(rows, a, b) ==
    [i \in 1..(b - a) |-> [position |-> a + i, author |-> RowAt(rows, a + i).by]]

\* What a client received, when it was given an interval of its stream.
LEMMA ReceivedIs ==
    ASSUME NEW rows, NEW a \in Int, NEW b \in Int, a <= b
    PROVE  Received(rows, (a + 1)..b) = Entries(rows, a, b)
<1>1. Cardinality((a + 1)..b) = b - a
  <2>1. a + 1 \in Int /\ Cardinality((a + 1)..b) = IF a + 1 > b THEN 0 ELSE b - (a + 1) + 1
    BY FS_Interval
  <2> QED BY <2>1
<1>2. \A i \in 1..(b - a) : Nth((a + 1)..b, i) = a + i
  BY NthIs
<1> QED BY <1>1, <1>2 DEF Received, Entries

\* Two adjoining intervals make one.
LEMMA EntriesMore ==
    ASSUME NEW rows, NEW a \in Int, NEW b \in Int, NEW c \in Int, a <= b, b <= c
    PROVE  /\ Len(Entries(rows, a, b)) = b - a
           /\ Entries(rows, a, c) = Entries(rows, a, b) \o Entries(rows, b, c)
<1> DEFINE entry(m) == [position |-> m, author |-> RowAt(rows, m).by]
           x == b - a
           y == c - b
           S == {entry(m) : m \in Int}
           f == [i \in 1..(x + y) |-> entry(a + i)]
<1>1. x \in Nat /\ y \in Nat /\ c - a = x + y
  OBVIOUS
<1>2. Entries(rows, a, b) = [i \in 1..x |-> entry(a + i)]
  BY DEF Entries
<1>3. Entries(rows, a, c) = f
  BY <1>1 DEF Entries
<1>4. Entries(rows, b, c) = [i \in 1..y |-> entry(b + i)]
  BY DEF Entries
<1>5. \A m \in Int : entry(m) \in S
  OBVIOUS
<1>6. \A i \in 1..y : x + i \in 1..(x + y) /\ a + (x + i) = b + i
  OBVIOUS
<1>7. 1..x \subseteq 1..(x + y) /\ \A i \in 1..(x + y) : a + i \in Int
  OBVIOUS
<1>8. x = b - a
  OBVIOUS
<1> HIDE DEF x, y, S, entry
<1>9. f \in [1..(x + y) -> S]
  BY <1>5, <1>7
<1>10. \A i \in 1..(x + y) : f[i] = entry(a + i)
  OBVIOUS
<1> HIDE DEF f
<1>11. f = [i \in 1..x |-> f[i]] \o [i \in 1..y |-> f[x + i]]
  BY <1>1, <1>9, SplitSeq
<1>12. [i \in 1..x |-> f[i]] = [i \in 1..x |-> entry(a + i)]
  BY <1>7, <1>10
<1>13. [i \in 1..y |-> f[x + i]] = [i \in 1..y |-> entry(b + i)]
  BY <1>6, <1>10
<1>14. Len(Entries(rows, a, b)) = x
  BY <1>1, <1>2
<1> QED BY <1>2, <1>3, <1>4, <1>8, <1>11, <1>12, <1>13, <1>14

-----------------------------------------------------------------------------
(* Then the steps.                                                         *)

LEMMA RefinesInit == Init => Log!LogInit
<1> SUFFICES ASSUME Init PROVE Log!LogInit
  OBVIOUS
<1> DEFINE first == CHOOSE p \in Projects : TRUE
<1>0. Legacy \in Nat /\ first \in Projects
  BY ConstantsOK
<1>1. StoreIInv
  BY InitStoreIInv
<1>2. \A p \in Projects :
         /\ events[p] = LegacyEvents /\ events[p] \in SUBSET Event
         /\ Contiguous(events[p], Legacy + 1)
  BY <1>1 DEF Init, StoreIInv, TypeOK, PositionsContiguous
<1>3. \A n \in 1..Legacy : LegacyRow(n) \in LegacyEvents /\ LegacyRow(n).pos = n
                           /\ LegacyRow(n).by = NoWriter
  BY DEF LegacyEvents, LegacyRow
<1>4. \A p \in Projects : LogOf(events[p]) = [n \in 1..Legacy |-> NoWriter]
  <2> SUFFICES ASSUME NEW p \in Projects
               PROVE  LogOf(events[p]) = [n \in 1..Legacy |-> NoWriter]
    OBVIOUS
  <2>1. Legacy + 1 \in Nat \ {0} /\ (Legacy + 1) - 1 = Legacy
    BY <1>0
  <2>2. \A n \in 1..Legacy : RowAt(events[p], n).by = NoWriter
    <3>1. \A n \in 1..Legacy : RowAt(events[p], LegacyRow(n).pos) = LegacyRow(n)
      BY <1>2, <1>3, RowAtIs DEF Contiguous
    <3> QED BY <1>3, <3>1
  <2>3. /\ LogOf(events[p]) \in Seq(Writers \cup {NoWriter})
        /\ Len(LogOf(events[p])) = Legacy
        /\ \A n \in 1..Legacy : LogOf(events[p])[n] = RowAt(events[p], n).by
    BY <1>2, <2>1, LogIs
  <2> QED BY <2>2, <2>3
<1>5. \A r \in Readers : InboxOf(reader[r], events[reader[r].project])
                            = [stream |-> first, from |-> 0, received |-> <<>>]
  <2> SUFFICES ASSUME NEW r \in Readers
               PROVE  InboxOf(reader[r], events[reader[r].project])
                        = [stream |-> first, from |-> 0, received |-> <<>>]
    OBVIOUS
  <2>1. reader[r].project = first /\ reader[r].from = 0 /\ reader[r].seen = {}
    BY DEF Init
  <2>2. Cardinality({}) = 0
    BY FS_EmptySet
  <2>3. Received(events[first], {}) = <<>>
    BY <2>2 DEF Received
  <2> QED BY <2>1, <2>3 DEF InboxOf
<1> QED BY <1>0, <1>4, <1>5 DEF Log!LogInit

\* A commit extends the log of its project by one transaction.
LEMMA CommitRefines ==
    ASSUME IInv, NEW w \in Writers, Commit(w)
    PROVE  Log!Extend(tx[w].project)
<1> DEFINE p == tx[w].project
           n == tx[w].next - nextPosition[p]
<1>1. /\ p \in Projects /\ events[p] \in SUBSET Event /\ tx[w].batch \in SUBSET Event
      /\ nextPosition[p] \in Nat \ {0} /\ tx[w].next \in Nat \ {0}
      /\ Contiguous(events[p], nextPosition[p]) /\ Contiguous(View(w), tx[w].next)
  BY DEF IInv, StoreIInv, TypeOK, Transaction, PositionsContiguous, TransactionsOK, Commit
<1>2. /\ \A e \in tx[w].batch : e.by = w
      /\ nextPosition[p] < tx[w].next /\ tx[w].next <= nextPosition[p] + MaxBatch
      /\ PositionsOf(tx[w].batch) = nextPosition[p]..(tx[w].next - 1)
  BY <1>1 DEF IInv, BatchesOK, BatchOK
<1>3. /\ LogOf(View(w)) = LogOf(events[p]) \o [i \in 1..n |-> w]
      /\ \A m \in PositionsOf(events[p]) : RowAt(View(w), m) = RowAt(events[p], m)
  <2> DEFINE rows == events[p]
             batch == tx[w].batch
             next == nextPosition[p]
             last == tx[w].next
  <2>1. /\ rows \in SUBSET Event /\ next \in Nat \ {0} /\ Contiguous(rows, next)
        /\ batch \in SUBSET Event /\ last \in Nat \ {0} /\ next <= last
        /\ Contiguous(rows \cup batch, last) /\ PositionsOf(batch) = next..(last - 1)
        /\ \A e \in batch : e.by = w
    BY <1>1, <1>2 DEF View
  <2> HIDE DEF rows, batch, next, last
  <2>2. /\ LogOf(rows \cup batch) = LogOf(rows) \o [i \in 1..(last - next) |-> w]
        /\ \A m \in PositionsOf(rows) : RowAt(rows \cup batch, m) = RowAt(rows, m)
    BY <2>1, LogExtends, ZenonT(30)
  <2> QED BY <2>2 DEF View, rows, batch, next, last
<1>4. n \in 1..MaxBatch
  BY <1>1, <1>2, ConstantsOK
<1>5. events' = [events EXCEPT ![p] = View(w)] /\ reader' = reader
  BY DEF Commit, View
<1>6. [q \in Projects |-> LogOf(events'[q])]
        = [[q \in Projects |-> LogOf(events[q])] EXCEPT ![p] = @ \o [i \in 1..n |-> w]]
  BY <1>1, <1>3, <1>5 DEF IInv, StoreIInv, TypeOK
<1>7. \A r \in Readers : InboxOf(reader'[r], events'[reader'[r].project])
                            = InboxOf(reader[r], events[reader[r].project])
  <2> SUFFICES ASSUME NEW r \in Readers, reader[r].project = p
               PROVE  InboxOf(reader[r], View(w)) = InboxOf(reader[r], events[p])
    BY <1>5 DEF IInv, StoreIInv, TypeOK, Client
  <2> DEFINE a == reader[r].from
             b == reader[r].cursor
  <2>1. /\ a \in Nat /\ b \in Nat /\ a <= b /\ b < nextPosition[p]
        /\ reader[r].seen = (a + 1)..b
    BY DEF IInv, StoreIInv, TypeOK, Client, ReadersOK
  <2>2. PositionsOf(events[p]) = 1..(nextPosition[p] - 1)
    BY <1>1 DEF Contiguous
  <2> HIDE DEF a, b
  <2>3. \A i \in 1..(b - a) : a + i \in 1..(nextPosition[p] - 1)
    BY <1>1, <2>1
  <2>4. \A i \in 1..(b - a) : RowAt(View(w), a + i) = RowAt(events[p], a + i)
    BY <1>3, <2>2, <2>3
  <2>5. a \in Int /\ b \in Int
    BY <2>1
  <2>6. Entries(View(w), a, b) = Entries(events[p], a, b)
    BY <2>4 DEF Entries
  <2>7. /\ Received(View(w), (a + 1)..b) = Entries(View(w), a, b)
        /\ Received(events[p], (a + 1)..b) = Entries(events[p], a, b)
    BY <2>1, <2>5, ReceivedIs
  <2>8. Received(View(w), (a + 1)..b) = Received(events[p], (a + 1)..b)
    BY <2>6, <2>7
  <2> QED BY <2>1, <2>8 DEF InboxOf
<1> HIDE DEF n
<1>8. UNCHANGED [r \in Readers |-> InboxOf(reader[r], events[reader[r].project])]
  BY <1>7
<1> QED BY <1>4, <1>6, <1>8 DEF Log!Extend

\* A client that starts anew opens the log at its cursor.
LEMMA OpenedRefines ==
    ASSUME IInv, NEW r \in Readers, NEW p \in Projects, NEW from \in Nat,
           from < nextPosition[p], NEW through,
           reader' = [reader EXCEPT ![r] = Opened(p, from, through)], events' = events
    PROVE  Log!Open(r, p)
<1>1. /\ nextPosition[p] \in Nat \ {0} /\ events[p] \in SUBSET Event
      /\ Contiguous(events[p], nextPosition[p])
  BY DEF IInv, StoreIInv, TypeOK, PositionsContiguous
<1>2. Len(LogOf(events[p])) = nextPosition[p] - 1
  BY <1>1, LogIs
<1>3. from \in 0..Len(LogOf(events[p]))
  BY <1>1, <1>2
<1>4. InboxOf(Opened(p, from, through), events[p])
        = [stream |-> p, from |-> from, received |-> <<>>]
  <2>1. Cardinality({}) = 0
    BY FS_EmptySet
  <2>2. Received(events[p], {}) = <<>>
    BY <2>1 DEF Received
  <2> QED BY <2>2 DEF InboxOf, Opened
<1>5. Opened(p, from, through).project = p
  BY DEF Opened
<1>6. [q \in Readers |-> InboxOf(reader'[q], events'[reader'[q].project])]
        = [[q \in Readers |-> InboxOf(reader[q], events[reader[q].project])]
              EXCEPT ![r] = [stream |-> p, from |-> from, received |-> <<>>]]
  BY <1>4, <1>5 DEF IInv, StoreIInv, TypeOK
<1>7. [q \in Projects |-> LogOf(events[q])][p] = LogOf(events[p])
  OBVIOUS
<1> QED BY <1>3, <1>6, <1>7 DEF Log!Open

\* A page hands the client the entries that follow, or nothing.
LEMMA ReadPageRefines ==
    ASSUME IInv, IInv', NEW r \in Readers, ReadPage(r)
    PROVE  Log!Deliver(r) \/ UNCHANGED Log!logVars
<1> DEFINE p == reader[r].project
           rows == events[p]
           next == nextPosition[p]
           a == reader[r].from
           b == reader[r].cursor
           c == reader'[r].cursor
<1>1. /\ p \in Projects /\ rows \in SUBSET Event /\ next \in Nat \ {0}
      /\ Contiguous(rows, next)
      /\ a \in Nat /\ b \in Nat /\ a <= b /\ reader[r].seen = (a + 1)..b
  BY DEF IInv, StoreIInv, TypeOK, Client, PositionsContiguous, ReadersOK
<1>2. /\ events' = events /\ nextPosition' = nextPosition
      /\ reader'[r].project = p /\ reader'[r].from = a
      /\ reader[r].seen \subseteq reader'[r].seen
      /\ \A q \in Readers \ {r} : reader'[q] = reader[q]
  BY DEF ReadPage, IInv, StoreIInv, TypeOK, Client
<1>3. c \in Nat /\ a <= c /\ c < next /\ reader'[r].seen = (a + 1)..c
  BY <1>2 DEF IInv, StoreIInv, TypeOK, Client, ReadersOK
<1>4. b <= c
  BY <1>1, <1>2, <1>3
<1> DEFINE got == Entries(rows, a, b)
           more == Entries(rows, b, c)
<1>5. /\ Received(rows, (a + 1)..b) = got /\ Received(rows, (a + 1)..c) = got \o more
      /\ Len(got) = b - a
  <2> HIDE DEF rows, a, b, c
  <2>1. a \in Int /\ b \in Int /\ c \in Int /\ a <= b /\ b <= c /\ a <= c
    BY <1>1, <1>3, <1>4
  <2>2. /\ Received(rows, (a + 1)..b) = Entries(rows, a, b)
        /\ Received(rows, (a + 1)..c) = Entries(rows, a, c)
    BY <2>1, ReceivedIs
  <2>3. /\ Entries(rows, a, c) = Entries(rows, a, b) \o Entries(rows, b, c)
        /\ Len(Entries(rows, a, b)) = b - a
    BY <2>1, EntriesMore
  <2> QED BY <2>2, <2>3
<1> DEFINE log == [q \in Projects |-> LogOf(events[q])]
           inbox == [q \in Readers |-> InboxOf(reader[q], events[reader[q].project])]
<1>6. log[p] = LogOf(rows) /\ log' = log
  BY <1>1, <1>2
<1>7. inbox[r] = [stream |-> p, from |-> a, received |-> got]
  BY <1>1, <1>5 DEF InboxOf
<1>8. inbox' = [inbox EXCEPT ![r] = [stream |-> p, from |-> a, received |-> got \o more]]
  <2>1. InboxOf(reader'[r], events'[reader'[r].project])
           = [stream |-> p, from |-> a, received |-> got \o more]
    BY <1>2, <1>3, <1>5 DEF InboxOf
  <2>2. \A q \in Readers \ {r} : InboxOf(reader'[q], events'[reader'[q].project])
                                  = InboxOf(reader[q], events[reader[q].project])
    BY <1>2
  <2> HIDE DEF got, more
  <2> QED BY <2>1, <2>2
<1>9. /\ Len(LogOf(rows)) = next - 1
      /\ \A m \in 1..(next - 1) : LogOf(rows)[m] = RowAt(rows, m).by
  <2> HIDE DEF rows, next
  <2> QED BY <1>1, LogIs
<1>10. CASE c = b
  <2>1. Received(rows, (a + 1)..c) = Received(rows, (a + 1)..b)
    BY <1>10, Zenon
  <2>2. got \o more = got
    BY <1>5, <2>1
  <2>3. inbox' = inbox
    <3> HIDE DEF got, more
    <3> QED BY <1>7, <1>8, <2>2
  <2> QED BY <1>6, <2>3 DEF Log!logVars
<1>11. CASE c # b
  <2>1. c - b \in 1..(Len(log[p]) - b)
    <3> HIDE DEF rows, next, a, b, c, log
    <3>1. Len(log[p]) = next - 1
      BY <1>6, <1>9
    <3>2. b \in Nat /\ c \in Nat /\ next \in Nat /\ b <= c /\ c < next /\ c # b
      BY <1>1, <1>3, <1>4, <1>11
    <3>3. c - b \in 1..((next - 1) - b)
      BY <3>2
    <3> QED BY <3>1, <3>3
  <2>2. more = [i \in 1..(c - b) |-> Log!Entry(p, b + i)]
    <3> HIDE DEF rows, next, a, b, c, log
    <3>1. \A i \in 1..(c - b) : log[p][b + i] = RowAt(rows, b + i).by
      <4>1. \A i \in 1..(c - b) : b + i \in 1..(next - 1)
        BY <1>1, <1>3, <1>4
      <4> QED BY <1>6, <1>9, <4>1
    <3>2. \A i : Log!Entry(p, b + i) = [position |-> b + i, author |-> log[p][b + i]]
      BY DEF Log!Entry, log
    <3> QED BY <3>1, <3>2 DEF Entries
  <2> HIDE DEF p, got, more, log, inbox, a, b, c
  <2>3. inbox' = [inbox EXCEPT ![r].received = @ \o more]
    <3>1. [inbox[r] EXCEPT !.received = inbox[r].received \o more]
             = [stream |-> p, from |-> a, received |-> got \o more]
      BY <1>7, SMTT(30)
    <3> QED BY <1>8, <3>1, Zenon
  <2>4. inbox[r].stream = p /\ inbox[r].from + Len(inbox[r].received) = b
    BY <1>1, <1>5, <1>7
  <2> DEFINE Given(s, k) ==
                \E n \in 1..(Len(log[s]) - k) :
                   /\ inbox' = [inbox EXCEPT ![r].received =
                                   @ \o [i \in 1..n |-> Log!Entry(s, k + i)]]
                   /\ UNCHANGED log
  <2>5. Given(p, b)
    BY <1>6, <2>1, <2>2, <2>3, Zenon
  <2> HIDE DEF Given
  <2>6. Given(inbox[r].stream, inbox[r].from + Len(inbox[r].received))
    BY <2>4, <2>5, Zenon
  <2>7. Log!Deliver(r)
    BY <2>6, Zenon DEF Given, Log!Deliver, inbox, log
  <2> QED BY <2>7
<1> QED BY <1>10, <1>11

LEMMA RefinesNext == IInv /\ IInv' /\ [Next]_vars => [Log!LogNext]_(Log!logVars)
<1> SUFFICES ASSUME IInv, IInv', [Next]_vars
             PROVE  Log!LogNext \/ UNCHANGED Log!logVars
  BY Zenon
<1>1. ASSUME UNCHANGED <<events, reader>> PROVE UNCHANGED Log!logVars
  BY <1>1 DEF Log!logVars
<1>2. ASSUME NEW w \in Writers, WriterStep(w) PROVE Log!LogNext \/ UNCHANGED Log!logVars
  <2>1. CASE Commit(w)
    <3>1. tx[w].project \in Projects
      BY DEF IInv, StoreIInv, TypeOK, Transaction
    <3> QED BY <2>1, <3>1, CommitRefines DEF Log!LogNext
  <2> QED BY <1>1, <1>2, <2>1 DEF WriterStep, Begin, ReadHash, Insert, Rollback
<1>3. ASSUME NEW r \in Readers, ReaderStep(r) PROVE Log!LogNext \/ UNCHANGED Log!logVars
  <2>1. ASSUME NEW p \in Projects, NEW n, StartThrough(r, p, n) PROVE Log!Open(r, p)
    <3>1. nextPosition[p] \in Nat \ {0} /\ PositionsOf(events[p]) = 1..(nextPosition[p] - 1)
      BY DEF IInv, StoreIInv, TypeOK, PositionsContiguous, Contiguous
    <3>2. n \in Nat /\ n < nextPosition[p]
      BY <2>1, <3>1 DEF StartThrough
    <3>3. reader' = [reader EXCEPT ![r] = Opened(p, n, Newest(events[p]))] /\ events' = events
      BY <2>1 DEF StartThrough
    <3> QED BY <3>2, <3>3, OpenedRefines
  <2>2. ASSUME NEW p \in Projects, StartFollow(r, p) PROVE Log!Open(r, p)
    <3>1. 0 \in Nat /\ 0 < nextPosition[p]
      BY DEF IInv, StoreIInv, TypeOK
    <3>2. reader' = [reader EXCEPT ![r] = Opened(p, 0, 0)] /\ events' = events
      BY <2>2 DEF StartFollow
    <3> QED BY <3>1, <3>2, OpenedRefines
  <2>3. CASE ReadPage(r)
    BY <2>3, ReadPageRefines DEF Log!LogNext
  <2>4. CASE Stop(r)
    <3>1. events' = events
          /\ \A q \in Readers : /\ reader'[q].project = reader[q].project
                                /\ reader'[q].from = reader[q].from
                                /\ reader'[q].seen = reader[q].seen
      BY <2>4 DEF Stop, IInv, StoreIInv, TypeOK, Client
    <3>2. \A q \in Readers : InboxOf(reader'[q], events'[reader'[q].project])
                               = InboxOf(reader[q], events[reader[q].project])
      BY <3>1 DEF InboxOf
    <3> QED BY <3>1, <3>2 DEF Log!logVars
  <2> QED BY <1>3, <2>1, <2>2, <2>3, <2>4 DEF ReaderStep, Log!LogNext
<1>4. CASE UNCHANGED vars
  BY <1>1, <1>4 DEF vars
<1> QED BY <1>2, <1>3, <1>4 DEF Next

\* On both backends the event store implements one append-only log per project
\* that transactions extend as a whole, at its end, and that every client reads
\* in order, gap-free, exactly once.
THEOREM Implements == Spec => ImplementsEventLog
<1>1. Init => Log!LogInit
  BY RefinesInit
<1> QED BY <1>1, RefinesNext, Invariance, PTL DEF Spec, ImplementsEventLog, Log!LogSpec


=============================================================================
