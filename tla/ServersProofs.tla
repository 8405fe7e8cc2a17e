---------------------------- MODULE ServersProofs ----------------------------
(***************************************************************************)
(* Proofs about the servers on SQLite, for any number of them, of threads, *)
(* calls and sessions.                                                     *)
(*                                                                         *)
(* First why the inverted lock order of WriteLocks ends well on SQLite: a  *)
(* thread that asks for _SQLITE_WRITE_LOCK already has the database's      *)
(* lock, and keeps it until it commits.                                    *)
(*                                                                         *)
(* Then the life of sessions, whatever crashes.  LifecycleIInv is what     *)
(* makes SummaryBeforeClose inductive: a finalizer that is about to close  *)
(* has seen a summary (SummaryInTime), and it saw it of the session it     *)
(* closes because nobody changes the memory under it (FinalizationAlone):  *)
(* calls have ended and the heartbeat is cancelled.  One lemma per action  *)
(* shows that it keeps the conjuncts one by one.                           *)
(***************************************************************************)
EXTENDS SessionLifecycle, WriteLocks, TLAPS

-----------------------------------------------------------------------------
(* The locks.                                                              *)

\* What the proofs assume of the constants.
SQLiteThreads ==
    Backend = "sqlite" /\ Nobody \notin Threads /\ Other \notin Threads /\ Nobody # Other

Positions == [call : DOMAIN Program, at : Nat \ {0}]

Lines(prog) == 1..Len(prog)

\* A place between the locks of a write transaction and its end.
Within(prog, i) == prog[i] \in {"append", "commit"} \/ (prog[i] = "glance" /\ i > 1)

\* The calls that use _SQLITE_WRITE_LOCK.
Writes == {"append", "queue", "git", "finalize"}

Inside(t) ==
    Busy(t) /\ thread[t].call \in Writes /\ Within(Program[thread[t].call], thread[t].at)

ThreadsOK ==
    /\ thread \in [Threads -> Positions \cup {Idle}]
    /\ \A t \in Threads : Busy(t) => thread[t].at \in Lines(Program[thread[t].call])

\* BEGIN IMMEDIATE came first.
WritersOwnDatabase ==
    \A t \in Threads : Place(t) = "enter" \/ Inside(t) => database = t

\* _SQLITE_WRITE_LOCK is held within a transaction, or about to be given back.
PythonInTransaction ==
    \A t \in Threads : python = t => Inside(t) \/ Place(t) = "leave"

LocksIInv == ThreadsOK /\ WritersOwnDatabase /\ PythonInTransaction

-----------------------------------------------------------------------------
(* the programs                                                             *)

Bracketed(prog) ==
    /\ Len(prog) \in Nat \ {0} /\ prog[1] # "enter" /\ ~Within(prog, 1)
    /\ \A i \in Lines(prog) :
          /\ prog[i] = "enter" \/ Within(prog, i) => i < Len(prog)
          /\ i < Len(prog) /\ prog[i + 1] = "enter" => prog[i] = "begin"
          /\ i < Len(prog) /\ Within(prog, i + 1)
                => prog[i] = "enter" \/ (Within(prog, i) /\ prog[i] # "commit")
          /\ prog[i] = "enter" \/ (Within(prog, i) /\ prog[i] # "commit")
                => Within(prog, i + 1)
          /\ prog[i] = "commit" => prog[i + 1] = "leave"

LEMMA AppendBracketed == Bracketed(AppendEvent)
BY DEF Bracketed, AppendEvent, LockOrder, Lines, Within

LEMMA QueueBracketed == Bracketed(QueueTool)
BY DEF Bracketed, QueueTool, LockOrder, Lines, Within

LEMMA GitBracketed == Bracketed(record_git_changes)
BY DEF Bracketed, record_git_changes, LockOrder, Lines, Within

LEMMA FinalizeBracketed == Bracketed(finalize_active_session)
BY DEF Bracketed, finalize_active_session, LockOrder, Lines, Within

LEMMA WritersBracketed == \A c \in Writes : Bracketed(Program[c]) /\ c \in DOMAIN Program
BY AppendBracketed, QueueBracketed, GitBracketed, FinalizeBracketed DEF Writes, Program

LEMMA OthersNeverEnter ==
    \A c \in DOMAIN Program \ Writes :
        /\ Len(Program[c]) \in Nat \ {0}
        /\ \A i \in Lines(Program[c]) : Program[c][i] \notin {"enter", "append"}
<1>1. DOMAIN Program \ Writes = {"light", "unwinding"}
  BY DEF Program, Writes
<1>2. Program["light"] = LightWrite /\ Program["unwinding"] = Unwinding
  BY DEF Program
<1>3. Len(LightWrite) = 2 /\ \A i \in 1..2 : LightWrite[i] \notin {"enter", "append"}
  BY DEF LightWrite
<1>4. Len(Unwinding) = 3 /\ \A i \in 1..3 : Unwinding[i] \notin {"enter", "append"}
  BY DEF Unwinding
<1> DEFINE Quiet(p) == Len(p) \in Nat \ {0} /\ \A i \in Lines(p) : p[i] \notin {"enter", "append"}
<1>5. Quiet(LightWrite) /\ Quiet(Unwinding)
  BY <1>3, <1>4 DEF Lines
<1> HIDE DEF Quiet
<1>6. \A c \in DOMAIN Program \ Writes : Quiet(Program[c])
  BY <1>1, <1>2, <1>5, Zenon
<1> QED BY <1>6 DEF Quiet

-----------------------------------------------------------------------------
(* one step of a thread                                                     *)

Others(t) ==
    \A u \in Threads \ {t} :
        thread'[u] = thread[u] /\ Place(u)' = Place(u) /\ (Inside(u)' <=> Inside(u))

LEMMA IdleIsNoPosition == Idle \notin Positions /\ \A p \in Positions : p.call # "none"
BY DEF Idle, Positions, Program

LEMMA OthersStay ==
    ASSUME NEW t \in Threads, \A u \in Threads \ {t} : thread'[u] = thread[u]
    PROVE  Others(t)
BY DEF Others, Place, Inside, Busy

\* A thread goes on: it enters right after BEGIN, and is inside from then on
\* until it commits, after which it leaves.
LEMMA Moves ==
    ASSUME ThreadsOK, NEW t \in Threads, Busy(t), GoesOn(t)
    PROVE  /\ ThreadsOK' /\ Others(t)
           /\ Place(t)' = "enter" => Place(t) = "begin"
           /\ Inside(t)' => Place(t) = "enter" \/ (Inside(t) /\ Place(t) # "commit")
           /\ Place(t) = "enter" \/ (Inside(t) /\ Place(t) # "commit") => Inside(t)'
           /\ Inside(t) /\ Place(t) = "commit" => Place(t)' = "leave"
<1> DEFINE c == thread[t].call
           i == thread[t].at
           more == i < Len(Program[c])
<1>1. c \in DOMAIN Program /\ i \in Lines(Program[c]) /\ i \in Nat \ {0}
      /\ thread[t] = [call |-> c, at |-> i]
  BY DEF ThreadsOK, Busy, Positions
<1>2. Len(Program[c]) \in Nat \ {0}
  BY <1>1, WritersBracketed, OthersNeverEnter DEF Bracketed
<1>3. more => thread'[t] = [call |-> c, at |-> i + 1] /\ thread'[t] # Idle
  BY <1>1, IdleIsNoPosition DEF GoesOn, ThreadsOK, Idle, Program
<1>4. ~more => thread'[t] = Idle
  BY <1>1 DEF GoesOn, ThreadsOK
<1>5. Others(t)
  <2>1. \A u \in Threads \ {t} : thread'[u] = thread[u]
    BY DEF GoesOn, ThreadsOK
  <2> QED BY <2>1, OthersStay
<1>6. ThreadsOK'
  <2>1. thread' \in [Threads -> Positions \cup {Idle}]
    <3>1. thread'[t] \in Positions \cup {Idle}
      BY <1>1, <1>2, <1>3, <1>4 DEF Positions
    <3> QED BY <3>1, <1>5 DEF Others, GoesOn, ThreadsOK
  <2>2. thread'[t] # Idle => thread'[t].at \in Lines(Program[thread'[t].call])
    BY <1>1, <1>2, <1>3, <1>4 DEF Lines
  <2>3. \A u \in Threads \ {t} :
           thread'[u] # Idle => thread'[u].at \in Lines(Program[thread'[u].call])
    BY <1>5 DEF Others, ThreadsOK, Busy
  <2> QED BY <2>1, <2>2, <2>3 DEF ThreadsOK, Busy
<1>7. Place(t) = Program[c][i] /\ Busy(t)
  BY DEF Place
<1>8. more => Place(t)' = Program[c][i + 1] /\ Busy(t)'
  BY <1>3 DEF Place, Busy
<1>9. ~more => Place(t)' = "idle" /\ ~Inside(t)'
  BY <1>4 DEF Place, Inside, Busy
<1>10. CASE c \in Writes
  <2>1. Bracketed(Program[c])
    BY <1>10, WritersBracketed
  <2>2. Inside(t) <=> Within(Program[c], i)
    BY <1>7, <1>10 DEF Inside
  <2>3. more => (Inside(t)' <=> Within(Program[c], i + 1))
    BY <1>3, <1>8, <1>10 DEF Inside
  <2> HIDE DEF c, i
  <2>4. more => /\ Place(t)' = "enter" => Place(t) = "begin"
                /\ Inside(t)' => Place(t) = "enter" \/ (Inside(t) /\ Place(t) # "commit")
                /\ Place(t) = "enter" \/ (Inside(t) /\ Place(t) # "commit") => Inside(t)'
                /\ Inside(t) /\ Place(t) = "commit" => Place(t)' = "leave"
    BY <1>1, <1>7, <1>8, <2>1, <2>2, <2>3 DEF Bracketed
  <2>5. ~more => Place(t) # "enter" /\ ~Inside(t)
    BY <1>1, <1>7, <2>1, <2>2 DEF Bracketed
  <2> QED BY <1>5, <1>6, <1>9, <2>4, <2>5
<1>11. CASE c \notin Writes
  <2>1. ~Inside(t) /\ ~Inside(t)'
    BY <1>3, <1>9, <1>11 DEF Inside
  <2>2. Place(t) # "enter"
    BY <1>1, <1>7, <1>11, OthersNeverEnter
  <2>3. Place(t)' # "enter"
    BY <1>1, <1>2, <1>8, <1>9, <1>11, OthersNeverEnter DEF Lines
  <2> QED BY <1>5, <1>6, <2>1, <2>2, <2>3
<1> QED BY <1>10, <1>11

\* A call starts, or an exception makes it unwind, outside of every lock's reach.
LEMMA Begins ==
    ASSUME ThreadsOK, NEW t \in Threads, NEW c \in DOMAIN Program,
           thread' = [thread EXCEPT ![t] = [call |-> c, at |-> 1]]
    PROVE  /\ ThreadsOK' /\ Others(t)
           /\ Place(t)' # "enter" /\ ~Inside(t)'
           /\ c = "unwinding" => Place(t)' = "leave"
<1>1. thread'[t] = [call |-> c, at |-> 1] /\ thread'[t] # Idle
  BY DEF ThreadsOK, Idle
<1>2. Len(Program[c]) \in Nat \ {0} /\ 1 \in Lines(Program[c])
  BY WritersBracketed, OthersNeverEnter DEF Bracketed, Lines
<1>3. Others(t)
  <2>1. \A u \in Threads \ {t} : thread'[u] = thread[u]
    BY DEF ThreadsOK
  <2> QED BY <2>1, OthersStay
<1>4. thread' \in [Threads -> Positions \cup {Idle}]
  <2>1. thread'[t] \in Positions
    BY <1>1 DEF Positions
  <2> QED BY <2>1 DEF ThreadsOK
<1>5. ThreadsOK'
  <2>1. thread'[t].at \in Lines(Program[thread'[t].call])
    BY <1>1, <1>2
  <2>2. \A u \in Threads \ {t} :
           thread'[u] # Idle => thread'[u].at \in Lines(Program[thread'[u].call])
    BY <1>3 DEF Others, ThreadsOK, Busy
  <2> QED BY <1>4, <2>1, <2>2 DEF ThreadsOK, Busy
<1>6. Place(t)' = Program[c][1]
  BY <1>1 DEF Place, Busy
<1>7. Place(t)' # "enter" /\ ~Inside(t)'
  BY <1>1, <1>2, <1>6, WritersBracketed, OthersNeverEnter DEF Bracketed, Inside
<1>8. c = "unwinding" => Place(t)' = "leave"
  BY <1>6 DEF Program, Unwinding
<1> QED BY <1>3, <1>5, <1>7, <1>8

-----------------------------------------------------------------------------
(* the actions                                                              *)

\* What a step of one thread has to keep.
LEMMA KeptByStep ==
    ASSUME LocksIInv, NEW t \in Threads, ThreadsOK', Others(t),
           \A u \in Threads \ {t} : database = u => database' = u,
           Place(t)' = "enter" \/ Inside(t)' => database' = t,
           \A u \in Threads \ {t} : python' = u => python = u,
           python' = t => Inside(t)' \/ Place(t)' = "leave"
    PROVE  LocksIInv'
<1>1. WritersOwnDatabase'
  BY DEF LocksIInv, WritersOwnDatabase, Others
<1>2. PythonInTransaction'
  BY DEF LocksIInv, PythonInTransaction, Others
<1> QED BY <1>1, <1>2 DEF LocksIInv

LEMMA InitStep == ASSUME SQLiteThreads, LocksInit PROVE LocksIInv
<1>1. \A t \in Threads : ~Busy(t) /\ thread[t] = Idle
  BY DEF LocksInit, Busy
<1>2. ThreadsOK
  BY <1>1 DEF LocksInit, ThreadsOK
<1>3. WritersOwnDatabase
  BY <1>1 DEF WritersOwnDatabase, Place, Inside
<1>4. PythonInTransaction
  BY DEF LocksInit, PythonInTransaction, SQLiteThreads
<1> QED BY <1>2, <1>3, <1>4 DEF LocksIInv

\* A place is where a busy thread is.
LEMMA PlaceBusy == \A t \in Threads : Place(t) # "idle" => Busy(t)
BY DEF Place

LEMMA WaitStep ==
    ASSUME LocksIInv, NEW t \in Threads, Glance(t) \/ Hold(t) \/ Unhold(t)
    PROVE  LocksIInv'
<1>1. Place(t) \in {"glance", "hold", "unhold"} /\ GoesOn(t) /\ UNCHANGED <<python, database>>
  BY DEF Glance, Hold, Unhold
<1>2. Busy(t)
  BY <1>1, PlaceBusy
<1>3. ThreadsOK' /\ Others(t)
      /\ (Place(t)' # "enter")
      /\ (Inside(t)' => Inside(t)) /\ (Inside(t) => Inside(t)')
  BY <1>1, <1>2, Moves DEF LocksIInv
<1>4. Inside(t)' => database' = t
  BY <1>1, <1>3 DEF LocksIInv, WritersOwnDatabase
<1>5. python' = t => Inside(t)'
  BY <1>1, <1>3 DEF LocksIInv, PythonInTransaction
<1> QED BY <1>1, <1>3, <1>4, <1>5, KeptByStep

LEMMA BeginStep ==
    ASSUME SQLiteThreads, LocksIInv, NEW t \in Threads, Begin(t) PROVE LocksIInv'
<1>1. Place(t) = "begin" /\ GoesOn(t) /\ database = Nobody /\ database' = t /\ python' = python
  BY DEF Begin, SQLiteThreads
<1>2. Busy(t)
  BY <1>1, PlaceBusy
<1>3. ThreadsOK' /\ Others(t)
  BY <1>1, <1>2, Moves DEF LocksIInv
<1>4. ~Inside(t)
  BY <1>1 DEF Inside, Within, Place
<1>5. python' # t
  BY <1>1, <1>4 DEF LocksIInv, PythonInTransaction
<1>6. \A u \in Threads : database # u
  BY <1>1 DEF SQLiteThreads
<1> QED BY <1>1, <1>3, <1>5, <1>6, KeptByStep

LEMMA EnterStep ==
    ASSUME LocksIInv, NEW t \in Threads, Enter(t) PROVE LocksIInv'
<1>1. Place(t) = "enter" /\ GoesOn(t) /\ python' = t /\ database' = database
  BY DEF Enter
<1>2. Busy(t)
  BY <1>1, PlaceBusy
<1>3. ThreadsOK' /\ Others(t) /\ Inside(t)'
  BY <1>1, <1>2, Moves DEF LocksIInv
<1>4. database = t
  BY <1>1 DEF LocksIInv, WritersOwnDatabase
<1> QED BY <1>1, <1>3, <1>4, KeptByStep

LEMMA AppendStep ==
    ASSUME SQLiteThreads, LocksIInv, NEW t \in Threads, Append_(t) PROVE LocksIInv'
<1>1. Place(t) = "append" /\ GoesOn(t) /\ database \in {Nobody, t} /\ database' = t
      /\ python' = python
  BY DEF Append_
<1>2. Busy(t)
  BY <1>1, PlaceBusy
<1>3. ThreadsOK' /\ Others(t) /\ (Inside(t) => Inside(t)')
  BY <1>1, <1>2, Moves DEF LocksIInv
<1>4. python' = t => Inside(t)'
  BY <1>1, <1>3 DEF LocksIInv, PythonInTransaction
<1>5. \A u \in Threads \ {t} : database # u
  BY <1>1 DEF SQLiteThreads
<1> QED BY <1>1, <1>3, <1>4, <1>5, KeptByStep

LEMMA CommitStep ==
    ASSUME LocksIInv, NEW t \in Threads, Commit(t) PROVE LocksIInv'
<1>1. Place(t) = "commit" /\ GoesOn(t) /\ python' = python
      /\ database' = IF database = t THEN Nobody ELSE database
  BY DEF Commit, Without
<1>2. Busy(t)
  BY <1>1, PlaceBusy
<1>3. ThreadsOK' /\ Others(t) /\ Place(t)' # "enter" /\ ~Inside(t)'
      /\ (Inside(t) => Place(t)' = "leave")
  BY <1>1, <1>2, Moves DEF LocksIInv
<1>4. python' = t => Place(t)' = "leave"
  BY <1>1, <1>3 DEF LocksIInv, PythonInTransaction
<1> QED BY <1>1, <1>3, <1>4, KeptByStep

LEMMA LeaveStep ==
    ASSUME SQLiteThreads, LocksIInv, NEW t \in Threads, Leave(t) PROVE LocksIInv'
<1>1. Place(t) = "leave" /\ GoesOn(t) /\ database' = database
      /\ python' = IF python = t THEN Nobody ELSE python
  BY DEF Leave, Without
<1>2. Busy(t)
  BY <1>1, PlaceBusy
<1>3. ~Inside(t)
  BY <1>1 DEF Inside, Within, Place
<1>4. ThreadsOK' /\ Others(t) /\ Place(t)' # "enter" /\ ~Inside(t)'
  BY <1>1, <1>2, <1>3, Moves DEF LocksIInv
<1>5. \A u \in Threads : python' = u => python = u /\ u # t
  BY <1>1 DEF SQLiteThreads
<1> QED BY <1>1, <1>4, <1>5, KeptByStep

\* A call starts where its thread is idle and has no lock to lose.
LEMMA StartStep ==
    ASSUME LocksIInv, NEW t \in Threads, NEW c \in CallKinds, Start(t, c) PROVE LocksIInv'
<1>1. ~Busy(t) /\ UNCHANGED <<python, database>>
      /\ thread' = [thread EXCEPT ![t] = [call |-> c, at |-> 1]]
  BY DEF Start
<1>2. ThreadsOK' /\ Others(t) /\ Place(t)' # "enter" /\ ~Inside(t)'
  BY <1>1, Begins DEF LocksIInv, CallKinds
<1>3. python # t
  BY <1>1 DEF LocksIInv, PythonInTransaction, Inside, Place
<1> QED BY <1>1, <1>2, <1>3, KeptByStep

\* What fails unwinds from the place where it gives its locks back.
LEMMA RaiseStep ==
    ASSUME LocksIInv, NEW t \in Threads, Fails(t) \/ Locked(t) PROVE LocksIInv'
<1>1. UNCHANGED <<python, database>>
      /\ thread' = [thread EXCEPT ![t] = [call |-> "unwinding", at |-> 1]]
  BY DEF Fails, Locked, Raise
<1>2. ThreadsOK' /\ Others(t) /\ Place(t)' = "leave" /\ ~Inside(t)'
  <2>1. "unwinding" \in DOMAIN Program
    BY DEF Program
  <2> QED BY <1>1, <2>1, Begins DEF LocksIInv
<1> QED BY <1>1, <1>2, KeptByStep

LEMMA OtherStep ==
    ASSUME SQLiteThreads, LocksIInv, OtherTakes \/ OtherReleases PROVE LocksIInv'
<1>1. python' = python /\ thread' = thread
  BY DEF OtherTakes, OtherReleases
<1>2. \A t \in Threads : database # t
  BY DEF OtherTakes, OtherReleases, SQLiteThreads
<1> QED BY <1>1, <1>2 DEF LocksIInv, ThreadsOK, WritersOwnDatabase, PythonInTransaction,
                          Busy, Place, Inside

LEMMA NextLocksIInv ==
    ASSUME SQLiteThreads, LocksIInv, [LocksNext]_lockVars PROVE LocksIInv'
<1>1. CASE UNCHANGED lockVars
  BY <1>1 DEF lockVars, LocksIInv, ThreadsOK, WritersOwnDatabase, PythonInTransaction,
              Busy, Place, Inside
<1>2. CASE OtherTakes \/ OtherReleases
  BY <1>2, OtherStep
<1>3. ASSUME NEW t \in Threads, Go(t) PROVE LocksIInv'
  BY <1>3, WaitStep, BeginStep, EnterStep, AppendStep, CommitStep, LeaveStep DEF Go
<1>4. ASSUME NEW t \in Threads,
             Fails(t) \/ Locked(t) \/ \E c \in CallKinds : Start(t, c)
      PROVE  LocksIInv'
  BY <1>4, RaiseStep, StartStep
<1> QED BY <1>1, <1>2, <1>3, <1>4 DEF LocksNext

-----------------------------------------------------------------------------
(* theorems                                                                 *)

\* Who holds _SQLITE_WRITE_LOCK while another thread asks for it has committed.
LEMMA HolderLeaves ==
    ASSUME LocksIInv, NEW t \in Threads, NEW u \in Threads, Place(t) = "enter", python = u
    PROVE  Place(u) = "leave"
<1>1. database = t
  BY DEF LocksIInv, WritersOwnDatabase
<1>2. CASE u = t
  <2>1. ~Inside(t)
    BY DEF Inside, Within, Place
  <2> QED BY <1>2, <2>1 DEF LocksIInv, PythonInTransaction
<1>3. CASE u # t
  BY <1>1, <1>3 DEF LocksIInv, PythonInTransaction, WritersOwnDatabase
<1> QED BY <1>2, <1>3

\* Threads can wait for one another only through a wait for SQLite's lock.
LEMMA WaitsEnd ==
    ASSUME SQLiteThreads, LocksIInv, NEW S \in SUBSET Threads, Deadlocked(S)
    PROVE  \E t \in S : TimesOut(t)
<1> SUFFICES ASSUME \A t \in S : Place(t) # "begin" PROVE FALSE
  BY DEF TimesOut, SQLiteThreads
<1>1. \A t \in S : t \in Threads /\ Awaits(t) \in S /\ Awaits(t) # Nobody
  BY DEF Deadlocked, SQLiteThreads
<1>2. \A t \in S : Place(t) \in {"glance", "hold", "enter", "append"}
  BY <1>1 DEF Awaits
<1>3. \A t \in S : Place(t) # "append"
  <2> SUFFICES ASSUME NEW t \in S, Place(t) = "append" PROVE FALSE
    OBVIOUS
  <2>1. Awaits(t) = database /\ database # t
    BY <1>1 DEF Awaits
  <2>2. Inside(t)
    <3>1. Busy(t) /\ thread[t].call \in DOMAIN Program
          /\ thread[t].at \in Lines(Program[thread[t].call])
      BY <1>1 DEF LocksIInv, ThreadsOK, Place, Busy, Positions
    <3>2. thread[t].call \in Writes
      BY <3>1, OthersNeverEnter DEF Place
    <3> QED BY <3>1, <3>2 DEF Inside, Within, Place
  <2> QED BY <1>1, <2>1, <2>2 DEF LocksIInv, WritersOwnDatabase
<1>4. \A t \in S : Place(t) # "enter"
  <2> SUFFICES ASSUME NEW t \in S, Place(t) = "enter" PROVE FALSE
    OBVIOUS
  <2>1. Awaits(t) = python
    BY <1>1 DEF Awaits
  <2>2. Place(python) = "leave" /\ python \in S
    BY <1>1, <2>1, HolderLeaves
  <2> QED BY <1>2, <2>2
<1>5. \A t \in S : Awaits(t) = session /\ session # t
  BY <1>1, <1>2, <1>3, <1>4 DEF Awaits
<1> QED BY <1>1, <1>5 DEF Deadlocked

\* On SQLite, for any number of threads: the database's lock comes first and is
\* kept (open_write_session).
THEOREM LocksInvariance == SQLiteThreads => (LocksSpec => []LocksIInv)
<1> SUFFICES ASSUME SQLiteThreads PROVE LocksSpec => []LocksIInv
  OBVIOUS
<1>1. LocksInit => LocksIInv
  BY InitStep
<1>2. LocksIInv /\ [LocksNext]_lockVars => LocksIInv'
  BY NextLocksIInv
<1> QED BY <1>1, <1>2, PTL DEF LocksSpec

\* On SQLite a wait for _SQLITE_WRITE_LOCK is a wait for a transaction that has
\* committed or is rolling back.
THEOREM PythonLockIsFree == SQLiteThreads => (LocksSpec => []PythonWaitsAreShort)
<1> SUFFICES ASSUME SQLiteThreads PROVE LocksSpec => []PythonWaitsAreShort
  OBVIOUS
<1>1. LocksIInv => PythonWaitsAreShort
  BY HolderLeaves DEF PythonWaitsAreShort
<1> QED BY <1>1, LocksInvariance, PTL

\* On SQLite every deadlock of the two Python locks and the database's lock has
\* a member whose wait busy_timeout ends.
THEOREM NoDeadlockForGood == SQLiteThreads => (LocksSpec => []DeadlocksTimeOut)
<1> SUFFICES ASSUME SQLiteThreads PROVE LocksSpec => []DeadlocksTimeOut
  OBVIOUS
<1>1. LocksIInv => DeadlocksTimeOut
  BY WaitsEnd DEF DeadlocksTimeOut
<1> QED BY <1>1, LocksInvariance, PTL

\* Type correctness of the locks.
THEOREM LocksTypeCorrect == SQLiteThreads => (LocksSpec => []LocksTypeOK)
<1> SUFFICES ASSUME SQLiteThreads PROVE LocksSpec => []LocksTypeOK
  OBVIOUS
<1> DEFINE Held == /\ {session, python} \subseteq Threads \cup {Nobody}
                   /\ database \in Threads \cup {Nobody, Other}
<1>1. LocksInit => Held
  BY DEF LocksInit
<1>2. Held /\ [LocksNext]_lockVars => Held'
  <2> SUFFICES ASSUME Held, [LocksNext]_lockVars PROVE Held'
    OBVIOUS
  <2>1. CASE UNCHANGED lockVars \/ OtherTakes \/ OtherReleases
    BY <2>1 DEF lockVars, OtherTakes, OtherReleases
  <2>2. ASSUME NEW t \in Threads, Go(t) PROVE Held'
    BY <2>2 DEF Go, Glance, Hold, Unhold, Begin, Enter, Append_, Commit, Leave, Without
  <2>3. ASSUME NEW t \in Threads,
               Fails(t) \/ Locked(t) \/ \E c \in CallKinds : Start(t, c)
        PROVE  Held'
    BY <2>3 DEF Fails, Locked, Start
  <2> QED BY <2>1, <2>2, <2>3 DEF LocksNext
<1>3. Held /\ LocksIInv => LocksTypeOK
  BY DEF LocksTypeOK, LocksIInv, ThreadsOK, Busy, Positions, Lines, Bracketed
<1> QED BY <1>1, <1>2, <1>3, LocksInvariance, PTL DEF LocksSpec

-----------------------------------------------------------------------------
(* The sessions.                                                           *)

\* What the repository calls write is of its type.
LEMMA RepositoryTypes ==
    ASSUME TypeOK, NEW s \in Sessions
    PROVE  /\ Created(s) \in [Sessions -> Row]
           /\ Summarized(s) \in [Sessions -> Log]
           /\ Touched(s) \in [Sessions -> Row]
           /\ \A status \in Terminal, by \in {"tool", "finalization"} :
                 Closed(s, status, by) \in [Sessions -> Row]
<1>1. row \in [Sessions -> Row] /\ log \in [Sessions -> Log]
  BY DEF TypeOK
<1>2. Created(s) \in [Sessions -> Row]
  BY <1>1 DEF Created, Row
<1>3. Summarized(s) \in [Sessions -> Log]
  <2>1. log[s] \in Log /\ Inc(log[s].summaries) \in 0..2
    BY <1>1 DEF Log, Inc
  <2>2. [log[s] EXCEPT !.summaries = Inc(@)] \in Log
    BY <2>1 DEF Log
  <2> QED BY <1>1, <2>2 DEF Summarized
<1>4. Touched(s) \in [Sessions -> Row]
  <2>1. [row[s] EXCEPT !.expired = FALSE] \in Row
    BY <1>1 DEF Row
  <2> QED BY <1>1, <2>1 DEF Touched
<1>5. ASSUME NEW status \in Terminal, NEW by \in {"tool", "finalization"}
      PROVE  Closed(s, status, by) \in [Sessions -> Row]
  <2>1. [status |-> status, by |-> by, expired |-> FALSE] \in Row
    BY DEF Row
  <2> QED BY <1>1, <2>1 DEF Closed
<1> QED BY <1>2, <1>3, <1>4, <1>5

\* ... and so is an append to a session that may not be there.
LEMMA NotedType ==
    ASSUME TypeOK, NEW s
    PROVE  Noted(s) \in [Sessions -> Log]
<1>1. log \in [Sessions -> Log]
  BY DEF TypeOK
<1>2. CASE s \in Sessions
  <2>1. [log[s] EXCEPT !.other = @ \/ Exists(s)] \in Log
    BY <1>1, <1>2 DEF Log, Exists
  <2> QED BY <1>1, <1>2, <2>1 DEF Noted
<1>3. CASE s \notin Sessions
  BY <1>1, <1>3 DEF Noted
<1> QED BY <1>2, <1>3

\* A call may be replaced by any call.
LEMMA CallTypes ==
    ASSUME TypeOK, NEW i \in Servers, NEW k \in Calls, NEW c \in Call
    PROVE  [call EXCEPT ![i][k] = c] \in [Servers -> [Calls -> Call]]
BY DEF TypeOK

\* A call may go on with another pc and another session.
LEMMA CallFields ==
    ASSUME TypeOK, NEW i \in Servers, NEW k \in Calls,
           NEW pc \in {"idle", "creating", "making", "ensured", "starting", "started", "running", "detaching"},
           NEW s \in Sessions \cup {NoSession}
    PROVE  /\ [call EXCEPT ![i][k].pc = pc] \in [Servers -> [Calls -> Call]]
           /\ [call EXCEPT ![i][k].pc = pc, ![i][k].made = s] \in [Servers -> [Calls -> Call]]
           /\ [call EXCEPT ![i][k].pc = pc, ![i][k].session = s] \in [Servers -> [Calls -> Call]]
<1>1. call[i][k] \in Call
  BY DEF TypeOK
<1>2. /\ [call[i][k] EXCEPT !.pc = pc] \in Call
      /\ [call[i][k] EXCEPT !.pc = pc, !.made = s] \in Call
      /\ [call[i][k] EXCEPT !.pc = pc, !.session = s] \in Call
  BY <1>1 DEF Call
<1> QED BY <1>2 DEF TypeOK

\* The memory of a server may be replaced by any memory.
LEMMA MemoryTypes ==
    ASSUME TypeOK, NEW i \in Servers,
           NEW s \in Sessions \cup {NoSession}, NEW b \in {"none", "reserved", "set"}
    PROVE  /\ [mem EXCEPT ![i].session = s] \in [Servers -> Memory]
           /\ [mem EXCEPT ![i].baseline = b] \in [Servers -> Memory]
<1>1. mem \in [Servers -> Memory]
  BY DEF TypeOK
<1>2. [mem[i] EXCEPT !.session = s] \in Memory /\ [mem[i] EXCEPT !.baseline = b] \in Memory
  BY <1>1 DEF Memory
<1> QED BY <1>1, <1>2

\* Reservations stay backed when no call leaves "starting" and none is added.
LEMMA BackersStay ==
    ASSUME ReservationsBacked,
           \A i \in Servers : mem'[i].baseline = "reserved" => mem[i].baseline = "reserved",
           \A i \in Servers, k \in Calls :
              call[i][k].pc = "starting" => call'[i][k].pc = "starting"
    PROVE  ReservationsBacked'
BY DEF ReservationsBacked

\* A step that closes nothing regularly and keeps the summaries is harmless.
LEMMA SummariesStay ==
    ASSUME SummaryBeforeClose,
           \A s \in Sessions : row'[s].by = "finalization" => row[s].by = "finalization",
           \A s \in Sessions : log[s].summaries > 0 => log'[s].summaries > 0
    PROVE  SummaryBeforeClose'
BY DEF SummaryBeforeClose

\* Summaries are only added.
LEMMA LaterSummaries ==
    ASSUME TypeOK, NEW s, NEW q \in Sessions
    PROVE  /\ Noted(s)[q].summaries = log[q].summaries
           /\ log[q].summaries > 0 => Summarized(s)[q].summaries > 0
           /\ s = q => Summarized(s)[q].summaries > 0
<1>1. log \in [Sessions -> Log] /\ log[q] \in Log
  BY DEF TypeOK
<1>2. Noted(s)[q].summaries = log[q].summaries
  BY <1>1 DEF Noted, Log
<1>3. Inc(log[q].summaries) > 0
  BY <1>1 DEF Log, Inc
<1>4. Summarized(s)[q].summaries = IF s = q THEN Inc(log[q].summaries) ELSE log[q].summaries
  BY <1>1 DEF Summarized, Log
<1> QED BY <1>2, <1>3, <1>4

\* A slot without a call is of the type of calls.
LEMMA IdleIsCall == IdleCall \in Call
BY DEF IdleCall, Call

\* A heartbeat, or a missing row, leaves the table of its type.
LEMMA TouchedType ==
    ASSUME TypeOK, NEW s
    PROVE  Touched(s) \in [Sessions -> Row]
<1>1. CASE s \in Sessions
  BY <1>1, RepositoryTypes
<1>2. CASE s \notin Sessions
  BY <1>2 DEF Touched, TypeOK
<1> QED BY <1>1, <1>2

\* Each action keeps the invariant, conjunct by conjunct: tool calls ...
LEMMA EnsureSessionKeeps ==
    ASSUME LifecycleIInv, NEW i \in Servers, NEW k \in Calls, NEW s \in Sessions, EnsureSession(i, k, s)
    PROVE  LifecycleIInv'
<1> USE DEF LifecycleIInv
<1>1. TypeOK'
  <2>1. /\ [call EXCEPT ![i][k].pc = "creating", ![i][k].made = s] \in [Servers -> [Calls -> Call]]
        /\ [call EXCEPT ![i][k].pc = "ensured", ![i][k].session = s] \in [Servers -> [Calls -> Call]]
    BY CallFields, ZenonT(30)
  <2>2. row' \in [Sessions -> Row]
    BY RepositoryTypes DEF TypeOK, EnsureSession
  <2>3. call' \in [Servers -> [Calls -> Call]]
    BY <2>1 DEF EnsureSession
  <2> QED BY <2>2, <2>3 DEF TypeOK, EnsureSession
<1>2. FinalizationAlone'
  <2>1. final[i].pc = "serving" /\ final' = final
    BY DEF EnsureSession, LoopFree
  <2>2. \A j \in Servers \ {i} : call'[j] = call[j]
    BY DEF EnsureSession, TypeOK
  <2> QED BY <2>1, <2>2 DEF FinalizationAlone
<1>3. SummaryInTime'
  BY LifecycleConstantsOK DEF TypeOK, Log, Memory, Call, Finalization, FinalizationAlone, SummaryInTime, Created, EnsureSession, Exists, LoopFree, NextId
<1>4. SummaryBeforeClose'
  <2>1. row' \in {row, Created(s)} /\ log' = log
    BY DEF EnsureSession
  <2>2. \A q \in Sessions : Created(s)[q].by = "finalization" => row[q].by = "finalization"
    BY DEF Created, TypeOK, Row
  <2> QED BY <2>1, <2>2, SummariesStay
<1>5. ReservationsBacked'
  <2>1. call[i][k].pc = "idle" /\ mem' = mem
    BY DEF EnsureSession
  <2>2. \A j \in Servers, l \in Calls : <<j, l>> # <<i, k>> => call'[j][l] = call[j][l]
    BY DEF EnsureSession, TypeOK
  <2> QED BY <2>1, <2>2, BackersStay
<1> QED BY <1>1, <1>2, <1>3, <1>4, <1>5

LEMMA AdoptSessionKeeps ==
    ASSUME LifecycleIInv, NEW i \in Servers, NEW k \in Calls, AdoptSession(i, k)
    PROVE  LifecycleIInv'
<1> USE DEF LifecycleIInv
<1>1. TypeOK'
  <2>1. Adopted(i, call[i][k].made) \in Sessions \cup {NoSession}
    BY DEF Adopted, TypeOK, Memory, Call
  <2>2. mem' \in [Servers -> Memory]
    BY MemoryTypes, <2>1 DEF AdoptSession, TypeOK, Memory
  <2>3. call' \in [Servers -> [Calls -> Call]]
    BY CallTypes, <2>1 DEF AdoptSession, Call
  <2> QED BY <2>2, <2>3 DEF TypeOK, AdoptSession
<1>2. FinalizationAlone'
  BY DEF TypeOK, Call, Finalization, FinalizationAlone, AdoptSession, Adopted
<1>3. SummaryInTime'
  BY LifecycleConstantsOK DEF TypeOK, Log, Memory, Call, Finalization, FinalizationAlone, SummaryInTime, AdoptSession, Adopted
<1>4. SummaryBeforeClose'
  BY DEF TypeOK, Row, Log, SummaryInTime, SummaryBeforeClose, AdoptSession, Adopted
<1>5. ReservationsBacked'
  BY DEF TypeOK, Memory, Call, FinalizationAlone, ReservationsBacked, AdoptSession, Adopted
<1> QED BY <1>1, <1>2, <1>3, <1>4, <1>5

LEMMA ReserveStartKeeps ==
    ASSUME LifecycleIInv, NEW i \in Servers, NEW k \in Calls, ReserveStart(i, k)
    PROVE  LifecycleIInv'
<1> USE DEF LifecycleIInv
<1>1. TypeOK'
  <2>1. \A pc \in {"starting", "started"} :
           [call EXCEPT ![i][k].pc = pc] \in [Servers -> [Calls -> Call]]
    BY CallFields, ZenonT(30)
  <2>2. mem' \in [Servers -> Memory]
    BY MemoryTypes, ZenonT(30) DEF ReserveStart, TypeOK
  <2>3. call' \in [Servers -> [Calls -> Call]]
    BY <2>1 DEF ReserveStart
  <2> QED BY <2>2, <2>3 DEF TypeOK, ReserveStart
<1>2. FinalizationAlone'
  BY DEF TypeOK, Call, Finalization, FinalizationAlone, ReserveStart
<1>3. SummaryInTime'
  BY LifecycleConstantsOK DEF TypeOK, Log, Memory, Call, Finalization, FinalizationAlone, SummaryInTime, ReserveStart
<1>4. SummaryBeforeClose'
  BY DEF TypeOK, Row, Log, SummaryInTime, SummaryBeforeClose, ReserveStart
<1>5. ReservationsBacked'
  <2>1. CASE mem[i].baseline = "none"
    <3>1. call'[i][k].pc = "starting" /\ \A j \in Servers \ {i} : mem'[j] = mem[j] /\ call'[j] = call[j]
      BY <2>1 DEF ReserveStart, TypeOK, Call
    <3> QED BY <3>1 DEF ReservationsBacked
  <2>2. CASE mem[i].baseline # "none"
    <3>1. call[i][k].pc = "ensured" /\ mem' = mem
      BY <2>2 DEF ReserveStart
    <3>2. \A j \in Servers, l \in Calls : <<j, l>> # <<i, k>> => call'[j][l] = call[j][l]
      BY <2>2 DEF ReserveStart, TypeOK
    <3> QED BY <3>1, <3>2, BackersStay
  <2> QED BY <2>1, <2>2
<1> QED BY <1>1, <1>2, <1>3, <1>4, <1>5

LEMMA RecordStartKeeps ==
    ASSUME LifecycleIInv, NEW i \in Servers, NEW k \in Calls, RecordStart(i, k)
    PROVE  LifecycleIInv'
<1> USE DEF LifecycleIInv
<1>1. TypeOK'
  <2>1. log' \in [Sessions -> Log]
    BY DEF RecordStart, TypeOK, Log
  <2>2. mem' \in [Servers -> Memory]
    BY MemoryTypes DEF RecordStart
  <2>3. call' \in [Servers -> [Calls -> Call]]
    BY CallFields DEF RecordStart
  <2> QED BY <2>1, <2>2, <2>3 DEF TypeOK, RecordStart
<1>2. FinalizationAlone'
  BY DEF TypeOK, Call, Finalization, FinalizationAlone, Exists, RecordStart
<1>3. SummaryInTime'
  BY LifecycleConstantsOK DEF TypeOK, Log, Memory, Call, Finalization, FinalizationAlone, SummaryInTime, Exists, RecordStart
<1>4. SummaryBeforeClose'
  BY DEF TypeOK, Row, Log, SummaryInTime, SummaryBeforeClose, Exists, RecordStart
<1>5. ReservationsBacked'
  BY DEF TypeOK, Memory, Call, FinalizationAlone, ReservationsBacked, Exists, RecordStart
<1> QED BY <1>1, <1>2, <1>3, <1>4, <1>5

LEMMA StartFailsKeeps ==
    ASSUME LifecycleIInv, NEW i \in Servers, NEW k \in Calls, StartFails(i, k)
    PROVE  LifecycleIInv'
<1> USE DEF LifecycleIInv
<1>1. TypeOK'
  <2>1. mem' \in [Servers -> Memory]
    BY MemoryTypes DEF StartFails
  <2>2. call' \in [Servers -> [Calls -> Call]]
    BY CallTypes, IdleIsCall DEF StartFails
  <2> QED BY <2>1, <2>2 DEF TypeOK, StartFails
<1>2. FinalizationAlone'
  BY DEF TypeOK, Call, Finalization, FinalizationAlone, IdleCall, StartFails
<1>3. SummaryInTime'
  BY LifecycleConstantsOK DEF TypeOK, Log, Memory, Call, Finalization, FinalizationAlone, SummaryInTime, IdleCall, StartFails
<1>4. SummaryBeforeClose'
  BY DEF TypeOK, Row, Log, SummaryInTime, SummaryBeforeClose, IdleCall, StartFails
<1>5. ReservationsBacked'
  BY DEF TypeOK, Memory, Call, FinalizationAlone, ReservationsBacked, IdleCall, StartFails
<1> QED BY <1>1, <1>2, <1>3, <1>4, <1>5

LEMMA RecordCallKeeps ==
    ASSUME LifecycleIInv, NEW i \in Servers, NEW k \in Calls, RecordCall(i, k)
    PROVE  LifecycleIInv'
<1> USE DEF LifecycleIInv
<1>1. TypeOK'
  <2>1. log' \in [Sessions -> Log]
    BY NotedType DEF RecordCall
  <2>2. call' \in [Servers -> [Calls -> Call]]
    BY CallFields DEF RecordCall
  <2> QED BY <2>1, <2>2 DEF TypeOK, RecordCall
<1>2. FinalizationAlone'
  BY DEF TypeOK, Call, Finalization, FinalizationAlone, Exists, Noted, RecordCall
<1>3. SummaryInTime'
  BY LifecycleConstantsOK DEF TypeOK, Log, Memory, Call, Finalization, FinalizationAlone, SummaryInTime, Exists, Noted, RecordCall
<1>4. SummaryBeforeClose'
  BY ZenonT(30) DEF TypeOK, Row, Log, SummaryInTime, SummaryBeforeClose, Exists, Noted, RecordCall
<1>5. ReservationsBacked'
  BY DEF TypeOK, Memory, Call, FinalizationAlone, ReservationsBacked, Exists, Noted, RecordCall
<1> QED BY <1>1, <1>2, <1>3, <1>4, <1>5

LEMMA CloseToolKeeps ==
    ASSUME LifecycleIInv, NEW i \in Servers, NEW k \in Calls, NEW s \in Sessions, CloseTool(i, k, s)
    PROVE  LifecycleIInv'
<1> USE DEF LifecycleIInv
<1>1. TypeOK'
  <2>1. row' \in [Sessions -> Row]
    BY RepositoryTypes DEF CloseTool, Terminal
  <2>2. call' \in [Servers -> [Calls -> Call]]
    BY CallFields, ZenonT(30) DEF CloseTool
  <2> QED BY <2>1, <2>2 DEF TypeOK, CloseTool
<1>2. FinalizationAlone'
  BY DEF TypeOK, Call, Finalization, FinalizationAlone, Active, CloseTool, Closed, Exists
<1>3. SummaryInTime'
  BY LifecycleConstantsOK DEF TypeOK, Log, Memory, Call, Finalization, FinalizationAlone, SummaryInTime, Active, CloseTool, Closed, Exists
<1>4. SummaryBeforeClose'
  BY DEF TypeOK, Row, Log, SummaryInTime, SummaryBeforeClose, Active, CloseTool, Closed, Exists
<1>5. ReservationsBacked'
  <2>1. \A j \in Servers, l \in Calls :
           call[j][l].pc = "starting" => call'[j][l].pc = "starting"
    BY DEF CloseTool, TypeOK, Call
  <2> QED BY <2>1, BackersStay DEF CloseTool
<1> QED BY <1>1, <1>2, <1>3, <1>4, <1>5

LEMMA DetachClosedKeeps ==
    ASSUME LifecycleIInv, NEW i \in Servers, NEW k \in Calls, DetachClosed(i, k)
    PROVE  LifecycleIInv'
<1> USE DEF LifecycleIInv
<1>1. TypeOK'
  <2>1. mem' \in [Servers -> Memory]
    BY DEF DetachClosed, TypeOK, Memory, Detached
  <2>2. call' \in [Servers -> [Calls -> Call]]
    <3>1. call' = [call EXCEPT ![i][k].pc = "running", ![i][k].made = NoSession]
      BY DEF DetachClosed
    <3>2. [call EXCEPT ![i][k].pc = "running", ![i][k].made = NoSession]
             \in [Servers -> [Calls -> Call]]
      <4>1. NoSession \in Sessions \cup {NoSession} /\ TypeOK
        OBVIOUS
      <4> QED BY <4>1, CallFields
    <3> QED BY <3>1, <3>2
  <2> QED BY <2>1, <2>2 DEF TypeOK, DetachClosed
<1>2. FinalizationAlone'
  BY DEF TypeOK, Call, Finalization, FinalizationAlone, DetachClosed, Detached
<1>3. SummaryInTime'
  BY LifecycleConstantsOK DEF TypeOK, Log, Memory, Call, Finalization, FinalizationAlone, SummaryInTime, DetachClosed, Detached
<1>4. SummaryBeforeClose'
  BY DEF TypeOK, Row, Log, SummaryInTime, SummaryBeforeClose, DetachClosed, Detached
<1>5. ReservationsBacked'
  <2>1. \A j \in Servers, l \in Calls :
           call[j][l].pc = "starting" => call'[j][l].pc = "starting"
    BY DEF DetachClosed, TypeOK, Call
  <2> QED BY <2>1, BackersStay DEF DetachClosed, Detached, TypeOK
<1> QED BY <1>1, <1>2, <1>3, <1>4, <1>5

LEMMA MakeInToolKeeps ==
    ASSUME LifecycleIInv, NEW i \in Servers, NEW k \in Calls, NEW s \in Sessions, MakeInTool(i, k, s)
    PROVE  LifecycleIInv'
<1> USE DEF LifecycleIInv
<1>1. TypeOK'
  <2>1. [call EXCEPT ![i][k].pc = "making", ![i][k].made = s] \in [Servers -> [Calls -> Call]]
    BY CallFields
  <2>2. row' \in [Sessions -> Row]
    BY RepositoryTypes DEF MakeInTool
  <2>3. call' \in [Servers -> [Calls -> Call]]
    BY <2>1 DEF MakeInTool
  <2> QED BY <2>2, <2>3 DEF TypeOK, MakeInTool
<1>2. FinalizationAlone'
  BY ZenonT(30) DEF TypeOK, Call, Finalization, FinalizationAlone, Created, Exists, MakeInTool, NextId
<1>3. SummaryInTime'
  BY LifecycleConstantsOK DEF TypeOK, Log, Memory, Call, Finalization, FinalizationAlone, SummaryInTime, Created, Exists, MakeInTool, NextId
<1>4. SummaryBeforeClose'
  BY DEF TypeOK, Row, Log, SummaryInTime, SummaryBeforeClose, Created, Exists, MakeInTool, NextId
<1>5. ReservationsBacked'
  <2>1. \A j \in Servers, l \in Calls :
           call[j][l].pc = "starting" => call'[j][l].pc = "starting"
    BY DEF MakeInTool, TypeOK, Call
  <2> QED BY <2>1, BackersStay DEF MakeInTool
<1> QED BY <1>1, <1>2, <1>3, <1>4, <1>5

LEMMA AdoptInToolKeeps ==
    ASSUME LifecycleIInv, NEW i \in Servers, NEW k \in Calls, AdoptInTool(i, k)
    PROVE  LifecycleIInv'
<1> USE DEF LifecycleIInv
<1>1. TypeOK'
  <2>1. Adopted(i, call[i][k].made) \in Sessions \cup {NoSession}
    BY DEF Adopted, TypeOK, Memory, Call
  <2>2. mem' \in [Servers -> Memory]
    <3>1. mem' = [mem EXCEPT ![i].session = Adopted(i, call[i][k].made)]
      BY DEF AdoptInTool
    <3> QED BY <2>1, <3>1, MemoryTypes
  <2>3. call' \in [Servers -> [Calls -> Call]]
    BY CallFields, ZenonT(30) DEF AdoptInTool
  <2> QED BY <2>2, <2>3 DEF TypeOK, AdoptInTool
<1>2. FinalizationAlone'
  BY DEF TypeOK, Call, Finalization, FinalizationAlone, AdoptInTool, Adopted
<1>3. SummaryInTime'
  BY LifecycleConstantsOK DEF TypeOK, Log, Memory, Call, Finalization, FinalizationAlone, SummaryInTime, AdoptInTool, Adopted
<1>4. SummaryBeforeClose'
  BY DEF TypeOK, Row, Log, SummaryInTime, SummaryBeforeClose, AdoptInTool, Adopted
<1>5. ReservationsBacked'
  BY DEF TypeOK, Memory, Call, FinalizationAlone, ReservationsBacked, AdoptInTool, Adopted
<1> QED BY <1>1, <1>2, <1>3, <1>4, <1>5

LEMMA FinishCallKeeps ==
    ASSUME LifecycleIInv, NEW i \in Servers, NEW k \in Calls, NEW compared \in BOOLEAN, NEW touched \in BOOLEAN, FinishCall(i, k, compared, touched)
    PROVE  LifecycleIInv'
<1> USE DEF LifecycleIInv
<1>1. TypeOK'
  <2>1. Touched(call[i][k].session) \in [Sessions -> Row]
    BY TouchedType
  <2>2. row' \in [Sessions -> Row]
    BY <2>1 DEF FinishCall, TypeOK
  <2>3. log' \in [Sessions -> Log]
    BY NotedType DEF FinishCall
  <2>4. mem' \in [Servers -> Memory]
    BY MemoryTypes DEF FinishCall, TypeOK
  <2>5. call' \in [Servers -> [Calls -> Call]]
    BY CallTypes, IdleIsCall DEF FinishCall
  <2> QED BY <2>2, <2>3, <2>4, <2>5 DEF TypeOK, FinishCall
<1>2. FinalizationAlone'
  BY DEF TypeOK, Call, Finalization, FinalizationAlone, Active, Exists, FinishCall, IdleCall, LoopFree, Noted, Touched
<1>3. SummaryInTime'
  BY LifecycleConstantsOK DEF TypeOK, Log, Memory, Call, Finalization, FinalizationAlone, SummaryInTime, Active, Exists, FinishCall, IdleCall, LoopFree, Noted, Touched
<1>4. SummaryBeforeClose'
  BY ZenonT(30) DEF TypeOK, Row, Log, SummaryInTime, SummaryBeforeClose, Active, Exists, FinishCall, IdleCall, LoopFree, Noted, Touched
<1>5. ReservationsBacked'
  BY DEF TypeOK, Memory, Call, FinalizationAlone, ReservationsBacked, Active, Exists, FinishCall, IdleCall, LoopFree, Noted, Touched
<1> QED BY <1>1, <1>2, <1>3, <1>4, <1>5

\* ... the heartbeat ...
LEMMA BeatTouchKeeps ==
    ASSUME LifecycleIInv, NEW i \in Servers, BeatTouch(i)
    PROVE  LifecycleIInv'
<1> USE DEF LifecycleIInv
<1>1. TypeOK'
  <2>1. \A pc \in {"alive", "dead"} :
           [beat[i] EXCEPT !.pc = pc, !.session = mem[i].session] \in Beat
    BY DEF TypeOK, Beat, Memory
  <2>2. row' \in [Sessions -> Row]
    BY TouchedType DEF BeatTouch
  <2>3. beat' \in [Servers -> Beat]
    BY <2>1 DEF BeatTouch, TypeOK
  <2> QED BY <2>2, <2>3 DEF TypeOK, BeatTouch
<1>2. FinalizationAlone'
  BY DEF TypeOK, Call, Finalization, FinalizationAlone, Active, BeatTouch, LoopFree, Touched
<1>3. SummaryInTime'
  BY LifecycleConstantsOK DEF TypeOK, Log, Memory, Call, Finalization, FinalizationAlone, SummaryInTime, Active, BeatTouch, LoopFree, Touched
<1>4. SummaryBeforeClose'
  BY DEF TypeOK, Row, Log, SummaryInTime, SummaryBeforeClose, Active, BeatTouch, LoopFree, Touched
<1>5. ReservationsBacked'
  BY DEF TypeOK, Memory, Call, FinalizationAlone, ReservationsBacked, Active, BeatTouch, LoopFree, Touched
<1> QED BY <1>1, <1>2, <1>3, <1>4, <1>5

LEMMA BeatDetachKeeps ==
    ASSUME LifecycleIInv, NEW i \in Servers, BeatDetach(i)
    PROVE  LifecycleIInv'
<1> USE DEF LifecycleIInv
<1>1. TypeOK'
  <2>1. mem' \in [Servers -> Memory]
    BY DEF BeatDetach, TypeOK, Memory, Detached
  <2>2. beat' \in [Servers -> Beat]
    BY DEF BeatDetach, TypeOK, Beat, IdleBeat
  <2> QED BY <2>1, <2>2 DEF TypeOK, BeatDetach
<1>2. FinalizationAlone'
  BY DEF TypeOK, Call, Finalization, FinalizationAlone, BeatDetach, Detached, IdleBeat, LoopFree
<1>3. SummaryInTime'
  BY LifecycleConstantsOK DEF TypeOK, Log, Memory, Call, Finalization, FinalizationAlone, SummaryInTime, BeatDetach, Detached, IdleBeat, LoopFree
<1>4. SummaryBeforeClose'
  BY DEF TypeOK, Row, Log, SummaryInTime, SummaryBeforeClose, BeatDetach, Detached, IdleBeat, LoopFree
<1>5. ReservationsBacked'
  BY DEF TypeOK, Memory, Call, FinalizationAlone, ReservationsBacked, BeatDetach, Detached, IdleBeat, LoopFree
<1> QED BY <1>1, <1>2, <1>3, <1>4, <1>5

LEMMA BeatGitReadKeeps ==
    ASSUME LifecycleIInv, NEW i \in Servers, BeatGitRead(i)
    PROVE  LifecycleIInv'
<1> USE DEF LifecycleIInv
<1>1. TypeOK'
  <2>1. [beat[i] EXCEPT !.pc = "git", !.baseline = mem[i].baseline] \in Beat
    BY DEF TypeOK, Beat, Memory
  <2>2. beat' \in [Servers -> Beat]
    BY <2>1 DEF BeatGitRead, TypeOK
  <2> QED BY <2>2 DEF TypeOK, BeatGitRead
<1>2. FinalizationAlone'
  BY DEF TypeOK, Call, Finalization, FinalizationAlone, BeatGitRead, LockFree
<1>3. SummaryInTime'
  BY LifecycleConstantsOK DEF TypeOK, Log, Memory, Call, Finalization, FinalizationAlone, SummaryInTime, BeatGitRead, LockFree
<1>4. SummaryBeforeClose'
  BY DEF TypeOK, Row, Log, SummaryInTime, SummaryBeforeClose, BeatGitRead, LockFree
<1>5. ReservationsBacked'
  BY DEF TypeOK, Memory, Call, FinalizationAlone, ReservationsBacked, BeatGitRead, LockFree
<1> QED BY <1>1, <1>2, <1>3, <1>4, <1>5

LEMMA BeatGitWriteKeeps ==
    ASSUME LifecycleIInv, NEW i \in Servers, NEW changed \in BOOLEAN, BeatGitWrite(i, changed)
    PROVE  LifecycleIInv'
<1> USE DEF LifecycleIInv
<1>1. TypeOK'
  <2>1. log' \in [Sessions -> Log]
    BY NotedType DEF BeatGitWrite, TypeOK
  <2>2. mem' \in [Servers -> Memory]
    BY MemoryTypes DEF BeatGitWrite
  <2>3. beat' \in [Servers -> Beat]
    BY DEF BeatGitWrite, TypeOK, Beat, IdleBeat
  <2> QED BY <2>1, <2>2, <2>3 DEF TypeOK, BeatGitWrite
<1>2. FinalizationAlone'
  BY DEF TypeOK, Call, Finalization, FinalizationAlone, BeatGitWrite, Exists, IdleBeat, LockFree, Noted
<1>3. SummaryInTime'
  BY LifecycleConstantsOK DEF TypeOK, Log, Memory, Call, Finalization, FinalizationAlone, SummaryInTime, BeatGitWrite, Exists, IdleBeat, LockFree, Noted
<1>4. SummaryBeforeClose'
  BY ZenonT(30) DEF TypeOK, Row, Log, SummaryInTime, SummaryBeforeClose, BeatGitWrite, Exists, IdleBeat, LockFree, Noted
<1>5. ReservationsBacked'
  BY DEF TypeOK, Memory, Call, FinalizationAlone, ReservationsBacked, BeatGitWrite, Exists, IdleBeat, LockFree, Noted
<1> QED BY <1>1, <1>2, <1>3, <1>4, <1>5

LEMMA BeatGitFailsKeeps ==
    ASSUME LifecycleIInv, NEW i \in Servers, BeatGitFails(i)
    PROVE  LifecycleIInv'
<1> USE DEF LifecycleIInv
<1>1. TypeOK'
  <2>1. beat' \in [Servers -> Beat]
    BY DEF BeatGitFails, TypeOK, Beat, IdleBeat
  <2> QED BY <2>1 DEF TypeOK, BeatGitFails
<1>2. FinalizationAlone'
  BY DEF TypeOK, Call, Finalization, FinalizationAlone, BeatGitFails, IdleBeat
<1>3. SummaryInTime'
  BY LifecycleConstantsOK DEF TypeOK, Log, Memory, Call, Finalization, FinalizationAlone, SummaryInTime, BeatGitFails, IdleBeat
<1>4. SummaryBeforeClose'
  BY DEF TypeOK, Row, Log, SummaryInTime, SummaryBeforeClose, BeatGitFails, IdleBeat
<1>5. ReservationsBacked'
  BY DEF TypeOK, Memory, Call, FinalizationAlone, ReservationsBacked, BeatGitFails, IdleBeat
<1> QED BY <1>1, <1>2, <1>3, <1>4, <1>5

LEMMA ReconcileKeeps ==
    ASSUME LifecycleIInv, NEW i \in Servers, Reconcile(i)
    PROVE  LifecycleIInv'
<1> USE DEF LifecycleIInv
<1>1. TypeOK'
  <2>1. row' \in [Sessions -> Row]
    BY DEF Reconcile, TypeOK, Row, Terminal
  <2>2. clean' \in [Servers -> Clean]
    BY DEF Reconcile, TypeOK, Clean, Stale
  <2> QED BY <2>1, <2>2 DEF TypeOK, Reconcile
<1>2. FinalizationAlone'
  BY DEF TypeOK, Call, Finalization, FinalizationAlone, Active, Eventful, IdleClean, LoopFree, Reconcile, Stale
<1>3. SummaryInTime'
  BY LifecycleConstantsOK DEF TypeOK, Log, Memory, Call, Finalization, FinalizationAlone, SummaryInTime, Active, Eventful, IdleClean, LoopFree, Reconcile, Stale
<1>4. SummaryBeforeClose'
  BY DEF TypeOK, Row, Log, SummaryInTime, SummaryBeforeClose, Active, Eventful, IdleClean, LoopFree, Reconcile, Stale
<1>5. ReservationsBacked'
  BY DEF TypeOK, Memory, Call, FinalizationAlone, ReservationsBacked, Active, Eventful, IdleClean, LoopFree, Reconcile, Stale
<1> QED BY <1>1, <1>2, <1>3, <1>4, <1>5

LEMMA LookForSummaryKeeps ==
    ASSUME LifecycleIInv, NEW i \in Servers, NEW s \in Sessions, LookForSummary(i, s)
    PROVE  LifecycleIInv'
<1> USE DEF LifecycleIInv
<1>1. TypeOK'
  <2>1. clean' \in [Servers -> Clean]
    BY DEF LookForSummary, TypeOK, Clean
  <2> QED BY <2>1 DEF TypeOK, LookForSummary
<1>2. FinalizationAlone'
  BY DEF TypeOK, Call, Finalization, FinalizationAlone, LookForSummary
<1>3. SummaryInTime'
  BY LifecycleConstantsOK DEF TypeOK, Log, Memory, Call, Finalization, FinalizationAlone, SummaryInTime, LookForSummary
<1>4. SummaryBeforeClose'
  BY DEF TypeOK, Row, Log, SummaryInTime, SummaryBeforeClose, LookForSummary
<1>5. ReservationsBacked'
  BY DEF TypeOK, Memory, Call, FinalizationAlone, ReservationsBacked, LookForSummary
<1> QED BY <1>1, <1>2, <1>3, <1>4, <1>5

LEMMA AppendSummaryKeeps ==
    ASSUME LifecycleIInv, NEW i \in Servers, AppendSummary(i)
    PROVE  LifecycleIInv'
<1> USE DEF LifecycleIInv
<1>1. TypeOK'
  <2>1. log' \in [Sessions -> Log]
    BY RepositoryTypes DEF AppendSummary, TypeOK, Clean
  <2>2. clean' \in [Servers -> Clean]
    BY DEF AppendSummary, TypeOK, Clean
  <2> QED BY <2>1, <2>2 DEF TypeOK, AppendSummary
<1>2. FinalizationAlone'
  BY DEF TypeOK, Call, Finalization, FinalizationAlone, AppendSummary, Inc, Summarized
<1>3. SummaryInTime'
  BY LaterSummaries DEF AppendSummary, SummaryInTime, FinalizationAlone
<1>4. SummaryBeforeClose'
  BY LaterSummaries, SummariesStay DEF AppendSummary
<1>5. ReservationsBacked'
  BY DEF TypeOK, Memory, Call, FinalizationAlone, ReservationsBacked, AppendSummary, Inc, Summarized
<1> QED BY <1>1, <1>2, <1>3, <1>4, <1>5

LEMMA SummaryFailsKeeps ==
    ASSUME LifecycleIInv, NEW i \in Servers, SummaryFails(i)
    PROVE  LifecycleIInv'
<1> USE DEF LifecycleIInv
<1>1. TypeOK'
  <2>1. clean' \in [Servers -> Clean]
    BY DEF SummaryFails, TypeOK, Clean, IdleClean
  <2> QED BY <2>1 DEF TypeOK, SummaryFails
<1>2. FinalizationAlone'
  BY DEF TypeOK, Call, Finalization, FinalizationAlone, IdleClean, SummaryFails
<1>3. SummaryInTime'
  BY LifecycleConstantsOK DEF TypeOK, Log, Memory, Call, Finalization, FinalizationAlone, SummaryInTime, IdleClean, SummaryFails
<1>4. SummaryBeforeClose'
  BY DEF TypeOK, Row, Log, SummaryInTime, SummaryBeforeClose, IdleClean, SummaryFails
<1>5. ReservationsBacked'
  BY DEF TypeOK, Memory, Call, FinalizationAlone, ReservationsBacked, IdleClean, SummaryFails
<1> QED BY <1>1, <1>2, <1>3, <1>4, <1>5

LEMMA CleanupEmptyKeeps ==
    ASSUME LifecycleIInv, NEW i \in Servers, NEW S \in SUBSET Sessions, CleanupEmpty(i, S)
    PROVE  LifecycleIInv'
<1> USE DEF LifecycleIInv
<1>1. TypeOK'
  <2>1. row' \in [Sessions -> Row]
    BY DEF CleanupEmpty, TypeOK, Row, NoRow
  <2> QED BY <2>1 DEF TypeOK, CleanupEmpty
<1>2. FinalizationAlone'
  BY DEF TypeOK, Call, Finalization, FinalizationAlone, CleanupEmpty, IdleClean, LoopFree, NoRow
<1>3. SummaryInTime'
  BY LifecycleConstantsOK DEF TypeOK, Log, Memory, Call, Finalization, FinalizationAlone, SummaryInTime, CleanupEmpty, IdleClean, LoopFree, NoRow
<1>4. SummaryBeforeClose'
  BY DEF TypeOK, Row, Log, SummaryInTime, SummaryBeforeClose, CleanupEmpty, IdleClean, LoopFree, NoRow
<1>5. ReservationsBacked'
  BY BackersStay DEF CleanupEmpty
<1> QED BY <1>1, <1>2, <1>3, <1>4, <1>5

LEMMA FinalizeBeginKeeps ==
    ASSUME LifecycleIInv, NEW i \in Servers, FinalizeBegin(i)
    PROVE  LifecycleIInv'
<1> USE DEF LifecycleIInv
<1>1. TypeOK'
  <2>1. mem' \in [Servers -> Memory]
    BY MemoryTypes DEF FinalizeBegin, TypeOK
  <2>2. final' \in [Servers -> Finalization]
    BY DEF FinalizeBegin, TypeOK, Finalization
  <2> QED BY <2>1, <2>2 DEF TypeOK, FinalizeBegin
<1>2. FinalizationAlone'
  BY DEF TypeOK, Call, Finalization, FinalizationAlone, FinalizeBegin, Terminal
<1>3. SummaryInTime'
  BY LifecycleConstantsOK DEF TypeOK, Log, Memory, Call, Finalization, FinalizationAlone, SummaryInTime, FinalizeBegin, Terminal
<1>4. SummaryBeforeClose'
  BY DEF TypeOK, Row, Log, SummaryInTime, SummaryBeforeClose, FinalizeBegin, Terminal
<1>5. ReservationsBacked'
  BY DEF TypeOK, Memory, Call, FinalizationAlone, ReservationsBacked, FinalizeBegin, Terminal
<1> QED BY <1>1, <1>2, <1>3, <1>4, <1>5

LEMMA FinalizeListKeeps ==
    ASSUME LifecycleIInv, NEW i \in Servers, NEW changed \in BOOLEAN, FinalizeList(i, changed)
    PROVE  LifecycleIInv'
<1> USE DEF LifecycleIInv
<1>1. TypeOK'
  <2>1. \A found \in BOOLEAN :
           [final[i] EXCEPT !.pc = "summarizing", !.summarized = found] \in Finalization
    BY DEF TypeOK, Finalization
  <2>2. log' \in [Sessions -> Log]
    BY NotedType DEF FinalizeList, TypeOK
  <2>3. mem' \in [Servers -> Memory]
    BY MemoryTypes DEF FinalizeList
  <2>4. final' \in [Servers -> Finalization]
    <3> DEFINE found == log[mem[i].session].summaries > 0
    <3>1. final' = [final EXCEPT ![i].pc = "summarizing", ![i].summarized = found]
      BY DEF FinalizeList
    <3>2. found \in BOOLEAN
      OBVIOUS
    <3> HIDE DEF found
    <3> QED BY <2>1, <3>1, <3>2 DEF TypeOK
  <2> QED BY <2>2, <2>3, <2>4 DEF TypeOK, FinalizeList
<1>2. FinalizationAlone'
  BY DEF TypeOK, Call, Finalization, FinalizationAlone, Exists, FinalizeList, Noted
<1>3. SummaryInTime'
  BY LifecycleConstantsOK DEF TypeOK, Log, Memory, Call, Finalization, FinalizationAlone, SummaryInTime, Exists, FinalizeList, Noted
<1>4. SummaryBeforeClose'
  BY ZenonT(30) DEF TypeOK, Row, Log, SummaryInTime, SummaryBeforeClose, Exists, FinalizeList, Noted
<1>5. ReservationsBacked'
  BY DEF TypeOK, Memory, Call, FinalizationAlone, ReservationsBacked, Exists, FinalizeList, Noted
<1> QED BY <1>1, <1>2, <1>3, <1>4, <1>5

LEMMA FinalizeSummaryKeeps ==
    ASSUME LifecycleIInv, NEW i \in Servers, FinalizeSummary(i)
    PROVE  LifecycleIInv'
<1> USE DEF LifecycleIInv
<1>1. TypeOK'
  <2>1. log' \in [Sessions -> Log]
    BY RepositoryTypes DEF FinalizeSummary, TypeOK, SummaryInTime
  <2>2. final' \in [Servers -> Finalization]
    BY DEF FinalizeSummary, TypeOK, Finalization
  <2> QED BY <2>1, <2>2 DEF TypeOK, FinalizeSummary
<1>2. FinalizationAlone'
  BY DEF TypeOK, Call, Finalization, FinalizationAlone, Exists, FinalizeSummary, Inc, Summarized
<1>3. SummaryInTime'
  BY LifecycleConstantsOK, SMTT(30) DEF TypeOK, Log, Memory, Call, Finalization, FinalizationAlone, SummaryInTime, Exists, FinalizeSummary, Inc, Summarized
<1>4. SummaryBeforeClose'
  BY LaterSummaries, SummariesStay DEF FinalizeSummary
<1>5. ReservationsBacked'
  BY DEF TypeOK, Memory, Call, FinalizationAlone, ReservationsBacked, Exists, FinalizeSummary, Inc, Summarized
<1> QED BY <1>1, <1>2, <1>3, <1>4, <1>5

LEMMA FinalizeCloseKeeps ==
    ASSUME LifecycleIInv, NEW i \in Servers, NEW status \in {"closed", "failed"}, FinalizeClose(i, status)
    PROVE  LifecycleIInv'
<1> USE DEF LifecycleIInv
<1>1. TypeOK'
  <2>1. row' \in [Sessions -> Row]
    BY RepositoryTypes DEF FinalizeClose, SummaryInTime, Terminal
  <2>2. mem' \in [Servers -> Memory]
    BY MemoryTypes DEF FinalizeClose, TypeOK
  <2>3. final' \in [Servers -> Finalization]
    BY DEF FinalizeClose, TypeOK, Finalization
  <2> QED BY <2>1, <2>2, <2>3 DEF TypeOK, FinalizeClose
<1>2. FinalizationAlone'
  BY DEF TypeOK, Call, Finalization, FinalizationAlone, Active, Closed, Exists, FinalizeClose
<1>3. SummaryInTime'
  BY LifecycleConstantsOK DEF TypeOK, Log, Memory, Call, Finalization, FinalizationAlone, SummaryInTime, Active, Closed, Exists, FinalizeClose
<1>4. SummaryBeforeClose'
  BY DEF TypeOK, Row, Log, SummaryInTime, SummaryBeforeClose, Active, Closed, Exists, FinalizeClose
<1>5. ReservationsBacked'
  BY DEF TypeOK, Memory, Call, FinalizationAlone, ReservationsBacked, Active, Closed, Exists, FinalizeClose
<1> QED BY <1>1, <1>2, <1>3, <1>4, <1>5

LEMMA FinalizeFailsKeeps ==
    ASSUME LifecycleIInv, NEW i \in Servers, FinalizeFails(i)
    PROVE  LifecycleIInv'
<1> USE DEF LifecycleIInv
<1>1. TypeOK'
  <2>1. final' \in [Servers -> Finalization]
    BY DEF FinalizeFails, TypeOK, Finalization
  <2> QED BY <2>1 DEF TypeOK, FinalizeFails
<1>2. FinalizationAlone'
  BY DEF TypeOK, Call, Finalization, FinalizationAlone, FinalizeFails
<1>3. SummaryInTime'
  BY LifecycleConstantsOK DEF TypeOK, Log, Memory, Call, Finalization, FinalizationAlone, SummaryInTime, FinalizeFails
<1>4. SummaryBeforeClose'
  BY DEF TypeOK, Row, Log, SummaryInTime, SummaryBeforeClose, FinalizeFails
<1>5. ReservationsBacked'
  BY DEF TypeOK, Memory, Call, FinalizationAlone, ReservationsBacked, FinalizeFails
<1> QED BY <1>1, <1>2, <1>3, <1>4, <1>5

LEMMA RestartedKeeps ==
    ASSUME LifecycleIInv, NEW i \in Servers, Restarted(i)
    PROVE  LifecycleIInv'
<1> USE DEF LifecycleIInv
<1>1. TypeOK'
  BY DEF TypeOK, Memory, Call, Beat, Clean, Finalization, Detached, IdleBeat, IdleCall, IdleClean, Restarted, Serving
<1>2. FinalizationAlone'
  BY DEF TypeOK, Call, Finalization, FinalizationAlone, Detached, IdleBeat, IdleCall, IdleClean, Restarted, Serving
<1>3. SummaryInTime'
  BY LifecycleConstantsOK DEF TypeOK, Log, Memory, Call, Finalization, FinalizationAlone, SummaryInTime, Detached, IdleBeat, IdleCall, IdleClean, Restarted, Serving
<1>4. SummaryBeforeClose'
  BY DEF TypeOK, Row, Log, SummaryInTime, SummaryBeforeClose, Detached, IdleBeat, IdleCall, IdleClean, Restarted, Serving
<1>5. ReservationsBacked'
  BY DEF TypeOK, Memory, Call, FinalizationAlone, ReservationsBacked, Detached, IdleBeat, IdleCall, IdleClean, Restarted, Serving
<1> QED BY <1>1, <1>2, <1>3, <1>4, <1>5

LEMMA ExpireKeeps ==
    ASSUME LifecycleIInv, NEW s \in Sessions, Expire(s)
    PROVE  LifecycleIInv'
<1> USE DEF LifecycleIInv
<1>1. TypeOK'
  <2>1. [row[s] EXCEPT !.expired = TRUE] \in Row
    BY DEF TypeOK, Row
  <2>2. row' \in [Sessions -> Row]
    BY <2>1 DEF Expire, TypeOK
  <2> QED BY <2>2 DEF TypeOK, Expire
<1>2. FinalizationAlone'
  BY DEF TypeOK, Call, Finalization, FinalizationAlone, Active, Expire
<1>3. SummaryInTime'
  BY LifecycleConstantsOK DEF TypeOK, Log, Memory, Call, Finalization, FinalizationAlone, SummaryInTime, Active, Expire
<1>4. SummaryBeforeClose'
  BY DEF TypeOK, Row, Log, SummaryInTime, SummaryBeforeClose, Active, Expire
<1>5. ReservationsBacked'
  BY DEF TypeOK, Memory, Call, FinalizationAlone, ReservationsBacked, Active, Expire
<1> QED BY <1>1, <1>2, <1>3, <1>4, <1>5


-----------------------------------------------------------------------------
\* The initial states satisfy it.
LEMMA InitInvariant == Init => LifecycleIInv
<1> SUFFICES ASSUME Init PROVE LifecycleIInv
  OBVIOUS
<1>1. TypeOK
  <2>1. row \in [Sessions -> Row]
    BY DEF Init, NoRow, Row
  <2>2. log \in [Sessions -> Log]
    BY DEF Init, Log
  <2>3. mem \in [Servers -> Memory]
    BY DEF Init, Detached, Memory
  <2>4. IdleCall \in Call
    BY IdleIsCall
  <2>5. call \in [Servers -> [Calls -> Call]]
    BY <2>4 DEF Init
  <2>6. beat \in [Servers -> Beat]
    BY DEF Init, IdleBeat, Beat
  <2>7. clean \in [Servers -> Clean]
    BY DEF Init, IdleClean, Clean
  <2>8. final \in [Servers -> Finalization]
    BY DEF Init, Serving, Finalization
  <2> QED BY <2>1, <2>2, <2>3, <2>5, <2>6, <2>7, <2>8 DEF TypeOK
<1>2. FinalizationAlone /\ SummaryInTime
  BY DEF Init, FinalizationAlone, SummaryInTime, Serving
<1>3. SummaryBeforeClose /\ ReservationsBacked
  BY DEF Init, SummaryBeforeClose, ReservationsBacked, NoRow, Detached
<1> QED BY <1>1, <1>2, <1>3 DEF LifecycleIInv

\* The steps together.
LEMMA CallProgressKeeps ==
    ASSUME LifecycleIInv, NEW i \in Servers, NEW k \in Calls, CallProgress(i, k)
    PROVE  LifecycleIInv'
<1>1. CASE AdoptSession(i, k)  BY <1>1, AdoptSessionKeeps
<1>2. CASE ReserveStart(i, k)  BY <1>2, ReserveStartKeeps
<1>3. CASE RecordStart(i, k)   BY <1>3, RecordStartKeeps
<1>4. CASE StartFails(i, k)    BY <1>4, StartFailsKeeps
<1>5. CASE RecordCall(i, k)    BY <1>5, RecordCallKeeps
<1>6. CASE DetachClosed(i, k)  BY <1>6, DetachClosedKeeps
<1>7. CASE AdoptInTool(i, k)   BY <1>7, AdoptInToolKeeps
<1>8. CASE \E compared, touched \in BOOLEAN : FinishCall(i, k, compared, touched)
  BY <1>8, FinishCallKeeps
<1> QED BY <1>1, <1>2, <1>3, <1>4, <1>5, <1>6, <1>7, <1>8 DEF CallProgress

LEMMA BeatStepKeeps ==
    ASSUME LifecycleIInv, NEW i \in Servers, BeatStep(i)
    PROVE  LifecycleIInv'
<1>1. CASE BeatTouch(i)     BY <1>1, BeatTouchKeeps
<1>2. CASE BeatDetach(i)    BY <1>2, BeatDetachKeeps
<1>3. CASE BeatGitRead(i)   BY <1>3, BeatGitReadKeeps
<1>4. CASE \E changed \in BOOLEAN : BeatGitWrite(i, changed)
  BY <1>4, BeatGitWriteKeeps
<1>5. CASE BeatGitFails(i)  BY <1>5, BeatGitFailsKeeps
<1> QED BY <1>1, <1>2, <1>3, <1>4, <1>5 DEF BeatStep

LEMMA SummaryStepKeeps ==
    ASSUME LifecycleIInv, NEW i \in Servers, SummaryStep(i)
    PROVE  LifecycleIInv'
<1>1. CASE \E s \in Sessions : LookForSummary(i, s)
  BY <1>1, LookForSummaryKeeps
<1>2. CASE AppendSummary(i)  BY <1>2, AppendSummaryKeeps
<1>3. CASE SummaryFails(i)   BY <1>3, SummaryFailsKeeps
<1> QED BY <1>1, <1>2, <1>3 DEF SummaryStep

LEMMA FinalStepKeeps ==
    ASSUME LifecycleIInv, NEW i \in Servers, FinalStep(i)
    PROVE  LifecycleIInv'
<1>1. CASE \E changed \in BOOLEAN : FinalizeList(i, changed)
  BY <1>1, FinalizeListKeeps
<1>2. CASE FinalizeSummary(i)  BY <1>2, FinalizeSummaryKeeps
<1>3. CASE \E status \in {"closed", "failed"} : FinalizeClose(i, status)
  BY <1>3, FinalizeCloseKeeps
<1>4. CASE FinalizeFails(i)    BY <1>4, FinalizeFailsKeeps
<1>5. CASE Exit(i)             BY <1>5, RestartedKeeps DEF Exit
<1> QED BY <1>1, <1>2, <1>3, <1>4, <1>5 DEF FinalStep

LEMMA ServerStepKeeps ==
    ASSUME LifecycleIInv, NEW i \in Servers, ServerStep(i)
    PROVE  LifecycleIInv'
<1>1. CASE \E k \in Calls : CallProgress(i, k)
  BY <1>1, CallProgressKeeps
<1>2. CASE \E k \in Calls, s \in Sessions :
              EnsureSession(i, k, s) \/ CloseTool(i, k, s) \/ MakeInTool(i, k, s)
  BY <1>2, EnsureSessionKeeps, CloseToolKeeps, MakeInToolKeeps
<1>3. CASE BeatStep(i)       BY <1>3, BeatStepKeeps
<1>4. CASE Reconcile(i)      BY <1>4, ReconcileKeeps
<1>5. CASE SummaryStep(i)    BY <1>5, SummaryStepKeeps
<1>6. CASE \E S \in SUBSET Sessions : CleanupEmpty(i, S)
  BY <1>6, CleanupEmptyKeeps
<1>7. CASE FinalizeBegin(i)  BY <1>7, FinalizeBeginKeeps
<1>8. CASE FinalStep(i)      BY <1>8, FinalStepKeeps
<1>9. CASE Crash(i)          BY <1>9, RestartedKeeps DEF Crash
<1> QED BY <1>1, <1>2, <1>3, <1>4, <1>5, <1>6, <1>7, <1>8, <1>9 DEF ServerStep

LEMMA StutterKeeps == LifecycleIInv /\ UNCHANGED vars => LifecycleIInv'
BY DEF LifecycleIInv, TypeOK, FinalizationAlone, SummaryInTime, SummaryBeforeClose,
       ReservationsBacked, vars

\* The inductive invariant, for any number of servers, calls and sessions,
\* whichever of the servers crash, hang or fail (server/lifecycle.py).
THEOREM LifecycleInvariance == Spec => []LifecycleIInv
<1>1. LifecycleIInv /\ [Next]_vars => LifecycleIInv'
  <2> SUFFICES ASSUME LifecycleIInv, [Next]_vars PROVE LifecycleIInv'
    OBVIOUS
  <2>1. CASE \E i \in Servers : ServerStep(i)  BY <2>1, ServerStepKeeps
  <2>2. CASE \E s \in Sessions : Expire(s)     BY <2>2, ExpireKeeps
  <2>3. CASE UNCHANGED vars                    BY <2>3, StutterKeeps
  <2> QED BY <2>1, <2>2, <2>3 DEF Next
<1> QED BY InitInvariant, <1>1, PTL DEF Spec

\* Type correctness of the session lifecycle.
THEOREM LifecycleTypeCorrect == Spec => []TypeOK
<1>1. LifecycleIInv => TypeOK
  BY DEF LifecycleIInv
<1> QED BY <1>1, LifecycleInvariance, PTL

\* No row that a finalization closed is without a summary, whatever raced with it
\* or crashed in it (finalize_active_session).
THEOREM SummaryComesFirst == Spec => []SummaryBeforeClose
<1>1. LifecycleIInv => SummaryBeforeClose
  BY DEF LifecycleIInv
<1> QED BY <1>1, LifecycleInvariance, PTL

\* A reserved start always has the call that will record or release it
\* (ensure_session_started).
THEOREM StartsAreBacked == Spec => []ReservationsBacked
<1>1. LifecycleIInv => ReservationsBacked
  BY DEF LifecycleIInv
<1> QED BY <1>1, LifecycleInvariance, PTL

=============================================================================
