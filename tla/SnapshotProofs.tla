--------------------------- MODULE SnapshotProofs ---------------------------
(***************************************************************************)
(* Snapshots, for every number of builders, every threshold, interval and  *)
(* staleness bound, and every log, cut and page size: the lease under      *)
(* which they are built (SnapshotStore), and that a reader who starts from *)
(* one finds what a full replay finds (ProjectLog).                        *)
(***************************************************************************)
EXTENDS SnapshotStore, ProjectLog, WellFoundedInduction, FiniteSetTheorems, TLAPS

-----------------------------------------------------------------------------
(* the lease                                                                *)

Build ==
    [phase: Phases, force: BOOLEAN, cursor: Nat \cup {NoSnapshot},
     later: SUBSET (Builders \cup {Nobody}), overtaken: BOOLEAN]

Lease == [held: BOOLEAN, age: 0..StaleAfter + 1, owner: Builders \cup {Nobody}]

LEMMA ConstantsAreNumbers ==
    /\ MinInterval \in Nat /\ StaleAfter \in Nat
    /\ CheckInterval \in Nat /\ NoSnapshot \notin Nat
BY SnapshotConstantsOK

LEMMA BuildTypes ==
    /\ NotBuilding \in Build /\ NotBuilding.phase = "idle" /\ NotBuilding.cursor = 0
    /\ Leaving \in Build /\ Leaving.phase = "leaving" /\ Leaving.cursor = 0
    /\ \A force \in BOOLEAN : /\ Asking(force) \in Build /\ Asking(force).phase = "asking"
                              /\ Asking(force).cursor = 0
BY DEF NotBuilding, Leaving, Asking, Build, Phases, LeasePhases

LEMMA PhasesOf ==
    /\ Building \subseteq LeasePhases /\ LeasePhases \subseteq Phases
    /\ {"holding", "leaving"} \subseteq LeasePhases
    /\ {"idle", "asking", "stale", "remaking", "manual", "manual_read", "manual_stamped"} \subseteq Phases
    /\ LeasePhases \cap {"idle", "asking", "stale", "remaking", "manual", "manual_read", "manual_stamped"} = {}
BY DEF Building, LeasePhases, Phases

LEMMA LeaseTypes == NoLease \in Lease /\ \A b \in Builders : LeaseOf(b) \in Lease
BY SnapshotConstantsOK DEF NoLease, LeaseOf, Lease

\* A builder's next phase leaves the rest of its build as it was.
LEMMA GoesType ==
    ASSUME builder \in [Builders -> Build], NEW b \in Builders, NEW p \in Phases, Goes(b, p)
    PROVE  /\ builder' \in [Builders -> Build]
           /\ builder'[b].phase = p
           /\ \A c \in Builders : /\ c # b => builder'[c] = builder[c]
                                  /\ builder'[c].overtaken = builder[c].overtaken
                                  /\ builder'[c].cursor = builder[c].cursor
BY DEF Goes, Build

\* Under an unbroken lease there is one worker, its owner.
LEMMA OwnedIsExclusive == LeaseOwned => LeaseExclusive
BY DEF LeaseOwned, LeaseExclusive

LEMMA InitIInv == Init => SnapshotIInv
<1> SUFFICES ASSUME Init PROVE SnapshotIInv
  OBVIOUS
<1>1. TypeOK
  <2>1. builder \in [Builders -> Build]
    BY BuildTypes DEF Init
  <2>2. lease \in Lease
    BY LeaseTypes DEF Init
  <2>3. rowAge \in 0..MinInterval /\ calls \in [Builders -> Nat]
    BY ConstantsAreNumbers DEF Init
  <2>4. backend \in Backends /\ events \in Nat /\ broken \in BOOLEAN /\ troubles \in Nat
        /\ latest \in Nat \cup {NoSnapshot}
    BY DEF Init
  <2> QED BY <2>1, <2>2, <2>3, <2>4 DEF TypeOK, Build, Lease
<1>2. \A b \in Builders : builder[b] = NotBuilding
  BY DEF Init
<1>3. events = 0 /\ latest = NoSnapshot /\ ~broken
  BY DEF Init
<1>4. LeaseOwned /\ StillDue
  BY <1>2, <1>3, BuildTypes, PhasesOf DEF LeaseOwned, StillDue, InLease
<1>5. CursorInLog
  BY <1>2, <1>3, BuildTypes DEF CursorInLog
<1> QED BY <1>1, <1>4, <1>5 DEF SnapshotIInv

-----------------------------------------------------------------------------
(* one lemma per kind of step                                               *)

\* What a builder's next state must be like while the lease is let alone: it
\* enters the lease no more than it becomes overtaken, its cursor is in the log.
Follows(r, b) ==
    /\ r.phase \in LeasePhases => InLease(b)
    /\ r.phase \in Building => broken \/ ~r.overtaken
    /\ r.phase \in {"stale", "remaking"} => r.phase = builder[b].phase
    /\ r.cursor # NoSnapshot => r.cursor <= events

LEMMA UnchangedFollows == SnapshotIInv => \A b \in Builders : Follows(builder[b], b)
BY DEF SnapshotIInv, Follows, InLease, StillDue, CursorInLog

\* A step that lets the lease alone keeps the invariant.
LEMMA BuildersStep ==
    ASSUME SnapshotIInv, UNCHANGED <<backend, lease, broken>>,
           events' \in Nat, events' >= events, calls' \in [Builders -> Nat], troubles' \in Nat,
           rowAge' \in 0..MinInterval, latest' \in Nat \cup {NoSnapshot},
           latest' # NoSnapshot => latest' <= events,
           builder' \in [Builders -> Build],
           \A c \in Builders : Follows(builder'[c], c)
    PROVE  SnapshotIInv'
<1>1. TypeOK'
  BY DEF SnapshotIInv, TypeOK, Build
<1>2. LeaseOwned'
  BY DEF SnapshotIInv, LeaseOwned, InLease, Follows
<1>3. StillDue'
  BY DEF StillDue, Follows
<1>4. CursorInLog'
  <2>1. events \in Nat /\ \A c \in Builders : builder'[c].cursor \in Nat \cup {NoSnapshot}
    BY DEF SnapshotIInv, TypeOK, Build
  <2> QED BY <2>1, ConstantsAreNumbers DEF CursorInLog, Follows
<1> QED BY <1>1, <1>2, <1>3, <1>4 DEF SnapshotIInv

\* One builder moves.
LEMMA MoveStep ==
    ASSUME SnapshotIInv, NEW b \in Builders, NEW r \in Build, Follows(r, b),
           UNCHANGED <<backend, latest, rowAge, lease, broken>>,
           events' \in Nat, events' >= events, calls' \in [Builders -> Nat], troubles' \in Nat,
           builder' = [builder EXCEPT ![b] = r]
    PROVE  SnapshotIInv'
<1>1. builder \in [Builders -> Build] /\ rowAge \in 0..MinInterval /\ latest \in Nat \cup {NoSnapshot}
  BY DEF SnapshotIInv, TypeOK, Build
<1>2. builder' \in [Builders -> Build]
  BY <1>1
<1>3. \A c \in Builders : builder'[c] = IF c = b THEN r ELSE builder[c]
  BY <1>1
<1>4. \A c \in Builders : Follows(builder'[c], c)
  BY <1>3, UnchangedFollows
<1>5. latest' # NoSnapshot => latest' <= events
  BY DEF SnapshotIInv, CursorInLog
<1> QED BY <1>1, <1>2, <1>4, <1>5, BuildersStep

LEMMA CallStep ==
    ASSUME SnapshotIInv, NEW b \in Builders, Call(b) \/ Finalize(b)
    PROVE  SnapshotIInv'
<1>1. /\ builder \in [Builders -> Build] /\ events \in Nat /\ troubles \in Nat
      /\ calls \in [Builders -> Nat]
  BY DEF SnapshotIInv, TypeOK, Build
<1>2. /\ events' \in Nat /\ events' >= events
      /\ calls' \in [Builders -> Nat]
      /\ UNCHANGED <<backend, latest, rowAge, lease, broken, troubles>>
  <2>1. CASE Call(b)
    <3>1. calls' = [calls EXCEPT ![b] = IF calls[b] + 1 >= CheckInterval THEN 0 ELSE calls[b] + 1]
      BY <2>1 DEF Call
    <3>2. (IF calls[b] + 1 >= CheckInterval THEN 0 ELSE calls[b] + 1) \in Nat
      BY <1>1, ConstantsAreNumbers
    <3>3. calls' \in [Builders -> Nat]
      BY <1>1, <3>1, <3>2
    <3> QED BY <1>1, <2>1, <3>3 DEF Call
  <2>2. CASE Finalize(b)
    BY <1>1, <2>2 DEF Finalize
  <2> QED BY <2>1, <2>2
<1>3. PICK r \in Build : builder' = [builder EXCEPT ![b] = r] /\ Follows(r, b)
  <2>1. \/ builder' = [builder EXCEPT ![b] = builder[b]]
        \/ \E force \in BOOLEAN : builder' = [builder EXCEPT ![b] = Asking(force)]
    BY <1>1 DEF Call, Finalize
  <2>2. Follows(builder[b], b) /\ builder[b] \in Build
    BY <1>1, UnchangedFollows
  <2>3. \A force \in BOOLEAN : Follows(Asking(force), b)
    BY <1>1, BuildTypes, PhasesOf DEF Follows
  <2> QED BY <2>1, <2>2, <2>3, BuildTypes
<1>4. troubles' \in Nat
  BY <1>1, <1>2
<1> QED BY <1>2, <1>3, <1>4, MoveStep

LEMMA AskStep ==
    ASSUME SnapshotIInv, NEW b \in Builders, Ask(b) \/ Remake(b)
    PROVE  SnapshotIInv'
<1> USE DEF SnapshotIInv
<1>1. UNCHANGED <<backend, events, latest, rowAge, calls, broken, troubles>>
  BY DEF Ask, Remake
<1>2. CASE Makes(b)
  <2>1. ~lease.held /\ lease' = LeaseOf(b) /\ Goes(b, "holding")
    BY <1>2 DEF Makes
  <2>2. /\ builder' \in [Builders -> Build]
        /\ builder'[b].phase = "holding"
        /\ \A c \in Builders : /\ c # b => builder'[c] = builder[c]
                               /\ builder'[c].cursor = builder[c].cursor
    BY <2>1, GoesType, PhasesOf DEF TypeOK, Build
  <2>3. TypeOK'
    BY <1>1, <2>1, <2>2, LeaseTypes DEF TypeOK, Build, Lease
  <2>4. LeaseOwned'
    BY <1>1, <2>1, <2>2 DEF LeaseOwned, InLease, LeaseOf
  <2>5. StillDue' /\ CursorInLog'
    BY <1>1, <2>2 DEF StillDue, CursorInLog, Building
  <2> QED BY <2>3, <2>4, <2>5
<1>3. CASE ~Makes(b)
  <2>1. /\ UNCHANGED lease
        /\ \E p \in {"stale", "idle"} : Goes(b, p) /\ (p = "stale" => backend = "sqlite")
    BY <1>3 DEF Ask, Remake
  <2>2. PICK p \in {"stale", "idle"} : Goes(b, p) /\ (p = "stale" => backend = "sqlite")
    BY <2>1
  <2>3. /\ builder' \in [Builders -> Build]
        /\ builder'[b].phase = p
        /\ \A c \in Builders : /\ c # b => builder'[c] = builder[c]
                               /\ builder'[c].cursor = builder[c].cursor
    BY <2>2, GoesType, PhasesOf DEF TypeOK, Build
  <2>4. TypeOK'
    BY <1>1, <2>1, <2>3 DEF TypeOK, Build, Lease
  <2>5. LeaseOwned'
    BY <1>1, <2>1, <2>2, <2>3, PhasesOf DEF LeaseOwned, InLease
  <2>6. StillDue' /\ CursorInLog'
    BY <1>1, <2>2, <2>3 DEF StillDue, CursorInLog, Building
  <2> QED BY <2>4, <2>5, <2>6
<1> QED BY <1>2, <1>3

\* Whoever is still at work when its lease is removed makes it broken.
LEMMA RemovedStep ==
    ASSUME SnapshotIInv, NEW b \in Builders, RemoveStale(b) \/ Release(b)
    PROVE  SnapshotIInv'
<1> USE DEF SnapshotIInv
<1>1. UNCHANGED <<backend, events, latest, rowAge, calls, troubles>>
  BY DEF RemoveStale, Release
<1>2. lease' \in {lease, NoLease}
  BY DEF RemoveStale, Release
<1>3. /\ builder' \in [Builders -> Build]
      /\ builder'[b].phase \in {"idle", "remaking"}
      /\ builder'[b].phase = "remaking" => builder[b].phase = "stale"
      /\ builder'[b].cursor # NoSnapshot => builder'[b].cursor <= events
      /\ \A c \in Builders : c # b => builder'[c] = builder[c]
  <2>1. CASE RemoveStale(b)
    BY <2>1, GoesType, PhasesOf DEF RemoveStale, TypeOK, Build, CursorInLog
  <2>2. CASE Release(b)
    BY <2>2, BuildTypes DEF Release, TypeOK, Build
  <2> QED BY <2>1, <2>2
<1>4. TypeOK'
  <2>1. broken' \in BOOLEAN
    BY DEF RemoveStale, Release, TypeOK
  <2> QED BY <1>1, <1>2, <1>3, <2>1, LeaseTypes DEF TypeOK, Build, Lease
<1>5. LeaseOwned'
  <2>1. CASE RemoveStale(b)
    <3>1. backend # "postgres"
      BY <2>1 DEF RemoveStale, LeaseOwned
    <3>2. ~broken' => \A c \in Builders : c # b => ~InLease(c)
      BY <2>1 DEF RemoveStale, LeaseOwned
    <3> QED BY <1>1, <1>3, <3>1, <3>2, PhasesOf DEF LeaseOwned, InLease
  <2>2. CASE Release(b)
    <3>1. ~broken => \A c \in Builders : c # b => ~InLease(c)
      BY <2>2, PhasesOf DEF Release, LeaseOwned, InLease
    <3>2. broken' => broken \/ backend # "postgres"
      BY <2>2 DEF Release
    <3>3. broken => broken'
      BY <2>2 DEF Release
    <3>4. backend = "postgres" => \A c \in Builders : builder'[c].phase \notin {"stale", "remaking"}
      BY <1>3 DEF LeaseOwned
    <3>5. CASE backend = "postgres"
      <4>1. ~broken /\ ~broken'
        BY <2>2, <3>5 DEF Release, LeaseOwned
      <4> QED BY <1>1, <1>3, <3>1, <3>4, <4>1, PhasesOf DEF LeaseOwned, InLease
    <3>6. CASE backend # "postgres"
      BY <1>1, <1>3, <3>1, <3>3, <3>6, PhasesOf DEF LeaseOwned, InLease
    <3> QED BY <3>5, <3>6
  <2> QED BY <2>1, <2>2
<1>6. StillDue'
  <2>1. broken => broken'
    BY DEF RemoveStale, Release
  <2> QED BY <1>3, <2>1 DEF StillDue, Building
<1>7. CursorInLog'
  BY <1>1, <1>3 DEF CursorInLog
<1> QED BY <1>4, <1>5, <1>6, <1>7

\* A builder with the lease goes on or gives up; one that cannot remove the
\* directory gives up, too.
LEMMA WorkStep ==
    ASSUME SnapshotIInv, NEW b \in Builders,
           Look(b) \/ Count(b) \/ Read(b) \/ Fails(b) \/ RemoveFails(b)
    PROVE  SnapshotIInv'
<1>1. /\ builder \in [Builders -> Build] /\ builder[b] \in Build /\ events \in Nat /\ troubles \in Nat
      /\ calls \in [Builders -> Nat] /\ latest \in Nat \cup {NoSnapshot}
  BY DEF SnapshotIInv, TypeOK, Build
<1>2. /\ UNCHANGED <<backend, events, latest, rowAge, lease, calls, broken>>
      /\ troubles' \in Nat
  BY <1>1, SnapshotConstantsOK DEF Look, Count, Read, Fails, RemoveFails
<1>3. builder[b].phase \in Building => broken \/ ~builder[b].overtaken
  BY DEF SnapshotIInv, StillDue
<1>4. Follows(NotBuilding, b)
  BY <1>1, BuildTypes, PhasesOf DEF Follows
<1>5. builder[b].phase \in LeasePhases => Follows(Leaving, b)
  BY <1>1, BuildTypes, PhasesOf DEF Follows, InLease, Building
<1>6. \E r \in Build : builder' = [builder EXCEPT ![b] = r] /\ Follows(r, b)
  <2>1. CASE Look(b)
    <3> DEFINE r == [builder[b] EXCEPT !.phase = "looked", !.cursor = latest, !.overtaken = FALSE]
    <3>1. builder' = [builder EXCEPT ![b] = r] \/ builder' = [builder EXCEPT ![b] = Leaving]
      BY <2>1 DEF Look
    <3>2. r \in Build /\ r.phase = "looked" /\ r.cursor = latest /\ r.overtaken = FALSE
      BY <1>1 DEF Build, Phases, LeasePhases, Building
    <3>3. builder[b].phase \in LeasePhases
      BY <2>1, PhasesOf DEF Look
    <3>4. Follows(r, b)
      <4>1. latest # NoSnapshot => latest <= events
        BY DEF SnapshotIInv, CursorInLog
      <4> HIDE DEF r
      <4> QED BY <3>2, <3>3, <4>1 DEF Follows, InLease
    <3> QED BY <1>5, <3>1, <3>2, <3>3, <3>4, BuildTypes
  <2>2. CASE Count(b)
    <3> DEFINE r == [NotBuilding EXCEPT !.phase = "due", !.overtaken = builder[b].overtaken]
    <3>1. builder' = [builder EXCEPT ![b] = r] \/ builder' = [builder EXCEPT ![b] = Leaving]
      BY <2>2 DEF Count
    <3>2. r \in Build /\ r.phase = "due" /\ r.cursor = 0 /\ r.overtaken = builder[b].overtaken
      BY <1>1 DEF NotBuilding, Build, Phases, LeasePhases, Building
    <3>3. builder[b].phase \in LeasePhases /\ builder[b].phase \in Building
      BY <2>2 DEF Count, LeasePhases, Building
    <3>4. Follows(r, b)
      <4> HIDE DEF r
      <4> QED BY <1>1, <1>3, <3>2, <3>3 DEF Follows, InLease
    <3> QED BY <1>5, <3>1, <3>2, <3>3, <3>4, BuildTypes
  <2>3. CASE Read(b)
    <3> DEFINE r == [builder[b] EXCEPT !.phase = "read", !.cursor = events]
    <3>1. builder' = [builder EXCEPT ![b] = r] /\ builder[b].phase = "due"
      BY <2>3 DEF Read, Finds
    <3>2. r \in Build /\ r.phase = "read" /\ r.cursor = events /\ r.overtaken = builder[b].overtaken
      BY <1>1 DEF Build, Phases, LeasePhases, Building
    <3>3. Follows(r, b)
      <4> HIDE DEF r
      <4> QED BY <1>1, <1>3, <3>1, <3>2 DEF Follows, InLease, LeasePhases, Building
    <3> QED BY <3>1, <3>2, <3>3
  <2>4. CASE Fails(b)
    <3>1. builder[b].phase \in LeasePhases /\ builder' = [builder EXCEPT ![b] = Leaving]
      BY <2>4, PhasesOf DEF Fails
    <3> QED BY <1>5, <3>1, BuildTypes
  <2>5. CASE RemoveFails(b)
    BY <1>4, <2>5, BuildTypes DEF RemoveFails
  <2> QED BY <2>1, <2>2, <2>3, <2>4, <2>5
<1>7. PICK r \in Build : builder' = [builder EXCEPT ![b] = r] /\ Follows(r, b)
  BY <1>6
<1>8. events' \in Nat /\ events' >= events /\ calls' \in [Builders -> Nat]
  BY <1>1, <1>2
<1> QED BY <1>2, <1>7, <1>8, MoveStep

\* The stamp of one builder is later than those of the others that have one.
LEMMA StampStep ==
    ASSUME SnapshotIInv, NEW b \in Builders, Stamp(b) \/ ManualStamp(b)
    PROVE  SnapshotIInv'
<1>1. /\ builder \in [Builders -> Build] /\ events \in Nat /\ troubles \in Nat
      /\ calls \in [Builders -> Nat] /\ latest \in Nat \cup {NoSnapshot} /\ rowAge \in 0..MinInterval
      /\ latest # NoSnapshot => latest <= events
  BY DEF SnapshotIInv, TypeOK, Build, CursorInLog
<1>2. /\ UNCHANGED <<backend, events, latest, rowAge, lease, calls, broken, troubles>>
      /\ \E p \in {"stamped", "manual_stamped"} :
            Stamps(b, p) /\ (p = "stamped" => builder[b].phase = "read")
  BY DEF Stamp, ManualStamp
<1>3. PICK p \in {"stamped", "manual_stamped"} :
         Stamps(b, p) /\ (p = "stamped" => builder[b].phase = "read")
  BY <1>2
<1>4. p \in Phases
  BY DEF Phases, LeasePhases, Building
<1>5. \A c \in Builders : builder'[c] \in Build /\ Follows(builder'[c], c)
  <2> SUFFICES ASSUME NEW c \in Builders PROVE builder'[c] \in Build /\ Follows(builder'[c], c)
    OBVIOUS
  <2>1. builder[c] \in Build /\ Follows(builder[c], c)
    BY <1>1, UnchangedFollows
  <2>2. CASE c = b
    <3> DEFINE r == [builder[b] EXCEPT !.phase = p, !.later = {}]
    <3>1. builder'[c] = r
      BY <1>3, <2>2 DEF Stamps
    <3>2. r \in Build /\ r.phase = p /\ r.cursor = builder[b].cursor /\ r.overtaken = builder[b].overtaken
      BY <1>4, <2>1, <2>2 DEF Build
    <3>3. Follows(r, c)
      <4> HIDE DEF r
      <4> QED BY <1>3, <2>1, <2>2, <3>2 DEF Follows, InLease, LeasePhases, Building
    <3> QED BY <3>1, <3>2, <3>3
  <2>3. CASE c # b /\ Stamped(c)
    <3> DEFINE r == [builder[c] EXCEPT !.later = @ \cup {b}]
    <3>1. builder'[c] = r
      BY <1>3, <2>3 DEF Stamps
    <3>2. builder[c].later \cup {b} \in SUBSET (Builders \cup {Nobody})
      BY <2>1 DEF Build
    <3>3. r \in Build /\ r.phase = builder[c].phase /\ r.cursor = builder[c].cursor
          /\ r.overtaken = builder[c].overtaken
      BY <2>1, <3>2 DEF Build
    <3>4. Follows(r, c)
      <4> HIDE DEF r
      <4> QED BY <2>1, <3>3 DEF Follows
    <3> QED BY <3>1, <3>3, <3>4
  <2>4. CASE c # b /\ ~Stamped(c)
    <3>1. builder'[c] = builder[c]
      BY <1>3, <2>4 DEF Stamps
    <3> QED BY <2>1, <3>1
  <2> QED BY <2>2, <2>3, <2>4
<1>6. builder' \in [Builders -> Build]
  BY <1>3, <1>5 DEF Stamps
<1> QED BY <1>1, <1>2, <1>5, <1>6, BuildersStep

\* A new row: the latest, or behind one with a later created_at.
LEMMA InsertedType ==
    ASSUME SnapshotIInv, NEW b \in Builders, Inserted(b)
    PROVE  /\ latest' \in Nat \cup {NoSnapshot} /\ rowAge' \in 0..MinInterval
           /\ latest' # NoSnapshot => latest' <= events
BY DEF SnapshotIInv, TypeOK, CursorInLog, Inserted, Build

\* The other builders learn of it and stay what they are.
LEMMA LearnsType ==
    ASSUME SnapshotIInv, NEW b \in Builders, NEW c \in Builders
    PROVE  /\ LearnsOf(b, c) \in Build
           /\ LearnsOf(b, c).phase = builder[c].phase
           /\ LearnsOf(b, c).cursor = builder[c].cursor
           /\ LearnsOf(b, c).overtaken = builder[c].overtaken
<1>1. builder[c] \in Build
  BY DEF SnapshotIInv, TypeOK, Build
<1> DEFINE S == IF b \in builder[c].later THEN (builder[c].later \ {b}) \cup {Nobody}
                                         ELSE builder[c].later
<1>2. S \in SUBSET (Builders \cup {Nobody})
  BY <1>1 DEF Build
<1>3. LearnsOf(b, c) = [builder[c] EXCEPT !.later = S]
  BY <1>1 DEF LearnsOf, Build
<1> HIDE DEF S
<1> QED BY <1>1, <1>2, <1>3 DEF Build

\* Nobody else works under an unbroken lease, and so nobody is overtaken.
LEMMA SaveStep ==
    ASSUME SnapshotIInv, NEW b \in Builders, Save(b)
    PROVE  SnapshotIInv'
<1>1. /\ events \in Nat /\ troubles \in Nat /\ calls \in [Builders -> Nat]
  BY DEF SnapshotIInv, TypeOK
<1>2. /\ InLease(b) /\ Inserted(b)
      /\ UNCHANGED <<backend, events, lease, calls, broken, troubles>>
  BY PhasesOf DEF Save, InLease, Building
<1>3. \A c \in Builders : ~broken /\ c # b => ~InLease(c)
  BY <1>2, OwnedIsExclusive DEF SnapshotIInv, LeaseExclusive
<1>4. \A c \in Builders : builder'[c] \in Build /\ Follows(builder'[c], c)
  <2> SUFFICES ASSUME NEW c \in Builders PROVE builder'[c] \in Build /\ Follows(builder'[c], c)
    OBVIOUS
  <2>1. CASE c = b
    <3>1. builder'[c] = Leaving
      BY <2>1 DEF Save
    <3> QED BY <1>1, <1>2, <2>1, <3>1, BuildTypes, PhasesOf DEF Follows, Building
  <2>2. CASE c # b
    <3> DEFINE o == builder[c].phase \in Building
               r == [LearnsOf(b, c) EXCEPT !.overtaken = o]
    <3>1. builder'[c] = r
      BY <2>2 DEF Save
    <3>2. LearnsOf(b, c) \in Build /\ o \in BOOLEAN
      BY LearnsType
    <3>3. r \in Build /\ r.phase = builder[c].phase /\ r.cursor = builder[c].cursor
      <4> HIDE DEF o
      <4> QED BY <3>2, LearnsType DEF Build
    <3>4. Follows(r, c)
      <4>1. builder[c].phase \in Building => broken
        BY <1>3, <2>2, PhasesOf DEF InLease
      <4>2. Follows(builder[c], c)
        BY UnchangedFollows
      <4> HIDE DEF r, o
      <4> QED BY <3>3, <4>1, <4>2 DEF Follows
    <3> QED BY <3>1, <3>3, <3>4
  <2> QED BY <2>1, <2>2
<1>5. builder' \in [Builders -> Build]
  BY <1>4 DEF Save
<1> QED BY <1>1, <1>2, <1>4, <1>5, InsertedType, BuildersStep

LEMMA DiesStep ==
    ASSUME SnapshotIInv, NEW b \in Builders, Dies(b)
    PROVE  SnapshotIInv'
<1> USE DEF SnapshotIInv
<1>1. /\ UNCHANGED <<backend, events, latest, rowAge, broken>>
      /\ troubles' \in Nat /\ calls' \in [Builders -> Nat]
      /\ lease' \in {lease, NoLease}
      /\ builder' \in [Builders -> Build] /\ builder'[b] = NotBuilding
      /\ \A c \in Builders : c # b => builder'[c] = builder[c]
  BY SnapshotConstantsOK, BuildTypes DEF Dies, TypeOK, Build
<1>2. TypeOK'
  BY <1>1, LeaseTypes DEF TypeOK, Build, Lease
<1>3. LeaseOwned'
  <2>1. ~broken => \A c \in Builders \ {b} : InLease(c) => lease.owner # b /\ lease' = lease
    BY <1>1 DEF Dies, LeaseOwned
  <2> QED BY <1>1, <2>1, BuildTypes, PhasesOf DEF LeaseOwned, InLease
<1>4. StillDue' /\ CursorInLog'
  <2>1. builder'[b].phase \notin Building /\ builder'[b].cursor = 0 /\ events \in Nat
    BY <1>1, BuildTypes DEF Building, TypeOK
  <2>2. StillDue'
    BY <1>1, <2>1 DEF StillDue
  <2>3. CursorInLog'
    BY <1>1, <2>1 DEF CursorInLog
  <2> QED BY <2>2, <2>3
<1> QED BY <1>2, <1>3, <1>4

\* create_snapshot works beside the lease.
LEMMA ManualsStep ==
    ASSUME SnapshotIInv, NEW b \in Builders,
           (\E force \in BOOLEAN : Manual(b, force)) \/ ManualRead(b)
    PROVE  SnapshotIInv'
<1>1. /\ builder \in [Builders -> Build] /\ builder[b] \in Build /\ events \in Nat /\ troubles \in Nat
      /\ calls \in [Builders -> Nat]
  BY DEF SnapshotIInv, TypeOK, Build
<1>2. /\ UNCHANGED <<backend, events, latest, rowAge, lease, calls, broken>>
      /\ troubles' \in Nat
  BY <1>1 DEF Manual, ManualRead
<1>3. \E r \in Build : builder' = [builder EXCEPT ![b] = r] /\ Follows(r, b)
  <2>1. Follows(builder[b], b)
    BY UnchangedFollows
  <2>2. CASE \E force \in BOOLEAN : Manual(b, force)
    <3> DEFINE r == [builder[b] EXCEPT !.phase = "manual"]
    <3>1. builder' = [builder EXCEPT ![b] = r]
      BY <1>1, <2>2 DEF Manual, Goes
    <3>2. r \in Build /\ r.phase = "manual" /\ r.cursor = builder[b].cursor
      BY <1>1, PhasesOf DEF Build
    <3>3. Follows(r, b)
      <4> HIDE DEF r
      <4> QED BY <2>1, <3>2, PhasesOf DEF Follows
    <3> QED BY <3>1, <3>2, <3>3
  <2>3. CASE ManualRead(b)
    <3> DEFINE r == [builder[b] EXCEPT !.phase = "manual_read", !.cursor = events]
    <3>1. builder' = [builder EXCEPT ![b] = r]
      BY <2>3 DEF ManualRead, Finds
    <3>2. r \in Build /\ r.phase = "manual_read" /\ r.cursor = events
      BY <1>1, PhasesOf DEF Build
    <3>3. Follows(r, b)
      <4> HIDE DEF r
      <4> QED BY <1>1, <3>2, PhasesOf DEF Follows
    <3> QED BY <3>1, <3>2, <3>3
  <2> QED BY <2>2, <2>3
<1>4. PICK r \in Build : builder' = [builder EXCEPT ![b] = r] /\ Follows(r, b)
  BY <1>3
<1>5. events' \in Nat /\ events' >= events /\ calls' \in [Builders -> Nat]
  BY <1>1, <1>2
<1> QED BY <1>2, <1>4, <1>5, MoveStep

\* The row of create_snapshot, and the deletion of all rows by rebuild-snapshots.
LEMMA ManualSaveStep ==
    ASSUME SnapshotIInv, NEW b \in Builders, ManualSave(b) \/ Rebuild(b)
    PROVE  SnapshotIInv'
<1>1. /\ builder \in [Builders -> Build] /\ events \in Nat /\ troubles \in Nat
      /\ calls \in [Builders -> Nat]
  BY DEF SnapshotIInv, TypeOK, Build
<1>2. /\ UNCHANGED <<backend, events, lease, calls, broken>>
      /\ troubles' \in Nat
      /\ latest' \in Nat \cup {NoSnapshot} /\ rowAge' \in 0..MinInterval
      /\ latest' # NoSnapshot => latest' <= events
  BY <1>1, SnapshotConstantsOK, InsertedType DEF ManualSave, Rebuild
<1>3. \A c \in Builders : builder'[c] \in Build /\ Follows(builder'[c], c)
  <2> SUFFICES ASSUME NEW c \in Builders PROVE builder'[c] \in Build /\ Follows(builder'[c], c)
    OBVIOUS
  <2>1. builder[c] \in Build /\ Follows(builder[c], c)
    BY <1>1, UnchangedFollows
  <2>2. CASE c = b
    <3>1. PICK p \in {"idle", "manual"} : builder'[c] = [NotBuilding EXCEPT !.phase = p]
      <4>1. NotBuilding = [NotBuilding EXCEPT !.phase = "idle"]
        BY DEF NotBuilding
      <4> QED BY <2>2, <4>1 DEF ManualSave, Rebuild
    <3> DEFINE r == [NotBuilding EXCEPT !.phase = p]
    <3>2. r \in Build /\ r.phase = p /\ r.cursor = 0
      BY PhasesOf, BuildTypes DEF Build
    <3>3. Follows(r, c)
      <4> HIDE DEF r
      <4> QED BY <1>1, <3>2, PhasesOf DEF Follows
    <3> QED BY <3>1, <3>2, <3>3
  <2>3. CASE c # b /\ ManualSave(b)
    <3>1. builder'[c] = LearnsOf(b, c)
      BY <2>3 DEF ManualSave
    <3>2. Follows(LearnsOf(b, c), c)
      BY <2>1, LearnsType DEF Follows
    <3> QED BY <3>1, <3>2, LearnsType
  <2>4. CASE c # b /\ Rebuild(b)
    <3> DEFINE S == builder[c].later \ {Nobody}
               r == [builder[c] EXCEPT !.later = S]
    <3>1. builder'[c] = r
      BY <2>1, <2>4 DEF Rebuild, Build
    <3>2. S \in SUBSET (Builders \cup {Nobody})
      BY <2>1 DEF Build
    <3>3. /\ r \in Build /\ r.phase = builder[c].phase /\ r.cursor = builder[c].cursor
          /\ r.overtaken = builder[c].overtaken
      <4> HIDE DEF S
      <4> QED BY <2>1, <3>2 DEF Build
    <3>4. Follows(r, c)
      <4> HIDE DEF r
      <4> QED BY <2>1, <3>3 DEF Follows
    <3> QED BY <3>1, <3>3, <3>4
  <2> QED BY <2>2, <2>3, <2>4
<1>4. builder' \in [Builders -> Build]
  BY <1>3 DEF ManualSave, Rebuild
<1> QED BY <1>1, <1>2, <1>3, <1>4, BuildersStep

LEMMA TickStep ==
    ASSUME SnapshotIInv, Tick
    PROVE  SnapshotIInv'
<1> USE DEF SnapshotIInv
<1>1. /\ UNCHANGED <<backend, events, latest, builder, calls, broken, troubles>>
      /\ rowAge' \in 0..MinInterval
      /\ lease' \in Lease /\ lease'.held = lease.held /\ lease'.owner = lease.owner
  BY SnapshotConstantsOK DEF Tick, TypeOK, Lease
<1>2. TypeOK'
  BY <1>1 DEF TypeOK, Lease
<1>3. LeaseOwned' /\ StillDue' /\ CursorInLog'
  BY <1>1 DEF LeaseOwned, StillDue, CursorInLog, InLease
<1> QED BY <1>2, <1>3

LEMMA NextIInv == SnapshotIInv /\ [Next]_vars => SnapshotIInv'
<1> SUFFICES ASSUME SnapshotIInv, [Next]_vars PROVE SnapshotIInv'
  OBVIOUS
<1>1. CASE UNCHANGED vars
  BY <1>1 DEF vars, SnapshotIInv, TypeOK, LeaseOwned, StillDue, CursorInLog, InLease
<1>2. CASE Tick
  BY <1>2, TickStep
<1>3. ASSUME NEW b \in Builders, AutoStep(b) PROVE SnapshotIInv'
  BY <1>3, CallStep, AskStep, RemovedStep, WorkStep, StampStep, SaveStep DEF AutoStep
<1>4. ASSUME NEW b \in Builders, Finalize(b) \/ RemoveFails(b) \/ Fails(b) \/ Dies(b)
      PROVE  SnapshotIInv'
  BY <1>4, CallStep, WorkStep, DiesStep
<1>5. ASSUME NEW b \in Builders,
             (\E force \in BOOLEAN : Manual(b, force)) \/ Rebuild(b) \/ ManualStep(b)
      PROVE  SnapshotIInv'
  BY <1>5, ManualsStep, ManualSaveStep, StampStep DEF ManualStep
<1> QED BY <1>1, <1>2, <1>3, <1>4, <1>5 DEF Next

-----------------------------------------------------------------------------
(* theorems                                                                 *)

\* The inductive invariant of the lease and of the builds under it.
THEOREM SnapshotInvariance == Spec => []SnapshotIInv
BY InitIInv, NextIInv, PTL DEF Spec

\* Two builders never work at a time while no lease has been removed under its
\* owner, whatever dies or fails; on PostgreSQL no lease ever is.
THEOREM LeaseIsExclusive == Spec => []LeaseExclusive
<1>1. SnapshotIInv => LeaseExclusive
  BY OwnedIsExclusive DEF SnapshotIInv
<1> QED BY <1>1, SnapshotInvariance, PTL

\* Under an unbroken lease no automatic build is overtaken by another.
THEOREM NothingBuiltTwice == Spec => []StillDue
<1>1. SnapshotIInv => StillDue
  BY DEF SnapshotIInv
<1> QED BY <1>1, SnapshotInvariance, PTL

-----------------------------------------------------------------------------
(* induction over numbers and sequences                                     *)

LEMMA LeastNumber ==
    ASSUME NEW S \in SUBSET Nat, S # {}
    PROVE  \E n \in S : \A m \in S : n <= m
<1> DEFINE R == OpToRel(<, Nat)
<1>1. IsWellFoundedOn(R, Nat)
  BY NatLessThanWellFounded
<1>2. PICK n \in S : \A m \in S : <<m, n>> \notin R
  <2> HIDE DEF R
  <2> QED BY <1>1, WFMin, Zenon
<1>3. \A m \in S : ~(m < n)
  BY <1>2 DEF OpToRel
<1> HIDE DEF R
<1>4. n \in Nat /\ \A m \in S : m \in Nat
  OBVIOUS
<1>5. \A m \in S : n <= m
  BY <1>3, <1>4
<1> QED BY <1>5

\* Induction: a set of numbers that holds 0 and with n also n + 1.
LEMMA SetInduction ==
    ASSUME NEW S, 0 \in S, \A n \in Nat : n \in S => n + 1 \in S
    PROVE  \A n \in Nat : n \in S
<1> SUFFICES ASSUME \E n \in Nat : n \notin S PROVE FALSE
  OBVIOUS
<1>1. PICK n \in Nat \ S : \A m \in Nat \ S : n <= m
  BY LeastNumber
<1>2. n # 0 /\ n - 1 \in Nat /\ n - 1 \in S
  BY <1>1
<1> QED BY <1>1, <1>2

\* The same up to a bound.
LEMMA BoundedInduction ==
    ASSUME NEW N \in Nat, NEW S, 0 \in S, \A n \in 0..N : n \in S /\ n < N => n + 1 \in S
    PROVE  \A n \in 0..N : n \in S
<1> DEFINE U == {n \in Nat : n <= N => n \in S}
<1>1. 0 \in U /\ \A n \in Nat : n \in U => n + 1 \in U
  OBVIOUS
<1> HIDE DEF U
<1>2. \A n \in Nat : n \in U
  BY <1>1, SetInduction
<1> QED BY <1>2 DEF U

LEMMA PrefixFacts ==
    ASSUME NEW T, NEW s \in Seq(T)
    PROVE  /\ Len(s) \in Nat /\ SubSeq(s, 1, 0) = <<>> /\ SubSeq(s, 1, Len(s)) = s
           /\ \A n \in 0..Len(s) :
                /\ SubSeq(s, 1, n) \in Seq(T) /\ Len(SubSeq(s, 1, n)) = n
                /\ \A i \in 1..n : SubSeq(s, 1, n)[i] = s[i]
                /\ n < Len(s) => /\ s[n + 1] \in T
                                 /\ SubSeq(s, 1, n + 1) = Append(SubSeq(s, 1, n), s[n + 1])
<1>1. Len(s) \in Nat /\ \A i \in 1..Len(s) : s[i] \in T
  OBVIOUS
<1>2. SubSeq(s, 1, 0) = <<>> /\ SubSeq(s, 1, Len(s)) = s
  OBVIOUS
<1>3. ASSUME NEW n \in 0..Len(s)
      PROVE  /\ SubSeq(s, 1, n) \in Seq(T) /\ Len(SubSeq(s, 1, n)) = n
             /\ \A i \in 1..n : SubSeq(s, 1, n)[i] = s[i]
  BY <1>1
<1>4. ASSUME NEW n \in 0..Len(s), n < Len(s)
      PROVE  /\ s[n + 1] \in T
             /\ SubSeq(s, 1, n + 1) = Append(SubSeq(s, 1, n), s[n + 1])
  BY <1>1, <1>3, <1>4
<1> QED BY <1>1, <1>2, <1>3, <1>4

\* f is the run of Drop over s.
DropRun(f, s, D) ==
    /\ Drop(s, D) = f[Len(s)]
    /\ f[0] = <<>>
    /\ \A i \in 1..Len(s) : f[i] = IF s[i] \in D THEN f[i - 1] ELSE Append(f[i - 1], s[i])

LEMMA DropRuns ==
    ASSUME NEW s, Len(s) \in Nat, NEW D
    PROVE  \E f : DropRun(f, s, D)
<1> DEFINE Step(x, i) == IF s[i] \in D THEN x ELSE Append(x, s[i])
           Run(f, k) == f = [i \in 0..k |-> IF i = 0 THEN <<>> ELSE Step(f[i - 1], i)]
           S == {k \in Nat : \E f : Run(f, k)}
<1>1. 0 \in S
  <2>1. Run([i \in 0..0 |-> <<>>], 0)
    OBVIOUS
  <2> QED BY <2>1
<1>2. ASSUME NEW k \in Nat, k \in S PROVE k + 1 \in S
  <2> HIDE DEF Step
  <2>1. PICK f : Run(f, k)
    BY <1>2
  <2> DEFINE g == [i \in 0..k + 1 |-> IF i = k + 1 THEN Step(f[i - 1], i) ELSE f[i]]
  <2>2. Run(g, k + 1)
    BY <2>1
  <2> HIDE DEF g, Run
  <2> QED BY <2>2
<1>3. Len(s) \in S
  <2> HIDE DEF S
  <2> QED BY <1>1, <1>2, SetInduction
<1> DEFINE Is(f) == f = [n \in 0..Len(s) |-> IF n = 0 THEN <<>> ELSE IF s[n] \in D THEN f[n - 1] ELSE Append(f[n - 1], s[n])]
           run == CHOOSE f : Is(f)
<1>4. Drop(s, D) = run[Len(s)] /\ Is(run)
  BY <1>3 DEF Drop
<1> HIDE DEF run
<1>5. run[0] = <<>> /\ \A i \in 1..Len(s) : run[i] = Step(run[i - 1], i)
  <2> HIDE DEF Step
  <2>1. run = [n \in 0..Len(s) |-> IF n = 0 THEN <<>> ELSE Step(run[n - 1], n)]
    BY <1>4 DEF Step
  <2> QED BY <2>1
<1> QED BY <1>4, <1>5 DEF DropRun

LEMMA DropEmpty ==
    ASSUME NEW D
    PROVE  Drop(<<>>, D) = <<>>
<1> DEFINE z == <<>>
<1>1. Len(z) = 0 /\ Len(z) \in Nat
  OBVIOUS
<1> HIDE DEF z
<1>2. PICK h : DropRun(h, z, D)
  BY <1>1, DropRuns, Zenon
<1> QED BY <1>1, <1>2 DEF z, DropRun

LEMMA DropAppend ==
    ASSUME NEW T, NEW s \in Seq(T), NEW e \in T, NEW D
    PROVE  Drop(Append(s, e), D) = IF e \in D THEN Drop(s, D) ELSE Append(Drop(s, D), e)
<1> DEFINE Step(x, a) == IF a \in D THEN x ELSE Append(x, a)
           t == Append(s, e)
           N == Len(s)
<1>1. /\ N \in Nat /\ Len(t) = N + 1 /\ Len(t) \in Nat
      /\ t[N + 1] = e /\ \A i \in 1..N : t[i] = s[i]
      /\ Len(s) \in Nat
  OBVIOUS
<1>2. PICK f : DropRun(f, s, D)
  BY <1>1, DropRuns, Zenon
<1> HIDE DEF t
<1>3. PICK g : DropRun(g, t, D)
  BY <1>1, DropRuns, Zenon
<1>4. /\ \A i \in 1..N : f[i] = Step(f[i - 1], s[i])
      /\ \A i \in 1..N + 1 : g[i] = Step(g[i - 1], t[i])
  BY <1>1, <1>2, <1>3 DEF DropRun
<1> HIDE DEF Step, N
<1> DEFINE A == {k \in 0..N : f[k] = g[k]}
<1>5. 0 \in A
  BY <1>1, <1>2, <1>3 DEF DropRun
<1>6. ASSUME NEW k \in 0..N, k \in A, k < N PROVE k + 1 \in A
  <2>1. k + 1 \in 1..N /\ k + 1 \in 1..N + 1 /\ k + 1 \in 0..N /\ (k + 1) - 1 = k
    BY <1>1, <1>6
  <2>2. f[k + 1] = Step(f[k], s[k + 1]) /\ g[k + 1] = Step(g[k], s[k + 1])
    BY <1>1, <1>4, <2>1
  <2> QED BY <1>6, <2>1, <2>2
<1>7. N \in A
  <2> HIDE DEF A
  <2>1. \A k \in 0..N : k \in A /\ k < N => k + 1 \in A
    BY <1>6
  <2>2. N \in 0..N
    BY <1>1
  <2> QED BY <1>1, <1>5, <2>1, <2>2, BoundedInduction
<1>8. Drop(t, D) = Step(Drop(s, D), e)
  <2>1. N + 1 \in 1..N + 1 /\ (N + 1) - 1 = N
    BY <1>1
  <2>2. g[N + 1] = Step(g[N], e)
    BY <1>1, <1>4, <2>1
  <2> QED BY <1>1, <1>2, <1>3, <1>7, <2>2 DEF N, DropRun
<1> QED BY <1>8 DEF t, Step

\* f is the run of ApplyAll over s.
ApplyAllRun(f, s, b) ==
    /\ ApplyAll(b, s) = f[Len(s)]
    /\ f[0] = b
    /\ \A i \in 1..Len(s) : f[i] = Apply(f[i - 1], s[i])

LEMMA ApplyAllRuns ==
    ASSUME NEW s, Len(s) \in Nat, NEW b
    PROVE  \E f : ApplyAllRun(f, s, b)
<1> DEFINE Step(x, i) == Apply(x, s[i])
           Run(f, k) == f = [i \in 0..k |-> IF i = 0 THEN b ELSE Step(f[i - 1], i)]
           S == {k \in Nat : \E f : Run(f, k)}
<1>1. 0 \in S
  <2>1. Run([i \in 0..0 |-> b], 0)
    OBVIOUS
  <2> QED BY <2>1
<1>2. ASSUME NEW k \in Nat, k \in S PROVE k + 1 \in S
  <2> HIDE DEF Step
  <2>1. PICK f : Run(f, k)
    BY <1>2
  <2> DEFINE g == [i \in 0..k + 1 |-> IF i = k + 1 THEN Step(f[i - 1], i) ELSE f[i]]
  <2>2. Run(g, k + 1)
    BY <2>1
  <2> HIDE DEF g, Run
  <2> QED BY <2>2
<1>3. Len(s) \in S
  <2> HIDE DEF S
  <2> QED BY <1>1, <1>2, SetInduction
<1> DEFINE Is(f) == f = [n \in 0..Len(s) |-> IF n = 0 THEN b ELSE Apply(f[n - 1], s[n])]
           run == CHOOSE f : Is(f)
<1>4. ApplyAll(b, s) = run[Len(s)] /\ Is(run)
  BY <1>3 DEF ApplyAll
<1> HIDE DEF run
<1>5. run[0] = b /\ \A i \in 1..Len(s) : run[i] = Step(run[i - 1], i)
  <2> HIDE DEF Step
  <2>1. run = [n \in 0..Len(s) |-> IF n = 0 THEN b ELSE Step(run[n - 1], n)]
    BY <1>4 DEF Step
  <2> QED BY <2>1
<1> QED BY <1>4, <1>5 DEF ApplyAllRun

LEMMA ApplyAllEmpty ==
    ASSUME NEW b
    PROVE  ApplyAll(b, <<>>) = b
<1> DEFINE z == <<>>
<1>1. Len(z) = 0 /\ Len(z) \in Nat
  OBVIOUS
<1> HIDE DEF z
<1>2. PICK h : ApplyAllRun(h, z, b)
  BY <1>1, ApplyAllRuns, Zenon
<1> QED BY <1>1, <1>2 DEF z, ApplyAllRun

LEMMA ApplyAllAppend ==
    ASSUME NEW T, NEW s \in Seq(T), NEW e \in T, NEW b
    PROVE  ApplyAll(b, Append(s, e)) = Apply(ApplyAll(b, s), e)
<1> DEFINE Step(x, a) == Apply(x, a)
           t == Append(s, e)
           N == Len(s)
<1>1. /\ N \in Nat /\ Len(t) = N + 1 /\ Len(t) \in Nat
      /\ t[N + 1] = e /\ \A i \in 1..N : t[i] = s[i]
      /\ Len(s) \in Nat
  OBVIOUS
<1>2. PICK f : ApplyAllRun(f, s, b)
  BY <1>1, ApplyAllRuns, Zenon
<1> HIDE DEF t
<1>3. PICK g : ApplyAllRun(g, t, b)
  BY <1>1, ApplyAllRuns, Zenon
<1>4. /\ \A i \in 1..N : f[i] = Step(f[i - 1], s[i])
      /\ \A i \in 1..N + 1 : g[i] = Step(g[i - 1], t[i])
  BY <1>1, <1>2, <1>3 DEF ApplyAllRun
<1> HIDE DEF Step, N
<1> DEFINE A == {k \in 0..N : f[k] = g[k]}
<1>5. 0 \in A
  BY <1>1, <1>2, <1>3 DEF ApplyAllRun
<1>6. ASSUME NEW k \in 0..N, k \in A, k < N PROVE k + 1 \in A
  <2>1. k + 1 \in 1..N /\ k + 1 \in 1..N + 1 /\ k + 1 \in 0..N /\ (k + 1) - 1 = k
    BY <1>1, <1>6
  <2>2. f[k + 1] = Step(f[k], s[k + 1]) /\ g[k + 1] = Step(g[k], s[k + 1])
    BY <1>1, <1>4, <2>1
  <2> QED BY <1>6, <2>1, <2>2
<1>7. N \in A
  <2> HIDE DEF A
  <2>1. \A k \in 0..N : k \in A /\ k < N => k + 1 \in A
    BY <1>6
  <2>2. N \in 0..N
    BY <1>1
  <2> QED BY <1>1, <1>5, <2>1, <2>2, BoundedInduction
<1>8. ApplyAll(b, t) = Step(ApplyAll(b, s), e)
  <2>1. N + 1 \in 1..N + 1 /\ (N + 1) - 1 = N
    BY <1>1
  <2>2. g[N + 1] = Step(g[N], e)
    BY <1>1, <1>4, <2>1
  <2> QED BY <1>1, <1>2, <1>3, <1>7, <2>2 DEF N, ApplyAllRun
<1> QED BY <1>8 DEF t, Step

\* f is the run of Ordered over s.
OrderedRun(f, s, d) ==
    /\ Ordered(d, s) = f[Len(s)]
    /\ f[0] = <<>>
    /\ \A i \in 1..Len(s) : f[i] = Take(f[i - 1], d, s[i])

LEMMA OrderedRuns ==
    ASSUME NEW s, Len(s) \in Nat, NEW d
    PROVE  \E f : OrderedRun(f, s, d)
<1> DEFINE Step(x, i) == Take(x, d, s[i])
           Run(f, k) == f = [i \in 0..k |-> IF i = 0 THEN <<>> ELSE Step(f[i - 1], i)]
           S == {k \in Nat : \E f : Run(f, k)}
<1>1. 0 \in S
  <2>1. Run([i \in 0..0 |-> <<>>], 0)
    OBVIOUS
  <2> QED BY <2>1
<1>2. ASSUME NEW k \in Nat, k \in S PROVE k + 1 \in S
  <2> HIDE DEF Step
  <2>1. PICK f : Run(f, k)
    BY <1>2
  <2> DEFINE g == [i \in 0..k + 1 |-> IF i = k + 1 THEN Step(f[i - 1], i) ELSE f[i]]
  <2>2. Run(g, k + 1)
    BY <2>1
  <2> HIDE DEF g, Run
  <2> QED BY <2>2
<1>3. Len(s) \in S
  <2> HIDE DEF S
  <2> QED BY <1>1, <1>2, SetInduction
<1> DEFINE Is(f) == f = [n \in 0..Len(s) |-> IF n = 0 THEN <<>> ELSE Take(f[n - 1], d, s[n])]
           run == CHOOSE f : Is(f)
<1>4. Ordered(d, s) = run[Len(s)] /\ Is(run)
  BY <1>3 DEF Ordered
<1> HIDE DEF run
<1>5. run[0] = <<>> /\ \A i \in 1..Len(s) : run[i] = Step(run[i - 1], i)
  <2> HIDE DEF Step
  <2>1. run = [n \in 0..Len(s) |-> IF n = 0 THEN <<>> ELSE Step(run[n - 1], n)]
    BY <1>4 DEF Step
  <2> QED BY <2>1
<1> QED BY <1>4, <1>5 DEF OrderedRun

LEMMA OrderedEmpty ==
    ASSUME NEW d
    PROVE  Ordered(d, <<>>) = <<>>
<1> DEFINE z == <<>>
<1>1. Len(z) = 0 /\ Len(z) \in Nat
  OBVIOUS
<1> HIDE DEF z
<1>2. PICK h : OrderedRun(h, z, d)
  BY <1>1, OrderedRuns, Zenon
<1> QED BY <1>1, <1>2 DEF z, OrderedRun

LEMMA OrderedAppend ==
    ASSUME NEW T, NEW s \in Seq(T), NEW e \in T, NEW d
    PROVE  Ordered(d, Append(s, e)) = Take(Ordered(d, s), d, e)
<1> DEFINE Step(x, a) == Take(x, d, a)
           t == Append(s, e)
           N == Len(s)
<1>1. /\ N \in Nat /\ Len(t) = N + 1 /\ Len(t) \in Nat
      /\ t[N + 1] = e /\ \A i \in 1..N : t[i] = s[i]
      /\ Len(s) \in Nat
  OBVIOUS
<1>2. PICK f : OrderedRun(f, s, d)
  BY <1>1, OrderedRuns, Zenon
<1> HIDE DEF t
<1>3. PICK g : OrderedRun(g, t, d)
  BY <1>1, OrderedRuns, Zenon
<1>4. /\ \A i \in 1..N : f[i] = Step(f[i - 1], s[i])
      /\ \A i \in 1..N + 1 : g[i] = Step(g[i - 1], t[i])
  BY <1>1, <1>2, <1>3 DEF OrderedRun
<1> HIDE DEF Step, N
<1> DEFINE A == {k \in 0..N : f[k] = g[k]}
<1>5. 0 \in A
  BY <1>1, <1>2, <1>3 DEF OrderedRun
<1>6. ASSUME NEW k \in 0..N, k \in A, k < N PROVE k + 1 \in A
  <2>1. k + 1 \in 1..N /\ k + 1 \in 1..N + 1 /\ k + 1 \in 0..N /\ (k + 1) - 1 = k
    BY <1>1, <1>6
  <2>2. f[k + 1] = Step(f[k], s[k + 1]) /\ g[k + 1] = Step(g[k], s[k + 1])
    BY <1>1, <1>4, <2>1
  <2> QED BY <1>6, <2>1, <2>2
<1>7. N \in A
  <2> HIDE DEF A
  <2>1. \A k \in 0..N : k \in A /\ k < N => k + 1 \in A
    BY <1>6
  <2>2. N \in 0..N
    BY <1>1
  <2> QED BY <1>1, <1>5, <2>1, <2>2, BoundedInduction
<1>8. Ordered(d, t) = Step(Ordered(d, s), e)
  <2>1. N + 1 \in 1..N + 1 /\ (N + 1) - 1 = N
    BY <1>1
  <2>2. g[N + 1] = Step(g[N], e)
    BY <1>1, <1>4, <2>1
  <2> QED BY <1>1, <1>2, <1>3, <1>7, <2>2 DEF N, OrderedRun
<1> QED BY <1>8 DEF t, Step

\* f is the run of ApplyPage over s.
ApplyPageRun(f, s, b) ==
    /\ ApplyPage(b, s) = f[Len(s)]
    /\ f[0] = b
    /\ \A i \in 1..Len(s) : f[i] = ApplyToBoth(f[i - 1], s[i])

LEMMA ApplyPageRuns ==
    ASSUME NEW s, Len(s) \in Nat, NEW b
    PROVE  \E f : ApplyPageRun(f, s, b)
<1> DEFINE Step(x, i) == ApplyToBoth(x, s[i])
           Run(f, k) == f = [i \in 0..k |-> IF i = 0 THEN b ELSE Step(f[i - 1], i)]
           S == {k \in Nat : \E f : Run(f, k)}
<1>1. 0 \in S
  <2>1. Run([i \in 0..0 |-> b], 0)
    OBVIOUS
  <2> QED BY <2>1
<1>2. ASSUME NEW k \in Nat, k \in S PROVE k + 1 \in S
  <2> HIDE DEF Step
  <2>1. PICK f : Run(f, k)
    BY <1>2
  <2> DEFINE g == [i \in 0..k + 1 |-> IF i = k + 1 THEN Step(f[i - 1], i) ELSE f[i]]
  <2>2. Run(g, k + 1)
    BY <2>1
  <2> HIDE DEF g, Run
  <2> QED BY <2>2
<1>3. Len(s) \in S
  <2> HIDE DEF S
  <2> QED BY <1>1, <1>2, SetInduction
<1> DEFINE Is(f) == f = [n \in 0..Len(s) |-> IF n = 0 THEN b ELSE ApplyToBoth(f[n - 1], s[n])]
           run == CHOOSE f : Is(f)
<1>4. ApplyPage(b, s) = run[Len(s)] /\ Is(run)
  BY <1>3 DEF ApplyPage
<1> HIDE DEF run
<1>5. run[0] = b /\ \A i \in 1..Len(s) : run[i] = Step(run[i - 1], i)
  <2> HIDE DEF Step
  <2>1. run = [n \in 0..Len(s) |-> IF n = 0 THEN b ELSE Step(run[n - 1], n)]
    BY <1>4 DEF Step
  <2> QED BY <2>1
<1> QED BY <1>4, <1>5 DEF ApplyPageRun

LEMMA ApplyPageEmpty ==
    ASSUME NEW b
    PROVE  ApplyPage(b, <<>>) = b
<1> DEFINE z == <<>>
<1>1. Len(z) = 0 /\ Len(z) \in Nat
  OBVIOUS
<1> HIDE DEF z
<1>2. PICK h : ApplyPageRun(h, z, b)
  BY <1>1, ApplyPageRuns, Zenon
<1> QED BY <1>1, <1>2 DEF z, ApplyPageRun

LEMMA ApplyPageAppend ==
    ASSUME NEW T, NEW s \in Seq(T), NEW e \in T, NEW b
    PROVE  ApplyPage(b, Append(s, e)) = ApplyToBoth(ApplyPage(b, s), e)
<1> DEFINE Step(x, a) == ApplyToBoth(x, a)
           t == Append(s, e)
           N == Len(s)
<1>1. /\ N \in Nat /\ Len(t) = N + 1 /\ Len(t) \in Nat
      /\ t[N + 1] = e /\ \A i \in 1..N : t[i] = s[i]
      /\ Len(s) \in Nat
  OBVIOUS
<1>2. PICK f : ApplyPageRun(f, s, b)
  BY <1>1, ApplyPageRuns, Zenon
<1> HIDE DEF t
<1>3. PICK g : ApplyPageRun(g, t, b)
  BY <1>1, ApplyPageRuns, Zenon
<1>4. /\ \A i \in 1..N : f[i] = Step(f[i - 1], s[i])
      /\ \A i \in 1..N + 1 : g[i] = Step(g[i - 1], t[i])
  BY <1>1, <1>2, <1>3 DEF ApplyPageRun
<1> HIDE DEF Step, N
<1> DEFINE A == {k \in 0..N : f[k] = g[k]}
<1>5. 0 \in A
  BY <1>1, <1>2, <1>3 DEF ApplyPageRun
<1>6. ASSUME NEW k \in 0..N, k \in A, k < N PROVE k + 1 \in A
  <2>1. k + 1 \in 1..N /\ k + 1 \in 1..N + 1 /\ k + 1 \in 0..N /\ (k + 1) - 1 = k
    BY <1>1, <1>6
  <2>2. f[k + 1] = Step(f[k], s[k + 1]) /\ g[k + 1] = Step(g[k], s[k + 1])
    BY <1>1, <1>4, <2>1
  <2> QED BY <1>6, <2>1, <2>2
<1>7. N \in A
  <2> HIDE DEF A
  <2>1. \A k \in 0..N : k \in A /\ k < N => k + 1 \in A
    BY <1>6
  <2>2. N \in 0..N
    BY <1>1
  <2> QED BY <1>1, <1>5, <2>1, <2>2, BoundedInduction
<1>8. ApplyPage(b, t) = Step(ApplyPage(b, s), e)
  <2>1. N + 1 \in 1..N + 1 /\ (N + 1) - 1 = N
    BY <1>1
  <2>2. g[N + 1] = Step(g[N], e)
    BY <1>1, <1>4, <2>1
  <2> QED BY <1>1, <1>2, <1>3, <1>7, <2>2 DEF N, ApplyPageRun
<1> QED BY <1>8 DEF t, Step

\* Induction over the sequences of a set.
LEMMA SeqInduction ==
    ASSUME NEW T, NEW S, <<>> \in S, \A s \in Seq(T), e \in T : s \in S => Append(s, e) \in S
    PROVE  \A s \in Seq(T) : s \in S
<1> SUFFICES ASSUME NEW s \in Seq(T) PROVE s \in S
  OBVIOUS
<1> DEFINE U == {n \in 0..Len(s) : SubSeq(s, 1, n) \in S}
<1>1. 0 \in U
  <2>1. SubSeq(s, 1, 0) = <<>> /\ 0 \in 0..Len(s)
    BY PrefixFacts
  <2> QED BY <2>1, Zenon
<1>2. ASSUME NEW n \in 0..Len(s), n \in U, n < Len(s) PROVE n + 1 \in U
  <2>1. /\ Len(s) \in Nat /\ SubSeq(s, 1, n) \in Seq(T) /\ s[n + 1] \in T
        /\ SubSeq(s, 1, n + 1) = Append(SubSeq(s, 1, n), s[n + 1])
    BY <1>2, PrefixFacts
  <2>2. n + 1 \in 0..Len(s)
    BY <1>2, <2>1
  <2> QED BY <1>2, <2>1, <2>2
<1>3. Len(s) \in U
  <2> HIDE DEF U
  <2>1. Len(s) \in Nat /\ Len(s) \in 0..Len(s)
    OBVIOUS
  <2>2. \A n \in 0..Len(s) : n \in U /\ n < Len(s) => n + 1 \in U
    BY <1>2
  <2> QED BY <1>1, <2>1, <2>2, BoundedInduction
<1> QED BY <1>3, PrefixFacts

LEMMA AsSetEmpty == AsSet(<<>>) = {}
BY DEF AsSet

LEMMA AsSetAppend ==
    ASSUME NEW T, NEW s \in Seq(T), NEW e \in T
    PROVE  AsSet(Append(s, e)) = AsSet(s) \cup {e}
<1>2. /\ Len(s) \in Nat /\ DOMAIN s = 1..Len(s) /\ DOMAIN Append(s, e) = 1..Len(s) + 1
      /\ Append(s, e)[Len(s) + 1] = e /\ \A i \in 1..Len(s) : Append(s, e)[i] = s[i]
  OBVIOUS
<1> DEFINE t == Append(s, e)
<1> HIDE DEF t
<1>3. AsSet(t) \subseteq AsSet(s) \cup {e}
  BY <1>2 DEF AsSet, t
<1>4. AsSet(s) \subseteq AsSet(t)
  BY <1>2 DEF AsSet, t
<1>5. e \in AsSet(t)
  <2>1. Len(s) + 1 \in DOMAIN t /\ t[Len(s) + 1] = e
    BY <1>2 DEF t
  <2> QED BY <2>1 DEF AsSet
<1> QED BY <1>3, <1>4, <1>5 DEF t

LEMMA AsSetIn ==
    ASSUME NEW T, NEW s \in Seq(T)
    PROVE  AsSet(s) \subseteq T
BY DEF AsSet

\* What is dropped, and what is left.
LEMMA DropIs ==
    ASSUME NEW T, NEW D
    PROVE  \A s \in Seq(T) : Drop(s, D) \in Seq(T) /\ AsSet(Drop(s, D)) = AsSet(s) \ D
<1> DEFINE S == {s \in Seq(T) : Drop(s, D) \in Seq(T) /\ AsSet(Drop(s, D)) = AsSet(s) \ D}
<1>1. <<>> \in S
  <2>1. Drop(<<>>, D) = <<>> /\ AsSet(<<>>) = {} \ D
    BY DropEmpty, AsSetEmpty
  <2>2. <<>> \in Seq(T)
    OBVIOUS
  <2> QED BY <2>1, <2>2, AsSetEmpty, Zenon
<1>2. ASSUME NEW s \in Seq(T), NEW e \in T, s \in S PROVE Append(s, e) \in S
  <2>1. /\ Append(s, e) \in Seq(T) /\ AsSet(Append(s, e)) = AsSet(s) \cup {e}
        /\ Drop(Append(s, e), D) = IF e \in D THEN Drop(s, D) ELSE Append(Drop(s, D), e)
    BY DropAppend, AsSetAppend
  <2>2. /\ Drop(s, D) \in Seq(T) /\ AsSet(Drop(s, D)) = AsSet(s) \ D
        /\ Append(Drop(s, D), e) \in Seq(T)
        /\ AsSet(Append(Drop(s, D), e)) = AsSet(Drop(s, D)) \cup {e}
    BY <1>2, AsSetAppend
  <2>3. CASE e \in D
    BY <2>1, <2>2, <2>3
  <2>4. CASE e \notin D
    BY <2>1, <2>2, <2>4
  <2> QED BY <2>3, <2>4
<1> HIDE DEF S
<1>3. \A s \in Seq(T) : s \in S
  BY <1>1, <1>2, SeqInduction
<1> QED BY <1>3 DEF S
\* Two sets that agree on the members of a sequence drop the same from it.
LEMMA DropSame ==
    ASSUME NEW T, NEW D, NEW E
    PROVE  \A s \in Seq(T) : AsSet(s) \cap D = AsSet(s) \cap E => Drop(s, D) = Drop(s, E)
<1> DEFINE S == {s \in Seq(T) : AsSet(s) \cap D = AsSet(s) \cap E => Drop(s, D) = Drop(s, E)}
<1>1. <<>> \in S
  <2>1. Drop(<<>>, D) = Drop(<<>>, E) /\ <<>> \in Seq(T)
    BY DropEmpty
  <2> QED BY <2>1, Zenon
<1>2. ASSUME NEW s \in Seq(T), NEW e \in T, s \in S PROVE Append(s, e) \in S
  <2>1. /\ Append(s, e) \in Seq(T) /\ AsSet(Append(s, e)) = AsSet(s) \cup {e}
        /\ Drop(Append(s, e), D) = IF e \in D THEN Drop(s, D) ELSE Append(Drop(s, D), e)
        /\ Drop(Append(s, e), E) = IF e \in E THEN Drop(s, E) ELSE Append(Drop(s, E), e)
    BY DropAppend, AsSetAppend
  <2>2. ASSUME AsSet(Append(s, e)) \cap D = AsSet(Append(s, e)) \cap E
        PROVE  Drop(Append(s, e), D) = Drop(Append(s, e), E)
    <3>1. AsSet(s) \cap D = AsSet(s) \cap E /\ (e \in D <=> e \in E)
      BY <2>1, <2>2
    <3> QED BY <1>2, <2>1, <3>1
  <2> QED BY <2>1, <2>2
<1> HIDE DEF S
<1>3. \A s \in Seq(T) : s \in S
  BY <1>1, <1>2, SeqInduction
<1> QED BY <1>3 DEF S

LEMMA DropNone ==
    ASSUME NEW T, NEW D
    PROVE  \A s \in Seq(T) : AsSet(s) \cap D = {} => Drop(s, D) = s
<1> DEFINE S == {s \in Seq(T) : AsSet(s) \cap D = {} => Drop(s, D) = s}
<1>1. <<>> \in S
  <2>1. Drop(<<>>, D) = <<>> /\ <<>> \in Seq(T)
    BY DropEmpty
  <2> QED BY <2>1, Zenon
<1>2. ASSUME NEW s \in Seq(T), NEW e \in T, s \in S PROVE Append(s, e) \in S
  <2>1. /\ Append(s, e) \in Seq(T) /\ AsSet(Append(s, e)) = AsSet(s) \cup {e}
        /\ Drop(Append(s, e), D) = IF e \in D THEN Drop(s, D) ELSE Append(Drop(s, D), e)
    BY DropAppend, AsSetAppend
  <2>2. ASSUME AsSet(Append(s, e)) \cap D = {} PROVE Drop(Append(s, e), D) = Append(s, e)
    <3>1. AsSet(s) \cap D = {} /\ e \notin D
      BY <2>1, <2>2
    <3> QED BY <1>2, <2>1, <3>1
  <2> QED BY <2>1, <2>2
<1> HIDE DEF S
<1>3. \A s \in Seq(T) : s \in S
  BY <1>1, <1>2, SeqInduction
<1> QED BY <1>3 DEF S

LEMMA DropAll ==
    ASSUME NEW T, NEW s \in Seq(T), NEW D, AsSet(s) \subseteq D
    PROVE  Drop(s, D) = <<>>
<1>1. Drop(s, D) \in Seq(T) /\ AsSet(Drop(s, D)) = {}
  BY DropIs
<1> QED BY <1>1 DEF AsSet

LEMMA DropDrop ==
    ASSUME NEW T, NEW D, NEW E
    PROVE  \A s \in Seq(T) : Drop(Drop(s, D), E) = Drop(s, D \cup E)
<1> DEFINE S == {s \in Seq(T) : Drop(Drop(s, D), E) = Drop(s, D \cup E)}
<1>1. <<>> \in S
  <2>1. Drop(<<>>, D) = <<>> /\ Drop(<<>>, E) = <<>> /\ Drop(<<>>, D \cup E) = <<>>
        /\ <<>> \in Seq(T)
    BY DropEmpty
  <2> QED BY <2>1, Zenon
<1>2. ASSUME NEW s \in Seq(T), NEW e \in T, s \in S PROVE Append(s, e) \in S
  <2>1. /\ Append(s, e) \in Seq(T) /\ Drop(s, D) \in Seq(T)
        /\ Drop(Append(s, e), D) = IF e \in D THEN Drop(s, D) ELSE Append(Drop(s, D), e)
    BY DropAppend, DropIs
  <2>5. Drop(Append(s, e), D \cup E)
           = IF e \in D \cup E THEN Drop(s, D \cup E) ELSE Append(Drop(s, D \cup E), e)
    <3> DEFINE U == D \cup E
    <3> HIDE DEF U
    <3>1. Drop(Append(s, e), U) = IF e \in U THEN Drop(s, U) ELSE Append(Drop(s, U), e)
      BY DropAppend
    <3> QED BY <3>1 DEF U
  <2>2. Drop(Append(Drop(s, D), e), E)
          = IF e \in E THEN Drop(Drop(s, D), E) ELSE Append(Drop(Drop(s, D), E), e)
    BY <2>1, DropAppend
  <2>3. Drop(Drop(s, D), E) = Drop(s, D \cup E)
    BY <1>2
  <2>4. Drop(Drop(Append(s, e), D), E) = Drop(Append(s, e), D \cup E)
    <3>1. CASE e \in D
      BY <2>1, <2>5, <2>3, <3>1
    <3>2. CASE e \notin D /\ e \in E
      BY <2>1, <2>5, <2>2, <2>3, <3>2
    <3>3. CASE e \notin D /\ e \notin E
      BY <2>1, <2>5, <2>2, <2>3, <3>3
    <3> QED BY <3>1, <3>2, <3>3
  <2> QED BY <2>1, <2>4
<1> HIDE DEF S
<1>3. \A s \in Seq(T) : s \in S
  BY <1>1, <1>2, SeqInduction
<1> QED BY <1>3 DEF S

-----------------------------------------------------------------------------
(* dicts                                                                    *)

\* Every key once, as in a dict.
UniqueKeys(dict) == \A i, j \in DOMAIN dict : dict[i][1] = dict[j][1] => i = j

LEMMA HasIs ==
    ASSUME NEW dict, NEW key
    PROVE  Has(dict, key) <=> \E entry \in AsSet(dict) : entry[1] = key
BY DEF Has, AsSet

LEMMA UniqueAppend ==
    ASSUME NEW T, NEW dict \in Seq(T), NEW e \in T
    PROVE  UniqueKeys(Append(dict, e)) <=> UniqueKeys(dict) /\ ~Has(dict, e[1])
<1> DEFINE n == Len(dict)
           d == Append(dict, e)
<1>1. /\ n \in Nat /\ DOMAIN dict = 1..n /\ DOMAIN d = 1..n + 1
      /\ d[n + 1] = e /\ \A i \in 1..n : d[i] = dict[i]
  OBVIOUS
<1> HIDE DEF n, d
<1>2. ASSUME UniqueKeys(d) PROVE UniqueKeys(dict) /\ ~Has(dict, e[1])
  <2>1. \A i \in 1..n : i \in 1..n + 1 /\ n + 1 \in 1..n + 1 /\ i # n + 1
    BY <1>1
  <2> QED BY <1>1, <1>2, <2>1 DEF UniqueKeys, Has
<1>3. ASSUME UniqueKeys(dict), ~Has(dict, e[1]) PROVE UniqueKeys(d)
  <2>1. \A i \in 1..n + 1 : i \in 1..n \/ i = n + 1
    BY <1>1
  <2> QED BY <1>1, <1>3, <2>1 DEF UniqueKeys, Has
<1> QED BY <1>2, <1>3 DEF d

LEMMA DropUnique ==
    ASSUME NEW T, NEW D
    PROVE  \A s \in Seq(T) : UniqueKeys(s) => UniqueKeys(Drop(s, D))
<1> DEFINE S == {s \in Seq(T) : UniqueKeys(s) => UniqueKeys(Drop(s, D))}
<1>1. <<>> \in S
  <2>1. Drop(<<>>, D) = <<>> /\ <<>> \in Seq(T)
    BY DropEmpty
  <2> QED BY <2>1, Zenon
<1>2. ASSUME NEW s \in Seq(T), NEW e \in T, s \in S PROVE Append(s, e) \in S
  <2>1. /\ Append(s, e) \in Seq(T) /\ Drop(s, D) \in Seq(T) /\ AsSet(Drop(s, D)) = AsSet(s) \ D
        /\ Drop(Append(s, e), D) = IF e \in D THEN Drop(s, D) ELSE Append(Drop(s, D), e)
    BY DropAppend, DropIs
  <2>2. ASSUME UniqueKeys(Append(s, e)) PROVE UniqueKeys(Drop(Append(s, e), D))
    <3>1. UniqueKeys(Drop(s, D)) /\ ~Has(s, e[1])
      BY <1>2, <2>2, UniqueAppend
    <3>2. ~Has(Drop(s, D), e[1])
      BY <2>1, <3>1, HasIs
    <3>3. UniqueKeys(Append(Drop(s, D), e))
      BY <2>1, <3>1, <3>2, UniqueAppend
    <3>4. CASE e \in D
      BY <2>1, <3>1, <3>4
    <3>5. CASE e \notin D
      BY <2>1, <3>3, <3>5
    <3> QED BY <3>4, <3>5
  <2> QED BY <2>1, <2>2
<1> HIDE DEF S
<1>3. \A s \in Seq(T) : s \in S
  BY <1>1, <1>2, SeqInduction
<1> QED BY <1>3 DEF S

-----------------------------------------------------------------------------
(* one event: what it does to each field of the state                       *)

Refs == Seq(Ref \X Names)

State ==
    [goal: Optional(Names), working_files: Seq(Files), open_task_refs: Refs, open_tasks: Seq(Names),
     completed_tasks: Seq(Names), notes: [NoteTypes -> Seq(Nat)], last_event_id: Optional(Nat),
     last_working_file: Optional(Files), event_count: Nat]

Saved == {e \in Event : e.id \in Nat}

Completes(e) == e.type = "task_completed" /\ TaskRef(e) # Nothing

Modifies(e) == e.type = "file_modified" /\ e.file # Nothing

\* The open references behind an event, which only depend on those before it.
RefsAfter(refs, e) ==
    CASE e.type = "task_started" /\ TaskRef(e) # Nothing -> Put(refs, TaskRef(e), TaskLabel(e))
      [] Completes(e) -> Without(refs, ClosedRef(refs, TaskRef(e), TaskLabel(e)))
      [] e.type = "task_updated" /\ e.task_id # Nothing /\ e.task # Nothing ->
           Put(refs, <<"id", e.task_id>>, e.task)
      [] e.type = "task_deleted" /\ e.task_id # Nothing -> Without(refs, <<"id", e.task_id>>)
      [] OTHER -> refs

\* The event leads to a new list of references.
Touches(e) ==
    \/ e.type = "task_started" /\ TaskRef(e) # Nothing
    \/ Completes(e)
    \/ e.type = "task_updated" /\ e.task_id # Nothing /\ e.task # Nothing
    \/ e.type = "task_deleted" /\ e.task_id # Nothing

\* The state behind the event, field by field.
After(st, e) ==
    [goal |-> IF e.type = "goal_set" /\ e.task # Nothing THEN e.task ELSE st.goal,
     working_files |-> IF Modifies(e) THEN Append(Drop(st.working_files, {e.file}), e.file)
                                      ELSE st.working_files,
     open_task_refs |-> RefsAfter(st.open_task_refs, e),
     open_tasks |-> IF Touches(e) THEN Values(RefsAfter(st.open_task_refs, e)) ELSE st.open_tasks,
     completed_tasks |-> IF Completes(e) /\ TaskLabel(e) \notin AsSet(st.completed_tasks)
                         THEN Append(st.completed_tasks, TaskLabel(e)) ELSE st.completed_tasks,
     notes |-> IF e.type \in NoteTypes THEN [st.notes EXCEPT ![e.type] = Append(@, e.id)] ELSE st.notes,
     last_event_id |-> e.id,
     last_working_file |-> IF Modifies(e) THEN e.file ELSE st.last_working_file,
     event_count |-> st.event_count]

\* The state with new references, field by field.
LEMMA RefsRecord ==
    ASSUME NEW st \in State, NEW id, NEW refs
    PROVE  WithRefs([st EXCEPT !.last_event_id = id], refs)
              = [goal |-> st.goal, working_files |-> st.working_files, open_task_refs |-> refs,
                 open_tasks |-> Values(refs), completed_tasks |-> st.completed_tasks, notes |-> st.notes,
                 last_event_id |-> id, last_working_file |-> st.last_working_file,
                 event_count |-> st.event_count]
<1> DEFINE same == [goal |-> st.goal, working_files |-> st.working_files, open_task_refs |-> st.open_task_refs,
                    open_tasks |-> st.open_tasks, completed_tasks |-> st.completed_tasks, notes |-> st.notes,
                    last_event_id |-> st.last_event_id, last_working_file |-> st.last_working_file,
                    event_count |-> st.event_count]
           seen == [goal |-> st.goal, working_files |-> st.working_files, open_task_refs |-> st.open_task_refs,
                    open_tasks |-> st.open_tasks, completed_tasks |-> st.completed_tasks, notes |-> st.notes,
                    last_event_id |-> id, last_working_file |-> st.last_working_file,
                    event_count |-> st.event_count]
           half == [goal |-> st.goal, working_files |-> st.working_files, open_task_refs |-> refs,
                    open_tasks |-> st.open_tasks, completed_tasks |-> st.completed_tasks, notes |-> st.notes,
                    last_event_id |-> id, last_working_file |-> st.last_working_file,
                    event_count |-> st.event_count]
           both == [goal |-> st.goal, working_files |-> st.working_files, open_task_refs |-> refs,
                    open_tasks |-> Values(refs), completed_tasks |-> st.completed_tasks, notes |-> st.notes,
                    last_event_id |-> id, last_working_file |-> st.last_working_file,
                    event_count |-> st.event_count]
<1>1. st = same
  BY DEF State
<1>2. [same EXCEPT !.last_event_id = id] = seen
  OBVIOUS
<1>3. [seen EXCEPT !.open_task_refs = refs] = half
  OBVIOUS
<1>4. [half EXCEPT !.open_tasks = Values(refs)] = both
  OBVIOUS
<1>5. WithRefs(seen, refs) = [[seen EXCEPT !.open_task_refs = refs] EXCEPT !.open_tasks = Values(refs)]
  BY Zenon DEF WithRefs
<1> HIDE DEF same, seen, half
<1> QED BY <1>1, <1>2, <1>3, <1>4, <1>5, Zenon

LEMMA ApplyIsAfter ==
    ASSUME NEW st \in State, NEW e \in Saved
    PROVE  Apply(st, e) = After(st, e)
<1> DEFINE seen == [st EXCEPT !.last_event_id = e.id]
           same == [goal |-> st.goal, working_files |-> st.working_files,
                 open_task_refs |-> st.open_task_refs, open_tasks |-> st.open_tasks,
                 completed_tasks |-> st.completed_tasks, notes |-> st.notes,
                 last_event_id |-> st.last_event_id, last_working_file |-> st.last_working_file,
                 event_count |-> st.event_count]
<1>1. seen = [goal |-> st.goal, working_files |-> st.working_files,
                 open_task_refs |-> st.open_task_refs, open_tasks |-> st.open_tasks,
                 completed_tasks |-> st.completed_tasks, notes |-> st.notes,
                 last_event_id |-> e.id, last_working_file |-> st.last_working_file,
                 event_count |-> st.event_count]
  <2>1. st = same
    BY DEF State
  <2>2. [same EXCEPT !.last_event_id = e.id] = [goal |-> st.goal, working_files |-> st.working_files,
                 open_task_refs |-> st.open_task_refs, open_tasks |-> st.open_tasks,
                 completed_tasks |-> st.completed_tasks, notes |-> st.notes,
                 last_event_id |-> e.id, last_working_file |-> st.last_working_file,
                 event_count |-> st.event_count]
    OBVIOUS
  <2> QED BY <2>1, <2>2, Zenon
<1>2. CASE e.type = "goal_set"
  <2>1. Apply(st, e) = GoalSet(seen, e)
    BY <1>2 DEF Apply, NoteTypes
  <2> HIDE DEF seen
  <2>2. /\ ~Completes(e) /\ ~Modifies(e) /\ e.type \notin NoteTypes
        /\ RefsAfter(st.open_task_refs, e) = st.open_task_refs /\ ~Touches(e)
    BY <1>2 DEF RefsAfter, Touches, Completes, Modifies, NoteTypes
  <2> QED BY <1>1, <1>2, <2>1, <2>2 DEF GoalSet, After
<1>3. CASE e.type = "task_started"
  <2>1. Apply(st, e) = TaskStarted(seen, e)
    BY <1>3 DEF Apply, NoteTypes
  <2> HIDE DEF seen
  <2>2. /\ ~Completes(e) /\ ~Modifies(e)
        /\ e.type # "goal_set" /\ e.type \notin NoteTypes
    BY <1>3 DEF Completes, Modifies, NoteTypes
  <2>3. CASE TaskRef(e) = Nothing
    <3>1. RefsAfter(st.open_task_refs, e) = st.open_task_refs /\ ~Touches(e)
      BY <1>3, <2>3 DEF RefsAfter, Touches, Completes
    <3> QED BY <1>1, <2>1, <2>2, <2>3, <3>1 DEF TaskStarted, After
  <2>4. CASE TaskRef(e) # Nothing
    <3>1. RefsAfter(st.open_task_refs, e) = Put(st.open_task_refs, TaskRef(e), TaskLabel(e)) /\ Touches(e)
      BY <1>3, <2>4 DEF RefsAfter, Touches, Completes
    <3> DEFINE refs == Put(st.open_task_refs, TaskRef(e), TaskLabel(e))
    <3>2. Apply(st, e) = WithRefs(seen, refs)
      BY <1>1, <2>1, <2>4 DEF TaskStarted
    <3> HIDE DEF refs
    <3>3. After(st, e) = [goal |-> st.goal, working_files |-> st.working_files,
                 open_task_refs |-> refs, open_tasks |-> Values(refs),
                 completed_tasks |-> st.completed_tasks, notes |-> st.notes,
                 last_event_id |-> e.id, last_working_file |-> st.last_working_file,
                 event_count |-> st.event_count]
      BY <2>2, <3>1 DEF After, refs
    <3> QED BY <3>2, <3>3, RefsRecord DEF seen
  <2> QED BY <2>3, <2>4
<1>4. CASE e.type = "task_completed"
  <2>1. Apply(st, e) = TaskCompleted(seen, e)
    BY <1>4 DEF Apply, NoteTypes
  <2> HIDE DEF seen
  <2>2. ~Modifies(e) /\ e.type # "goal_set" /\ e.type \notin NoteTypes
    BY <1>4 DEF Modifies, NoteTypes
  <2>3. CASE TaskRef(e) = Nothing
    <3>1. ~Completes(e) /\ RefsAfter(st.open_task_refs, e) = st.open_task_refs /\ ~Touches(e)
      BY <1>4, <2>3 DEF RefsAfter, Touches, Completes
    <3> QED BY <1>1, <2>1, <2>2, <2>3, <3>1 DEF TaskCompleted, After
  <2>4. CASE TaskRef(e) # Nothing
    <3>1. /\ RefsAfter(st.open_task_refs, e)
               = Without(st.open_task_refs, ClosedRef(st.open_task_refs, TaskRef(e), TaskLabel(e)))
          /\ Completes(e) /\ Touches(e)
      BY <1>4, <2>4 DEF RefsAfter, Touches, Completes
    <3> DEFINE refs == Without(st.open_task_refs,
                               ClosedRef(st.open_task_refs, TaskRef(e), TaskLabel(e)))
               kept == [goal |-> st.goal, working_files |-> st.working_files,
                 open_task_refs |-> refs, open_tasks |-> Values(refs),
                 completed_tasks |-> st.completed_tasks, notes |-> st.notes,
                 last_event_id |-> e.id, last_working_file |-> st.last_working_file,
                 event_count |-> st.event_count]
    <3>2. Apply(st, e) = IF TaskLabel(e) \in AsSet(st.completed_tasks) THEN WithRefs(seen, refs)
                         ELSE [WithRefs(seen, refs) EXCEPT !.completed_tasks = Append(@, TaskLabel(e))]
      BY <1>1, <2>1, <2>4 DEF TaskCompleted
    <3> HIDE DEF refs
    <3>3. WithRefs(seen, refs) = kept
      BY RefsRecord DEF seen
    <3>4. After(st, e) = IF TaskLabel(e) \in AsSet(st.completed_tasks) THEN kept
                         ELSE [kept EXCEPT !.completed_tasks = Append(@, TaskLabel(e))]
      BY <2>2, <3>1 DEF After, refs
    <3> QED BY <3>2, <3>3, <3>4
  <2> QED BY <2>3, <2>4
<1>5. CASE e.type = "task_updated"
  <2>1. Apply(st, e) = TaskUpdated(seen, e)
    BY <1>5 DEF Apply, NoteTypes
  <2> HIDE DEF seen
  <2>2. /\ ~Completes(e) /\ ~Modifies(e)
        /\ e.type # "goal_set" /\ e.type \notin NoteTypes
    BY <1>5 DEF Completes, Modifies, NoteTypes
  <2>3. CASE e.task_id = Nothing \/ e.task = Nothing
    <3>1. RefsAfter(st.open_task_refs, e) = st.open_task_refs /\ ~Touches(e)
      BY <1>5, <2>3 DEF RefsAfter, Touches, Completes
    <3> QED BY <1>1, <2>1, <2>2, <2>3, <3>1 DEF TaskUpdated, After
  <2>4. CASE e.task_id # Nothing /\ e.task # Nothing
    <3>1. RefsAfter(st.open_task_refs, e) = Put(st.open_task_refs, <<"id", e.task_id>>, e.task) /\ Touches(e)
      BY <1>5, <2>4 DEF RefsAfter, Touches, Completes
    <3> DEFINE refs == Put(st.open_task_refs, <<"id", e.task_id>>, e.task)
    <3>2. Apply(st, e) = WithRefs(seen, refs)
      BY <1>1, <2>1, <2>4 DEF TaskUpdated
    <3> HIDE DEF refs
    <3>3. After(st, e) = [goal |-> st.goal, working_files |-> st.working_files,
                 open_task_refs |-> refs, open_tasks |-> Values(refs),
                 completed_tasks |-> st.completed_tasks, notes |-> st.notes,
                 last_event_id |-> e.id, last_working_file |-> st.last_working_file,
                 event_count |-> st.event_count]
      BY <2>2, <3>1 DEF After, refs
    <3> QED BY <3>2, <3>3, RefsRecord DEF seen
  <2> QED BY <2>3, <2>4
<1>6. CASE e.type = "task_deleted"
  <2>1. Apply(st, e) = TaskDeleted(seen, e)
    BY <1>6 DEF Apply, NoteTypes
  <2> HIDE DEF seen
  <2>2. /\ ~Completes(e) /\ ~Modifies(e)
        /\ e.type # "goal_set" /\ e.type \notin NoteTypes
    BY <1>6 DEF Completes, Modifies, NoteTypes
  <2>3. CASE e.task_id = Nothing
    <3>1. RefsAfter(st.open_task_refs, e) = st.open_task_refs /\ ~Touches(e)
      BY <1>6, <2>3 DEF RefsAfter, Touches, Completes
    <3> QED BY <1>1, <2>1, <2>2, <2>3, <3>1 DEF TaskDeleted, After
  <2>4. CASE e.task_id # Nothing
    <3>1. RefsAfter(st.open_task_refs, e) = Without(st.open_task_refs, <<"id", e.task_id>>) /\ Touches(e)
      BY <1>6, <2>4 DEF RefsAfter, Touches, Completes
    <3> DEFINE refs == Without(st.open_task_refs, <<"id", e.task_id>>)
    <3>2. Apply(st, e) = WithRefs(seen, refs)
      BY <1>1, <2>1, <2>4 DEF TaskDeleted
    <3> HIDE DEF refs
    <3>3. After(st, e) = [goal |-> st.goal, working_files |-> st.working_files,
                 open_task_refs |-> refs, open_tasks |-> Values(refs),
                 completed_tasks |-> st.completed_tasks, notes |-> st.notes,
                 last_event_id |-> e.id, last_working_file |-> st.last_working_file,
                 event_count |-> st.event_count]
      BY <2>2, <3>1 DEF After, refs
    <3> QED BY <3>2, <3>3, RefsRecord DEF seen
  <2> QED BY <2>3, <2>4
<1>7. CASE e.type = "file_modified"
  <2>1. Apply(st, e) = FileModified(seen, e)
    BY <1>7 DEF Apply, NoteTypes
  <2> HIDE DEF seen
  <2>2. /\ ~Completes(e) /\ e.type # "goal_set" /\ e.type \notin NoteTypes
        /\ RefsAfter(st.open_task_refs, e) = st.open_task_refs /\ ~Touches(e)
    BY <1>7 DEF RefsAfter, Touches, Completes, NoteTypes
  <2>3. Modifies(e) <=> e.file # Nothing
    BY <1>7 DEF Modifies
  <2> QED BY <1>1, <2>1, <2>2, <2>3 DEF FileModified, After
<1>8. CASE e.type \in NoteTypes
  <2>1. Apply(st, e) = Noted(seen, e)
    BY <1>8 DEF Apply, NoteTypes
  <2> HIDE DEF seen
  <2>2. /\ ~Completes(e) /\ ~Modifies(e) /\ e.type # "goal_set"
        /\ RefsAfter(st.open_task_refs, e) = st.open_task_refs /\ ~Touches(e)
    BY <1>8 DEF RefsAfter, Touches, Completes, Modifies, NoteTypes
  <2> QED BY <1>1, <1>8, <2>1, <2>2 DEF Noted, After
<1>9. CASE e.type \notin NoteTypes \cup {"goal_set", "task_started", "task_completed", "task_updated",
                                       "task_deleted", "file_modified"}
  <2>1. Apply(st, e) = seen
    BY <1>9 DEF Apply, NoteTypes
  <2> HIDE DEF seen
  <2> QED BY <1>1, <1>9, <2>1 DEF After, RefsAfter, Touches, Completes, Modifies
<1> QED BY <1>2, <1>3, <1>4, <1>5, <1>6, <1>7, <1>8, <1>9

\* A state that the program can be in.
StateOK(st) ==
    st \in State /\ UniqueKeys(st.open_task_refs) /\ st.open_tasks = Values(st.open_task_refs)

LEMMA RefPairs ==
    /\ \A x \in Ref \X Names : x[1] \in Ref /\ x[2] \in Names /\ x = <<x[1], x[2]>>
    /\ \A x \in Ref : x[1] \in {"id", "legacy"} /\ x[2] \in Names /\ x = <<x[1], x[2]>>
    /\ \A n \in Names : <<"id", n>> \in Ref /\ <<"legacy", n>> \in Ref
BY DEF Ref

LEMMA ValuesOK ==
    ASSUME NEW refs \in Refs
    PROVE  /\ Values(refs) \in Seq(Names) /\ Len(Values(refs)) = Len(refs)
           /\ \A i \in 1..Len(refs) : Values(refs)[i] = refs[i][2]
<1>1. Len(refs) \in Nat /\ DOMAIN refs = 1..Len(refs) /\ \A i \in 1..Len(refs) : refs[i][2] \in Names
  BY RefPairs DEF Refs
<1>2. Values(refs) = [i \in 1..Len(refs) |-> refs[i][2]]
  BY <1>1 DEF Values
<1> QED BY <1>1, <1>2

LEMMA PutOK ==
    ASSUME NEW refs \in Refs, NEW key \in Ref, NEW value \in Names
    PROVE  /\ Put(refs, key, value) \in Refs
           /\ UniqueKeys(refs) => UniqueKeys(Put(refs, key, value))
<1>1. <<key, value>> \in Ref \X Names /\ <<key, value>>[1] = key
  OBVIOUS
<1>2. CASE ~Has(refs, key)
  <2>1. Put(refs, key, value) = Append(refs, <<key, value>>)
    BY <1>2 DEF Put
  <2>2. Append(refs, <<key, value>>) \in Refs
    BY <1>1 DEF Refs
  <2>3. UniqueKeys(refs) => UniqueKeys(Append(refs, <<key, value>>))
    <3> DEFINE e == <<key, value>>
    <3> HIDE DEF e
    <3>1. e \in Ref \X Names /\ e[1] = key
      BY <1>1 DEF e
    <3>2. UniqueKeys(refs) => UniqueKeys(Append(refs, e))
      BY <1>2, <3>1, UniqueAppend DEF Refs
    <3> QED BY <3>2 DEF e
  <2> QED BY <2>1, <2>2, <2>3
<1>3. CASE Has(refs, key)
  <2> DEFINE new == [i \in DOMAIN refs |-> IF refs[i][1] = key THEN <<key, value>> ELSE refs[i]]
  <2>1. Put(refs, key, value) = new
    BY <1>3 DEF Put
  <2>2. Len(refs) \in Nat /\ DOMAIN refs = 1..Len(refs) /\ \A i \in 1..Len(refs) : refs[i] \in Ref \X Names
    BY DEF Refs
  <2>3. new \in Refs
    BY <1>1, <2>2 DEF Refs
  <2>4. DOMAIN new = DOMAIN refs /\ \A i \in DOMAIN refs : new[i][1] = refs[i][1]
    BY <1>1
  <2>5. UniqueKeys(refs) => UniqueKeys(new)
    <3> HIDE DEF new
    <3> QED BY <2>4 DEF UniqueKeys
  <2> QED BY <2>1, <2>3, <2>5
<1> QED BY <1>2, <1>3

LEMMA WithoutOK ==
    ASSUME NEW refs \in Refs, NEW key
    PROVE  Without(refs, key) \in Refs /\ (UniqueKeys(refs) => UniqueKeys(Without(refs, key)))
BY DropIs, DropUnique DEF Without, Refs

LEMMA EventFields ==
    ASSUME NEW e \in Saved
    PROVE  /\ e.id \in Nat /\ e.task_id \in Names \cup {Nothing} /\ e.task \in Names \cup {Nothing}
           /\ e.file \in Files \cup {Nothing}
           /\ TaskRef(e) # Nothing => TaskRef(e) \in Ref /\ TaskLabel(e) \in Names
<1>1. /\ e.id \in Nat /\ e.task_id \in Names \cup {Nothing} /\ e.task \in Names \cup {Nothing}
      /\ e.file \in Files \cup {Nothing}
  BY DEF Saved, Event, Optional
<1>2. CASE e.task_id # Nothing
  BY <1>1, <1>2, RefPairs DEF TaskRef, TaskLabel
<1>3. CASE e.task_id = Nothing /\ e.task # Nothing
  <2>1. Normal[e.task] \in Names
    BY <1>1, <1>3, ReplayConstantsOK
  <2> QED BY <1>1, <1>3, <2>1, RefPairs DEF TaskRef, TaskLabel
<1>4. CASE e.task_id = Nothing /\ e.task = Nothing
  BY <1>1, <1>4 DEF TaskRef
<1> QED BY <1>1, <1>2, <1>3, <1>4

LEMMA RefsAfterOK ==
    ASSUME NEW refs \in Refs, NEW e \in Saved
    PROVE  /\ RefsAfter(refs, e) \in Refs
           /\ UniqueKeys(refs) => UniqueKeys(RefsAfter(refs, e))
           /\ ~Touches(e) => RefsAfter(refs, e) = refs
<1>1. CASE e.type = "task_started" /\ TaskRef(e) # Nothing
  <2>1. RefsAfter(refs, e) = Put(refs, TaskRef(e), TaskLabel(e))
    BY <1>1 DEF RefsAfter, Completes
  <2>2. TaskRef(e) \in Ref /\ TaskLabel(e) \in Names
    BY <1>1, EventFields
  <2> QED BY <1>1, <2>1, <2>2, PutOK DEF Touches
<1>2. CASE Completes(e)
  <2>1. RefsAfter(refs, e) = Without(refs, ClosedRef(refs, TaskRef(e), TaskLabel(e)))
    BY <1>2 DEF RefsAfter, Completes
  <2> QED BY <1>2, <2>1, WithoutOK DEF Touches
<1>3. CASE e.type = "task_updated" /\ e.task_id # Nothing /\ e.task # Nothing
  <2>1. RefsAfter(refs, e) = Put(refs, <<"id", e.task_id>>, e.task)
    BY <1>3 DEF RefsAfter, Completes
  <2>2. <<"id", e.task_id>> \in Ref /\ e.task \in Names
    BY <1>3, EventFields, RefPairs
  <2> QED BY <1>3, <2>1, <2>2, PutOK DEF Touches
<1>4. CASE e.type = "task_deleted" /\ e.task_id # Nothing
  <2>1. RefsAfter(refs, e) = Without(refs, <<"id", e.task_id>>)
    BY <1>4 DEF RefsAfter, Completes
  <2> QED BY <1>4, <2>1, WithoutOK DEF Touches
<1>5. CASE ~Touches(e)
  <2>1. RefsAfter(refs, e) = refs
    BY <1>5 DEF RefsAfter, Touches
  <2> QED BY <2>1
<1> QED BY <1>1, <1>2, <1>3, <1>4, <1>5 DEF Touches

LEMMA AfterType ==
    ASSUME NEW st \in State, NEW e \in Saved
    PROVE  After(st, e) \in State
<1>1. /\ st.open_task_refs \in Refs /\ st.goal \in Optional(Names)
      /\ st.working_files \in Seq(Files) /\ st.completed_tasks \in Seq(Names)
      /\ st.notes \in [NoteTypes -> Seq(Nat)] /\ st.last_working_file \in Optional(Files)
      /\ st.event_count \in Nat
      /\ st.open_tasks \in Seq(Names)
  BY DEF State
<1>2. RefsAfter(st.open_task_refs, e) \in Refs
  BY <1>1, RefsAfterOK
<1>3. Values(RefsAfter(st.open_task_refs, e)) \in Seq(Names)
  BY <1>2, ValuesOK
<1> DEFINE a == After(st, e)
<1>4. a.goal \in Optional(Names)
  BY <1>1, EventFields DEF After, Optional
<1>5. a.working_files \in Seq(Files)
  <2>1. Drop(st.working_files, {e.file}) \in Seq(Files)
    BY <1>1, DropIs
  <2>2. CASE Modifies(e)
    <3>1. e.file \in Files
      BY <2>2, EventFields DEF Modifies
    <3> QED BY <2>1, <2>2, <3>1 DEF After
  <2>3. CASE ~Modifies(e)
    BY <1>1, <2>3 DEF After
  <2> QED BY <2>2, <2>3
<1>6. a.completed_tasks \in Seq(Names)
  <2>1. CASE Completes(e)
    <3>1. TaskLabel(e) \in Names
      BY <2>1, EventFields DEF Completes
    <3> QED BY <1>1, <3>1 DEF After
  <2>2. CASE ~Completes(e)
    BY <1>1, <2>2 DEF After
  <2> QED BY <2>1, <2>2
<1>7. a.notes \in [NoteTypes -> Seq(Nat)]
  <2>1. CASE e.type \in NoteTypes
    <3>1. Append(st.notes[e.type], e.id) \in Seq(Nat)
      BY <1>1, <2>1, EventFields
    <3> QED BY <1>1, <2>1, <3>1 DEF After
  <2>2. CASE e.type \notin NoteTypes
    BY <1>1, <2>2 DEF After
  <2> QED BY <2>1, <2>2
<1>8. a.last_working_file \in Optional(Files) /\ a.last_event_id \in Optional(Nat) /\ a.event_count \in Nat
  BY <1>1, EventFields DEF After, Optional
<1>9. a.open_tasks \in Seq(Names)
  BY <1>1, <1>3 DEF After
<1> QED BY <1>2, <1>4, <1>5, <1>6, <1>7, <1>8, <1>9 DEF After, State

LEMMA AfterOK ==
    ASSUME NEW st, StateOK(st), NEW e \in Saved
    PROVE  StateOK(After(st, e)) /\ Apply(st, e) = After(st, e)
<1>1. st \in State /\ st.open_task_refs \in Refs
  BY DEF StateOK, State
<1>2. /\ UniqueKeys(RefsAfter(st.open_task_refs, e))
      /\ ~Touches(e) => RefsAfter(st.open_task_refs, e) = st.open_task_refs
  BY <1>1, RefsAfterOK DEF StateOK
<1>3. After(st, e).open_task_refs = RefsAfter(st.open_task_refs, e)
  BY DEF After
<1>4. After(st, e).open_tasks = Values(RefsAfter(st.open_task_refs, e))
  <2>1. CASE Touches(e)
    BY <2>1 DEF After
  <2>2. CASE ~Touches(e)
    BY <1>2, <2>2 DEF After, StateOK
  <2> QED BY <2>1, <2>2
<1>5. After(st, e) \in State /\ Apply(st, e) = After(st, e)
  BY <1>1, AfterType, ApplyIsAfter
<1> QED BY <1>2, <1>3, <1>4, <1>5 DEF StateOK

LEMMA EmptyOK == StateOK(EmptyState)
<1>1. <<>> \in Refs /\ UniqueKeys(<<>>) /\ Values(<<>>) = <<>>
  BY DEF Refs, UniqueKeys, Values
<1>2. EmptyState \in State
  <2>1. /\ <<>> \in Seq(Files) /\ <<>> \in Seq(Names) /\ <<>> \in Seq(Nat)
        /\ Nothing \in Optional(Names) /\ Nothing \in Optional(Nat) /\ Nothing \in Optional(Files)
    BY DEF Optional
  <2>2. [t \in NoteTypes |-> <<>>] \in [NoteTypes -> Seq(Nat)]
    BY <2>1
  <2> DEFINE none == <<>>
             notes == [t \in NoteTypes |-> <<>>]
  <2> HIDE DEF none, notes
  <2>3. [goal |-> Nothing, working_files |-> none, open_task_refs |-> none, open_tasks |-> none,
         completed_tasks |-> none, notes |-> notes, last_event_id |-> Nothing,
         last_working_file |-> Nothing, event_count |-> 0] \in State
    BY <1>1, <2>1, <2>2 DEF State, none, notes
  <2> QED BY <2>3 DEF EmptyState, none, notes
<1>3. EmptyState.open_task_refs = <<>> /\ EmptyState.open_tasks = <<>>
  BY DEF EmptyState
<1> QED BY <1>1, <1>2, <1>3, Zenon DEF StateOK

LEMMA ReplayOK ==
    ASSUME NEW st, StateOK(st)
    PROVE  \A s \in Seq(Saved) : StateOK(ApplyAll(st, s))
<1> DEFINE S == {s \in Seq(Saved) : StateOK(ApplyAll(st, s))}
<1>1. <<>> \in S
  <2>1. ApplyAll(st, <<>>) = st /\ <<>> \in Seq(Saved)
    BY ApplyAllEmpty
  <2> QED BY <2>1, Zenon
<1>2. ASSUME NEW s \in Seq(Saved), NEW e \in Saved, s \in S PROVE Append(s, e) \in S
  <2>1. Append(s, e) \in Seq(Saved) /\ ApplyAll(st, Append(s, e)) = Apply(ApplyAll(st, s), e)
    BY ApplyAllAppend
  <2>2. StateOK(Apply(ApplyAll(st, s), e))
    BY <1>2, AfterOK
  <2> QED BY <2>1, <2>2
<1> HIDE DEF S
<1>3. \A s \in Seq(Saved) : s \in S
  BY <1>1, <1>2, SeqInduction
<1> QED BY <1>3 DEF S

LEMMA ReplayType ==
    ASSUME NEW st \in State
    PROVE  \A s \in Seq(Saved) : ApplyAll(st, s) \in State
<1> DEFINE S == {s \in Seq(Saved) : ApplyAll(st, s) \in State}
<1>1. <<>> \in S
  <2>1. ApplyAll(st, <<>>) = st /\ <<>> \in Seq(Saved)
    BY ApplyAllEmpty
  <2> QED BY <2>1, Zenon
<1>2. ASSUME NEW s \in Seq(Saved), NEW e \in Saved, s \in S PROVE Append(s, e) \in S
  <2>1. Append(s, e) \in Seq(Saved) /\ ApplyAll(st, Append(s, e)) = Apply(ApplyAll(st, s), e)
    BY ApplyAllAppend
  <2>2. Apply(ApplyAll(st, s), e) \in State
    BY <1>2, AfterType, ApplyIsAfter
  <2> QED BY <2>1, <2>2
<1> HIDE DEF S
<1>3. \A s \in Seq(Saved) : s \in S
  BY <1>1, <1>2, SeqInduction
<1> QED BY <1>3 DEF S

-----------------------------------------------------------------------------
(* compression                                                              *)

\* A log's events carry their position as their id.
Numbered(s) == \A i \in 1..Len(s) : s[i].id = i

LEMMA ChurnIs ==
    ASSUME NEW s \in Seq(Saved), Numbered(s), NEW i \in 1..Len(s)
    PROVE  s[i] \in Churn(s) <=>
             /\ s[i].type = "file_modified"
             /\ \/ s[i].file = Nothing
                \/ \E j \in 1..Len(s) : j > i /\ s[j].type = "file_modified" /\ s[j].file = s[i].file
<1>1. DOMAIN s = 1..Len(s) /\ \A j \in 1..Len(s) : s[j].id = j
  BY DEF Numbered
<1>2. s[i] \in Churn(s) <=>
        /\ s[i].type = "file_modified"
        /\ \/ s[i].file = Nothing
           \/ \E j \in DOMAIN s : s[j].type = "file_modified" /\ s[j].file = s[i].file /\ s[j].id > s[i].id
  BY <1>1 DEF Churn, AsSet
<1> QED BY <1>1, <1>2

\* The files that events behind the n-th modify.
Later(s, n) == {s[j].file : j \in {k \in 1..Len(s) : k > n /\ Modifies(s[k])}}

\* g is what is left of f when modifications of the files in L are missing.
LeftOf(g, f, L) ==
    /\ g.goal = f.goal /\ g.open_task_refs = f.open_task_refs
    /\ g.completed_tasks = f.completed_tasks /\ g.notes = f.notes /\ g.event_count = f.event_count
    /\ g.working_files = Drop(f.working_files, L)
    /\ f.last_working_file \notin L => g.last_working_file = f.last_working_file

LEMMA CompressStep ==
    ASSUME NEW f, StateOK(f), NEW g, StateOK(g), NEW e \in Saved, NEW L,
           LeftOf(g, f, IF Modifies(e) THEN L \cup {e.file} ELSE L)
    PROVE  IF e.type = "file_modified" /\ (e.file = Nothing \/ e.file \in L)
           THEN LeftOf(g, After(f, e), L)
           ELSE LeftOf(After(g, e), After(f, e), L)
<1> DEFINE ff == After(f, e)
           gg == After(g, e)
<1>1. /\ ~Completes(e) => ff.completed_tasks = f.completed_tasks /\ gg.completed_tasks = g.completed_tasks
      /\ ff.open_task_refs = RefsAfter(f.open_task_refs, e)
      /\ gg.open_task_refs = RefsAfter(g.open_task_refs, e)
      /\ ff.event_count = f.event_count /\ gg.event_count = g.event_count
  BY DEF After
<1>2. f.working_files \in Seq(Files)
  BY DEF StateOK, State
<1>3. CASE e.type = "file_modified"
  <2>1. /\ ff.goal = f.goal /\ gg.goal = g.goal
        /\ ff.open_task_refs = f.open_task_refs /\ gg.open_task_refs = g.open_task_refs
        /\ ff.completed_tasks = f.completed_tasks /\ gg.completed_tasks = g.completed_tasks
        /\ ff.notes = f.notes /\ gg.notes = g.notes
    BY <1>3 DEF After, RefsAfter, Completes, NoteTypes
  <2>2. CASE e.file = Nothing
    <3>1. ~Modifies(e) /\ ff.working_files = f.working_files /\ ff.last_working_file = f.last_working_file
      BY <2>2 DEF Modifies, After
    <3> QED BY <1>1, <1>3, <2>1, <2>2, <3>1 DEF LeftOf
  <2>3. CASE e.file # Nothing
    <3>1. /\ Modifies(e) /\ ff.last_working_file = e.file /\ gg.last_working_file = e.file
          /\ ff.working_files = Append(Drop(f.working_files, {e.file}), e.file)
          /\ gg.working_files = Append(Drop(g.working_files, {e.file}), e.file)
      BY <1>3, <2>3 DEF Modifies, After
    <3>2. e.file \in Files
      BY <2>3, EventFields
    <3>3. /\ Drop(f.working_files, {e.file}) \in Seq(Files)
          /\ g.working_files = Drop(f.working_files, L \cup {e.file})
      BY <1>2, <3>1, DropIs DEF LeftOf
    <3>4. Drop(Drop(f.working_files, {e.file}), L) = Drop(f.working_files, L \cup {e.file})
      <4>1. Drop(Drop(f.working_files, {e.file}), L) = Drop(f.working_files, {e.file} \cup L)
        BY <1>2, DropDrop
      <4>2. {e.file} \cup L = L \cup {e.file}
        OBVIOUS
      <4> QED BY <4>1, <4>2, Zenon
    <3>5. Drop(ff.working_files, L)
            = IF e.file \in L THEN Drop(Drop(f.working_files, {e.file}), L)
                              ELSE Append(Drop(Drop(f.working_files, {e.file}), L), e.file)
      <4> DEFINE w == Drop(f.working_files, {e.file})
      <4> HIDE DEF w
      <4>1. Drop(Append(w, e.file), L) = IF e.file \in L THEN Drop(w, L) ELSE Append(Drop(w, L), e.file)
        <5> DEFINE x == e.file
        <5>1. w \in Seq(Files) /\ x \in Files
          BY <3>2, <3>3 DEF w
        <5> HIDE DEF x
        <5>2. Drop(Append(w, x), L) = IF x \in L THEN Drop(w, L) ELSE Append(Drop(w, L), x)
          BY <5>1, DropAppend
        <5> QED BY <5>2 DEF x
      <4>2. ff.working_files = Append(w, e.file)
        BY <3>1 DEF w
      <4> QED BY <4>1, <4>2 DEF w
    <3>6. CASE e.file \in L
      <4>1. g.working_files = Drop(ff.working_files, L)
        BY <3>3, <3>4, <3>5, <3>6
      <4>2. LeftOf(g, ff, L)
        BY <1>1, <2>1, <3>1, <3>6, <4>1 DEF LeftOf
      <4> QED BY <1>3, <3>6, <4>2
    <3>7. CASE e.file \notin L
      <4>1. Drop(g.working_files, {e.file}) = Drop(f.working_files, L \cup {e.file})
        <5>1. Drop(Drop(f.working_files, L \cup {e.file}), {e.file})
                = Drop(f.working_files, (L \cup {e.file}) \cup {e.file})
          BY <1>2, DropDrop
        <5>2. (L \cup {e.file}) \cup {e.file} = L \cup {e.file}
          OBVIOUS
        <5> QED BY <3>3, <5>1, <5>2, Zenon
      <4>2. gg.working_files = Drop(ff.working_files, L)
        BY <3>1, <3>4, <3>5, <3>7, <4>1
      <4>3. LeftOf(gg, ff, L)
        BY <1>1, <2>1, <3>1, <4>2 DEF LeftOf
      <4> QED BY <2>3, <3>7, <4>3
    <3> QED BY <3>6, <3>7
  <2> QED BY <2>2, <2>3
<1>4. CASE e.type # "file_modified"
  <2>1. /\ ~Modifies(e) /\ LeftOf(g, f, L)
    BY <1>4 DEF Modifies
  <2>2. /\ ff.working_files = f.working_files /\ gg.working_files = g.working_files
        /\ ff.last_working_file = f.last_working_file /\ gg.last_working_file = g.last_working_file
    BY <2>1 DEF After
  <2>3. gg.goal = ff.goal /\ gg.completed_tasks = ff.completed_tasks /\ gg.notes = ff.notes
    BY <2>1 DEF After, LeftOf
  <2>4. LeftOf(gg, ff, L)
    BY <1>1, <2>1, <2>2, <2>3 DEF LeftOf
  <2> QED BY <1>4, <2>4
<1> QED BY <1>3, <1>4

\* What compression leaves of a log gives the state that the log gives, but for
\* the last event if that one is dropped.
LEMMA CompressKeeps ==
    ASSUME NEW s \in Seq(Saved), Numbered(s)
    PROVE  LET f == ApplyAll(EmptyState, s)
               g == ApplyAll(EmptyState, Compress(s))
           IN /\ StateOK(f) /\ StateOK(g)
              /\ g.goal = f.goal /\ g.open_task_refs = f.open_task_refs /\ g.open_tasks = f.open_tasks
              /\ g.completed_tasks = f.completed_tasks /\ g.notes = f.notes
              /\ g.event_count = f.event_count /\ g.working_files = f.working_files
              /\ g.last_working_file = f.last_working_file
              /\ s # <<>> /\ s[Len(s)] \notin Churn(s) => g.last_event_id = f.last_event_id
<1> DEFINE N == Len(s)
           C == Churn(s)
           F(n) == ApplyAll(EmptyState, SubSeq(s, 1, n))
           G(n) == ApplyAll(EmptyState, Drop(SubSeq(s, 1, n), C))
           A == {n \in 0..N : LeftOf(G(n), F(n), Later(s, n))}
<1>1. N \in Nat
  OBVIOUS
<1>2. \A n \in 0..N : StateOK(F(n)) /\ StateOK(G(n))
  BY PrefixFacts, DropIs, EmptyOK, ReplayOK
<1>3. ASSUME NEW n \in 0..N, n < N
      PROVE  LET e == s[n + 1]
             IN /\ e \in Saved
                /\ F(n + 1) = After(F(n), e)
                /\ G(n + 1) = IF e \in C THEN G(n) ELSE After(G(n), e)
  <2> DEFINE e == s[n + 1]
             p == SubSeq(s, 1, n)
  <2>1. e \in Saved /\ p \in Seq(Saved) /\ SubSeq(s, 1, n + 1) = Append(p, e)
    BY <1>3, PrefixFacts
  <2> HIDE DEF e, p, C
  <2>2. Drop(p, C) \in Seq(Saved)
    BY <2>1, DropIs
  <2>3. F(n + 1) = After(F(n), e)
    <3>1. ApplyAll(EmptyState, Append(p, e)) = Apply(ApplyAll(EmptyState, p), e)
      BY <2>1, ApplyAllAppend
    <3>2. StateOK(ApplyAll(EmptyState, p))
      BY <2>1, EmptyOK, ReplayOK
    <3> QED BY <2>1, <3>1, <3>2, AfterOK DEF p
  <2>4. Drop(Append(p, e), C) = IF e \in C THEN Drop(p, C) ELSE Append(Drop(p, C), e)
    BY <2>1, DropAppend
  <2>5. ApplyAll(EmptyState, Append(Drop(p, C), e)) = After(ApplyAll(EmptyState, Drop(p, C)), e)
    <3>1. ApplyAll(EmptyState, Append(Drop(p, C), e)) = Apply(ApplyAll(EmptyState, Drop(p, C)), e)
      BY <2>1, <2>2, ApplyAllAppend
    <3>2. StateOK(ApplyAll(EmptyState, Drop(p, C)))
      BY <2>2, EmptyOK, ReplayOK
    <3> QED BY <2>1, <3>1, <3>2, AfterOK
  <2>6. G(n + 1) = IF e \in C THEN G(n) ELSE After(G(n), e)
    BY <2>1, <2>4, <2>5 DEF p
  <2> QED BY <2>1, <2>3, <2>6 DEF e
<1> HIDE DEF F, G
<1>4. 0 \in A
  <2>1. F(0) = EmptyState /\ G(0) = EmptyState
    BY PrefixFacts, ApplyAllEmpty, DropEmpty DEF F, G
  <2>2. EmptyState.working_files = <<>>
    BY DEF EmptyState
  <2>3. LeftOf(EmptyState, EmptyState, Later(s, 0))
    BY <2>2, DropEmpty DEF LeftOf
  <2> QED BY <1>1, <2>1, <2>3
<1>5. ASSUME NEW n \in 0..N, n \in A, n < N PROVE n + 1 \in A
  <2> DEFINE e == s[n + 1]
             L == Later(s, n + 1)
  <2>1. n + 1 \in 1..N /\ n + 1 \in 0..N
    BY <1>1, <1>5
  <2>2. Later(s, n) = IF Modifies(e) THEN L \cup {e.file} ELSE L
    <3>1. \A k \in 1..N : k > n <=> k > n + 1 \/ k = n + 1
      BY <1>1
    <3>2. CASE Modifies(e)
      BY <2>1, <3>1, <3>2 DEF Later
    <3>3. CASE ~Modifies(e)
      BY <2>1, <3>1, <3>3 DEF Later
    <3> QED BY <3>2, <3>3
  <2>3. e \in C <=> e.type = "file_modified" /\ (e.file = Nothing \/ e.file \in L)
    <3>1. e \in C <=> /\ e.type = "file_modified"
                      /\ \/ e.file = Nothing
                         \/ \E j \in 1..N : j > n + 1 /\ s[j].type = "file_modified" /\ s[j].file = e.file
      BY <2>1, ChurnIs
    <3>2. CASE e.file = Nothing
      BY <3>1, <3>2
    <3>3. CASE e.file # Nothing
      <4>1. e.file \in L <=> \E j \in 1..N : j > n + 1 /\ s[j].type = "file_modified" /\ s[j].file = e.file
        BY <3>3 DEF Later, Modifies
      <4> QED BY <3>1, <3>3, <4>1
    <3> QED BY <3>2, <3>3
  <2>4. LeftOf(G(n), F(n), IF Modifies(e) THEN L \cup {e.file} ELSE L)
    BY <1>5, <2>2
  <2> HIDE DEF e, L
  <2>5. e \in Saved
    BY <1>3, <1>5 DEF e
  <2>6. IF e \in C THEN LeftOf(G(n), After(F(n), e), L) ELSE LeftOf(After(G(n), e), After(F(n), e), L)
    BY <1>2, <2>3, <2>4, <2>5, CompressStep
  <2>7. LeftOf(G(n + 1), F(n + 1), L)
    BY <1>3, <1>5, <2>6 DEF e
  <2> QED BY <2>1, <2>7 DEF L
<1>6. N \in A
  <2> HIDE DEF A
  <2>1. \A n \in 0..N : n \in A /\ n < N => n + 1 \in A
    BY <1>5
  <2>2. N \in 0..N
    BY <1>1
  <2> QED BY <1>1, <1>4, <2>1, <2>2, BoundedInduction
<1>7. Later(s, N) = {}
  BY <1>1 DEF Later
<1>8. F(N) = ApplyAll(EmptyState, s) /\ G(N) = ApplyAll(EmptyState, Compress(s))
  BY PrefixFacts DEF F, G, Compress
<1>9. StateOK(F(N)) /\ StateOK(G(N))
  BY <1>1, <1>2
<1>10. LeftOf(G(N), F(N), {}) /\ Drop(F(N).working_files, {}) = F(N).working_files
  <2>1. F(N).working_files \in Seq(Files)
    BY <1>9 DEF StateOK, State
  <2> QED BY <1>6, <1>7, <2>1, DropNone
<1>11. s # <<>> /\ s[N] \notin C => G(N).last_event_id = F(N).last_event_id
  <2> SUFFICES ASSUME s # <<>>, s[N] \notin C PROVE G(N).last_event_id = F(N).last_event_id
    OBVIOUS
  <2>1. N - 1 \in 0..N /\ N - 1 < N /\ (N - 1) + 1 = N
    BY <1>1
  <2>2. F(N) = After(F(N - 1), s[N]) /\ G(N) = After(G(N - 1), s[N])
    BY <1>3, <2>1
  <2> QED BY <2>2 DEF After
<1>12. G(N).open_tasks = F(N).open_tasks
  BY <1>9, <1>10 DEF StateOK, LeftOf
<1> QED BY <1>8, <1>9, <1>10, <1>11, <1>12 DEF LeftOf

\* Every member of a finite set has its rank, and every rank its member.
LEMMA Ranked ==
    ASSUME NEW S \in SUBSET Int, IsFiniteSet(S)
    PROVE  /\ Cardinality(S) \in Nat
           /\ \A n \in 1..Cardinality(S) :
                 /\ Nth(S, n) \in S
                 /\ \A m \in 1..Cardinality(S) : n < m => Nth(S, n) < Nth(S, m)
           /\ \A x \in S : \E n \in 1..Cardinality(S) : Nth(S, n) = x
<1> DEFINE upto(x) == {y \in S : y <= x}
           N == Cardinality(S)
           rank == [x \in S |-> Cardinality(upto(x))]
<1>0. \A x \in S : x \in Int
  OBVIOUS
<1>1. N \in Nat
  BY FS_CardinalityType
<1>2. \A x \in S : IsFiniteSet(upto(x)) /\ Cardinality(upto(x)) \in 1..N
  <2> SUFFICES ASSUME NEW x \in S
               PROVE  IsFiniteSet(upto(x)) /\ Cardinality(upto(x)) \in 1..N
    OBVIOUS
  <2>1. upto(x) \in SUBSET S /\ x \in upto(x)
    OBVIOUS
  <2> HIDE DEF upto
  <2>2. IsFiniteSet(upto(x)) /\ Cardinality(upto(x)) <= N
    BY <2>1, FS_Subset
  <2>3. Cardinality(upto(x)) \in Nat /\ Cardinality(upto(x)) # 0
    BY <2>1, <2>2, FS_CardinalityType, FS_EmptySet
  <2> QED BY <1>1, <2>2, <2>3
<1>3. \A x, y \in S : x < y => Cardinality(upto(x)) < Cardinality(upto(y))
  <2> SUFFICES ASSUME NEW x \in S, NEW y \in S, x < y
               PROVE  Cardinality(upto(x)) < Cardinality(upto(y))
    OBVIOUS
  <2>0. x \in Int /\ y \in Int
    BY <1>0
  <2>0a. \A z \in S : z <= x => z <= y
    BY <1>0, <2>0
  <2>0b. y <= y /\ ~(y <= x)
    BY <2>0
  <2>1. upto(x) \in SUBSET upto(y) /\ y \in upto(y) /\ y \notin upto(x)
    BY <2>0a, <2>0b, Zenon
  <2> HIDE DEF upto, N
  <2>2. Cardinality(upto(x)) <= Cardinality(upto(y))
        /\ Cardinality(upto(x)) # Cardinality(upto(y))
    BY <1>2, <2>1, FS_Subset
  <2>3. Cardinality(upto(x)) \in 1..N /\ Cardinality(upto(y)) \in 1..N
    BY <1>2
  <2> QED BY <1>1, <2>2, <2>3
<1>4. \A x, y \in S : Cardinality(upto(x)) = Cardinality(upto(y)) => x = y
  <2> HIDE DEF upto, N
  <2>1. \A x, y \in S : x \in Int /\ y \in Int
    OBVIOUS
  <2>2. \A x, y \in S : x < y \/ y < x \/ x = y
    BY <2>1
  <2>3. \A x \in S : Cardinality(upto(x)) \in Int
    BY <1>1, <1>2
  <2> QED BY <1>3, <2>2, <2>3
<1>5. \A n \in 1..N : \E x \in S : Cardinality(upto(x)) = n
  <2> HIDE DEF upto
  <2>1. rank \in [S -> 1..N] /\ \A x, y \in S : rank[x] = rank[y] => x = y
    BY <1>2, <1>4
  <2>2. IsFiniteSet(1..N) /\ Cardinality(1..N) = N
    BY <1>1, FS_Interval
  <2>3. rank \in Injection(S, 1..N)
    BY <2>1 DEF Injection, IsInjective
  <2> HIDE DEF rank
  <2>4. rank \in Surjection(S, 1..N)
    BY <2>2, <2>3, FS_Injection
  <2>5. \A n \in 1..N : \E x \in S : rank[x] = n
    BY <2>4 DEF Surjection
  <2> QED BY <2>5 DEF rank
<1>6. \A n \in 1..N : Nth(S, n) \in S /\ Cardinality(upto(Nth(S, n))) = n
  BY <1>5 DEF Nth
<1>7. \A x \in S : Nth(S, Cardinality(upto(x))) = x
  <2> HIDE DEF upto, N
  <2> QED BY <1>2, <1>4, <1>6
<1>8. \A n, m \in 1..N : n < m => Nth(S, n) < Nth(S, m)
  <2> SUFFICES ASSUME NEW n \in 1..N, NEW m \in 1..N, n < m
               PROVE  Nth(S, n) < Nth(S, m)
    OBVIOUS
  <2> HIDE DEF upto, N
  <2>1. Nth(S, n) \in S /\ Nth(S, m) \in S
        /\ Cardinality(upto(Nth(S, n))) = n /\ Cardinality(upto(Nth(S, m))) = m
    BY <1>6
  <2>2. /\ Nth(S, n) \in Int /\ Nth(S, m) \in Int
        /\ n \in Int /\ m \in Int
    <3>1. Nth(S, n) \in Int /\ Nth(S, m) \in Int
      BY <1>0, <2>1, Zenon
    <3>2. \A k \in 1..N : k \in Int
      BY <1>1
    <3> QED BY <3>1, <3>2, Zenon
  <2>3. ~(Nth(S, m) < Nth(S, n)) /\ Nth(S, n) # Nth(S, m)
    BY <1>3, <2>1, <2>2
  <2> QED BY <2>2, <2>3
<1> HIDE DEF upto
<1> QED BY <1>1, <1>2, <1>6, <1>7, <1>8

-----------------------------------------------------------------------------
(* the stored JSON                                                          *)

LEMMA AsSetFinite ==
    ASSUME NEW T, NEW s \in Seq(T)
    PROVE  IsFiniteSet(AsSet(s))
<1>1. Len(s) \in Nat /\ DOMAIN s = 1..Len(s) /\ IsFiniteSet(1..Len(s))
  <2>1. Len(s) \in Nat /\ DOMAIN s = 1..Len(s)
    OBVIOUS
  <2> QED BY <2>1, FS_Interval
<1>2. s \in Surjection(1..Len(s), AsSet(s))
  <2>1. s \in [1..Len(s) -> AsSet(s)]
    BY <1>1 DEF AsSet
  <2>2. \A x \in AsSet(s) : \E i \in 1..Len(s) : s[i] = x
    BY <1>1 DEF AsSet
  <2> QED BY <2>1, <2>2 DEF Surjection
<1> QED BY <1>1, <1>2, FS_Surjection

LEMMA ByNameIs ==
    ASSUME NEW refs \in Refs, UniqueKeys(refs), NEW kind \in {"id", "legacy"}
    PROVE  /\ ByName(refs, kind) \in Refs /\ UniqueKeys(ByName(refs, kind))
           /\ AsSet(ByName(refs, kind)) = {entry \in AsSet(refs) : entry[1][1] = kind}
<1> DEFINE entries == {entry \in AsSet(refs) : entry[1][1] = kind}
           names == {entry[1][2] : entry \in entries}
           N == Cardinality(names)
           Of(n) == CHOOSE entry \in entries : entry[1][2] = Nth(names, n)
           new == [n \in 1..N |-> Of(n)]
<1>1. AsSet(refs) \subseteq Ref \X Names /\ IsFiniteSet(AsSet(refs))
  BY AsSetIn, AsSetFinite DEF Refs
<1>2. \A entry \in entries : /\ entry \in Ref \X Names /\ entry[1] = <<kind, entry[1][2]>>
                             /\ entry[1][2] \in Names
  <2> SUFFICES ASSUME NEW entry \in entries
               PROVE  /\ entry \in Ref \X Names /\ entry[1] = <<kind, entry[1][2]>>
                      /\ entry[1][2] \in Names
    OBVIOUS
  <2>1. entry \in Ref \X Names /\ entry[1][1] = kind
    BY <1>1
  <2>2. entry[1] \in Ref
    BY <2>1, RefPairs
  <2> HIDE DEF entries
  <2> QED BY <2>1, <2>2, RefPairs
<1>3. \A x, y \in entries : x[1] = y[1] => x = y
  BY DEF AsSet, UniqueKeys
<1>4. \A x, y \in entries : x[1][2] = y[1][2] => x = y
  <2> HIDE DEF entries
  <2> QED BY <1>2, <1>3
<1>5. IsFiniteSet(names) /\ names \in SUBSET Int
  <2>1. IsFiniteSet(entries)
    BY <1>1, FS_Subset
  <2> DEFINE f == [entry \in entries |-> entry[1][2]]
  <2>2. f \in Surjection(entries, names)
    <3> HIDE DEF entries
    <3> QED BY DEF Surjection
  <2>3. IsFiniteSet(names)
    <3> HIDE DEF entries, names, f
    <3> QED BY <2>1, <2>2, FS_Surjection
  <2>4. names \subseteq Names
    <3> HIDE DEF entries
    <3> QED BY <1>2
  <2>5. Names \subseteq Int
    BY ReplayConstantsOK
  <2> HIDE DEF names
  <2> QED BY <2>3, <2>4, <2>5
<1>6. /\ N \in Nat
      /\ \A n \in 1..N : Nth(names, n) \in names /\ \A m \in 1..N : n < m => Nth(names, n) < Nth(names, m)
      /\ \A x \in names : \E n \in 1..N : Nth(names, n) = x
  <2> HIDE DEF names
  <2>1. /\ Cardinality(names) \in Nat
        /\ \A n \in 1..Cardinality(names) :
              /\ Nth(names, n) \in names
              /\ \A m \in 1..Cardinality(names) : n < m => Nth(names, n) < Nth(names, m)
        /\ \A x \in names : \E n \in 1..Cardinality(names) : Nth(names, n) = x
    BY <1>5, Ranked, Zenon
  <2> QED BY <2>1
<1>7. \A n \in 1..N : Of(n) \in entries /\ Of(n)[1][2] = Nth(names, n)
  <2> HIDE DEF entries, N
  <2> SUFFICES ASSUME NEW n \in 1..N PROVE Of(n) \in entries /\ Of(n)[1][2] = Nth(names, n)
    OBVIOUS
  <2>1. \E entry \in entries : entry[1][2] = Nth(names, n)
    BY <1>6
  <2> QED BY <2>1
<1>8. ByName(refs, kind) = new
  BY DEF ByName
<1>9. new \in Refs
  <2>1. \A n \in 1..N : Of(n) \in Ref \X Names
    <3> HIDE DEF entries, Of, N
    <3> QED BY <1>2, <1>7
  <2> HIDE DEF N, Of
  <2> QED BY <1>6, <2>1 DEF Refs
<1>10. UniqueKeys(new)
  <2>1. \A n \in 1..N : Nth(names, n) \in Int
    <3> HIDE DEF names, N
    <3> QED BY <1>5, <1>6
  <2>2. \A n, m \in 1..N : n < m => Of(n)[1][2] # Of(m)[1][2]
    <3> HIDE DEF names, N, Of
    <3> QED BY <1>6, <1>7, <2>1
  <2> HIDE DEF N, Of
  <2>3. \A n, m \in 1..N : new[n][1] = new[m][1] => n = m
    BY <1>6, <2>2
  <2> QED BY <2>3 DEF UniqueKeys
<1>11. AsSet(new) = entries
  <2>1. AsSet(new) \subseteq entries
    <3> HIDE DEF entries, N, Of
    <3> QED BY <1>7 DEF AsSet
  <2>2. ASSUME NEW entry \in entries PROVE entry \in AsSet(new)
    <3>1. entry[1][2] \in names
      OBVIOUS
    <3>2. PICK n \in 1..N : Nth(names, n) = entry[1][2]
      <4> HIDE DEF names, N
      <4> QED BY <1>6, <3>1
    <3>3. Of(n) = entry
      <4> HIDE DEF entries, names, N, Of
      <4> QED BY <1>4, <1>7, <2>2, <3>2
    <3>4. new[n] = entry /\ n \in DOMAIN new
      <4> HIDE DEF N, Of
      <4> QED BY <3>3
    <3> HIDE DEF new
    <3> QED BY <3>4 DEF AsSet
  <2> HIDE DEF entries, new
  <2> QED BY <2>1, <2>2
<1> QED BY <1>8, <1>9, <1>10, <1>11, Zenon

LEMMA AsSetConcat ==
    ASSUME NEW T, NEW s \in Seq(T), NEW t \in Seq(T)
    PROVE  AsSet(s \o t) = AsSet(s) \cup AsSet(t)
<1>1. /\ Len(s) \in Nat /\ Len(t) \in Nat /\ DOMAIN s = 1..Len(s) /\ DOMAIN t = 1..Len(t)
      /\ DOMAIN (s \o t) = 1..Len(s) + Len(t)
      /\ \A i \in 1..Len(s) : (s \o t)[i] = s[i]
      /\ \A i \in 1..Len(t) : (s \o t)[Len(s) + i] = t[i]
  OBVIOUS
<1> DEFINE u == s \o t
<1> HIDE DEF u
<1>2. \A i \in 1..Len(s) + Len(t) : i \in 1..Len(s) \/ \E j \in 1..Len(t) : i = Len(s) + j
  <2> SUFFICES ASSUME NEW i \in 1..Len(s) + Len(t), i \notin 1..Len(s)
               PROVE  \E j \in 1..Len(t) : i = Len(s) + j
    OBVIOUS
  <2>1. i - Len(s) \in 1..Len(t) /\ i = Len(s) + (i - Len(s))
    BY <1>1
  <2> QED BY <2>1
<1>3. AsSet(u) \subseteq AsSet(s) \cup AsSet(t)
  <2> DEFINE n == Len(s)
             m == Len(t)
  <2>1. /\ DOMAIN u = 1..n + m /\ DOMAIN s = 1..n /\ DOMAIN t = 1..m
        /\ \A i \in 1..n : u[i] = s[i]
        /\ \A i \in 1..m : u[n + i] = t[i]
        /\ \A i \in 1..n + m : i \in 1..n \/ \E j \in 1..m : i = n + j
    BY <1>1, <1>2 DEF u
  <2> HIDE DEF n, m
  <2>2. ASSUME NEW i \in DOMAIN u PROVE u[i] \in AsSet(s) \cup AsSet(t)
    <3>1. CASE i \in 1..n
      BY <2>1, <3>1 DEF AsSet
    <3>2. CASE \E j \in 1..m : i = n + j
      BY <2>1, <3>2 DEF AsSet
    <3> QED BY <2>1, <2>2, <3>1, <3>2
  <2>3. \A x \in AsSet(u) : \E i \in DOMAIN u : x = u[i]
    BY DEF AsSet
  <2> QED BY <2>2, <2>3
<1>4. AsSet(s) \subseteq AsSet(u)
  BY <1>1 DEF AsSet, u
<1>5. AsSet(t) \subseteq AsSet(u)
  <2>1. \A j \in 1..Len(t) : Len(s) + j \in 1..Len(s) + Len(t)
    BY <1>1
  <2> QED BY <1>1, <2>1 DEF AsSet, u
<1> QED BY <1>3, <1>4, <1>5 DEF u

LEMMA ConcatUnique ==
    ASSUME NEW T, NEW s \in Seq(T), NEW t \in Seq(T), UniqueKeys(s), UniqueKeys(t),
           \A x \in AsSet(s), y \in AsSet(t) : x[1] # y[1]
    PROVE  UniqueKeys(s \o t)
<1>1. /\ Len(s) \in Nat /\ Len(t) \in Nat /\ DOMAIN s = 1..Len(s) /\ DOMAIN t = 1..Len(t)
      /\ DOMAIN (s \o t) = 1..Len(s) + Len(t)
      /\ \A i \in 1..Len(s) : (s \o t)[i] = s[i]
      /\ \A i \in 1..Len(s) + Len(t) : i \notin 1..Len(s) =>
            i - Len(s) \in 1..Len(t) /\ (s \o t)[i] = t[i - Len(s)]
  OBVIOUS
<1> DEFINE u == s \o t
<1> HIDE DEF u
<1>2. \A i \in 1..Len(s), j \in 1..Len(t) : s[i][1] # t[j][1]
  BY <1>1 DEF AsSet
<1>3. SUFFICES ASSUME NEW i \in 1..Len(s) + Len(t), NEW j \in 1..Len(s) + Len(t), u[i][1] = u[j][1]
               PROVE  i = j
  BY <1>1 DEF UniqueKeys, u
<1>4. CASE i \in 1..Len(s) /\ j \in 1..Len(s)
  BY <1>1, <1>3, <1>4 DEF UniqueKeys, u
<1>5. CASE i \in 1..Len(s) /\ j \notin 1..Len(s)
  BY <1>1, <1>2, <1>3, <1>5 DEF u
<1>6. CASE i \notin 1..Len(s) /\ j \in 1..Len(s)
  BY <1>1, <1>2, <1>3, <1>6 DEF u
<1>7. CASE i \notin 1..Len(s) /\ j \notin 1..Len(s)
  <2>1. i - Len(s) = j - Len(s)
    BY <1>1, <1>3, <1>7 DEF UniqueKeys, u
  <2> QED BY <1>1, <2>1
<1> QED BY <1>4, <1>5, <1>6, <1>7

\* Sorting by keys only moves the entries.
LEMMA SortedIs ==
    ASSUME NEW refs \in Refs, UniqueKeys(refs)
    PROVE  Sorted(refs) \in Refs /\ UniqueKeys(Sorted(refs)) /\ AsSet(Sorted(refs)) = AsSet(refs)
<1> DEFINE ids == ByName(refs, "id")
           legacy == ByName(refs, "legacy")
<1>1. /\ ids \in Refs /\ UniqueKeys(ids) /\ AsSet(ids) = {entry \in AsSet(refs) : entry[1][1] = "id"}
  BY ByNameIs
<1>2. /\ legacy \in Refs /\ UniqueKeys(legacy)
      /\ AsSet(legacy) = {entry \in AsSet(refs) : entry[1][1] = "legacy"}
  BY ByNameIs
<1>3. \A entry \in AsSet(refs) : entry[1][1] \in {"id", "legacy"}
  BY AsSetIn, RefPairs DEF Refs
<1> HIDE DEF ids, legacy
<1>4. Sorted(refs) = ids \o legacy
  BY DEF Sorted, ids, legacy
<1>5. ids \o legacy \in Refs
  BY <1>1, <1>2 DEF Refs
<1>6. AsSet(ids \o legacy) = AsSet(refs)
  <2>1. AsSet(ids \o legacy) = AsSet(ids) \cup AsSet(legacy)
    BY <1>1, <1>2, AsSetConcat DEF Refs
  <2> QED BY <1>1, <1>2, <1>3, <2>1
<1>7. UniqueKeys(ids \o legacy)
  <2>1. \A x \in AsSet(ids), y \in AsSet(legacy) : x[1] # y[1]
    BY <1>1, <1>2
  <2> QED BY <1>1, <1>2, <2>1, ConcatUnique DEF Refs
<1> QED BY <1>4, <1>5, <1>6, <1>7

-----------------------------------------------------------------------------
(* from_dict                                                                *)

\* Taking an open task's reference keeps a list of references.
LEMMA TakeType ==
    ASSUME NEW refs \in Refs, NEW stored \in Refs, NEW task \in Names
    PROVE  Take(refs, stored, task) \in Refs
<1> DEFINE free == {i \in DOMAIN stored : stored[i][2] = task /\ ~Has(refs, stored[i][1])}
           first == CHOOSE i \in free : \A j \in free : i <= j
<1>1. CASE free = {}
  <2>1. <<"legacy", Normal[task]>> \in Ref
    BY ReplayConstantsOK, RefPairs
  <2>2. Take(refs, stored, task) = Put(refs, <<"legacy", Normal[task]>>, task)
    BY <1>1 DEF Take
  <2> QED BY <2>1, <2>2, PutOK
<1>2. CASE free # {}
  <2>1. free \in SUBSET Nat
    BY DEF Refs
  <2>2. first \in free
    <3> HIDE DEF free
    <3>1. \E i \in free : \A j \in free : i <= j
      BY <1>2, <2>1, LeastNumber
    <3> QED BY <3>1
  <2>3. stored[first] \in Ref \X Names
    <3> HIDE DEF first
    <3> QED BY <2>2 DEF Refs
  <2>4. Take(refs, stored, task) = Append(refs, stored[first])
    BY <1>2 DEF Take
  <2> HIDE DEF first
  <2> QED BY <2>3, <2>4 DEF Refs
<1> QED BY <1>1, <1>2

LEMMA OrderedType ==
    ASSUME NEW stored \in Refs
    PROVE  \A s \in Seq(Names) : Ordered(stored, s) \in Refs
<1> DEFINE S == {s \in Seq(Names) : Ordered(stored, s) \in Refs}
<1>1. <<>> \in S
  <2>1. Ordered(stored, <<>>) = <<>> /\ <<>> \in Seq(Names) /\ <<>> \in Refs
    BY OrderedEmpty DEF Refs
  <2> QED BY <2>1, Zenon
<1>2. ASSUME NEW s \in Seq(Names), NEW e \in Names, s \in S PROVE Append(s, e) \in S
  <2>1. Append(s, e) \in Seq(Names) /\ Ordered(stored, Append(s, e)) = Take(Ordered(stored, s), stored, e)
    BY OrderedAppend
  <2> QED BY <1>2, <2>1, TakeType
<1> HIDE DEF S
<1>3. \A s \in Seq(Names) : s \in S
  BY <1>1, <1>2, SeqInduction
<1> QED BY <1>3 DEF S

\* What from_dict makes of a stored state, in its references and elsewhere.
LEMMA FromDictIs ==
    ASSUME NEW st, StateOK(st)
    PROVE  LET d == FromDict(Stored(st))
           IN /\ d \in State
              /\ d.goal = st.goal /\ d.working_files = st.working_files /\ d.open_tasks = st.open_tasks
              /\ d.completed_tasks = st.completed_tasks /\ d.notes = st.notes
              /\ d.last_event_id = st.last_event_id /\ d.event_count = st.event_count
              /\ d.last_working_file = st.last_working_file
              /\ d.open_task_refs = Ordered(Sorted(st.open_task_refs), st.open_tasks) \o
                   Drop(Sorted(st.open_task_refs),
                        {entry \in AsSet(Sorted(st.open_task_refs)) :
                            Has(Ordered(Sorted(st.open_task_refs), st.open_tasks), entry[1])})
<1> DEFINE stored == Sorted(st.open_task_refs)
           ordered == Ordered(stored, st.open_tasks)
           rest == Drop(stored, {entry \in AsSet(stored) : Has(ordered, entry[1])})
           d == FromDict(Stored(st))
<1>1. st \in State /\ st.open_task_refs \in Refs /\ st.open_tasks \in Seq(Names) /\ UniqueKeys(st.open_task_refs)
  BY DEF StateOK, State
<1>2. stored \in Refs
  BY <1>1, SortedIs
<1>3. ordered \in Refs
  <2> HIDE DEF stored
  <2> QED BY <1>1, <1>2, OrderedType
<1>4. rest \in Refs
  <2> HIDE DEF stored, ordered
  <2> QED BY <1>2, DropIs DEF Refs
<1>5. ordered \o rest \in Refs
  <2> HIDE DEF ordered, rest
  <2> QED BY <1>3, <1>4 DEF Refs
<1> DEFINE same == [goal |-> st.goal, working_files |-> st.working_files,
                    open_task_refs |-> st.open_task_refs, open_tasks |-> st.open_tasks,
                    completed_tasks |-> st.completed_tasks, notes |-> st.notes,
                    last_event_id |-> st.last_event_id, last_working_file |-> st.last_working_file,
                    event_count |-> st.event_count]
<1>6. st = same
  BY <1>1 DEF State
<1>7. d = [goal |-> st.goal, working_files |-> st.working_files,
           open_task_refs |-> ordered \o rest, open_tasks |-> st.open_tasks,
           completed_tasks |-> st.completed_tasks, notes |-> st.notes,
           last_event_id |-> st.last_event_id, last_working_file |-> st.last_working_file,
           event_count |-> st.event_count]
  <2>1. /\ Stored(st).open_task_refs = stored /\ Stored(st).open_tasks = st.open_tasks
        /\ Stored(st) = [goal |-> st.goal, working_files |-> st.working_files,
                    open_task_refs |-> stored, open_tasks |-> st.open_tasks,
                    completed_tasks |-> st.completed_tasks, notes |-> st.notes,
                    last_event_id |-> st.last_event_id, last_working_file |-> st.last_working_file,
                    event_count |-> st.event_count]
    <3>1. Stored(st) = [same EXCEPT !.open_task_refs = stored]
      BY <1>6, Zenon DEF Stored
    <3> HIDE DEF stored
    <3> QED BY <3>1
  <2>2. d = [Stored(st) EXCEPT !.open_task_refs = ordered \o rest]
    <3>1. d = [Stored(st) EXCEPT !.open_task_refs =
                 Ordered(Stored(st).open_task_refs, Stored(st).open_tasks) \o
                 Drop(Stored(st).open_task_refs,
                      {entry \in AsSet(Stored(st).open_task_refs) :
                          Has(Ordered(Stored(st).open_task_refs, Stored(st).open_tasks), entry[1])})]
      BY DEF FromDict
    <3> HIDE DEF d, stored
    <3> QED BY <2>1, <3>1
  <2> DEFINE want == [goal |-> st.goal, working_files |-> st.working_files,
                      open_task_refs |-> stored, open_tasks |-> st.open_tasks,
                      completed_tasks |-> st.completed_tasks, notes |-> st.notes,
                      last_event_id |-> st.last_event_id, last_working_file |-> st.last_working_file,
                      event_count |-> st.event_count]
  <2> HIDE DEF d, stored, ordered, rest
  <2>3. d = [want EXCEPT !.open_task_refs = ordered \o rest]
    <3>1. Stored(st) = want
      BY <2>1
    <3> HIDE DEF want
    <3> QED BY <2>2, <3>1, Zenon
  <2> QED BY <2>3
<1>8. d \in State
  <2> HIDE DEF d, ordered, rest
  <2> QED BY <1>1, <1>5, <1>7 DEF State
<1> HIDE DEF d
<1>9. d.open_task_refs = ordered \o rest
  BY <1>7
<1> QED BY <1>7, <1>8, <1>9 DEF d

\* If no two open tasks have one label, from_dict finds the order of the open
\* references again that the sorted JSON has lost.
LEMMA FromDictFinds ==
    ASSUME NEW st, StateOK(st), IsInjective(st.open_tasks)
    PROVE  FromDict(Stored(st)).open_task_refs = st.open_task_refs
<1> DEFINE refs == st.open_task_refs
           stored == Sorted(refs)
           N == Len(refs)
           tasks == st.open_tasks
<1>1. /\ refs \in Refs /\ UniqueKeys(refs) /\ tasks = Values(refs) /\ tasks \in Seq(Names)
      /\ stored \in Refs /\ UniqueKeys(stored) /\ AsSet(stored) = AsSet(refs)
  BY SortedIs DEF StateOK, State
<1>2. N \in Nat /\ Len(tasks) = N /\ \A i \in 1..N : tasks[i] = refs[i][2]
  BY <1>1, ValuesOK DEF Refs
<1>3. \A i, j \in 1..N : refs[i][2] = refs[j][2] => i = j
  <2>1. DOMAIN tasks = 1..N
    BY <1>1, <1>2
  <2> HIDE DEF tasks, N
  <2> QED BY <1>2, <2>1 DEF IsInjective, tasks
<1> HIDE DEF stored, tasks
<1> DEFINE P(n) == SubSeq(refs, 1, n)
           A == {n \in 0..N : Ordered(stored, SubSeq(tasks, 1, n)) = P(n)}
<1>4. 0 \in A
  <2>1. SubSeq(tasks, 1, 0) = <<>> /\ P(0) = <<>>
    BY <1>1, PrefixFacts DEF Refs
  <2>2. Ordered(stored, SubSeq(tasks, 1, 0)) = P(0)
    <3> HIDE DEF P
    <3>1. Ordered(stored, <<>>) = <<>>
      BY OrderedEmpty
    <3> QED BY <2>1, <3>1, Zenon
  <2>3. 0 \in 0..N
    BY <1>2
  <2> QED BY <2>2, <2>3, Zenon
<1>5. ASSUME NEW n \in 0..N, n \in A, n < N PROVE n + 1 \in A
  <2> DEFINE e == refs[n + 1]
             p == P(n)
             free == {i \in DOMAIN stored : stored[i][2] = e[2] /\ ~Has(p, stored[i][1])}
             first == CHOOSE i \in free : \A j \in free : i <= j
  <2>1. /\ n + 1 \in 1..N /\ n + 1 \in 0..N /\ e \in Ref \X Names /\ e[2] \in Names
        /\ p \in Refs /\ P(n + 1) = Append(p, e)
        /\ Len(p) = n /\ \A i \in 1..n : p[i] = refs[i]
    <3>1. n + 1 \in 1..N /\ n + 1 \in 0..N
      BY <1>2, <1>5
    <3>2. e \in Ref \X Names /\ p \in Refs /\ P(n + 1) = Append(p, e)
          /\ Len(p) = n /\ \A i \in 1..n : p[i] = refs[i]
      BY <1>1, <1>5, PrefixFacts DEF Refs
    <3> HIDE DEF P, e, p
    <3>3. e[2] \in Names
      BY <3>2, RefPairs
    <3> QED BY <3>1, <3>2, <3>3
  <2>2. SubSeq(tasks, 1, n + 1) = Append(SubSeq(tasks, 1, n), e[2]) /\ SubSeq(tasks, 1, n) \in Seq(Names)
    <3>1. tasks[n + 1] = e[2] /\ n \in 0..Len(tasks) /\ n < Len(tasks)
      BY <1>2, <1>5, <2>1
    <3>2. /\ SubSeq(tasks, 1, n + 1) = Append(SubSeq(tasks, 1, n), tasks[n + 1])
          /\ SubSeq(tasks, 1, n) \in Seq(Names)
      BY <1>1, <3>1, PrefixFacts
    <3> HIDE DEF e
    <3> QED BY <3>1, <3>2
  <2>3. Ordered(stored, SubSeq(tasks, 1, n + 1)) = Take(p, stored, e[2])
    <3> DEFINE q == SubSeq(tasks, 1, n)
               x == e[2]
    <3>1. q \in Seq(Names) /\ x \in Names /\ Ordered(stored, q) = p
      BY <1>5, <2>1, <2>2
    <3> HIDE DEF q, x
    <3>2. Ordered(stored, Append(q, x)) = Take(Ordered(stored, q), stored, x)
      BY <3>1, OrderedAppend
    <3> QED BY <2>2, <3>1, <3>2 DEF q, x
  <2>4. ~Has(p, e[1])
    <3>1. \A i \in 1..n : refs[i][1] # e[1]
      <4>1. \A i \in 1..n : i \in DOMAIN refs /\ n + 1 \in DOMAIN refs /\ i # n + 1
        BY <1>1, <1>2, <1>5 DEF Refs
      <4> QED BY <1>1, <4>1 DEF UniqueKeys
    <3>2. DOMAIN p = 1..n
      BY <1>2, <2>1 DEF Refs
    <3> HIDE DEF p, e
    <3> QED BY <2>1, <3>1, <3>2 DEF Has
  <2>5. \A x \in AsSet(stored) : x[2] = e[2] => x = e
    <3> SUFFICES ASSUME NEW x \in AsSet(stored), x[2] = e[2] PROVE x = e
      OBVIOUS
    <3>1. \A y \in AsSet(refs) : \E i \in 1..N : y = refs[i]
      BY <1>1 DEF AsSet, Refs
    <3>2. PICK i \in 1..N : x = refs[i]
      BY <1>1, <3>1
    <3>3. refs[i][2] = refs[n + 1][2]
      BY <3>2
    <3>4. i = n + 1
      <4> HIDE DEF refs, N
      <4> QED BY <1>3, <2>1, <3>3
    <3> QED BY <3>2, <3>4
  <2>6. \A i \in free : stored[i] = e
    BY <2>5 DEF AsSet
  <2>7. free # {} /\ free \subseteq Nat
    <3>1. e \in AsSet(refs)
      BY <1>1, <2>1 DEF AsSet, Refs
    <3>2. PICK i \in DOMAIN stored : stored[i] = e
      BY <1>1, <3>1 DEF AsSet
    <3>3. i \in free
      BY <2>4, <3>2
    <3>4. DOMAIN stored \subseteq Nat
      BY <1>1 DEF Refs
    <3> QED BY <3>3, <3>4
  <2>8. first \in free
    <3> HIDE DEF free
    <3>1. \E i \in free : \A j \in free : i <= j
      BY <2>7, LeastNumber
    <3> QED BY <3>1
  <2>9. Take(p, stored, e[2]) = Append(p, stored[first])
    <3> HIDE DEF p, e
    <3> QED BY <2>7 DEF Take
  <2> HIDE DEF free, first, e
  <2> QED BY <2>1, <2>2, <2>3, <2>6, <2>8, <2>9
<1>6. N \in A
  <2> HIDE DEF A, N
  <2>1. \A n \in 0..N : n \in A /\ n < N => n + 1 \in A
    BY <1>5
  <2>2. N \in 0..N
    BY <1>2
  <2> QED BY <1>2, <1>4, <2>1, <2>2, BoundedInduction
<1>7. Ordered(stored, tasks) = refs
  <2>1. P(N) = refs /\ SubSeq(tasks, 1, N) = tasks
    BY <1>1, <1>2, PrefixFacts DEF Refs
  <2> QED BY <1>6, <2>1
<1>8. Drop(stored, {entry \in AsSet(stored) : Has(refs, entry[1])}) = <<>>
  <2> DEFINE D == {entry \in AsSet(stored) : Has(refs, entry[1])}
  <2>1. AsSet(stored) \subseteq D
    BY <1>1, HasIs
  <2> HIDE DEF D
  <2>2. Drop(stored, D) = <<>>
    BY <1>1, <2>1, DropAll DEF Refs
  <2> QED BY <2>2 DEF D
<1>9. refs \o <<>> = refs
  BY <1>1 DEF Refs
<1> HIDE DEF refs
<1>10. FromDict(Stored(st)).open_task_refs = Ordered(stored, tasks) \o
         Drop(stored, {entry \in AsSet(stored) : Has(Ordered(stored, tasks), entry[1])})
  BY FromDictIs DEF stored, tasks, refs
<1> QED BY <1>7, <1>8, <1>9, <1>10 DEF refs


-----------------------------------------------------------------------------
(* the events behind a snapshot                                             *)

LEMMA AppendUniqueType ==
    ASSUME NEW T, NEW L \in Seq(T), NEW R \in Seq(T)
    PROVE  AppendUnique(L, R) \in Seq(T) /\ AsSet(AppendUnique(L, R)) = AsSet(L) \cup AsSet(R)
<1> DEFINE K == AsSet(L)
           D == Drop(R, K)
<1>1. D \in Seq(T) /\ AsSet(D) = AsSet(R) \ K
  BY DropIs
<1> HIDE DEF D
<1>2. AsSet(L \o D) = AsSet(L) \cup AsSet(D) /\ L \o D \in Seq(T)
  BY <1>1, AsSetConcat
<1> QED BY <1>1, <1>2 DEF AppendUnique, D

LEMMA ConcatAppend ==
    ASSUME NEW T, NEW L \in Seq(T), NEW R \in Seq(T), NEW e \in T
    PROVE  L \o Append(R, e) = Append(L \o R, e)
OBVIOUS

\* One more label on the right.
LEMMA AppendUniqueStep ==
    ASSUME NEW T, NEW L \in Seq(T), NEW R \in Seq(T), NEW e \in T
    PROVE  AppendUnique(L, Append(R, e)) = IF e \in AsSet(L) THEN AppendUnique(L, R)
                                                             ELSE Append(AppendUnique(L, R), e)
<1> DEFINE K == AsSet(L)
           D == Drop(R, K)
<1> HIDE DEF K
<1>1. D \in Seq(T) /\ Drop(Append(R, e), K) = IF e \in K THEN D ELSE Append(D, e)
  <2>1. D \in Seq(T)
    BY DropIs
  <2>2. Drop(Append(R, e), K) = IF e \in K THEN D ELSE Append(D, e)
    BY DropAppend
  <2> QED BY <2>1, <2>2
<1> HIDE DEF D
<1>2. L \o Append(D, e) = Append(L \o D, e)
  BY <1>1, ConcatAppend
<1>3. AppendUnique(L, R) = L \o D /\ AppendUnique(L, Append(R, e)) = L \o Drop(Append(R, e), K)
  BY DEF AppendUnique, D, K
<1> QED BY <1>1, <1>2, <1>3 DEF K

\* x is the replay on top of the stored state, y the one of the events behind it
\* alone and f that of the whole log; f0 is the state at the cut.
Along(x, y, f, f0) ==
    /\ x.goal = f.goal /\ (f.goal = Nothing => f0.goal = Nothing)
    /\ x.working_files = f.working_files
    /\ x.last_working_file = f.last_working_file
    /\ f.last_working_file = Nothing => f0.last_working_file = Nothing
    /\ AppendUnique(f0.completed_tasks, y.completed_tasks) = f.completed_tasks
    /\ \A t \in NoteTypes : f.notes[t] = f0.notes[t] \o y.notes[t]

LEMMA AlongStep ==
    ASSUME NEW x \in State, NEW y \in State, NEW f \in State, NEW f0 \in State, NEW e \in Saved,
           Along(x, y, f, f0)
    PROVE  Along(After(x, e), After(y, e), After(f, e), f0)
<1> DEFINE xx == After(x, e)
           yy == After(y, e)
           ff == After(f, e)
           L == f0.completed_tasks
           R == y.completed_tasks
           label == TaskLabel(e)
<1>1. e.file # Nothing => e.file \in Files /\ e.file # Nothing
  BY EventFields
<1>2. xx.goal = ff.goal /\ (ff.goal = Nothing => f0.goal = Nothing)
  BY DEF Along, After
<1>3. xx.working_files = ff.working_files
  BY DEF Along, After
<1>4. /\ xx.last_working_file = ff.last_working_file
      /\ ff.last_working_file = Nothing => f0.last_working_file = Nothing
  BY DEF Along, After, Modifies
<1>5. AppendUnique(L, yy.completed_tasks) = ff.completed_tasks
  <2>1. L \in Seq(Names) /\ R \in Seq(Names) /\ AppendUnique(L, R) = f.completed_tasks
    BY DEF State, Along
  <2>2. AsSet(f.completed_tasks) = AsSet(L) \cup AsSet(R)
    BY <2>1, AppendUniqueType
  <2>3. CASE ~Completes(e)
    <3>1. yy.completed_tasks = R /\ ff.completed_tasks = f.completed_tasks
      BY <2>3 DEF After
    <3> QED BY <2>1, <3>1
  <2>4. CASE Completes(e)
    <3>1. label \in Names
      BY <2>4, EventFields DEF Completes
    <3>2. /\ yy.completed_tasks = IF label \in AsSet(R) THEN R ELSE Append(R, label)
          /\ ff.completed_tasks = IF label \in AsSet(f.completed_tasks) THEN f.completed_tasks
                                  ELSE Append(f.completed_tasks, label)
      BY <2>4 DEF After
    <3> HIDE DEF yy, ff, L, R, label
    <3>3. AppendUnique(L, Append(R, label)) = IF label \in AsSet(L) THEN AppendUnique(L, R)
                                              ELSE Append(AppendUnique(L, R), label)
      BY <2>1, <3>1, AppendUniqueStep
    <3>4. CASE label \in AsSet(R)
      BY <2>1, <2>2, <3>2, <3>4
    <3>5. CASE label \notin AsSet(R)
      BY <2>1, <2>2, <3>2, <3>3, <3>5
    <3> QED BY <3>4, <3>5
  <2> QED BY <2>3, <2>4
<1>6. ASSUME NEW t \in NoteTypes PROVE ff.notes[t] = f0.notes[t] \o yy.notes[t]
  <2>1. /\ f0.notes[t] \in Seq(Nat) /\ y.notes[t] \in Seq(Nat) /\ f.notes[t] = f0.notes[t] \o y.notes[t]
        /\ e.id \in Nat
    BY EventFields DEF State, Along
  <2>2. CASE e.type = t
    <3>1. ff.notes[t] = Append(f.notes[t], e.id) /\ yy.notes[t] = Append(y.notes[t], e.id)
      BY <2>2 DEF After, State
    <3> DEFINE l == f0.notes[t]
               r == y.notes[t]
               i == e.id
    <3>2. l \o Append(r, i) = Append(l \o r, i)
      <4>1. l \in Seq(Nat) /\ r \in Seq(Nat) /\ i \in Nat
        BY <2>1
      <4> HIDE DEF l, r, i
      <4> QED BY <4>1, ConcatAppend
    <3> QED BY <2>1, <3>1, <3>2
  <2>3. CASE e.type # t
    <3>1. ff.notes[t] = f.notes[t] /\ yy.notes[t] = y.notes[t]
      BY <2>3 DEF After, State
    <3> QED BY <2>1, <3>1
  <2> QED BY <2>2, <2>3
<1> QED BY <1>2, <1>3, <1>4, <1>5, <1>6 DEF Along

\* The log behind the cut, event by event.
Behind(s, cut) == SubSeq(s, cut + 1, Len(s))

LEMMA SuffixFacts ==
    ASSUME NEW T, NEW s \in Seq(T), NEW cut \in 0..Len(s)
    PROVE  /\ Behind(s, cut) \in Seq(T) /\ Len(Behind(s, cut)) = Len(s) - cut
           /\ (Behind(s, cut) = <<>>) <=> cut = Len(s)
           /\ \A n \in 0..Len(Behind(s, cut)) : n < Len(Behind(s, cut)) =>
                 /\ s[cut + n + 1] \in T
                 /\ SubSeq(Behind(s, cut), 1, n) \in Seq(T) /\ SubSeq(s, 1, cut + n) \in Seq(T)
                 /\ SubSeq(Behind(s, cut), 1, n + 1) = Append(SubSeq(Behind(s, cut), 1, n), s[cut + n + 1])
                 /\ SubSeq(s, 1, cut + n + 1) = Append(SubSeq(s, 1, cut + n), s[cut + n + 1])
<1> DEFINE b == Behind(s, cut)
<1>1. /\ b \in Seq(T) /\ Len(b) = Len(s) - cut /\ Len(b) \in Nat
      /\ \A i \in 1..Len(b) : b[i] = s[cut + i]
  BY DEF Behind
<1>2. (b = <<>>) <=> cut = Len(s)
  <2>1. cut = Len(s) <=> Len(b) = 0
    BY <1>1
  <2> HIDE DEF b
  <2>2. b = <<>> <=> Len(b) = 0
    BY <1>1
  <2> QED BY <2>1, <2>2
<1> HIDE DEF b
<1>4. ASSUME NEW n \in 0..Len(b), n < Len(b)
      PROVE  /\ s[cut + n + 1] \in T
             /\ SubSeq(b, 1, n) \in Seq(T) /\ SubSeq(s, 1, cut + n) \in Seq(T)
             /\ SubSeq(b, 1, n + 1) = Append(SubSeq(b, 1, n), s[cut + n + 1])
             /\ SubSeq(s, 1, cut + n + 1) = Append(SubSeq(s, 1, cut + n), s[cut + n + 1])
  <2> DEFINE m == cut + n
  <2>1. m \in 0..Len(s) /\ m < Len(s) /\ n + 1 \in 1..Len(b) /\ cut + (n + 1) = m + 1
        /\ cut + n + 1 = m + 1
    BY <1>1, <1>4
  <2>2. b[n + 1] = s[m + 1]
    BY <1>1, <2>1
  <2>3. SubSeq(b, 1, n) \in Seq(T) /\ SubSeq(b, 1, n + 1) = Append(SubSeq(b, 1, n), b[n + 1])
    BY <1>1, <1>4, PrefixFacts
  <2> HIDE DEF m
  <2>4. s[m + 1] \in T /\ SubSeq(s, 1, m) \in Seq(T)
        /\ SubSeq(s, 1, m + 1) = Append(SubSeq(s, 1, m), s[m + 1])
    BY <2>1, PrefixFacts
  <2> QED BY <2>1, <2>2, <2>3, <2>4 DEF m
<1> QED BY <1>1, <1>2, <1>4 DEF b

\* The labels completed in the first n events behind the cut.
Done(s, cut, n) ==
    {TaskLabel(s[i]) : i \in {j \in cut + 1..cut + n : Completes(s[j])}}

LEMMA DoneStep ==
    ASSUME NEW s, NEW cut \in Nat, NEW n \in Nat
    PROVE  Done(s, cut, n + 1) = IF Completes(s[cut + n + 1])
                                 THEN Done(s, cut, n) \cup {TaskLabel(s[cut + n + 1])}
                                 ELSE Done(s, cut, n)
<1>1. \A j : j \in cut + 1..cut + (n + 1) <=> j \in cut + 1..cut + n \/ j = cut + n + 1
  OBVIOUS
<1>2. CASE Completes(s[cut + n + 1])
  BY <1>1, <1>2 DEF Done
<1>3. CASE ~Completes(s[cut + n + 1])
  BY <1>1, <1>3 DEF Done
<1> QED BY <1>2, <1>3

\* From a state x that agrees with that at the cut, the replays of the events
\* behind it keep abreast of that of the whole log.
LEMMA Abreast ==
    ASSUME NEW s \in Seq(Saved), NEW cut \in 0..Len(s), NEW x \in State,
           LET f0 == ApplyAll(EmptyState, SubSeq(s, 1, cut))
           IN /\ x.goal = f0.goal /\ x.working_files = f0.working_files
              /\ x.last_working_file = f0.last_working_file
    PROVE  LET b == Behind(s, cut)
               f0 == ApplyAll(EmptyState, SubSeq(s, 1, cut))
               f == ApplyAll(EmptyState, s)
               y == ApplyAll(EmptyState, b)
               z == ApplyAll(x, b)
           IN /\ StateOK(f0) /\ StateOK(f) /\ StateOK(y) /\ z \in State
              /\ Along(z, y, f, f0)
              /\ b # <<>> => z.last_event_id = f.last_event_id /\ z.last_event_id \in Nat
              /\ x.open_task_refs = f0.open_task_refs => z.open_task_refs = f.open_task_refs
              /\ AsSet(y.completed_tasks) = Done(s, cut, Len(b))
              /\ f.event_count = f0.event_count
<1> DEFINE b == Behind(s, cut)
           N == Len(b)
           F(n) == ApplyAll(EmptyState, SubSeq(s, 1, cut + n))
           Y(n) == ApplyAll(EmptyState, SubSeq(b, 1, n))
           Z(n) == ApplyAll(x, SubSeq(b, 1, n))
           e(n) == s[cut + n + 1]
<1>1. b \in Seq(Saved) /\ N \in Nat /\ N = Len(s) - cut /\ ((b = <<>>) <=> cut = Len(s))
  BY SuffixFacts
<1>2. \A n \in 0..N : SubSeq(b, 1, n) \in Seq(Saved) /\ SubSeq(s, 1, cut + n) \in Seq(Saved)
  <2>1. \A n \in 0..N : cut + n \in 0..Len(s)
    BY <1>1
  <2>2. \A n \in 0..N : SubSeq(b, 1, n) \in Seq(Saved)
    BY <1>1, PrefixFacts
  <2> QED BY <2>1, <2>2, PrefixFacts
<1>3. \A n \in 0..N : StateOK(F(n)) /\ StateOK(Y(n)) /\ Z(n) \in State
  <2> QED BY <1>2, EmptyOK, ReplayOK, ReplayType
<1>4. \A n \in 0..N : F(n) \in State /\ Y(n) \in State
  BY <1>3 DEF StateOK
<1>5. ASSUME NEW n \in 0..N, n < N
      PROVE  /\ e(n) \in Saved
             /\ F(n + 1) = After(F(n), e(n)) /\ Y(n + 1) = After(Y(n), e(n))
             /\ Z(n + 1) = After(Z(n), e(n))
  <2> DEFINE p == SubSeq(s, 1, cut + n)
             q == SubSeq(b, 1, n)
             a == e(n)
  <2>1. /\ a \in Saved /\ p \in Seq(Saved) /\ q \in Seq(Saved)
        /\ SubSeq(b, 1, n + 1) = Append(q, a) /\ SubSeq(s, 1, cut + n + 1) = Append(p, a)
    <3>1. \A k \in 0..Len(b) : k < Len(b) =>
            /\ s[cut + k + 1] \in Saved
            /\ SubSeq(b, 1, k) \in Seq(Saved) /\ SubSeq(s, 1, cut + k) \in Seq(Saved)
            /\ SubSeq(b, 1, k + 1) = Append(SubSeq(b, 1, k), s[cut + k + 1])
            /\ SubSeq(s, 1, cut + k + 1) = Append(SubSeq(s, 1, cut + k), s[cut + k + 1])
      BY SuffixFacts
    <3> QED BY <1>5, <3>1
  <2>2. cut + (n + 1) = cut + n + 1
    BY <1>1, <1>5
  <2> HIDE DEF p, q, a
  <2>3. /\ ApplyAll(EmptyState, Append(p, a)) = Apply(ApplyAll(EmptyState, p), a)
        /\ ApplyAll(EmptyState, Append(q, a)) = Apply(ApplyAll(EmptyState, q), a)
        /\ ApplyAll(x, Append(q, a)) = Apply(ApplyAll(x, q), a)
    BY <2>1, ApplyAllAppend
  <2>4. /\ ApplyAll(EmptyState, p) \in State /\ ApplyAll(EmptyState, q) \in State
        /\ ApplyAll(x, q) \in State
    BY <1>3, <1>4, <1>5 DEF p, q
  <2>5. /\ Apply(ApplyAll(EmptyState, p), a) = After(ApplyAll(EmptyState, p), a)
        /\ Apply(ApplyAll(EmptyState, q), a) = After(ApplyAll(EmptyState, q), a)
        /\ Apply(ApplyAll(x, q), a) = After(ApplyAll(x, q), a)
    BY <2>1, <2>4, ApplyIsAfter
  <2> QED BY <2>1, <2>2, <2>3, <2>5 DEF p, q, a
<1>6. /\ F(0) = ApplyAll(EmptyState, SubSeq(s, 1, cut)) /\ Y(0) = EmptyState /\ Z(0) = x
      /\ F(N) = ApplyAll(EmptyState, s) /\ Y(N) = ApplyAll(EmptyState, b) /\ Z(N) = ApplyAll(x, b)
  <2>1. cut + 0 = cut /\ cut + N = Len(s)
    BY <1>1
  <2>2. SubSeq(b, 1, 0) = <<>> /\ SubSeq(b, 1, N) = b /\ SubSeq(s, 1, Len(s)) = s
    BY <1>1, PrefixFacts
  <2>3. ApplyAll(EmptyState, <<>>) = EmptyState /\ ApplyAll(x, <<>>) = x
    BY ApplyAllEmpty
  <2> QED BY <2>1, <2>2, <2>3, Zenon
<1> HIDE DEF N, F, Y, Z, e
<1> DEFINE Good(n) == /\ Along(Z(n), Y(n), F(n), F(0))
                      /\ x.open_task_refs = F(0).open_task_refs =>
                            Z(n).open_task_refs = F(n).open_task_refs
                      /\ AsSet(Y(n).completed_tasks) = Done(s, cut, n)
                      /\ F(n).event_count = F(0).event_count
           A == {n \in 0..N : Good(n)}
<1>7. 0 \in A
  <2>1. F(0) \in State /\ 0 \in 0..N
    BY <1>1, <1>4
  <2>2. /\ Y(0).completed_tasks = <<>> /\ \A t \in NoteTypes : Y(0).notes[t] = <<>>
    BY <1>6 DEF EmptyState
  <2>3. /\ AppendUnique(F(0).completed_tasks, <<>>) = F(0).completed_tasks
        /\ \A t \in NoteTypes : F(0).notes[t] \o <<>> = F(0).notes[t]
    <3>1. /\ F(0).completed_tasks \in Seq(Names) /\ \A t \in NoteTypes : F(0).notes[t] \in Seq(Nat)
      BY <2>1 DEF State
    <3>2. Drop(<<>>, AsSet(F(0).completed_tasks)) = <<>>
      BY DropEmpty
    <3>3. AppendUnique(F(0).completed_tasks, <<>>) = F(0).completed_tasks \o <<>>
      BY <3>2, Zenon DEF AppendUnique
    <3>4. \A q \in Seq(Names) : q \o <<>> = q
      OBVIOUS
    <3>5. \A q \in Seq(Nat) : q \o <<>> = q
      OBVIOUS
    <3> QED BY <3>1, <3>3, <3>4, <3>5, Zenon
  <2>4. Along(Z(0), Y(0), F(0), F(0))
    <3>1. x.goal = F(0).goal /\ x.working_files = F(0).working_files
          /\ x.last_working_file = F(0).last_working_file
      BY <1>6
    <3> QED BY <1>6, <2>2, <2>3, <3>1, Zenon DEF Along
  <2>5. AsSet(Y(0).completed_tasks) = Done(s, cut, 0)
    <3>1. cut + 1..cut + 0 = {}
      OBVIOUS
    <3>2. Done(s, cut, 0) = {}
      BY <3>1 DEF Done
    <3> QED BY <2>2, <3>2, AsSetEmpty, Zenon
  <2> QED BY <1>6, <2>1, <2>4, <2>5
<1>8. ASSUME NEW n \in 0..N, n \in A, n < N PROVE n + 1 \in A
  <2> DEFINE a == e(n)
  <2>1. /\ a \in Saved /\ F(n + 1) = After(F(n), a) /\ Y(n + 1) = After(Y(n), a)
        /\ Z(n + 1) = After(Z(n), a)
    BY <1>5, <1>8
  <2>2. 0 \in 0..N /\ n + 1 \in 0..N /\ n \in Nat
    BY <1>1, <1>8
  <2>3. F(0) \in State /\ F(n) \in State /\ Y(n) \in State /\ Z(n) \in State /\ Good(n)
    BY <1>3, <1>4, <1>8, <2>2
  <2>4. Along(Z(n + 1), Y(n + 1), F(n + 1), F(0))
    BY <2>1, <2>3, AlongStep
  <2>5. x.open_task_refs = F(0).open_task_refs => Z(n + 1).open_task_refs = F(n + 1).open_task_refs
    BY <2>1, <2>3 DEF After
  <2>6. F(n + 1).event_count = F(0).event_count
    BY <2>1, <2>3 DEF After
  <2>7. AsSet(Y(n + 1).completed_tasks) = Done(s, cut, n + 1)
    <3>1. Done(s, cut, n + 1) = IF Completes(a) THEN Done(s, cut, n) \cup {TaskLabel(a)}
                                ELSE Done(s, cut, n)
      <4>1. cut \in Nat
        OBVIOUS
      <4>2. Done(s, cut, n + 1) = IF Completes(s[cut + n + 1])
                                  THEN Done(s, cut, n) \cup {TaskLabel(s[cut + n + 1])}
                                  ELSE Done(s, cut, n)
        BY <2>2, <4>1, DoneStep
      <4> QED BY <4>2 DEF e
    <3>2. Y(n).completed_tasks \in Seq(Names) /\ AsSet(Y(n).completed_tasks) = Done(s, cut, n)
      BY <2>3 DEF State
    <3> HIDE DEF a
    <3>3. CASE Completes(a)
      <4>1. TaskLabel(a) \in Names
        BY <2>1, <3>3, EventFields DEF Completes
      <4>2. AsSet(Append(Y(n).completed_tasks, TaskLabel(a)))
              = AsSet(Y(n).completed_tasks) \cup {TaskLabel(a)}
        BY <3>2, <4>1, AsSetAppend
      <4>3. Y(n + 1).completed_tasks = IF TaskLabel(a) \notin AsSet(Y(n).completed_tasks)
              THEN Append(Y(n).completed_tasks, TaskLabel(a)) ELSE Y(n).completed_tasks
        <5>1. After(Y(n), a).completed_tasks = IF TaskLabel(a) \notin AsSet(Y(n).completed_tasks)
                THEN Append(Y(n).completed_tasks, TaskLabel(a)) ELSE Y(n).completed_tasks
          BY <3>3 DEF After
        <5> QED BY <2>1, <5>1
      <4> QED BY <3>1, <3>2, <3>3, <4>2, <4>3
    <3>4. CASE ~Completes(a)
      <4>1. Y(n + 1).completed_tasks = Y(n).completed_tasks
        BY <2>1, <3>4 DEF After
      <4> QED BY <3>1, <3>2, <3>4, <4>1
    <3> QED BY <3>3, <3>4
  <2> QED BY <2>2, <2>4, <2>5, <2>6, <2>7
<1>9. N \in A
  <2> HIDE DEF A
  <2>1. \A n \in 0..N : n \in A /\ n < N => n + 1 \in A
    BY <1>8
  <2>2. N \in 0..N
    BY <1>1
  <2> QED BY <1>1, <1>7, <2>1, <2>2, BoundedInduction
<1>10. b # <<>> => Z(N).last_event_id = F(N).last_event_id /\ Z(N).last_event_id \in Nat
  <2> SUFFICES ASSUME b # <<>> PROVE Z(N).last_event_id = F(N).last_event_id /\ Z(N).last_event_id \in Nat
    OBVIOUS
  <2>1. N - 1 \in 0..N /\ N - 1 < N /\ (N - 1) + 1 = N
    BY <1>1
  <2>2. /\ F(N) = After(F(N - 1), e(N - 1)) /\ Z(N) = After(Z(N - 1), e(N - 1))
        /\ e(N - 1) \in Saved
    BY <1>5, <2>1
  <2> QED BY <2>2 DEF After, Saved
<1>11. StateOK(F(0)) /\ StateOK(F(N)) /\ StateOK(Y(N)) /\ Z(N) \in State /\ Good(N)
  BY <1>1, <1>3, <1>9
<1> QED BY <1>6, <1>10, <1>11 DEF b, N

-----------------------------------------------------------------------------
(* resuming                                                                 *)

LEMMA WithCount ==
    ASSUME NEW st \in State, NEW n
    PROVE  [st EXCEPT !.event_count = n]
             = [goal |-> st.goal, working_files |-> st.working_files,
                open_task_refs |-> st.open_task_refs, open_tasks |-> st.open_tasks,
                completed_tasks |-> st.completed_tasks, notes |-> st.notes,
                last_event_id |-> st.last_event_id, last_working_file |-> st.last_working_file,
                event_count |-> n]
<1> DEFINE same == [goal |-> st.goal, working_files |-> st.working_files,
           open_task_refs |-> st.open_task_refs, open_tasks |-> st.open_tasks,
           completed_tasks |-> st.completed_tasks, notes |-> st.notes,
           last_event_id |-> st.last_event_id, last_working_file |-> st.last_working_file,
           event_count |-> st.event_count]
<1>1. st = same
  BY DEF State
<1>2. [same EXCEPT !.event_count = n]
        = [goal |-> st.goal, working_files |-> st.working_files,
           open_task_refs |-> st.open_task_refs, open_tasks |-> st.open_tasks,
           completed_tasks |-> st.completed_tasks, notes |-> st.notes,
           last_event_id |-> st.last_event_id, last_working_file |-> st.last_working_file,
           event_count |-> n]
  OBVIOUS
<1> QED BY <1>1, <1>2, Zenon

LEMMA CountOK ==
    ASSUME NEW st, StateOK(st), NEW n \in Nat
    PROVE  StateOK([st EXCEPT !.event_count = n])
<1> DEFINE c == [st EXCEPT !.event_count = n]
<1>1. st \in State
  BY DEF StateOK
<1>2. c = [goal |-> st.goal, working_files |-> st.working_files,
           open_task_refs |-> st.open_task_refs, open_tasks |-> st.open_tasks,
           completed_tasks |-> st.completed_tasks, notes |-> st.notes,
           last_event_id |-> st.last_event_id, last_working_file |-> st.last_working_file,
           event_count |-> n]
  BY <1>1, WithCount
<1> HIDE DEF c
<1>3. c \in State
  BY <1>1, <1>2 DEF State
<1>4. c.open_task_refs = st.open_task_refs /\ c.open_tasks = st.open_tasks
  BY <1>2
<1> QED BY <1>3, <1>4 DEF StateOK, c

\* A full replay: its fields are those of the state machine's.
LEMMA BuildIs ==
    ASSUME NEW s \in Seq(Saved)
    PROVE  LET f == ApplyAll(EmptyState, s)
               r == BuildState(s)
           IN /\ StateOK(f) /\ StateOK(r)
              /\ r.goal = f.goal /\ r.working_files = f.working_files
              /\ r.open_task_refs = f.open_task_refs /\ r.open_tasks = f.open_tasks
              /\ r.completed_tasks = f.completed_tasks /\ r.notes = f.notes
              /\ r.last_event_id = f.last_event_id /\ r.last_working_file = f.last_working_file
              /\ r.event_count = Len(s)
<1> DEFINE f == ApplyAll(EmptyState, s)
           r == BuildState(s)
<1>1. StateOK(f) /\ f \in State /\ Len(s) \in Nat
  BY EmptyOK, ReplayOK DEF StateOK
<1>2. r = [f EXCEPT !.event_count = Len(s)]
  BY DEF BuildState
<1> HIDE DEF f, r
<1>3. StateOK(r)
  BY <1>1, <1>2, CountOK
<1>4. r = [goal |-> f.goal, working_files |-> f.working_files,
           open_task_refs |-> f.open_task_refs, open_tasks |-> f.open_tasks,
           completed_tasks |-> f.completed_tasks, notes |-> f.notes,
           last_event_id |-> f.last_event_id, last_working_file |-> f.last_working_file,
           event_count |-> Len(s)]
  BY <1>1, <1>2, WithCount
<1> QED BY <1>1, <1>3, <1>4 DEF f, r

\* What is stored: every field but the references as it was.
LEMMA StoredIs ==
    ASSUME NEW st \in State
    PROVE  LET d == Stored(st)
           IN /\ d.goal = st.goal /\ d.working_files = st.working_files /\ d.open_tasks = st.open_tasks
              /\ d.completed_tasks = st.completed_tasks /\ d.notes = st.notes
              /\ d.last_event_id = st.last_event_id /\ d.event_count = st.event_count
              /\ d.last_working_file = st.last_working_file
<1> DEFINE refs == Sorted(st.open_task_refs)
           same == [goal |-> st.goal, working_files |-> st.working_files,
           open_task_refs |-> st.open_task_refs, open_tasks |-> st.open_tasks,
           completed_tasks |-> st.completed_tasks, notes |-> st.notes,
           last_event_id |-> st.last_event_id, last_working_file |-> st.last_working_file,
           event_count |-> st.event_count]
           d == Stored(st)
<1>1. st = same
  BY DEF State
<1>2. d = [st EXCEPT !.open_task_refs = refs]
  BY DEF Stored
<1> HIDE DEF refs, d
<1>3. d = [same EXCEPT !.open_task_refs = refs]
  BY <1>1, <1>2, Zenon
<1>4. d = [goal |-> st.goal, working_files |-> st.working_files,
           open_task_refs |-> refs, open_tasks |-> st.open_tasks,
           completed_tasks |-> st.completed_tasks, notes |-> st.notes,
           last_event_id |-> st.last_event_id, last_working_file |-> st.last_working_file,
           event_count |-> st.event_count]
  BY <1>3
<1> QED BY <1>4 DEF d

\* A snapshot: the stored form of a state that agrees with a full replay.
LEMMA SnapshotIs ==
    ASSUME NEW s \in Seq(Saved), Numbered(s)
    PROVE  LET f == ApplyAll(EmptyState, s)
           IN \E st : /\ StateOK(st) /\ SnapshotState(s) = Stored(st)
                      /\ st.goal = f.goal /\ st.open_task_refs = f.open_task_refs
                      /\ st.open_tasks = f.open_tasks /\ st.completed_tasks = f.completed_tasks
                      /\ st.notes = f.notes /\ st.working_files = f.working_files
                      /\ st.last_working_file = f.last_working_file
                      /\ s # <<>> /\ s[Len(s)] \notin Churn(s) => st.last_event_id = f.last_event_id
                      /\ st.event_count = Len(s)
<1> DEFINE f == ApplyAll(EmptyState, s)
           c == Compress(s)
           g == ApplyAll(EmptyState, c)
           r == BuildState(c)
           st == [r EXCEPT !.event_count = Len(s)]
<1>1. c \in Seq(Saved) /\ Len(s) \in Nat
  BY DropIs DEF Compress
<1>2. /\ g.goal = f.goal /\ g.open_task_refs = f.open_task_refs /\ g.open_tasks = f.open_tasks
      /\ g.completed_tasks = f.completed_tasks /\ g.notes = f.notes
      /\ g.working_files = f.working_files
      /\ g.last_working_file = f.last_working_file
      /\ s # <<>> /\ s[Len(s)] \notin Churn(s) => g.last_event_id = f.last_event_id
  BY CompressKeeps
<1> HIDE DEF c
<1>3. /\ StateOK(r)
      /\ r.goal = g.goal /\ r.working_files = g.working_files
      /\ r.open_task_refs = g.open_task_refs /\ r.open_tasks = g.open_tasks
      /\ r.completed_tasks = g.completed_tasks /\ r.notes = g.notes
      /\ r.last_event_id = g.last_event_id /\ r.last_working_file = g.last_working_file
  BY <1>1, BuildIs
<1> HIDE DEF r, g, f
<1>4. StateOK(st)
  BY <1>1, <1>3, CountOK
<1>5. st = [goal |-> r.goal, working_files |-> r.working_files,
            open_task_refs |-> r.open_task_refs, open_tasks |-> r.open_tasks,
            completed_tasks |-> r.completed_tasks, notes |-> r.notes,
            last_event_id |-> r.last_event_id, last_working_file |-> r.last_working_file,
            event_count |-> Len(s)]
  BY <1>3, WithCount DEF StateOK
<1>6. SnapshotState(s) = Stored(st)
  BY DEF SnapshotState, r, c
<1> HIDE DEF st
<1>7. /\ st.goal = f.goal /\ st.open_task_refs = f.open_task_refs
      /\ st.open_tasks = f.open_tasks /\ st.completed_tasks = f.completed_tasks
      /\ st.notes = f.notes /\ st.working_files = f.working_files
      /\ st.last_working_file = f.last_working_file
      /\ s # <<>> /\ s[Len(s)] \notin Churn(s) => st.last_event_id = f.last_event_id
      /\ st.event_count = Len(s)
  BY <1>2, <1>3, <1>5
<1> QED BY <1>4, <1>6, <1>7 DEF f

\* Events on top of a base: the merge of both replays, field by field.
LEMMA ApplyEventsIs ==
    ASSUME NEW base, NEW b \in Seq(Saved), b # <<>>, FromDict(base) \in State
    PROVE  LET z == ApplyAll(FromDict(base), b)
               y == ApplyAll(EmptyState, b)
           IN ApplyEvents(base, b) =
                [goal |-> Present(z.goal, base.goal),
                 working_files |-> z.working_files,
                 open_task_refs |-> z.open_task_refs,
                 open_tasks |-> Drop(z.open_tasks, AsSet(y.completed_tasks)),
                 completed_tasks |-> AppendUnique(base.completed_tasks, y.completed_tasks),
                 notes |-> [t \in NoteTypes |-> base.notes[t] \o y.notes[t]],
                 last_event_id |-> Present(z.last_event_id, base.last_event_id),
                 last_working_file |-> Present(z.last_working_file, base.last_working_file),
                 event_count |-> base.event_count + Len(b)]
<1> DEFINE z == ApplyAll(FromDict(base), b)
           y == ApplyAll(EmptyState, b)
           c == y.completed_tasks
           notes == y.notes
           n == Len(b)
           delta == [z EXCEPT !.completed_tasks = c, !.notes = notes, !.event_count = n]
           same == [goal |-> z.goal, working_files |-> z.working_files,
           open_task_refs |-> z.open_task_refs, open_tasks |-> z.open_tasks,
           completed_tasks |-> z.completed_tasks, notes |-> z.notes,
           last_event_id |-> z.last_event_id, last_working_file |-> z.last_working_file,
           event_count |-> z.event_count]
<1>1. z \in State
  BY ReplayType
<1>2. ApplyEvents(base, b) = Merge(base, delta)
  BY DEF ApplyEvents
<1> HIDE DEF z, y, c, notes, n
<1>3. z = same
  BY <1>1 DEF State
<1>4. [same EXCEPT !.completed_tasks = c, !.notes = notes, !.event_count = n]
        = [goal |-> z.goal, working_files |-> z.working_files,
           open_task_refs |-> z.open_task_refs, open_tasks |-> z.open_tasks,
           completed_tasks |-> c, notes |-> notes,
           last_event_id |-> z.last_event_id, last_working_file |-> z.last_working_file,
           event_count |-> n]
  <2> DEFINE one == [same EXCEPT !.completed_tasks = c]
             two == [one EXCEPT !.notes = notes]
             three == [two EXCEPT !.event_count = n]
  <2>1. one = [goal |-> z.goal, working_files |-> z.working_files,
               open_task_refs |-> z.open_task_refs, open_tasks |-> z.open_tasks,
               completed_tasks |-> c, notes |-> z.notes,
               last_event_id |-> z.last_event_id, last_working_file |-> z.last_working_file,
               event_count |-> z.event_count]
    OBVIOUS
  <2> HIDE DEF one
  <2>2. two = [goal |-> z.goal, working_files |-> z.working_files,
               open_task_refs |-> z.open_task_refs, open_tasks |-> z.open_tasks,
               completed_tasks |-> c, notes |-> notes,
               last_event_id |-> z.last_event_id, last_working_file |-> z.last_working_file,
               event_count |-> z.event_count]
    BY <2>1
  <2> HIDE DEF two
  <2>3. three = [goal |-> z.goal, working_files |-> z.working_files,
               open_task_refs |-> z.open_task_refs, open_tasks |-> z.open_tasks,
               completed_tasks |-> c, notes |-> notes,
               last_event_id |-> z.last_event_id, last_working_file |-> z.last_working_file,
               event_count |-> n]
    BY <2>2
  <2>4. three = [same EXCEPT !.completed_tasks = c, !.notes = notes, !.event_count = n]
    <3> HIDE DEF same
    <3> QED BY DEF one, two
  <2> QED BY <2>3, <2>4, Zenon
<1>5. delta = [goal |-> z.goal, working_files |-> z.working_files,
           open_task_refs |-> z.open_task_refs, open_tasks |-> z.open_tasks,
           completed_tasks |-> c, notes |-> notes,
           last_event_id |-> z.last_event_id, last_working_file |-> z.last_working_file,
           event_count |-> n]
  <2> HIDE DEF same
  <2>1. delta = [same EXCEPT !.completed_tasks = c, !.notes = notes, !.event_count = n]
    BY <1>3, Zenon
  <2> QED BY <1>4, <2>1, Zenon
<1> HIDE DEF delta
<1>6. /\ delta.goal = z.goal /\ delta.working_files = z.working_files
      /\ delta.open_task_refs = z.open_task_refs /\ delta.open_tasks = z.open_tasks
      /\ delta.completed_tasks = c /\ delta.notes = notes
      /\ delta.last_event_id = z.last_event_id /\ delta.last_working_file = z.last_working_file
      /\ delta.event_count = n
  BY <1>5
<1>7. Merge(base, delta) =
                [goal |-> Present(z.goal, base.goal),
                 working_files |-> z.working_files,
                 open_task_refs |-> z.open_task_refs,
                 open_tasks |-> Drop(z.open_tasks, AsSet(c)),
                 completed_tasks |-> AppendUnique(base.completed_tasks, c),
                 notes |-> [t \in NoteTypes |-> base.notes[t] \o notes[t]],
                 last_event_id |-> Present(z.last_event_id, base.last_event_id),
                 last_working_file |-> Present(z.last_working_file, base.last_working_file),
                 event_count |-> base.event_count + n]
  BY <1>6, Zenon DEF Merge
<1> QED BY <1>2, <1>7 DEF z, y, c, notes, n

\* Behind any cut, the resumed state and the full replay agree.
LEMMA ResumedIs ==
    ASSUME NEW s \in Seq(Saved), Numbered(s), NEW cut \in 1..Len(s)
    PROVE  LET r == Resumed(s, cut)
               f == ApplyAll(EmptyState, s)
               f0 == ApplyAll(EmptyState, SubSeq(s, 1, cut))
           IN /\ r.goal = f.goal /\ r.working_files = f.working_files
              /\ r.completed_tasks = f.completed_tasks /\ r.notes = f.notes
              /\ r.last_working_file = f.last_working_file /\ r.event_count = Len(s)
              /\ cut < Len(s) \/ s[cut] \notin Churn(s) => r.last_event_id = f.last_event_id
              /\ cut < Len(s) /\ IsInjective(f0.open_tasks) =>
                   /\ r.open_task_refs = f.open_task_refs
                   /\ r.open_tasks = Drop(f.open_tasks, Done(s, cut, Len(s) - cut))
<1> DEFINE a == SubSeq(s, 1, cut)
           b == Behind(s, cut)
           r == Resumed(s, cut)
           f == ApplyAll(EmptyState, s)
           f0 == ApplyAll(EmptyState, a)
           base == SnapshotState(a)
           x == FromDict(base)
           y == ApplyAll(EmptyState, b)
           z == ApplyAll(x, b)
<1>0. cut \in 0..Len(s) /\ cut \in Nat /\ Len(s) \in Nat
  OBVIOUS
<1>1. /\ a \in Seq(Saved) /\ Len(a) = cut /\ Numbered(a) /\ a # <<>> /\ a[Len(a)] = s[cut]
      /\ cut = Len(s) => a = s
  <2>1. /\ a \in Seq(Saved) /\ Len(a) = cut /\ \A i \in 1..cut : a[i] = s[i]
        /\ cut = Len(s) => a = s
    BY <1>0, PrefixFacts
  <2> HIDE DEF a
  <2>2. Numbered(a)
    BY <1>0, <2>1 DEF Numbered
  <2> QED BY <1>0, <2>1, <2>2
<1>2. b \in Seq(Saved) /\ Len(b) = Len(s) - cut /\ ((b = <<>>) <=> cut = Len(s))
  BY <1>0, SuffixFacts
<1>3. PICK st : /\ StateOK(st) /\ base = Stored(st)
                /\ st.goal = f0.goal /\ st.open_task_refs = f0.open_task_refs
                /\ st.open_tasks = f0.open_tasks /\ st.completed_tasks = f0.completed_tasks
                /\ st.notes = f0.notes /\ st.working_files = f0.working_files
                /\ st.last_working_file = f0.last_working_file
                /\ a # <<>> /\ a[Len(a)] \notin Churn(a) => st.last_event_id = f0.last_event_id
                /\ st.event_count = Len(a)
  <2> HIDE DEF a
  <2> QED BY <1>1, SnapshotIs
<1>4. /\ base.goal = st.goal /\ base.working_files = st.working_files
      /\ base.completed_tasks = st.completed_tasks /\ base.notes = st.notes
      /\ base.last_event_id = st.last_event_id /\ base.event_count = st.event_count
      /\ base.last_working_file = st.last_working_file
  <2>1. st \in State
    BY <1>3 DEF StateOK
  <2> HIDE DEF base
  <2> QED BY <1>3, <2>1, StoredIs
<1>5. /\ x \in State /\ x.goal = st.goal /\ x.working_files = st.working_files
      /\ x.open_tasks = st.open_tasks /\ x.last_working_file = st.last_working_file
  <2> HIDE DEF base
  <2> QED BY <1>3, FromDictIs
<1>6. r = ApplyEvents(base, b)
  BY DEF Resumed, Behind
<1> HIDE DEF base, x
<1>7. /\ StateOK(f0) /\ StateOK(f) /\ StateOK(y) /\ z \in State
      /\ Along(z, y, f, f0)
      /\ b # <<>> => z.last_event_id = f.last_event_id /\ z.last_event_id \in Nat
      /\ x.open_task_refs = f0.open_task_refs => z.open_task_refs = f.open_task_refs
      /\ AsSet(y.completed_tasks) = Done(s, cut, Len(b))
  <2>1. x.goal = f0.goal /\ x.working_files = f0.working_files
        /\ x.last_working_file = f0.last_working_file
    BY <1>3, <1>5
  <2> QED BY <1>0, <1>5, <2>1, Abreast
<1>8. f0.notes \in [NoteTypes -> Seq(Nat)] /\ f.notes \in [NoteTypes -> Seq(Nat)]
  BY <1>7 DEF StateOK, State
<1>9. CASE cut = Len(s)
  <2>1. b = <<>> /\ a = s /\ Len(s) = cut /\ ~(cut < Len(s))
    BY <1>0, <1>1, <1>2, <1>9
  <2>2. r = base /\ f0 = f
    BY <1>6, <2>1 DEF ApplyEvents
  <2>3. s[cut] \notin Churn(s) => st.last_event_id = f.last_event_id
    BY <1>1, <1>3, <2>1, <2>2
  <2> HIDE DEF r, f, f0, a, b, y, z
  <2>4. /\ r.goal = f.goal /\ r.working_files = f.working_files
        /\ r.completed_tasks = f.completed_tasks /\ r.notes = f.notes
        /\ r.last_working_file = f.last_working_file /\ r.event_count = Len(s)
    BY <1>1, <1>3, <1>4, <2>1, <2>2
  <2>5. s[cut] \notin Churn(s) => r.last_event_id = f.last_event_id
    BY <1>4, <2>2, <2>3
  <2> QED BY <2>1, <2>4, <2>5 DEF r, f, f0, a
<1>10. CASE cut # Len(s)
  <2>1. b # <<>> /\ cut < Len(s)
    BY <1>0, <1>2, <1>10
  <2> HIDE DEF r, b, a, f, f0
  <2>2. r = [goal |-> Present(z.goal, base.goal),
             working_files |-> z.working_files,
             open_task_refs |-> z.open_task_refs,
             open_tasks |-> Drop(z.open_tasks, AsSet(y.completed_tasks)),
             completed_tasks |-> AppendUnique(base.completed_tasks, y.completed_tasks),
             notes |-> [t \in NoteTypes |-> base.notes[t] \o y.notes[t]],
             last_event_id |-> Present(z.last_event_id, base.last_event_id),
             last_working_file |-> Present(z.last_working_file, base.last_working_file),
             event_count |-> base.event_count + Len(b)]
    BY <1>2, <1>5, <1>6, <2>1, ApplyEventsIs DEF x
  <2> HIDE DEF y, z
  <2>3. /\ r.goal = Present(z.goal, base.goal) /\ r.working_files = z.working_files
        /\ r.open_task_refs = z.open_task_refs
        /\ r.open_tasks = Drop(z.open_tasks, AsSet(y.completed_tasks))
        /\ r.completed_tasks = AppendUnique(base.completed_tasks, y.completed_tasks)
        /\ r.notes = [t \in NoteTypes |-> base.notes[t] \o y.notes[t]]
        /\ r.last_event_id = Present(z.last_event_id, base.last_event_id)
        /\ r.last_working_file = Present(z.last_working_file, base.last_working_file)
        /\ r.event_count = base.event_count + Len(b)
    BY <2>2
  <2>4. r.goal = f.goal /\ r.working_files = f.working_files /\ r.last_working_file = f.last_working_file
    BY <1>3, <1>4, <1>7, <2>3 DEF Along, Present
  <2>5. r.completed_tasks = f.completed_tasks
    BY <1>3, <1>4, <1>7, <2>3 DEF Along
  <2>6. r.notes = f.notes
    <3>1. r.notes = [t \in NoteTypes |-> f0.notes[t] \o y.notes[t]]
      BY <1>3, <1>4, <2>3
    <3>2. \A t \in NoteTypes : f.notes[t] = f0.notes[t] \o y.notes[t]
      BY <1>7 DEF Along
    <3>3. f.notes = [t \in NoteTypes |-> f.notes[t]]
      BY <1>8
    <3> QED BY <3>1, <3>2, <3>3, Zenon
  <2>7. r.event_count = Len(s)
    BY <1>0, <1>1, <1>2, <1>3, <1>4, <2>3
  <2>8. r.last_event_id = f.last_event_id
    BY <1>7, <2>1, <2>3, ReplayConstantsOK DEF Present
  <2>9. ASSUME IsInjective(f0.open_tasks)
        PROVE  /\ r.open_task_refs = f.open_task_refs
               /\ r.open_tasks = Drop(f.open_tasks, Done(s, cut, Len(s) - cut))
    <3>1. x.open_task_refs = st.open_task_refs
      BY <1>3, <2>9, FromDictFinds DEF x
    <3>2. StateOK(x)
      BY <1>3, <1>5, <3>1 DEF StateOK
    <3>3. StateOK(z)
      BY <1>2, <3>2, ReplayOK DEF z
    <3>4. z.open_task_refs = f.open_task_refs /\ z.open_tasks = f.open_tasks
      BY <1>3, <1>7, <3>1, <3>3 DEF StateOK
    <3> QED BY <1>2, <1>7, <2>3, <3>4
  <2> QED BY <2>4, <2>5, <2>6, <2>7, <2>8, <2>9 DEF f, f0, r, a
<1> QED BY <1>9, <1>10

-----------------------------------------------------------------------------
(* the log                                                                  *)

\* The log holds saved events, each with its position as its id.
THEOREM LogTypeCorrect == LogSpec => []LogTypeOK
<1>1. LogInit => LogTypeOK
  BY DEF LogInit, LogTypeOK
<1>2. LogTypeOK /\ [LogNext]_log => LogTypeOK'
  <2> SUFFICES ASSUME LogTypeOK, [LogNext]_log PROVE LogTypeOK'
    OBVIOUS
  <2>1. CASE UNCHANGED log
    BY <2>1 DEF LogTypeOK
  <2>2. ASSUME NEW event \in Events, SaveEvent(event) PROVE LogTypeOK'
    <3> DEFINE n == Len(log)
               e == [event EXCEPT !.id = n + 1]
    <3>1. log \in Seq(Event) /\ n \in Nat /\ \A i \in 1..n : log[i].id = i
      BY DEF LogTypeOK
    <3>2. log' = Append(log, e)
      BY <2>2 DEF SaveEvent
    <3>3. e \in Event /\ e.id = n + 1
      <4>1. event \in Event /\ n + 1 \in Optional(Nat)
        BY <3>1, LogConstantsOK DEF Optional
      <4> HIDE DEF n
      <4> QED BY <4>1 DEF Event
    <3> HIDE DEF e
    <3>4. /\ log' \in Seq(Event) /\ Len(log') = n + 1 /\ log'[n + 1] = e
          /\ \A i \in 1..n : log'[i] = log[i]
      BY <3>1, <3>2, <3>3
    <3>5. \A i \in DOMAIN log' : i \in 1..n \/ i = n + 1
      BY <3>1, <3>4
    <3> QED BY <3>1, <3>3, <3>4, <3>5 DEF LogTypeOK
  <2> QED BY <2>1, <2>2 DEF LogNext
<1> QED BY <1>1, <1>2, PTL DEF LogSpec

LEMMA LogIs ==
    ASSUME LogTypeOK
    PROVE  log \in Seq(Saved) /\ Numbered(log)
<1>1. log \in Seq(Event) /\ \A i \in 1..Len(log) : log[i].id = i
  BY DEF LogTypeOK
<1>2. \A i \in 1..Len(log) : log[i] \in Saved
  BY <1>1 DEF Saved
<1> QED BY <1>1, <1>2 DEF Numbered

\* Wherever the snapshot was taken, a resumed project has what a full replay has
\* (IncrementalResumeEngine.resume, StateMerger.merge, ProjectState.from_dict).
THEOREM ResumeCorrect == LogSpec => []ResumeKeepsState
<1>1. LogTypeOK => ResumeKeepsState
  <2> SUFFICES ASSUME LogTypeOK, NEW cut \in Cuts
               PROVE  LET full == BuildState(log)
                          resumed == Resumed(log, cut)
                          delta == cut < Len(log)
                      IN /\ \A field \in {"goal", "working_files", "completed_tasks", "notes",
                                           "last_working_file", "event_count"} :
                              resumed[field] = full[field]
                         /\ delta \/ log[cut] \notin Churn(log) =>
                              resumed.last_event_id = full.last_event_id
                         /\ delta /\ IsInjective(BuildState(UpTo(cut)).open_tasks) =>
                              /\ resumed.open_task_refs = full.open_task_refs
                              /\ resumed.open_tasks = Drop(full.open_tasks, CompletedSince(cut))
    BY DEF ResumeKeepsState
  <2> DEFINE full == BuildState(log)
             resumed == Resumed(log, cut)
             f == ApplyAll(EmptyState, log)
             f0 == ApplyAll(EmptyState, UpTo(cut))
  <2>1. log \in Seq(Saved) /\ Numbered(log) /\ cut \in 1..Len(log) /\ Len(log) \in Nat
    BY LogIs DEF Cuts
  <2>2. /\ resumed.goal = f.goal /\ resumed.working_files = f.working_files
        /\ resumed.completed_tasks = f.completed_tasks /\ resumed.notes = f.notes
        /\ resumed.last_working_file = f.last_working_file /\ resumed.event_count = Len(log)
        /\ cut < Len(log) \/ log[cut] \notin Churn(log) => resumed.last_event_id = f.last_event_id
        /\ cut < Len(log) /\ IsInjective(f0.open_tasks) =>
             /\ resumed.open_task_refs = f.open_task_refs
             /\ resumed.open_tasks = Drop(f.open_tasks, Done(log, cut, Len(log) - cut))
    BY <2>1, ResumedIs DEF UpTo
  <2>3. /\ full.goal = f.goal /\ full.working_files = f.working_files
        /\ full.open_task_refs = f.open_task_refs /\ full.open_tasks = f.open_tasks
        /\ full.completed_tasks = f.completed_tasks /\ full.notes = f.notes
        /\ full.last_event_id = f.last_event_id /\ full.last_working_file = f.last_working_file
        /\ full.event_count = Len(log)
    BY <2>1, BuildIs
  <2>4. BuildState(UpTo(cut)).open_tasks = f0.open_tasks
    <3>1. UpTo(cut) \in Seq(Saved)
      BY <2>1, PrefixFacts DEF UpTo
    <3> QED BY <3>1, BuildIs
  <2>5. CompletedSince(cut) = Done(log, cut, Len(log) - cut)
    <3>1. cut + (Len(log) - cut) = Len(log)
      BY <2>1
    <3> QED BY <3>1 DEF CompletedSince, Done, Completes
  <2> HIDE DEF full, resumed, f, f0
  <2>6. \A field \in {"goal", "working_files", "completed_tasks", "notes",
                      "last_working_file", "event_count"} : resumed[field] = full[field]
    BY <2>2, <2>3
  <2> QED BY <2>2, <2>3, <2>4, <2>5, <2>6 DEF full, resumed
<1> QED BY <1>1, LogTypeCorrect, PTL

-----------------------------------------------------------------------------
(* the task view: what matters of it is a set                               *)

\* Tasks with an id each, and every id once.
HasIds(tasks) == \A t \in tasks : "task_id" \in DOMAIN t /\ t.task_id \in Names

IdsOK(seq) ==
    /\ seq \in Seq(AsSet(seq)) /\ HasIds(AsSet(seq))
    /\ \A i, j \in DOMAIN seq : seq[i].task_id = seq[j].task_id => i = j

ViewOK(view) ==
    /\ view = [tasks |-> view.tasks, dependencies |-> view.dependencies, handoffs |-> view.handoffs]
    /\ IdsOK(view.tasks)

\* The event's task is among the tasks, made if it was not.
TasksWith(tasks, id) ==
    IF \E t \in tasks : t.task_id = id THEN tasks ELSE tasks \cup {NewTask(id)}

TasksAfter(tasks, e) ==
    {IF t.task_id = e.task_id THEN Recorded(t, e) ELSE t : t \in TasksWith(tasks, e.task_id)}

LEMMA NewTaskIs ==
    ASSUME NEW id
    PROVE  "task_id" \in DOMAIN NewTask(id) /\ NewTask(id).task_id = id
BY DEF NewTask

\* No handler changes a task's id.
LEMMA RecordedKeepsId ==
    ASSUME NEW t, "task_id" \in DOMAIN t, NEW e
    PROVE  "task_id" \in DOMAIN Recorded(t, e) /\ Recorded(t, e).task_id = t.task_id
<1> DEFINE r == [t EXCEPT !.history = Append(@, e.id)]
<1>1. "task_id" \in DOMAIN r /\ r.task_id = t.task_id
  OBVIOUS
<1>2. Recorded(t, e) = Handled(r, e)
  BY DEF Recorded
<1> HIDE DEF r
<1>3. "task_id" \in DOMAIN Handled(r, e) /\ Handled(r, e).task_id = r.task_id
  <2>1. CASE e.type = "task_created"
    BY <1>1, <2>1 DEF Handled, Created
  <2>2. CASE e.type = "task_assigned"
    BY <1>1, <2>2 DEF Handled, Assigned
  <2>3. CASE e.type = "task_started"
    BY <1>1, <2>3 DEF Handled, Started
  <2>4. CASE e.type = "task_updated"
    BY <1>1, <2>4 DEF Handled, Updated
  <2>5. CASE e.type \in SubtaskTypes
    BY <1>1, <2>5 DEF Handled, SubtaskTypes
  <2>6. CASE e.type \in ListTypes
    BY <1>1, <2>6 DEF Handled, ListTypes, SubtaskTypes
  <2>7. CASE /\ e.type \notin {"task_created", "task_assigned", "task_started", "task_updated"}
             /\ e.type \notin SubtaskTypes /\ e.type \notin ListTypes
    BY <1>1, <2>7 DEF Handled
  <2> QED BY <2>1, <2>2, <2>3, <2>4, <2>5, <2>6, <2>7
<1> QED BY <1>1, <1>2, <1>3

LEMMA AsSetSeq ==
    ASSUME NEW T, NEW s \in Seq(T)
    PROVE  s \in Seq(AsSet(s)) /\ DOMAIN s = 1..Len(s) /\ Len(s) \in Nat
<1>1. Len(s) \in Nat /\ DOMAIN s = 1..Len(s)
  OBVIOUS
<1>2. \A i \in 1..Len(s) : s[i] \in AsSet(s)
  BY <1>1 DEF AsSet
<1> QED BY <1>1, <1>2

\* The list of tasks with the event's task in it.
LEMMA WithTaskOK ==
    ASSUME NEW view, ViewOK(view), NEW id \in Names
    PROVE  LET w == WithTask(view, id)
           IN /\ ViewOK(w) /\ AsSet(w.tasks) = TasksWith(AsSet(view.tasks), id)
              /\ w.dependencies = view.dependencies /\ w.handoffs = view.handoffs
<1> DEFINE s == view.tasks
           T == AsSet(s)
           n == NewTask(id)
           w == WithTask(view, id)
<1>1. /\ s \in Seq(T) /\ HasIds(T) /\ \A i, j \in DOMAIN s : s[i].task_id = s[j].task_id => i = j
      /\ view = [tasks |-> s, dependencies |-> view.dependencies, handoffs |-> view.handoffs]
  BY DEF ViewOK, IdsOK
<1>2. KnownTask(view, id) <=> \E t \in T : t.task_id = id
  BY DEF KnownTask, AsSet
<1>3. CASE KnownTask(view, id)
  <2>1. w = view /\ TasksWith(T, id) = T
    BY <1>2, <1>3 DEF WithTask, TasksWith
  <2> HIDE DEF w
  <2> QED BY <2>1 DEF w
<1>4. CASE ~KnownTask(view, id)
  <2> HIDE DEF n
  <2> DEFINE q == Append(s, n)
             U == T \cup {n}
  <2>1. TasksWith(T, id) = U
    BY <1>2, <1>4 DEF TasksWith, n
  <2>2. w = [tasks |-> q, dependencies |-> view.dependencies, handoffs |-> view.handoffs]
    <3>1. w = [view EXCEPT !.tasks = Append(@, n)]
      BY <1>4 DEF WithTask, n
    <3> DEFINE d == view.dependencies
               h == view.handoffs
    <3>2. view = [tasks |-> s, dependencies |-> d, handoffs |-> h]
      BY <1>1
    <3> HIDE DEF s, d, h, w
    <3>3. [[tasks |-> s, dependencies |-> d, handoffs |-> h] EXCEPT !.tasks = Append(@, n)]
            = [tasks |-> q, dependencies |-> d, handoffs |-> h]
      OBVIOUS
    <3>4. w = [tasks |-> q, dependencies |-> d, handoffs |-> h]
      BY <3>1, <3>2, <3>3, Zenon
    <3> QED BY <3>4 DEF d, h
  <2>3. "task_id" \in DOMAIN n /\ n.task_id = id
    BY NewTaskIs DEF n
  <2> HIDE DEF w, s, T
  <2>4. s \in Seq(U) /\ n \in U
    BY <1>1
  <2>5. AsSet(q) = U /\ q \in Seq(U)
    <3> HIDE DEF U
    <3>1. AsSet(q) = AsSet(s) \cup {n} /\ q \in Seq(U)
      BY <2>4, AsSetAppend
    <3> QED BY <3>1 DEF U, T
  <2>6. HasIds(U)
    BY <1>1, <2>3 DEF HasIds
  <2>7. \A i, j \in DOMAIN q : q[i].task_id = q[j].task_id => i = j
    <3> DEFINE m == Len(s)
    <3>1. /\ m \in Nat /\ DOMAIN s = 1..m /\ DOMAIN q = 1..m + 1 /\ q[m + 1] = n
          /\ \A i \in 1..m : q[i] = s[i]
      BY <1>1
    <3>2. \A i \in 1..m : s[i].task_id # id
      BY <1>2, <1>4, <3>1 DEF T, AsSet
    <3>3. \A i \in 1..m + 1 : i \in 1..m \/ i = m + 1
      BY <3>1
    <3> HIDE DEF q, m
    <3> QED BY <1>1, <2>3, <3>1, <3>2, <3>3
  <2> HIDE DEF q, U
  <2>8. IdsOK(q)
    BY <2>5, <2>6, <2>7 DEF IdsOK
  <2>9. w.tasks = q /\ w.dependencies = view.dependencies /\ w.handoffs = view.handoffs
    BY <2>2
  <2>10. ViewOK(w)
    BY <2>2, <2>8, <2>9 DEF ViewOK
  <2> QED BY <2>1, <2>5, <2>9, <2>10 DEF w, T, s
<1> QED BY <1>3, <1>4

\* The event recorded in its task.
LEMMA RecordOK ==
    ASSUME NEW s, IdsOK(s), NEW e
    PROVE  LET r == [i \in DOMAIN s |-> IF s[i].task_id = e.task_id THEN Recorded(s[i], e) ELSE s[i]]
           IN /\ IdsOK(r)
              /\ AsSet(r) = {IF t.task_id = e.task_id THEN Recorded(t, e) ELSE t : t \in AsSet(s)}
<1> DEFINE Of(t) == IF t.task_id = e.task_id THEN Recorded(t, e) ELSE t
           r == [i \in DOMAIN s |-> Of(s[i])]
           n == Len(s)
<1>1. n \in Nat /\ DOMAIN s = 1..n /\ HasIds(AsSet(s))
      /\ \A i, j \in DOMAIN s : s[i].task_id = s[j].task_id => i = j
  BY AsSetSeq DEF IdsOK
<1>2. \A t \in AsSet(s) : /\ "task_id" \in DOMAIN Of(t) /\ Of(t).task_id = t.task_id
                          /\ t.task_id \in Names
  BY <1>1, RecordedKeepsId DEF HasIds
<1> HIDE DEF Of, n
<1>3. DOMAIN r = 1..n /\ \A i \in 1..n : r[i] = Of(s[i]) /\ s[i] \in AsSet(s)
  BY <1>1 DEF AsSet
<1>4. AsSet(r) = {Of(t) : t \in AsSet(s)}
  BY <1>1, <1>3 DEF AsSet
<1>5. r \in Seq(AsSet(r))
  <2>1. r \in [1..n -> AsSet(r)]
    <3>1. \A i \in 1..n : r[i] \in AsSet(r)
      BY <1>3 DEF AsSet
    <3>2. r = [i \in 1..n |-> r[i]]
      BY <1>1, <1>3
    <3> HIDE DEF r
    <3> QED BY <3>1, <3>2
  <2> HIDE DEF r
  <2> QED BY <1>1, <2>1
<1>6. HasIds(AsSet(r))
  BY <1>2, <1>4 DEF HasIds
<1>7. \A i, j \in DOMAIN r : r[i].task_id = r[j].task_id => i = j
  BY <1>1, <1>2, <1>3
<1> HIDE DEF r
<1> QED BY <1>4, <1>5, <1>6, <1>7 DEF IdsOK, r, Of

EdgesAfter(edges, e) ==
    IF e.type = "task_dependency_added" /\ e.depends_on # Nothing
       /\ <<e.task_id, e.depends_on>> \notin AsSet(edges)
    THEN Append(edges, <<e.task_id, e.depends_on>>)
    ELSE edges

HandoffsAfter(handoffs, e) ==
    IF e.type = "handoff_created"
    THEN Append(handoffs, <<e.task_id, e.id>>)
    ELSE handoffs

\* An event's effect on the tasks, as a set, and on the edges and handoffs.
LEMMA TasksStep ==
    ASSUME NEW view, ViewOK(view), NEW e \in Saved
    PROVE  LET w == ApplyToTasks(view, e)
           IN IF e.type \notin TaskTypes \/ e.task_id = Nothing
              THEN w = view
              ELSE /\ ViewOK(w) /\ AsSet(w.tasks) = TasksAfter(AsSet(view.tasks), e)
                   /\ w.dependencies = EdgesAfter(view.dependencies, e)
                   /\ w.handoffs = HandoffsAfter(view.handoffs, e)
<1>1. CASE e.type \notin TaskTypes \/ e.task_id = Nothing
  BY <1>1 DEF ApplyToTasks
<1>2. CASE ~(e.type \notin TaskTypes \/ e.task_id = Nothing)
  <2> DEFINE id == e.task_id
             seen == WithTask(view, id)
             s == seen.tasks
             d == seen.dependencies
             h == seen.handoffs
             R(q) == [i \in DOMAIN q |-> IF q[i].task_id = e.task_id THEN Recorded(q[i], e) ELSE q[i]]
             r == R(s)
             w == ApplyToTasks(view, e)
  <2>1. id \in Names
    BY <1>2, EventFields
  <2>2. /\ ViewOK(seen) /\ AsSet(s) = TasksWith(AsSet(view.tasks), id)
        /\ d = view.dependencies /\ h = view.handoffs
    BY <2>1, WithTaskOK
  <2>3. w = [seen EXCEPT
                !.tasks = R(@),
                !.dependencies = IF e.type = "task_dependency_added" THEN Edges(view, e) ELSE @,
                !.handoffs = IF e.type = "handoff_created"
                             THEN Append(@, <<e.task_id, e.id>>) ELSE @]
    BY <1>2 DEF ApplyToTasks
  <2>4. seen = [tasks |-> s, dependencies |-> d, handoffs |-> h]
    BY <2>2 DEF ViewOK
  <2> DEFINE dd == IF e.type = "task_dependency_added" THEN Edges(view, e) ELSE d
             hh == IF e.type = "handoff_created"
                   THEN Append(h, <<e.task_id, e.id>>) ELSE h
  <2>5. w = [tasks |-> r, dependencies |-> dd, handoffs |-> hh]
    <3> DEFINE D(x) == IF e.type = "task_dependency_added" THEN Edges(view, e) ELSE x
               H(x) == IF e.type = "handoff_created"
                       THEN Append(x, <<e.task_id, e.id>>) ELSE x
               one == [seen EXCEPT !.tasks = R(@)]
               two == [one EXCEPT !.dependencies = D(@)]
               three == [two EXCEPT !.handoffs = H(@)]
    <3>1. w = three
      <4> HIDE DEF seen, R, w
      <4> QED BY <2>3, Zenon DEF one, two, three, D, H
    <3> HIDE DEF seen, s, d, h, w, R, D, H
    <3>2. one = [tasks |-> R(s), dependencies |-> d, handoffs |-> h]
      <4>1. [[tasks |-> s, dependencies |-> d, handoffs |-> h] EXCEPT !.tasks = R(@)]
              = [tasks |-> R(s), dependencies |-> d, handoffs |-> h]
        OBVIOUS
      <4> QED BY <2>4, <4>1, Zenon
    <3> HIDE DEF one
    <3>3. two = [tasks |-> R(s), dependencies |-> D(d), handoffs |-> h]
      <4>1. [[tasks |-> R(s), dependencies |-> d, handoffs |-> h] EXCEPT !.dependencies = D(@)]
              = [tasks |-> R(s), dependencies |-> D(d), handoffs |-> h]
        OBVIOUS
      <4> QED BY <3>2, <4>1, Zenon
    <3> HIDE DEF two
    <3>4. three = [tasks |-> R(s), dependencies |-> D(d), handoffs |-> H(h)]
      <4>1. [[tasks |-> R(s), dependencies |-> D(d), handoffs |-> h] EXCEPT !.handoffs = H(@)]
              = [tasks |-> R(s), dependencies |-> D(d), handoffs |-> H(h)]
        OBVIOUS
      <4> QED BY <3>3, <4>1, Zenon
    <3> HIDE DEF three
    <3>5. D(d) = dd /\ H(h) = hh
      BY DEF D, H
    <3> HIDE DEF dd, hh
    <3> QED BY <3>1, <3>4, <3>5, Zenon
  <2>6. IdsOK(r) /\ AsSet(r) = TasksAfter(AsSet(view.tasks), e)
    <3>1. IdsOK(s)
      BY <2>2 DEF ViewOK
    <3> HIDE DEF s
    <3>2. /\ IdsOK(r)
          /\ AsSet(r) = {IF t.task_id = e.task_id THEN Recorded(t, e) ELSE t : t \in AsSet(s)}
      BY <3>1, RecordOK
    <3> HIDE DEF r
    <3> QED BY <2>2, <3>2 DEF TasksAfter
  <2>7. dd = EdgesAfter(view.dependencies, e) /\ hh = HandoffsAfter(view.handoffs, e)
    <3> HIDE DEF seen, d, h
    <3> QED BY <2>2 DEF EdgesAfter, HandoffsAfter, Edges
  <2> HIDE DEF w, r, dd, hh
  <2>8. w.tasks = r /\ w.dependencies = dd /\ w.handoffs = hh
    BY <2>5
  <2>9. ViewOK(w)
    BY <2>5, <2>6, <2>8 DEF ViewOK
  <2> QED BY <1>2, <2>6, <2>7, <2>8, <2>9 DEF w
<1> QED BY <1>1, <1>2

\* An event is counted for the agent it names, and for nobody else.
LEMMA CountsAfter ==
    ASSUME NEW m, NEW e, NEW a \in Agents
    PROVE  CountsOf(ApplyToMetrics(m, e), a) =
             IF a = AgentOf(e) THEN Counted(CountsOf(m, a), e) ELSE CountsOf(m, a)
<1> DEFINE agent == AgentOf(e)
           C(x) == Counted(x, e)
           M == [x \in DOMAIN m \cup {agent} |-> IF x = agent THEN C(CountsOf(m, agent)) ELSE m[x]]
<1>1. a # Nothing
  BY ReplayConstantsOK
<1>2. ApplyToMetrics(m, e) = IF agent = Nothing THEN m ELSE M
  BY DEF ApplyToMetrics
<1> HIDE DEF agent, C
<1>3. CASE agent = Nothing
  BY <1>1, <1>2, <1>3 DEF agent
<1>4. CASE agent # Nothing
  <2>1. CASE a = agent
    <3>1. a \in DOMAIN M /\ M[a] = C(CountsOf(m, agent))
      BY <2>1
    <3>2. CountsOf(M, a) = M[a]
      <4> HIDE DEF M
      <4> QED BY <3>1 DEF CountsOf
    <3> HIDE DEF M
    <3> QED BY <1>2, <1>4, <2>1, <3>1, <3>2 DEF C, agent
  <2>2. CASE a # agent
    <3>1. (a \in DOMAIN M <=> a \in DOMAIN m) /\ (a \in DOMAIN m => M[a] = m[a])
      BY <2>2
    <3>2. CountsOf(M, a) = CountsOf(m, a)
      <4> HIDE DEF M
      <4> QED BY <3>1 DEF CountsOf
    <3> HIDE DEF M
    <3> QED BY <1>2, <1>4, <2>2, <3>2 DEF agent
  <2> QED BY <2>1, <2>2
<1> QED BY <1>3, <1>4

\* Two projections that the task tools cannot tell apart.
Same(b, c) ==
    /\ ViewOK(b.view) /\ ViewOK(c.view)
    /\ AsSet(b.view.tasks) = AsSet(c.view.tasks)
    /\ b.view.dependencies = c.view.dependencies /\ b.view.handoffs = c.view.handoffs
    /\ \A a \in Agents : CountsOf(b.metrics, a) = CountsOf(c.metrics, a)

LEMMA SameStep ==
    ASSUME NEW b, NEW c, Same(b, c), NEW e \in Saved
    PROVE  /\ Same(ApplyToBoth(b, e), ApplyToBoth(c, e))
           /\ e.type = "file_modified" => Same(b, ApplyToBoth(c, e))
<1> DEFINE bb == ApplyToBoth(b, e)
           cc == ApplyToBoth(c, e)
<1>1. /\ bb.view = ApplyToTasks(b.view, e) /\ bb.metrics = ApplyToMetrics(b.metrics, e)
      /\ cc.view = ApplyToTasks(c.view, e) /\ cc.metrics = ApplyToMetrics(c.metrics, e)
  BY DEF ApplyToBoth
<1> HIDE DEF bb, cc
<1>2. ViewOK(b.view) /\ ViewOK(c.view)
  BY DEF Same
<1>3. ASSUME NEW a \in Agents
      PROVE  /\ CountsOf(bb.metrics, a) = CountsOf(cc.metrics, a)
             /\ e.type = "file_modified" => CountsOf(cc.metrics, a) = CountsOf(c.metrics, a)
  <2>1. /\ CountsOf(bb.metrics, a) =
             IF a = AgentOf(e) THEN Counted(CountsOf(b.metrics, a), e) ELSE CountsOf(b.metrics, a)
        /\ CountsOf(cc.metrics, a) =
             IF a = AgentOf(e) THEN Counted(CountsOf(c.metrics, a), e) ELSE CountsOf(c.metrics, a)
    BY <1>1, CountsAfter
  <2>2. CountsOf(b.metrics, a) = CountsOf(c.metrics, a)
    BY DEF Same
  <2>3. e.type = "file_modified" => Counted(CountsOf(c.metrics, a), e) = CountsOf(c.metrics, a)
    BY DEF Counted
  <2> QED BY <2>1, <2>2, <2>3
<1>4. CASE e.type \notin TaskTypes \/ e.task_id = Nothing
  <2>1. bb.view = b.view /\ cc.view = c.view
    BY <1>1, <1>2, <1>4, TasksStep
  <2> QED BY <1>3, <2>1 DEF Same, bb, cc
<1>5. CASE ~(e.type \notin TaskTypes \/ e.task_id = Nothing)
  <2>1. /\ ViewOK(bb.view) /\ AsSet(bb.view.tasks) = TasksAfter(AsSet(b.view.tasks), e)
        /\ bb.view.dependencies = EdgesAfter(b.view.dependencies, e)
        /\ bb.view.handoffs = HandoffsAfter(b.view.handoffs, e)
    BY <1>1, <1>2, <1>5, TasksStep
  <2>2. /\ ViewOK(cc.view) /\ AsSet(cc.view.tasks) = TasksAfter(AsSet(c.view.tasks), e)
        /\ cc.view.dependencies = EdgesAfter(c.view.dependencies, e)
        /\ cc.view.handoffs = HandoffsAfter(c.view.handoffs, e)
    BY <1>1, <1>2, <1>5, TasksStep
  <2>3. /\ AsSet(b.view.tasks) = AsSet(c.view.tasks)
        /\ b.view.dependencies = c.view.dependencies /\ b.view.handoffs = c.view.handoffs
    BY DEF Same
  <2>4. e.type # "file_modified"
    BY <1>5 DEF TaskTypes, SubtaskTypes, ListTypes
  <2>5. Same(bb, cc)
    BY <1>3, <2>1, <2>2, <2>3 DEF Same
  <2> QED BY <2>4, <2>5 DEF bb, cc
<1> QED BY <1>4, <1>5

LEMMA SameEmpty == Same(NoProjection, NoProjection)
<1>1. /\ NoProjection.view = NoTasks /\ NoTasks.tasks = <<>>
      /\ NoTasks = [tasks |-> NoTasks.tasks, dependencies |-> NoTasks.dependencies,
                    handoffs |-> NoTasks.handoffs]
  BY DEF NoProjection, NoTasks
<1>2. IdsOK(<<>>)
  BY AsSetEmpty DEF IdsOK, HasIds
<1>3. ViewOK(NoTasks)
  BY <1>1, <1>2, Zenon DEF ViewOK
<1> QED BY <1>1, <1>3, Zenon DEF Same

\* A page keeps two projections alike.
LEMMA SamePage ==
    ASSUME NEW b, NEW c, Same(b, c)
    PROVE  \A s \in Seq(Saved) : Same(ApplyPage(b, s), ApplyPage(c, s))
<1> DEFINE S == {s \in Seq(Saved) : Same(ApplyPage(b, s), ApplyPage(c, s))}
<1>1. <<>> \in S
  <2>1. ApplyPage(b, <<>>) = b /\ ApplyPage(c, <<>>) = c /\ <<>> \in Seq(Saved)
    BY ApplyPageEmpty
  <2> QED BY <2>1, Zenon
<1>2. ASSUME NEW s \in Seq(Saved), NEW e \in Saved, s \in S PROVE Append(s, e) \in S
  <2>1. /\ Append(s, e) \in Seq(Saved)
        /\ ApplyPage(b, Append(s, e)) = ApplyToBoth(ApplyPage(b, s), e)
        /\ ApplyPage(c, Append(s, e)) = ApplyToBoth(ApplyPage(c, s), e)
    BY ApplyPageAppend
  <2>2. Same(ApplyToBoth(ApplyPage(b, s), e), ApplyToBoth(ApplyPage(c, s), e))
    BY <1>2, SameStep
  <2> QED BY <2>1, <2>2
<1> HIDE DEF S
<1>3. \A s \in Seq(Saved) : s \in S
  BY <1>1, <1>2, SeqInduction
<1> QED BY <1>3 DEF S

\* So does leaving file modifications out.
LEMMA SameDropped ==
    ASSUME NEW D, \A e \in D : e.type = "file_modified"
    PROVE  \A s \in Seq(Saved) : Same(ApplyPage(NoProjection, Drop(s, D)), ApplyPage(NoProjection, s))
<1> DEFINE o == NoProjection
           S == {s \in Seq(Saved) : Same(ApplyPage(o, Drop(s, D)), ApplyPage(o, s))}
<1> HIDE DEF o
<1>1. <<>> \in S
  <2>1. ApplyPage(o, <<>>) = o /\ Drop(<<>>, D) = <<>> /\ <<>> \in Seq(Saved)
    BY ApplyPageEmpty, DropEmpty
  <2> QED BY <2>1, SameEmpty, Zenon DEF o
<1>2. ASSUME NEW s \in Seq(Saved), NEW e \in Saved, s \in S PROVE Append(s, e) \in S
  <2> DEFINE q == Drop(s, D)
  <2>1. /\ Append(s, e) \in Seq(Saved) /\ q \in Seq(Saved)
        /\ Drop(Append(s, e), D) = IF e \in D THEN q ELSE Append(q, e)
    BY DropIs, DropAppend
  <2>2. Same(ApplyPage(o, q), ApplyPage(o, s))
    BY <1>2
  <2> HIDE DEF q
  <2>3. /\ ApplyPage(o, Append(s, e)) = ApplyToBoth(ApplyPage(o, s), e)
        /\ ApplyPage(o, Append(q, e)) = ApplyToBoth(ApplyPage(o, q), e)
    BY <2>1, ApplyPageAppend
  <2>4. /\ Same(ApplyToBoth(ApplyPage(o, q), e), ApplyToBoth(ApplyPage(o, s), e))
        /\ e.type = "file_modified" => Same(ApplyPage(o, q), ApplyToBoth(ApplyPage(o, s), e))
    BY <2>2, SameStep
  <2>5. CASE e \in D
    BY <2>1, <2>3, <2>4, <2>5
  <2>6. CASE e \notin D
    BY <2>1, <2>3, <2>4, <2>6
  <2> QED BY <2>5, <2>6
<1> HIDE DEF S
<1>3. \A s \in Seq(Saved) : s \in S
  BY <1>1, <1>2, SeqInduction
<1> QED BY <1>3 DEF S, o

\* A page keeps the versions alike, too.
LEMMA VersionsPage ==
    ASSUME NEW b, NEW c, b.versions = c.versions
    PROVE  \A s \in Seq(Saved) : ApplyPage(b, s).versions = ApplyPage(c, s).versions
<1> DEFINE S == {s \in Seq(Saved) : ApplyPage(b, s).versions = ApplyPage(c, s).versions}
<1>1. <<>> \in S
  <2>1. ApplyPage(b, <<>>) = b /\ ApplyPage(c, <<>>) = c /\ <<>> \in Seq(Saved)
    BY ApplyPageEmpty
  <2> QED BY <2>1, Zenon
<1>2. ASSUME NEW s \in Seq(Saved), NEW e \in Saved, s \in S PROVE Append(s, e) \in S
  <2>1. /\ Append(s, e) \in Seq(Saved)
        /\ ApplyPage(b, Append(s, e)) = ApplyToBoth(ApplyPage(b, s), e)
        /\ ApplyPage(c, Append(s, e)) = ApplyToBoth(ApplyPage(c, s), e)
    BY ApplyPageAppend
  <2>2. ApplyToBoth(ApplyPage(b, s), e).versions = ApplyToBoth(ApplyPage(c, s), e).versions
    BY <1>2 DEF ApplyToBoth
  <2> QED BY <2>1, <2>2
<1> HIDE DEF S
<1>3. \A s \in Seq(Saved) : s \in S
  BY <1>1, <1>2, SeqInduction
<1> QED BY <1>3 DEF S

\* Dropping events that name no version leaves them as they are.
LEMMA VersionsDropped ==
    ASSUME NEW D, \A e \in D : e.version = Nothing
    PROVE  \A s \in Seq(Saved) :
              ApplyPage(NoProjection, Drop(s, D)).versions = ApplyPage(NoProjection, s).versions
<1> DEFINE o == NoProjection
           OK(v) == v = [a \in Agents |-> v[a]]
           S == {s \in Seq(Saved) : /\ OK(ApplyPage(o, s).versions)
                                    /\ ApplyPage(o, Drop(s, D)).versions = ApplyPage(o, s).versions}
<1>1. <<>> \in S
  <2>1. ApplyPage(o, <<>>) = o /\ Drop(<<>>, D) = <<>> /\ <<>> \in Seq(Saved)
    BY ApplyPageEmpty, DropEmpty
  <2>2. OK(o.versions)
    BY DEF NoProjection
  <2> HIDE DEF OK, o
  <2> QED BY <2>1, <2>2, Zenon
<1> HIDE DEF o
<1>2. ASSUME NEW s \in Seq(Saved), NEW e \in Saved, s \in S PROVE Append(s, e) \in S
  <2> DEFINE q == Drop(s, D)
             v == ApplyPage(o, s).versions
  <2>1. /\ Append(s, e) \in Seq(Saved) /\ q \in Seq(Saved)
        /\ Drop(Append(s, e), D) = IF e \in D THEN q ELSE Append(q, e)
    BY DropIs, DropAppend
  <2>2. OK(v) /\ ApplyPage(o, q).versions = v
    BY <1>2
  <2> HIDE DEF q
  <2>3. /\ ApplyPage(o, Append(s, e)) = ApplyToBoth(ApplyPage(o, s), e)
        /\ ApplyPage(o, Append(q, e)) = ApplyToBoth(ApplyPage(o, q), e)
    BY <2>1, ApplyPageAppend
  <2>4. \A b : ApplyToBoth(b, e).versions = ApplyToVersions(b.versions, e)
    BY DEF ApplyToBoth
  <2> HIDE DEF v
  <2>5. OK(ApplyToVersions(v, e)) /\ (e \in D => ApplyToVersions(v, e) = v)
    BY <2>2 DEF ApplyToVersions, Present
  <2> HIDE DEF OK
  <2>6. ApplyPage(o, Append(s, e)).versions = ApplyToVersions(v, e)
    BY <2>3, <2>4 DEF v
  <2>7. ApplyPage(o, Append(q, e)).versions = ApplyToVersions(v, e)
    BY <2>2, <2>3, <2>4
  <2>8. ApplyPage(o, Drop(Append(s, e), D)).versions = ApplyToVersions(v, e)
    BY <2>1, <2>2, <2>5, <2>7
  <2> QED BY <2>1, <2>5, <2>6, <2>8
<1> HIDE DEF S
<1>3. \A s \in Seq(Saved) : s \in S
  BY <1>1, <1>2, SeqInduction
<1> QED BY <1>3 DEF S, o

\* The tasks by their id are the same tasks.
LEMMA ByIdIs ==
    ASSUME NEW s, IdsOK(s)
    PROVE  IdsOK(ById(AsSet(s))) /\ AsSet(ById(AsSet(s))) = AsSet(s)
<1> DEFINE tasks == AsSet(s)
           ids == Ids(tasks)
           N == Cardinality(ids)
           Of(n) == TaskIn(tasks, Nth(ids, n))
           new == [n \in 1..N |-> Of(n)]
<1>1. HasIds(tasks) /\ IsFiniteSet(tasks)
  <2>1. s \in Seq(AsSet(s)) /\ HasIds(AsSet(s))
    BY DEF IdsOK
  <2> QED BY <2>1, AsSetFinite
<1>2. \A x, y \in tasks : x.task_id = y.task_id => x = y
  BY DEF IdsOK, AsSet
<1>3. IsFiniteSet(ids) /\ ids \in SUBSET Int /\ \A t \in tasks : t.task_id \in ids
  <2> HIDE DEF tasks
  <2> DEFINE f == [t \in tasks |-> t.task_id]
  <2>1. f \in Surjection(tasks, ids)
    BY DEF Surjection, Ids
  <2>2. IsFiniteSet(ids)
    <3> HIDE DEF ids, f
    <3> QED BY <1>1, <2>1, FS_Surjection
  <2>3. ids \subseteq Names
    BY <1>1 DEF Ids, HasIds
  <2>4. Names \subseteq Int
    BY ReplayConstantsOK
  <2>5. \A t \in tasks : t.task_id \in ids
    BY DEF Ids
  <2> HIDE DEF ids
  <2> QED BY <2>2, <2>3, <2>4, <2>5
<1>4. \A id \in ids : TaskIn(tasks, id) \in tasks /\ TaskIn(tasks, id).task_id = id
  <2> HIDE DEF tasks
  <2> SUFFICES ASSUME NEW id \in ids
               PROVE  TaskIn(tasks, id) \in tasks /\ TaskIn(tasks, id).task_id = id
    OBVIOUS
  <2>1. \E t \in tasks : t.task_id = id
    BY DEF Ids
  <2> QED BY <2>1 DEF TaskIn
<1>5. /\ N \in Nat
      /\ \A n \in 1..N : Nth(ids, n) \in ids /\ \A m \in 1..N : n < m => Nth(ids, n) < Nth(ids, m)
      /\ \A x \in ids : \E n \in 1..N : Nth(ids, n) = x
  <2> HIDE DEF ids
  <2>1. /\ Cardinality(ids) \in Nat
        /\ \A n \in 1..Cardinality(ids) :
              /\ Nth(ids, n) \in ids
              /\ \A m \in 1..Cardinality(ids) : n < m => Nth(ids, n) < Nth(ids, m)
        /\ \A x \in ids : \E n \in 1..Cardinality(ids) : Nth(ids, n) = x
    BY <1>3, Ranked, Zenon
  <2> QED BY <2>1
<1>6. ById(AsSet(s)) = new
  BY DEF ById
<1> HIDE DEF ids, N
<1>7. \A n \in 1..N : Of(n) \in tasks /\ Of(n).task_id = Nth(ids, n)
  <2> HIDE DEF tasks
  <2> QED BY <1>4, <1>5
<1> HIDE DEF tasks, Of
<1>8. AsSet(new) = tasks
  <2>1. AsSet(new) \subseteq tasks
    BY <1>7 DEF AsSet
  <2>2. ASSUME NEW t \in tasks PROVE t \in AsSet(new)
    <3>1. PICK n \in 1..N : Nth(ids, n) = t.task_id
      BY <1>3, <1>5
    <3>2. Of(n) = t
      BY <1>2, <1>7, <3>1
    <3>3. new[n] = t /\ n \in DOMAIN new
      BY <3>2
    <3> HIDE DEF new
    <3> QED BY <3>3 DEF AsSet
  <2> HIDE DEF new
  <2> QED BY <2>1, <2>2
<1>9. new \in Seq(tasks)
  BY <1>5, <1>7
<1>10. \A i, j \in DOMAIN new : new[i].task_id = new[j].task_id => i = j
  <2>1. \A n \in 1..N : Nth(ids, n) \in Int
    BY <1>3, <1>5
  <2>2. \A n, m \in 1..N : n < m => Of(n).task_id # Of(m).task_id
    BY <1>5, <1>7, <2>1
  <2>3. \A n, m \in 1..N : n = m \/ n < m \/ m < n
    BY <1>5
  <2> QED BY <2>2, <2>3
<1> HIDE DEF new
<1>11. IdsOK(new)
  BY <1>1, <1>8, <1>9, <1>10 DEF IdsOK
<1> QED BY <1>6, <1>8, <1>11 DEF tasks

\* A stored snapshot is like the replay of the events behind it.
LEMMA SnapshotSame ==
    ASSUME NEW s \in Seq(Saved)
    PROVE  /\ Same(SnapshotProjection(s), ApplyPage(NoProjection, s))
           /\ (\A e \in Churn(s) : e.version = Nothing) =>
                 SnapshotProjection(s).versions = ApplyPage(NoProjection, s).versions
<1> DEFINE both == ApplyPage(NoProjection, Compress(s))
           full == ApplyPage(NoProjection, s)
           snap == SnapshotProjection(s)
           B(x) == ById(AsSet(x))
           tasks == both.view.tasks
           d == both.view.dependencies
           h == both.view.handoffs
<1>1. Same(both, full)
  <2> DEFINE D == Churn(s)
  <2>1. \A e \in D : e.type = "file_modified"
    BY DEF Churn
  <2> HIDE DEF D
  <2>2. Same(ApplyPage(NoProjection, Drop(s, D)), ApplyPage(NoProjection, s))
    BY <2>1, SameDropped
  <2> QED BY <2>2 DEF D, Compress
<1>2. snap = [both EXCEPT !.view.tasks = B(@)]
  BY DEF SnapshotProjection
<1>3. both = [view |-> both.view, metrics |-> both.metrics, versions |-> both.versions]
  <2>1. Len(Compress(s)) \in Nat /\ Compress(s) \in Seq(Saved)
    BY DropIs DEF Compress
  <2> DEFINE c == Compress(s)
             S == {q \in Seq(Saved) : LET r == ApplyPage(NoProjection, q)
                                      IN r = [view |-> r.view, metrics |-> r.metrics,
                                              versions |-> r.versions]}
  <2>2. <<>> \in S
    <3>1. ApplyPage(NoProjection, <<>>) = NoProjection /\ <<>> \in Seq(Saved)
      BY ApplyPageEmpty
    <3>2. NoProjection = [view |-> NoProjection.view, metrics |-> NoProjection.metrics,
                          versions |-> NoProjection.versions]
      BY DEF NoProjection
    <3> QED BY <3>1, <3>2, Zenon
  <2>3. ASSUME NEW q \in Seq(Saved), NEW e \in Saved, q \in S PROVE Append(q, e) \in S
    <3>1. Append(q, e) \in Seq(Saved)
          /\ ApplyPage(NoProjection, Append(q, e)) = ApplyToBoth(ApplyPage(NoProjection, q), e)
      BY ApplyPageAppend
    <3> QED BY <3>1 DEF ApplyToBoth
  <2> HIDE DEF S
  <2>4. \A q \in Seq(Saved) : q \in S
    BY <2>2, <2>3, SeqInduction
  <2> QED BY <2>1, <2>4 DEF S
<1> HIDE DEF both, full, snap, B
<1>4. ViewOK(both.view) /\ IdsOK(tasks)
      /\ both.view = [tasks |-> tasks, dependencies |-> d, handoffs |-> h]
  BY <1>1 DEF Same, ViewOK
<1> DEFINE m == both.metrics
           u == both.versions
           v == both.view
           w == [v EXCEPT !.tasks = B(@)]
<1>5. w = [tasks |-> B(tasks), dependencies |-> d, handoffs |-> h]
  <2> HIDE DEF tasks, d, h, v
  <2>1. [[tasks |-> tasks, dependencies |-> d, handoffs |-> h] EXCEPT !.tasks = B(@)]
          = [tasks |-> B(tasks), dependencies |-> d, handoffs |-> h]
    OBVIOUS
  <2>2. v = [tasks |-> tasks, dependencies |-> d, handoffs |-> h]
    BY <1>4 DEF v
  <2> QED BY <2>1, <2>2, Zenon
<1>6. snap = [view |-> w, metrics |-> m, versions |-> u]
  <2> HIDE DEF m, v, u
  <2>1. both = [view |-> v, metrics |-> m, versions |-> u]
    BY <1>3 DEF v, m, u
  <2>2. [[view |-> v, metrics |-> m, versions |-> u] EXCEPT !.view.tasks = B(@)]
          = [view |-> w, metrics |-> m, versions |-> u]
    BY SMTT(30)
  <2> HIDE DEF w
  <2> QED BY <1>2, <2>1, <2>2, Zenon
<1>7. IdsOK(B(tasks)) /\ AsSet(B(tasks)) = AsSet(tasks)
  <2> HIDE DEF tasks
  <2> QED BY <1>4, ByIdIs DEF B
<1> HIDE DEF w, m, v, u
<1>8. /\ snap.view = w /\ snap.metrics = m /\ snap.versions = u
      /\ w.tasks = B(tasks) /\ w.dependencies = d /\ w.handoffs = h
  BY <1>5, <1>6
<1>9. ViewOK(w)
  BY <1>5, <1>7, <1>8 DEF ViewOK
<1>10. Same(snap, full)
  BY <1>1, <1>7, <1>8, <1>9 DEF Same, m
<1>11. (\A e \in Churn(s) : e.version = Nothing) => u = full.versions
  BY VersionsDropped DEF u, both, full, Compress
<1> QED BY <1>8, <1>10, <1>11 DEF snap, full

-----------------------------------------------------------------------------
(* pages                                                                    *)

\* One page after another is one page.
LEMMA PageConcat ==
    ASSUME NEW b, NEW T, NEW p \in Seq(T)
    PROVE  \A q \in Seq(T) : ApplyPage(ApplyPage(b, p), q) = ApplyPage(b, p \o q)
<1> DEFINE c == ApplyPage(b, p)
           S == {q \in Seq(T) : ApplyPage(c, q) = ApplyPage(b, p \o q)}
<1>1. <<>> \in S
  <2>1. p \o <<>> = p /\ <<>> \in Seq(T)
    OBVIOUS
  <2>2. ApplyPage(c, <<>>) = c
    BY ApplyPageEmpty
  <2> QED BY <2>1, <2>2, Zenon
<1>2. ASSUME NEW q \in Seq(T), NEW e \in T, q \in S PROVE Append(q, e) \in S
  <2> DEFINE r == p \o q
  <2>1. r \in Seq(T) /\ Append(q, e) \in Seq(T) /\ p \o Append(q, e) = Append(r, e)
    BY ConcatAppend
  <2>2. ApplyPage(c, q) = ApplyPage(b, r)
    BY <1>2
  <2> HIDE DEF c, r
  <2>3. /\ ApplyPage(c, Append(q, e)) = ApplyToBoth(ApplyPage(c, q), e)
        /\ ApplyPage(b, Append(r, e)) = ApplyToBoth(ApplyPage(b, r), e)
    BY <2>1, ApplyPageAppend
  <2> QED BY <2>1, <2>2, <2>3
<1> HIDE DEF S
<1>3. \A q \in Seq(T) : q \in S
  BY <1>1, <1>2, SeqInduction
<1> QED BY <1>3 DEF S, c

LEMMA SlicesMeet ==
    ASSUME NEW T, NEW s \in Seq(T), NEW i \in 0..Len(s), NEW j \in 0..Len(s), i <= j
    PROVE  /\ SubSeq(s, 1, i) \in Seq(T) /\ SubSeq(s, i + 1, j) \in Seq(T)
           /\ SubSeq(s, 1, i) \o SubSeq(s, i + 1, j) = SubSeq(s, 1, j)
OBVIOUS

\* The pages' ends run from the start to the end of the events.
LEMMA PageEnds ==
    ASSUME NEW s, Len(s) \in Nat, NEW size \in Nat \ {0}
    PROVE  /\ PageEnd(s, size, 0) = 0
           /\ \A p \in Nat : PageEnd(s, size, p) \in 0..Len(s)
           /\ \A p \in Nat \ {0} : PageEnd(s, size, p - 1) <= PageEnd(s, size, p)
           /\ PagesOf(s, size) \in Nat /\ PageEnd(s, size, PagesOf(s, size)) = Len(s)
<1> DEFINE N == Len(s)
           E(p) == PageEnd(s, size, p)
<1>1. \A p \in Nat : p * size \in Nat /\ (p + 1) * size = p * size + size /\ p * size >= p
  <2> DEFINE A == {p \in Nat : p * size \in Nat /\ p * size >= p}
  <2>1. \A p \in Nat : (p + 1) * size = p * size + size
    OBVIOUS
  <2>2. 0 \in A
    OBVIOUS
  <2>3. \A p \in Nat : p \in A => p + 1 \in A
    BY <2>1
  <2> HIDE DEF A
  <2>4. \A p \in Nat : p \in A
    BY <2>2, <2>3, SetInduction
  <2> QED BY <2>1, <2>4 DEF A
<1>2. 0 * size = 0
  OBVIOUS
<1>3. \A p \in Nat : E(p) = IF p * size < N THEN p * size ELSE N
  BY DEF PageEnd
<1>4. E(0) = 0
  BY <1>2, <1>3
<1>5. ASSUME NEW p \in Nat PROVE E(p) \in 0..N
  <2> DEFINE a == p * size
  <2>1. a \in Nat /\ N \in Nat /\ E(p) = IF a < N THEN a ELSE N
    BY <1>1, <1>3
  <2> HIDE DEF a, E, N
  <2> QED BY <2>1
<1>6. ASSUME NEW p \in Nat \ {0} PROVE E(p - 1) <= E(p)
  <2> DEFINE q == p - 1
             a == q * size
             b == p * size
  <2>1. q \in Nat /\ p \in Nat /\ q + 1 = p
    OBVIOUS
  <2> HIDE DEF q
  <2>2. a \in Nat /\ b = a + size
    BY <1>1, <2>1
  <2>3. E(q) = (IF a < N THEN a ELSE N) /\ E(p) = (IF b < N THEN b ELSE N)
    BY <1>3, <2>1
  <2> HIDE DEF a, b, E
  <2> QED BY <2>2, <2>3 DEF q
<1> HIDE DEF E, N
<1>7. PagesOf(s, size) \in Nat /\ E(PagesOf(s, size)) = N
  <2> DEFINE S == {p \in 0..N : E(p) = N}
  <2>0. N \in Nat
    BY DEF N
  <2>1. N \in S
    <3>1. N * size >= N /\ N * size \in Nat
      BY <1>1, <2>0
    <3> QED BY <1>3, <2>0, <3>1
  <2>2. PICK p \in S : \A m \in S : p <= m
    <3>1. S \in SUBSET Nat /\ S # {}
      BY <2>0, <2>1
    <3> HIDE DEF S
    <3> QED BY <3>1, LeastNumber
  <2>3. \A q \in 0..(p - 1) : E(q) < N
    <3> SUFFICES ASSUME NEW q \in 0..(p - 1) PROVE E(q) < N
      OBVIOUS
    <3>1. q \in Nat /\ q \in 0..N /\ q < p
      BY <2>0
    <3>2. q \notin S
      BY <2>2, <3>1
    <3>3. E(q) \in 0..N /\ E(q) # N
      BY <1>5, <3>1, <3>2
    <3> QED BY <2>0, <3>3
  <2> DEFINE First(x) == E(x) = N /\ \A q \in 0..(x - 1) : E(q) < N
  <2>4. \E x \in 0..N : First(x)
    BY <2>3
  <2>5. PagesOf(s, size) = CHOOSE x \in 0..N : First(x)
    BY DEF PagesOf, E, N
  <2>6. PagesOf(s, size) \in 0..N /\ First(PagesOf(s, size))
    <3> HIDE DEF First
    <3> QED BY <2>4, <2>5
  <2> QED BY <2>0, <2>6
<1> QED BY <1>4, <1>5, <1>6, <1>7 DEF E, N

\* Page by page comes to the same as all at once.
LEMMA PagesAreOne ==
    ASSUME NEW T, NEW s \in Seq(T), NEW size \in Nat \ {0}, NEW b
    PROVE  ApplyPages(b, s, size) = ApplyPage(b, s)
<1> DEFINE K == PagesOf(s, size)
           E(p) == PageEnd(s, size, p)
           Page(p) == SubSeq(s, E(p - 1) + 1, E(p))
           Step(x, p) == ApplyPage(x, Page(p))
           Run(f, k) == f = [i \in 0..k |-> IF i = 0 THEN b ELSE Step(f[i - 1], i)]
           run == CHOOSE f : Run(f, K)
<1>1. /\ Len(s) \in Nat /\ E(0) = 0 /\ \A p \in Nat : E(p) \in 0..Len(s)
      /\ \A p \in Nat \ {0} : E(p - 1) <= E(p)
      /\ K \in Nat /\ E(K) = Len(s)
  BY PageEnds
<1>2. ApplyPages(b, s, size) = run[K]
  BY DEF ApplyPages
<1> HIDE DEF Step, K, E
<1>3. \E f : Run(f, K)
  <2> DEFINE S == {k \in Nat : \E f : Run(f, k)}
  <2>1. 0 \in S
    <3>1. Run([i \in 0..0 |-> b], 0)
      OBVIOUS
    <3> QED BY <3>1
  <2>2. ASSUME NEW k \in Nat, k \in S PROVE k + 1 \in S
    <3>1. PICK f : Run(f, k)
      BY <2>2
    <3> DEFINE g == [i \in 0..k + 1 |-> IF i = k + 1 THEN Step(f[i - 1], i) ELSE f[i]]
    <3>2. Run(g, k + 1)
      BY <3>1
    <3> HIDE DEF g, Run
    <3> QED BY <3>2
  <2> HIDE DEF S
  <2>3. \A k \in Nat : k \in S
    BY <2>1, <2>2, SetInduction
  <2> QED BY <1>1, <2>3 DEF S
<1>4. Run(run, K)
  <2> HIDE DEF Run
  <2> QED BY <1>3
<1> HIDE DEF run
<1>5. run[0] = b /\ \A i \in 1..K : run[i] = Step(run[i - 1], i)
  <2>1. run = [i \in 0..K |-> IF i = 0 THEN b ELSE Step(run[i - 1], i)]
    BY <1>4
  <2>2. K \in Nat
    BY <1>1
  <2> QED BY <2>1, <2>2
<1> DEFINE A == {p \in 0..K : run[p] = ApplyPage(b, SubSeq(s, 1, E(p)))}
<1>6. 0 \in A
  <2>1. SubSeq(s, 1, 0) = <<>>
    BY PrefixFacts
  <2>2. ApplyPage(b, <<>>) = b
    BY ApplyPageEmpty
  <2>3. run[0] = ApplyPage(b, SubSeq(s, 1, E(0)))
    BY <1>1, <1>5, <2>1, <2>2, Zenon
  <2> QED BY <1>1, <2>3
<1>7. ASSUME NEW p \in 0..K, p \in A, p < K PROVE p + 1 \in A
  <2> DEFINE i == E(p)
             j == E(p + 1)
  <2>1. p + 1 \in 1..K /\ p + 1 \in 0..K /\ (p + 1) - 1 = p /\ p \in Nat /\ p + 1 \in Nat \ {0}
    BY <1>1, <1>7
  <2>2. i \in 0..Len(s) /\ j \in 0..Len(s) /\ i <= j
    BY <1>1, <2>1
  <2>3. run[p + 1] = ApplyPage(run[p], SubSeq(s, i + 1, j))
    BY <1>5, <2>1 DEF Step
  <2>4. run[p] = ApplyPage(b, SubSeq(s, 1, i))
    BY <1>7
  <2> HIDE DEF i, j
  <2>5. /\ SubSeq(s, 1, i) \in Seq(T) /\ SubSeq(s, i + 1, j) \in Seq(T)
        /\ SubSeq(s, 1, i) \o SubSeq(s, i + 1, j) = SubSeq(s, 1, j)
    BY <2>2, SlicesMeet
  <2> DEFINE x == SubSeq(s, 1, i)
             y == SubSeq(s, i + 1, j)
  <2>6. ApplyPage(ApplyPage(b, x), y) = ApplyPage(b, x \o y)
    <3>1. x \in Seq(T) /\ y \in Seq(T)
      BY <2>5
    <3> HIDE DEF x, y
    <3> QED BY <3>1, PageConcat
  <2>7. run[p + 1] = ApplyPage(b, SubSeq(s, 1, j))
    BY <2>3, <2>4, <2>5, <2>6 DEF x, y
  <2> QED BY <2>1, <2>7 DEF j
<1>8. K \in A
  <2> HIDE DEF A
  <2>1. \A p \in 0..K : p \in A /\ p < K => p + 1 \in A
    BY <1>7
  <2>2. K \in 0..K
    BY <1>1
  <2> QED BY <1>1, <1>6, <2>1, <2>2, BoundedInduction
<1>9. SubSeq(s, 1, Len(s)) = s
  BY PrefixFacts
<1> QED BY <1>1, <1>2, <1>8, <1>9

\* Wherever the snapshot was taken and however the events behind it are paged,
\* the task tools see what a full replay gives
\* (load_task_projection, TaskStateReducer, AgentPerformanceReducer).
THEOREM ProjectionCorrect == LogSpec => []ProjectionKeepsTasks
<1>1. ASSUME LogTypeOK, NEW cut \in {0} \cup Cuts, NEW size \in PageSizes
      PROVE  LET both == Projected(log, cut, size)
                 full == ApplyPage(NoProjection, log)
             IN /\ Same(both, full)
                /\ (\A e \in Churn(UpTo(cut)) : e.version = Nothing) => both.versions = full.versions
  <2> DEFINE a == SubSeq(log, 1, cut)
             b == Behind(log, cut)
             snap == SnapshotProjection(a)
             both == ApplyPage(NoProjection, a)
  <2>1. log \in Seq(Saved) /\ Len(log) \in Nat /\ cut \in 0..Len(log) /\ size \in Nat \ {0}
    <3>1. log \in Seq(Saved)
      BY <1>1, LogIs
    <3> QED BY <3>1, LogConstantsOK DEF Cuts
  <2>2. a \in Seq(Saved) /\ b \in Seq(Saved)
    BY <2>1, PrefixFacts, SuffixFacts
  <2>3. a \o b = log
    <3>1. SubSeq(log, 1, cut) \o SubSeq(log, cut + 1, Len(log)) = SubSeq(log, 1, Len(log))
      <4>1. Len(log) \in 0..Len(log) /\ cut <= Len(log)
        BY <2>1
      <4> QED BY <2>1, <4>1, SlicesMeet
    <3>2. SubSeq(log, 1, Len(log)) = log
      BY <2>1, PrefixFacts
    <3> QED BY <3>1, <3>2 DEF Behind
  <2>4. Projected(log, cut, size) = ApplyPages(snap, b, size)
    BY DEF Projected, Behind
  <2>5. UpTo(cut) = a
    BY DEF UpTo
  <2> HIDE DEF a, b
  <2>6. /\ Same(snap, both)
        /\ (\A e \in Churn(a) : e.version = Nothing) => snap.versions = both.versions
    BY <2>2, SnapshotSame
  <2> HIDE DEF snap, both
  <2>7. ApplyPages(snap, b, size) = ApplyPage(snap, b)
    BY <2>1, <2>2, PagesAreOne
  <2>8. /\ Same(ApplyPage(snap, b), ApplyPage(both, b))
        /\ (\A e \in Churn(a) : e.version = Nothing) =>
               ApplyPage(snap, b).versions = ApplyPage(both, b).versions
    BY <2>2, <2>6, SamePage, VersionsPage
  <2>9. ApplyPage(both, b) = ApplyPage(NoProjection, log)
    <3>1. ApplyPage(ApplyPage(NoProjection, a), b) = ApplyPage(NoProjection, a \o b)
      BY <2>2, PageConcat
    <3> QED BY <2>3, <3>1 DEF both
  <2> QED BY <2>4, <2>5, <2>7, <2>8, <2>9
<1>2. LogTypeOK => ProjectionKeepsTasks
  <2> DEFINE full == ApplyPage(NoProjection, log)
             tasks == AsSet(full.view.tasks)
             counts == AllCounts(full.metrics)
  <2> SUFFICES ASSUME LogTypeOK, NEW cut \in {0} \cup Cuts, NEW size \in PageSizes
               PROVE  LET both == Projected(log, cut, size)
                          seen == AsSet(both.view.tasks)
                      IN /\ seen = tasks
                         /\ both.view.dependencies = full.view.dependencies
                         /\ both.view.handoffs = full.view.handoffs
                         /\ \A a \in Agents : AgentQueue(seen, a) = AgentQueue(tasks, a)
                         /\ AllCounts(both.metrics) = counts
                         /\ \A old : Decision(seen, AllCounts(both.metrics), old)
                                       = Decision(tasks, counts, old)
                         /\ (\A e \in Churn(UpTo(cut)) : e.version = Nothing) =>
                               both.versions = full.versions
    BY DEF ProjectionKeepsTasks
  <2> DEFINE both == Projected(log, cut, size)
             seen == AsSet(both.view.tasks)
  <2>1. /\ Same(both, full)
        /\ (\A e \in Churn(UpTo(cut)) : e.version = Nothing) => both.versions = full.versions
    BY <1>1
  <2> HIDE DEF both, full
  <2>2. /\ seen = tasks
        /\ both.view.dependencies = full.view.dependencies
        /\ both.view.handoffs = full.view.handoffs
    BY <2>1 DEF Same
  <2>3. AllCounts(both.metrics) = counts
    BY <2>1 DEF Same, AllCounts
  <2> HIDE DEF seen, tasks, counts
  <2>4. \A old : Decision(seen, AllCounts(both.metrics), old) = Decision(tasks, counts, old)
    BY <2>2, <2>3
  <2>5. \A a \in Agents : AgentQueue(seen, a) = AgentQueue(tasks, a)
    BY <2>2
  <2> QED BY <2>1, <2>2, <2>3, <2>4, <2>5 DEF both, seen, tasks, counts
<1> QED BY <1>2, LogTypeCorrect, PTL

=============================================================================
