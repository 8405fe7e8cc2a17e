--------------------------- MODULE WorkflowProofs ---------------------------
(***************************************************************************)
(* What the engine guarantees for every set of nodes, every graph of them, *)
(* every budget of retries and every degree of parallelism; and that the   *)
(* algorithms on the graph are right.                                      *)
(***************************************************************************)
EXTENDS WorkflowGraph, WellFoundedInduction, FiniteSetTheorems, TLAPS

Marking == [Nodes -> Statuses]

Active == {"ready", "running", "completed"}

\* A change of statuses keeps the order of the graph, when what is completed
\* remains so and what becomes active has all it depends on.
LEMMA OrderKept ==
    ASSUME NEW s \in Marking, NEW t \in Marking, NEW res, NEW res2, Ordered(s, res),
           \A n \in Nodes : s[n] = "completed" => t[n] = "completed",
           \A n \in Nodes : t[n] \in Active =>
              s[n] \in Active \/ \A m \in predecessors(n) : s[m] = "completed",
           \A n \in Nodes : t[n] = "completed" => n \in res2
    PROVE  Ordered(t, res2)
<1>1. \A n \in Nodes : \A m \in predecessors(n) : m \in Nodes
  BY DEF predecessors
<1> QED BY <1>1 DEF Ordered, Active

\* Failures complete nothing, and make ready only what ran.
LEMMA AfterFailuresOrdered ==
    ASSUME WorkflowTypeOK, Ordered(status, results), NEW F \in SUBSET Running
    PROVE  /\ AfterFailures(F) \in Marking
           /\ Ordered(AfterFailures(F), results)
<1> DEFINE t == AfterFailures(F)
<1>1. \A n \in F : n \in Nodes /\ status[n] = "running" /\ Failed(n) \in {"blocked", "failed", "ready"}
  BY DEF Running, Failed
<1>2. ASSUME NEW n \in Nodes
      PROVE  \/ t[n] = status[n]
             \/ status[n] = "running" /\ t[n] \in {"blocked", "failed", "ready"}
             \/ status[n] # "completed" /\ t[n] = "blocked"
  <2>1. CASE n \in F
    BY <1>1, <2>1 DEF AfterFailures
  <2>2. CASE n \notin F /\ MayMove(status[n], "blocked") /\ status[n] # "blocked"
    <3>1. status[n] # "completed"
      BY <2>2 DEF MayMove, Transitions
    <3> QED BY <2>2, <3>1 DEF AfterFailures
  <2>3. CASE n \notin F /\ ~(MayMove(status[n], "blocked") /\ status[n] # "blocked")
    BY <2>3 DEF AfterFailures
  <2> QED BY <2>1, <2>2, <2>3
<1>3. t \in Marking
  <2>1. \A n \in Nodes : t[n] \in Statuses
    BY <1>2 DEF WorkflowTypeOK, Statuses
  <2> QED BY <2>1 DEF AfterFailures, Marking
<1>4. status \in Marking
  BY DEF WorkflowTypeOK, Marking
<1> HIDE DEF t
<1>5. Ordered(t, results)
  <2>1. \A n \in Nodes : t[n] = "completed" => n \in results
    BY <1>2 DEF Ordered
  <2>2. \A n \in Nodes : status[n] = "completed" => t[n] = "completed"
    BY <1>2
  <2>3. \A n \in Nodes : t[n] \in Active => status[n] \in Active
    BY <1>2 DEF Active
  <2> QED BY <1>3, <1>4, <2>1, <2>2, <2>3, OrderKept
<1> QED BY <1>3, <1>5 DEF t

\* Completions complete what runs, with a result.
LEMMA AfterCompletionsOrdered ==
    ASSUME NEW s \in Marking, NEW res, Ordered(s, res), NEW C \in SUBSET Nodes,
           NEW res2, res \subseteq res2, \A n \in C : s[n] = "running" => n \in res2
    PROVE  /\ AfterCompletions(s, C) \in Marking
           /\ Ordered(AfterCompletions(s, C), res2)
<1> DEFINE t == AfterCompletions(s, C)
<1>1. \A n \in Nodes : \/ t[n] = s[n]
                       \/ s[n] = "running" /\ t[n] = "completed" /\ n \in C
  BY DEF AfterCompletions
<1>2. t \in Marking
  <2>1. \A n \in Nodes : t[n] \in Statuses
    BY <1>1 DEF Marking, Statuses
  <2> QED BY <2>1 DEF AfterCompletions, Marking
<1> HIDE DEF t
<1>3. \A n \in Nodes : t[n] = "completed" => n \in res2
  BY <1>1 DEF Ordered
<1>4. Ordered(t, res2)
  BY <1>1, <1>2, <1>3, OrderKept DEF Active
<1> QED BY <1>2, <1>4 DEF t

\* What is started has all it depends on.
LEMMA AfterStartingOrdered ==
    ASSUME NEW s \in Marking, NEW res, Ordered(s, res), NEW chosen \in SUBSET ready_set(s)
    PROVE  /\ AfterStarting(s, chosen) \in Marking
           /\ Ordered(AfterStarting(s, chosen), res)
<1> DEFINE t == AfterStarting(s, chosen)
<1>1. \A n \in chosen : /\ n \in Nodes /\ s[n] \in {"pending", "ready"}
                        /\ \A m \in predecessors(n) : s[m] = "completed"
  BY DEF ready_set
<1>2. \A n \in Nodes : t[n] = s[n] \/ (n \in chosen /\ t[n] = "running")
  BY DEF AfterStarting
<1>3. t \in Marking
  <2>1. \A n \in Nodes : t[n] \in Statuses
    BY <1>2 DEF Marking, Statuses
  <2> QED BY <2>1 DEF AfterStarting, Marking
<1>4. \A n \in Nodes : s[n] = "completed" => t[n] = "completed"
  BY <1>1 DEF AfterStarting
<1> HIDE DEF t
<1>5. \A n \in Nodes : t[n] = "completed" => n \in res
  BY <1>2 DEF Ordered
<1>6. Ordered(t, res)
  <2>1. \A n \in Nodes : t[n] \in Active =>
           s[n] \in Active \/ \A m \in predecessors(n) : s[m] = "completed"
    BY <1>1, <1>2
  <2> QED BY <1>3, <1>4, <1>5, <2>1, OrderKept
<1> QED BY <1>3, <1>6 DEF t

-----------------------------------------------------------------------------
(* one lemma per action                                                     *)

SavedType == [status: [Nodes -> Statuses], retries: [Nodes -> Nat], results: SUBSET Nodes]

LEMMA GraphType ==
    ASSUME NEW s \in Marking, NEW r \in [Nodes -> Nat], NEW res \in SUBSET Nodes
    PROVE  /\ Graph(s, r, res) \in SavedType
           /\ Graph(s, r, res).status = s /\ Graph(s, r, res).results = res
BY DEF Graph, SavedType, Marking

LEMMA InitWorkflow == WorkflowInit => WorkflowIInv
<1> SUFFICES ASSUME WorkflowInit PROVE WorkflowIInv
  OBVIOUS
<1>1. status \in Marking /\ retries \in [Nodes -> Nat] /\ results \in SUBSET Nodes
  BY DEF WorkflowInit, Marking, Statuses
<1>2. saved \in SavedType /\ saved.status = status /\ saved.results = results
  BY <1>1, GraphType DEF WorkflowInit
<1>3. Ordered(status, results)
  BY DEF WorkflowInit, Ordered
<1>4. Ordered(saved.status, saved.results)
  BY <1>2, <1>3
<1>5. WorkflowTypeOK
  BY <1>1 DEF WorkflowInit, WorkflowTypeOK, Marking
<1>6. held \subseteq Running
  BY DEF WorkflowInit
<1> QED BY <1>2, <1>3, <1>4, <1>5, <1>6 DEF WorkflowIInv, SavedType, WorkflowInit

LEMMA CreateStep ==
    ASSUME WorkflowIInv, create_workflow
    PROVE  WorkflowIInv'
<1>1. /\ WorkflowTypeOK /\ Ordered(status, results) /\ ~done /\ held = {}
      /\ UNCHANGED <<edges, budget, retries, results, held, done, crashes, failures>>
  BY DEF WorkflowIInv, create_workflow
<1>2. status' \in Marking /\ Ordered(status', results)
  <2>1. CASE UNCHANGED status
    BY <1>1, <2>1 DEF WorkflowTypeOK, Marking
  <2>2. CASE status' = [n \in Nodes |-> IF predecessors(n) = {} THEN "ready" ELSE "pending"]
    BY <2>2 DEF Marking, Statuses, Ordered
  <2> QED BY <2>1, <2>2 DEF create_workflow
<1>3. saved' = Graph(status', retries, results) /\ phase' \in {"created", "refused"}
  BY DEF create_workflow
<1>4. saved' \in SavedType /\ saved'.status = status' /\ saved'.results = results
  BY <1>1, <1>2, <1>3, GraphType DEF WorkflowTypeOK
<1>5. WorkflowTypeOK'
  BY <1>1, <1>2, <1>3 DEF WorkflowTypeOK, Marking
<1>6. Ordered(status, results)' /\ Ordered(saved.status, saved.results)'
  BY <1>1, <1>2, <1>4 DEF Ordered, predecessors
<1> QED BY <1>1, <1>4, <1>5, <1>6 DEF WorkflowIInv, SavedType

\* Whoever was told to run a node runs it: answers take the node from him.
LEMMA HeldRun ==
    ASSUME WorkflowTypeOK, held \subseteq Running, NEW F \in SUBSET Running, NEW C \in SUBSET Nodes,
           NEW chosen \in SUBSET ready_set(AfterCompletions(AfterFailures(F), C)),
           Ordered(status, results),
           NEW completed, completed = {n \in C : AfterFailures(F)[n] = "running"},
           NEW n \in ((held \ F) \ completed) \cup chosen
    PROVE  /\ n \in Nodes
           /\ AfterStarting(AfterCompletions(AfterFailures(F), C), chosen)[n] = "running"
<1> DEFINE s1 == AfterFailures(F)
           s2 == AfterCompletions(s1, C)
<1>1. n \in Nodes
  BY DEF Running, ready_set
<1>2. CASE n \in chosen
  BY <1>1, <1>2 DEF AfterStarting
<1>3. CASE n \notin chosen
  <2>1. n \in held /\ n \notin F /\ n \notin completed /\ status[n] = "running"
    BY <1>3 DEF Running
  <2>2. \A m \in F : GivenUp(m) => n \notin Cascade(m)
    <3> SUFFICES ASSUME NEW m \in F PROVE n \notin Cascade(m)
      OBVIOUS
    <3> DEFINE S == {k \in Nodes : status[k] \notin Active}
               follows(T) == {k \in Nodes : /\ predecessors(k) \cap (T \cup {m}) # {}
                                            /\ k # m /\ status[k] \notin {"completed", "blocked"}}
    <3>1. m \in Nodes /\ status[m] = "running"
      BY DEF Running
    <3>2. follows(S) \subseteq S
      <4> SUFFICES ASSUME NEW k \in follows(S), status[k] \in Active PROVE FALSE
        OBVIOUS
      <4>1. PICK j \in predecessors(k) : j \in S \/ j = m
        OBVIOUS
      <4>2. status[j] = "completed"
        BY <4>1 DEF Ordered, Active
      <4> QED BY <3>1, <4>1, <4>2 DEF Active
    <3>3. S \in SUBSET Nodes /\ n \notin S
      BY <2>1 DEF Active
    <3> QED BY <3>2, <3>3 DEF Cascade
  <2>3. s1[n] = "running"
    BY <1>1, <2>1, <2>2 DEF AfterFailures
  <2>4. n \notin C
    BY <2>1, <2>3
  <2>5. s2[n] = "running"
    BY <1>1, <2>3, <2>4 DEF AfterCompletions
  <2> QED BY <1>1, <1>3, <2>5 DEF AfterStarting
<1> QED BY <1>1, <1>2, <1>3

LEMMA StepStep ==
    ASSUME WorkflowIInv, NEW F \in SUBSET Nodes, NEW C \in SUBSET Nodes, Step(F, C)
    PROVE  WorkflowIInv'
<1> DEFINE s1 == AfterFailures(F)
           s2 == AfterCompletions(s1, C)
           completed == {n \in C : s1[n] = "running"}
           ready == ready_set(s2)
<1>1. /\ WorkflowTypeOK /\ Ordered(status, results) /\ F \in SUBSET Running /\ held \subseteq Running
      /\ phase = "created"
      /\ UNCHANGED <<phase, edges, budget, saved, crashes>>
  BY DEF WorkflowIInv, Step
<1>2. /\ results' = results \cup completed
      /\ retries' = [n \in Nodes |-> IF n \in F THEN RetriesAfter(n) ELSE retries[n]]
  BY DEF Step, step
<1>3. s1 \in Marking /\ Ordered(s1, results)
  BY <1>1, AfterFailuresOrdered
<1>4. s2 \in Marking /\ Ordered(s2, results')
  BY <1>2, <1>3, AfterCompletionsOrdered
<1>5. AfterStarting(s2, {}) = s2
  BY <1>4 DEF AfterStarting, Marking
<1>6. PICK chosen \in SUBSET (ready \ F) :
        /\ status' = AfterStarting(s2, chosen)
        /\ held' = ((held \ F) \ completed) \cup chosen
        /\ done' = FALSE \/ done' = IsDone(status', ready)
  BY <1>5 DEF Step, step
<1>7. status' \in Marking /\ Ordered(status', results')
  BY <1>4, <1>6, AfterStartingOrdered
<1>8. retries' \in [Nodes -> Nat]
  <2>1. \A n \in Nodes : RetriesAfter(n) \in Nat /\ retries[n] \in Nat
    BY <1>1 DEF WorkflowTypeOK, RetriesAfter
  <2> QED BY <1>2, <2>1
<1>9. \A n \in held' : n \in Nodes /\ status'[n] = "running"
  <2> TAKE n \in held'
  <2>1. chosen \in SUBSET ready_set(AfterCompletions(AfterFailures(F), C))
    OBVIOUS
  <2>2. completed = {k \in C : AfterFailures(F)[k] = "running"}
    OBVIOUS
  <2>3. n \in ((held \ F) \ completed) \cup chosen
    BY <1>6
  <2> HIDE DEF completed
  <2>4. n \in Nodes /\ AfterStarting(AfterCompletions(AfterFailures(F), C), chosen)[n] = "running"
    BY <1>1, <2>1, <2>2, <2>3, HeldRun
  <2> QED BY <1>6, <2>4
<1>10. chosen \subseteq Nodes /\ completed \subseteq Nodes
  BY DEF ready_set
<1>11. done' \in BOOLEAN /\ (done' => \A n \in Nodes : status'[n] \in Settled)
  BY <1>6 DEF IsDone
<1> HIDE DEF s1, s2, completed, ready
<1>12. WorkflowTypeOK'
  BY <1>1, <1>2, <1>6, <1>7, <1>8, <1>10, <1>11 DEF WorkflowTypeOK, Marking
<1>13. Ordered(status, results)' /\ Ordered(saved.status, saved.results)'
  BY <1>1, <1>7 DEF WorkflowIInv, Ordered, predecessors
<1>14. (held \subseteq Running)'
  BY <1>9 DEF Running
<1> QED BY <1>1, <1>11, <1>12, <1>13, <1>14 DEF WorkflowIInv

LEMMA SaveStep ==
    ASSUME WorkflowIInv, Save \/ Reload
    PROVE  WorkflowIInv'
<1>1. /\ WorkflowTypeOK /\ Ordered(status, results) /\ Ordered(saved.status, saved.results)
      /\ saved \in SavedType
      /\ done => \A n \in Nodes : status[n] \in Settled
      /\ held \subseteq Running /\ (phase = "new" => held = {})
  BY DEF WorkflowIInv, SavedType
<1>2. CASE Save
  <2>1. saved' \in SavedType /\ saved'.status = status /\ saved'.results = results
    BY <1>1, <1>2, GraphType DEF Save, WorkflowTypeOK, Marking
  <2>2. UNCHANGED <<phase, edges, budget, status, retries, results, held, done, crashes>>
    BY <1>2 DEF Save
  <2>3. WorkflowTypeOK'
    BY <1>1, <2>2 DEF WorkflowTypeOK
  <2>4. Ordered(status, results)' /\ Ordered(saved.status, saved.results)'
    BY <1>1, <2>1, <2>2 DEF Ordered, predecessors
  <2>5. done' => phase' = "created" /\ \A n \in Nodes : status'[n] \in Settled
    BY <2>2 DEF WorkflowIInv
  <2>6. (held \subseteq Running /\ (phase = "new" => held = {}))'
    BY <1>1, <2>2 DEF Running
  <2> QED BY <2>1, <2>3, <2>4, <2>5, <2>6 DEF WorkflowIInv, SavedType
<1>3. CASE Reload
  <2>1. /\ UNCHANGED <<phase, edges, budget, saved>>
        /\ status' = saved.status /\ retries' = saved.retries /\ results' = saved.results
        /\ held' = {} /\ done' = FALSE /\ crashes' = crashes + 1
    BY <1>3 DEF Reload
  <2>2. saved.status \in Marking /\ saved.retries \in [Nodes -> Nat] /\ saved.results \in SUBSET Nodes
    BY <1>1 DEF SavedType, Marking
  <2>3. WorkflowTypeOK'
    <3>1. crashes' \in Nat /\ done' \in BOOLEAN
      <4>1. crashes \in Nat
        BY <1>1 DEF WorkflowTypeOK
      <4>2. crashes' \in Nat
        BY <2>1, <4>1
      <4> QED BY <2>1, <4>2
    <3>2. status' \in Marking /\ retries' \in [Nodes -> Nat] /\ results' \subseteq Nodes
      BY <2>1, <2>2
    <3>3. /\ phase' \in {"new", "refused", "created"} /\ edges' \in SUBSET (Nodes \X Nodes)
          /\ held' \subseteq Nodes /\ budget' \in Budgets
      BY <1>1, <2>1 DEF WorkflowTypeOK
    <3> QED BY <3>1, <3>2, <3>3 DEF WorkflowTypeOK, Marking
  <2>4. Ordered(status, results)' /\ Ordered(saved.status, saved.results)'
    BY <1>1, <2>1 DEF Ordered, predecessors
  <2> QED BY <1>1, <2>1, <2>3, <2>4 DEF WorkflowIInv, SavedType
<1> QED BY <1>2, <1>3

LEMMA ResumeStep ==
    ASSUME WorkflowIInv, NEW D \in SUBSET Nodes, resume(D)
    PROVE  WorkflowIInv'
<1> DEFINE s1 == AfterCompletions(status, D)
           s == Resumed(D)
<1>1. /\ WorkflowTypeOK /\ Ordered(status, results) /\ phase = "created" /\ held \subseteq Running
      /\ UNCHANGED <<phase, edges, budget, retries, saved, crashes>>
      /\ results' = results \cup D
  BY DEF WorkflowIInv, resume
<1>2. s1 \in Marking /\ Ordered(s1, results')
  BY <1>1, AfterCompletionsOrdered DEF WorkflowTypeOK, Marking
<1>3. s = [n \in Nodes |-> IF n \in ready_set(s1) THEN "ready" ELSE s1[n]]
  BY DEF Resumed
<1>4. s \in Marking
  BY <1>2, <1>3 DEF Marking, Statuses
<1>5. AfterStarting(s, {}) = s
  BY <1>4 DEF AfterStarting, Marking
<1>6. PICK chosen \in SUBSET ready_set(s) :
        /\ status' = AfterStarting(s, chosen)
        /\ held' = (held \ D) \cup chosen
        /\ done' = FALSE \/ done' = IsDone(status', {})
  BY <1>5 DEF resume
<1>7. \A n \in held \ D : n \in Nodes /\ s[n] = "running"
  BY <1>1 DEF Running, Resumed, AfterCompletions, ready_set
<1> HIDE DEF s1, s
<1>8. Ordered(s, results')
  <2>1. \A n \in Nodes : s1[n] = "completed" => s[n] = "completed"
    BY <1>3 DEF ready_set
  <2>2. \A n \in Nodes : s[n] \in Active =>
           s1[n] \in Active \/ \A m \in predecessors(n) : s1[m] = "completed"
    BY <1>3 DEF ready_set
  <2>3. \A n \in Nodes : s[n] = "completed" => n \in results'
    BY <1>2, <1>3 DEF Ordered
  <2> QED BY <1>2, <1>4, <2>1, <2>2, <2>3, OrderKept
<1>9. status' \in Marking /\ Ordered(status', results')
  BY <1>1, <1>4, <1>6, <1>8, AfterStartingOrdered
<1>10. ready_set(s) \subseteq Nodes
  BY DEF ready_set
<1>11. done' \in BOOLEAN /\ (done' => \A n \in Nodes : status'[n] \in Settled)
  BY <1>6 DEF IsDone
<1>12. (held \subseteq Running)'
  BY <1>6, <1>7, <1>10 DEF Running, AfterStarting
<1>13. WorkflowTypeOK'
  BY <1>1, <1>6, <1>9, <1>10, <1>11 DEF WorkflowTypeOK, Marking
<1>14. Ordered(status, results)' /\ Ordered(saved.status, saved.results)'
  BY <1>1, <1>9 DEF WorkflowIInv, Ordered, predecessors
<1> QED BY <1>1, <1>11, <1>12, <1>13, <1>14 DEF WorkflowIInv

LEMMA NextWorkflow == WorkflowIInv /\ [WorkflowNext]_workflowVars => WorkflowIInv'
<1> SUFFICES ASSUME WorkflowIInv, [WorkflowNext]_workflowVars PROVE WorkflowIInv'
  OBVIOUS
<1>1. CASE UNCHANGED workflowVars
  BY <1>1 DEF workflowVars, WorkflowIInv, WorkflowTypeOK, Ordered, predecessors, Running
<1>2. CASE create_workflow
  BY <1>2, CreateStep
<1>3. CASE Save \/ Reload
  BY <1>3, SaveStep
<1>4. ASSUME NEW F \in SUBSET Nodes, NEW C \in SUBSET Nodes, Step(F, C) PROVE WorkflowIInv'
  BY <1>4, StepStep
<1>5. ASSUME NEW D \in SUBSET Nodes, resume(D) PROVE WorkflowIInv'
  BY <1>5, ResumeStep
<1> QED BY <1>1, <1>2, <1>3, <1>4, <1>5 DEF WorkflowNext

-----------------------------------------------------------------------------
(* theorems                                                                 *)

\* No node is made ready, runs or completes before all it depends on is completed
\* with a result, through failures, crashes and resumptions, and who was told to
\* run a node is the one who runs it.
THEOREM DependenciesRespected == WorkflowSpec => []WorkflowIInv
BY InitWorkflow, NextWorkflow, PTL DEF WorkflowSpec

\* After is_done nothing moves.
THEOREM DoneStaysDone == WorkflowSpec => DoneIsFinal
<1> DEFINE Final == done => status' = status \/ crashes' > crashes
<1>1. WorkflowIInv /\ [WorkflowNext]_workflowVars => [Final]_workflowVars
  <2> SUFFICES ASSUME WorkflowIInv, [WorkflowNext]_workflowVars, done, ~(crashes' > crashes)
               PROVE  status' = status
    OBVIOUS
  <2>1. /\ \A n \in Nodes : status[n] \in {"completed", "blocked", "failed"}
        /\ phase = "created" /\ status \in Marking /\ crashes \in Nat
    BY DEF WorkflowIInv, Settled, WorkflowTypeOK, Marking
  <2>2. status = [n \in Nodes |-> status[n]]
    BY <2>1 DEF Marking
  <2>3. \A C \in SUBSET Nodes : AfterCompletions(status, C) = status
    BY <2>1, <2>2 DEF AfterCompletions
  <2>4. ready_set(status) = {} /\ AfterStarting(status, {}) = status
    BY <2>1, <2>2 DEF ready_set, AfterStarting
  <2>5. ASSUME NEW F \in SUBSET Nodes, NEW C \in SUBSET Nodes, Step(F, C) PROVE status' = status
    <3>1. F = {}
      BY <2>1, <2>5 DEF Step, Running
    <3>2. AfterFailures(F) = status
      BY <2>2, <3>1 DEF AfterFailures
    <3>3. \/ \E chosen \in SUBSET (ready_set(status) \ F) : status' = AfterStarting(status, chosen)
          \/ ready_set(status) \ F # {}
      BY <2>3, <2>5, <3>2 DEF Step, step
    <3> QED BY <2>4, <3>1, <3>3
  <2>6. ASSUME NEW D \in SUBSET Nodes, resume(D) PROVE status' = status
    <3>1. Resumed(D) = status
      BY <2>2, <2>3, <2>4 DEF Resumed
    <3> QED BY <2>4, <2>6, <3>1 DEF resume
  <2>7. CASE UNCHANGED workflowVars \/ Save
    BY <2>7 DEF workflowVars, Save
  <2>8. ~create_workflow /\ ~Reload
    BY <2>1 DEF create_workflow, Reload
  <2> QED BY <2>5, <2>6, <2>7, <2>8 DEF WorkflowNext
<1> QED BY <1>1, DependenciesRespected, PTL DEF WorkflowSpec, DoneIsFinal

-----------------------------------------------------------------------------
(* loops as recursive functions                                             *)

LEMMA LeastNumber ==
    ASSUME NEW S \in SUBSET Nat, S # {}
    PROVE  \E n \in S : \A m \in S : n <= m
<1> DEFINE R == OpToRel(<, Nat)
<1>1. IsWellFoundedOn(R, Nat)
  BY NatLessThanWellFounded
<1>2. PICK n \in S : \A m \in S : <<m, n>> \notin R
  <2> HIDE DEF R
  <2> QED BY <1>1, WFMin, Zenon
<1>3. \A m \in S : ~(m < n)
  BY <1>2 DEF OpToRel
<1> HIDE DEF R
<1>4. n \in Nat /\ \A m \in S : m \in Nat
  OBVIOUS
<1>5. \A m \in S : n <= m
  BY <1>3, <1>4
<1> QED BY <1>5

LEMMA LeastIs ==
    ASSUME NEW S \in SUBSET Nodes, S # {}
    PROVE  Least(S) \in S /\ \A n \in S : Least(S) <= n
<1>1. S \in SUBSET Nat
  BY GraphConstantsOK
<1>2. \E n \in S : \A m \in S : n <= m
  BY <1>1, LeastNumber
<1> QED BY <1>2 DEF Least

\* Induction up to a bound.
LEMMA BoundedInduction ==
    ASSUME NEW N \in Nat, NEW S, 0 \in S, \A n \in 0..N : n \in S /\ n < N => n + 1 \in S
    PROVE  \A n \in 0..N : n \in S
<1> SUFFICES ASSUME \E n \in 0..N : n \notin S PROVE FALSE
  OBVIOUS
<1> DEFINE U == {n \in 0..N : n \notin S}
<1>1. U \in SUBSET Nat /\ U # {}
  OBVIOUS
<1>2. PICK n \in U : \A m \in U : n <= m
  <2> HIDE DEF U
  <2> QED BY <1>1, LeastNumber
<1>3. n # 0 /\ n - 1 \in 0..N /\ n - 1 \in S /\ n - 1 < N
  BY <1>2
<1> QED BY <1>2, <1>3

\* f is the run of N rounds from x, each of which takes a turn.
RunOf(f, N, S, x, turn) ==
    f \in [0..N -> S] /\ f[0] = x /\ \A k \in 1..N : f[k] = turn[<<k, f[k - 1]>>]

LEMMA Rounded ==
    ASSUME NEW N \in Nat, NEW S, NEW x \in S, NEW turn \in [(1..N) \X S -> S]
    PROVE  \E f : RunOf(f, N, S, x, turn)
<1> DEFINE Run(f, j) == f = [k \in 0..j |-> IF k = 0 THEN x ELSE turn[<<k, f[k - 1]>>]]
           A == {j \in 0..N : \E f \in [0..j -> S] : Run(f, j)}
<1>1. 0 \in A
  <2> DEFINE f == [k \in 0..0 |-> x]
  <2>1. f \in [0..0 -> S] /\ Run(f, 0) /\ 0 \in 0..N
    OBVIOUS
  <2> QED BY <2>1
<1>2. ASSUME NEW j \in 0..N, j \in A, j < N PROVE j + 1 \in A
  <2>1. PICK f \in [0..j -> S] : Run(f, j)
    BY <1>2
  <2> DEFINE g == [k \in 0..j + 1 |-> IF k = j + 1 THEN turn[<<k, f[k - 1]>>] ELSE f[k]]
  <2>2. turn[<<j + 1, f[j]>>] \in S
    <3>1. f[j] \in S /\ j + 1 \in 1..N
      BY <1>2, <2>1
    <3> QED BY <3>1
  <2>3. g \in [0..j + 1 -> S]
    BY <1>2, <2>1, <2>2
  <2>4. \A k \in 0..j + 1 : g[k] = IF k = 0 THEN x ELSE turn[<<k, g[k - 1]>>]
    <3> TAKE k \in 0..j + 1
    <3>1. CASE k = j + 1
      BY <1>2, <3>1
    <3>2. CASE k # j + 1
      <4>1. k \in 0..j /\ g[k] = f[k] /\ (k # 0 => g[k - 1] = f[k - 1])
        BY <1>2, <3>2
      <4>2. f[k] = IF k = 0 THEN x ELSE turn[<<k, f[k - 1]>>]
        BY <2>1, <4>1
      <4> QED BY <4>1, <4>2
    <3> QED BY <3>1, <3>2
  <2>5. Run(g, j + 1)
    <3>1. g = [k \in 0..j + 1 |-> g[k]]
      OBVIOUS
    <3> HIDE DEF g
    <3> QED BY <2>4, <3>1
  <2> HIDE DEF g, Run
  <2>6. j + 1 \in 0..N
    BY <1>2
  <2> QED BY <2>3, <2>5, <2>6
<1>3. N \in A
  <2> HIDE DEF A
  <2> QED BY <1>1, <1>2, BoundedInduction
<1>4. PICK f \in [0..N -> S] : Run(f, N)
  BY <1>3
<1>5. f[0] = x /\ \A k \in 1..N : f[k] = turn[<<k, f[k - 1]>>]
  BY <1>4
<1> QED BY <1>4, <1>5 DEF RunOf

-----------------------------------------------------------------------------
(* the search for a cycle                                                   *)

SearchType == [gray: Seq(Nodes), black: SUBSET Nodes]

\* What is black leads only to what is black and holds no cycle.
BlackOK(B) ==
    /\ \A n \in B : successors(n) \subseteq B
    /\ \A S \in SUBSET B : S # {} => \E n \in S : predecessors(n) \cap S = {}

\* Where the search is: the gray nodes are a path of which only the last may be
\* on it twice.
SearchOK(s) ==
    /\ s \in SearchType
    /\ BlackOK(s.black)
    /\ \A i \in 1..Len(s.gray) : s.gray[i] \notin s.black
    /\ \A i \in 1..Len(s.gray) - 1 : <<s.gray[i], s.gray[i + 1]>> \in edges
    /\ \A i, j \in 1..Len(s.gray) - 1 : i # j => s.gray[i] # s.gray[j]

LEMMA SearchIs ==
    ASSUME NEW q \in Seq(Nodes), NEW B \in SUBSET Nodes, BlackOK(B),
           \A i \in 1..Len(q) : q[i] \notin B,
           \A i \in 1..Len(q) - 1 : <<q[i], q[i + 1]>> \in edges,
           \A i, j \in 1..Len(q) - 1 : i # j => q[i] # q[j]
    PROVE  SearchOK([gray |-> q, black |-> B])
BY DEF SearchOK, SearchType

LEMMA SearchStarts == SearchOK(NoSearch)
<1> DEFINE z == <<>>
<1>1. z \in Seq(Nodes) /\ Len(z) = 0
  OBVIOUS
<1>2. 1..0 = {} /\ 1..0 - 1 = {}
  OBVIOUS
<1>3. BlackOK({}) /\ {} \in SUBSET Nodes
  BY DEF BlackOK
<1>4. NoSearch = [gray |-> z, black |-> {}]
  BY DEF NoSearch
<1> HIDE DEF z
<1> QED BY <1>1, <1>2, <1>3, <1>4, SearchIs

\* One more node that leads only to what is black closes no cycle.
LEMMA NodeDone ==
    ASSUME NEW B \in SUBSET Nodes, NEW n \in Nodes, n \notin B, successors(n) \subseteq B, BlackOK(B)
    PROVE  BlackOK(B \cup {n})
<1>1. ASSUME NEW S \in SUBSET (B \cup {n}), S # {}
      PROVE  \E m \in S : predecessors(m) \cap S = {}
  <2>1. CASE n \notin S
    BY <1>1, <2>1 DEF BlackOK
  <2>2. CASE n \in S
    <3>1. ASSUME NEW p \in predecessors(n), p \in S PROVE FALSE
      <4>1. n \in successors(p)
        BY DEF predecessors, successors
      <4> QED BY <1>1, <3>1, <4>1 DEF BlackOK
    <3> QED BY <2>2, <3>1
  <2> QED BY <2>1, <2>2
<1> QED BY <1>1 DEF BlackOK

LEMMA PrefixFacts ==
    ASSUME NEW T, NEW s \in Seq(T)
    PROVE  /\ Len(s) \in Nat /\ SubSeq(s, 1, 0) = <<>> /\ SubSeq(s, 1, Len(s)) = s
           /\ \A n \in 0..Len(s) :
                /\ SubSeq(s, 1, n) \in Seq(T) /\ Len(SubSeq(s, 1, n)) = n
                /\ \A i \in 1..n : SubSeq(s, 1, n)[i] = s[i]
                /\ n < Len(s) => /\ s[n + 1] \in T
                                 /\ SubSeq(s, 1, n + 1) = Append(SubSeq(s, 1, n), s[n + 1])
<1>1. Len(s) \in Nat /\ \A i \in 1..Len(s) : s[i] \in T
  OBVIOUS
<1>2. SubSeq(s, 1, 0) = <<>> /\ SubSeq(s, 1, Len(s)) = s
  OBVIOUS
<1>3. ASSUME NEW n \in 0..Len(s)
      PROVE  /\ SubSeq(s, 1, n) \in Seq(T) /\ Len(SubSeq(s, 1, n)) = n
             /\ \A i \in 1..n : SubSeq(s, 1, n)[i] = s[i]
  BY <1>1
<1>4. ASSUME NEW n \in 0..Len(s), n < Len(s)
      PROVE  /\ s[n + 1] \in T
             /\ SubSeq(s, 1, n + 1) = Append(SubSeq(s, 1, n), s[n + 1])
  BY <1>1, <1>3, <1>4
<1> QED BY <1>1, <1>2, <1>3, <1>4

LEMMA FrontIs ==
    ASSUME NEW T, NEW p \in Seq(T), p # <<>>
    PROVE  /\ Len(p) \in Nat /\ Len(p) > 0 /\ p[Len(p)] \in T
           /\ Front(p) \in Seq(T) /\ Len(Front(p)) = Len(p) - 1
           /\ \A i \in 1..Len(p) - 1 : Front(p)[i] = p[i]
           /\ p = Append(Front(p), p[Len(p)])
<1> DEFINE n == Len(p) - 1
<1>1. Len(p) \in Nat /\ Len(p) > 0
  OBVIOUS
<1>2. n \in 0..Len(p) /\ n < Len(p) /\ n + 1 = Len(p) /\ Front(p) = SubSeq(p, 1, n)
  BY <1>1 DEF Front
<1> HIDE DEF n
<1> QED BY <1>1, <1>2, PrefixFacts

LEMMA VisitOK ==
    ASSUME edges \in SUBSET (Nodes \X Nodes), NEW s, SearchOK(s)
    PROVE  SearchOK(Visit(s))
<1> DEFINE p == s.gray
           L == Len(p)
           node == p[L]
           left == successors(node) \ s.black
<1>1. /\ p \in Seq(Nodes) /\ L \in Nat /\ s.black \in SUBSET Nodes
      /\ s = [gray |-> p, black |-> s.black]
  BY DEF SearchOK, SearchType
<1>2. CASE Searched(s)
  BY <1>2 DEF Visit
<1>3. CASE ~Searched(s) /\ p = <<>>
  <2> DEFINE r == Least(Nodes \ s.black)
             q == <<r>>
  <2>1. r \in Nodes \ s.black
    <3>1. Nodes \ s.black # {}
      BY <1>1, <1>3 DEF Searched
    <3> QED BY <3>1, LeastIs
  <2>2. Visit(s) = [gray |-> q, black |-> s.black]
    BY <1>1, <1>3 DEF Visit
  <2>3. q \in Seq(Nodes) /\ Len(q) = 1 /\ q[1] = r
    BY <2>1
  <2> HIDE DEF q, r
  <2>4. 1..1 = {1} /\ 1..1 - 1 = {}
    OBVIOUS
  <2>5. BlackOK(s.black)
    BY DEF SearchOK
  <2> HIDE DEF p, L, node, left
  <2> QED BY <1>1, <2>1, <2>2, <2>3, <2>4, <2>5, SearchIs
<1>4. CASE ~Searched(s) /\ p # <<>>
  <2>1. L > 0 /\ node \in Nodes
    BY <1>1, <1>4
  <2>2. \A i \in 1..L - 1 : p[i] # node
    BY <1>4 DEF Searched, Closed
  <2>3. \A i, j \in 1..L : i # j => p[i] # p[j]
    <3>1. TAKE i, j \in 1..L
    <3>2. (i \in 1..L - 1 \/ i = L) /\ (j \in 1..L - 1 \/ j = L)
      BY <1>1, <2>1
    <3> QED BY <2>2, <3>2 DEF SearchOK
  <2>4. CASE left # {}
    <3> DEFINE m == Least(left)
               q == Append(p, m)
    <3>1. m \in left
      BY <2>4, LeastIs DEF successors
    <3>2. m \in Nodes /\ m \notin s.black /\ <<node, m>> \in edges
      BY <3>1 DEF successors
    <3>3. Visit(s) = [gray |-> q, black |-> s.black]
      BY <1>1, <1>4, <2>4 DEF Visit
    <3>4. /\ q \in Seq(Nodes) /\ Len(q) = L + 1 /\ q[L + 1] = m
          /\ \A i \in 1..L : q[i] = p[i]
      BY <1>1, <3>2
    <3> HIDE DEF q, m
    <3>5. \A i \in 1..L + 1 : q[i] \notin s.black
      <4> TAKE i \in 1..L + 1
      <4>1. i \in 1..L \/ i = L + 1
        BY <1>1
      <4> QED BY <3>2, <3>4, <4>1 DEF SearchOK
    <3>6. \A i \in 1..L : <<q[i], q[i + 1]>> \in edges
      <4> TAKE i \in 1..L
      <4>1. CASE i = L
        BY <1>1, <2>1, <3>2, <3>4, <4>1
      <4>2. CASE i # L
        <5>1. i \in 1..L - 1 /\ i + 1 \in 1..L
          BY <1>1, <4>2
        <5> QED BY <3>4, <5>1 DEF SearchOK
      <4> QED BY <4>1, <4>2
    <3>7. (L + 1) - 1 = L
      BY <1>1
    <3>8. \A i, j \in 1..L : i # j => q[i] # q[j]
      BY <2>3, <3>4
    <3>9. BlackOK(s.black)
      BY DEF SearchOK
    <3> HIDE DEF L, p, node, left
    <3> QED BY <1>1, <3>3, <3>4, <3>5, <3>6, <3>7, <3>8, <3>9, SearchIs
  <2>5. CASE left = {}
    <3> DEFINE q == Front(p)
               B == s.black \cup {node}
    <3>1. Visit(s) = [gray |-> q, black |-> B]
      <4>1. ~Searched(s) /\ ~(s.gray = <<>>) /\ ~(left # {})
        BY <1>4, <2>5
      <4> HIDE DEF left
      <4> QED BY <4>1 DEF Visit, left
    <3>2. q \in Seq(Nodes) /\ Len(q) = L - 1 /\ \A i \in 1..L - 1 : q[i] = p[i]
      BY <1>1, <1>4, FrontIs
    <3>3. BlackOK(B)
      <4>1. node \notin s.black /\ successors(node) \subseteq s.black
        BY <1>1, <2>1, <2>5 DEF SearchOK
      <4> HIDE DEF node
      <4> QED BY <1>1, <2>1, <4>1, NodeDone DEF SearchOK
    <3>4. \A i \in 1..L - 1 : q[i] \notin B
      BY <1>1, <2>2, <3>2 DEF SearchOK
    <3>5. \A i \in 1..(L - 1) - 1 : <<q[i], q[i + 1]>> \in edges
      <4> TAKE i \in 1..(L - 1) - 1
      <4>1. i \in 1..L - 1 /\ i + 1 \in 1..L - 1
        BY <1>1, <2>1
      <4> QED BY <3>2, <4>1 DEF SearchOK
    <3>6. \A i, j \in 1..(L - 1) - 1 : i # j => q[i] # q[j]
      <4> TAKE i, j \in 1..(L - 1) - 1
      <4>1. i \in 1..L - 1 /\ j \in 1..L - 1
        BY <1>1, <2>1
      <4> QED BY <3>2, <4>1 DEF SearchOK
    <3>7. B \in SUBSET Nodes
      BY <1>1, <2>1
    <3> HIDE DEF q, B, L, p, node, left
    <3> QED BY <3>1, <3>2, <3>3, <3>4, <3>5, <3>6, <3>7, SearchIs
  <2> QED BY <2>4, <2>5
<1> QED BY <1>2, <1>3, <1>4

\* Every round but the last ones enters or leaves a node.
SearchCount(s, k) ==
    Searched(s) \/ /\ 2 * Cardinality(s.black) + Len(s.gray) = k
                   /\ Cardinality(s.black \cup ToSet(s.gray)) = Cardinality(s.black) + Len(s.gray)

LEMMA ToSetIs ==
    ASSUME NEW T, NEW q \in Seq(T)
    PROVE  ToSet(q) = {q[i] : i \in 1..Len(q)} /\ ToSet(q) \subseteq T
<1>1. DOMAIN q = 1..Len(q) /\ \A i \in 1..Len(q) : q[i] \in T
  OBVIOUS
<1> QED BY <1>1 DEF ToSet

LEMMA ToSetAppend ==
    ASSUME NEW T, NEW q \in Seq(T), NEW e \in T
    PROVE  ToSet(Append(q, e)) = ToSet(q) \cup {e}
<1> DEFINE r == Append(q, e)
           L == Len(q)
<1>1. /\ r \in Seq(T) /\ Len(r) = L + 1 /\ L \in Nat /\ r[L + 1] = e
      /\ \A i \in 1..L : r[i] = q[i]
  OBVIOUS
<1> HIDE DEF r
<1>2. ToSet(q) = {q[i] : i \in 1..L} /\ ToSet(r) = {r[i] : i \in 1..L + 1}
  BY <1>1, ToSetIs
<1> HIDE DEF L
<1>3. 1..L + 1 = 1..L \cup {L + 1}
  BY <1>1
<1>4. ToSet(r) = ToSet(q) \cup {e}
  BY <1>1, <1>2, <1>3
<1> QED BY <1>4 DEF r

LEMMA VisitCounts ==
    ASSUME edges \in SUBSET (Nodes \X Nodes), NEW s, SearchOK(s), NEW k \in Nat, SearchCount(s, k)
    PROVE  SearchCount(Visit(s), k + 1)
<1> DEFINE p == s.gray
           L == Len(p)
           node == p[L]
           left == successors(node) \ s.black
           c == Cardinality(s.black)
<1>1. /\ p \in Seq(Nodes) /\ L \in Nat /\ s.black \in SUBSET Nodes
      /\ s = [gray |-> p, black |-> s.black]
  BY DEF SearchOK, SearchType
<1>2. IsFiniteSet(s.black) /\ c \in Nat /\ IsFiniteSet(s.black \cup ToSet(p)) /\ ToSet(p) \subseteq Nodes
  <2>1. ToSet(p) \subseteq Nodes
    BY <1>1, ToSetIs
  <2>2. s.black \cup ToSet(p) \in SUBSET Nodes
    BY <1>1, <2>1
  <2> QED BY <1>1, <2>1, <2>2, WorkflowConstantsOK, FS_Subset, FS_CardinalityType
<1>3. CASE Searched(s)
  BY <1>3 DEF Visit, SearchCount
<1>4. CASE ~Searched(s) /\ p = <<>>
  <2> DEFINE r == Least(Nodes \ s.black)
             q == <<r>>
  <2>1. r \in Nodes \ s.black
    <3>1. Nodes \ s.black # {}
      BY <1>1, <1>4 DEF Searched
    <3> QED BY <3>1, LeastIs
  <2>2. Visit(s).gray = q /\ Visit(s).black = s.black
    BY <1>1, <1>4 DEF Visit
  <2>3. q \in Seq(Nodes) /\ Len(q) = 1 /\ ToSet(q) = {r}
    <3>1. q \in Seq(Nodes) /\ Len(q) = 1 /\ q[1] = r /\ 1..1 = {1}
      BY <2>1
    <3> HIDE DEF q
    <3> QED BY <3>1, ToSetIs
  <2>4. L = 0 /\ 2 * c + L = k
    BY <1>4 DEF SearchCount
  <2>5. Cardinality(s.black \cup {r}) = c + 1
    BY <1>2, <2>1, FS_AddElement
  <2> HIDE DEF q, r, c
  <2> QED BY <1>2, <2>2, <2>3, <2>4, <2>5 DEF SearchCount, c
<1>5. CASE ~Searched(s) /\ p # <<>>
  <2>1. L > 0 /\ node \in Nodes /\ node \in ToSet(p)
    <3>1. L > 0 /\ node \in Nodes /\ L \in 1..L
      BY <1>1, <1>5
    <3> QED BY <1>1, <3>1, ToSetIs
  <2>2. 2 * c + L = k /\ Cardinality(s.black \cup ToSet(p)) = c + L
    BY <1>5 DEF SearchCount
  <2>3. CASE left # {}
    <3> DEFINE m == Least(left)
               q == Append(p, m)
    <3>1. m \in left
      BY <2>3, LeastIs DEF successors
    <3>2. m \in Nodes /\ m \notin s.black
      BY <3>1 DEF successors
    <3>3. Visit(s).gray = q /\ Visit(s).black = s.black
      BY <1>1, <1>5, <2>3 DEF Visit
    <3>4. q \in Seq(Nodes) /\ Len(q) = L + 1 /\ q[L + 1] = m /\ \A i \in 1..L : q[i] = p[i]
      BY <1>1, <3>2
    <3>5. ToSet(q) = ToSet(p) \cup {m}
      BY <1>1, <3>2, ToSetAppend
    <3>6. CASE m \in ToSet(p)
      <4>1. PICK i \in 1..L : p[i] = m
        BY <1>1, <3>6, ToSetIs
      <4>2. Closed(q)
        <5> HIDE DEF q, m
        <5>1. i \in 1..Len(q) - 1 /\ q[i] = q[Len(q)]
          BY <1>1, <3>4, <4>1
        <5> QED BY <5>1 DEF Closed
      <4> QED BY <3>3, <4>2 DEF SearchCount, Searched
    <3>7. CASE m \notin ToSet(p)
      <4>1. s.black \cup ToSet(q) = (s.black \cup ToSet(p)) \cup {m} /\ m \notin s.black \cup ToSet(p)
        BY <3>2, <3>5, <3>7
      <4>2. Cardinality(s.black \cup ToSet(q)) = (c + L) + 1
        <5> DEFINE U == s.black \cup ToSet(p)
        <5>1. IsFiniteSet(U) /\ m \notin U /\ s.black \cup ToSet(q) = U \cup {m} /\ Cardinality(U) = c + L
          BY <1>2, <2>2, <4>1
        <5> HIDE DEF U, q, m, c, L
        <5> QED BY <5>1, FS_AddElement
      <4>3. 2 * c + Len(q) = k + 1 /\ (c + L) + 1 = c + Len(q)
        <5>1. c \in Nat /\ L \in Nat /\ 2 * c + L = k /\ Len(q) = L + 1
          BY <1>1, <1>2, <2>2, <3>4
        <5> HIDE DEF q, c, L
        <5> QED BY <5>1
      <4> DEFINE v == Visit(s)
      <4>4. v.gray = q /\ v.black = s.black
        BY <3>3
      <4> HIDE DEF v, q
      <4>5. SearchCount(v, k + 1)
        BY <4>2, <4>3, <4>4 DEF SearchCount
      <4> QED BY <4>5 DEF v
    <3> QED BY <3>6, <3>7
  <2>4. CASE left = {}
    <3> DEFINE q == Front(p)
               B == s.black \cup {node}
    <3>1. Visit(s) = [gray |-> q, black |-> B]
      <4>1. ~Searched(s) /\ ~(s.gray = <<>>) /\ ~(left # {})
        BY <1>5, <2>4
      <4> HIDE DEF left
      <4> QED BY <4>1 DEF Visit, left
    <3>2. q \in Seq(Nodes) /\ Len(q) = L - 1 /\ p = Append(q, node)
      BY <1>1, <1>5, FrontIs
    <3>3. ToSet(p) = ToSet(q) \cup {node}
      <4> HIDE DEF q, node, p
      <4> QED BY <2>1, <3>2, ToSetAppend
    <3>4. B \cup ToSet(q) = s.black \cup ToSet(p)
      BY <3>3
    <3>5. Cardinality(B) = c + 1
      <4>1. node \notin s.black
        BY <1>1, <2>1 DEF SearchOK
      <4> HIDE DEF node
      <4> QED BY <1>2, <4>1, FS_AddElement
    <3> DEFINE v == Visit(s)
    <3>6. v.gray = q /\ v.black = B
      BY <3>1
    <3>7. 2 * Cardinality(B) + Len(q) = k + 1 /\ c + L = Cardinality(B) + Len(q)
      <4>1. c \in Nat /\ L \in Nat /\ 2 * c + L = k /\ Len(q) = L - 1 /\ Cardinality(B) = c + 1
        BY <1>1, <1>2, <2>2, <3>2, <3>5
      <4> HIDE DEF q, B, c, L
      <4> QED BY <4>1
    <3> HIDE DEF v, q, B
    <3>8. SearchCount(v, k + 1)
      BY <2>2, <3>4, <3>6, <3>7 DEF SearchCount
    <3> QED BY <3>8 DEF v
  <2> QED BY <2>3, <2>4
<1> QED BY <1>3, <1>4, <1>5

LEMMA RoundsOK == Cardinality(Nodes) \in Nat /\ Rounds \in Nat /\ Rounds > 2 * Cardinality(Nodes)
<1>1. Cardinality(Nodes) \in Nat
  BY WorkflowConstantsOK, FS_CardinalityType
<1> QED BY <1>1 DEF Rounds

\* The search ends, within its rounds.
LEMMA FoundIs ==
    ASSUME edges \in SUBSET (Nodes \X Nodes)
    PROVE  SearchOK(Found) /\ Searched(Found)
<1> DEFINE OK == {s \in SearchType : SearchOK(s)}
           turn == [x \in (1..Rounds) \X OK |-> Visit(x[2])]
           Run(f) == f = [k \in 0..Rounds |-> IF k = 0 THEN NoSearch ELSE Visit(f[k - 1])]
           run == CHOOSE f : Run(f)
<1>1. NoSearch \in OK /\ \A s \in OK : Visit(s) \in OK
  BY SearchStarts, VisitOK DEF SearchOK
<1>2. \E f \in [0..Rounds -> OK] : Run(f)
  <2>1. turn \in [(1..Rounds) \X OK -> OK]
    BY <1>1
  <2> HIDE DEF OK, turn
  <2>2. PICK f : RunOf(f, Rounds, OK, NoSearch, turn)
    <3> HIDE DEF Run, run
    <3>1. Rounds \in Nat /\ NoSearch \in OK
      BY <1>1, RoundsOK
    <3> QED BY <2>1, <3>1, Rounded
  <2>3. \A k \in 0..Rounds : f[k] = IF k = 0 THEN NoSearch ELSE Visit(f[k - 1])
    <3> TAKE k \in 0..Rounds
    <3>1. CASE k = 0
      BY <2>2, <3>1 DEF RunOf
    <3>2. CASE k # 0
      <4>1. k \in 1..Rounds /\ k - 1 \in 0..Rounds /\ f[k - 1] \in OK
        BY <2>2, <3>2, RoundsOK DEF RunOf
      <4>2. turn[<<k, f[k - 1]>>] = Visit(f[k - 1])
        BY <4>1 DEF turn
      <4> QED BY <2>2, <3>2, <4>1, <4>2 DEF RunOf
    <3> QED BY <3>1, <3>2
  <2>4. f \in [0..Rounds -> OK]
    BY <2>2 DEF RunOf
  <2>5. f = [k \in 0..Rounds |-> f[k]]
    BY <2>4
  <2> QED BY <2>3, <2>4, <2>5
<1>3. Run(run) /\ Found = run[Rounds]
  BY <1>2 DEF Found
<1> HIDE DEF run
<1>4. run[0] = NoSearch /\ \A k \in 1..Rounds : run[k] = Visit(run[k - 1])
  BY <1>3, RoundsOK
<1> DEFINE A == {k \in 0..Rounds : SearchOK(run[k]) /\ SearchCount(run[k], k)}
<1>5. 0 \in A
  <2>1. SearchCount(NoSearch, 0)
    <3> DEFINE z == <<>>
    <3>1. Len(z) = 0 /\ z \in Seq(Nodes) /\ 1..0 = {} /\ Cardinality({}) = 0
      BY FS_EmptySet
    <3>2. NoSearch.gray = z /\ NoSearch.black = {}
      BY DEF NoSearch
    <3> HIDE DEF z
    <3>3. ToSet(z) = {z[i] : i \in 1..Len(z)}
      <4>1. z \in Seq(Nodes)
        BY <3>1
      <4> QED BY <4>1, ToSetIs
    <3>4. ToSet(z) = {} /\ {} \cup {} = {}
      BY <3>1, <3>3
    <3> QED BY <3>1, <3>2, <3>4 DEF SearchCount
  <2> QED BY <1>4, <2>1, SearchStarts, RoundsOK
<1>6. ASSUME NEW k \in 0..Rounds, k \in A, k < Rounds PROVE k + 1 \in A
  <2>1. k + 1 \in 1..Rounds /\ (k + 1) - 1 = k /\ k \in Nat
    BY <1>6, RoundsOK
  <2>2. run[k + 1] = Visit(run[k])
    BY <1>4, <2>1
  <2>3. SearchOK(run[k]) /\ SearchCount(run[k], k)
    BY <1>6
  <2> HIDE DEF Run
  <2>4. SearchOK(run[k + 1]) /\ SearchCount(run[k + 1], k + 1)
    BY <2>1, <2>2, <2>3, VisitOK, VisitCounts
  <2> QED BY <2>1, <2>4
<1>7. Rounds \in A
  <2> HIDE DEF A
  <2> QED BY <1>5, <1>6, RoundsOK, BoundedInduction
<1>8. SearchOK(Found) /\ SearchCount(Found, Rounds)
  BY <1>3, <1>7
<1>9. Searched(Found)
  <2> SUFFICES ASSUME ~Searched(Found) PROVE FALSE
    OBVIOUS
  <2> DEFINE B == Found.black
             L == Len(Found.gray)
             c == Cardinality(B)
             U == B \cup ToSet(Found.gray)
  <2>1. Found.gray \in Seq(Nodes) /\ B \in SUBSET Nodes /\ L \in Nat
    BY <1>8 DEF SearchOK, SearchType
  <2>2. 2 * c + L = Rounds /\ Cardinality(U) = c + L
    BY <1>8 DEF SearchCount
  <2>3. U \in SUBSET Nodes
    BY <2>1, ToSetIs
  <2> HIDE DEF U, B, L
  <2>4. Cardinality(U) <= Cardinality(Nodes) /\ c \in Nat
    BY <2>1, <2>3, WorkflowConstantsOK, FS_Subset, FS_CardinalityType
  <2> HIDE DEF c
  <2> QED BY <2>1, <2>2, <2>4, RoundsOK DEF Rounds
<1> QED BY <1>8, <1>9

LEMMA SliceIs ==
    ASSUME NEW T, NEW p \in Seq(T), NEW i \in 1..Len(p)
    PROVE  LET q == SubSeq(p, i, Len(p))
           IN /\ q \in Seq(T) /\ Len(p) \in Nat /\ Len(q) = (Len(p) - i) + 1
              /\ \A k \in 1..Len(q) : q[k] = p[(i + k) - 1]
<1>1. Len(p) \in Nat /\ \A k \in 1..Len(p) : p[k] \in T
  OBVIOUS
<1> QED BY <1>1

\* A path that comes back to one of its nodes leaves no order of the nodes.
LEMMA ClosedIsCyclic ==
    ASSUME NEW p \in Seq(Nodes), NEW i \in 1..Len(p) - 1, p[i] = p[Len(p)],
           \A k \in 1..Len(p) - 1 : <<p[k], p[k + 1]>> \in edges
    PROVE  ~Acyclic
<1> DEFINE L == Len(p)
           S == {p[k] : k \in i..L}
<1>1. L \in Nat /\ \A k \in 1..L : p[k] \in Nodes
  OBVIOUS
<1>2. S \in SUBSET Nodes /\ S # {}
  <2>1. i \in i..L /\ \A k \in i..L : k \in 1..L
    BY <1>1
  <2> QED BY <1>1, <2>1
<1>3. ASSUME NEW n \in S PROVE predecessors(n) \cap S # {}
  <2>1. \E k \in i + 1..L : p[k] = n
    <3>1. PICK k \in i..L : p[k] = n
      BY <1>3
    <3>2. CASE k = i
      BY <1>1, <3>1, <3>2
    <3>3. CASE k # i
      BY <1>1, <3>1, <3>3
    <3> QED BY <3>2, <3>3
  <2>2. PICK k \in i + 1..L : p[k] = n
    BY <2>1
  <2>3. k - 1 \in 1..L - 1 /\ k - 1 \in i..L /\ k - 1 \in 1..L /\ (k - 1) + 1 = k
    BY <1>1
  <2>4. <<p[k - 1], n>> \in edges
    BY <2>2, <2>3
  <2>5. p[k - 1] \in predecessors(n) /\ p[k - 1] \in S
    BY <1>1, <2>3, <2>4 DEF predecessors
  <2> QED BY <2>5
<1> HIDE DEF S
<1> QED BY <1>2, <1>3 DEF Acyclic

\* A cycle is found if and only if there is one, and it is one.
LEMMA CycleTheorem ==
    ASSUME edges \in SUBSET (Nodes \X Nodes)
    PROVE  CycleFound
<1> DEFINE p == Found.gray
           L == Len(p)
<1>1. SearchOK(Found) /\ Searched(Found)
  BY FoundIs
<1>2. p \in Seq(Nodes) /\ L \in Nat /\ Found.black \in SUBSET Nodes
  BY <1>1 DEF SearchOK, SearchType
<1>3. CASE p = <<>>
  <2>1. _find_cycle = <<>>
    BY <1>3 DEF _find_cycle
  <2>2. ~Closed(p)
    <3>1. L = 0 /\ 1..0 - 1 = {}
      BY <1>3
    <3> QED BY <3>1 DEF Closed
  <2>3. BlackOK(Nodes)
    BY <1>1, <2>2 DEF Searched, SearchOK
  <2>4. Acyclic
    BY <2>3 DEF BlackOK, Acyclic
  <2> QED BY <2>1, <2>4 DEF CycleFound
<1>4. CASE p # <<>>
  <2> DEFINE i == CHOOSE j \in 1..L - 1 : p[j] = p[L]
             c == SubSeq(p, i, L)
  <2>1. i \in 1..L - 1 /\ p[i] = p[L]
    BY <1>1, <1>4 DEF Searched, Closed
  <2>2. _find_cycle = c
    BY <1>4 DEF _find_cycle
  <2> HIDE DEF i, c
  <2>3. i \in 1..L /\ L - 1 + 1 = L
    BY <1>2, <2>1
  <2>4. c \in Seq(Nodes) /\ Len(c) = (L - i) + 1 /\ \A k \in 1..Len(c) : c[k] = p[(i + k) - 1]
    BY <1>2, <2>3, SliceIs DEF c
  <2>5. \A k \in 1..L - 1 : <<p[k], p[k + 1]>> \in edges
    BY <1>1 DEF SearchOK
  <2>6. ~Acyclic
    <3> HIDE DEF p
    <3> QED BY <1>2, <2>1, <2>5, ClosedIsCyclic
  <2>7. Len(c) > 1 /\ c # <<>>
    BY <1>2, <2>1, <2>4
  <2>8. IsPath(c)
    <3> SUFFICES ASSUME NEW k \in 1..Len(c) - 1 PROVE <<c[k], c[k + 1]>> \in edges
      BY DEF IsPath
    <3> HIDE DEF p, L
    <3>1. k \in 1..Len(c) /\ k + 1 \in 1..Len(c) /\ (i + k) - 1 \in 1..L - 1
      BY <1>2, <2>1, <2>4, <2>7
    <3>2. (i + (k + 1)) - 1 = ((i + k) - 1) + 1
      BY <2>1
    <3> QED BY <2>4, <2>5, <3>1, <3>2
  <2>9. Head(c) = Last(c)
    <3> HIDE DEF p, L
    <3>1. Head(c) = c[1] /\ Last(c) = c[Len(c)]
      BY <2>4, <2>7 DEF Last
    <3>2. 1 \in 1..Len(c) /\ Len(c) \in 1..Len(c) /\ (i + 1) - 1 = i /\ (i + Len(c)) - 1 = L
      BY <1>2, <2>1, <2>4
    <3>3. c[1] = p[i] /\ c[Len(c)] = p[L]
      BY <2>4, <3>2
    <3> QED BY <2>1, <3>1, <3>3
  <2> QED BY <2>2, <2>6, <2>7, <2>8, <2>9 DEF CycleFound
<1> QED BY <1>3, <1>4

-----------------------------------------------------------------------------
(* the topological sort                                                     *)

\* Nothing twice, and nothing before what it depends on.
SortOK(q) ==
    /\ q \in Seq(Nodes)
    /\ Cardinality(ToSet(q)) = Len(q)
    /\ \A i, j \in 1..Len(q) : i # j => q[i] # q[j]
    /\ \A i \in 1..Len(q) : \A m \in predecessors(q[i]) : \E j \in 1..Len(q) : j < i /\ q[j] = m

LEMMA SortStarts == SortOK(<<>>)
<1> DEFINE z == <<>>
<1>1. Len(z) = 0 /\ z \in Seq(Nodes) /\ 1..0 = {} /\ Cardinality({}) = 0
  BY FS_EmptySet
<1> HIDE DEF z
<1>2. ToSet(z) = {}
  <2>1. z \in Seq(Nodes)
    BY <1>1
  <2>2. ToSet(z) = {z[i] : i \in 1..Len(z)}
    BY <2>1, ToSetIs
  <2> QED BY <1>1, <2>2
<1>3. SortOK(z)
  BY <1>1, <1>2 DEF SortOK
<1> QED BY <1>3 DEF z

\* Without a cycle the queue is not empty before every node is sorted.
LEMMA KahnOK ==
    ASSUME Acyclic, NEW q, SortOK(q), ToSet(q) # Nodes
    PROVE  SortOK(Kahn(q)) /\ Len(Kahn(q)) = Len(q) + 1
<1> DEFINE L == Len(q)
           left == Nodes \ ToSet(q)
           n == Least(Free(q))
           r == Append(q, n)
<1>1. q \in Seq(Nodes) /\ L \in Nat
  BY DEF SortOK
<1>2. ToSet(q) = {q[i] : i \in 1..L} /\ ToSet(q) \subseteq Nodes
  BY <1>1, ToSetIs
<1>3. Free(q) # {}
  <2>1. left \in (SUBSET Nodes) \ {{}}
    BY <1>2
  <2>2. PICK m \in left : predecessors(m) \cap left = {}
    <3> HIDE DEF left
    <3> QED BY <2>1 DEF Acyclic
  <2>3. predecessors(m) \subseteq ToSet(q)
    BY <2>2 DEF predecessors
  <2> QED BY <2>2, <2>3 DEF Free
<1>4. n \in Free(q)
  <2>1. Free(q) \in SUBSET Nodes
    BY DEF Free
  <2> QED BY <1>3, <2>1, LeastIs
<1>5. n \in Nodes /\ n \notin ToSet(q) /\ predecessors(n) \subseteq ToSet(q)
  BY <1>4 DEF Free
<1>6. Kahn(q) = r
  BY <1>3 DEF Kahn
<1> HIDE DEF n
<1>7. r \in Seq(Nodes) /\ Len(r) = L + 1 /\ r[L + 1] = n /\ \A i \in 1..L : r[i] = q[i]
  BY <1>1, <1>5
<1>8. ToSet(r) = ToSet(q) \cup {n}
  BY <1>1, <1>5, ToSetAppend
<1> HIDE DEF r, L
<1>9. Cardinality(ToSet(r)) = L + 1
  <2>1. IsFiniteSet(ToSet(q))
    BY <1>2, WorkflowConstantsOK, FS_Subset
  <2>2. Cardinality(ToSet(q)) = L
    BY DEF SortOK, L
  <2> DEFINE U == ToSet(q)
  <2>3. IsFiniteSet(U) /\ n \notin U
    BY <1>5, <2>1
  <2> HIDE DEF U
  <2>4. Cardinality(U \cup {n}) = Cardinality(U) + 1
    BY <2>3, FS_AddElement
  <2> QED BY <1>8, <2>2, <2>4 DEF U
<1>10. \A i \in 1..L + 1 : i = L + 1 \/ i \in 1..L
  BY <1>1
<1>11. \A i \in 1..L : q[i] # n
  BY <1>2, <1>5
<1>12. \A i, j \in 1..L : i # j => q[i] # q[j]
  BY DEF SortOK, L
<1>13. \A i, j \in 1..L + 1 : i # j => r[i] # r[j]
  <2> TAKE i, j \in 1..L + 1
  <2>1. CASE i \in 1..L /\ j \in 1..L
    BY <1>7, <1>12, <2>1
  <2>2. CASE i \in 1..L /\ j = L + 1
    BY <1>7, <1>11, <2>2
  <2>3. CASE i = L + 1 /\ j \in 1..L
    BY <1>7, <1>11, <2>3
  <2> QED BY <1>10, <2>1, <2>2, <2>3
<1>14. \A i \in 1..L + 1 : \A m \in predecessors(r[i]) : \E j \in 1..L + 1 : j < i /\ r[j] = m
  <2> SUFFICES ASSUME NEW i \in 1..L + 1, NEW m \in predecessors(r[i])
               PROVE  \E j \in 1..L + 1 : j < i /\ r[j] = m
    OBVIOUS
  <2>1. CASE i = L + 1
    <3>1. m \in ToSet(q)
      BY <1>5, <1>7, <2>1
    <3>2. PICK j \in 1..L : q[j] = m
      BY <1>2, <3>1
    <3>3. j \in 1..L + 1 /\ j < i /\ r[j] = m
      BY <1>1, <1>7, <2>1, <3>2
    <3> QED BY <3>3
  <2>2. CASE i \in 1..L
    <3>1. m \in predecessors(q[i])
      BY <1>7, <2>2
    <3>2. PICK j \in 1..L : j < i /\ q[j] = m
      BY <2>2, <3>1 DEF SortOK, L
    <3>3. j \in 1..L + 1 /\ r[j] = m
      BY <1>1, <1>7, <3>2
    <3> QED BY <3>2, <3>3
  <2> QED BY <1>10, <2>1, <2>2
<1>15. SortOK(r)
  BY <1>7, <1>9, <1>13, <1>14 DEF SortOK
<1> QED BY <1>6, <1>7, <1>15 DEF L

\* The sort has every node once, behind all it depends on.
LEMMA SortIs ==
    ASSUME edges \in SUBSET (Nodes \X Nodes), Acyclic
    PROVE  /\ SortOK(topological_sort)
           /\ Len(topological_sort) = Cardinality(Nodes) /\ ToSet(topological_sort) = Nodes
<1> DEFINE N == Cardinality(Nodes)
           S == Seq(Nodes)
           turn == [x \in (1..N) \X S |-> Kahn(x[2])]
           Run(f) == f = [k \in 0..N |-> IF k = 0 THEN <<>> ELSE Kahn(f[k - 1])]
           run == CHOOSE f : Run(f)
<1>1. N \in Nat
  BY RoundsOK
<1>2. \A q \in S : Kahn(q) \in S
  <2> SUFFICES ASSUME NEW q \in S, Free(q) # {} PROVE Append(q, Least(Free(q))) \in S
    BY DEF Kahn
  <2>1. Free(q) \in SUBSET Nodes
    BY DEF Free
  <2>2. Least(Free(q)) \in Nodes
    BY <2>1, LeastIs
  <2> QED BY <2>2
<1>3. \E f : Run(f)
  <2>1. turn \in [(1..N) \X S -> S] /\ <<>> \in S
    BY <1>2
  <2> HIDE DEF turn, S, N, Run
  <2>2. PICK f : RunOf(f, N, S, <<>>, turn)
    BY <1>1, <2>1, Rounded
  <2>3. \A k \in 0..N : f[k] = IF k = 0 THEN <<>> ELSE Kahn(f[k - 1])
    <3> TAKE k \in 0..N
    <3>1. CASE k = 0
      BY <2>2, <3>1 DEF RunOf
    <3>2. CASE k # 0
      <4>1. k \in 1..N /\ k - 1 \in 0..N /\ f[k - 1] \in S
        BY <1>1, <2>2, <3>2 DEF RunOf
      <4>2. turn[<<k, f[k - 1]>>] = Kahn(f[k - 1])
        BY <4>1 DEF turn
      <4> QED BY <2>2, <3>2, <4>1, <4>2 DEF RunOf
    <3> QED BY <3>1, <3>2
  <2>4. f = [k \in 0..N |-> f[k]]
    BY <2>2 DEF RunOf
  <2> QED BY <2>3, <2>4 DEF Run
<1>4. Run(run) /\ topological_sort = run[N]
  <2>1. _find_cycle = <<>>
    BY CycleTheorem DEF CycleFound
  <2> QED BY <1>3, <2>1 DEF topological_sort
<1> HIDE DEF run
<1>5. run[0] = <<>> /\ \A k \in 1..N : run[k] = Kahn(run[k - 1])
  <2> HIDE DEF N
  <2> QED BY <1>1, <1>4
<1> DEFINE A == {k \in 0..N : SortOK(run[k]) /\ Len(run[k]) = k}
<1> HIDE DEF N
<1>6. 0 \in A
  BY <1>1, <1>5, SortStarts
<1>7. ASSUME NEW k \in 0..N, k \in A, k < N PROVE k + 1 \in A
  <2>1. k + 1 \in 1..N /\ (k + 1) - 1 = k
    BY <1>1, <1>7
  <2>2. run[k + 1] = Kahn(run[k]) /\ SortOK(run[k]) /\ Len(run[k]) = k
    BY <1>5, <1>7, <2>1
  <2>3. ToSet(run[k]) # Nodes
    BY <1>7, <2>2 DEF SortOK, N
  <2> QED BY <2>1, <2>2, <2>3, KahnOK
<1>8. N \in A
  <2> HIDE DEF A
  <2> QED BY <1>1, <1>6, <1>7, BoundedInduction
<1>9. SortOK(run[N]) /\ Len(run[N]) = N
  BY <1>8
<1>10. ToSet(run[N]) = Nodes
  <2>1. ToSet(run[N]) \in SUBSET Nodes /\ Cardinality(ToSet(run[N])) = N
    BY <1>9, ToSetIs DEF SortOK
  <2> QED BY <2>1, WorkflowConstantsOK, FS_Subset DEF N
<1> QED BY <1>4, <1>9, <1>10 DEF N

LEMMA SortTheorem ==
    ASSUME edges \in SUBSET (Nodes \X Nodes), Acyclic
    PROVE  SortedRight
<1> DEFINE q == topological_sort
<1>1. SortOK(q) /\ Len(q) = Cardinality(Nodes) /\ ToSet(q) = Nodes
  BY SortIs
<1>2. q \in Seq(Nodes) /\ DOMAIN q = 1..Len(q) /\ Len(q) \in Nat
  BY <1>1 DEF SortOK
<1> HIDE DEF q
<1>3. ASSUME NEW i \in DOMAIN q, NEW j \in DOMAIN q, <<q[i], q[j]>> \in edges
      PROVE  i < j
  <2>1. q[i] \in predecessors(q[j])
    BY <1>2, <1>3 DEF predecessors
  <2>2. PICK k \in 1..Len(q) : k < j /\ q[k] = q[i]
    BY <1>1, <1>2, <2>1 DEF SortOK
  <2>3. k = i
    BY <1>1, <1>2, <2>2 DEF SortOK
  <2> QED BY <2>2, <2>3
<1> QED BY <1>1, <1>3 DEF SortedRight, q

-----------------------------------------------------------------------------
(* the critical path                                                        *)

Distances == [dist: [Nodes -> Int], prev: [Nodes -> Nodes \cup {0}]]

\* What holds when the successors of the nodes in P have been looked at: dist is
\* the weight of the path that prev leads back, and nothing through P is heavier.
RelaxOK(priority, r, P) ==
    /\ r \in Distances
    /\ \A m \in Nodes : r.prev[m] = 0 => r.dist[m] = priority[m]
    /\ \A m \in Nodes : r.prev[m] # 0 =>
          /\ r.prev[m] \in P /\ <<r.prev[m], m>> \in edges
          /\ r.dist[m] = r.dist[r.prev[m]] + priority[m]
    /\ \A m \in Nodes : r.dist[m] >= priority[m]
    /\ \A n \in P : \A m \in successors(n) : r.dist[m] >= r.dist[n] + priority[m]

LEMMA StartOK ==
    ASSUME NEW priority \in [Nodes -> Int]
    PROVE  RelaxOK(priority, Untouched(priority), {})
BY DEF RelaxOK, Untouched, Distances

\* A node's own distance is final when it is taken, as all before it were.
LEMMA RelaxStep ==
    ASSUME NEW priority \in [Nodes -> Int], NEW P \in SUBSET Nodes, NEW r, RelaxOK(priority, r, P),
           NEW n \in Nodes, \A m \in successors(n) : m \notin P /\ m # n
    PROVE  RelaxOK(priority, Relax(priority, r, n), P \cup {n})
<1> DEFINE through(m) == r.dist[n] + priority[m]
           better == {m \in successors(n) : through(m) > r.dist[m]}
           d == [m \in Nodes |-> IF m \in better THEN through(m) ELSE r.dist[m]]
           v == [m \in Nodes |-> IF m \in better THEN n ELSE r.prev[m]]
           t == Relax(priority, r, n)
<1>1. /\ r.dist \in [Nodes -> Int] /\ r.prev \in [Nodes -> Nodes \cup {0}]
      /\ \A m \in Nodes : priority[m] \in Int /\ r.dist[m] \in Int /\ through(m) \in Int
  BY DEF RelaxOK, Distances
<1>2. t = [dist |-> d, prev |-> v]
  BY DEF Relax
<1>3. /\ better \in SUBSET Nodes /\ n \notin better
      /\ \A m \in better : m \notin P /\ <<n, m>> \in edges /\ through(m) > r.dist[m]
  BY DEF successors
<1>4. /\ d \in [Nodes -> Int] /\ v \in [Nodes -> Nodes \cup {0}]
      /\ \A m \in Nodes : m \in better => d[m] = r.dist[n] + priority[m] /\ v[m] = n
      /\ \A m \in Nodes : m \notin better => d[m] = r.dist[m] /\ v[m] = r.prev[m]
  BY <1>1
<1>5. \A m \in Nodes : d[m] >= r.dist[m]
  BY <1>1, <1>3, <1>4
<1>6. t \in Distances /\ t.dist = d /\ t.prev = v
  BY <1>2, <1>4 DEF Distances
<1>7. \A m \in successors(n) : d[m] >= r.dist[n] + priority[m]
  BY <1>1, <1>4 DEF successors
<1>8. 0 \notin Nodes
  BY GraphConstantsOK
<1> HIDE DEF t, d, v, better
<1>9. \A m \in Nodes : v[m] = 0 => d[m] = priority[m]
  BY <1>4, <1>8 DEF RelaxOK
<1>10. ASSUME NEW m \in Nodes, v[m] # 0
       PROVE  /\ v[m] \in P \cup {n} /\ <<v[m], m>> \in edges
              /\ d[m] = d[v[m]] + priority[m]
  <2>1. CASE m \in better
    BY <1>3, <1>4, <2>1
  <2>2. CASE m \notin better
    <3>1. /\ v[m] = r.prev[m] /\ d[m] = r.dist[m] /\ v[m] \in P /\ <<v[m], m>> \in edges
          /\ r.dist[m] = r.dist[v[m]] + priority[m]
      BY <1>4, <1>10, <2>2 DEF RelaxOK
    <3>2. v[m] \notin better /\ v[m] \in Nodes
      BY <1>3, <3>1
    <3>3. d[v[m]] = r.dist[v[m]]
      BY <1>4, <3>2
    <3> QED BY <3>1, <3>3
  <2> QED BY <2>1, <2>2
<1>11. \A m \in Nodes : d[m] >= priority[m]
  <2> TAKE m \in Nodes
  <2>1. r.dist[m] >= priority[m]
    BY DEF RelaxOK
  <2> QED BY <1>1, <1>4, <1>5, <2>1
<1>12. ASSUME NEW k \in P \cup {n}, NEW m \in successors(k)
       PROVE  d[m] >= d[k] + priority[m]
  <2>1. m \in Nodes /\ k \in Nodes
    BY DEF successors
  <2>2. CASE k = n
    BY <1>3, <1>4, <1>7, <1>12, <2>1, <2>2
  <2>3. CASE k \in P
    <3>1. k \notin better /\ d[k] = r.dist[k]
      BY <1>3, <1>4, <2>1, <2>3
    <3>2. r.dist[m] >= r.dist[k] + priority[m]
      BY <2>3, <1>12 DEF RelaxOK
    <3>3. r.dist[m] \in Int /\ r.dist[k] \in Int /\ priority[m] \in Int /\ d[m] \in Int /\ d[m] >= r.dist[m]
      BY <1>1, <1>4, <1>5, <2>1
    <3> QED BY <3>1, <3>2, <3>3
  <2> QED BY <2>2, <2>3
<1>13. RelaxOK(priority, t, P \cup {n})
  BY <1>6, <1>9, <1>10, <1>11, <1>12 DEF RelaxOK
<1> QED BY <1>13 DEF t

LEMMA RelaxedIs ==
    ASSUME edges \in SUBSET (Nodes \X Nodes), Acyclic, NEW priority \in [Nodes -> Int]
    PROVE  RelaxOK(priority, Relaxed(priority, topological_sort), Nodes)
<1> DEFINE q == topological_sort
           N == Len(q)
           S == Distances
           turn == [x \in (1..N) \X S |-> Relax(priority, x[2], q[x[1]])]
           Run(f) == f = [k \in 0..N |-> IF k = 0 THEN Untouched(priority)
                                         ELSE Relax(priority, f[k - 1], q[k])]
           run == CHOOSE f : Run(f)
<1>1. SortOK(q) /\ ToSet(q) = Nodes
  BY SortIs
<1>2. /\ q \in Seq(Nodes) /\ N \in Nat /\ \A k \in 1..N : q[k] \in Nodes
      /\ Nodes = {q[k] : k \in 1..N}
  <2>1. q \in Seq(Nodes)
    BY <1>1 DEF SortOK
  <2>2. N \in Nat /\ (\A k \in 1..N : q[k] \in Nodes) /\ ToSet(q) = {q[k] : k \in 1..N}
    BY <2>1, ToSetIs
  <2> QED BY <1>1, <2>1, <2>2
<1>3. \A r \in S : \A n \in Nodes : Relax(priority, r, n) \in S
  <2> SUFFICES ASSUME NEW r \in S, NEW n \in Nodes PROVE Relax(priority, r, n) \in S
    OBVIOUS
  <2>1. /\ \A m \in Nodes : r.dist[m] \in Int /\ r.prev[m] \in Nodes \cup {0}
        /\ \A m \in Nodes : r.dist[n] + priority[m] \in Int
    BY DEF Distances
  <2> QED BY <2>1 DEF Relax, Distances
<1>4. Untouched(priority) \in S
  BY StartOK DEF RelaxOK
<1> HIDE DEF q
<1>5. \E f : Run(f)
  <2>1. turn \in [(1..N) \X S -> S]
    <3>1. \A x \in (1..N) \X S : Relax(priority, x[2], q[x[1]]) \in S
      BY <1>2, <1>3
    <3> QED BY <3>1
  <2> HIDE DEF turn, S, N, Run
  <2>2. PICK f : RunOf(f, N, S, Untouched(priority), turn)
    BY <1>2, <1>4, <2>1, Rounded
  <2>3. \A k \in 0..N : f[k] = IF k = 0 THEN Untouched(priority) ELSE Relax(priority, f[k - 1], q[k])
    <3> TAKE k \in 0..N
    <3>1. CASE k = 0
      BY <2>2, <3>1 DEF RunOf
    <3>2. CASE k # 0
      <4>1. k \in 1..N /\ k - 1 \in 0..N /\ f[k - 1] \in S
        BY <1>2, <2>2, <3>2 DEF RunOf
      <4>2. turn[<<k, f[k - 1]>>] = Relax(priority, f[k - 1], q[k])
        BY <4>1 DEF turn
      <4> QED BY <2>2, <3>2, <4>1, <4>2 DEF RunOf
    <3> QED BY <3>1, <3>2
  <2>4. f = [k \in 0..N |-> f[k]]
    BY <2>2 DEF RunOf
  <2> QED BY <2>3, <2>4 DEF Run
<1>6. Run(run) /\ Relaxed(priority, q) = run[N]
  BY <1>5 DEF Relaxed
<1> HIDE DEF run
<1>7. run[0] = Untouched(priority) /\ \A k \in 1..N : run[k] = Relax(priority, run[k - 1], q[k])
  <2> HIDE DEF N, S, turn
  <2>1. \A k \in 0..N : run[k] = IF k = 0 THEN Untouched(priority) ELSE Relax(priority, run[k - 1], q[k])
    BY <1>6
  <2>2. 0 \in 0..N /\ \A k \in 1..N : k \in 0..N /\ k # 0
    BY <1>2
  <2> HIDE DEF Run
  <2> QED BY <2>1, <2>2
<1> DEFINE P == [k \in 0..N |-> {q[i] : i \in 1..k}]
<1>8. /\ P[0] = {} /\ P[N] = Nodes
      /\ \A k \in 0..N : P[k] \in SUBSET Nodes /\ (k < N => P[k + 1] = P[k] \cup {q[k + 1]})
      /\ \A k \in 0..N : \A m \in P[k] : \E i \in 1..k : q[i] = m
  <2> HIDE DEF N
  <2>1. P[0] = {} /\ P[N] = Nodes
    BY <1>2
  <2>2. ASSUME NEW k \in 0..N
        PROVE  P[k] \in SUBSET Nodes /\ \A m \in P[k] : \E i \in 1..k : q[i] = m
    <3>1. \A i \in 1..k : i \in 1..N
      BY <1>2
    <3> QED BY <1>2, <3>1
  <2>3. ASSUME NEW k \in 0..N, k < N PROVE P[k + 1] = P[k] \cup {q[k + 1]}
    <3>1. k + 1 \in 0..N /\ 1..k + 1 = 1..k \cup {k + 1}
      BY <1>2, <2>3
    <3> QED BY <3>1
  <2> QED BY <2>1, <2>2, <2>3
<1> HIDE DEF P, N
<1> DEFINE A == {k \in 0..N : RelaxOK(priority, run[k], P[k])}
<1>9. N \in Nat
  BY <1>2
<1>10. 0 \in A
  <2>1. run[0] = Untouched(priority) /\ P[0] = {}
    BY <1>7, <1>8
  <2>2. RelaxOK(priority, run[0], P[0])
    BY <2>1, StartOK
  <2> QED BY <1>9, <2>2
<1>11. ASSUME NEW k \in 0..N, k \in A, k < N PROVE k + 1 \in A
  <2> DEFINE n == q[k + 1]
             B == P[k]
             r == run[k]
  <2>1. k + 1 \in 1..N /\ (k + 1) - 1 = k
    BY <1>9, <1>11
  <2>2. n \in Nodes /\ B \in SUBSET Nodes /\ P[k + 1] = B \cup {n}
    BY <1>2, <1>8, <1>11, <2>1
  <2>3. RelaxOK(priority, r, B) /\ run[k + 1] = Relax(priority, r, n)
    BY <1>7, <1>11, <2>1
  <2>4. ASSUME NEW m \in successors(n) PROVE m \notin P[k + 1]
    <3>1. n \in predecessors(m) /\ m \in Nodes
      BY <2>2 DEF successors, predecessors
    <3>2. ASSUME NEW i \in 1..k + 1, q[i] = m PROVE FALSE
      <4>1. i \in 1..N
        BY <1>9, <1>11, <2>1
      <4>2. PICK j \in 1..N : j < i /\ q[j] = n
        BY <1>1, <3>1, <3>2, <4>1 DEF SortOK, N
      <4>3. j # k + 1
        BY <4>1, <4>2
      <4> QED BY <1>1, <2>1, <4>2, <4>3 DEF SortOK, N
    <3>3. k + 1 \in 0..N
      BY <1>9, <2>1
    <3> QED BY <1>8, <3>2, <3>3
  <2>5. \A m \in successors(n) : m \notin B /\ m # n
    BY <2>2, <2>4
  <2> HIDE DEF n, B, r
  <2>6. RelaxOK(priority, Relax(priority, r, n), B \cup {n})
    BY <2>2, <2>3, <2>5, RelaxStep
  <2>7. RelaxOK(priority, run[k + 1], P[k + 1])
    BY <2>2, <2>3, <2>6
  <2>8. k + 1 \in 0..N
    BY <1>9, <2>1
  <2> QED BY <2>7, <2>8
<1>12. N \in A
  <2> HIDE DEF A
  <2> QED BY <1>9, <1>10, <1>11, BoundedInduction
<1> QED BY <1>6, <1>8, <1>12 DEF q

LEMMA AtMost == \A a, b, c \in Int : a <= b /\ b <= c => a <= c
OBVIOUS

LEMMA SumAtMost == \A a, b, c, d \in Int : a <= b /\ d >= b + c => a + c <= d
OBVIOUS

\* The weight of a path is a sum over its nodes.
LEMMA WeightIs ==
    ASSUME NEW priority \in [Nodes -> Int], NEW p \in Seq(Nodes)
    PROVE  \E sum \in [0..Len(p) -> Int] :
              /\ WeightOf(priority, p) = sum[Len(p)] /\ sum[0] = 0
              /\ \A k \in 1..Len(p) : sum[k] = sum[k - 1] + priority[p[k]]
<1> DEFINE N == Len(p)
           turn == [x \in (1..N) \X Int |-> x[2] + priority[p[x[1]]]]
           Run(f) == f = [k \in 0..N |-> IF k = 0 THEN 0 ELSE f[k - 1] + priority[p[k]]]
           run == CHOOSE f : Run(f)
<1>1. N \in Nat /\ \A k \in 1..N : p[k] \in Nodes /\ priority[p[k]] \in Int
  OBVIOUS
<1> HIDE DEF N
<1>2. \E f : Run(f)
  <2>1. turn \in [(1..N) \X Int -> Int]
    BY <1>1
  <2> HIDE DEF turn, Run
  <2>2. PICK f : RunOf(f, N, Int, 0, turn)
    <3>1. N \in Nat /\ 0 \in Int
      BY <1>1
    <3> QED BY <2>1, <3>1, Rounded
  <2>3. \A k \in 0..N : f[k] = IF k = 0 THEN 0 ELSE f[k - 1] + priority[p[k]]
    <3> TAKE k \in 0..N
    <3>1. CASE k = 0
      BY <2>2, <3>1 DEF RunOf
    <3>2. CASE k # 0
      <4>1. k \in 1..N /\ k - 1 \in 0..N /\ f[k - 1] \in Int
        BY <1>1, <2>2, <3>2 DEF RunOf
      <4>2. turn[<<k, f[k - 1]>>] = f[k - 1] + priority[p[k]]
        BY <4>1 DEF turn
      <4> QED BY <2>2, <3>2, <4>1, <4>2 DEF RunOf
    <3> QED BY <3>1, <3>2
  <2>4. f = [k \in 0..N |-> f[k]]
    BY <2>2 DEF RunOf
  <2> QED BY <2>3, <2>4 DEF Run
<1>3. Run(run) /\ WeightOf(priority, p) = run[N]
  BY <1>2 DEF WeightOf, N
<1> HIDE DEF run
<1>4. run[0] = 0 /\ \A k \in 1..N : run[k] = run[k - 1] + priority[p[k]]
  BY <1>1, <1>3
<1> DEFINE A == {k \in 0..N : run[k] \in Int}
<1>5. 0 \in A
  BY <1>1, <1>4
<1>6. ASSUME NEW k \in 0..N, k \in A, k < N PROVE k + 1 \in A
  <2>1. k + 1 \in 1..N /\ k + 1 \in 0..N /\ (k + 1) - 1 = k
    BY <1>1, <1>6
  <2>2. run[k + 1] = run[k] + priority[p[k + 1]] /\ priority[p[k + 1]] \in Int
    BY <1>1, <1>4, <2>1
  <2> QED BY <1>6, <2>1, <2>2
<1>7. \A k \in 0..N : k \in A
  <2> HIDE DEF A
  <2> QED BY <1>1, <1>5, <1>6, BoundedInduction
<1>8. run = [k \in 0..N |-> run[k]]
  BY <1>3
<1>9. run \in [0..N -> Int]
  BY <1>7, <1>8
<1> QED BY <1>3, <1>4, <1>9 DEF N

\* No path is heavier than the distance of its last node.
LEMMA NoHeavier ==
    ASSUME NEW priority \in [Nodes -> Int], NEW r, RelaxOK(priority, r, Nodes),
           NEW p \in Seq(Nodes), p # <<>>, IsPath(p)
    PROVE  WeightOf(priority, p) <= r.dist[p[Len(p)]]
<1> DEFINE N == Len(p)
<1>1. N \in Nat /\ N > 0 /\ \A k \in 1..N : p[k] \in Nodes
  OBVIOUS
<1>2. PICK sum \in [0..N -> Int] :
        /\ WeightOf(priority, p) = sum[N] /\ sum[0] = 0
        /\ \A k \in 1..N : sum[k] = sum[k - 1] + priority[p[k]]
  BY WeightIs
<1>3. \A k \in 1..N : r.dist[p[k]] \in Int /\ priority[p[k]] \in Int
  BY <1>1 DEF RelaxOK, Distances
<1>4. \A k \in 1..N - 1 : <<p[k], p[k + 1]>> \in edges
  BY DEF IsPath
<1> HIDE DEF N
<1> DEFINE A == {k \in 0..N : k > 0 => sum[k] <= r.dist[p[k]]}
<1>5. 0 \in A
  BY <1>1
<1>6. ASSUME NEW k \in 0..N, k \in A, k < N PROVE k + 1 \in A
  <2>1. k + 1 \in 1..N /\ k + 1 \in 0..N /\ (k + 1) - 1 = k
    BY <1>1, <1>6
  <2>2. sum[k + 1] = sum[k] + priority[p[k + 1]]
    BY <1>2, <2>1
  <2>3. CASE k = 0
    <3>1. r.dist[p[k + 1]] >= priority[p[k + 1]]
      BY <1>1, <2>1 DEF RelaxOK
    <3>2. sum[k + 1] = priority[p[k + 1]]
      BY <1>2, <1>3, <2>1, <2>2, <2>3
    <3> QED BY <1>3, <2>1, <3>1, <3>2
  <2>4. CASE k # 0
    <3>1. k \in 1..N - 1 /\ k \in 1..N /\ sum[k] <= r.dist[p[k]] /\ sum[k] \in Int
      BY <1>1, <1>2, <1>6, <2>4
    <3>2. p[k + 1] \in successors(p[k])
      BY <1>1, <1>4, <2>1, <3>1 DEF successors
    <3>3. r.dist[p[k + 1]] >= r.dist[p[k]] + priority[p[k + 1]]
      BY <1>1, <3>1, <3>2 DEF RelaxOK
    <3>4. /\ sum[k] \in Int /\ r.dist[p[k]] \in Int
          /\ priority[p[k + 1]] \in Int /\ r.dist[p[k + 1]] \in Int
      BY <1>3, <2>1, <3>1
    <3>5. sum[k + 1] <= r.dist[p[k + 1]]
      <4> DEFINE a == sum[k]
                 b == r.dist[p[k]]
                 c == priority[p[k + 1]]
                 d == r.dist[p[k + 1]]
      <4>1. a \in Int /\ b \in Int /\ c \in Int /\ d \in Int
        BY <3>4
      <4>2. a <= b /\ d >= b + c /\ sum[k + 1] = a + c
        BY <2>2, <3>1, <3>3
      <4> HIDE DEF a, b, c, d
      <4>3. sum[k + 1] <= d
        BY <4>1, <4>2, SumAtMost
      <4> QED BY <4>3 DEF d
    <3> QED BY <2>1, <3>5
  <2> QED BY <2>3, <2>4
<1>7. N \in A
  <2>1. N \in Nat /\ N \in 0..N
    BY <1>1
  <2> HIDE DEF A
  <2> QED BY <1>5, <1>6, <2>1, BoundedInduction
<1> QED BY <1>1, <1>2, <1>7 DEF N

\* The path that prev leads back has the weight of its last node's distance.
LEMMA BackWeighs ==
    ASSUME NEW priority \in [Nodes -> Int], NEW r, RelaxOK(priority, r, Nodes),
           NEW p \in Seq(Nodes), p # <<>>, r.prev[p[1]] = 0,
           \A k \in 1..Len(p) - 1 : r.prev[p[k + 1]] = p[k]
    PROVE  WeightOf(priority, p) = r.dist[p[Len(p)]]
<1> DEFINE N == Len(p)
<1>1. N \in Nat /\ N > 0 /\ \A k \in 1..N : p[k] \in Nodes
  OBVIOUS
<1>2. PICK sum \in [0..N -> Int] :
        /\ WeightOf(priority, p) = sum[N] /\ sum[0] = 0
        /\ \A k \in 1..N : sum[k] = sum[k - 1] + priority[p[k]]
  BY WeightIs
<1>3. \A k \in 1..N : r.dist[p[k]] \in Int /\ priority[p[k]] \in Int
  BY <1>1 DEF RelaxOK, Distances
<1>4. \A k \in 1..N - 1 : r.prev[p[k + 1]] = p[k]
  OBVIOUS
<1> HIDE DEF N
<1> DEFINE A == {k \in 0..N : k > 0 => sum[k] = r.dist[p[k]]}
<1>5. 0 \in A
  BY <1>1
<1>6. ASSUME NEW k \in 0..N, k \in A, k < N PROVE k + 1 \in A
  <2>1. k + 1 \in 1..N /\ k + 1 \in 0..N /\ (k + 1) - 1 = k
    BY <1>1, <1>6
  <2>2. sum[k + 1] = sum[k] + priority[p[k + 1]]
    BY <1>2, <2>1
  <2>3. CASE k = 0
    <3>1. r.dist[p[k + 1]] = priority[p[k + 1]]
      BY <1>1, <2>1, <2>3 DEF RelaxOK
    <3>2. sum[k + 1] = priority[p[k + 1]]
      BY <1>2, <1>3, <2>1, <2>2, <2>3
    <3> QED BY <2>1, <3>1, <3>2
  <2>4. CASE k # 0
    <3>1. k \in 1..N - 1 /\ k \in 1..N /\ sum[k] = r.dist[p[k]]
      BY <1>1, <1>6, <2>4
    <3>2. r.prev[p[k + 1]] = p[k] /\ p[k] # 0 /\ p[k + 1] \in Nodes
      BY <1>1, <1>4, <2>1, <3>1, GraphConstantsOK
    <3>3. r.dist[p[k + 1]] = r.dist[p[k]] + priority[p[k + 1]]
      BY <3>2 DEF RelaxOK
    <3> QED BY <2>1, <2>2, <3>1, <3>3
  <2> QED BY <2>3, <2>4
<1>7. N \in A
  <2>1. N \in Nat /\ N \in 0..N
    BY <1>1
  <2> HIDE DEF A
  <2> QED BY <1>5, <1>6, <2>1, BoundedInduction
<1> QED BY <1>1, <1>2, <1>7 DEF N

LEMMA WeightInt ==
    ASSUME NEW priority \in [Nodes -> Int], NEW p \in Seq(Nodes)
    PROVE  WeightOf(priority, p) \in Int
<1>1. PICK sum \in [0..Len(p) -> Int] : WeightOf(priority, p) = sum[Len(p)]
  BY WeightIs
<1>2. Len(p) \in 0..Len(p)
  OBVIOUS
<1> QED BY <1>1, <1>2

\* Some node has the greatest distance.
LEMMA EndIs ==
    ASSUME NEW q \in Seq(Nodes), ToSet(q) = Nodes, Nodes # {}, NEW d \in [Nodes -> Int]
    PROVE  LET end == Least({n \in Nodes : \A m \in Nodes : d[m] <= d[n]})
           IN end \in Nodes /\ \A m \in Nodes : d[m] <= d[end]
<1> DEFINE N == Len(q)
           E == {n \in Nodes : \A m \in Nodes : d[m] <= d[n]}
           Tops(k) == {n \in Nodes : \A i \in 1..k : d[q[i]] <= d[n]}
           A == {k \in 0..N : Tops(k) # {}}
<1>1. N \in Nat /\ N \in 0..N /\ \A k \in 1..N : q[k] \in Nodes /\ d[q[k]] \in Int
  OBVIOUS
<1>2. Nodes = {q[k] : k \in 1..N}
  BY ToSetIs
<1> HIDE DEF N
<1>3. 0 \in A
  <2>1. PICK n : n \in Nodes
    OBVIOUS
  <2>2. 1..0 = {} /\ 0 \in 0..N
    BY <1>1
  <2> QED BY <2>1, <2>2
<1>4. ASSUME NEW k \in 0..N, k \in A, k < N PROVE k + 1 \in A
  <2>1. k + 1 \in 1..N /\ k + 1 \in 0..N /\ 1..k + 1 = 1..k \cup {k + 1}
    BY <1>1, <1>4
  <2>2. PICK n \in Nodes : \A i \in 1..k : d[q[i]] <= d[n]
    BY <1>4
  <2>3. d[n] \in Int /\ q[k + 1] \in Nodes /\ d[q[k + 1]] \in Int
    BY <1>1, <2>1
  <2>4. \A i \in 1..k : i \in 1..N /\ d[q[i]] \in Int
    BY <1>1
  <2>5. CASE d[q[k + 1]] <= d[n]
    <3>1. n \in Tops(k + 1)
      BY <2>1, <2>2, <2>5
    <3> QED BY <2>1, <3>1
  <2>6. CASE d[n] <= d[q[k + 1]]
    <3>1. \A i \in 1..k : d[q[i]] <= d[q[k + 1]]
      BY <2>2, <2>3, <2>4, <2>6, AtMost
    <3>2. q[k + 1] \in Tops(k + 1)
      BY <2>1, <2>3, <3>1
    <3> QED BY <2>1, <3>2
  <2> QED BY <2>3, <2>5, <2>6
<1>5. N \in A
  <2>1. N \in Nat
    BY <1>1
  <2> HIDE DEF A
  <2> QED BY <1>1, <1>3, <1>4, <2>1, BoundedInduction
<1>6. E # {}
  <2>1. PICK n \in Nodes : \A i \in 1..N : d[q[i]] <= d[n]
    BY <1>5
  <2>2. \A m \in Nodes : d[m] <= d[n]
    BY <1>2, <2>1
  <2> QED BY <2>2
<1>7. E \in SUBSET Nodes /\ \A n \in E : \A m \in Nodes : d[m] <= d[n]
  OBVIOUS
<1> HIDE DEF E
<1>8. Least(E) \in E
  BY <1>6, <1>7, LeastIs
<1>9. Least(E) \in Nodes /\ \A m \in Nodes : d[m] <= d[Least(E)]
  BY <1>7, <1>8
<1> QED BY <1>9 DEF E

LEMMA PrependIs ==
    ASSUME NEW T, NEW x \in T, NEW b \in Seq(T)
    PROVE  LET c == <<x>> \o b
           IN /\ c \in Seq(T) /\ Len(b) \in Nat /\ Len(c) = Len(b) + 1 /\ c[1] = x
              /\ \A i \in 1..Len(b) : c[i + 1] = b[i]
OBVIOUS

\* k rounds back from end: the path so far follows prev, and what is before it
\* comes early enough in the sort.
BackOK(prev, q, end, b, k) ==
    /\ b \in Seq(Nodes) /\ b # <<>> /\ b[Len(b)] = end
    /\ \A i \in 1..Len(b) - 1 : prev[b[i + 1]] = b[i]
    /\ prev[b[1]] = 0 \/ \E i \in 1..Len(q) - k : q[i] = b[1]

LEMMA BackStep ==
    ASSUME NEW prev \in [Nodes -> Nodes \cup {0}],
           \A m \in Nodes : prev[m] # 0 => <<prev[m], m>> \in edges,
           NEW q, SortOK(q), NEW end, NEW b, NEW k \in Nat, k < Len(q), BackOK(prev, q, end, b, k)
    PROVE  BackOK(prev, q, end, Back(prev, b), k + 1)
<1> DEFINE x == prev[b[1]]
           c == <<x>> \o b
<1>1. /\ b \in Seq(Nodes) /\ Len(b) \in Nat /\ Len(b) > 0 /\ b[1] \in Nodes /\ b[Len(b)] = end
      /\ \A i \in 1..Len(b) - 1 : prev[b[i + 1]] = b[i]
  BY DEF BackOK
<1>2. CASE x = 0
  <2>1. Back(prev, b) = b
    BY <1>2 DEF Back
  <2> QED BY <1>2, <2>1 DEF BackOK
<1>3. CASE x # 0
  <2>1. x \in Nodes /\ <<x, b[1]>> \in edges
    BY <1>1, <1>3
  <2>2. x \in predecessors(b[1])
    BY <2>1 DEF predecessors
  <2>3. q \in Seq(Nodes) /\ Len(q) \in Nat
    BY DEF SortOK
  <2>4. PICK i \in 1..Len(q) - k : q[i] = b[1]
    BY <1>3 DEF BackOK
  <2>5. i \in 1..Len(q)
    BY <2>3, <2>4
  <2>6. PICK j \in 1..Len(q) : j < i /\ q[j] = x
    BY <2>2, <2>4, <2>5 DEF SortOK
  <2>7. j \in 1..Len(q) - (k + 1)
    BY <2>3, <2>4, <2>6
  <2>8. Back(prev, b) = c
    BY <1>3 DEF Back
  <2>9. /\ c \in Seq(Nodes) /\ Len(c) = Len(b) + 1 /\ c[1] = x
        /\ \A l \in 1..Len(b) : c[l + 1] = b[l]
    BY <1>1, <2>1, PrependIs
  <2>10. prev[b[1]] = x
    OBVIOUS
  <2> HIDE DEF c, x
  <2>11. c # <<>> /\ c[Len(c)] = end
    <3>1. Len(b) \in 1..Len(b) /\ Len(c) # 0
      BY <1>1, <2>9
    <3>2. c[Len(b) + 1] = b[Len(b)]
      BY <2>9, <3>1
    <3> QED BY <1>1, <2>9, <3>1, <3>2
  <2>12. ASSUME NEW l \in 1..Len(c) - 1 PROVE prev[c[l + 1]] = c[l]
    <3>1. l \in 1..Len(b) /\ c[l + 1] = b[l]
      BY <1>1, <2>9
    <3>2. CASE l = 1
      BY <2>9, <2>10, <3>1, <3>2
    <3>3. CASE l # 1
      <4>1. l - 1 \in 1..Len(b) - 1 /\ l - 1 \in 1..Len(b) /\ (l - 1) + 1 = l
        BY <1>1, <3>1, <3>3
      <4>2. prev[b[l]] = b[l - 1] /\ c[l] = b[l - 1]
        BY <1>1, <2>9, <4>1
      <4> QED BY <3>1, <4>2
    <3> QED BY <3>2, <3>3
  <2>13. q[j] = c[1]
    BY <2>6, <2>9
  <2> QED BY <2>7, <2>8, <2>9, <2>11, <2>12, <2>13 DEF BackOK
<1> QED BY <1>2, <1>3

\* The critical path begins where prev ends, follows it, and ends at the top.
LEMMA PathIs ==
    ASSUME edges \in SUBSET (Nodes \X Nodes), Acyclic, Nodes # {},
           NEW priority \in [Nodes -> Int]
    PROVE  LET r == Relaxed(priority, topological_sort)
               p == critical_path(priority)
           IN /\ p \in Seq(Nodes) /\ p # <<>> /\ r.prev[p[1]] = 0
              /\ \A k \in 1..Len(p) - 1 : r.prev[p[k + 1]] = p[k]
              /\ \A m \in Nodes : r.dist[m] <= r.dist[p[Len(p)]]
<1> DEFINE N == Cardinality(Nodes)
           q == topological_sort
           r == Relaxed(priority, q)
           prev == r.prev
           end == Least({n \in Nodes : \A m \in Nodes : r.dist[m] <= r.dist[n]})
           S == {b \in Seq(Nodes) : b # <<>>}
           turn == [x \in (1..N) \X S |-> Back(prev, x[2])]
           Run(f) == f = [k \in 0..N |-> IF k = 0 THEN <<end>> ELSE Back(prev, f[k - 1])]
           run == CHOOSE f : Run(f)
<1>1. SortOK(q) /\ Len(q) = N /\ ToSet(q) = Nodes
  BY SortIs
<1>2. q \in Seq(Nodes) /\ N \in Nat /\ q # <<>>
  <2>1. q \in Seq(Nodes)
    BY <1>1 DEF SortOK
  <2>2. ToSet(q) = {q[i] : i \in 1..Len(q)} /\ N \in Nat
    BY <2>1, ToSetIs, RoundsOK
  <2>3. PICK i : i \in 1..Len(q)
    BY <1>1, <2>2
  <2>4. Len(q) \in Nat /\ Len(q) # 0
    BY <2>1, <2>3
  <2> HIDE DEF q
  <2>5. q # <<>>
    BY <2>4
  <2> QED BY <2>1, <2>2, <2>5
<1>3. RelaxOK(priority, r, Nodes)
  BY RelaxedIs
<1>4. /\ prev \in [Nodes -> Nodes \cup {0}] /\ r.dist \in [Nodes -> Int]
      /\ \A m \in Nodes : prev[m] # 0 => <<prev[m], m>> \in edges
  <2> HIDE DEF r
  <2> QED BY <1>3 DEF RelaxOK, Distances
<1>5. end \in Nodes /\ \A m \in Nodes : r.dist[m] <= r.dist[end]
  <2> HIDE DEF r, q
  <2> QED BY <1>1, <1>2, <1>4, EndIs
<1> HIDE DEF end
<1>6. <<end>> \in S /\ \A b \in S : Back(prev, b) \in S
  <2>1. <<end>> \in S
    BY <1>5
  <2>2. ASSUME NEW b \in S PROVE Back(prev, b) \in S
    <3>1. b \in Seq(Nodes) /\ b[1] \in Nodes
      OBVIOUS
    <3>2. CASE prev[b[1]] = 0
      BY <3>1, <3>2 DEF Back
    <3>3. CASE prev[b[1]] # 0
      <4> DEFINE x == prev[b[1]]
                 c == <<x>> \o b
      <4>1. x \in Nodes /\ Back(prev, b) = c
        BY <1>4, <3>1, <3>3 DEF Back
      <4> HIDE DEF x
      <4>2. c \in Seq(Nodes) /\ Len(c) = Len(b) + 1 /\ Len(b) \in Nat
        BY <3>1, <4>1, PrependIs
      <4> HIDE DEF c
      <4>3. c # <<>>
        BY <4>2
      <4> QED BY <4>1, <4>2, <4>3
    <3> QED BY <3>2, <3>3
  <2> QED BY <2>1, <2>2
<1> HIDE DEF q, r, prev
<1>7. \E f : Run(f)
  <2>1. turn \in [(1..N) \X S -> S]
    BY <1>6
  <2> HIDE DEF turn, S, N, Run
  <2>2. PICK f : RunOf(f, N, S, <<end>>, turn)
    BY <1>2, <1>6, <2>1, Rounded
  <2>3. \A k \in 0..N : f[k] = IF k = 0 THEN <<end>> ELSE Back(prev, f[k - 1])
    <3> TAKE k \in 0..N
    <3>1. CASE k = 0
      BY <2>2, <3>1 DEF RunOf
    <3>2. CASE k # 0
      <4>1. k \in 1..N /\ k - 1 \in 0..N /\ f[k - 1] \in S
        BY <1>2, <2>2, <3>2 DEF RunOf
      <4>2. turn[<<k, f[k - 1]>>] = Back(prev, f[k - 1])
        BY <4>1 DEF turn
      <4> QED BY <2>2, <3>2, <4>1, <4>2 DEF RunOf
    <3> QED BY <3>1, <3>2
  <2>4. f = [k \in 0..N |-> f[k]]
    BY <2>2 DEF RunOf
  <2> QED BY <2>3, <2>4 DEF Run
<1>8. Run(run) /\ critical_path(priority) = run[N]
  BY <1>2, <1>7 DEF critical_path, q, r, prev, end
<1> HIDE DEF run
<1>9. run[0] = <<end>> /\ \A k \in 1..N : run[k] = Back(prev, run[k - 1])
  <2> HIDE DEF N, S, turn
  <2>1. \A k \in 0..N : run[k] = IF k = 0 THEN <<end>> ELSE Back(prev, run[k - 1])
    BY <1>8
  <2>2. 0 \in 0..N /\ \A k \in 1..N : k \in 0..N /\ k # 0
    BY <1>2
  <2> HIDE DEF Run
  <2> QED BY <2>1, <2>2
<1> DEFINE A == {k \in 0..N : BackOK(prev, q, end, run[k], k)}
<1> HIDE DEF N
<1>10. 0 \in A
  <2> DEFINE b == <<end>>
  <2>1. b \in Seq(Nodes) /\ b # <<>> /\ Len(b) = 1 /\ b[1] = end
    BY <1>5
  <2>2. PICK i \in 1..Len(q) : q[i] = end
    BY <1>1, <1>2, <1>5, ToSetIs
  <2> HIDE DEF b
  <2>3. Len(q) - 0 = Len(q) /\ 1..Len(b) - 1 = {}
    BY <1>1, <1>2, <2>1
  <2>4. BackOK(prev, q, end, b, 0)
    BY <2>1, <2>2, <2>3 DEF BackOK
  <2> QED BY <1>2, <1>9, <2>4 DEF b
<1>11. ASSUME NEW k \in 0..N, k \in A, k < N PROVE k + 1 \in A
  <2>1. k + 1 \in 1..N /\ k + 1 \in 0..N /\ (k + 1) - 1 = k /\ k \in Nat
    BY <1>2, <1>11
  <2>2. run[k + 1] = Back(prev, run[k]) /\ BackOK(prev, q, end, run[k], k)
    BY <1>9, <1>11, <2>1
  <2>3. BackOK(prev, q, end, run[k + 1], k + 1)
    BY <1>1, <1>4, <1>11, <2>1, <2>2, BackStep
  <2> QED BY <2>1, <2>3
<1>12. N \in A
  <2>1. N \in Nat /\ N \in 0..N
    BY <1>2
  <2> HIDE DEF A
  <2> QED BY <1>10, <1>11, <2>1, BoundedInduction
<1> DEFINE p == critical_path(priority)
<1>13. BackOK(prev, q, end, p, N)
  BY <1>8, <1>12
<1>14. prev[p[1]] = 0
  <2>1. 1..Len(q) - N = {}
    BY <1>1, <1>2
  <2> HIDE DEF p
  <2> QED BY <1>13, <2>1 DEF BackOK
<1> HIDE DEF p
<1>15. /\ p \in Seq(Nodes) /\ p # <<>> /\ p[Len(p)] = end
       /\ \A k \in 1..Len(p) - 1 : prev[p[k + 1]] = p[k]
  BY <1>13 DEF BackOK
<1> QED BY <1>5, <1>14, <1>15 DEF p, q, r, prev

\* No path outweighs the critical one.
LEMMA HeaviestIs ==
    ASSUME edges \in SUBSET (Nodes \X Nodes), Acyclic, NEW priority \in [Nodes -> Int]
    PROVE  Heaviest(priority)
<1> DEFINE path == critical_path(priority)
           q == topological_sort
           r == Relaxed(priority, q)
<1>1. CASE Nodes = {}
  <2>1. q \in Seq(Nodes) /\ Len(q) = 0
    BY <1>1, SortIs, FS_EmptySet DEF SortOK
  <2> HIDE DEF q
  <2>2. q = <<>>
    BY <2>1
  <2>3. path = <<>>
    BY <2>2 DEF critical_path, q
  <2>4. <<>> \in Seq(Nodes) /\ 1..(Len(<<>>) - 1) = {}
    OBVIOUS
  <2>5. \A k \in 1..Cardinality(Nodes) : FALSE
    BY <1>1, FS_EmptySet
  <2> HIDE DEF path
  <2>6. path \in Seq(Nodes) /\ IsPath(path)
    BY <2>3, <2>4 DEF IsPath
  <2> QED BY <1>1, <2>3, <2>5, <2>6 DEF Heaviest, path
<1>2. CASE Nodes # {}
  <2>1. /\ path \in Seq(Nodes) /\ path # <<>> /\ r.prev[path[1]] = 0
        /\ \A k \in 1..Len(path) - 1 : r.prev[path[k + 1]] = path[k]
        /\ \A m \in Nodes : r.dist[m] <= r.dist[path[Len(path)]]
    BY <1>2, PathIs
  <2>2. RelaxOK(priority, r, Nodes)
    BY RelaxedIs
  <2> HIDE DEF path, r
  <2>3. /\ Len(path) \in Nat /\ Len(path) > 0
        /\ \A k \in 1..Len(path) : path[k] \in Nodes
    BY <2>1
  <2>4. IsPath(path)
    <3> SUFFICES ASSUME NEW k \in 1..Len(path) - 1 PROVE <<path[k], path[k + 1]>> \in edges
      BY DEF IsPath
    <3>1. path[k] \in Nodes /\ path[k + 1] \in Nodes /\ path[k] # 0
      BY <2>3, GraphConstantsOK
    <3> QED BY <2>1, <2>2, <3>1 DEF RelaxOK
  <2>5. WeightOf(priority, path) = r.dist[path[Len(path)]]
    BY <2>1, <2>2, BackWeighs
  <2>6. ASSUME NEW k \in 1..Cardinality(Nodes), NEW p \in [1..k -> Nodes], IsPath(p)
        PROVE  WeightOf(priority, p) <= WeightOf(priority, path)
    <3>1. Cardinality(Nodes) \in Nat
      BY RoundsOK
    <3>2. k \in Nat /\ k > 0
      BY <3>1
    <3>3. p \in Seq(Nodes) /\ Len(p) = k
      BY <3>2
    <3>4. p # <<>> /\ p[Len(p)] \in Nodes
      BY <3>2, <3>3
    <3>5. WeightOf(priority, p) <= r.dist[p[Len(p)]]
      BY <2>2, <2>6, <3>3, <3>4, NoHeavier
    <3>6. WeightOf(priority, p) \in Int
      BY <3>3, WeightInt
    <3>7. r.dist[p[Len(p)]] \in Int /\ r.dist[path[Len(path)]] \in Int
      BY <2>2, <2>3, <3>4 DEF RelaxOK, Distances
    <3>8. r.dist[p[Len(p)]] <= r.dist[path[Len(path)]]
      BY <2>1, <3>4
    <3> QED BY <2>5, <3>5, <3>6, <3>7, <3>8, AtMost
  <2> QED BY <1>2, <2>1, <2>4, <2>6 DEF Heaviest, path
<1> QED BY <1>1, <1>2

LEMMA AlgorithmsRight == WorkflowIInv => GraphAlgorithmsRight
<1> SUFFICES ASSUME WorkflowIInv PROVE GraphAlgorithmsRight
  OBVIOUS
<1>1. edges \in SUBSET (Nodes \X Nodes)
  BY DEF WorkflowIInv, WorkflowTypeOK
<1>2. CycleFound
  BY <1>1, CycleTheorem
<1>3. ASSUME Acyclic, NEW priority \in [Nodes -> Priorities] PROVE Heaviest(priority)
  <2>1. priority \in [Nodes -> Int]
    BY GraphConstantsOK
  <2> QED BY <1>1, <1>3, <2>1, HeaviestIs
<1> QED BY <1>1, <1>2, <1>3, SortTheorem DEF GraphAlgorithmsRight

-----------------------------------------------------------------------------

\* Whatever graph a workflow is built with: a cycle is found when there is one, and
\* is one; the sort has every node once, behind those it depends on; no path
\* outweighs the critical one (validate, topological_sort, critical_path).
THEOREM GraphAlgorithmsCorrect == WorkflowSpec => []GraphAlgorithmsRight
<1> QED BY DependenciesRespected, AlgorithmsRight, PTL

=============================================================================
