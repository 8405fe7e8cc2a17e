------------------------------ MODULE Workflow ------------------------------
(***************************************************************************)
(* The workflow engine: a graph of subtasks, each of which runs when those *)
(* it depends on are completed; failures are retried or given up, and a    *)
(* workflow can be resumed from a graph that was saved and the results     *)
(* that are known.                                                         *)
(*                                                                         *)
(* step is one synchronous call, so one action, whose input are the answers*)
(* that came since the last one, and so is resume, whose input is results. *)
(* What comes for a node that is not running changes no status and is left *)
(* out (resume stores such a result, and nothing reads it before the node  *)
(* runs and gets another), as are scores (any choice among the ready),     *)
(* events, and edges of the other types, which nothing follows.            *)
(***************************************************************************)
EXTENDS Naturals, FiniteSets

CONSTANTS
    Nodes,
    Budgets,      \* what max_retries may be
    MaxParallel,  \* max_parallel: how many are started by a step
    MaxFailures,  \* bound: failures
    MaxCrashes    \* bound: crashes

ASSUME WorkflowConstantsOK ==
    /\ IsFiniteSet(Nodes)
    /\ Budgets \subseteq Nat
    /\ {MaxFailures, MaxCrashes} \subseteq Nat
    /\ MaxParallel \in Nat \ {0}

VARIABLES
    phase,     \* "new", then "refused" or "created"
    edges,     \* the depends_on edges
    budget,    \* max_retries of every node
    status, retries,
    results,   \* the completed nodes that have a result
    held,      \* the nodes somebody was told to run who is still there
    saved,     \* the graph as it was last saved: status, retries, results
    done,      \* is_done of the last step
    crashes, failures

workflowVars ==
    <<phase, edges, budget, status, retries, results, held, saved, done, crashes, failures>>

Statuses == {"pending", "ready", "running", "completed", "failed", "blocked"}

predecessors(n) == {m \in Nodes : <<m, n>> \in edges}

\* No set of nodes in which each has a predecessor (what _find_cycle decides).
Acyclic ==
    ~ \E S \in (SUBSET Nodes) \ {{}} : \A n \in S : predecessors(n) \cap S # {}

Graph(s, r, res) == [status |-> s, retries |-> r, results |-> res]

\* The arguments of create_workflow: a graph, and a budget of retries.
WorkflowInit ==
    /\ phase = "new"
    /\ edges \in SUBSET (Nodes \X Nodes)
    /\ budget \in Budgets
    /\ status = [n \in Nodes |-> "pending"]
    /\ retries = [n \in Nodes |-> 0]
    /\ results = {} /\ held = {}
    /\ saved = Graph(status, retries, results)
    /\ done = FALSE
    /\ crashes = 0 /\ failures = 0

-----------------------------------------------------------------------------
(* the state machine                                                        *)

Transitions ==
    {<<"pending", "ready">>, <<"pending", "running">>, <<"ready", "running">>,
     <<"running", "completed">>, <<"running", "failed">>, <<"running", "blocked">>,
     <<"failed", "ready">>, <<"failed", "blocked">>, <<"blocked", "ready">>}

\* can_transition but for its two guards, see Failed and resume_workflow.
MayMove(from, to) == from = to \/ <<from, to>> \in Transitions

\* Mutant: only what waits for its first run is ready.
ready_set_Pending(s) ==
    {n \in Nodes : s[n] = "pending" /\ \A m \in predecessors(n) : s[m] = "completed"}

\* Mutant: one completed predecessor is enough.
ready_set_Any(s) ==
    {n \in Nodes : /\ s[n] \in {"pending", "ready"}
                   /\ predecessors(n) = {} \/ \E m \in predecessors(n) : s[m] = "completed"}

ready_set(s) ==
    {n \in Nodes : s[n] \in {"pending", "ready"} /\ \A m \in predecessors(n) : s[m] = "completed"}

-----------------------------------------------------------------------------
(* failures and completions                                                 *)

\* handle_failure adds one, and the transition to FAILED another one.
GivenUp(n) == retries[n] + 1 > budget

RetriesAfter(n) == IF GivenUp(n) THEN retries[n] + 1 ELSE retries[n] + 2

\* A retry needs budget left after both: else the node remains FAILED.
Failed(n) ==
    IF GivenUp(n) THEN "blocked"
    ELSE IF RetriesAfter(n) >= budget THEN "failed" ELSE "ready"

\* _cascade_block: what depends on n, up to what is completed or blocked.
Cascade(n) ==
    LET follows(S) == {m \in Nodes : /\ predecessors(m) \cap (S \cup {n}) # {}
                                     /\ m # n /\ status[m] \notin {"completed", "blocked"}}
    IN {m \in Nodes : \A S \in SUBSET Nodes : follows(S) \subseteq S => m \in S}

\* The order of the failures does not matter, since no node runs before those
\* it depends on are completed.  A cascade moves what may move to BLOCKED.
AfterFailures(F) ==
    [n \in Nodes |->
        IF n \in F THEN Failed(n)
        ELSE IF /\ \E m \in F : GivenUp(m) /\ n \in Cascade(m)
                /\ MayMove(status[n], "blocked")
             THEN "blocked" ELSE status[n]]

AfterCompletions(s, C) ==
    [n \in Nodes |-> IF n \in C /\ s[n] = "running" THEN "completed" ELSE s[n]]

AfterStarting(s, chosen) == [n \in Nodes |-> IF n \in chosen THEN "running" ELSE s[n]]

\* Mutant: a node that runs is not active.
Settled_OrRunning == {"completed", "blocked", "failed", "running"}

Settled == {"completed", "blocked", "failed"}

IsDone(s, ready) == ready = {} /\ \A n \in Nodes : s[n] \in Settled

Running == {n \in Nodes : status[n] = "running"}

\* The failures, the completions, then the best of the ready; what has just
\* failed waits for the next step.  When no agent is eligible next_subtasks
\* raises, after the answers were taken.
step(F, C) ==
    LET s1 == AfterFailures(F)
        s2 == AfterCompletions(s1, C)
        completed == {n \in C : s1[n] = "running"}
        ready == ready_set(s2)
        left == (held \ F) \ completed
    IN  /\ retries' = [n \in Nodes |-> IF n \in F THEN RetriesAfter(n) ELSE retries[n]]
        /\ results' = results \cup completed
        /\ \/ \E chosen \in SUBSET (ready \ F) :
                /\ Cardinality(chosen) <= MaxParallel
                /\ chosen = ready \ F \/ Cardinality(chosen) = MaxParallel
                /\ status' = AfterStarting(s2, chosen)
                /\ held' = left \cup chosen
                /\ done' = IsDone(status', ready)
           \/ /\ ready \ F # {}
              /\ status' = s2
              /\ held' = left
              /\ done' = FALSE

-----------------------------------------------------------------------------
(* the callers                                                              *)

create_workflow ==
    /\ phase = "new"
    /\ IF Nodes # {} /\ Acyclic
       THEN /\ phase' = "created"
            /\ status' = [n \in Nodes |-> IF predecessors(n) = {} THEN "ready" ELSE "pending"]
       ELSE phase' = "refused" /\ UNCHANGED status
    /\ saved' = Graph(status', retries, results)
    /\ UNCHANGED <<edges, budget, retries, results, held, done, crashes, failures>>

Step(F, C) ==
    /\ phase = "created"
    /\ F \subseteq Running /\ C \subseteq Running
    /\ failures + Cardinality(F) <= MaxFailures
    /\ failures' = failures + Cardinality(F)
    /\ step(F, C)
    /\ UNCHANGED <<phase, edges, budget, saved, crashes>>

\* to_dict, by whoever keeps the graph.
Save ==
    /\ phase = "created"
    /\ saved' = Graph(status, retries, results)
    /\ UNCHANGED <<phase, edges, budget, status, retries, results, held, done, crashes, failures>>

\* The process dies, and with it those who ran its nodes; from_dict.
Reload ==
    /\ phase = "created" /\ crashes < MaxCrashes
    /\ crashes' = crashes + 1
    /\ status' = saved.status /\ retries' = saved.retries /\ results' = saved.results
    /\ held' = {} /\ done' = FALSE
    /\ UNCHANGED <<phase, edges, budget, saved, failures>>

\* resume_workflow with the results D: what runs is completed by its result and may
\* not be made ready again, and what has its dependencies is made ready.
Resumed(D) ==
    LET s1 == AfterCompletions(status, D)
    IN [n \in Nodes |-> IF n \in ready_set(s1) THEN "ready" ELSE s1[n]]

\* resume, which goes on with run: steps without answers until all are started,
\* or the first of them raises.
resume(D) ==
    LET s == Resumed(D)
    IN  /\ phase = "created" /\ D \subseteq Running
        /\ results' = results \cup D
        /\ \/ /\ status' = AfterStarting(s, ready_set(s))
              /\ held' = (held \ D) \cup ready_set(s)
              /\ done' = IsDone(status', {})
           \/ /\ ready_set(s) # {}
              /\ status' = s
              /\ held' = held \ D
              /\ done' = FALSE
        /\ UNCHANGED <<phase, edges, budget, retries, saved, crashes, failures>>

WorkflowNext ==
    \/ create_workflow \/ Save \/ Reload
    \/ \E F, C \in SUBSET Nodes : Step(F, C)
    \/ \E D \in SUBSET Nodes : resume(D)

WorkflowSpec == WorkflowInit /\ [][WorkflowNext]_workflowVars

\* The caller creates its workflow and goes on stepping it until the agents, which
\* are given a chance again 15 minutes after a failure, may be told to run what
\* is ready; and who was told to run a node answers some day.
WorkflowFairness ==
    /\ WF_workflowVars(create_workflow)
    /\ WF_workflowVars(Step({}, {}))
    /\ \A n \in Nodes :
          WF_workflowVars(n \in held /\ \E C \in SUBSET Nodes : n \in C /\ Step({}, C))

WorkflowFairSpec == WorkflowSpec /\ WorkflowFairness

-----------------------------------------------------------------------------
(* properties                                                               *)

WorkflowTypeOK ==
    /\ phase \in {"new", "refused", "created"}
    /\ edges \in SUBSET (Nodes \X Nodes)
    /\ budget \in Budgets
    /\ status \in [Nodes -> Statuses]
    /\ retries \in [Nodes -> Nat]
    /\ results \subseteq Nodes /\ held \subseteq Nodes
    /\ done \in BOOLEAN
    /\ crashes \in Nat

\* In the graph s, with the results res: what may be started, runs or is completed
\* has all it depends on, and what is completed has its result.
Ordered(s, res) ==
    \A n \in Nodes :
        /\ s[n] \in {"ready", "running", "completed"} => \A m \in predecessors(n) : s[m] = "completed"
        /\ s[n] = "completed" => n \in res

\* The inductive invariant: no node is ready, runs or is completed unless all it
\* depends on is completed with a result, in the graph and in its saved copy
\* (ready_set, resume_workflow); who was told to run a node runs it, whatever
\* failed or was resumed meanwhile.
WorkflowIInv ==
    /\ WorkflowTypeOK
    /\ saved \in [status: [Nodes -> Statuses], retries: [Nodes -> Nat], results: SUBSET Nodes]
    /\ Ordered(status, results)
    /\ Ordered(saved.status, saved.results)
    /\ held \subseteq Running /\ (phase = "new" => held = {})
    /\ done => phase = "created" /\ \A n \in Nodes : status[n] \in Settled

\* When a step reports is_done nothing moves any more, whatever is resumed.
DoneIsFinal == [][done => status' = status \/ crashes' > crashes]_workflowVars

\* What nothing completes any more: a node that failed for good, one that ran when
\* its process died, and what depends on them.
Lost ==
    LET stuck == {n \in Nodes : \/ status[n] \in {"failed", "blocked"}
                                \/ status[n] = "running" /\ n \notin held}
        closed(S) == stuck \subseteq S /\ \A n \in Nodes : predecessors(n) \cap S # {} => n \in S
    IN {n \in Nodes : \A S \in SUBSET Nodes : closed(S) => n \in S}

\* A workflow that is created comes to its end some day: through retries, crashes,
\* resumptions and steps without an eligible agent, and in any order of the
\* answers, all but the lost nodes are completed with a result, and when nothing
\* is left to do the step says so.
WorkflowCompletes ==
    phase = "created" ~>
        /\ \A n \in Nodes : n \in Lost \/ (status[n] = "completed" /\ n \in results)
        /\ (\A n \in Nodes : status[n] \in Settled) => done

-----------------------------------------------------------------------------
(* what the documents say and the code does not                             *)

\* docs/sprints/sprint9/architecture.md:223 "Eger retry_count >= max_retries" (a
\* node whose retries are used up is BLOCKED, and all that depend on it with it):
\* a step leaves no node FAILED, and none waits for a node that is BLOCKED.
ExhaustedBlocks ==
    \A n \in Nodes :
        /\ status[n] # "failed"
        /\ status[n] \notin {"completed", "blocked"} =>
              \A m \in predecessors(n) : status[m] # "blocked"

=============================================================================
