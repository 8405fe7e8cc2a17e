---------------------------- MODULE WorkflowGraph ----------------------------
(***************************************************************************)
(* The algorithms of DependencyEngine on the depends_on edges: the search  *)
(* for a cycle, the topological sort and the critical path, next to what   *)
(* they should compute.  Each loop is a recursive function of the number   *)
(* of its rounds.  Nodes are numbers, in the order of their ids, which is  *)
(* taken too where the code goes by the order in which they were added.    *)
(***************************************************************************)
EXTENDS Workflow, Integers, Sequences, SequencesExt

CONSTANT Priorities  \* that a node may have

ASSUME GraphConstantsOK ==
    /\ Nodes \subseteq Nat \ {0}
    /\ Priorities \subseteq Int

successors(n) == {m \in Nodes : <<n, m>> \in edges}

Least(S) == CHOOSE x \in S : \A y \in S : x <= y

-----------------------------------------------------------------------------
(* the search for a cycle                                                   *)

\* gray: the path from the root of the search to the node that is visited;
\* black: the nodes that are done; the others are white.
NoSearch == [gray |-> <<>>, black |-> {}]

\* A successor that is gray was found, and put behind the path.
Closed(path) == \E i \in 1..Len(path) - 1 : path[i] = path[Len(path)]

\* Mutant: only the first root is searched.
Searched_FirstRoot(s) == Closed(s.gray) \/ (s.gray = <<>> /\ (s.black # {} \/ Nodes = {}))

Searched(s) == Closed(s.gray) \/ (s.gray = <<>> /\ s.black = Nodes)

\* dfs looks at a successor that is not black, or leaves its node for good; the
\* loop over the roots goes on with a white one.
Visit(s) ==
    LET node == s.gray[Len(s.gray)]
        left == successors(node) \ s.black
    IN CASE Searched(s) -> s
         [] ~Searched(s) /\ s.gray = <<>> -> [s EXCEPT !.gray = <<Least(Nodes \ s.black)>>]
         [] ~Searched(s) /\ s.gray # <<>> /\ left # {} -> [s EXCEPT !.gray = Append(@, Least(left))]
         [] ~Searched(s) /\ s.gray # <<>> /\ left = {} ->
              [gray |-> Front(s.gray), black |-> s.black \cup {node}]

\* Every node is entered and left once, and a cycle takes one more.
Rounds == 2 * Cardinality(Nodes) + 1

Found ==
    LET run[k \in 0..Rounds] == IF k = 0 THEN NoSearch ELSE Visit(run[k - 1])
    IN run[Rounds]

_find_cycle ==
    LET path == Found.gray
    IN IF path = <<>> THEN <<>>
       ELSE SubSeq(path, CHOOSE i \in 1..Len(path) - 1 : path[i] = path[Len(path)], Len(path))

-----------------------------------------------------------------------------
(* the topological sort                                                     *)

\* Kahn's queue: no predecessor is left, that is, its in_degree is 0.
Free(sorted) ==
    {n \in Nodes \ ToSet(sorted) : predecessors(n) \subseteq ToSet(sorted)}

\* The queue is kept sorted, so it is the least that goes next.
Kahn(sorted) == IF Free(sorted) = {} THEN sorted ELSE Append(sorted, Least(Free(sorted)))

topological_sort ==
    LET run[k \in 0..Cardinality(Nodes)] == IF k = 0 THEN <<>> ELSE Kahn(run[k - 1])
    IN IF _find_cycle # <<>> THEN <<>> ELSE run[Cardinality(Nodes)]

-----------------------------------------------------------------------------
(* the critical path                                                        *)

\* dist: the weight of the heaviest path seen that ends in each node; prev: the
\* node before it there, or 0.
Untouched(priority) == [dist |-> priority, prev |-> [n \in Nodes |-> 0]]

\* In a graph without a cycle no node is its own successor, so the successors
\* can be looked at all at once.
Relax(priority, r, n) ==
    LET through(m) == r.dist[n] + priority[m]
        better == {m \in successors(n) : through(m) > r.dist[m]}
    IN [dist |-> [m \in Nodes |-> IF m \in better THEN through(m) ELSE r.dist[m]],
        prev |-> [m \in Nodes |-> IF m \in better THEN n ELSE r.prev[m]]]

Relaxed(priority, sorted) ==
    LET run[k \in 0..Len(sorted)] ==
          IF k = 0 THEN Untouched(priority) ELSE Relax(priority, run[k - 1], sorted[k])
    IN run[Len(sorted)]

Back(prev, path) == IF prev[path[1]] = 0 THEN path ELSE <<prev[path[1]]>> \o path

critical_path(priority) ==
    LET r == Relaxed(priority, topological_sort)
        end == Least({n \in Nodes : \A m \in Nodes : r.dist[m] <= r.dist[n]})
        run[k \in 0..Cardinality(Nodes)] == IF k = 0 THEN <<end>> ELSE Back(r.prev, run[k - 1])
    IN IF topological_sort = <<>> THEN <<>> ELSE run[Cardinality(Nodes)]

-----------------------------------------------------------------------------
(* properties                                                               *)

IsPath(p) == \A i \in 1..(Len(p) - 1) : <<p[i], p[i + 1]>> \in edges

WeightOf(priority, p) ==
    LET sum[k \in 0..Len(p)] == IF k = 0 THEN 0 ELSE sum[k - 1] + priority[p[k]]
    IN sum[Len(p)]

CycleFound ==
    /\ _find_cycle = <<>> <=> Acyclic
    /\ _find_cycle # <<>> => IsPath(_find_cycle) /\ Len(_find_cycle) > 1
                             /\ Head(_find_cycle) = Last(_find_cycle)

SortedRight ==
    /\ ToSet(topological_sort) = Nodes /\ Len(topological_sort) = Cardinality(Nodes)
    /\ \A i, j \in DOMAIN topological_sort :
          <<topological_sort[i], topological_sort[j]>> \in edges => i < j

Heaviest(priority) ==
    LET path == critical_path(priority)
    IN /\ path \in Seq(Nodes) /\ (path = <<>> <=> Nodes = {}) /\ IsPath(path)
       /\ \A k \in 1..Cardinality(Nodes) : \A p \in [1..k -> Nodes] :
             IsPath(p) => WeightOf(priority, p) <= WeightOf(priority, path)

\* For every graph: a cycle is found when there is one, and is one; the sort has
\* every node once, behind those it depends on; no path outweighs the critical
\* one (validate, topological_sort, critical_path).
GraphAlgorithmsRight ==
    phase = "new" =>
        /\ CycleFound
        /\ Acyclic => SortedRight /\ \A priority \in [Nodes -> Priorities] : Heaviest(priority)

=============================================================================
