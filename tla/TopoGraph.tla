------------------------------ MODULE TopoGraph ------------------------------
(***************************************************************************)
(* TopoGraph (express_parser.cpp): the dependency graph that decides in    *)
(* which order the SQL generator writes its tables, and its topo_sort().   *)
(* The maps graph_ and in_degree_ are total functions here; known is the   *)
(* set of their keys.  Maps and sets are iterated in ascending order.      *)
(***************************************************************************)
EXTENDS Integers, Sequences, FiniteSets

CONSTANT Nodes

ASSUME NodesAssumption == Nodes \subseteq Int /\ IsFiniteSet(Nodes)

VARIABLES
  known,      \* nodes that have been added
  graph_,     \* the successors of a node
  in_degree_, \* its predecessors that are still to come
  q,          \* nodes that are ready
  res,        \* the order found so far
  node,       \* the node whose edges are being followed
  todo,       \* what the current loop over nodes or edges has left
  phase       \* "build", then topo_sort(): "scan", "sort", "sorted"

graphVars == <<known, graph_, in_degree_, q, res, node, todo, phase>>

Phases == {"build", "scan", "sort", "sorted"}

Elements(s) == {s[i] : i \in DOMAIN s}

GraphTypeOK ==
  /\ known \subseteq Nodes
  /\ graph_ \in [Nodes -> SUBSET Nodes]
  /\ in_degree_ \in [Nodes -> Int]
  /\ q \in Seq(Nodes) /\ res \in Seq(Nodes)
  /\ node \in Nodes /\ todo \subseteq Nodes
  /\ phase \in Phases

GraphInit ==
  /\ known = {}
  /\ graph_ = [n \in Nodes |-> {}] /\ in_degree_ = [n \in Nodes |-> 0]
  /\ q = <<>> /\ res = <<>>
  /\ node \in Nodes /\ todo = {}
  /\ phase = "build"

-----------------------------------------------------------------------------
\* Variant: a repeated edge is counted again.
add_edge_recounts(from, to) ==
  /\ phase = "build"
  /\ known' = known \cup {from, to}
  /\ graph_' = [graph_ EXCEPT ![from] = @ \cup {to}]
  /\ in_degree_' = [in_degree_ EXCEPT ![to] = @ + 1]
  /\ UNCHANGED <<q, res, node, todo, phase>>

add_edge(from, to) ==
  /\ phase = "build"
  /\ known' = known \cup {from, to}
  /\ graph_' = [graph_ EXCEPT ![from] = @ \cup {to}]
  /\ in_degree_' = IF to \in graph_[from] THEN in_degree_
                   ELSE [in_degree_ EXCEPT ![to] = @ + 1]
  /\ UNCHANGED <<q, res, node, todo, phase>>

\* topo_sort() begins with a loop over all nodes.
topo_sort ==
  /\ phase = "build"
  /\ phase' = "scan" /\ todo' = known
  /\ UNCHANGED <<known, graph_, in_degree_, q, res, node>>

\* The next element of a loop in ascending order.
Least(n) == n \in todo /\ \A m \in todo : n <= m

\* q.push() when the node has no predecessor left.
PushIfReady(n, degree) == q' = IF degree = 0 THEN Append(q, n) ELSE q

scan_node(n) ==
  /\ phase = "scan" /\ Least(n)
  /\ todo' = todo \ {n}
  /\ PushIfReady(n, in_degree_[n])
  /\ UNCHANGED <<known, graph_, in_degree_, res, node, phase>>

pop_node ==
  /\ phase \in {"scan", "sort"} /\ todo = {} /\ q # <<>>
  /\ node' = Head(q) /\ q' = Tail(q)
  /\ res' = Append(res, Head(q))
  /\ todo' = graph_[Head(q)]
  /\ phase' = "sort"
  /\ UNCHANGED <<known, graph_, in_degree_>>

\* Variant: the successor is queued at its first edge.
follow_edge_all(n) ==
  /\ phase = "sort" /\ Least(n)
  /\ todo' = todo \ {n}
  /\ in_degree_' = [in_degree_ EXCEPT ![n] = @ - 1]
  /\ q' = Append(q, n)
  /\ UNCHANGED <<known, graph_, res, node, phase>>

follow_edge(n) ==
  /\ phase = "sort" /\ Least(n)
  /\ todo' = todo \ {n}
  /\ in_degree_' = [in_degree_ EXCEPT ![n] = @ - 1]
  /\ PushIfReady(n, in_degree_[n] - 1)
  /\ UNCHANGED <<known, graph_, res, node, phase>>

return_order ==
  /\ phase \in {"scan", "sort"} /\ todo = {} /\ q = <<>>
  /\ phase' = "sorted"
  /\ UNCHANGED <<known, graph_, in_degree_, q, res, node, todo>>

SortStep ==
  \/ \E n \in Nodes : scan_node(n) \/ follow_edge(n)
  \/ pop_node \/ return_order

GraphNext == (\E m, n \in Nodes : add_edge(m, n)) \/ topo_sort \/ SortStep

GraphSpec == GraphInit /\ [][GraphNext]_graphVars

-----------------------------------------------------------------------------
(* A node is put out once, and only after every node with an edge to it:   *)
(* true at any time of the sort and for any graph, cyclic ones included.   *)
Ordered ==
  /\ \A i, j \in DOMAIN res : res[i] = res[j] => i = j
  /\ \A i \in DOMAIN res : \A m \in Nodes :
       res[i] \in graph_[m] => \E j \in DOMAIN res : j < i /\ res[j] = m

\* The nodes reachable from set S in one or more steps: the least set that holds
\* the successors of S and of its own members.
Reach(S) ==
  {n \in Nodes : \A C \in SUBSET Nodes : UNION {graph_[m] : m \in S \cup C} \subseteq C => n \in C}

OnCycle == {n \in known : n \in Reach({n})}

(* What topo_sort() leaves out, without a word, is exactly what lies on a  *)
(* cycle or behind one; every other node that has an edge is put out.      *)
LeavesOutCycles ==
  phase = "sorted" => Elements(res) = known \ (OnCycle \cup Reach(OnCycle))

=============================================================================
