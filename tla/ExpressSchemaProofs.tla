------------------------- MODULE ExpressSchemaProofs -------------------------
(***************************************************************************)
(* Proofs about TopoGraph and ExpressSchema.                               *)
(*                                                                         *)
(* topo_sort() puts a node out once, after all of its predecessors, and    *)
(* leaves out exactly what lies on a cycle or behind one, for every finite *)
(* set of nodes and every graph.  The invariant relates the counter        *)
(* in_degree_ to the edges that have still to be followed.                 *)
(*                                                                         *)
(* The parser fills descriptors that agree with the text: SInv for the     *)
(* entities and their subtypes, TInv for the types and the attributes.     *)
(* From SInv follow the order and completeness of the tables, from TInv    *)
(* their columns.                                                          *)
(***************************************************************************)
EXTENDS ExpressSchema, FiniteSetTheorems, WellFoundedInduction, TLAPS

\* The predecessors of n whose edge to n has not been followed yet.
Outstanding(n) ==
  {m \in Nodes : n \in graph_[m] /\ (m \notin Elements(res) \/ (m = node /\ n \in todo))}

Degrees == \A n \in Nodes : in_degree_[n] = Cardinality(Outstanding(n))

\* Nodes that are ready or put out wait for nobody.
Settled == \A n \in Elements(q) \cup Elements(res) : Outstanding(n) = {}

Once(s) == \A i, j \in DOMAIN s : s[i] = s[j] => i = j

Apart == Once(q) /\ Once(res) /\ Elements(q) \cap Elements(res) = {}

Preceded ==
  \A i \in DOMAIN res : \A m \in Nodes :
    res[i] \in graph_[m] => \E j \in DOMAIN res : j < i /\ res[j] = m

PhaseOK ==
  /\ phase = "build" => q = <<>> /\ res = <<>> /\ todo = {}
  /\ phase = "scan" => res = <<>> /\ Elements(q) \cap todo = {}
  /\ phase = "sort" => node \in Elements(res) /\ todo \subseteq graph_[node]

Inv == GraphTypeOK /\ Degrees /\ Settled /\ Apart /\ Preceded /\ PhaseOK

-----------------------------------------------------------------------------
LEMMA OutstandingFinite ==
  ASSUME NEW n
  PROVE  IsFiniteSet(Outstanding(n)) /\ Cardinality(Outstanding(n)) \in Nat
         /\ (Cardinality(Outstanding(n)) = 0 <=> Outstanding(n) = {})
<1>1. Outstanding(n) \in SUBSET Nodes
  BY DEF Outstanding
<1> QED
  BY <1>1, FS_Subset, FS_CardinalityType, FS_EmptySet, NodesAssumption

LEMMA ElementsAppend ==
  ASSUME NEW s \in Seq(Nodes), NEW x \in Nodes
  PROVE  /\ Append(s, x) \in Seq(Nodes)
         /\ Elements(Append(s, x)) = Elements(s) \cup {x}
         /\ x \notin Elements(s) /\ Once(s) => Once(Append(s, x))
<1>1. /\ Append(s, x) \in Seq(Nodes) /\ Len(Append(s, x)) = Len(s) + 1
      /\ DOMAIN Append(s, x) = 1 .. (Len(s) + 1) /\ DOMAIN s = 1 .. Len(s) /\ Len(s) \in Nat
      /\ \A i \in 1 .. Len(s) : Append(s, x)[i] = s[i]
      /\ Append(s, x)[Len(s) + 1] = x
  OBVIOUS
<1>2. Elements(Append(s, x)) = Elements(s) \cup {x}
  BY <1>1 DEF Elements
<1>3. x \notin Elements(s) /\ Once(s) => Once(Append(s, x))
  BY <1>1 DEF Elements, Once
<1> QED
  BY <1>1, <1>2, <1>3

LEMMA ElementsTail ==
  ASSUME NEW s \in Seq(Nodes), s # <<>>, Once(s)
  PROVE  /\ Tail(s) \in Seq(Nodes) /\ Head(s) \in Nodes /\ Head(s) \in Elements(s)
         /\ Elements(Tail(s)) = Elements(s) \ {Head(s)}
         /\ Once(Tail(s))
<1>1. /\ Tail(s) \in Seq(Nodes) /\ Head(s) = s[1] /\ Head(s) \in Nodes
      /\ DOMAIN s = 1 .. Len(s) /\ Len(s) \in Nat \ {0}
      /\ DOMAIN Tail(s) = 1 .. (Len(s) - 1)
      /\ \A i \in 1 .. (Len(s) - 1) : Tail(s)[i] = s[i + 1]
  OBVIOUS
<1>2. Head(s) \in Elements(s)
  BY <1>1 DEF Elements
<1>3. Elements(Tail(s)) \subseteq Elements(s) \ {Head(s)}
  BY <1>1 DEF Elements, Once
<1>4. ASSUME NEW x \in Elements(s), x # Head(s)
      PROVE  x \in Elements(Tail(s))
  <2>1. PICK i \in 1 .. Len(s) : x = s[i]
    BY <1>1 DEF Elements
  <2>2. i # 1 /\ i - 1 \in 1 .. (Len(s) - 1) /\ Tail(s)[i - 1] = x
    BY <1>1, <1>4, <2>1
  <2> QED
    BY <1>1, <2>2 DEF Elements
<1>5. Once(Tail(s))
  BY <1>1 DEF Once
<1> QED
  BY <1>1, <1>2, <1>3, <1>4, <1>5

LEMMA ElementsEmpty == Elements(<<>>) = {} /\ Once(<<>>) /\ <<>> \in Seq(Nodes)
BY DEF Elements, Once

LEMMA InitInv == GraphInit => Inv
<1> SUFFICES ASSUME GraphInit PROVE Inv
  OBVIOUS
<1> USE DEF GraphInit
<1>1. GraphTypeOK
  BY DEF GraphTypeOK, Phases
<1>2. \A n \in Nodes : Outstanding(n) = {}
  BY DEF Outstanding
<1>3. Degrees
  BY <1>2, FS_EmptySet DEF Degrees
<1>4. Settled /\ Apart /\ Preceded /\ PhaseOK
  BY ElementsEmpty DEF Settled, Apart, Preceded, PhaseOK
<1> QED
  BY <1>1, <1>3, <1>4 DEF Inv

LEMMA AddEdgeInv ==
  ASSUME Inv, NEW from \in Nodes, NEW to \in Nodes, add_edge(from, to)
  PROVE  Inv'
<1> USE DEF Inv
<1>0. /\ phase = "build" /\ q = <<>> /\ res = <<>> /\ todo = {}
      /\ UNCHANGED <<q, res, node, todo, phase>>
      /\ graph_' = [graph_ EXCEPT ![from] = @ \cup {to}]
  BY DEF add_edge, PhaseOK
<1>1. GraphTypeOK'
  BY DEF add_edge, GraphTypeOK
<1>2. ASSUME NEW n \in Nodes
      PROVE  in_degree_'[n] = Cardinality(Outstanding(n)')
  <2>1. Outstanding(n)' = IF n = to THEN Outstanding(n) \cup {from} ELSE Outstanding(n)
    BY <1>0, ElementsEmpty DEF Outstanding, GraphTypeOK
  <2>2. n = to => (from \in Outstanding(n) <=> to \in graph_[from])
    BY <1>0, ElementsEmpty DEF Outstanding
  <2>3. Cardinality(Outstanding(n) \cup {from}) =
          IF from \in Outstanding(n) THEN Cardinality(Outstanding(n))
          ELSE Cardinality(Outstanding(n)) + 1
    BY OutstandingFinite, FS_AddElement
  <2>4. in_degree_[n] = Cardinality(Outstanding(n)) /\ in_degree_ \in [Nodes -> Int]
    BY DEF Degrees, GraphTypeOK
  <2>5. in_degree_' = IF to \in graph_[from] THEN in_degree_
                      ELSE [in_degree_ EXCEPT ![to] = @ + 1]
    BY DEF add_edge
  <2> QED
    BY <2>1, <2>2, <2>3, <2>4, <2>5
<1>3. Degrees'
  BY <1>2 DEF Degrees
<1>4. (Settled /\ Apart /\ Preceded /\ PhaseOK)'
  BY <1>0, ElementsEmpty DEF Settled, Apart, Preceded, PhaseOK
<1> QED
  BY <1>1, <1>3, <1>4

LEMMA StartInv == Inv /\ topo_sort => Inv'
<1> SUFFICES ASSUME Inv, topo_sort PROVE Inv'
  OBVIOUS
<1> USE DEF Inv
<1>0. /\ q = <<>> /\ res = <<>> /\ phase' = "scan" /\ todo' = known
      /\ UNCHANGED <<known, graph_, in_degree_, q, res, node>>
  BY DEF topo_sort, PhaseOK
<1>1. GraphTypeOK'
  BY <1>0 DEF GraphTypeOK, Phases
<1>2. \A n \in Nodes : Outstanding(n)' = Outstanding(n)
  BY <1>0, ElementsEmpty DEF Outstanding
<1>3. Degrees'
  BY <1>0, <1>2 DEF Degrees
<1>4. (Settled /\ Apart /\ Preceded /\ PhaseOK)'
  BY <1>0, ElementsEmpty DEF Settled, Apart, Preceded, PhaseOK
<1> QED
  BY <1>1, <1>3, <1>4

LEMMA ScanInv ==
  ASSUME Inv, NEW n \in Nodes, scan_node(n)
  PROVE  Inv'
<1> USE DEF Inv
<1>0. /\ phase = "scan" /\ res = <<>> /\ n \in todo /\ n \notin Elements(q)
      /\ todo' = todo \ {n}
      /\ q' = IF in_degree_[n] = 0 THEN Append(q, n) ELSE q
      /\ UNCHANGED <<known, graph_, in_degree_, res, node, phase>>
  BY DEF scan_node, Least, PushIfReady, PhaseOK
<1>1. /\ q' \in Seq(Nodes) /\ Once(q')
      /\ Elements(q') = IF in_degree_[n] = 0 THEN Elements(q) \cup {n} ELSE Elements(q)
  BY <1>0, ElementsAppend DEF GraphTypeOK, Apart
<1>2. GraphTypeOK'
  BY <1>0, <1>1 DEF GraphTypeOK
<1>3. \A m \in Nodes : Outstanding(m)' = Outstanding(m)
  BY <1>0, ElementsEmpty DEF Outstanding
<1>4. Degrees'
  BY <1>0, <1>3 DEF Degrees
<1>5. Settled'
  <2>1. in_degree_[n] = 0 => Outstanding(n) = {}
    BY OutstandingFinite DEF Degrees
  <2>2. Elements(q) \subseteq Nodes
    BY DEF GraphTypeOK, Elements
  <2>3. Elements(res') = {} /\ Elements(res) = {}
    BY <1>0, ElementsEmpty
  <2>4. Elements(q)' = Elements(q') /\ Elements(res)' = Elements(res')
    BY DEF Elements
  <2> QED
    BY <1>1, <1>3, <2>1, <2>2, <2>3, <2>4 DEF Settled
<1>6. (Apart /\ Preceded /\ PhaseOK)'
  BY <1>0, <1>1, ElementsEmpty DEF Apart, Preceded, PhaseOK, Elements, Once
<1> QED
  BY <1>2, <1>4, <1>5, <1>6

LEMMA PopInv == Inv /\ pop_node => Inv'
<1> SUFFICES ASSUME Inv, pop_node PROVE Inv'
  OBVIOUS
<1> USE DEF Inv
<1>0. PICK h \in Nodes : h = Head(q)
  BY ElementsTail DEF pop_node, GraphTypeOK, Apart
<1>1. /\ todo = {} /\ q # <<>> /\ node' = h /\ q' = Tail(q) /\ res' = Append(res, h)
      /\ todo' = graph_[h] /\ phase' = "sort" /\ UNCHANGED <<known, graph_, in_degree_>>
  BY <1>0 DEF pop_node
<1>2. /\ q' \in Seq(Nodes) /\ h \in Elements(q) /\ Once(q')
      /\ Elements(q') = Elements(q) \ {h}
  BY <1>0, <1>1, ElementsTail DEF GraphTypeOK, Apart
<1>3. h \notin Elements(res) /\ Outstanding(h) = {}
  BY <1>2 DEF Apart, Settled
<1>4. res' \in Seq(Nodes) /\ Elements(res') = Elements(res) \cup {h} /\ Once(res')
  BY <1>1, <1>3, ElementsAppend DEF GraphTypeOK, Apart
<1>5. GraphTypeOK'
  BY <1>1, <1>2, <1>4 DEF GraphTypeOK, Phases
<1>6. Elements(q)' = Elements(q') /\ Elements(res)' = Elements(res')
  BY DEF Elements
<1>7. \A n \in Nodes : Outstanding(n)' = Outstanding(n)
  BY <1>1, <1>3, <1>4, <1>6 DEF Outstanding
<1>8. Degrees'
  BY <1>1, <1>7 DEF Degrees
<1>9. Settled'
  <2>1. Elements(q) \cup Elements(res) \subseteq Nodes
    BY DEF GraphTypeOK, Elements
  <2> QED
    BY <1>2, <1>4, <1>6, <1>7, <2>1 DEF Settled
<1>10. Apart'
  BY <1>2, <1>3, <1>4, <1>6 DEF Apart, Once
<1>11. Preceded'
  <2>1. /\ DOMAIN res = 1 .. Len(res) /\ DOMAIN res' = 1 .. (Len(res) + 1) /\ Len(res) \in Nat
        /\ \A i \in 1 .. Len(res) : res'[i] = res[i]
        /\ res'[Len(res) + 1] = h
    BY <1>1 DEF GraphTypeOK
  <2>2. ASSUME NEW i \in 1 .. (Len(res) + 1), NEW m \in Nodes, res'[i] \in graph_[m]
        PROVE  \E j \in 1 .. (Len(res) + 1) : j < i /\ res'[j] = m
    <3>1. CASE i \in 1 .. Len(res)
      <4>1. PICK j \in 1 .. Len(res) : j < i /\ res[j] = m
        BY <2>1, <2>2, <3>1 DEF Preceded
      <4> QED
        BY <2>1, <4>1
    <3>2. CASE i = Len(res) + 1
      <4>1. m \in Elements(res)
        BY <1>3, <2>1, <2>2, <3>2 DEF Outstanding
      <4>2. PICK j \in 1 .. Len(res) : res[j] = m
        BY <2>1, <4>1 DEF Elements
      <4> QED
        BY <2>1, <3>2, <4>2
    <3> QED
      BY <2>1, <3>1, <3>2
  <2> QED
    BY <1>1, <2>1, <2>2 DEF Preceded
<1>12. PhaseOK'
  BY <1>1, <1>4, <1>6 DEF PhaseOK
<1> QED
  BY <1>5, <1>8, <1>9, <1>10, <1>11, <1>12

LEMMA FollowInv ==
  ASSUME Inv, NEW n \in Nodes, follow_edge(n)
  PROVE  Inv'
<1> USE DEF Inv
<1>0. /\ phase = "sort" /\ n \in todo /\ todo' = todo \ {n}
      /\ node \in Elements(res) /\ n \in graph_[node] /\ todo \subseteq graph_[node]
      /\ in_degree_' = [in_degree_ EXCEPT ![n] = @ - 1]
      /\ q' = IF in_degree_[n] - 1 = 0 THEN Append(q, n) ELSE q
      /\ UNCHANGED <<known, graph_, res, node, phase>>
  BY DEF follow_edge, Least, PushIfReady, PhaseOK
<1>1. node \in Outstanding(n) /\ node \in Nodes
  BY <1>0 DEF Outstanding, GraphTypeOK
<1>2. n \notin Elements(q) /\ n \notin Elements(res)
  BY <1>1 DEF Settled
<1>3. /\ q' \in Seq(Nodes) /\ Once(q')
      /\ Elements(q') = IF in_degree_[n] - 1 = 0 THEN Elements(q) \cup {n} ELSE Elements(q)
  BY <1>0, <1>2, ElementsAppend DEF GraphTypeOK, Apart
<1>4. GraphTypeOK'
  BY <1>0, <1>3 DEF GraphTypeOK
<1>5. Elements(q)' = Elements(q') /\ Elements(res)' = Elements(res)
  BY <1>0 DEF Elements
<1>6. \A m \in Nodes : Outstanding(m)' = IF m = n THEN Outstanding(m) \ {node} ELSE Outstanding(m)
  BY <1>0, <1>5 DEF Outstanding
<1>7. ASSUME NEW m \in Nodes
      PROVE  in_degree_'[m] = Cardinality(Outstanding(m)')
  <2>1. Cardinality(Outstanding(n) \ {node}) = Cardinality(Outstanding(n)) - 1
    BY <1>1, OutstandingFinite, FS_RemoveElement
  <2>2. in_degree_[m] = Cardinality(Outstanding(m)) /\ in_degree_ \in [Nodes -> Int]
    BY DEF Degrees, GraphTypeOK
  <2> QED
    BY <1>0, <1>6, <2>1, <2>2
<1>8. Degrees'
  BY <1>7 DEF Degrees
<1>9. Settled'
  <2>1. in_degree_[n] - 1 = 0 => Outstanding(n)' = {}
    <3>1. Cardinality(Outstanding(n) \ {node}) = Cardinality(Outstanding(n)) - 1
      BY <1>1, OutstandingFinite, FS_RemoveElement
    <3>2. IsFiniteSet(Outstanding(n) \ {node})
      BY OutstandingFinite, FS_RemoveElement
    <3>3. in_degree_[n] = Cardinality(Outstanding(n))
      BY DEF Degrees
    <3> QED
      BY <1>6, <3>1, <3>2, <3>3, FS_EmptySet
  <2>2. Elements(q) \cup Elements(res) \subseteq Nodes
    BY DEF GraphTypeOK, Elements
  <2>3. \A m \in Elements(q) \cup Elements(res) : Outstanding(m)' = {}
    BY <1>2, <1>6, <2>2 DEF Settled
  <2> QED
    BY <1>3, <1>5, <2>1, <2>3 DEF Settled
<1>10. Apart'
  BY <1>0, <1>2, <1>3, <1>5 DEF Apart, Once
<1>11. Preceded' /\ PhaseOK'
  BY <1>0, <1>5 DEF Preceded, PhaseOK
<1> QED
  BY <1>4, <1>8, <1>9, <1>10, <1>11

LEMMA ReturnInv == Inv /\ return_order => Inv'
<1> SUFFICES ASSUME Inv, return_order PROVE Inv'
  OBVIOUS
<1> USE DEF Inv
<1>0. phase' = "sorted" /\ UNCHANGED <<known, graph_, in_degree_, q, res, node, todo>>
  BY DEF return_order
<1>1. GraphTypeOK'
  BY <1>0 DEF GraphTypeOK, Phases
<1>2. \A n : Outstanding(n)' = Outstanding(n)
  BY <1>0 DEF Outstanding, Elements
<1> QED
  BY <1>0, <1>1, <1>2
     DEF Degrees, Settled, Apart, Preceded, PhaseOK, Elements, Once

LEMMA NextInv == Inv /\ [GraphNext]_graphVars => Inv'
<1> SUFFICES ASSUME Inv, [GraphNext]_graphVars PROVE Inv'
  OBVIOUS
<1>1. CASE UNCHANGED graphVars
  <2>1. \A n : Outstanding(n)' = Outstanding(n)
    BY <1>1 DEF graphVars, Outstanding, Elements
  <2>2. GraphTypeOK' /\ Degrees'
    BY <1>1, <2>1 DEF graphVars, Inv, GraphTypeOK, Degrees
  <2>3. (Settled /\ Apart /\ Preceded /\ PhaseOK)'
    BY <1>1, <2>1 DEF graphVars, Inv, Settled, Apart, Preceded, PhaseOK, Elements, Once
  <2> QED
    BY <2>2, <2>3 DEF Inv
<1> QED
  BY <1>1, AddEdgeInv, StartInv, ScanInv, PopInv, FollowInv, ReturnInv DEF GraphNext, SortStep

\* The inductive invariant of building and sorting a dependency graph.
THEOREM GraphInvariant == GraphSpec => []Inv
BY InitInv, NextInv, PTL DEF GraphSpec

\* topo_sort() puts a node out once and only after every node with an edge to
\* it, at any time and for every graph, cyclic ones included.
THEOREM SortIsOrdered == GraphSpec => []Ordered
<1>1. Inv => Ordered
  BY DEF Inv, Apart, Once, Preceded, Ordered
<1> QED
  BY <1>1, GraphInvariant, PTL

\* What the counters say is exact: in_degree_ is never negative, and when it is
\* zero every predecessor has been put out.
THEOREM DegreesAreExact == GraphSpec => []Degrees
<1>1. Inv => Degrees
  BY DEF Inv
<1> QED
  BY <1>1, GraphInvariant, PTL

-----------------------------------------------------------------------------
(* What is left out *)

EdgesKnown ==
  /\ \A m, n \in Nodes : n \in graph_[m] => m \in known /\ n \in known
  /\ Elements(q) \cup Elements(res) \subseteq known
  /\ phase \in {"scan", "sort"} => todo \subseteq known

\* No node that waits for nobody is forgotten.
Complete ==
  phase # "build" =>
    \A n \in known : Outstanding(n) = {} =>
      n \in Elements(q) \cup Elements(res) \/ (phase = "scan" /\ n \in todo)

LoopsEnd == phase = "sorted" => q = <<>> /\ todo = {}

LEMMA CompleteInit == GraphInit => EdgesKnown /\ Complete /\ LoopsEnd
BY ElementsEmpty DEF GraphInit, EdgesKnown, Complete, LoopsEnd

LEMMA CompleteNext ==
  ASSUME Inv, EdgesKnown, Complete, LoopsEnd, [GraphNext]_graphVars
  PROVE  (EdgesKnown /\ Complete /\ LoopsEnd)'
<1>1. ASSUME NEW m \in Nodes, NEW n \in Nodes, add_edge(m, n)
      PROVE  (EdgesKnown /\ Complete /\ LoopsEnd)'
  BY <1>1 DEF add_edge, EdgesKnown, Complete, LoopsEnd, Inv, GraphTypeOK
<1>2. CASE topo_sort
  BY <1>2 DEF topo_sort, EdgesKnown, Complete, LoopsEnd
<1>3. ASSUME NEW n \in Nodes, scan_node(n)
      PROVE  (EdgesKnown /\ Complete /\ LoopsEnd)'
  <2>0. /\ phase = "scan" /\ todo' = todo \ {n} /\ res = <<>>
        /\ q' = IF in_degree_[n] = 0 THEN Append(q, n) ELSE q
        /\ UNCHANGED <<known, graph_, in_degree_, res, node, phase>>
    BY <1>3 DEF scan_node, PushIfReady, Inv, PhaseOK
  <2>1. Elements(q') = IF in_degree_[n] = 0 THEN Elements(q) \cup {n} ELSE Elements(q)
    BY <2>0, ElementsAppend DEF Inv, GraphTypeOK
  <2>2. \A m \in Nodes : Outstanding(m)' = Outstanding(m)
    BY <2>0, ElementsEmpty DEF Outstanding
  <2>3. Outstanding(n) = {} => in_degree_[n] = 0
    BY OutstandingFinite DEF Inv, Degrees
  <2>4. Elements(q)' = Elements(q') /\ Elements(res)' = Elements(res) /\ known \subseteq Nodes
    BY <2>0 DEF Elements, Inv, GraphTypeOK
  <2>5. Complete'
    BY <2>0, <2>1, <2>2, <2>3, <2>4 DEF Complete
  <2>6. EdgesKnown'
    BY <1>3, <2>0, <2>1, <2>4 DEF EdgesKnown, scan_node, Least
  <2> QED
    BY <2>0, <2>5, <2>6 DEF LoopsEnd
<1>4. CASE pop_node
  <2>0. PICK h \in Nodes : h = Head(q)
    BY <1>4, ElementsTail DEF pop_node, Inv, GraphTypeOK, Apart
  <2>1. /\ todo = {} /\ q # <<>> /\ node' = h /\ q' = Tail(q) /\ res' = Append(res, h)
        /\ todo' = graph_[h] /\ phase' = "sort" /\ phase # "build"
        /\ UNCHANGED <<known, graph_, in_degree_>>
    BY <1>4, <2>0 DEF pop_node
  <2>2. /\ Elements(q') = Elements(q) \ {h} /\ h \in Elements(q)
        /\ Elements(res') = Elements(res) \cup {h}
    BY <2>0, <2>1, ElementsTail, ElementsAppend DEF Inv, GraphTypeOK, Apart
  <2>3. /\ Elements(q)' = Elements(q') /\ Elements(res)' = Elements(res')
        /\ known \subseteq Nodes
    BY DEF Elements, Inv, GraphTypeOK
  <2>4. h \notin Elements(res)
    BY <2>2 DEF Inv, Apart
  <2>5. \A n \in Nodes : Outstanding(n)' = Outstanding(n)
    BY <2>1, <2>2, <2>3, <2>4 DEF Outstanding
  <2>6. Complete'
    BY <2>1, <2>2, <2>3, <2>5 DEF Complete
  <2>7. EdgesKnown'
    BY <2>0, <2>1, <2>2, <2>3 DEF EdgesKnown, Inv, GraphTypeOK
  <2> QED
    BY <2>1, <2>6, <2>7 DEF LoopsEnd
<1>5. ASSUME NEW n \in Nodes, follow_edge(n)
      PROVE  (EdgesKnown /\ Complete /\ LoopsEnd)'
  <2>0. Inv'
    BY <1>5, FollowInv
  <2>1. /\ phase = "sort" /\ todo' = todo \ {n}
        /\ in_degree_' = [in_degree_ EXCEPT ![n] = @ - 1]
        /\ q' = IF in_degree_[n] - 1 = 0 THEN Append(q, n) ELSE q
        /\ UNCHANGED <<known, graph_, res, node, phase>>
    BY <1>5 DEF follow_edge, PushIfReady
  <2>2. Elements(q') = IF in_degree_[n] - 1 = 0 THEN Elements(q) \cup {n} ELSE Elements(q)
    BY <2>1, ElementsAppend DEF Inv, GraphTypeOK
  <2>3. /\ Elements(q)' = Elements(q') /\ Elements(res)' = Elements(res)
        /\ known \subseteq Nodes
    BY <2>1 DEF Elements, Inv, GraphTypeOK
  <2>4. \A m \in Nodes : m # n => Outstanding(m)' = Outstanding(m)
    BY <2>1, <2>3 DEF Outstanding
  <2>5. Outstanding(n)' = {} => in_degree_[n] - 1 = 0
    <3>1. in_degree_'[n] = Cardinality(Outstanding(n)')
      BY <2>0 DEF Inv, Degrees
    <3>2. in_degree_'[n] = in_degree_[n] - 1
      BY <2>1 DEF Inv, GraphTypeOK
    <3> QED
      BY <3>1, <3>2, FS_EmptySet
  <2>6. Complete'
    BY <2>1, <2>2, <2>3, <2>4, <2>5 DEF Complete
  <2>7. EdgesKnown'
    BY <1>5, <2>1, <2>2, <2>3 DEF EdgesKnown, follow_edge, Least
  <2> QED
    BY <2>1, <2>6, <2>7 DEF LoopsEnd
<1>6. CASE return_order
  <2>1. /\ phase' = "sorted" /\ phase # "build" /\ todo = {} /\ q = <<>>
        /\ UNCHANGED <<known, graph_, in_degree_, q, res, node, todo>>
    BY <1>6 DEF return_order
  <2>2. \A n : Outstanding(n)' = Outstanding(n)
    BY <2>1 DEF Outstanding, Elements
  <2> QED
    BY <2>1, <2>2 DEF EdgesKnown, Complete, LoopsEnd, Elements
<1>7. CASE UNCHANGED graphVars
  <2>1. \A n : Outstanding(n)' = Outstanding(n)
    BY <1>7 DEF graphVars, Outstanding, Elements
  <2> QED
    BY <1>7, <2>1 DEF graphVars, EdgesKnown, Complete, LoopsEnd, Elements
<1> QED
  BY <1>1, <1>2, <1>3, <1>4, <1>5, <1>6, <1>7 DEF GraphNext, SortStep

\* What topo_sort() leaves out waits for something else that is left out: since
\* the graph is finite, such a chain of nodes runs into a cycle.
LeftOutWaits ==
  phase = "sorted" =>
    \A n \in known \ Elements(res) : \E m \in known \ Elements(res) : n \in graph_[m]

LEMMA LeftOutLemma == Inv /\ EdgesKnown /\ Complete /\ LoopsEnd => LeftOutWaits
<1> SUFFICES ASSUME Inv, EdgesKnown, Complete, LoopsEnd, phase = "sorted",
                    NEW n \in known \ Elements(res)
             PROVE  \E m \in known \ Elements(res) : n \in graph_[m]
  BY DEF LeftOutWaits
<1>1. q = <<>> /\ todo = {} /\ n \in Nodes
  BY DEF LoopsEnd, Inv, GraphTypeOK
<1>2. Outstanding(n) # {}
  BY <1>1, ElementsEmpty DEF Complete
<1>3. PICK m \in Nodes : n \in graph_[m] /\ m \notin Elements(res)
  BY <1>1, <1>2 DEF Outstanding
<1> QED
  BY <1>1, <1>3 DEF EdgesKnown

\* A node is left out of the order only if one of its predecessors is.
THEOREM LeftOutNodesWait == GraphSpec => []LeftOutWaits
BY LeftOutLemma, GraphInvariant, CompleteInit, CompleteNext, PTL DEF GraphSpec

-----------------------------------------------------------------------------
(* What is left out, exactly *)

Successors(S) == UNION {graph_[m] : m \in S}

LEMMA ReachFacts ==
  ASSUME GraphTypeOK, NEW S \in SUBSET Nodes
  PROVE  /\ Reach(S) \subseteq Nodes
         /\ Successors(S) \subseteq Reach(S)
         /\ Successors(Reach(S)) \subseteq Reach(S)
         /\ \A C \in SUBSET Nodes :
              Successors(S) \subseteq C /\ Successors(C) \subseteq C => Reach(S) \subseteq C
<1>1. Reach(S) = {n \in Nodes : \A C \in SUBSET Nodes :
                    Successors(S) \subseteq C /\ Successors(C) \subseteq C => n \in C}
  BY DEF Reach, Successors
<1>2. \A T \in SUBSET Nodes : Successors(T) \subseteq Nodes
  BY DEF Successors, GraphTypeOK
<1>3. ASSUME NEW m \in Reach(S), NEW n \in graph_[m]
      PROVE  n \in Reach(S)
  <2>1. n \in Nodes /\ m \in Nodes
    BY <1>1 DEF GraphTypeOK
  <2>2. ASSUME NEW C \in SUBSET Nodes, Successors(S) \subseteq C, Successors(C) \subseteq C
        PROVE  n \in C
    BY <1>1, <2>2 DEF Successors
  <2> QED
    BY <1>1, <2>1, <2>2
<1>4. Successors(Reach(S)) \subseteq Reach(S)
  BY <1>3 DEF Successors
<1>5. Successors(S) \subseteq Reach(S)
  BY <1>1, <1>2
<1>6. \A C \in SUBSET Nodes :
        Successors(S) \subseteq C /\ Successors(C) \subseteq C => Reach(S) \subseteq C
  BY <1>1
<1> QED
  BY <1>1, <1>4, <1>5, <1>6

\* What is put out is not behind a node that is left out ...
LEMMA PutOut ==
  ASSUME Inv, NEW S \in SUBSET Nodes, S \cap Elements(res) = {}
  PROVE  Reach(S) \cap Elements(res) = {}
<1> DEFINE C == Nodes \ Elements(res)
<1>1. ASSUME NEW x \in C, NEW y \in graph_[x]
      PROVE  y \in C
  <2>1. y \in Nodes
    BY DEF Inv, GraphTypeOK
  <2>2. ASSUME NEW i \in DOMAIN res, y = res[i]
        PROVE  FALSE
    BY <2>2 DEF Inv, Preceded, Elements
  <2> QED
    BY <2>1, <2>2 DEF Elements
<1>2. Successors(C) \subseteq C
  BY <1>1 DEF Successors
<1>3. Successors(S) \subseteq C
  BY <1>1 DEF Successors
<1> QED
  BY <1>2, <1>3, ReachFacts DEF Inv

\* ... nor on a cycle: what can be reached from it comes later, or not at all.
LEMMA PutOutNotOnCycle ==
  ASSUME Inv, NEW n \in Elements(res)
  PROVE  n \notin Reach({n})
<1>1. PICK i \in DOMAIN res : n = res[i]
  BY DEF Elements
<1>0. res \in Seq(Nodes) /\ DOMAIN res = 1 .. Len(res) /\ n \in Nodes /\ i \in Int
  BY <1>1 DEF Inv, GraphTypeOK
<1> DEFINE Later == {res[j] : j \in {k \in DOMAIN res : k > i}}
           C == (Nodes \ Elements(res)) \cup Later
<1>2. C \subseteq Nodes
  BY <1>0
<1>3. n \notin C
  BY <1>0, <1>1 DEF Inv, Apart, Once
<1>4. ASSUME NEW x \in C \cup {n}, NEW y \in graph_[x]
      PROVE  y \in C
  <2>1. x \in Nodes /\ y \in Nodes
    BY <1>0, <1>2 DEF Inv, GraphTypeOK
  <2>2. ASSUME NEW k \in DOMAIN res, y = res[k]
        PROVE  y \in C
    <3>1. PICK j \in DOMAIN res : j < k /\ res[j] = x
      BY <1>4, <2>1, <2>2 DEF Inv, Preceded
    <3>2. \E l \in DOMAIN res : res[l] = x /\ (l = i \/ l > i)
      BY <1>1, <3>1 DEF Elements
    <3>3. j = i \/ j > i
      BY <3>1, <3>2 DEF Inv, Apart, Once
    <3>4. k > i
      BY <1>0, <3>1, <3>3
    <3> QED
      BY <2>2, <3>4
  <2> QED
    BY <2>1, <2>2 DEF Elements
<1>5. Successors(C) \subseteq C /\ Successors({n}) \subseteq C
  BY <1>4 DEF Successors
<1>6. Reach({n}) \subseteq C
  <2>1. {n} \in SUBSET Nodes /\ C \in SUBSET Nodes /\ GraphTypeOK
    BY <1>0, <1>2 DEF Inv
  <2> HIDE DEF C
  <2> QED
    BY <1>5, <2>1, ReachFacts
<1> QED
  BY <1>3, <1>6

\* Paths can be put together.
LEMMA ReachTransitive ==
  ASSUME GraphTypeOK, NEW S \in SUBSET Nodes, NEW m \in Nodes, m \in Reach(S) \cup S
  PROVE  Reach({m}) \subseteq Reach(S)
<1>1. graph_[m] \subseteq Reach(S)
  BY ReachFacts DEF Successors
<1>2. Successors({m}) \subseteq Reach(S)
  BY <1>1 DEF Successors
<1> QED
  BY <1>2, ReachFacts

LEMMA StrictSubsets ==
  ASSUME NEW N, IsFiniteSet(N), NEW T \in SUBSET (SUBSET N), T # {}
  PROVE  \E x \in T : \A y \in T : ~(y \subseteq x /\ y # x)
<1>1. IsWellFoundedOn(StrictSubsetOrdering(N), SUBSET N)
  BY FS_StrictSubsetOrderingWellFounded, FS_FiniteSubsetsOfFinite
<1>2. PICK x \in T : \A y \in T : ~(<<y, x>> \in StrictSubsetOrdering(N))
  BY <1>1, WFMin
<1> QED
  BY <1>2 DEF StrictSubsetOrdering

\* A node that is left out is behind a cycle: of the nodes before it, take one
\* with as few nodes before it as possible.
LEMMA LeftOutBehindCycle ==
  ASSUME Inv, EdgesKnown, LeftOutWaits, phase = "sorted", NEW n \in known \ Elements(res)
  PROVE  n \in Reach(OnCycle)
<1> DEFINE Left == known \ Elements(res)
           Before(x) == {m \in Left : x \in Reach({m})}
           T == {Before(x) : x \in Before(n)}
<1>0. Left \subseteq Nodes /\ GraphTypeOK /\ IsFiniteSet(Nodes)
  BY NodesAssumption DEF Inv, GraphTypeOK
<1>1. ASSUME NEW x \in Left
      PROVE  \E p \in Left : x \in graph_[p] /\ p \in Before(x)
  <2>1. PICK p \in Left : x \in graph_[p]
    BY DEF LeftOutWaits
  <2>2. {p} \in SUBSET Nodes
    BY <1>0
  <2>3. x \in Reach({p})
    BY <1>0, <2>1, <2>2, ReachFacts DEF Successors
  <2> QED
    BY <2>1, <2>3
<1>2. T # {} /\ T \in SUBSET (SUBSET Nodes)
  <2>1. Before(n) # {}
    BY <1>1
  <2>2. \A x : Before(x) \in SUBSET Nodes
    BY <1>0
  <2> HIDE DEF Before
  <2> QED
    BY <2>1, <2>2
<1>3. PICK m \in Before(n) : \A y \in Before(n) : ~(Before(y) \subseteq Before(m) /\ Before(y) # Before(m))
  <2>1. PICK b \in T : \A y \in T : ~(y \subseteq b /\ y # b)
    <3> HIDE DEF T
    <3> QED
      BY <1>0, <1>2, StrictSubsets
  <2> HIDE DEF Before
  <2>2. PICK m \in Before(n) : b = Before(m)
    BY <2>1
  <2>3. \A y \in Before(n) : Before(y) \in T
    OBVIOUS
  <2> QED
    BY <2>1, <2>2, <2>3
<1>4. PICK p \in Left : m \in graph_[p] /\ p \in Before(m)
  BY <1>1
<1>5. p \in Before(n)
  <2>1. m \in Reach({p}) /\ m \in Nodes /\ {p} \in SUBSET Nodes
    BY <1>0, <1>4
  <2>2. n \in Reach({m})
    BY <1>3
  <2> QED
    BY <1>0, <1>4, <2>1, <2>2, ReachTransitive
<1>6. Before(p) \subseteq Before(m)
  <2>1. ASSUME NEW r \in Left, p \in Reach({r})
        PROVE  m \in Reach({r})
    <3>1. {r} \in SUBSET Nodes /\ p \in Nodes
      BY <1>0
    <3>2. Successors(Reach({r})) \subseteq Reach({r})
      BY <1>0, <3>1, ReachFacts
    <3> QED
      BY <1>4, <2>1, <3>2 DEF Successors
  <2> QED
    BY <2>1
<1>7. Before(p) = Before(m)
  BY <1>3, <1>5, <1>6
<1>8. p \in OnCycle
  BY <1>4, <1>7 DEF OnCycle
<1>9. OnCycle \in SUBSET Nodes /\ p \in Nodes
  BY <1>0, <1>4 DEF OnCycle, Inv, GraphTypeOK
<1>10. Reach({p}) \subseteq Reach(OnCycle)
  BY <1>0, <1>8, <1>9, ReachTransitive
<1> QED
  BY <1>5, <1>10

LEMMA SortedLemma == Inv /\ EdgesKnown /\ Complete /\ LoopsEnd => LeavesOutCycles
<1> SUFFICES ASSUME Inv, EdgesKnown, Complete, LoopsEnd, phase = "sorted"
             PROVE  Elements(res) = known \ (OnCycle \cup Reach(OnCycle))
  BY DEF LeavesOutCycles
<1>1. LeftOutWaits
  BY LeftOutLemma
<1>2. Elements(res) \subseteq known
  BY DEF EdgesKnown
<1>3. OnCycle \cap Elements(res) = {}
  BY PutOutNotOnCycle DEF OnCycle
<1>4. OnCycle \in SUBSET Nodes
  BY DEF OnCycle, Inv, GraphTypeOK
<1>5. Reach(OnCycle) \cap Elements(res) = {}
  BY <1>3, <1>4, PutOut
<1>6. \A n \in known \ Elements(res) : n \in Reach(OnCycle)
  BY <1>1, LeftOutBehindCycle
<1> QED
  BY <1>2, <1>3, <1>5, <1>6

\* What topo_sort() leaves out is exactly what lies on a cycle or behind one.
THEOREM SortLeavesOutCycles == GraphSpec => []LeavesOutCycles
BY SortedLemma, GraphInvariant, CompleteInit, CompleteNext, PTL DEF GraphSpec

-----------------------------------------------------------------------------
(* The generator: its tables follow the order of the graph, and the graph  *)
(* is the one the text declares.                                           *)

Descriptor(e) ==
  [name : {e.name}, set : BOOLEAN, subs : Seq(Nat), super : Nat, attrs : {e.attrs}]

SchemaTypes ==
  /\ file \in Files
  /\ pc \in {"preprocess", "parse", "graph", "emit"} => pos \in Nat \ {0}
  /\ pc = "graph" => sub \in Nat \ {0}
  /\ pc = "preprocess" => Len(entities) < pos /\ pos <= Len(file) + 1
  /\ entities \in Seq(Elements(entities)) /\ Len(entities) <= Len(file)
  /\ \A k \in DOMAIN entities :
       /\ entities[k] \in Descriptor(entities[k])
       /\ \A j \in DOMAIN entities[k].subs : entities[k].subs[j] <= Len(entities)

\* The scan has made a descriptor for each entity of the text read so far.
Listed ==
  Plain =>
    /\ \A j, k \in DOMAIN entities : entities[j].name = entities[k].name => j = k
    /\ \A k \in DOMAIN entities : \E i \in DOMAIN file :
         file[i].kind = "entity" /\ file[i].name = entities[k].name /\ (pc = "preprocess" => i < pos)
    /\ \A i \in DOMAIN file : file[i].kind = "entity" /\ (pc = "preprocess" => i < pos) =>
         \E k \in DOMAIN entities : entities[k].name = file[i].name

\* The grammar has filled in the subtypes.
SubsOf(k, d) ==
  /\ DOMAIN entities[k].subs = DOMAIN d.subs
  /\ \A j \in DOMAIN d.subs, l \in DOMAIN entities :
       entities[l].name = d.subs[j] => entities[k].subs[j] = l

Filled ==
  Plain /\ pc \notin {"preprocess", "exited", "crashed"} =>
    \A i \in DOMAIN file, k \in DOMAIN entities :
      file[i].kind = "entity" /\ entities[k].name = file[i].name /\ (pc = "parse" => i < pos) =>
        SubsOf(k, file[i])

\* The generator has linked the subtypes.
Link(x, y) ==
  /\ x \in DOMAIN entities
  /\ \E j \in DOMAIN entities[x].subs :
       entities[x].subs[j] = y /\ (pc = "graph" => x < pos \/ (x = pos /\ j < sub))

EdgesLinked ==
  /\ pc \in {"preprocess", "parse", "ready"} => phase = "build" /\ \A x \in Nodes : graph_[x] = {}
  /\ pc = "graph" => phase = "build"
  /\ pc \in {"graph", "sort", "emit", "written"} => \A x, y \in Nodes : y \in graph_[x] <=> Link(x, y)
  /\ pc = "sort" => phase # "build"
  /\ pc \in {"emit", "written"} => phase = "sorted"

\* Whatever is known has an edge.
KnownEnds == \A x \in known : graph_[x] # {} \/ \E m \in Nodes : x \in graph_[m]

Emitted ==
  /\ pc \notin {"emit", "written", "exited", "crashed"} => tables = <<>>
  /\ pc = "emit" => Len(tables) = pos - 1 /\ pos <= Len(res) + 1
  /\ pc = "written" => Len(tables) = Len(res)
  /\ pc \in {"emit", "written"} =>
       /\ tables \in Seq(Elements(tables))
       /\ \A i \in DOMAIN tables : tables[i].id = res[i] /\ res[i] # 0

SInv == SchemaTypes /\ Listed /\ Filled /\ EdgesLinked /\ KnownEnds /\ Emitted

LEMMA LeastNatural ==
  ASSUME NEW I \in SUBSET Nat, I # {}
  PROVE  \E x \in I : \A y \in I : x <= y
<1>1. PICK x \in I : \A y \in I : ~(<<y, x>> \in OpToRel(<, Nat))
  BY NatLessThanWellFounded, WFMin
<1>2. \A y \in I : ~(y < x)
  BY <1>1 DEF OpToRel
<1> QED
  BY <1>2

LEMMA MinOf ==
  ASSUME NEW I \in SUBSET Nat, I # {}
  PROVE  Min(I) \in I /\ \A y \in I : Min(I) <= y
<1>1. PICK x \in I : \A y \in I : x <= y
  BY LeastNatural
<1> QED
  BY <1>1 DEF Min

\* find_by_name() returns a descriptor of that name, or 0 when there is none.
LEMMA FindFacts ==
  ASSUME NEW s, Len(s) \in Nat, NEW n
  PROVE  /\ find_by_name(s, n) \in 0 .. Len(s)
         /\ find_by_name(s, n) # 0 => s[find_by_name(s, n)].name = n
         /\ \A k \in 1 .. Len(s) : s[k].name = n => find_by_name(s, n) # 0
<1> DEFINE I == {i \in 1 .. Len(s) : s[i].name = n}
<1>1. find_by_name(s, n) = IF I # {} THEN Min(I) ELSE 0
  BY DEF find_by_name, SelectInSeq
<1>2. I \in SUBSET Nat
  OBVIOUS
<1>3. I # {} => Min(I) \in I
  <2> HIDE DEF I
  <2> QED BY <1>2, MinOf
<1>4. CASE I = {}
  BY <1>1, <1>4
<1>5. CASE I # {}
  <2>1. find_by_name(s, n) \in I
    BY <1>1, <1>3, <1>5
  <2> QED
    BY <2>1
<1> QED
  BY <1>4, <1>5

\* When a name occurs once, both lookups find it.
LEMMA FindUnique ==
  ASSUME NEW s, Len(s) \in Nat, NEW k \in 1 .. Len(s), NEW n, s[k].name = n,
         \A j \in 1 .. Len(s) : s[j].name = n => j = k
  PROVE  find_by_name(s, n) = k /\ id_index(s, n) = k
<1>1. find_by_name(s, n) = k /\ find_by_name(s, n) # 0
  BY FindFacts
<1>2. {i \in 1 .. Len(s) : s[i].name = n} = {k}
  OBVIOUS
<1>3. SelectLastInSeq(s, LAMBDA d : d.name = n) = Max({k})
  BY <1>2 DEF SelectLastInSeq
<1>4. Max({k}) = k
  BY DEF Max
<1>5. id_index(s, n) = SelectLastInSeq(s, LAMBDA d : d.name = n)
  BY <1>1 DEF id_index
<1> QED
  BY <1>1, <1>3, <1>4, <1>5

LEMMA SeqFacts ==
  ASSUME NEW s, s \in Seq(Elements(s))
  PROVE  Len(s) \in Nat /\ DOMAIN s = 1 .. Len(s)
OBVIOUS

LEMMA AppendAny ==
  ASSUME NEW s, s \in Seq(Elements(s)), NEW e
  PROVE  /\ Append(s, e) \in Seq(Elements(Append(s, e)))
         /\ Len(Append(s, e)) = Len(s) + 1 /\ DOMAIN Append(s, e) = 1 .. (Len(s) + 1)
         /\ Len(s) \in Nat /\ DOMAIN s = 1 .. Len(s)
         /\ \A i \in 1 .. Len(s) : Append(s, e)[i] = s[i]
         /\ Append(s, e)[Len(s) + 1] = e
<1> DEFINE S == Elements(s) \cup {e}
           t == Append(s, e)
<1>1. s \in Seq(S) /\ e \in S /\ Len(s) \in Nat /\ DOMAIN s = 1 .. Len(s)
  <2>1. Elements(s) \subseteq S
    OBVIOUS
  <2> HIDE DEF S
  <2> QED
    BY <2>1 DEF S
<1> HIDE DEF S
<1>2. /\ t \in Seq(S) /\ Len(t) = Len(s) + 1 /\ DOMAIN t = 1 .. (Len(s) + 1)
      /\ \A i \in 1 .. Len(s) : t[i] = s[i]
      /\ t[Len(s) + 1] = e
  BY <1>1
<1>3. t \in Seq(Elements(t))
  BY <1>2 DEF Elements
<1> QED
  BY <1>1, <1>2, <1>3

LEMMA FileFacts ==
  ASSUME SchemaTypes
  PROVE  /\ Len(file) \in Nat /\ DOMAIN file = 1 .. Len(file) /\ 0 .. Len(file) \subseteq Nodes
         /\ Len(entities) \in Nat /\ DOMAIN entities = 1 .. Len(entities)
         /\ 0 .. Len(entities) \subseteq Nodes
         /\ \A i \in DOMAIN file : file[i].kind # "error" => file[i].name # None
         /\ \A i \in DOMAIN file : file[i].kind = "entity" => file[i].subs \in Seq(Elements(file[i].subs))
<1>1. Len(file) \in Nat /\ DOMAIN file = 1 .. Len(file) /\ 0 .. Len(file) \subseteq Nodes
  BY FilesAssumption, SeqFacts DEF SchemaTypes
<1>2. Len(entities) \in Nat /\ DOMAIN entities = 1 .. Len(entities) /\ Len(entities) <= Len(file)
  BY SeqFacts DEF SchemaTypes
<1>3. 0 .. Len(entities) \subseteq 0 .. Len(file)
  BY <1>1, <1>2
<1>4. /\ \A i \in DOMAIN file : file[i].kind # "error" => file[i].name # None
      /\ \A i \in DOMAIN file : file[i].kind = "entity" => file[i].subs \in Seq(Elements(file[i].subs))
  <2>1. \A i \in DOMAIN file : file[i] \in Elements(file)
    BY DEF Elements
  <2> QED
    BY <2>1, FilesAssumption DEF SchemaTypes
<1> QED
  BY <1>1, <1>2, <1>3, <1>4

LEMMA PlainItems ==
  ASSUME Plain
  PROVE  /\ \A i \in DOMAIN file : file[i].kind # "error" /\ file[i].lex /\ file[i].scan = file[i].name
         /\ \A i, j \in DOMAIN file : file[i].name = file[j].name => i = j
BY DEF Plain, Elements

\* Subtypes are numbers of descriptors, or 0.
LEMMA SubsFacts ==
  ASSUME SchemaTypes, NEW k \in DOMAIN entities
  PROVE  /\ entities[k].subs \in Seq(Nat)
         /\ Len(entities[k].subs) \in Nat /\ DOMAIN entities[k].subs = 1 .. Len(entities[k].subs)
         /\ \A j \in DOMAIN entities[k].subs :
              entities[k].subs[j] \in 0 .. Len(entities) /\ entities[k].subs[j] \in Nodes
<1>1. entities[k] \in Descriptor(entities[k])
  BY DEF SchemaTypes
<1>2. entities[k].subs \in Seq(Nat)
  BY <1>1 DEF Descriptor
<1>3. Len(entities[k].subs) \in Nat /\ DOMAIN entities[k].subs = 1 .. Len(entities[k].subs)
  BY <1>2
<1>4. \A j \in DOMAIN entities[k].subs : entities[k].subs[j] \in Nat /\ entities[k].subs[j] <= Len(entities)
  BY <1>2 DEF SchemaTypes
<1> QED
  BY <1>2, <1>3, <1>4, FileFacts

\* Steps that change neither the descriptors nor the graph.
Still == UNCHANGED <<file, entities, known, graph_, in_degree_, q, res, node, todo, phase>>

LEMMA scan_error_SInv ==
  ASSUME SInv, Inv, scan_error
  PROVE  SInv'
<1>0. /\ Still /\ UNCHANGED tables /\ pc = "preprocess" /\ pos <= Len(file) /\ file[pos].kind = "error"
      /\ (pc' = pc /\ pos' = pos + 1) \/ pc' = "exited"
  BY DEF scan_error, Goto, More, Item, graphVars, Still
<1>1. SchemaTypes'
  BY <1>0, FileFacts DEF SInv, SchemaTypes, Still
<1>p. Plain' <=> Plain
  BY <1>0 DEF Plain, Still
<1>2. Listed'
  <2>1. ~Plain
    BY <1>0, FileFacts, PlainItems DEF SInv, SchemaTypes
  <2> QED
    BY <1>p, <2>1 DEF Listed
<1>3. Filled'
  BY <1>0, <1>p, FileFacts DEF SInv, Filled, SubsOf, Still
<1>4. EdgesLinked'
  BY <1>0, FileFacts DEF SInv, EdgesLinked, Link, Still, SchemaTypes
<1>5. KnownEnds'
  BY <1>0 DEF SInv, KnownEnds, Still
<1>6. Emitted'
  BY <1>0 DEF SInv, Emitted, Still
<1> QED
  BY <1>1, <1>2, <1>3, <1>4, <1>5, <1>6 DEF SInv

LEMMA end_scan_SInv ==
  ASSUME SInv, Inv, end_scan
  PROVE  SInv'
<1>0. /\ Still /\ UNCHANGED tables /\ pc = "preprocess" /\ ~(pos <= Len(file))
      /\ pc' = "parse" /\ pos' = 1
  BY DEF end_scan, Goto, More, Item, graphVars, Still
<1>1. SchemaTypes'
  BY <1>0, FileFacts DEF SInv, SchemaTypes, Still
<1>p. Plain' <=> Plain
  BY <1>0 DEF Plain, Still
<1>2. Listed'
  <2>1. \A i \in DOMAIN file : i < pos
    BY <1>0, FileFacts DEF SInv, SchemaTypes
  <2> QED
    BY <1>0, <1>p, <2>1 DEF SInv, Listed, Still
<1>3. Filled'
  <2>1. \A i \in DOMAIN file : ~(i < 1)
    BY FileFacts DEF SInv
  <2> QED
    BY <1>0, <2>1 DEF Filled, Still
<1>4. EdgesLinked'
  BY <1>0, FileFacts DEF SInv, EdgesLinked, Link, Still, SchemaTypes
<1>5. KnownEnds'
  BY <1>0 DEF SInv, KnownEnds, Still
<1>6. Emitted'
  BY <1>0 DEF SInv, Emitted, Still
<1> QED
  BY <1>1, <1>2, <1>3, <1>4, <1>5, <1>6 DEF SInv

LEMMA init_type_SInv ==
  ASSUME SInv, Inv, init_type
  PROVE  SInv'
<1>0. /\ Still /\ UNCHANGED tables /\ pc = "parse" /\ pos <= Len(file) /\ file[pos].kind = "type"
      /\ (pc' = pc /\ pos' = pos + 1) \/ pc' \in {"exited", "crashed"}
  BY DEF init_type, Goto, More, Item, graphVars, Still
<1>1. SchemaTypes'
  BY <1>0, FileFacts DEF SInv, SchemaTypes, Still
<1>p. Plain' <=> Plain
  BY <1>0 DEF Plain, Still
<1>2. Listed'
  BY <1>0, <1>p, FileFacts DEF SInv, Listed, Still
<1>3. Filled'
  <2>1. CASE pc' \in {"exited", "crashed"}
    BY <2>1 DEF Filled
  <2>2. CASE pc' = pc /\ pos' = pos + 1
    <3>1. \A i \in DOMAIN file : i < pos' /\ file[i].kind = "entity" => i < pos
      BY <1>0, <2>2, FileFacts DEF SInv, SchemaTypes
    <3> QED
      BY <1>0, <1>p, <2>2, <3>1 DEF SInv, Filled, SubsOf, Still
  <2> QED
    BY <1>0, <2>1, <2>2
<1>4. EdgesLinked'
  BY <1>0, FileFacts DEF SInv, EdgesLinked, Link, Still, SchemaTypes
<1>5. KnownEnds'
  BY <1>0 DEF SInv, KnownEnds, Still
<1>6. Emitted'
  BY <1>0 DEF SInv, Emitted, Still
<1> QED
  BY <1>1, <1>2, <1>3, <1>4, <1>5, <1>6 DEF SInv

LEMMA skip_item_SInv ==
  ASSUME SInv, Inv, skip_item
  PROVE  SInv'
<1>0. /\ Still /\ UNCHANGED tables /\ pc = "parse" /\ pos <= Len(file) /\ ~file[pos].lex
      /\ pc' = pc /\ pos' = pos + 1
  BY DEF skip_item, More, Item, graphVars, Still
<1>1. SchemaTypes'
  BY <1>0, FileFacts DEF SInv, SchemaTypes, Still
<1>p. Plain' <=> Plain
  BY <1>0 DEF Plain, Still
<1>2. Listed'
  BY <1>0, <1>p, FileFacts DEF SInv, Listed, Still
<1>3. Filled'
  <2>1. ~Plain
    BY <1>0, FileFacts, PlainItems DEF SInv, SchemaTypes
  <2> QED
    BY <1>p, <2>1 DEF Filled
<1>4. EdgesLinked'
  BY <1>0, FileFacts DEF SInv, EdgesLinked, Link, Still, SchemaTypes
<1>5. KnownEnds'
  BY <1>0 DEF SInv, KnownEnds, Still
<1>6. Emitted'
  BY <1>0 DEF SInv, Emitted, Still
<1> QED
  BY <1>1, <1>2, <1>3, <1>4, <1>5, <1>6 DEF SInv

LEMMA end_parse_SInv ==
  ASSUME SInv, Inv, end_parse
  PROVE  SInv'
<1>0. /\ Still /\ UNCHANGED tables /\ pc = "parse"
      /\ pos <= Len(file) => file[pos].kind = "error"
      /\ pc' \in {"ready", "crashed"} /\ pos' = 1
  BY DEF end_parse, Goto, More, Item, graphVars, Still
<1>1. SchemaTypes'
  BY <1>0, FileFacts DEF SInv, SchemaTypes, Still
<1>p. Plain' <=> Plain
  BY <1>0 DEF Plain, Still
<1>2. Listed'
  BY <1>0, <1>p, FileFacts DEF SInv, Listed, Still
<1>3. Filled'
  <2>1. Plain => \A i \in DOMAIN file : i < pos
    BY <1>0, FileFacts, PlainItems DEF SInv, SchemaTypes
  <2> QED
    BY <1>0, <1>p, <2>1 DEF SInv, Filled, SubsOf, Still
<1>4. EdgesLinked'
  BY <1>0, FileFacts DEF SInv, EdgesLinked, Link, Still, SchemaTypes
<1>5. KnownEnds'
  BY <1>0 DEF SInv, KnownEnds, Still
<1>6. Emitted'
  BY <1>0 DEF SInv, Emitted, Still
<1> QED
  BY <1>1, <1>2, <1>3, <1>4, <1>5, <1>6 DEF SInv

\* Commands that leave the descriptors and the graph alone.
Shows == show_nothing \/ (\E t \in DOMAIN types : show_type(t))
           \/ (\E e \in DOMAIN entities : show_entity(e)) \/ climb \/ print_attributes

LEMMA ShowsFacts ==
  ASSUME Shows
  PROVE  /\ Still /\ UNCHANGED <<types, tables>> /\ pc \in {"ready", "climb", "print"}
         /\ pc' \in {"shown", "climb", "print", "crashed", "no_type"}
<1>1. CASE show_nothing
  BY <1>1 DEF show_nothing, Goto, graphVars, Still
<1>2. ASSUME NEW t, show_type(t)
      PROVE  /\ Still /\ UNCHANGED <<types, tables>> /\ pc = "ready" /\ pc' \in {"shown", "crashed"}
  BY <1>2 DEF show_type, Goto, graphVars, Still
<1>3. ASSUME NEW e, show_entity(e)
      PROVE  /\ Still /\ UNCHANGED <<types, tables>> /\ pc = "ready"
             /\ pc' \in {"print", "climb", "crashed"}
  BY <1>3 DEF show_entity, graphVars, Still
<1>4. CASE climb
  BY <1>4 DEF climb, graphVars, Still
<1>5. CASE print_attributes
  BY <1>5 DEF print_attributes, Goto, graphVars, Still
<1> QED
  BY <1>1, <1>2, <1>3, <1>4, <1>5 DEF Shows

LEMMA ShowsSInv ==
  ASSUME SInv, Inv, Still, UNCHANGED tables, pc \in {"ready", "climb", "print"},
         pc' \in {"shown", "climb", "print", "crashed", "no_type", "bare_name"}
  PROVE  SInv'
<1>1. SchemaTypes'
  BY FileFacts DEF SInv, SchemaTypes, Still
<1>p. Plain' <=> Plain
  BY DEF Plain, Still
<1>2. Listed'
  BY <1>p, FileFacts DEF SInv, Listed, Still
<1>3. Filled'
  BY <1>p, FileFacts DEF SInv, Filled, SubsOf, Still
<1>4. EdgesLinked'
  BY FileFacts DEF SInv, EdgesLinked, Link, Still, SchemaTypes
<1>5. KnownEnds'
  BY DEF SInv, KnownEnds, Still
<1>6. Emitted'
  BY DEF SInv, Emitted, Still
<1> QED
  BY <1>1, <1>2, <1>3, <1>4, <1>5, <1>6 DEF SInv

LEMMA sql_SInv ==
  ASSUME SInv, Inv, sql
  PROVE  SInv'
<1>b. CASE pc' = "bare_name"
  <2>1. Still /\ UNCHANGED tables /\ pc = "ready"
    BY DEF sql, graphVars, Still
  <2> QED
    BY <1>b, <2>1, ShowsSInv
<1>g. CASE pc' # "bare_name"
  <2>0. /\ Still /\ UNCHANGED tables /\ pc = "ready" /\ pc' = "graph" /\ pos' = 1 /\ sub' = 1
    BY <1>g DEF sql, Goto, graphVars, Still
  <2>1. SchemaTypes'
    BY <2>0, FileFacts DEF SInv, SchemaTypes, Still
  <2>p. Plain' <=> Plain
    BY <2>0 DEF Plain, Still
  <2>2. Listed'
    BY <2>0, <2>p, FileFacts DEF SInv, Listed, Still
  <2>3. Filled'
    BY <2>0, <2>p, FileFacts DEF SInv, Filled, SubsOf, Still
  <2>4. EdgesLinked'
    <3>1. \A x, y : ~Link(x, y)'
      BY <2>0, FileFacts, SubsFacts DEF SInv, Link, Still
    <3> QED
      BY <2>0, <3>1 DEF SInv, EdgesLinked, Still
  <2>5. KnownEnds'
    BY <2>0 DEF SInv, KnownEnds, Still
  <2>6. Emitted'
    BY <2>0 DEF SInv, Emitted, Still
  <2> QED
    BY <2>1, <2>2, <2>3, <2>4, <2>5, <2>6 DEF SInv
<1> QED
  BY <1>b, <1>g

LEMMA next_entity_SInv ==
  ASSUME SInv, Inv, next_entity
  PROVE  SInv'
<1>0. /\ Still /\ UNCHANGED tables /\ pc = "graph" /\ pos <= Len(entities) /\ sub > Len(entities[pos].subs)
      /\ (pc' = pc /\ pos' = pos + 1 /\ sub' = 1) \/ pc' = "crashed"
  BY DEF next_entity, Goto, graphVars, Still
<1>1. SchemaTypes'
  BY <1>0, FileFacts DEF SInv, SchemaTypes, Still
<1>p. Plain' <=> Plain
  BY <1>0 DEF Plain, Still
<1>2. Listed'
  BY <1>0, <1>p, FileFacts DEF SInv, Listed, Still
<1>3. Filled'
  BY <1>0, <1>p, FileFacts DEF SInv, Filled, SubsOf, Still
<1>4. EdgesLinked'
  <2>1. CASE pc' = "crashed"
    BY <2>1 DEF EdgesLinked
  <2>2. CASE pc' = pc /\ pos' = pos + 1 /\ sub' = 1
    <3>1. pos \in Nat /\ pos \in DOMAIN entities /\ DOMAIN entities \subseteq Nat
      BY <1>0, FileFacts DEF SInv, SchemaTypes
    <3>2. \A j \in DOMAIN entities[pos].subs : j < sub
      BY <1>0, <3>1, SubsFacts DEF SInv, SchemaTypes
    <3>3. \A x \in DOMAIN entities : \A j \in DOMAIN entities[x].subs : j \in Nat /\ ~(j < 1)
      BY SubsFacts DEF SInv
    <3>4. ASSUME NEW x, NEW y
          PROVE  Link(x, y)' <=> Link(x, y)
      <4>1. \A x1 \in DOMAIN entities : x1 < pos + 1 <=> (x1 < pos \/ x1 = pos)
        BY <3>1
      <4> QED
        BY <1>0, <2>2, <3>1, <3>2, <3>3, <4>1 DEF Link, Still
    <3> QED
      BY <1>0, <2>2, <3>4 DEF SInv, EdgesLinked, Still
  <2> QED
    BY <1>0, <2>1, <2>2
<1>5. KnownEnds'
  BY <1>0 DEF SInv, KnownEnds, Still
<1>6. Emitted'
  BY <1>0 DEF SInv, Emitted, Still
<1> QED
  BY <1>1, <1>2, <1>3, <1>4, <1>5, <1>6 DEF SInv

LEMMA check_first_SInv ==
  ASSUME SInv, Inv, check_first
  PROVE  SInv'
<1>0. /\ Still /\ UNCHANGED tables /\ pc = "sort" /\ phase = "sorted"
      /\ (pc' = "emit" /\ pos' = 1) \/ pc' = "crashed"
  BY DEF check_first, Goto, graphVars, Still
<1>1. SchemaTypes'
  BY <1>0, FileFacts DEF SInv, SchemaTypes, Still
<1>p. Plain' <=> Plain
  BY <1>0 DEF Plain, Still
<1>2. Listed'
  BY <1>0, <1>p, FileFacts DEF SInv, Listed, Still
<1>3. Filled'
  BY <1>0, <1>p, FileFacts DEF SInv, Filled, SubsOf, Still
<1>4. EdgesLinked'
  BY <1>0, FileFacts DEF SInv, EdgesLinked, Link, Still, SchemaTypes
<1>5. KnownEnds'
  BY <1>0 DEF SInv, KnownEnds, Still
<1>6. Emitted'
  BY <1>0 DEF SInv, Emitted, Still
<1> QED
  BY <1>1, <1>2, <1>3, <1>4, <1>5, <1>6 DEF SInv

LEMMA write_file_SInv ==
  ASSUME SInv, Inv, write_file
  PROVE  SInv'
<1>0. /\ Still /\ UNCHANGED tables /\ pc = "emit" /\ pos > Len(res)
      /\ pc' = "written"
  BY DEF write_file, Goto, graphVars, Still
<1>1. SchemaTypes'
  BY <1>0, FileFacts DEF SInv, SchemaTypes, Still
<1>p. Plain' <=> Plain
  BY <1>0 DEF Plain, Still
<1>2. Listed'
  BY <1>0, <1>p, FileFacts DEF SInv, Listed, Still
<1>3. Filled'
  BY <1>0, <1>p, FileFacts DEF SInv, Filled, SubsOf, Still
<1>4. EdgesLinked'
  BY <1>0, FileFacts DEF SInv, EdgesLinked, Link, Still, SchemaTypes
<1>5. KnownEnds'
  BY <1>0 DEF SInv, KnownEnds, Still
<1>6. Emitted'
  <2>1. Len(res) \in Nat /\ pos \in Nat
    BY <1>0 DEF SInv, SchemaTypes, Inv, GraphTypeOK
  <2>2. Len(tables) = Len(res)
    BY <1>0, <2>1 DEF SInv, Emitted
  <2> QED
    BY <1>0, <2>2 DEF SInv, Emitted, Still
<1> QED
  BY <1>1, <1>2, <1>3, <1>4, <1>5, <1>6 DEF SInv

LEMMA scan_item_SInv ==
  ASSUME SInv, Inv, scan_item
  PROVE  SInv'
<1>0. /\ UNCHANGED <<file, pc, tables, known, graph_, in_degree_, q, res, node, todo, phase>>
      /\ pc = "preprocess" /\ pos <= Len(file) /\ pos' = pos + 1
      /\ entities' = IF file[pos].kind = "entity" /\ file[pos].scan # None
                     THEN Append(entities, new_entity(file[pos].scan)) ELSE entities
  BY DEF scan_item, More, Item, graphVars
<1>t. /\ pos \in Nat \ {0} /\ pos \in DOMAIN file /\ Len(entities) < pos
      /\ Len(entities) \in Nat /\ DOMAIN entities = 1 .. Len(entities)
      /\ Len(file) \in Nat /\ DOMAIN file = 1 .. Len(file)
      /\ entities \in Seq(Elements(entities))
  BY <1>0, FileFacts DEF SInv, SchemaTypes
<1>p. Plain' <=> Plain
  BY <1>0 DEF Plain
<1>i. \A i \in DOMAIN file : i < pos + 1 <=> (i < pos \/ i = pos)
  BY <1>t
<1>3. Filled'
  BY <1>0 DEF Filled
<1>4. EdgesLinked'
  BY <1>0 DEF SInv, EdgesLinked
<1>5. KnownEnds'
  BY <1>0 DEF SInv, KnownEnds
<1>6. Emitted'
  BY <1>0 DEF SInv, Emitted
<1>7. CASE ~(file[pos].kind = "entity" /\ file[pos].scan # None)
  <2>0. entities' = entities
    BY <1>0, <1>7
  <2>1. SchemaTypes'
    <3>1. pos' \in Nat \ {0} /\ Len(entities) < pos' /\ pos' <= Len(file) + 1
      BY <1>0, <1>t
    <3> QED
      BY <1>0, <2>0, <3>1 DEF SInv, SchemaTypes
  <2>2. Listed'
    <3>1. Plain => file[pos].kind # "entity"
      BY <1>7, <1>t, PlainItems, FileFacts DEF SInv
    <3> QED
      BY <1>0, <1>p, <1>i, <2>0, <3>1 DEF SInv, Listed
  <2> QED
    BY <2>1, <2>2, <1>3, <1>4, <1>5, <1>6 DEF SInv
<1>8. CASE file[pos].kind = "entity" /\ file[pos].scan # None
  <2> DEFINE e == new_entity(file[pos].scan)
             L == Len(entities)
  <2>0. /\ entities' \in Seq(Elements(entities')) /\ Len(entities') = L + 1
        /\ DOMAIN entities' = 1 .. (L + 1)
        /\ \A i \in 1 .. L : entities'[i] = entities[i]
        /\ entities'[L + 1] = e
    <3>1. entities' = Append(entities, e)
      BY <1>0, <1>8
    <3>2. entities \in Seq(Elements(entities))
      BY <1>t
    <3> HIDE DEF e
    <3>3. /\ Append(entities, e) \in Seq(Elements(Append(entities, e))) /\ Len(Append(entities, e)) = L + 1
          /\ DOMAIN Append(entities, e) = 1 .. (L + 1)
          /\ \A i \in 1 .. L : Append(entities, e)[i] = entities[i]
          /\ Append(entities, e)[L + 1] = e
      BY <3>2, AppendAny
    <3> QED
      BY <3>1, <3>3, Zenon
  <2>e. /\ e.name = file[pos].scan /\ e.subs = <<>> /\ e \in Descriptor(e)
    BY DEF new_entity, Descriptor
  <2>1. SchemaTypes'
    <3>1. ASSUME NEW k \in DOMAIN entities'
          PROVE  /\ entities'[k] \in Descriptor(entities'[k])
                 /\ \A j \in DOMAIN entities'[k].subs : entities'[k].subs[j] <= L + 1
      <4>1. CASE k = L + 1
        BY <2>0, <2>e, <4>1
      <4>2. CASE k \in 1 .. L
        <5>1. entities'[k] = entities[k] /\ k \in DOMAIN entities
          BY <4>2, <2>0, <1>t
        <5>2. \A j \in DOMAIN entities[k].subs : entities[k].subs[j] \in 0 .. L
          BY <5>1, SubsFacts DEF SInv
        <5>3. \A j \in DOMAIN entities[k].subs : entities[k].subs[j] <= L + 1
          BY <5>2, <1>t
        <5> QED
          BY <5>1, <5>3 DEF SInv, SchemaTypes
      <4> QED
        BY <2>0, <1>t, <4>1, <4>2
    <3>2. /\ pos' \in Nat \ {0} /\ L + 1 < pos' /\ pos' <= Len(file) + 1 /\ L + 1 <= Len(file)
      BY <1>0, <1>t
    <3> HIDE DEF L
    <3> QED
      BY <1>0, <2>0, <3>1, <3>2 DEF SInv, SchemaTypes
  <2>2. Listed'
    <3> SUFFICES ASSUME Plain PROVE Listed'
      BY <1>p DEF Listed
    <3>0. file[pos].scan = file[pos].name
      BY <1>t, PlainItems
    <3>1. \A k \in DOMAIN entities : \E i \in DOMAIN file :
             file[i].kind = "entity" /\ file[i].name = entities[k].name /\ i < pos
      BY <1>0 DEF SInv, Listed
    <3>2. \A k \in DOMAIN entities : entities[k].name # file[pos].name
      <4>1. \A i \in DOMAIN file : i < pos => i # pos
        BY <1>t
      <4> QED
        BY <3>1, <4>1, <1>t, PlainItems
    <3>3. \A k \in DOMAIN entities' : (k \in DOMAIN entities /\ entities'[k] = entities[k])
                                      \/ (k = L + 1 /\ entities'[k].name = file[pos].name)
      BY <2>0, <1>t, <2>e, <3>0
    <3>4. \A j, k \in DOMAIN entities' : entities'[j].name = entities'[k].name => j = k
      BY <3>3, <3>2 DEF SInv, Listed
    <3>5. \A k \in DOMAIN entities' : \E i \in DOMAIN file :
             file[i].kind = "entity" /\ file[i].name = entities'[k].name /\ i < pos + 1
      BY <3>3, <3>1, <1>8, <1>t, <1>i
    <3>6. DOMAIN entities \subseteq DOMAIN entities' /\ L + 1 \in DOMAIN entities'
          /\ entities'[L + 1].name = file[pos].name
      BY <2>0, <1>t, <2>e, <3>0
    <3>7. \A i \in DOMAIN file : file[i].kind = "entity" /\ i < pos + 1 =>
             \E k \in DOMAIN entities' : entities'[k].name = file[i].name
      <4> SUFFICES ASSUME NEW i \in DOMAIN file, file[i].kind = "entity", i < pos + 1
                   PROVE  \E k \in DOMAIN entities' : entities'[k].name = file[i].name
        OBVIOUS
      <4>1. CASE i = pos
        BY <4>1, <3>6
      <4>2. CASE i < pos
        <5>1. PICK k \in DOMAIN entities : entities[k].name = file[i].name
          BY <4>2, <1>0 DEF SInv, Listed
        <5> QED
          BY <5>1, <3>6, <2>0, <1>t
      <4> QED
        BY <1>i, <4>1, <4>2
    <3>8. file' = file /\ pos' = pos + 1 /\ pc' = "preprocess"
      BY <1>0
    <3> QED
      BY <3>4, <3>5, <3>7, <3>8 DEF Listed
  <2> QED
    BY <2>1, <2>2, <1>3, <1>4, <1>5, <1>6 DEF SInv
<1> QED
  BY <1>7, <1>8

LEMMA start_sort_SInv ==
  ASSUME SInv, Inv, start_sort
  PROVE  SInv'
<1>0. /\ UNCHANGED <<file, entities, tables, known, graph_, res>>
      /\ pc = "graph" /\ pos > Len(entities) /\ pc' = "sort" /\ phase' = "scan"
  BY DEF start_sort, topo_sort, Goto
<1>1. SchemaTypes'
  BY <1>0, FileFacts DEF SInv, SchemaTypes
<1>p. Plain' <=> Plain
  BY <1>0 DEF Plain
<1>2. Listed'
  BY <1>0, <1>p DEF SInv, Listed
<1>3. Filled'
  BY <1>0, <1>p DEF SInv, Filled, SubsOf
<1>4. EdgesLinked'
  <2>1. \A x \in DOMAIN entities : x < pos
    BY <1>0, FileFacts DEF SInv, SchemaTypes
  <2>2. \A x, y : Link(x, y)' <=> Link(x, y)
    BY <1>0, <2>1 DEF Link
  <2> QED
    BY <1>0, <2>2 DEF SInv, EdgesLinked
<1>5. KnownEnds'
  BY <1>0 DEF SInv, KnownEnds
<1>6. Emitted'
  BY <1>0 DEF SInv, Emitted
<1> QED
  BY <1>1, <1>2, <1>3, <1>4, <1>5, <1>6 DEF SInv

LEMMA sort_SInv ==
  ASSUME SInv, Inv, sort
  PROVE  SInv'
<1>0. /\ UNCHANGED <<file, entities, tables, known, graph_, pc, pos, sub>>
      /\ pc = "sort" /\ phase' \in {"scan", "sort", "sorted"}
  BY DEF sort, SortStep, scan_node, follow_edge, pop_node, return_order, fileVars
<1>1. SchemaTypes'
  BY <1>0, FileFacts DEF SInv, SchemaTypes
<1>p. Plain' <=> Plain
  BY <1>0 DEF Plain
<1>2. Listed'
  BY <1>0, <1>p DEF SInv, Listed
<1>3. Filled'
  BY <1>0, <1>p DEF SInv, Filled, SubsOf
<1>4. EdgesLinked'
  BY <1>0 DEF SInv, EdgesLinked, Link
<1>5. KnownEnds'
  BY <1>0 DEF SInv, KnownEnds
<1>6. Emitted'
  BY <1>0 DEF SInv, Emitted
<1> QED
  BY <1>1, <1>2, <1>3, <1>4, <1>5, <1>6 DEF SInv

LEMMA create_SInv ==
  ASSUME SInv, Inv, create_pgsql_for_entity
  PROVE  SInv'
<1>0. /\ Still /\ pc = "emit" /\ pos <= Len(res)
      /\ \/ pc' \in {"crashed", "exited"} /\ UNCHANGED tables
         \/ /\ pc' = pc /\ pos' = pos + 1 /\ res[pos] # 0
            /\ \E t : tables' = Append(tables, t) /\ t.id = res[pos]
  <2>1. ASSUME NEW id, NEW c, tables' = Append(tables, [id |-> id, columns |-> c])
        PROVE  \E t : tables' = Append(tables, t) /\ t.id = id
    <3> DEFINE t == [id |-> id, columns |-> c]
    <3>1. t.id = id
      OBVIOUS
    <3> QED
      BY <2>1, <3>1
  <2> QED
    BY <2>1 DEF create_pgsql_for_entity, Goto, graphVars, Still
<1>t. /\ pos \in Nat \ {0} /\ Len(res) \in Nat /\ pos = Len(tables) + 1
      /\ tables \in Seq(Elements(tables)) /\ Len(tables) \in Nat
  BY <1>0 DEF SInv, SchemaTypes, Emitted, Inv, GraphTypeOK
<1>1. SchemaTypes'
  BY <1>0, <1>t, FileFacts DEF SInv, SchemaTypes, Still
<1>p. Plain' <=> Plain
  BY <1>0 DEF Plain, Still
<1>2. Listed'
  BY <1>0, <1>p, FileFacts DEF SInv, Listed, Still
<1>3. Filled'
  BY <1>0, <1>p, FileFacts DEF SInv, Filled, SubsOf, Still
<1>4. EdgesLinked'
  BY <1>0, FileFacts DEF SInv, EdgesLinked, Link, Still, SchemaTypes
<1>5. KnownEnds'
  BY <1>0 DEF SInv, KnownEnds, Still
<1>6. Emitted'
  <2>1. CASE pc' \in {"crashed", "exited"}
    BY <2>1 DEF Emitted
  <2>2. CASE pc' = pc
    <3>0. pos' = pos + 1 /\ res[pos] # 0
      BY <1>0, <2>2
    <3>1. PICK t : tables' = Append(tables, t) /\ t.id = res[pos]
      BY <1>0, <2>2
    <3>2. /\ tables' \in Seq(Elements(tables')) /\ Len(tables') = Len(tables) + 1
          /\ DOMAIN tables' = 1 .. (Len(tables) + 1) /\ DOMAIN tables = 1 .. Len(tables)
          /\ \A i \in 1 .. Len(tables) : tables'[i] = tables[i]
          /\ tables'[Len(tables) + 1] = t
      <4>1. tables \in Seq(Elements(tables))
        BY <1>t
      <4>2. /\ Append(tables, t) \in Seq(Elements(Append(tables, t)))
            /\ Len(Append(tables, t)) = Len(tables) + 1
            /\ DOMAIN Append(tables, t) = 1 .. (Len(tables) + 1) /\ DOMAIN tables = 1 .. Len(tables)
            /\ \A i \in 1 .. Len(tables) : Append(tables, t)[i] = tables[i]
            /\ Append(tables, t)[Len(tables) + 1] = t
        BY <4>1, AppendAny
      <4> QED
        BY <3>1, <4>2, Zenon
    <3>3. ASSUME NEW i \in DOMAIN tables'
          PROVE  tables'[i].id = res[i] /\ res[i] # 0
      <4>1. CASE i = Len(tables) + 1
        BY <4>1, <3>0, <3>1, <3>2, <1>t
      <4>2. CASE i \in 1 .. Len(tables)
        BY <4>2, <3>2, <1>0 DEF SInv, Emitted
      <4> QED
        BY <3>2, <1>t, <4>1, <4>2
    <3>4. Len(tables') = pos' - 1 /\ pos' <= Len(res) + 1
      BY <1>0, <1>t, <3>0, <3>2
    <3> QED
      BY <1>0, <2>2, <3>2, <3>3, <3>4 DEF Emitted, Still
  <2> QED
    BY <1>0, <2>1, <2>2
<1> QED
  BY <1>1, <1>2, <1>3, <1>4, <1>5, <1>6 DEF SInv

LEMMA link_SInv ==
  ASSUME SInv, Inv, link
  PROVE  SInv'
<1> DEFINE y0 == entities[pos].subs[sub]
<1>0. /\ UNCHANGED <<file, pc, pos, entities, tables, phase, res>>
      /\ pc = "graph" /\ pos <= Len(entities) /\ sub <= Len(entities[pos].subs) /\ sub' = sub + 1
      /\ known' = known \cup {pos, y0}
      /\ graph_' = [graph_ EXCEPT ![pos] = @ \cup {y0}]
  BY DEF link, add_edge
<1>t. /\ pos \in Nat \ {0} /\ sub \in Nat \ {0} /\ pos \in DOMAIN entities
      /\ pos \in Nodes /\ DOMAIN entities \subseteq Nat
  BY <1>0, FileFacts DEF SInv, SchemaTypes
<1>s. /\ sub \in DOMAIN entities[pos].subs /\ y0 \in Nodes
      /\ DOMAIN entities[pos].subs \subseteq Nat
  BY <1>0, <1>t, SubsFacts DEF SInv
<1>g. graph_ \in [Nodes -> SUBSET Nodes]
  BY DEF Inv, GraphTypeOK
<1> HIDE DEF y0
<1>e. \A x, y \in Nodes : y \in graph_'[x] <=> (y \in graph_[x] \/ (x = pos /\ y = y0))
  BY <1>0, <1>g, <1>t
<1>1. SchemaTypes'
  <2>1. sub' \in Nat \ {0}
    BY <1>0, <1>t
  <2> QED
    BY <1>0, <2>1 DEF SInv, SchemaTypes
<1>p. Plain' <=> Plain
  BY <1>0 DEF Plain
<1>2. Listed'
  BY <1>0, <1>p DEF SInv, Listed
<1>3. Filled'
  BY <1>0, <1>p DEF SInv, Filled, SubsOf
<1>4. EdgesLinked'
  <2>1. \A j \in DOMAIN entities[pos].subs : j < sub + 1 <=> (j < sub \/ j = sub)
    BY <1>t, <1>s
  <2>2. ASSUME NEW x \in Nodes, NEW y \in Nodes
        PROVE  Link(x, y)' <=> (Link(x, y) \/ (x = pos /\ y = y0))
    <3>1. CASE x = pos
      <4>1. ~(x < pos)
        BY <3>1, <1>t
      <4>2. Link(x, y)' <=> \E j \in DOMAIN entities[pos].subs : entities[pos].subs[j] = y /\ j < sub + 1
        BY <1>0, <1>t, <3>1, <4>1 DEF Link
      <4>3. Link(x, y) <=> \E j \in DOMAIN entities[pos].subs : entities[pos].subs[j] = y /\ j < sub
        BY <1>0, <1>t, <3>1, <4>1 DEF Link
      <4> QED
        BY <3>1, <4>2, <4>3, <2>1, <1>s DEF y0
    <3>2. CASE x # pos
      BY <1>0, <3>2 DEF Link
    <3> QED
      BY <3>1, <3>2
  <2> QED
    BY <1>0, <1>e, <2>2 DEF SInv, EdgesLinked
<1>5. KnownEnds'
  <2>1. ASSUME NEW x \in known'
        PROVE  (graph_')[x] # {} \/ \E m \in Nodes : x \in (graph_')[m]
    <3>0. x \in Nodes
      BY <1>0, <1>t, <1>s DEF Inv, GraphTypeOK
    <3>1. CASE x = pos
      BY <3>1, <1>e, <1>t, <1>s
    <3>2. CASE x = y0
      BY <3>2, <1>e, <1>t, <1>s
    <3>3. CASE x \in known
      <4>1. graph_[x] # {} => (graph_')[x] # {}
        BY <1>e, <1>g, <3>0
      <4> QED
        BY <3>3, <3>0, <4>1, <1>e DEF SInv, KnownEnds
    <3> QED
      BY <1>0, <3>1, <3>2, <3>3
  <2> QED
    BY <2>1 DEF KnownEnds
<1>6. Emitted'
  BY <1>0 DEF SInv, Emitted
<1> QED
  BY <1>1, <1>2, <1>3, <1>4, <1>5, <1>6 DEF SInv

LEMMA FunctionIsSeq ==
  ASSUME NEW n \in Nat, NEW f, f = [i \in 1 .. n |-> f[i]]
  PROVE  f \in Seq(Elements(f)) /\ Len(f) = n /\ DOMAIN f = 1 .. n
<1>1. f \in [1 .. n -> Elements(f)]
  BY DEF Elements
<1> QED
  BY <1>1

\* init_entity() fills one descriptor: names stay, and its subtypes are looked up.
LEMMA init_entity_Facts ==
  ASSUME SInv, Inv, init_entity
  PROVE  /\ UNCHANGED <<file, tables, known, graph_, in_degree_, q, res, node, todo, phase>>
         /\ pc = "parse" /\ pos <= Len(file) /\ file[pos].kind = "entity"
         /\ \/ pc' = "crashed" /\ entities' = entities
            \/ /\ pc' = pc /\ pos' = pos + 1
               /\ entities' \in Seq(Elements(entities')) /\ Len(entities') = Len(entities)
               /\ DOMAIN entities' = DOMAIN entities
               /\ \A k \in DOMAIN entities :
                    /\ entities'[k] \in Descriptor(entities'[k]) /\ entities'[k].name = entities[k].name
                    /\ k # id_index(entities, file[pos].name) => entities'[k] = entities[k]
                    /\ k = id_index(entities, file[pos].name) =>
                         entities'[k].subs = [i \in DOMAIN file[pos].subs |->
                                                find_by_name(entities, file[pos].subs[i])]
<1> DEFINE id == id_index(entities, file[pos].name)
           ss == [i \in DOMAIN file[pos].subs |-> find_by_name(entities, file[pos].subs[i])]
           as == [i \in DOMAIN file[pos].attrs |-> attr_type(file[pos].attrs[i])]
           up == IF file[pos].super = None THEN entities[id].super
                 ELSE find_by_name(entities, file[pos].super)
           d  == [entities[id] EXCEPT !.set = TRUE, !.attrs = as, !.subs = ss, !.super = up]
<1>1. /\ UNCHANGED <<file, tables, known, graph_, in_degree_, q, res, node, todo, phase>>
      /\ pc = "parse" /\ pos <= Len(file) /\ file[pos].kind = "entity"
      /\ \/ pc' = "crashed" /\ entities' = entities
         \/ /\ pc' = pc /\ pos' = pos + 1
            /\ entities' = [entities EXCEPT ![id] = d]
  BY DEF init_entity, Goto, More, Item, graphVars
<1>t. /\ Len(entities) \in Nat /\ DOMAIN entities = 1 .. Len(entities)
      /\ entities \in Seq(Elements(entities)) /\ pos \in DOMAIN file
      /\ \A k \in DOMAIN entities : entities[k] \in Descriptor(entities[k])
  BY <1>1, FileFacts DEF SInv, SchemaTypes
<1>s. ss \in Seq(Nat)
  <2>1. file[pos].subs \in Seq(Elements(file[pos].subs))
    BY <1>1, <1>t, FileFacts DEF SInv
  <2>2. Len(file[pos].subs) \in Nat /\ DOMAIN file[pos].subs = 1 .. Len(file[pos].subs)
    BY <2>1, SeqFacts
  <2>3. \A n : find_by_name(entities, n) \in Nat
    BY <1>t, FindFacts
  <2> QED
    BY <2>2, <2>3
<1>2. CASE pc' = "crashed" /\ entities' = entities
  BY <1>1, <1>2
<1>3. CASE pc' = pc /\ pos' = pos + 1 /\ entities' = [entities EXCEPT ![id] = d]
  <2>1. id \in DOMAIN entities => d \in Descriptor(d) /\ d.name = entities[id].name /\ d.subs = ss
    <3> SUFFICES ASSUME id \in DOMAIN entities
                 PROVE  d \in Descriptor(d) /\ d.name = entities[id].name /\ d.subs = ss
      OBVIOUS
    <3>1. entities[id] \in Descriptor(entities[id])
      BY <1>t
    <3>2. entities[id].super \in Nat
      BY <3>1 DEF Descriptor
    <3>3. up \in Nat
      BY <3>2, <1>t, FindFacts
    <3> HIDE DEF id, ss, as, up
    <3>4. d = [entities[id] EXCEPT !.set = TRUE, !.attrs = as, !.subs = ss, !.super = up]
      OBVIOUS
    <3> HIDE DEF d
    <3>5. d = [name |-> entities[id].name, set |-> TRUE, subs |-> ss, super |-> up, attrs |-> as]
      BY <3>1, <3>4 DEF Descriptor
    <3> QED
      BY <3>3, <3>5, <1>s DEF Descriptor
  <2> HIDE DEF id, ss, d
  <2>2. /\ entities' = [i \in 1 .. Len(entities) |-> entities'[i]]
        /\ DOMAIN entities' = DOMAIN entities
        /\ \A k \in DOMAIN entities : (k # id => entities'[k] = entities[k]) /\ (k = id => entities'[k] = d)
    BY <1>3, <1>t
  <2>3. entities' \in Seq(Elements(entities')) /\ Len(entities') = Len(entities)
    BY <2>2, <1>t, FunctionIsSeq
  <2>4. \A k \in DOMAIN entities :
          /\ entities'[k] \in Descriptor(entities'[k]) /\ entities'[k].name = entities[k].name
          /\ k # id => entities'[k] = entities[k]
          /\ k = id => entities'[k].subs = ss
    BY <2>1, <2>2, <1>t
  <2> QED
    BY <1>1, <1>3, <2>2, <2>3, <2>4 DEF id, ss
<1> QED
  BY <1>1, <1>2, <1>3

LEMMA init_entity_SInv ==
  ASSUME SInv, Inv, init_entity
  PROVE  SInv'
<1>0. /\ UNCHANGED <<file, tables, known, graph_, in_degree_, q, res, node, todo, phase>>
      /\ pc = "parse" /\ pos <= Len(file) /\ file[pos].kind = "entity"
  BY init_entity_Facts
<1>t. /\ pos \in Nat \ {0} /\ pos \in DOMAIN file
      /\ Len(entities) \in Nat /\ DOMAIN entities = 1 .. Len(entities)
      /\ Len(file) \in Nat /\ DOMAIN file = 1 .. Len(file)
  BY <1>0, FileFacts DEF SInv, SchemaTypes
<1>p. Plain' <=> Plain
  BY <1>0 DEF Plain
<1>5. KnownEnds'
  BY <1>0 DEF SInv, KnownEnds
<1>7. CASE pc' = "crashed" /\ entities' = entities
  <2>1. SchemaTypes'
    BY <1>0, <1>7 DEF SInv, SchemaTypes
  <2>2. Listed'
    BY <1>0, <1>p, <1>7 DEF SInv, Listed
  <2>3. Filled'
    BY <1>7 DEF Filled
  <2>4. EdgesLinked' /\ Emitted'
    BY <1>7 DEF EdgesLinked, Emitted
  <2> QED
    BY <2>1, <2>2, <2>3, <2>4, <1>5 DEF SInv
<1>8. CASE ~(pc' = "crashed" /\ entities' = entities)
  <2> DEFINE id == id_index(entities, file[pos].name)
             ss == [i \in DOMAIN file[pos].subs |-> find_by_name(entities, file[pos].subs[i])]
  <2>0. /\ pc' = pc /\ pos' = pos + 1
        /\ entities' \in Seq(Elements(entities')) /\ Len(entities') = Len(entities)
        /\ DOMAIN entities' = DOMAIN entities
        /\ \A k \in DOMAIN entities :
             /\ entities'[k] \in Descriptor(entities'[k]) /\ entities'[k].name = entities[k].name
             /\ k # id => entities'[k] = entities[k]
             /\ k = id => entities'[k].subs = ss
    BY <1>8, init_entity_Facts
  <2>s. \A j \in DOMAIN ss : ss[j] \in 0 .. Len(entities)
    BY <1>t, FindFacts
  <2>1. SchemaTypes'
    <3>1. ASSUME NEW k \in DOMAIN entities'
          PROVE  \A j \in DOMAIN entities'[k].subs : entities'[k].subs[j] <= Len(entities)
      <4> HIDE DEF id, ss
      <4>1. CASE k = id
        BY <4>1, <2>0, <2>s, <1>t
      <4>2. CASE k # id
        BY <4>2, <2>0 DEF SInv, SchemaTypes
      <4> QED
        BY <4>1, <4>2
    <3>2. pos' \in Nat \ {0}
      BY <2>0, <1>t
    <3> HIDE DEF id, ss
    <3> QED
      BY <1>0, <2>0, <3>1, <3>2 DEF SInv, SchemaTypes
  <2>2. Listed'
    <3> HIDE DEF id, ss
    <3> QED
      BY <1>0, <1>p, <2>0 DEF SInv, Listed
  <2>3. Filled'
    <3> SUFFICES ASSUME Plain, NEW i \in DOMAIN file, NEW k \in DOMAIN entities,
                        file[i].kind = "entity", entities[k].name = file[i].name, i < pos + 1
                 PROVE  SubsOf(k, file[i])'
      <4> HIDE DEF id, ss
      <4> QED
        BY <1>0, <1>p, <2>0 DEF Filled
    <3>u. \A j, l \in DOMAIN entities : entities[j].name = entities[l].name => j = l
      BY DEF SInv, Listed
    <3>1. CASE i = pos
      <4>1. id = k
        BY <3>1, <3>u, <1>t, FindUnique
      <4>2. (entities')[k].subs = ss
        <5> HIDE DEF id, ss
        <5> QED
          BY <4>1, <2>0
      <4>3. DOMAIN (entities')[k].subs = DOMAIN file[pos].subs
        BY <4>2
      <4>4. ASSUME NEW j \in DOMAIN file[pos].subs, NEW l \in DOMAIN entities,
                   entities[l].name = file[pos].subs[j]
            PROVE  (entities')[k].subs[j] = l
        <5>1. find_by_name(entities, file[pos].subs[j]) = l
          <6> DEFINE n == file[pos].subs[j]
          <6>1. entities[l].name = n /\ \A m \in 1 .. Len(entities) : entities[m].name = n => m = l
            BY <4>4, <3>u, <1>t
          <6> HIDE DEF n
          <6>2. find_by_name(entities, n) = l
            BY <6>1, <1>t, FindUnique
          <6> QED
            BY <6>2 DEF n
        <5> QED
          BY <5>1, <4>2
      <4> HIDE DEF id, ss
      <4> QED
        BY <1>0, <2>0, <3>1, <4>3, <4>4 DEF SubsOf
    <3>2. CASE i # pos
      <4>1. i < pos
        BY <3>2, <1>t
      <4>2. SubsOf(k, file[i])
        BY <1>0, <4>1 DEF SInv, Filled
      <4>3. k # id
        <5> SUFFICES ASSUME k = id PROVE FALSE
          OBVIOUS
        <5>1. PICK l \in DOMAIN entities : entities[l].name = file[pos].name
          BY <1>0, <1>t DEF SInv, Listed
        <5>2. id = l
          <6> DEFINE n == file[pos].name
          <6>1. entities[l].name = n /\ \A m \in 1 .. Len(entities) : entities[m].name = n => m = l
            BY <5>1, <3>u, <1>t
          <6> HIDE DEF n
          <6>2. id_index(entities, n) = l
            BY <6>1, <1>t, FindUnique
          <6> QED
            BY <6>2 DEF n
        <5>3. file[i].name = file[pos].name
          BY <5>1, <5>2
        <5> QED
          BY <5>3, <3>2, <1>t, PlainItems
      <4> HIDE DEF id, ss
      <4>4. (entities')[k] = entities[k]
        BY <4>3, <2>0
      <4> QED
        BY <1>0, <2>0, <4>2, <4>4 DEF SubsOf
    <3> QED
      BY <3>1, <3>2
  <2>4. EdgesLinked' /\ Emitted'
    <3>1. pc' = "parse"
      BY <1>0, <2>0
    <3> QED
      BY <1>0, <3>1 DEF SInv, EdgesLinked, Emitted
  <2> QED
    BY <2>1, <2>2, <2>3, <2>4, <1>5 DEF SInv
<1> QED
  BY <1>7, <1>8

LEMMA InitSInv == Init => SInv
<1> SUFFICES ASSUME Init PROVE SInv
  OBVIOUS
<1>0. /\ file \in Files /\ pc = "preprocess" /\ pos = 1 /\ entities = <<>> /\ tables = <<>>
      /\ known = {} /\ graph_ = [n \in Nodes |-> {}] /\ phase = "build"
  BY DEF Init, GraphInit
<1>1. Len(file) \in Nat /\ DOMAIN file = 1 .. Len(file)
  BY <1>0, FilesAssumption, SeqFacts
<1>2. Len(entities) = 0 /\ DOMAIN entities = {} /\ entities \in Seq(Elements(entities))
  BY <1>0 DEF Elements
<1>3. SchemaTypes
  BY <1>0, <1>1, <1>2 DEF SchemaTypes
<1>4. Listed
  <2>1. \A i \in DOMAIN file : ~(i < 1)
    BY <1>1
  <2> QED
    BY <1>0, <1>2, <2>1 DEF Listed
<1>5. Filled /\ EdgesLinked /\ KnownEnds /\ Emitted
  BY <1>0 DEF Filled, EdgesLinked, KnownEnds, Emitted
<1> QED
  BY <1>3, <1>4, <1>5 DEF SInv

LEMMA StutterSInv ==
  ASSUME SInv, UNCHANGED vars
  PROVE  SInv'
<1>0. UNCHANGED <<file, pc, pos, sub, entities, tables, known, graph_, res, phase>>
  BY DEF vars, fileVars, graphVars
<1>p. Plain' <=> Plain
  BY <1>0 DEF Plain
<1>1. SchemaTypes'
  BY <1>0 DEF SInv, SchemaTypes
<1>2. Listed' /\ Filled'
  BY <1>0, <1>p DEF SInv, Listed, Filled, SubsOf
<1>3. EdgesLinked' /\ KnownEnds'
  BY <1>0 DEF SInv, EdgesLinked, KnownEnds, Link
<1>4. Emitted'
  BY <1>0 DEF SInv, Emitted
<1> QED
  BY <1>1, <1>2, <1>3, <1>4 DEF SInv

LEMMA NextSInv ==
  ASSUME SInv, Inv, [Next]_vars
  PROVE  SInv'
<1>1. CASE Shows
  BY <1>1, ShowsFacts, ShowsSInv
<1> QED
  BY <1>1, StutterSInv, scan_item_SInv, scan_error_SInv, end_scan_SInv, init_type_SInv,
     init_entity_SInv, skip_item_SInv, end_parse_SInv, sql_SInv, link_SInv,
     next_entity_SInv, start_sort_SInv, sort_SInv, check_first_SInv, create_SInv, write_file_SInv
     DEF Next, Shows

\* What the generator does to the graph is what a user of TopoGraph may do.
LEMMA GraphStep ==
  ASSUME SInv, [Next]_vars
  PROVE  [GraphNext]_graphVars
<1>1. CASE UNCHANGED graphVars
  BY <1>1
<1>2. CASE link
  <2>1. pos \in DOMAIN entities /\ pos \in Nodes
    BY <1>2, FileFacts DEF link, SInv, SchemaTypes
  <2>2. sub \in DOMAIN entities[pos].subs
    BY <1>2, <2>1, SubsFacts DEF link, SInv, SchemaTypes
  <2>3. entities[pos].subs[sub] \in Nodes
    BY <2>1, <2>2, SubsFacts DEF SInv
  <2> QED
    BY <1>2, <2>1, <2>3 DEF link, GraphNext
<1>3. CASE start_sort \/ sort
  BY <1>3 DEF start_sort, sort, GraphNext
<1>4. CASE ~(link \/ start_sort \/ sort)
  <2>1. UNCHANGED vars => UNCHANGED graphVars
    BY DEF vars
  <2>2. CASE scan_item \/ scan_error \/ end_scan \/ init_type \/ init_entity
    BY <2>2 DEF scan_item, scan_error, end_scan, init_type, init_entity
  <2>3. CASE skip_item \/ end_parse \/ Shows
    BY <2>3, ShowsFacts DEF skip_item, end_parse, Still, graphVars
  <2>4. CASE sql \/ next_entity \/ check_first \/ create_pgsql_for_entity \/ write_file
    BY <2>4 DEF sql, next_entity, check_first, create_pgsql_for_entity, write_file
  <2> QED
    BY <1>4, <2>1, <2>2, <2>3, <2>4 DEF Next, Shows
<1> QED
  BY <1>1, <1>2, <1>3, <1>4

\* The invariant of the whole program, for any text that meets FilesAssumption.
THEOREM SchemaInvariant == Spec => [](SInv /\ Inv)
<1>1. Init => SInv /\ Inv
  BY InitSInv, InitInv DEF Init
<1>2. SInv /\ Inv /\ [Next]_vars => (SInv /\ Inv)'
  BY NextSInv, GraphStep, NextInv
<1> QED
  BY <1>1, <1>2, PTL DEF Spec

\* The generator uses TopoGraph as TopoGraph is meant to be used: what is
\* proved of the graph alone holds of the program.
THEOREM SchemaImplementsGraph == Spec => GraphSpec
<1>1. Init => GraphInit
  BY DEF Init
<1>2. SInv /\ [Next]_vars => [GraphNext]_graphVars
  BY GraphStep
<1> QED
  BY <1>1, <1>2, SchemaInvariant, PTL DEF Spec, GraphSpec

-----------------------------------------------------------------------------
(* The tables of a well-formed schema *)

\* The declaration that descriptor k was made for.
DeclaredBy(k) == CHOOSE d \in Declared("entity") : d.name = entities[k].name

LEMMA DeclaredItems ==
  ASSUME Plain
  PROVE  /\ Declared("entity") = {file[i] : i \in {j \in DOMAIN file : file[j].kind = "entity"}}
         /\ \A d, e \in Declared("entity") : d.name = e.name => d = e
<1>1. Declared("entity") = {file[i] : i \in {j \in DOMAIN file : file[j].kind = "entity"}}
  BY PlainItems DEF Declared, Elements
<1> QED
  BY <1>1, PlainItems

\* Descriptors and declarations of entities correspond one to one.
LEMMA DeclaredFacts ==
  ASSUME SInv, Plain, pc # "preprocess"
  PROVE  /\ \A k \in DOMAIN entities :
              DeclaredBy(k) \in Declared("entity") /\ DeclaredBy(k).name = entities[k].name
         /\ \A d \in Declared("entity") : \E k \in DOMAIN entities :
              entities[k].name = d.name /\ DeclaredBy(k) = d
         /\ \A j, k \in DOMAIN entities : DeclaredBy(j).name = DeclaredBy(k).name => j = k
<1>1. ASSUME NEW k \in DOMAIN entities
      PROVE  DeclaredBy(k) \in Declared("entity") /\ DeclaredBy(k).name = entities[k].name
  <2>1. \E d \in Declared("entity") : d.name = entities[k].name
    BY DeclaredItems DEF SInv, Listed
  <2> QED
    BY <2>1 DEF DeclaredBy
<1>2. ASSUME NEW d \in Declared("entity")
      PROVE  \E k \in DOMAIN entities : entities[k].name = d.name /\ DeclaredBy(k) = d
  <2>1. PICK i \in DOMAIN file : file[i] = d /\ file[i].kind = "entity"
    BY DeclaredItems
  <2>2. PICK k \in DOMAIN entities : entities[k].name = d.name
    BY <2>1 DEF SInv, Listed
  <2>3. DeclaredBy(k) = d
    BY <1>1, <2>2, DeclaredItems
  <2> QED
    BY <2>2, <2>3
<1>3. \A j, k \in DOMAIN entities : DeclaredBy(j).name = DeclaredBy(k).name => j = k
  BY <1>1 DEF SInv, Listed
<1> QED
  BY <1>1, <1>2, <1>3

\* An edge leads from a supertype to its subtype and every such pair has one.
LEMMA EdgeIsSubtype ==
  ASSUME SInv, Plain, Closed, TwoSided, pc = "written"
  PROVE  /\ \A x, y \in Nodes : y \in graph_[x] => x \in DOMAIN entities /\ y \in DOMAIN entities
         /\ \A x, y \in DOMAIN entities :
              y \in graph_[x] <=> DeclaredBy(y).super = DeclaredBy(x).name
<1>1. /\ \A k \in DOMAIN entities :
           DeclaredBy(k) \in Declared("entity") /\ DeclaredBy(k).name = entities[k].name
      /\ \A d \in Declared("entity") : \E k \in DOMAIN entities :
           entities[k].name = d.name /\ DeclaredBy(k) = d
      /\ \A j, k \in DOMAIN entities : DeclaredBy(j).name = DeclaredBy(k).name => j = k
  BY DeclaredFacts
<1>2. \A x, y \in Nodes : y \in graph_[x] <=>
        x \in DOMAIN entities /\ \E j \in DOMAIN entities[x].subs : entities[x].subs[j] = y
  BY DEF SInv, EdgesLinked, Link
<1>3. DOMAIN entities \subseteq Nodes
  BY FileFacts DEF SInv
<1>4. ASSUME NEW x \in DOMAIN entities PROVE SubsOf(x, DeclaredBy(x))
  <2>1. PICK i \in DOMAIN file : file[i] = DeclaredBy(x) /\ file[i].kind = "entity"
    BY <1>1, DeclaredItems
  <2>2. entities[x].name = file[i].name
    BY <2>1, <1>1
  <2>3. SubsOf(x, file[i])
    BY <2>1, <2>2 DEF SInv, Filled
  <2> QED
    BY <2>1, <2>3
<1>5. ASSUME NEW x \in DOMAIN entities, NEW j \in DOMAIN entities[x].subs
      PROVE  /\ entities[x].subs[j] \in DOMAIN entities
             /\ DeclaredBy(entities[x].subs[j]).super = DeclaredBy(x).name
  <2> DEFINE d == DeclaredBy(x)
  <2>1. j \in DOMAIN d.subs /\ d \in Declared("entity")
    BY <1>1, <1>4 DEF SubsOf
  <2>2. d.subs[j] \in Elements(d.subs) /\ d.subs[j] \in Names("entity")
    BY <2>1 DEF Closed, Elements
  <2>3. PICK e \in Declared("entity") : e.name = d.subs[j]
    BY <2>2 DEF Names
  <2>4. e.super = d.name
    BY <2>1, <2>2, <2>3 DEF TwoSided
  <2>5. PICK l \in DOMAIN entities : entities[l].name = e.name /\ DeclaredBy(l) = e
    BY <1>1
  <2>6. entities[x].subs[j] = l
    BY <2>1, <2>3, <2>5, <1>4 DEF SubsOf
  <2> QED
    BY <2>4, <2>5, <2>6
<1>6. ASSUME NEW x \in DOMAIN entities, NEW y \in DOMAIN entities,
             DeclaredBy(y).super = DeclaredBy(x).name
      PROVE  \E j \in DOMAIN entities[x].subs : entities[x].subs[j] = y
  <2>1. DeclaredBy(y).name \in Elements(DeclaredBy(x).subs)
    BY <1>1, <1>6 DEF TwoSided
  <2>2. PICK j \in DOMAIN DeclaredBy(x).subs : DeclaredBy(x).subs[j] = entities[y].name
    BY <2>1, <1>1 DEF Elements
  <2> QED
    BY <2>2, <1>4 DEF SubsOf
<1>7. ASSUME NEW x \in Nodes, NEW y \in Nodes, y \in graph_[x]
      PROVE  x \in DOMAIN entities /\ y \in DOMAIN entities /\ DeclaredBy(y).super = DeclaredBy(x).name
  BY <1>2, <1>5, <1>7
<1> QED
  BY <1>2, <1>3, <1>6, <1>7

\* The nodes of the graph are the entities of a hierarchy.
LEMMA KnownIsHierarchy ==
  ASSUME SInv, Inv, EdgesKnown, Plain, Closed, TwoSided, pc = "written"
  PROVE  known = {k \in DOMAIN entities : DeclaredBy(k).subs # <<>> \/ DeclaredBy(k).super # None}
<1>1. /\ \A k \in DOMAIN entities :
           DeclaredBy(k) \in Declared("entity") /\ DeclaredBy(k).name = entities[k].name
      /\ \A d \in Declared("entity") : \E k \in DOMAIN entities :
           entities[k].name = d.name /\ DeclaredBy(k) = d
  BY DeclaredFacts
<1>2. /\ \A x, y \in Nodes : y \in graph_[x] => x \in DOMAIN entities /\ y \in DOMAIN entities
      /\ \A x, y \in DOMAIN entities : y \in graph_[x] <=> DeclaredBy(y).super = DeclaredBy(x).name
  BY EdgeIsSubtype
<1>3. DOMAIN entities \subseteq Nodes /\ known \subseteq Nodes /\ graph_ \in [Nodes -> SUBSET Nodes]
  BY FileFacts DEF SInv, Inv, GraphTypeOK
<1>4. \A d \in Declared("entity") : d.name # None /\ d.subs \in Seq(Elements(d.subs))
  BY DeclaredItems, FileFacts DEF SInv
<1>5. ASSUME NEW x \in DOMAIN entities, NEW y \in DOMAIN entities, DeclaredBy(y).super = DeclaredBy(x).name
      PROVE  DeclaredBy(x).subs # <<>> /\ DeclaredBy(y).super # None
  <2>1. DeclaredBy(y).name \in Elements(DeclaredBy(x).subs)
    BY <1>1, <1>5 DEF TwoSided
  <2>2. DeclaredBy(x).subs # <<>>
    BY <2>1 DEF Elements
  <2> QED
    BY <2>2, <1>1, <1>4, <1>5
<1>6. ASSUME NEW x \in known
      PROVE  x \in DOMAIN entities /\ (DeclaredBy(x).subs # <<>> \/ DeclaredBy(x).super # None)
  <2>1. CASE graph_[x] # {}
    <3>1. PICK y \in Nodes : y \in graph_[x]
      BY <2>1, <1>3
    <3> QED
      BY <3>1, <1>2, <1>3, <1>5
  <2>2. CASE \E m \in Nodes : x \in graph_[m]
    BY <2>2, <1>2, <1>3, <1>5
  <2> QED
    BY <2>1, <2>2 DEF SInv, KnownEnds
<1>7. ASSUME NEW k \in DOMAIN entities, DeclaredBy(k).subs # <<>>
      PROVE  k \in known
  <2> DEFINE d == DeclaredBy(k)
  <2>1. d \in Declared("entity") /\ d.subs \in Seq(Elements(d.subs))
    BY <1>1, <1>4
  <2>2. PICK j \in DOMAIN d.subs : TRUE
    <3> DEFINE s == d.subs
    <3>1. s \in Seq(Elements(s)) /\ s # <<>>
      BY <2>1, <1>7
    <3> HIDE DEF s
    <3>2. DOMAIN s # {}
      BY <3>1
    <3> QED
      BY <3>2 DEF s
  <2>3. d.subs[j] \in Elements(d.subs) /\ d.subs[j] \in Names("entity")
    BY <2>1, <2>2 DEF Closed, Elements
  <2>4. PICK e \in Declared("entity") : e.name = d.subs[j]
    BY <2>3 DEF Names
  <2>5. e.super = d.name
    BY <2>1, <2>3, <2>4 DEF TwoSided
  <2>6. PICK l \in DOMAIN entities : DeclaredBy(l) = e
    BY <1>1
  <2> QED
    BY <2>5, <2>6, <1>2, <1>3 DEF EdgesKnown
<1>8. ASSUME NEW k \in DOMAIN entities, DeclaredBy(k).super # None
      PROVE  k \in known
  <2>1. PICK d \in Declared("entity") : d.name = DeclaredBy(k).super
    BY <1>1, <1>8 DEF Closed, Names
  <2>2. PICK l \in DOMAIN entities : DeclaredBy(l) = d
    BY <1>1
  <2> QED
    BY <2>1, <2>2, <1>2, <1>3 DEF EdgesKnown
<1> QED
  BY <1>6, <1>7, <1>8

\* No supertype cycle: the order leaves nothing out.
LEMMA NothingLeftOut ==
  ASSUME SInv, Inv, EdgesKnown, LeftOutWaits, Plain, Closed, TwoSided, ~SuperCycle, pc = "written"
  PROVE  Elements(res) = known
<1>1. Elements(res) \subseteq known
  BY DEF EdgesKnown
<1>2. phase = "sorted" /\ known \subseteq Nodes
  BY DEF SInv, EdgesLinked, Inv, GraphTypeOK
<1> DEFINE L == known \ Elements(res)
           S == {DeclaredBy(x) : x \in L}
<1>3. \A x \in L : x \in DOMAIN entities /\ DeclaredBy(x) \in Declared("entity")
  BY KnownIsHierarchy, DeclaredFacts
<1>4. \A x \in L : \E m \in L : DeclaredBy(x).super = DeclaredBy(m).name
  <2> TAKE x \in L
  <2>1. PICK m \in L : x \in graph_[m]
    BY <1>2 DEF LeftOutWaits
  <2> QED
    BY <2>1, <1>2, <1>3, EdgeIsSubtype
<1>5. S \in SUBSET Declared("entity") /\ \A e \in S : \E d \in S : e.super = d.name
  BY <1>3, <1>4
<1>6. S = {}
  BY <1>5 DEF SuperCycle
<1>7. L = {}
  BY <1>6
<1> QED
  BY <1>1, <1>7

LEMMA TablesLemma ==
  ASSUME SInv, Inv, EdgesKnown, LeftOutWaits
  PROVE  TablesInOrder
<1> SUFFICES ASSUME pc = "written", Plain, Closed, TwoSided, ~SuperCycle
             PROVE  /\ {Entity(t) : t \in Elements(tables)} =
                         {e \in Declared("entity") : e.subs # <<>> \/ e.super # None}
                    /\ \A i, j \in DOMAIN tables :
                         /\ tables[i].id = tables[j].id => i = j
                         /\ Entity(tables[j]).super = Entity(tables[i]).name => i < j
  BY DEF TablesInOrder, WellFormed
<1>1. DOMAIN tables = DOMAIN res /\ \A i \in DOMAIN tables : tables[i].id = res[i]
  <2>1. res \in Seq(Nodes) /\ tables \in Seq(Elements(tables)) /\ Len(tables) = Len(res)
    BY DEF SInv, Emitted, Inv, GraphTypeOK
  <2>2. DOMAIN tables = DOMAIN res
    BY <2>1
  <2> QED
    BY <2>2 DEF SInv, Emitted
<1>2. \A i \in DOMAIN tables : Entity(tables[i]) = DeclaredBy(res[i])
  BY <1>1 DEF Entity, DeclaredBy
<1>3. Elements(res) = {k \in DOMAIN entities : DeclaredBy(k).subs # <<>> \/ DeclaredBy(k).super # None}
  BY NothingLeftOut, KnownIsHierarchy
<1>4. {Entity(t) : t \in Elements(tables)} = {DeclaredBy(k) : k \in Elements(res)}
  <2>1. {Entity(t) : t \in Elements(tables)} = {Entity(tables[i]) : i \in DOMAIN tables}
    BY DEF Elements
  <2>2. {DeclaredBy(k) : k \in Elements(res)} = {DeclaredBy(res[i]) : i \in DOMAIN res}
    BY DEF Elements
  <2> QED
    BY <2>1, <2>2, <1>1, <1>2
<1>5. {DeclaredBy(k) : k \in Elements(res)} = {e \in Declared("entity") : e.subs # <<>> \/ e.super # None}
  BY <1>3, DeclaredFacts
<1>6. ASSUME NEW i \in DOMAIN tables, NEW j \in DOMAIN tables
      PROVE  /\ tables[i].id = tables[j].id => i = j
             /\ Entity(tables[j]).super = Entity(tables[i]).name => i < j
  <2>1. \A m, n \in DOMAIN res : res[m] = res[n] => m = n
    BY DEF Inv, Apart, Once
  <2>2. i \in DOMAIN res /\ j \in DOMAIN res /\ res[i] \in DOMAIN entities /\ res[j] \in DOMAIN entities
    BY <1>1, <1>3 DEF Elements
  <2>3. tables[i].id = tables[j].id => i = j
    BY <1>1, <2>1, <2>2
  <2>4. ASSUME Entity(tables[j]).super = Entity(tables[i]).name
        PROVE  i < j
    <3>1. res[j] \in graph_[res[i]]
      BY <2>4, <1>2, <2>2, EdgeIsSubtype
    <3>2. res[i] \in Nodes
      BY <2>2, FileFacts DEF SInv
    <3>3. PICK n \in DOMAIN res : n < j /\ res[n] = res[i]
      BY <3>1, <3>2, <2>2 DEF Inv, Preceded
    <3> QED
      BY <3>3, <2>1, <2>2
  <2> QED
    BY <2>3, <2>4
<1> QED
  BY <1>4, <1>5, <1>6

\* On every well-formed schema, whatever its size, the generated file creates
\* each table of a hierarchy once and after the table of its supertype.
THEOREM TablesInOrderHolds == Spec => []TablesInOrder
<1>1. GraphSpec => [](EdgesKnown /\ Complete /\ LoopsEnd)
  BY GraphInvariant, CompleteInit, CompleteNext, PTL DEF GraphSpec
<1>2. SInv /\ Inv /\ EdgesKnown /\ Complete /\ LoopsEnd => TablesInOrder
  BY LeftOutLemma, TablesLemma
<1> QED
  BY <1>1, <1>2, SchemaInvariant, SchemaImplementsGraph, PTL


-----------------------------------------------------------------------------
(* The columns.  TInv says of types and attributes what SInv says of       *)
(* entities and subtypes.                                                  *)

Type(t) == [name : {t.name}, base : {t.base}, ref : Nat, list : BOOLEAN, select : {t.select}]

TypesTyped ==
  /\ types \in Seq(Elements(types)) /\ Len(types) <= Len(file)
  /\ pc = "preprocess" => Len(types) < pos
  /\ \A k \in DOMAIN types : types[k] \in Type(types[k]) /\ types[k].ref <= Len(types)

TypesListed ==
  Plain =>
    /\ \A j, k \in DOMAIN types : types[j].name = types[k].name => j = k
    /\ \A k \in DOMAIN types : \E i \in DOMAIN file :
         file[i].kind = "type" /\ file[i].name = types[k].name /\ (pc = "preprocess" => i < pos)
    /\ \A i \in DOMAIN file : file[i].kind = "type" /\ (pc = "preprocess" => i < pos) =>
         \E k \in DOMAIN types : types[k].name = file[i].name

\* The grammar has been there.
Parsed(i) == i \in DOMAIN file /\ (pc = "parse" => i < pos)

\* Type k is as declared by d, and derived from the type that d names.
TypeOf(k, d) ==
  /\ types[k].base = d.base
  /\ d.base = "DERIVED" => \A l \in DOMAIN types : types[l].name = d.refs[1] <=> types[k].ref = l

\* Attribute x has the type that a names, or refers to an entity.
AttrOf(x, a) ==
  /\ x.type \in 0 .. Len(types) /\ x.list = a.list
  /\ \A l \in DOMAIN types : x.type = l <=> a.ref # None /\ types[l].name = a.ref
  /\ x.base = IF a.ref # None /\ x.type = 0 THEN "REFERENCE" ELSE a.base

AttrsOf(k, d) ==
  /\ DOMAIN entities[k].attrs = DOMAIN d.attrs
  /\ entities[k].attrs \in Seq(Elements(entities[k].attrs))
  /\ \A j \in DOMAIN d.attrs : AttrOf(entities[k].attrs[j], d.attrs[j])

\* An attribute seen so far makes a list of the type that item i declares.
Marked(i) ==
  \E j \in DOMAIN file : Parsed(j) /\ file[j].kind = "entity" /\
    \E m \in DOMAIN file[j].attrs : file[j].attrs[m].ref = file[i].name /\ file[j].attrs[m].list

Past == pc \notin {"preprocess", "exited", "crashed"}

TypesFilled ==
  Plain /\ Past => \A i, k : Parsed(i) /\ file[i].kind = "type" /\
    k \in DOMAIN types /\ types[k].name = file[i].name => TypeOf(k, file[i])

AttrsFilled ==
  Plain /\ Past => \A i, k : Parsed(i) /\ file[i].kind = "entity" /\
    k \in DOMAIN entities /\ entities[k].name = file[i].name => AttrsOf(k, file[i])

\* Where a type is used one way, it does not matter which attribute came last.
ListsMarked ==
  Plain /\ UsedOneWay /\ Past => \A i, k : Parsed(i) /\ file[i].kind = "type" /\
    k \in DOMAIN types /\ types[k].name = file[i].name => (types[k].list <=> file[i].list \/ Marked(i))

TInv == TypesTyped /\ TypesListed /\ TypesFilled /\ AttrsFilled /\ ListsMarked

LEMMA TypesFacts ==
  ASSUME TypesTyped, SchemaTypes
  PROVE  /\ Len(types) \in Nat /\ DOMAIN types = 1 .. Len(types)
         /\ \A k \in DOMAIN types : types[k].ref \in 0 .. Len(types) /\ types[k].list \in BOOLEAN
<1>1. Len(types) \in Nat /\ DOMAIN types = 1 .. Len(types)
  BY SeqFacts DEF TypesTyped
<1>2. ASSUME NEW k \in DOMAIN types
      PROVE  types[k].ref \in 0 .. Len(types) /\ types[k].list \in BOOLEAN
  <2>1. types[k] \in Type(types[k]) /\ types[k].ref <= Len(types)
    BY DEF TypesTyped
  <2>2. types[k].ref \in Nat
    BY <2>1 DEF Type
  <2>3. types[k].list \in BOOLEAN
    BY <2>1 DEF Type
  <2> QED
    BY <1>1, <2>1, <2>2, <2>3
<1> QED
  BY <1>1, <1>2

LEMMA FlagFacts ==
  ASSUME SchemaTypes
  PROVE  /\ \A i \in DOMAIN file : file[i].kind = "type" => file[i].list \in BOOLEAN
         /\ \A i \in DOMAIN file : file[i].kind = "entity" =>
              /\ \A m \in DOMAIN file[i].attrs : file[i].attrs[m].list \in BOOLEAN
              /\ file[i].attrs \in Seq(Elements(file[i].attrs))
<1>1. \A i \in DOMAIN file : file[i] \in Elements(file)
  BY DEF Elements
<1>2. \A i \in DOMAIN file : \A m \in DOMAIN file[i].attrs : file[i].attrs[m] \in Elements(file[i].attrs)
  BY DEF Elements
<1> QED
  BY <1>1, <1>2, FilesAssumption DEF SchemaTypes

LEMMA FileKept ==
  ASSUME file' = file
  PROVE  /\ Plain' <=> Plain
         /\ UsedOneWay' <=> UsedOneWay
         /\ WellFormed' <=> WellFormed
<1>1. \A k : Declared(k)' = Declared(k)
  BY DEF Declared
<1>2. \A k : Names(k)' = Names(k)
  BY <1>1 DEF Names
<1>3. Plain' <=> Plain
  BY DEF Plain
<1>4. UsedOneWay' <=> UsedOneWay
  BY <1>1 DEF UsedOneWay
<1>5. \A t : Derivation(t)' = Derivation(t)
  BY <1>1 DEF Derivation
<1>6. (Closed' <=> Closed) /\ (TwoSided' <=> TwoSided) /\ (SuperCycle' <=> SuperCycle)
  BY <1>1, <1>2 DEF Closed, TwoSided, SuperCycle
<1> QED
  BY <1>1, <1>3, <1>4, <1>5, <1>6 DEF WellFormed

-----------------------------------------------------------------------------
(* Steps that leave the descriptors alone *)

LEMMA FrozenTInv ==
  ASSUME TInv, UNCHANGED <<file, types, entities>>,
         \/ pc' = pc /\ pos' = pos
         \/ pc' \in {"exited", "crashed"} /\ (pc = "preprocess" => ~Plain)
         \/ pc \notin {"preprocess", "parse", "exited", "crashed"} /\ pc' \notin {"preprocess", "parse"}
  PROVE  TInv'
<1>1. Plain' <=> Plain
  BY FileKept
<1>2. UsedOneWay' <=> UsedOneWay
  BY FileKept
<1>3. TypesTyped'
  BY DEF TInv, TypesTyped
<1>4. TypesListed'
  BY <1>1 DEF TInv, TypesListed
<1>5. Past' => Past /\ \A i : Parsed(i)' <=> Parsed(i)
  BY DEF Past, Parsed
<1>6. TypesFilled'
  BY <1>1, <1>5 DEF TInv, TypesFilled, TypeOf
<1>7. AttrsFilled'
  BY <1>1, <1>5 DEF TInv, AttrsFilled, AttrsOf, AttrOf
<1>8. ListsMarked'
  BY <1>1, <1>2, <1>5 DEF TInv, ListsMarked, Marked
<1> QED
  BY <1>3, <1>4, <1>6, <1>7, <1>8 DEF TInv

LEMMA TypesIndex ==
  ASSUME TInv, SInv
  PROVE  /\ Len(types) \in Nat /\ DOMAIN types = 1 .. Len(types)
         /\ Len(file) \in Nat /\ DOMAIN file = 1 .. Len(file)
         /\ Len(entities) \in Nat /\ DOMAIN entities = 1 .. Len(entities)
BY TypesFacts, FileFacts DEF TInv, SInv

LEMMA scan_error_TInv ==
  ASSUME TInv, SInv, scan_error
  PROVE  TInv'
<1>0. /\ UNCHANGED <<file, types, entities>> /\ pc = "preprocess" /\ pos <= Len(file) /\ file[pos].kind = "error"
      /\ (pc' = pc /\ pos' = pos + 1) \/ pc' = "exited"
  BY DEF scan_error, Goto, More, Item
<1>1. ~Plain /\ pos \in Nat
  BY <1>0, FileFacts, PlainItems DEF SInv, SchemaTypes
<1>2. CASE pc' = "exited"
  BY <1>0, <1>1, <1>2, FrozenTInv
<1>3. CASE pc' = pc /\ pos' = pos + 1
  <2>1. ~Plain'
    BY <1>0, <1>1, FileKept
  <2>2. TypesTyped'
    BY <1>0, <1>1, <1>3, TypesIndex DEF TInv, TypesTyped
  <2> QED
    BY <2>1, <2>2 DEF TInv, TypesListed, TypesFilled, AttrsFilled, ListsMarked
<1> QED
  BY <1>0, <1>2, <1>3

LEMMA end_scan_TInv ==
  ASSUME TInv, SInv, end_scan
  PROVE  TInv'
<1>0. /\ UNCHANGED <<file, types, entities>> /\ pc = "preprocess" /\ ~(pos <= Len(file))
      /\ pc' = "parse" /\ pos' = 1
  BY DEF end_scan, Goto, More
<1>p. Plain' <=> Plain
  BY <1>0, FileKept
<1>1. TypesTyped'
  BY <1>0 DEF TInv, TypesTyped
<1>2. TypesListed'
  <2>1. \A i \in DOMAIN file : i < pos
    BY <1>0, FileFacts DEF SInv, SchemaTypes
  <2> QED
    BY <1>0, <1>p, <2>1 DEF TInv, TypesListed
<1>3. \A i : ~Parsed(i)'
  BY <1>0, TypesIndex DEF Parsed
<1> QED
  BY <1>1, <1>2, <1>3 DEF TInv, TypesFilled, AttrsFilled, ListsMarked

LEMMA skip_item_TInv ==
  ASSUME TInv, SInv, skip_item
  PROVE  TInv'
<1>0. /\ UNCHANGED <<file, types, entities>> /\ pc = "parse" /\ pos <= Len(file) /\ ~file[pos].lex
      /\ pc' = pc /\ pos' = pos + 1
  BY DEF skip_item, More, Item
<1>1. ~Plain'
  BY <1>0, FileFacts, PlainItems, FileKept DEF SInv, SchemaTypes
<1>2. TypesTyped'
  BY <1>0 DEF TInv, TypesTyped
<1> QED
  BY <1>1, <1>2 DEF TInv, TypesListed, TypesFilled, AttrsFilled, ListsMarked

LEMMA end_parse_TInv ==
  ASSUME TInv, SInv, end_parse
  PROVE  TInv'
<1>0. /\ UNCHANGED <<file, types, entities>> /\ pc = "parse"
      /\ pos <= Len(file) => file[pos].kind = "error"
      /\ pc' \in {"ready", "crashed"}
  BY DEF end_parse, Goto, More, Item
<1>p. (Plain' <=> Plain) /\ (UsedOneWay' <=> UsedOneWay)
  BY <1>0, FileKept
<1>1. TypesTyped'
  BY <1>0 DEF TInv, TypesTyped
<1>2. TypesListed'
  BY <1>0, <1>p DEF TInv, TypesListed
<1>3. Plain => Past /\ \A i : Parsed(i)' <=> Parsed(i)
  BY <1>0, FileFacts, PlainItems DEF SInv, SchemaTypes, Past, Parsed
<1>4. TypesFilled'
  BY <1>0, <1>p, <1>3 DEF TInv, TypesFilled, TypeOf
<1>5. AttrsFilled'
  BY <1>0, <1>p, <1>3 DEF TInv, AttrsFilled, AttrsOf, AttrOf
<1>6. ListsMarked'
  BY <1>0, <1>p, <1>3 DEF TInv, ListsMarked, Marked
<1> QED
  BY <1>1, <1>2, <1>4, <1>5, <1>6 DEF TInv

LEMMA scan_item_TInv ==
  ASSUME TInv, SInv, scan_item
  PROVE  TInv'
<1>0. /\ UNCHANGED <<file, pc>>
      /\ pc = "preprocess" /\ pos <= Len(file) /\ pos' = pos + 1
      /\ types' = IF file[pos].kind = "type" /\ file[pos].scan # None
                  THEN Append(types, new_type(file[pos].scan)) ELSE types
  BY DEF scan_item, More, Item
<1>t. /\ pos \in Nat \ {0} /\ pos \in DOMAIN file /\ Len(types) < pos
      /\ Len(types) \in Nat /\ DOMAIN types = 1 .. Len(types)
      /\ Len(file) \in Nat /\ DOMAIN file = 1 .. Len(file)
      /\ types \in Seq(Elements(types))
  BY <1>0, FileFacts, TypesIndex DEF SInv, SchemaTypes, TInv, TypesTyped
<1>p. Plain' <=> Plain
  BY <1>0, FileKept
<1>i. \A i \in DOMAIN file : i < pos + 1 <=> (i < pos \/ i = pos)
  BY <1>t
<1>3. TypesFilled' /\ AttrsFilled' /\ ListsMarked'
  <2>1. ~Past'
    BY <1>0 DEF Past
  <2> QED
    BY <2>1 DEF TypesFilled, AttrsFilled, ListsMarked
<1>7. CASE ~(file[pos].kind = "type" /\ file[pos].scan # None)
  <2>0. types' = types
    BY <1>0, <1>7
  <2>1. TypesTyped'
    <3>1. Len(types) < pos + 1
      BY <1>t
    <3> QED
      BY <1>0, <3>1, <2>0 DEF TInv, TypesTyped
  <2>2. TypesListed'
    <3>1. Plain => file[pos].kind # "type"
      BY <1>7, <1>t, PlainItems, FileFacts DEF SInv
    <3> QED
      BY <1>0, <1>p, <1>i, <2>0, <3>1 DEF TInv, TypesListed
  <2> QED
    BY <2>1, <2>2, <1>3 DEF TInv
<1>8. CASE file[pos].kind = "type" /\ file[pos].scan # None
  <2> DEFINE e == new_type(file[pos].scan)
             L == Len(types)
  <2>0. /\ types' \in Seq(Elements(types')) /\ Len(types') = L + 1
        /\ DOMAIN types' = 1 .. (L + 1)
        /\ \A i \in 1 .. L : types'[i] = types[i]
        /\ types'[L + 1] = e
    <3>1. types' = Append(types, e)
      BY <1>0, <1>8
    <3>2. types \in Seq(Elements(types))
      BY <1>t
    <3> HIDE DEF e
    <3>3. /\ Append(types, e) \in Seq(Elements(Append(types, e))) /\ Len(Append(types, e)) = L + 1
          /\ DOMAIN Append(types, e) = 1 .. (L + 1)
          /\ \A i \in 1 .. L : Append(types, e)[i] = types[i]
          /\ Append(types, e)[L + 1] = e
      BY <3>2, AppendAny
    <3> QED
      BY <3>1, <3>3, Zenon
  <2>e. /\ e.name = file[pos].scan /\ e.ref = 0 /\ e \in Type(e)
    BY DEF new_type, Type
  <2>1. TypesTyped'
    <3>1. ASSUME NEW k \in DOMAIN types'
          PROVE  types'[k] \in Type(types'[k]) /\ types'[k].ref <= L + 1
      <4>1. CASE k = L + 1
        BY <2>0, <2>e, <1>t, <4>1
      <4>2. CASE k \in 1 .. L
        <5>1. types'[k] = types[k] /\ k \in DOMAIN types
          BY <4>2, <2>0, <1>t
        <5>2. types[k].ref \in 0 .. L
          BY <5>1, TypesFacts DEF TInv, SInv
        <5>3. types[k].ref <= L + 1
          BY <5>2, <1>t
        <5> QED
          BY <5>1, <5>3 DEF TInv, TypesTyped
      <4> QED
        BY <2>0, <1>t, <4>1, <4>2
    <3>2. L + 1 < pos' /\ L + 1 <= Len(file)
      BY <1>0, <1>t
    <3> HIDE DEF L
    <3> QED
      BY <1>0, <2>0, <3>1, <3>2 DEF TInv, TypesTyped
  <2>2. TypesListed'
    <3> SUFFICES ASSUME Plain PROVE TypesListed'
      BY <1>p DEF TypesListed
    <3>0. file[pos].scan = file[pos].name
      BY <1>t, PlainItems
    <3>1. \A k \in DOMAIN types : \E i \in DOMAIN file :
             file[i].kind = "type" /\ file[i].name = types[k].name /\ i < pos
      BY <1>0 DEF TInv, TypesListed
    <3>2. \A k \in DOMAIN types : types[k].name # file[pos].name
      <4>1. \A i \in DOMAIN file : i < pos => i # pos
        BY <1>t
      <4> QED
        BY <3>1, <4>1, <1>t, PlainItems
    <3>3. \A k \in DOMAIN types' : (k \in DOMAIN types /\ types'[k] = types[k])
                                      \/ (k = L + 1 /\ types'[k].name = file[pos].name)
      BY <2>0, <1>t, <2>e, <3>0
    <3>4. \A j, k \in DOMAIN types' : types'[j].name = types'[k].name => j = k
      BY <3>3, <3>2 DEF TInv, TypesListed
    <3>5. \A k \in DOMAIN types' : \E i \in DOMAIN file :
             file[i].kind = "type" /\ file[i].name = types'[k].name /\ i < pos + 1
      BY <3>3, <3>1, <1>8, <1>t, <1>i
    <3>6. DOMAIN types \subseteq DOMAIN types' /\ L + 1 \in DOMAIN types'
          /\ types'[L + 1].name = file[pos].name
      BY <2>0, <1>t, <2>e, <3>0
    <3>7. \A i \in DOMAIN file : file[i].kind = "type" /\ i < pos + 1 =>
             \E k \in DOMAIN types' : types'[k].name = file[i].name
      <4> SUFFICES ASSUME NEW i \in DOMAIN file, file[i].kind = "type", i < pos + 1
                   PROVE  \E k \in DOMAIN types' : types'[k].name = file[i].name
        OBVIOUS
      <4>1. CASE i = pos
        BY <4>1, <3>6
      <4>2. CASE i < pos
        <5>1. PICK k \in DOMAIN types : types[k].name = file[i].name
          BY <4>2, <1>0 DEF TInv, TypesListed
        <5> QED
          BY <5>1, <3>6, <2>0, <1>t
      <4> QED
        BY <4>1, <4>2, <1>i
    <3> HIDE DEF L, e
    <3> QED
      BY <1>0, <3>4, <3>5, <3>7 DEF TypesListed
  <2> QED
    BY <2>1, <2>2, <1>3 DEF TInv
<1> QED
  BY <1>7, <1>8

\* UsedOneWay, item by item.
LEMMA OneWay ==
  ASSUME UsedOneWay, NEW i \in DOMAIN file, file[i].kind = "type"
  PROVE  \/ \A j \in DOMAIN file : file[j].kind = "entity" =>
              \A m \in DOMAIN file[j].attrs : file[j].attrs[m].ref = file[i].name =>
                file[j].attrs[m].list = file[i].list
         \/ /\ \A j \in DOMAIN file : file[j].kind = "entity" =>
                 \A m \in DOMAIN file[j].attrs : file[j].attrs[m].ref = file[i].name =>
                   i < j /\ file[j].attrs[m].list
            /\ \A d \in Declared("type") : d.base = "DERIVED" => d.refs[1] # file[i].name
<1> DEFINE Uses(j) == {a \in Elements(file[j].attrs) : a.ref = file[i].name}
           Users == {j \in DOMAIN file : file[j].kind = "entity" /\ Uses(j) # {}}
<1>1. \/ \A j \in Users : \A a \in Uses(j) : a.list = file[i].list
      \/ /\ \A j \in Users : i < j /\ \A a \in Uses(j) : a.list
         /\ \A d \in Declared("type") : d.base = "DERIVED" => d.refs[1] # file[i].name
  BY DEF UsedOneWay
<1>2. ASSUME NEW j \in DOMAIN file, file[j].kind = "entity", NEW m \in DOMAIN file[j].attrs,
             file[j].attrs[m].ref = file[i].name
      PROVE  j \in Users /\ file[j].attrs[m] \in Uses(j)
  BY <1>2 DEF Elements
<1> HIDE DEF Uses, Users
<1> QED
  BY <1>1, <1>2

\* What init_type() does to the array.
LEMMA init_type_Facts ==
  ASSUME TInv, SInv, init_type
  PROVE  /\ UNCHANGED <<file, entities>>
         /\ pc = "parse" /\ pos <= Len(file) /\ file[pos].kind = "type"
         /\ \/ pc' \in {"exited", "crashed"} /\ types' = types
            \/ /\ pc' = pc /\ pos' = pos + 1
               /\ types' \in Seq(Elements(types')) /\ Len(types') = Len(types)
               /\ DOMAIN types' = DOMAIN types
               /\ \A k \in DOMAIN types :
                    /\ types'[k] \in Type(types'[k]) /\ types'[k].ref <= Len(types)
                    /\ types'[k].name = types[k].name
                    /\ k # id_index(types, file[pos].name) => types'[k] = types[k]
                    /\ k = id_index(types, file[pos].name) =>
                         /\ types'[k].base = file[pos].base /\ types'[k].list = file[pos].list
                         /\ file[pos].base = "DERIVED" =>
                              types'[k].ref = find_by_name(types, file[pos].refs[1])
<1> DEFINE id == id_index(types, file[pos].name)
           r  == IF file[pos].base = "DERIVED" THEN find_by_name(types, file[pos].refs[1])
                 ELSE types[id].ref
           sl == IF file[pos].base = "SELECT"
                 THEN [i \in DOMAIN file[pos].refs |-> find_by_name(types, file[pos].refs[i])]
                 ELSE types[id].select
           d  == [types[id] EXCEPT !.base = file[pos].base, !.list = file[pos].list, !.ref = r,
                                   !.select = sl]
<1>1. /\ UNCHANGED <<file, entities>>
      /\ pc = "parse" /\ pos <= Len(file) /\ file[pos].kind = "type"
      /\ \/ pc' \in {"exited", "crashed"} /\ types' = types
         \/ pc' = pc /\ pos' = pos + 1 /\ types' = [types EXCEPT ![id] = d]
  BY DEF init_type, Goto, More, Item
<1>t. /\ Len(types) \in Nat /\ DOMAIN types = 1 .. Len(types)
      /\ types \in Seq(Elements(types)) /\ pos \in DOMAIN file
      /\ \A k \in DOMAIN types : types[k] \in Type(types[k]) /\ types[k].ref \in 0 .. Len(types)
                                    /\ types[k].ref <= Len(types)
  BY <1>1, FileFacts, TypesFacts DEF SInv, SchemaTypes, TInv, TypesTyped
<1>2. CASE pc' \in {"exited", "crashed"} /\ types' = types
  BY <1>1, <1>2
<1>3. CASE pc' = pc /\ pos' = pos + 1 /\ types' = [types EXCEPT ![id] = d]
  <2>1. ASSUME id \in DOMAIN types
        PROVE  /\ d \in Type(d) /\ d.ref <= Len(types) /\ d.name = types[id].name
               /\ d.base = file[pos].base /\ d.list = file[pos].list /\ d.ref = r
    <3>1. types[id] \in Type(types[id])
      BY <1>t, <2>1
    <3>2. r \in 0 .. Len(types)
      BY <1>t, <2>1, FindFacts
    <3>3. file[pos].list \in BOOLEAN
      BY <1>1, <1>t, FlagFacts DEF SInv
    <3> HIDE DEF id, r, sl
    <3>4. d = [types[id] EXCEPT !.base = file[pos].base, !.list = file[pos].list, !.ref = r,
                                !.select = sl]
      OBVIOUS
    <3> HIDE DEF d
    <3>5. d = [name |-> types[id].name, base |-> file[pos].base, ref |-> r, list |-> file[pos].list,
               select |-> sl]
      BY <3>1, <3>4 DEF Type
    <3>6. d \in Type(d)
      BY <3>2, <3>3, <3>5 DEF Type
    <3>7. d.ref <= Len(types)
      BY <3>2, <3>5, <1>t
    <3> QED
      BY <3>5, <3>6, <3>7
  <2>r. file[pos].base = "DERIVED" => r = find_by_name(types, file[pos].refs[1])
    OBVIOUS
  <2> HIDE DEF id, r, d
  <2>2. /\ types' = [i \in 1 .. Len(types) |-> types'[i]]
        /\ DOMAIN types' = DOMAIN types
        /\ \A k \in DOMAIN types : (k # id => types'[k] = types[k]) /\ (k = id => types'[k] = d)
    BY <1>3, <1>t
  <2>3. types' \in Seq(Elements(types')) /\ Len(types') = Len(types)
    BY <2>2, <1>t, FunctionIsSeq
  <2>4. \A k \in DOMAIN types :
          /\ types'[k] \in Type(types'[k]) /\ types'[k].ref <= Len(types)
          /\ types'[k].name = types[k].name
          /\ k # id => types'[k] = types[k]
          /\ k = id => /\ types'[k].base = file[pos].base /\ types'[k].list = file[pos].list
                       /\ file[pos].base = "DERIVED" =>
                            types'[k].ref = find_by_name(types, file[pos].refs[1])
    BY <2>1, <2>2, <2>r, <1>t
  <2> QED
    BY <1>1, <1>3, <2>2, <2>3, <2>4 DEF id
<1> QED
  BY <1>1, <1>2, <1>3

LEMMA init_type_TInv ==
  ASSUME TInv, SInv, init_type
  PROVE  TInv'
<1>0. UNCHANGED <<file, entities>> /\ pc = "parse" /\ pos <= Len(file) /\ file[pos].kind = "type"
  BY init_type_Facts
<1>7. CASE pc' \in {"exited", "crashed"} /\ types' = types
  BY <1>0, <1>7, FrozenTInv
<1>8. CASE ~(pc' \in {"exited", "crashed"} /\ types' = types)
  <2> DEFINE id == id_index(types, file[pos].name)
  <2>1. /\ pc' = pc /\ pos' = pos + 1
        /\ types' \in Seq(Elements(types')) /\ Len(types') = Len(types)
        /\ DOMAIN types' = DOMAIN types
        /\ \A k \in DOMAIN types :
             /\ types'[k] \in Type(types'[k]) /\ types'[k].ref <= Len(types)
             /\ types'[k].name = types[k].name
             /\ k # id => types'[k] = types[k]
             /\ k = id => /\ types'[k].base = file[pos].base /\ types'[k].list = file[pos].list
                          /\ file[pos].base = "DERIVED" =>
                               types'[k].ref = find_by_name(types, file[pos].refs[1])
    BY <1>8, init_type_Facts
  <2>t. /\ pos \in Nat \ {0} /\ pos \in DOMAIN file
        /\ Len(types) \in Nat /\ DOMAIN types = 1 .. Len(types)
        /\ Len(file) \in Nat /\ DOMAIN file = 1 .. Len(file)
    BY <1>0, FileFacts, TypesIndex DEF SInv, SchemaTypes
  <2>p. (Plain' <=> Plain) /\ (UsedOneWay' <=> UsedOneWay)
    BY <1>0, FileKept
  <2>2. TypesTyped'
    BY <1>0, <2>1 DEF TInv, TypesTyped
  <2>3. TypesListed'
    BY <1>0, <2>1, <2>p DEF TInv, TypesListed
  <2>i. \A i : Parsed(i)' <=> Parsed(i) \/ i = pos
    BY <1>0, <2>1, <2>t DEF Parsed
  <2>q. Past /\ \A i : Parsed(i) => i \in DOMAIN file /\ i # pos
    BY <1>0, <2>t DEF Past, Parsed
  <2>u. ASSUME Plain
        PROVE  /\ id \in DOMAIN types /\ types[id].name = file[pos].name
               /\ \A j, k \in DOMAIN types : types[j].name = types[k].name => j = k
    <3>1. PICK k \in DOMAIN types : types[k].name = file[pos].name
      BY <1>0, <2>t, <2>u DEF TInv, TypesListed
    <3>2. \A j, l \in DOMAIN types : types[j].name = types[l].name => j = l
      BY <2>u DEF TInv, TypesListed
    <3>3. id = k
      <4>1. \A j \in 1 .. Len(types) : types[j].name = file[pos].name => j = k
        BY <3>1, <3>2, <2>t
      <4>2. k \in 1 .. Len(types) /\ types[k].name = file[pos].name /\ Len(types) \in Nat
        BY <3>1, <2>t
      <4> QED
        BY <4>1, <4>2, FindUnique
    <3> QED
      BY <3>1, <3>2, <3>3
  <2> HIDE DEF id
  <2>k. ASSUME Plain, NEW i, Parsed(i), NEW k \in DOMAIN types, types[k].name = file[i].name
        PROVE  k # id /\ types'[k] = types[k]
    <3>1. file[i].name # file[pos].name
      BY <2>k, <2>q, <2>t, PlainItems
    <3> QED
      BY <3>1, <2>k, <2>u, <2>1
  <2>4. TypesFilled'
    <3> SUFFICES ASSUME Plain, NEW i, Parsed(i)', file[i].kind = "type",
                        NEW k \in DOMAIN types, types[k].name = file[i].name
                 PROVE  TypeOf(k, file[i])'
      BY <1>0, <2>1, <2>p DEF TypesFilled
    <3>1. CASE Parsed(i)
      <4>1. types'[k] = types[k] /\ TypeOf(k, file[i])
        BY <3>1, <2>k, <2>q DEF TInv, TypesFilled
      <4> QED
        BY <4>1, <2>1, <1>0 DEF TypeOf
    <3>2. CASE i = pos
      <4>1. k = id
        BY <3>2, <2>u
      <4>2. ASSUME file[pos].base = "DERIVED", NEW l \in DOMAIN types
            PROVE  types[l].name = file[pos].refs[1] <=> types'[k].ref = l
        <5>1. types'[k].ref = find_by_name(types, file[pos].refs[1])
          BY <2>1, <4>1, <4>2
        <5>2. l # 0
          BY <2>t
        <5>3. types[l].name = file[pos].refs[1] => find_by_name(types, file[pos].refs[1]) = l
          <6> SUFFICES ASSUME types[l].name = file[pos].refs[1]
                       PROVE  find_by_name(types, file[pos].refs[1]) = l
            OBVIOUS
          <6>1. \A j \in 1 .. Len(types) : types[j].name = file[pos].refs[1] => j = l
            BY <2>u, <2>t
          <6>2. l \in 1 .. Len(types) /\ Len(types) \in Nat
            BY <2>t
          <6> QED
            BY <6>1, <6>2, FindUnique
        <5>4. find_by_name(types, file[pos].refs[1]) = l => types[l].name = file[pos].refs[1]
          BY <2>t, <5>2, FindFacts
        <5> QED
          BY <5>1, <5>3, <5>4
      <4>3. types'[k].base = file[pos].base
        BY <2>1, <4>1
      <4>4. \A l \in DOMAIN types : types'[l].name = types[l].name
        BY <2>1
      <4> QED
        BY <1>0, <3>2, <2>1, <4>2, <4>3, <4>4 DEF TypeOf
    <3> QED
      BY <2>i, <3>1, <3>2
  <2>5. AttrsFilled'
    <3>1. ASSUME Plain, NEW i, Parsed(i)', file[i].kind = "entity",
                 NEW k \in DOMAIN entities, entities[k].name = file[i].name
          PROVE  AttrsOf(k, file[i])
      <4>1. Parsed(i)
        BY <3>1, <1>0, <2>i
      <4> QED
        BY <3>1, <4>1, <2>q DEF TInv, AttrsFilled
    <3>2. \A k, d : AttrsOf(k, d) => AttrsOf(k, d)'
      BY <1>0, <2>1 DEF AttrsOf, AttrOf
    <3> QED
      BY <1>0, <2>p, <3>1, <3>2 DEF AttrsFilled
  <2>6. ListsMarked'
    <3> SUFFICES ASSUME Plain, UsedOneWay, NEW i, Parsed(i)', file[i].kind = "type",
                        NEW k \in DOMAIN types, types[k].name = file[i].name
                 PROVE  types'[k].list <=> file[i].list \/ Marked(i)
      <4>1. \A i : Marked(i)' <=> Marked(i)
        BY <1>0, <2>i DEF Marked
      <4> QED
        BY <1>0, <2>1, <2>p, <4>1 DEF ListsMarked
    <3>1. CASE Parsed(i)
      <4>1. types'[k] = types[k]
        BY <3>1, <2>k
      <4> QED
        BY <3>1, <4>1, <2>q DEF TInv, ListsMarked
    <3>2. CASE i = pos
      <4>1. k = id
        BY <3>2, <2>u
      <4>2. types'[k].list = file[pos].list
        BY <4>1, <2>1
      <4>3. Marked(pos) => file[pos].list
        <5> SUFFICES ASSUME Marked(pos) PROVE file[pos].list
          OBVIOUS
        <5>1. PICK j \in DOMAIN file : Parsed(j) /\ file[j].kind = "entity" /\
                \E m \in DOMAIN file[j].attrs : file[j].attrs[m].ref = file[pos].name /\ file[j].attrs[m].list
          BY DEF Marked
        <5>2. PICK m \in DOMAIN file[j].attrs : file[j].attrs[m].ref = file[pos].name /\ file[j].attrs[m].list
          BY <5>1
        <5>3. ~(pos < j)
          BY <5>1, <1>0, <2>t DEF Parsed
        <5> QED
          BY <5>1, <5>2, <5>3, <1>0, <2>t, OneWay, Zenon
      <4> QED
        BY <3>2, <4>2, <4>3
    <3> QED
      BY <2>i, <3>1, <3>2
  <2> QED
    BY <2>2, <2>3, <2>4, <2>5, <2>6 DEF TInv
<1> QED
  BY <1>7, <1>8

LEMMA MaxOf ==
  ASSUME NEW n \in Nat, NEW I \in SUBSET (0 .. n), I # {}
  PROVE  Max(I) \in I
<1> DEFINE J == {n - x : x \in I}
<1>1. J \in SUBSET Nat /\ J # {}
  <2>1. \A x \in I : n - x \in Nat
    OBVIOUS
  <2>2. PICK x : x \in I
    OBVIOUS
  <2>3. n - x \in J
    BY <2>2
  <2> QED
    BY <2>1, <2>3
<1>2. PICK y \in J : \A z \in J : y <= z
  <2> HIDE DEF J
  <2> QED
    BY <1>1, LeastNatural
<1>3. PICK x \in I : y = n - x
  BY <1>2
<1>4. \A z \in I : x >= z
  <2> SUFFICES ASSUME NEW z \in I PROVE x >= z
    OBVIOUS
  <2>1. n - z \in J
    OBVIOUS
  <2>2. n - x <= n - z
    BY <2>1, <1>2, <1>3
  <2> QED
    BY <2>2
<1> QED
  BY <1>4 DEF Max

\* The last attribute of type t.
LEMMA LastFacts ==
  ASSUME NEW s, Len(s) \in Nat, NEW t, NEW u,
         u = LET I == {i \in 1 .. Len(s) : s[i].type = t} IN IF I # {} THEN Max(I) ELSE 0
  PROVE  /\ u = 0 => \A k \in 1 .. Len(s) : s[k].type # t
         /\ u # 0 => u \in 1 .. Len(s) /\ s[u].type = t
<1> DEFINE I == {i \in 1 .. Len(s) : s[i].type = t}
<1>1. u = IF I # {} THEN Max(I) ELSE 0
  OBVIOUS
<1>2. I \in SUBSET (0 .. Len(s))
  OBVIOUS
<1>3. I # {} => Max(I) \in I
  <2> HIDE DEF I
  <2> QED
    BY <1>2, MaxOf
<1>4. CASE I = {}
  BY <1>1, <1>4
<1>5. CASE I # {}
  <2>1. u \in I
    BY <1>1, <1>3, <1>5
  <2> QED
    BY <2>1
<1> QED
  BY <1>4, <1>5

\* What init_entity() does to the types it finds in the attributes.
LEMMA MarkFacts ==
  ASSUME TInv, SInv, NEW as, as \in Seq(Elements(as)),
         \A j \in DOMAIN as : as[j].list \in BOOLEAN, types' = mark_lists(as)
  PROVE  /\ types' \in Seq(Elements(types')) /\ Len(types') = Len(types)
         /\ DOMAIN types' = DOMAIN types
         /\ \A k \in DOMAIN types :
              /\ types'[k] \in Type(types'[k])
              /\ types'[k].name = types[k].name /\ types'[k].base = types[k].base
              /\ types'[k].ref = types[k].ref
              /\ \/ types'[k].list = types[k].list /\ \A j \in DOMAIN as : as[j].type # k
                 \/ \E j \in DOMAIN as : as[j].type = k /\ types'[k].list = as[j].list
<1> DEFINE U(k) == SelectLastInSeq(as, LAMBDA a : a.type = k)
           L(k) == IF U(k) = 0 THEN types[k].list ELSE as[U(k)].list
<1>t. /\ Len(types) \in Nat /\ DOMAIN types = 1 .. Len(types)
      /\ \A k \in DOMAIN types : types[k] \in Type(types[k]) /\ types[k].list \in BOOLEAN
      /\ Len(as) \in Nat /\ DOMAIN as = 1 .. Len(as)
  BY TypesFacts, SeqFacts DEF TInv, TypesTyped, SInv
<1>1. \A k \in DOMAIN types :
        \/ L(k) = types[k].list /\ \A j \in DOMAIN as : as[j].type # k
        \/ \E j \in DOMAIN as : as[j].type = k /\ L(k) = as[j].list
  <2> SUFFICES ASSUME NEW k \in DOMAIN types
               PROVE  \/ L(k) = types[k].list /\ \A j \in DOMAIN as : as[j].type # k
                      \/ \E j \in DOMAIN as : as[j].type = k /\ L(k) = as[j].list
    OBVIOUS
  <2>1. /\ U(k) = 0 => \A j \in 1 .. Len(as) : as[j].type # k
        /\ U(k) # 0 => U(k) \in 1 .. Len(as) /\ as[U(k)].type = k
    <3>1. U(k) = LET I == {i \in 1 .. Len(as) : as[i].type = k} IN IF I # {} THEN Max(I) ELSE 0
      BY DEF SelectLastInSeq
    <3> HIDE DEF U
    <3> QED
      BY <3>1, <1>t, LastFacts
  <2> HIDE DEF U
  <2> QED
    BY <2>1, <1>t
<1>2. \A k \in DOMAIN types : L(k) \in BOOLEAN
  <2> SUFFICES ASSUME NEW k \in DOMAIN types PROVE L(k) \in BOOLEAN
    OBVIOUS
  <2> HIDE DEF L
  <2> QED
    BY <1>1, <1>t
<1>3. types' = [k \in DOMAIN types |-> [types[k] EXCEPT !.list = L(k)]]
  BY DEF mark_lists
<1> HIDE DEF L
<1>4. ASSUME NEW k \in DOMAIN types
      PROVE  /\ types'[k] \in Type(types'[k])
             /\ types'[k].name = types[k].name /\ types'[k].base = types[k].base
             /\ types'[k].ref = types[k].ref /\ types'[k].list = L(k)
  <2>1. types'[k] = [types[k] EXCEPT !.list = L(k)]
    BY <1>3
  <2>2. types[k] \in Type(types[k]) /\ types[k].ref \in Nat
    BY <1>t DEF Type
  <2>3. types'[k] = [name |-> types[k].name, base |-> types[k].base, ref |-> types[k].ref, list |-> L(k),
                     select |-> types[k].select]
    BY <2>1, <2>2 DEF Type
  <2> QED
    BY <2>2, <2>3, <1>2 DEF Type
<1>5. types' = [k \in 1 .. Len(types) |-> types'[k]] /\ DOMAIN types' = DOMAIN types
  BY <1>3, <1>t
<1>6. types' \in Seq(Elements(types')) /\ Len(types') = Len(types)
  BY <1>5, <1>t, FunctionIsSeq
<1>7. \A k \in DOMAIN types :
        \/ types'[k].list = types[k].list /\ \A j \in DOMAIN as : as[j].type # k
        \/ \E j \in DOMAIN as : as[j].type = k /\ types'[k].list = as[j].list
  <2> SUFFICES ASSUME NEW k \in DOMAIN types
               PROVE  \/ types'[k].list = types[k].list /\ \A j \in DOMAIN as : as[j].type # k
                      \/ \E j \in DOMAIN as : as[j].type = k /\ types'[k].list = as[j].list
    OBVIOUS
  <2>1. types'[k].list = L(k)
    BY <1>4
  <2>2. \/ L(k) = types[k].list /\ \A j \in DOMAIN as : as[j].type # k
        \/ \E j \in DOMAIN as : as[j].type = k /\ L(k) = as[j].list
    BY <1>1
  <2> QED
    BY <2>1, <2>2
<1> QED
  BY <1>4, <1>5, <1>6, <1>7, Zenon

\* attr_type() finds the type an attribute names.
LEMMA AttrFacts ==
  ASSUME TInv, SInv, NEW a
  PROVE  /\ attr_type(a).list = a.list
         /\ Plain /\ pc # "preprocess" => AttrOf(attr_type(a), a)
<1>t. Len(types) \in Nat /\ DOMAIN types = 1 .. Len(types)
  BY TypesIndex
<1> DEFINE f == find_by_name(types, a.ref)
<1>1. /\ f \in 0 .. Len(types)
      /\ f # 0 => types[f].name = a.ref
      /\ \A k \in 1 .. Len(types) : types[k].name = a.ref => f # 0
  BY <1>t, FindFacts
<1>2. attr_type(a) = CASE a.ref = None -> [type |-> 0, base |-> a.base, list |-> a.list, entity |-> 0]
                       [] a.ref # None /\ f # 0 -> [type |-> f, base |-> a.base, list |-> a.list, entity |-> 0]
                       [] OTHER -> [type |-> 0, base |-> "REFERENCE", list |-> a.list,
                                     entity |-> find_by_name(entities, a.ref)]
  BY DEF attr_type
<1> HIDE DEF f
<1>3. CASE a.ref = None
  <2>1. attr_type(a) = [type |-> 0, base |-> a.base, list |-> a.list, entity |-> 0]
    BY <1>2, <1>3
  <2> QED
    BY <2>1, <1>3, <1>t DEF AttrOf
<1>4. CASE a.ref # None /\ f # 0
  <2>1. attr_type(a) = [type |-> f, base |-> a.base, list |-> a.list, entity |-> 0]
    BY <1>2, <1>4
  <2>2. ASSUME Plain, NEW l \in DOMAIN types PROVE f = l <=> types[l].name = a.ref
    BY <1>1, <1>4, <1>t, <2>2 DEF TInv, TypesListed
  <2> QED
    BY <2>1, <2>2, <1>1, <1>4 DEF AttrOf
<1>5. CASE a.ref # None /\ f = 0
  <2>1. attr_type(a) = [type |-> 0, base |-> "REFERENCE", list |-> a.list,
                        entity |-> find_by_name(entities, a.ref)]
    BY <1>2, <1>5
  <2> QED
    BY <2>1, <1>1, <1>5, <1>t DEF AttrOf
<1> QED
  BY <1>3, <1>4, <1>5

\* init_entity() also fills in the attributes, and marks the types they name.
LEMMA init_entity_Attrs ==
  ASSUME TInv, SInv, Inv, init_entity, pc' = pc
  PROVE  \E as :
           /\ as = [i \in DOMAIN file[pos].attrs |-> attr_type(file[pos].attrs[i])]
           /\ as \in Seq(Elements(as)) /\ \A j \in DOMAIN as : as[j].list \in BOOLEAN
           /\ types' = mark_lists(as)
           /\ id_index(entities, file[pos].name) \in DOMAIN entities =>
                entities'[id_index(entities, file[pos].name)].attrs = as
<1> DEFINE id == id_index(entities, file[pos].name)
           as == [i \in DOMAIN file[pos].attrs |-> attr_type(file[pos].attrs[i])]
           ss == [i \in DOMAIN file[pos].subs |-> find_by_name(entities, file[pos].subs[i])]
           up == IF file[pos].super = None THEN entities[id].super
                 ELSE find_by_name(entities, file[pos].super)
           d  == [entities[id] EXCEPT !.set = TRUE, !.attrs = as, !.subs = ss, !.super = up]
<1>0. pc = "parse" /\ pos <= Len(file) /\ file[pos].kind = "entity"
  BY init_entity_Facts
<1>1. types' = mark_lists(as) /\ entities' = [entities EXCEPT ![id] = d]
  BY <1>0 DEF init_entity, Goto, More, Item
<1>2. pos \in DOMAIN file
  BY <1>0, FileFacts DEF SInv, SchemaTypes
<1>3. file[pos].attrs \in Seq(Elements(file[pos].attrs)) /\
      \A m \in DOMAIN file[pos].attrs : file[pos].attrs[m].list \in BOOLEAN
  BY <1>0, <1>2, FlagFacts DEF SInv
<1>4. as \in Seq(Elements(as))
  <2>1. Len(file[pos].attrs) \in Nat /\ DOMAIN file[pos].attrs = 1 .. Len(file[pos].attrs)
    BY <1>3, SeqFacts
  <2>2. as = [i \in 1 .. Len(file[pos].attrs) |-> as[i]]
    BY <2>1
  <2> HIDE DEF as
  <2> QED
    BY <2>1, <2>2, FunctionIsSeq
<1>5. \A j \in DOMAIN as : as[j].list \in BOOLEAN
  BY <1>3, AttrFacts
<1>6. id \in DOMAIN entities => entities'[id].attrs = as
  <2> SUFFICES ASSUME id \in DOMAIN entities PROVE entities'[id].attrs = as
    OBVIOUS
  <2>1. entities[id] \in Descriptor(entities[id])
    BY DEF SInv, SchemaTypes
  <2> HIDE DEF id, as, ss, up
  <2>2. entities'[id] = [entities[id] EXCEPT !.set = TRUE, !.attrs = as, !.subs = ss, !.super = up]
    BY <1>1
  <2> QED
    BY <2>1, <2>2 DEF Descriptor
<1> HIDE DEF id
<1>7. as = [i \in DOMAIN file[pos].attrs |-> attr_type(file[pos].attrs[i])]
  OBVIOUS
<1> HIDE DEF as
<1> QED
  BY <1>1, <1>4, <1>5, <1>6, <1>7 DEF id

LEMMA init_entity_TInv ==
  ASSUME TInv, SInv, Inv, init_entity
  PROVE  TInv'
<1>0. UNCHANGED file /\ pc = "parse" /\ pos <= Len(file) /\ file[pos].kind = "entity"
  BY init_entity_Facts
<1>7. CASE pc' = "crashed"
  <2>1. types' = types
    BY <1>7, <1>0 DEF init_entity
  <2>2. entities' = entities
    BY <1>7, <1>0 DEF init_entity
  <2> QED
    BY <1>0, <1>7, <2>1, <2>2, FrozenTInv
<1>8. CASE pc' # "crashed"
  <2> DEFINE id == id_index(entities, file[pos].name)
  <2>1. /\ pc' = pc /\ pos' = pos + 1
        /\ DOMAIN entities' = DOMAIN entities
        /\ \A k \in DOMAIN entities :
             entities'[k].name = entities[k].name /\ (k # id => entities'[k] = entities[k])
    BY <1>8, init_entity_Facts
  <2>2. PICK as :
           /\ as = [i \in DOMAIN file[pos].attrs |-> attr_type(file[pos].attrs[i])]
           /\ as \in Seq(Elements(as)) /\ \A j \in DOMAIN as : as[j].list \in BOOLEAN
           /\ types' = mark_lists(as)
           /\ id \in DOMAIN entities => entities'[id].attrs = as
    BY <2>1, init_entity_Attrs
  <2>3. /\ types' \in Seq(Elements(types')) /\ Len(types') = Len(types)
        /\ DOMAIN types' = DOMAIN types
        /\ \A k \in DOMAIN types :
             /\ types'[k] \in Type(types'[k])
             /\ types'[k].name = types[k].name /\ types'[k].base = types[k].base
             /\ types'[k].ref = types[k].ref
             /\ \/ types'[k].list = types[k].list /\ \A j \in DOMAIN as : as[j].type # k
                \/ \E j \in DOMAIN as : as[j].type = k /\ types'[k].list = as[j].list
    <3>1. as \in Seq(Elements(as)) /\ (\A j \in DOMAIN as : as[j].list \in BOOLEAN) /\ types' = mark_lists(as)
      BY <2>2
    <3> QED
      BY <3>1, MarkFacts, Zenon
  <2>n. /\ types' \in Seq(Elements(types')) /\ Len(types') = Len(types) /\ DOMAIN types' = DOMAIN types
        /\ \A k \in DOMAIN types : types'[k] \in Type(types'[k]) /\ types'[k].name = types[k].name
             /\ types'[k].base = types[k].base /\ types'[k].ref = types[k].ref
    BY <2>3
  <2>t. /\ pos \in Nat \ {0} /\ pos \in DOMAIN file
        /\ Len(types) \in Nat /\ DOMAIN types = 1 .. Len(types)
        /\ Len(file) \in Nat /\ DOMAIN file = 1 .. Len(file)
        /\ Len(entities) \in Nat /\ DOMAIN entities = 1 .. Len(entities)
    BY <1>0, FileFacts, TypesIndex DEF SInv, SchemaTypes
  <2>p. (Plain' <=> Plain) /\ (UsedOneWay' <=> UsedOneWay)
    BY <1>0, FileKept
  <2>i. \A i : Parsed(i)' <=> Parsed(i) \/ i = pos
    BY <1>0, <2>1, <2>t DEF Parsed
  <2>q. Past /\ \A i : Parsed(i) => i \in DOMAIN file /\ i # pos
    BY <1>0, <2>t DEF Past, Parsed
  <2>u. ASSUME Plain
        PROVE  /\ id \in DOMAIN entities /\ entities[id].name = file[pos].name
               /\ \A j, k \in DOMAIN entities : entities[j].name = entities[k].name => j = k
    <3>1. PICK k \in DOMAIN entities : entities[k].name = file[pos].name
      BY <1>0, <2>t, <2>u DEF SInv, Listed
    <3>2. \A j, l \in DOMAIN entities : entities[j].name = entities[l].name => j = l
      BY <2>u DEF SInv, Listed
    <3>3. id = k
      <4>1. \A j \in 1 .. Len(entities) : entities[j].name = file[pos].name => j = k
        BY <3>1, <3>2, <2>t
      <4>2. k \in 1 .. Len(entities) /\ entities[k].name = file[pos].name /\ Len(entities) \in Nat
        BY <3>1, <2>t
      <4> QED
        BY <4>1, <4>2, FindUnique
    <3> QED
      BY <3>1, <3>2, <3>3
  <2> HIDE DEF id
  <2>a. ASSUME Plain, NEW j \in DOMAIN file[pos].attrs
        PROVE  j \in DOMAIN as /\ AttrOf(as[j], file[pos].attrs[j])
    BY <2>a, <2>2, <1>0, AttrFacts
  <2>b. DOMAIN as = DOMAIN file[pos].attrs
    BY <2>2
  <2>4. TypesTyped'
    BY <1>0, <2>1, <2>n DEF TInv, TypesTyped
  <2>5. TypesListed'
    BY <1>0, <2>1, <2>n, <2>p DEF TInv, TypesListed
  <2>6. TypesFilled'
    <3>1. ASSUME Plain, NEW i, Parsed(i)', file[i].kind = "type",
                 NEW k \in DOMAIN types, types[k].name = file[i].name
          PROVE  TypeOf(k, file[i])
      <4>1. Parsed(i)
        BY <3>1, <1>0, <2>i
      <4> QED
        BY <3>1, <4>1, <2>q DEF TInv, TypesFilled
    <3>2. ASSUME NEW k \in DOMAIN types, NEW d, TypeOf(k, d) PROVE TypeOf(k, d)'
      BY <2>n, <3>2 DEF TypeOf
    <3>3. ASSUME Plain, NEW i, Parsed(i)', file[i].kind = "type",
                 NEW k \in DOMAIN types, types[k].name = file[i].name
          PROVE  TypeOf(k, file[i])'
      <4>1. PICK d : d = file[i]
        OBVIOUS
      <4>2. TypeOf(k, d)'
        BY <4>1, <3>1, <3>2, <3>3
      <4> QED
        BY <4>1, <4>2, <1>0
    <3> QED
      BY <1>0, <2>p, <2>n, <3>3 DEF TypesFilled
  <2>7. AttrsFilled'
    <3>0. \A x, a : AttrOf(x, a) => AttrOf(x, a)'
      BY <2>n DEF AttrOf
    <3>1. ASSUME Plain, NEW i, Parsed(i)', file[i].kind = "entity",
                 NEW k \in DOMAIN entities, entities[k].name = file[i].name
          PROVE  AttrsOf(k, file[i])'
      <4>1. CASE Parsed(i)
        <5>1. AttrsOf(k, file[i])
          BY <3>1, <4>1, <2>q DEF TInv, AttrsFilled
        <5>2. k # id
          BY <3>1, <4>1, <2>q, <2>t, <2>u, PlainItems
        <5>3. entities'[k] = entities[k]
          BY <5>2, <2>1
        <5> QED
          BY <5>1, <5>3, <3>0, <1>0 DEF AttrsOf
      <4>2. CASE i = pos
        <5>1. entities'[k].attrs = as
          BY <4>2, <3>1, <2>u, <2>2
        <5>2. PICK d : d = file[i]
          OBVIOUS
        <5>3. DOMAIN as = DOMAIN d.attrs /\ \A j \in DOMAIN d.attrs : AttrOf(as[j], d.attrs[j])
          BY <3>1, <2>a, <2>b, <4>2, <5>2
        <5>4. \A j \in DOMAIN d.attrs : AttrOf(as[j], d.attrs[j])'
          BY <5>3, <3>0
        <5>5. AttrsOf(k, d)'
          BY <5>1, <5>3, <5>4, <2>2 DEF AttrsOf
        <5> QED
          BY <5>2, <5>5, <1>0
      <4> QED
        BY <3>1, <2>i, <4>1, <4>2
    <3> QED
      BY <1>0, <2>1, <2>p, <3>1 DEF AttrsFilled
  <2>8. ListsMarked'
    <3> DEFINE Now(i) == \E m \in DOMAIN file[pos].attrs :
                           file[pos].attrs[m].ref = file[i].name /\ file[pos].attrs[m].list
    <3>m. \A i : Marked(i)' <=> Marked(i) \/ Now(i)
      BY <1>0, <2>i, <2>t DEF Marked
    <3> SUFFICES ASSUME Plain, UsedOneWay, NEW i, Parsed(i)', file[i].kind = "type",
                        NEW k \in DOMAIN types, types[k].name = file[i].name
                 PROVE  types'[k].list <=> file[i].list \/ Marked(i) \/ Now(i)
      <4> HIDE DEF Now
      <4> QED
        BY <1>0, <2>n, <2>p, <3>m DEF ListsMarked
    <3>1. Parsed(i) /\ i \in DOMAIN file
      BY <1>0, <2>i, <2>q
    <3>2. types[k].list <=> file[i].list \/ Marked(i)
      BY <3>1, <2>q DEF TInv, ListsMarked
    <3>3. \A j \in DOMAIN as : as[j].type = k <=> file[pos].attrs[j].ref = file[i].name
      <4> SUFFICES ASSUME NEW j \in DOMAIN as
                   PROVE  as[j].type = k <=> file[pos].attrs[j].ref = file[i].name
        OBVIOUS
      <4>1. as[j].type = k <=> file[pos].attrs[j].ref # None /\ types[k].name = file[pos].attrs[j].ref
        BY <2>a, <2>b DEF AttrOf
      <4>2. file[i].name # None
        BY <3>1, FileFacts DEF SInv
      <4> QED
        BY <4>1, <4>2
    <3>4. \A j \in DOMAIN as : as[j].list = file[pos].attrs[j].list
      BY <2>a, <2>b DEF AttrOf
    <3>5. CASE \A j \in DOMAIN as : as[j].type # k
      <4>1. types'[k].list = types[k].list
        BY <2>3, <3>5
      <4>2. ~Now(i)
        BY <3>5, <3>3, <2>b
      <4> HIDE DEF Now
      <4> QED
        BY <4>1, <4>2, <3>2
    <3>6. CASE \E j \in DOMAIN as : as[j].type = k
      <4>1. PICK j \in DOMAIN as : as[j].type = k /\ types'[k].list = as[j].list
        BY <2>3, <3>6
      <4>2. /\ j \in DOMAIN file[pos].attrs /\ file[pos].attrs[j].ref = file[i].name
            /\ types'[k].list = file[pos].attrs[j].list
        BY <4>1, <3>3, <3>4, <2>b
      <4>3. CASE \A n \in DOMAIN file : file[n].kind = "entity" =>
                   \A m \in DOMAIN file[n].attrs : file[n].attrs[m].ref = file[i].name =>
                     file[n].attrs[m].list = file[i].list
        <5>1. types'[k].list = file[i].list
          BY <4>2, <4>3, <1>0, <2>t
        <5>2. Marked(i) => file[i].list
          BY <4>3, Zenon DEF Marked
        <5>3. Now(i) => file[i].list
          BY <4>3, <1>0, <2>t, Zenon
        <5> HIDE DEF Now
        <5> QED
          BY <5>1, <5>2, <5>3
      <4>4. CASE \A n \in DOMAIN file : file[n].kind = "entity" =>
                   \A m \in DOMAIN file[n].attrs : file[n].attrs[m].ref = file[i].name =>
                     i < n /\ file[n].attrs[m].list
        <5>1. file[pos].attrs[j].list
          BY <4>2, <4>4, <1>0, <2>t, Zenon
        <5>2. Now(i)
          BY <4>2, <5>1, Zenon
        <5> HIDE DEF Now
        <5> QED
          BY <4>2, <5>1, <5>2, Zenon
      <4> QED
        BY <4>3, <4>4, <3>1, OneWay, Zenon
    <3> QED
      BY <3>5, <3>6
  <2> QED
    BY <2>4, <2>5, <2>6, <2>7, <2>8 DEF TInv
<1> QED
  BY <1>7, <1>8

LEMMA InitTInv == Init => TInv
<1> SUFFICES ASSUME Init PROVE TInv
  OBVIOUS
<1>0. file \in Files /\ pc = "preprocess" /\ pos = 1 /\ types = <<>>
  BY DEF Init
<1>1. Len(file) \in Nat /\ DOMAIN file = 1 .. Len(file)
  BY <1>0, FilesAssumption, SeqFacts
<1>2. Len(types) = 0 /\ DOMAIN types = {} /\ types \in Seq(Elements(types))
  BY <1>0 DEF Elements
<1>3. TypesTyped
  BY <1>0, <1>1, <1>2 DEF TypesTyped
<1>4. TypesListed
  <2>1. \A i \in DOMAIN file : ~(i < 1)
    BY <1>1
  <2> QED
    BY <1>0, <1>2, <2>1 DEF TypesListed
<1>5. TypesFilled /\ AttrsFilled /\ ListsMarked
  BY <1>0 DEF TypesFilled, AttrsFilled, ListsMarked, Past
<1> QED
  BY <1>3, <1>4, <1>5 DEF TInv

LEMMA NextTInv ==
  ASSUME TInv, SInv, Inv, [Next]_vars
  PROVE  TInv'
<1>1. CASE scan_item \/ scan_error \/ end_scan \/ init_type \/ init_entity \/ skip_item \/ end_parse
  BY <1>1, scan_item_TInv, scan_error_TInv, end_scan_TInv, init_type_TInv, init_entity_TInv,
     skip_item_TInv, end_parse_TInv
<1>2. CASE UNCHANGED vars
  <2>1. UNCHANGED <<file, types, entities, pc, pos>>
    BY <1>2 DEF vars, fileVars
  <2> QED
    BY <2>1, FrozenTInv
<1>3. CASE Shows
  <2>1. /\ UNCHANGED <<file, types, entities>> /\ pc \in {"ready", "climb", "print"}
        /\ pc' \in {"shown", "climb", "print", "crashed", "no_type"}
    BY <1>3, ShowsFacts DEF Still
  <2> QED
    BY <2>1, FrozenTInv
<1>4. CASE sql \/ link \/ next_entity
  <2>1. /\ UNCHANGED <<file, types, entities>>
        /\ pc \in {"ready", "graph"} /\ pc' \in {"bare_name", "crashed", "graph"}
    BY <1>4 DEF sql, link, next_entity, Goto
  <2> QED
    BY <2>1, FrozenTInv
<1>5. CASE start_sort \/ sort \/ check_first
  <2>1. /\ UNCHANGED <<file, types, entities>>
        /\ pc \in {"graph", "sort"} /\ pc' \in {"sort", "crashed", "emit"}
    BY <1>5 DEF start_sort, sort, check_first, Goto, fileVars
  <2> QED
    BY <2>1, FrozenTInv
<1>6. CASE create_pgsql_for_entity \/ write_file
  <2>1. /\ UNCHANGED <<file, types, entities>>
        /\ pc = "emit" /\ pc' \in {"emit", "exited", "crashed", "written"}
    BY <1>6 DEF create_pgsql_for_entity, write_file, Goto
  <2> QED
    BY <2>1, FrozenTInv
<1> QED
  BY <1>1, <1>2, <1>3, <1>4, <1>5, <1>6 DEF Next, Shows

LEMMA Induction ==
  ASSUME NEW m \in Nat, NEW S, 0 \in S, \A n \in 0 .. (m - 1) : n \in S => n + 1 \in S
  PROVE  \A n \in 0 .. m : n \in S
<1> DEFINE I == {n \in 0 .. m : n \notin S}
<1> SUFFICES ASSUME I # {} PROVE FALSE
  OBVIOUS
<1>1. PICK x \in I : \A y \in I : x <= y
  <2>1. I \in SUBSET Nat
    OBVIOUS
  <2> HIDE DEF I
  <2> QED
    BY <2>1, LeastNatural
<1>2. x # 0 /\ x \in 0 .. m /\ x \notin S
  OBVIOUS
<1>3. x - 1 \in 0 .. (m - 1) /\ x - 1 \notin I /\ x - 1 \in 0 .. m
  BY <1>1, <1>2
<1>4. (x - 1) + 1 \in S
  BY <1>3
<1> QED
  BY <1>2, <1>4

-----------------------------------------------------------------------------
(* The chain of a type, and the declarations it is derived from *)

\* The type that typecast_express_to_sql() goes on to from type n, or 0.
After(n) == IF n = 0 \/ types[n].base # "DERIVED" THEN 0 ELSE types[n].ref
IsChain(c, id, m) == c = [k \in 0 .. m |-> IF k = 0 THEN id ELSE After(c[k - 1])]

LEMMA ChainExists ==
  ASSUME NEW id, NEW L \in Nat
  PROVE  \E c : IsChain(c, id, L)
<1> DEFINE S == {m \in 0 .. L : \E c : IsChain(c, id, m)}
<1>1. 0 \in S
  <2>1. IsChain([n \in 0 .. 0 |-> id], id, 0)
    BY DEF IsChain
  <2> QED
    BY <2>1
<1>2. ASSUME NEW m \in 0 .. (L - 1), m \in S PROVE m + 1 \in S
  <2>1. PICK c : IsChain(c, id, m)
    BY <1>2
  <2> DEFINE s == [n \in 0 .. (m + 1) |-> IF n = m + 1 THEN After(c[m]) ELSE c[n]]
  <2>2. ASSUME NEW n \in 0 .. (m + 1)
        PROVE  s[n] = IF n = 0 THEN id ELSE After(s[n - 1])
    <3>1. CASE n = m + 1
      <4>1. s[n] = After(c[m]) /\ s[n - 1] = c[m] /\ n # 0
        BY <3>1
      <4> QED
        BY <4>1
    <3>2. CASE n # m + 1
      <4>1. n \in 0 .. m /\ s[n] = c[n] /\ (n # 0 => s[n - 1] = c[n - 1])
        BY <3>2
      <4>2. c[n] = IF n = 0 THEN id ELSE After(c[n - 1])
        BY <2>1, <4>1 DEF IsChain
      <4> QED
        BY <4>1, <4>2
    <3> QED
      BY <3>1, <3>2
  <2>3. IsChain(s, id, m + 1)
    BY <2>2 DEF IsChain
  <2>4. m + 1 \in 0 .. L
    OBVIOUS
  <2> HIDE DEF s
  <2> QED
    BY <2>3, <2>4
<1> HIDE DEF S
<1>3. L \in S
  BY <1>1, <1>2, Induction
<1> QED
  BY <1>3 DEF S

LEMMA ChainFacts ==
  ASSUME NEW id, Len(types) \in Nat
  PROVE  IsChain(Chain(id), id, Len(types))
<1>1. Chain(id) = CHOOSE c : IsChain(c, id, Len(types))
  BY DEF Chain, IsChain, After
<1>2. \E c : IsChain(c, id, Len(types))
  BY ChainExists
<1> QED
  BY <1>1, <1>2

\* Chain c arrives after m members, all derived but the last.
Arrives(c, m) ==
  /\ m \in {k \in 1 .. Len(types) : c[k] = 0} /\ Min({k \in 1 .. Len(types) : c[k] = 0}) = m
  /\ \A k \in 0 .. (m - 1) : c[k] \in DOMAIN types
  /\ \A k \in m .. Len(types) : c[k] = 0
  /\ \A k \in 0 .. (m - 2) : types[c[k]].base = "DERIVED" /\ c[k + 1] = types[c[k]].ref

LEMMA ChainEnds ==
  ASSUME TInv, SInv, NEW t \in DOMAIN types, NEW c, IsChain(c, t, Len(types)), c[Len(types)] = 0
  PROVE  \E m \in 1 .. Len(types) : Arrives(c, m)
<1> DEFINE L == Len(types)
<1>t. L \in Nat /\ DOMAIN types = 1 .. L /\ \A k \in DOMAIN types : types[k].ref \in 0 .. L
  BY TypesFacts DEF TInv, SInv
<1>c. c[0] = t /\ \A k \in 0 .. (L - 1) : c[k + 1] = After(c[k])
  <2>1. \A k \in 0 .. L : c[k] = IF k = 0 THEN t ELSE After(c[k - 1])
    BY DEF IsChain
  <2>2. ASSUME NEW k \in 0 .. (L - 1) PROVE c[k + 1] = After(c[k])
    <3>1. k + 1 \in 0 .. L /\ k + 1 # 0 /\ (k + 1) - 1 = k
      BY <1>t
    <3> HIDE DEF L
    <3> QED
      BY <2>1, <3>1
  <2>3. 0 \in 0 .. L
    BY <1>t
  <2> HIDE DEF L
  <2> QED
    BY <2>1, <2>2, <2>3
<1>0. L >= 1 /\ t \in 1 .. L
  BY <1>t
<1>1. \A k \in 0 .. L : c[k] \in 0 .. L
  <2> DEFINE S == {k \in Nat : c[k] \in 0 .. L}
  <2>1. 0 \in S
    BY <1>c, <1>t
  <2>2. ASSUME NEW k \in 0 .. (L - 1), k \in S PROVE k + 1 \in S
    <3>1. After(c[k]) \in 0 .. L
      BY <2>2, <1>t DEF After
    <3> QED
      BY <3>1, <1>c
  <2>3. \A k \in 0 .. L : k \in S
    <3> HIDE DEF S, L
    <3> QED
      BY <2>1, <2>2, <1>t, Induction
  <2> QED
    BY <2>3
<1> DEFINE Z == {i \in 1 .. L : c[i] = 0}
           m == Min(Z)
<1>2. L \in Z
  BY <1>0, <1>t
<1>3. m \in Z /\ \A y \in Z : m <= y
  <2>1. Z \in SUBSET Nat /\ Z # {}
    BY <1>2
  <2> HIDE DEF Z
  <2> QED
    BY <2>1, MinOf
<1>4. m \in {k \in 1 .. L : c[k] = 0} /\ Min({k \in 1 .. L : c[k] = 0}) = m
  BY <1>3
<1>5. m \in 1 .. L /\ c[m] = 0 /\ \A k \in 1 .. L : k < m => c[k] # 0
  <2> HIDE DEF m
  <2>1. m \in 1 .. L /\ c[m] = 0
    BY <1>3
  <2>2. ASSUME NEW k \in 1 .. L, k < m, c[k] = 0 PROVE FALSE
    <3>1. m <= k
      BY <2>2, <1>3
    <3> QED
      BY <3>1, <2>1, <2>2, <1>t
  <2> QED
    BY <2>1, <2>2
<1> HIDE DEF Z, m
<1>6. \A k \in 0 .. (m - 1) : c[k] \in DOMAIN types
  <2> SUFFICES ASSUME NEW k \in 0 .. (m - 1) PROVE c[k] \in 1 .. L
    BY <1>t
  <2>1. CASE k = 0
    BY <2>1, <1>c, <1>t
  <2>2. CASE k # 0
    <3>1. k \in 1 .. L /\ k < m /\ k \in 0 .. L
      BY <2>2, <1>5, <1>t
    <3>2. c[k] # 0 /\ c[k] \in 0 .. L
      BY <3>1, <1>5, <1>1
    <3> QED
      BY <3>2, <1>t
  <2> QED
    BY <2>1, <2>2
<1>7. \A k \in m .. L : c[k] = 0
  <2> DEFINE S == {k \in Nat : k >= m => c[k] = 0}
  <2>1. 0 \in S
    BY <1>5, <1>t
  <2>2. ASSUME NEW k \in 0 .. (L - 1), k \in S PROVE k + 1 \in S
    <3>1. c[k + 1] = After(c[k])
      BY <1>c
    <3>2. CASE k >= m
      BY <3>1, <3>2, <2>2 DEF After
    <3>3. CASE ~(k >= m)
      <4>1. k + 1 >= m => k + 1 = m
        BY <3>3, <1>5, <1>t
      <4> QED
        BY <4>1, <1>5
    <3> QED
      BY <3>2, <3>3
  <2>3. \A k \in 0 .. L : k \in S
    <3> HIDE DEF S, L
    <3> QED
      BY <2>1, <2>2, <1>t, Induction
  <2>4. \A k \in m .. L : k \in 0 .. L /\ k >= m
    BY <1>5, <1>t
  <2> QED
    BY <2>3, <2>4
<1>8. ASSUME NEW k \in 0 .. (m - 2)
      PROVE  types[c[k]].base = "DERIVED" /\ c[k + 1] = types[c[k]].ref
  <2>1. k \in 0 .. (L - 1) /\ k \in 0 .. (m - 1) /\ k + 1 \in 0 .. (m - 1)
    BY <1>5, <1>t
  <2>2. c[k + 1] = After(c[k]) /\ c[k] # 0 /\ c[k + 1] # 0
    BY <2>1, <1>c, <1>6, <1>t
  <2> QED
    BY <2>2 DEF After
<1> QED
  BY <1>4, <1>5, <1>6, <1>7, <1>8 DEF Arrives

\* The declaration that type descriptor n was made for.
TypeDeclaredBy(n) == CHOOSE d \in Declared("type") : d.name = types[n].name

LEMMA TypeItems ==
  ASSUME Plain
  PROVE  /\ Declared("type") = {file[i] : i \in {j \in DOMAIN file : file[j].kind = "type"}}
         /\ \A d, e \in Declared("type") : d.name = e.name => d = e
<1>1. Declared("type") = {file[i] : i \in {j \in DOMAIN file : file[j].kind = "type"}}
  BY PlainItems DEF Declared, Elements
<1> QED
  BY <1>1, PlainItems

\* Descriptors and declarations of types correspond one to one.
LEMMA TypeDeclaredFacts ==
  ASSUME TInv, SInv, Plain, pc = "emit"
  PROVE  /\ \A n \in DOMAIN types :
              /\ TypeDeclaredBy(n) \in Declared("type") /\ TypeDeclaredBy(n).name = types[n].name
              /\ TypeOf(n, TypeDeclaredBy(n))
         /\ \A d \in Declared("type") : \E n \in DOMAIN types :
              types[n].name = d.name /\ TypeDeclaredBy(n) = d
<1>q. Past /\ \A i : Parsed(i) <=> i \in DOMAIN file
  BY DEF Past, Parsed
<1>1. ASSUME NEW n \in DOMAIN types
      PROVE  /\ TypeDeclaredBy(n) \in Declared("type") /\ TypeDeclaredBy(n).name = types[n].name
             /\ TypeOf(n, TypeDeclaredBy(n))
  <2>1. PICK i \in DOMAIN file : file[i].kind = "type" /\ file[i].name = types[n].name
    BY DEF TInv, TypesListed
  <2>2. file[i] \in Declared("type")
    BY <2>1, TypeItems
  <2>3. TypeDeclaredBy(n) \in Declared("type") /\ TypeDeclaredBy(n).name = types[n].name
    BY <2>1, <2>2 DEF TypeDeclaredBy
  <2>4. TypeDeclaredBy(n) = file[i]
    BY <2>1, <2>2, <2>3, TypeItems
  <2>5. TypeOf(n, file[i])
    BY <2>1, <1>q DEF TInv, TypesFilled
  <2> QED
    BY <2>3, <2>4, <2>5
<1>2. ASSUME NEW d \in Declared("type")
      PROVE  \E n \in DOMAIN types : types[n].name = d.name /\ TypeDeclaredBy(n) = d
  <2>1. PICK i \in DOMAIN file : file[i] = d /\ file[i].kind = "type"
    BY TypeItems
  <2>2. PICK n \in DOMAIN types : types[n].name = d.name
    BY <2>1 DEF TInv, TypesListed
  <2>3. TypeDeclaredBy(n) = d
    BY <1>1, <2>2, TypeItems
  <2> QED
    BY <2>2, <2>3
<1> QED
  BY <1>1, <1>2

\* The chain runs through the declarations that a type is derived from.
LEMMA ChainIsDerivation ==
  ASSUME TInv, SInv, Plain, pc = "emit", NEW m \in Nat \ {0}, NEW c,
         \A k \in 0 .. (m - 1) : c[k] \in DOMAIN types,
         \A k \in 0 .. (m - 2) : types[c[k]].base = "DERIVED" /\ c[k + 1] = types[c[k]].ref,
         types[c[m - 1]].base # "DERIVED"
  PROVE  Derivation(TypeDeclaredBy(c[0])) = {TypeDeclaredBy(c[k]) : k \in 0 .. (m - 1)}
<1> DEFINE D(k) == TypeDeclaredBy(c[k])
           t == D(0)
           S == {D(k) : k \in 0 .. (m - 1)}
           Holds(C) == /\ t \in C
                       /\ \A u \in C, v \in Declared("type") :
                            u.base = "DERIVED" /\ u.refs[1] = v.name => v \in C
<1>1. \A k \in 0 .. (m - 1) : /\ D(k) \in Declared("type") /\ D(k).name = types[c[k]].name
                              /\ TypeOf(c[k], D(k))
  BY TypeDeclaredFacts
<1>0. 0 \in 0 .. (m - 1)
  OBVIOUS
<1>2. Holds(S)
  <2>1. t \in S
    BY <1>0
  <2>2. ASSUME NEW k \in 0 .. (m - 1), NEW v \in Declared("type"),
               D(k).base = "DERIVED", D(k).refs[1] = v.name
        PROVE  v \in S
    <3>1. types[c[k]].base = "DERIVED"
      BY <2>2, <1>1 DEF TypeOf
    <3>2. k \in 0 .. (m - 2) /\ k + 1 \in 0 .. (m - 1)
      <4>1. k # m - 1
        BY <3>1
      <4> QED
        BY <4>1
    <3>3. PICK n \in DOMAIN types : types[n].name = v.name /\ TypeDeclaredBy(n) = v
      BY TypeDeclaredFacts
    <3>4. types[c[k]].ref = n
      BY <2>2, <1>1, <3>3 DEF TypeOf
    <3>5. c[k + 1] = n
      BY <3>2, <3>4
    <3>6. D(k + 1) = v
      BY <3>3, <3>5
    <3> QED
      BY <3>2, <3>6
  <2> QED
    BY <2>1, <2>2
<1>3. ASSUME NEW C \in SUBSET Declared("type"), Holds(C), NEW k \in 0 .. (m - 1)
      PROVE  D(k) \in C
  <2> DEFINE I == {j \in Nat : D(j) \in C}
  <2>1. 0 \in I
    BY <1>3
  <2>2. ASSUME NEW j \in 0 .. ((m - 1) - 1), j \in I PROVE j + 1 \in I
    <3>1. j \in 0 .. (m - 2) /\ j \in 0 .. (m - 1) /\ j + 1 \in 0 .. (m - 1)
      OBVIOUS
    <3>2. D(j).base = "DERIVED"
      BY <3>1, <1>1 DEF TypeOf
    <3>3. D(j).refs[1] = types[c[j + 1]].name
      <4>1. c[j + 1] \in DOMAIN types /\ c[j + 1] = types[c[j]].ref
        BY <3>1
      <4> QED
        BY <3>1, <3>2, <4>1, <1>1 DEF TypeOf
    <3>4. D(j + 1) \in Declared("type") /\ D(j + 1).name = types[c[j + 1]].name
      BY <3>1, <1>1
    <3>5. D(j) \in C
      BY <2>2
    <3>6. D(j + 1) \in C
      <4> HIDE DEF D
      <4> QED
        BY <1>3, <3>2, <3>3, <3>4, <3>5
    <3> QED
      BY <3>6
  <2>3. m - 1 \in Nat
    OBVIOUS
  <2>4. \A j \in 0 .. (m - 1) : j \in I
    <3> HIDE DEF I
    <3> QED
      BY <2>1, <2>2, <2>3, Induction
  <2> QED
    BY <2>4
<1>4. Derivation(t) = {d \in Declared("type") : \A C \in SUBSET Declared("type") : Holds(C) => d \in C}
  BY DEF Derivation
<1>5. S \in SUBSET Declared("type")
  BY <1>1
<1> HIDE DEF D, t, Holds
<1>6. Derivation(t) \subseteq S
  BY <1>2, <1>4, <1>5
<1>7. S \subseteq Derivation(t)
  <2> SUFFICES ASSUME NEW k \in 0 .. (m - 1) PROVE D(k) \in Derivation(t)
    OBVIOUS
  <2> QED
    BY <1>1, <1>3, <1>4
<1> QED
  BY <1>6, <1>7 DEF D, t

\* Along a derivation only the first type can have been made a list by attributes.
LEMMA ListFlags ==
  ASSUME TInv, SInv, Plain, UsedOneWay, pc = "emit", NEW n \in DOMAIN types
  PROVE  /\ types[n].list \in BOOLEAN /\ TypeDeclaredBy(n).list \in BOOLEAN
         /\ (\E d \in Declared("type") : d.base = "DERIVED" /\ d.refs[1] = types[n].name) =>
              (types[n].list <=> TypeDeclaredBy(n).list)
         /\ \A i \in DOMAIN file : file[i].kind = "entity" => \A j \in DOMAIN file[i].attrs :
              file[i].attrs[j].ref = types[n].name =>
                (types[n].list <=> file[i].attrs[j].list \/ TypeDeclaredBy(n).list)
<1>q. Past /\ \A i : Parsed(i) <=> i \in DOMAIN file
  BY DEF Past, Parsed
<1>1. PICK l \in DOMAIN file : file[l].kind = "type" /\ file[l].name = types[n].name
  BY DEF TInv, TypesListed
<1>2. TypeDeclaredBy(n) = file[l]
  BY <1>1, TypeDeclaredFacts, TypeItems
<1>3. types[n].list <=> file[l].list \/ Marked(l)
  BY <1>1, <1>q DEF TInv, ListsMarked
<1>b. types[n].list \in BOOLEAN /\ file[l].list \in BOOLEAN
  BY <1>1, TypesFacts, FlagFacts DEF TInv, SInv
<1>4. CASE \A j \in DOMAIN file : file[j].kind = "entity" =>
             \A m \in DOMAIN file[j].attrs : file[j].attrs[m].ref = file[l].name =>
               file[j].attrs[m].list = file[l].list
  <2>1. Marked(l) => file[l].list
    BY <1>4, Zenon DEF Marked
  <2>2. types[n].list <=> file[l].list
    BY <1>3, <2>1, Zenon
  <2>3. ASSUME NEW i \in DOMAIN file, file[i].kind = "entity", NEW j \in DOMAIN file[i].attrs,
               file[i].attrs[j].ref = types[n].name
        PROVE  types[n].list <=> file[i].attrs[j].list \/ file[l].list
    <3>1. file[i].attrs[j].list = file[l].list
      BY <2>3, <1>1, <1>4
    <3> QED
      BY <3>1, <2>2, Zenon
  <2> QED
    BY <1>2, <1>b, <2>2, <2>3
<1>5. CASE /\ \A j \in DOMAIN file : file[j].kind = "entity" =>
                \A m \in DOMAIN file[j].attrs : file[j].attrs[m].ref = file[l].name =>
                  l < j /\ file[j].attrs[m].list
           /\ \A d \in Declared("type") : d.base = "DERIVED" => d.refs[1] # file[l].name
  <2>1. ASSUME NEW i \in DOMAIN file, file[i].kind = "entity", NEW j \in DOMAIN file[i].attrs,
               file[i].attrs[j].ref = types[n].name
        PROVE  types[n].list <=> file[i].attrs[j].list \/ file[l].list
    <3>1. file[i].attrs[j].list
      BY <2>1, <1>1, <1>5, Zenon
    <3>2. Marked(l)
      BY <2>1, <3>1, <1>1, <1>q, Zenon DEF Marked
    <3> QED
      BY <3>1, <3>2, <1>3, Zenon
  <2>2. ~\E d \in Declared("type") : d.base = "DERIVED" /\ d.refs[1] = types[n].name
    BY <1>5, <1>1
  <2> QED
    BY <1>2, <1>b, <2>1, <2>2
<1> QED
  BY <1>1, <1>4, <1>5, OneWay, Zenon

\* A column that comes out has the type its attribute is declared with.
LEMMA ColumnLemma ==
  ASSUME TInv, SInv, Plain, Closed, UsedOneWay, pc = "emit",
         NEW i \in DOMAIN file, file[i].kind = "entity", NEW j \in DOMAIN file[i].attrs,
         NEW x, AttrOf(x, file[i].attrs[j]), ~Endless(x), ~Invalid(x)
  PROVE  typecast_express_to_sql(x) = ColumnOf(file[i].attrs[j])
<1>q. PICK a : a = file[i].attrs[j]
  OBVIOUS
<1>t. Len(types) \in Nat /\ DOMAIN types = 1 .. Len(types)
  BY TypesIndex
<1>0. /\ x.type \in 0 .. Len(types) /\ x.list = a.list
      /\ \A l \in DOMAIN types : x.type = l <=> a.ref # None /\ types[l].name = a.ref
      /\ x.base = IF a.ref # None /\ x.type = 0 THEN "REFERENCE" ELSE a.base
  BY <1>q DEF AttrOf
<1>n. /\ \A d \in Declared("entity") : d.name # None /\ \A e \in Declared("type") : d.name # e.name
      /\ file[i] \in Declared("entity")
  <2>1. \A d \in Declared("entity") : \E k \in DOMAIN file : d = file[k] /\ file[k].kind = "entity"
    BY DeclaredItems
  <2>2. \A d \in Declared("type") : \E k \in DOMAIN file : d = file[k] /\ file[k].kind = "type"
    BY TypeItems
  <2>3. \A d \in Declared("entity") : d.name # None
    BY <2>1, FileFacts DEF SInv
  <2>4. \A d \in Declared("entity") : \A e \in Declared("type") : d.name # e.name
    BY <2>1, <2>2, PlainItems
  <2>5. file[i] \in Declared("entity")
    BY DeclaredItems
  <2> QED
    BY <2>3, <2>4, <2>5
<1>1. CASE x.type = 0
  <2>1. typecast_express_to_sql(x) = [base |-> x.base, array |-> x.list]
    BY <1>1 DEF typecast_express_to_sql
  <2>2. CASE a.ref = None
    <3>1. ColumnOf(a) = [base |-> a.base, array |-> a.list]
      BY <2>2 DEF ColumnOf
    <3> QED
      BY <1>q, <1>0, <2>1, <2>2, <3>1
  <2>3. CASE a.ref # None
    <3>1. a.ref \notin Names("type")
      <4> SUFFICES ASSUME NEW d \in Declared("type"), d.name = a.ref PROVE FALSE
        BY DEF Names
      <4>1. PICK n \in DOMAIN types : types[n].name = d.name
        BY TypeDeclaredFacts
      <4>2. x.type = n
        BY <4>1, <1>0, <2>3
      <4> QED
        BY <4>1, <4>2, <1>1, <1>t
    <3>2. a \in Elements(file[i].attrs)
      BY <1>q DEF Elements
    <3>3. a.ref \in Names("entity")
      BY <3>1, <3>2, <1>n, <2>3 DEF Closed
    <3>4. ColumnOf(a) = [base |-> "REFERENCE", array |-> a.list]
      BY <2>3, <3>3 DEF ColumnOf
    <3> QED
      BY <1>q, <1>0, <1>1, <2>1, <2>3, <3>4
  <2> QED
    BY <2>2, <2>3
<1>2. CASE x.type # 0
  <2>1. PICK t \in DOMAIN types : t = x.type
    BY <1>2, <1>0, <1>t
  <2>2. a.ref # None /\ types[t].name = a.ref
    BY <2>1, <1>0
  <2>3. PICK c : c = Chain(x.type) /\ IsChain(c, t, Len(types)) /\ c[Len(types)] = 0
    BY <1>t, <2>1, ChainFacts DEF Endless
  <2>p. PICK m \in 1 .. Len(types) : Arrives(c, m)
    BY <2>3, ChainEnds
  <2>4. /\ m \in {k \in 1 .. Len(types) : c[k] = 0} /\ Min({k \in 1 .. Len(types) : c[k] = 0}) = m
        /\ \A k \in 0 .. (m - 1) : c[k] \in DOMAIN types
        /\ \A k \in m .. Len(types) : c[k] = 0
        /\ \A k \in 0 .. (m - 2) : types[c[k]].base = "DERIVED" /\ c[k + 1] = types[c[k]].ref
    BY <2>p DEF Arrives
  <2> DEFINE last == c[m - 1]
             D(k) == TypeDeclaredBy(c[k])
             arr == \E k \in DOMAIN c : c[k] # 0 /\ types[c[k]].list
  <2>5. typecast_express_to_sql(x) =
          [base  |-> IF types[last].base = "ENUM" THEN types[last].name ELSE types[last].base,
           array |-> arr]
    <3> DEFINE s == [k \in 1 .. Len(types) |-> Chain(x.type)[k]]
               Y == {k \in 1 .. Len(s) : s[k] = 0}
               f == Chain(x.type)[(IF Y # {} THEN Min(Y) ELSE 0) - 1]
    <3>1. typecast_express_to_sql(x) =
            [base  |-> IF types[f].base = "ENUM" THEN types[f].name ELSE types[f].base,
             array |-> \E k \in DOMAIN Chain(x.type) : Chain(x.type)[k] # 0 /\ types[Chain(x.type)[k]].list]
      BY <1>2 DEF typecast_express_to_sql, SelectInSeq
    <3>2. Len(s) = Len(types) /\ \A k \in 1 .. Len(types) : s[k] = c[k]
      BY <1>t, <2>3
    <3>3. Y = {k \in 1 .. Len(types) : c[k] = 0}
      <4> HIDE DEF s
      <4> QED
        BY <3>2
    <3>4. f = last
      <4> HIDE DEF Y
      <4> QED
        BY <2>3, <2>4, <3>3
    <3> HIDE DEF f, last
    <3> QED
      BY <3>1, <3>4, <2>3
  <2>6. types[last].base # "DERIVED"
    <3> HIDE DEF arr, last
    <3>1. typecast_express_to_sql(x).base \notin {"UNKNOWN", "DERIVED"}
      BY DEF Invalid
    <3> QED
      BY <2>5, <3>1
  <2>m. m \in Nat \ {0} /\ m - 1 \in 0 .. (m - 1) /\ 0 \in 0 .. (m - 1)
    BY <1>t
  <2>7. Derivation(D(0)) = {D(k) : k \in 0 .. (m - 1)}
    <3>1. \A k \in 0 .. (m - 1) : c[k] \in DOMAIN types
      BY <2>4
    <3>2. \A k \in 0 .. (m - 2) : types[c[k]].base = "DERIVED" /\ c[k + 1] = types[c[k]].ref
      BY <2>4
    <3>3. m \in Nat \ {0} /\ types[c[m - 1]].base # "DERIVED"
      BY <2>m, <2>6
    <3> QED
      BY <3>1, <3>2, <3>3, ChainIsDerivation, Zenon
  <2>c. c[0] = t /\ DOMAIN c = 0 .. Len(types)
    BY <2>3, <1>t DEF IsChain
  <2>8. \A k \in 0 .. (m - 1) : /\ D(k) \in Declared("type") /\ D(k).name = types[c[k]].name
                                /\ D(k).base = types[c[k]].base
    BY <2>4, TypeDeclaredFacts DEF TypeOf
  <2>9. (CHOOSE d \in Declared("type") : d.name = a.ref) = D(0)
    BY <2>8, <2>m, <2>c, <2>2, TypeItems
  <2>10. (CHOOSE d \in Derivation(D(0)) : d.base # "DERIVED") = D(m - 1)
    <3>1. D(m - 1) \in Derivation(D(0)) /\ D(m - 1).base # "DERIVED"
      BY <2>7, <2>m, <2>8, <2>6
    <3>2. ASSUME NEW d \in Derivation(D(0)), d.base # "DERIVED" PROVE d = D(m - 1)
      <4>1. PICK k \in 0 .. (m - 1) : d = D(k)
        BY <2>7
      <4>2. types[c[k]].base # "DERIVED"
        BY <4>1, <3>2, <2>8
      <4>3. k \notin 0 .. (m - 2)
        BY <4>2, <2>4
      <4>4. k = m - 1
        BY <4>3, <2>m
      <4> QED
        BY <4>1, <4>4
    <3> HIDE DEF D
    <3> QED
      BY <3>1, <3>2
  <2>11. a.ref \notin Names("entity")
    BY <1>n, <2>2, <2>8, <2>m, <2>c DEF Names
  <2> DEFINE want == a.list \/ \E d \in Derivation(D(0)) : d.list
  <2>12. ColumnOf(a) = [base |-> IF D(m - 1).base = "ENUM" THEN D(m - 1).name ELSE D(m - 1).base,
                        array |-> want]
    <3> DEFINE d0 == CHOOSE d \in Declared("type") : d.name = a.ref
               u0 == CHOOSE d \in Derivation(d0) : d.base # "DERIVED"
    <3>1. ColumnOf(a) = [base  |-> IF u0.base = "ENUM" THEN u0.name ELSE u0.base,
                         array |-> a.list \/ \E d \in Derivation(d0) : d.list]
      BY <2>2, <2>11 DEF ColumnOf
    <3>2. d0 = D(0)
      BY <2>9
    <3> HIDE DEF d0, D
    <3>3. u0 = D(m - 1)
      BY <3>2, <2>10
    <3> HIDE DEF u0
    <3> QED
      BY <3>1, <3>2, <3>3
  <2>13. arr <=> want
    <3>1. arr <=> \E k \in 0 .. (m - 1) : types[c[k]].list
      <4>1. 0 .. (m - 1) \subseteq 0 .. Len(types)
        BY <1>t
      <4>2. \A k \in 0 .. (m - 1) : c[k] # 0
        BY <2>4, <1>t
      <4>3. \A k \in 0 .. Len(types) : c[k] # 0 => k \in 0 .. (m - 1)
        <5> SUFFICES ASSUME NEW k \in 0 .. Len(types), c[k] # 0 PROVE k \in 0 .. (m - 1)
          OBVIOUS
        <5>1. k \notin m .. Len(types)
          BY <2>4
        <5> QED
          BY <5>1, <1>t
      <4> QED
        BY <2>c, <4>1, <4>2, <4>3, Zenon
    <3>2. want <=> a.list \/ \E k \in 0 .. (m - 1) : D(k).list
      <4> HIDE DEF D
      <4> QED
        BY <2>7, Zenon
    <3>3. types[c[0]].list <=> a.list \/ D(0).list
      <4>1. \A u \in DOMAIN file : file[u].kind = "entity" => \A v \in DOMAIN file[u].attrs :
               file[u].attrs[v].ref = types[t].name =>
                 (types[t].list <=> file[u].attrs[v].list \/ TypeDeclaredBy(t).list)
        BY ListFlags, Zenon
      <4>2. types[t].list <=> a.list \/ TypeDeclaredBy(t).list
        BY <4>1, <2>2, <1>q, Zenon
      <4> QED
        BY <4>2, <2>c, Zenon
    <3>4. ASSUME NEW k \in 0 .. (m - 1), k # 0 PROVE types[c[k]].list <=> D(k).list
      <4>1. k - 1 \in 0 .. (m - 2) /\ k - 1 \in 0 .. (m - 1) /\ (k - 1) + 1 = k
        BY <3>4
      <4>2. c[k] = types[c[k - 1]].ref /\ types[c[k - 1]].base = "DERIVED" /\ c[k] \in DOMAIN types
        BY <4>1, <2>4
      <4>3. D(k - 1).base = "DERIVED" /\ D(k - 1) \in Declared("type") /\ TypeOf(c[k - 1], D(k - 1))
        BY <4>1, <4>2, <2>4, <2>8, TypeDeclaredFacts
      <4>4. D(k - 1).refs[1] = types[c[k]].name
        BY <4>2, <4>3 DEF TypeOf
      <4> QED
        BY <4>2, <4>3, <4>4, ListFlags, Zenon
    <3> HIDE DEF arr, want, D
    <3>5. (\E k \in 0 .. (m - 1) : types[c[k]].list) <=> a.list \/ \E k \in 0 .. (m - 1) : D(k).list
      BY <3>3, <3>4, <2>m, Zenon
    <3> QED
      BY <3>1, <3>2, <3>5, Zenon
  <2>14. arr \in BOOLEAN /\ want \in BOOLEAN
    OBVIOUS
  <2>15. arr = want
    <3> HIDE DEF arr, want
    <3> QED
      BY <2>13, <2>14
  <2>16. D(m - 1).base = types[last].base /\ D(m - 1).name = types[last].name
    BY <2>8, <2>m
  <2> HIDE DEF arr, want, D, last
  <2> QED
    BY <1>q, <2>5, <2>12, <2>15, <2>16
<1> QED
  BY <1>1, <1>2

\* What is put out is 0 or the number of a descriptor.
LEMMA OrderedDescriptors ==
  ASSUME SInv, Inv, EdgesKnown, pc = "emit", NEW i \in DOMAIN res, res[i] # 0
  PROVE  res[i] \in DOMAIN entities
<1>1. res[i] \in known /\ res[i] \in Nodes
  BY DEF EdgesKnown, Elements, Inv, GraphTypeOK
<1>2. \A x, y \in Nodes : y \in graph_[x] =>
        x \in DOMAIN entities /\ \E j \in DOMAIN entities[x].subs : entities[x].subs[j] = y
  BY DEF SInv, EdgesLinked, Link
<1>3. CASE graph_[res[i]] # {}
  <2>1. PICK y \in graph_[res[i]] : TRUE
    BY <1>3
  <2>2. y \in Nodes
    BY <1>1, <2>1 DEF Inv, GraphTypeOK
  <2> QED
    BY <1>1, <1>2, <2>1, <2>2
<1>4. CASE \E m \in Nodes : res[i] \in graph_[m]
  <2>1. PICK m \in Nodes : res[i] \in graph_[m]
    BY <1>4
  <2>2. PICK j \in DOMAIN entities[m].subs : entities[m].subs[j] = res[i]
    BY <1>1, <1>2, <2>1
  <2>3. res[i] \in 0 .. Len(entities)
    BY <1>1, <1>2, <2>1, <2>2, SubsFacts DEF SInv
  <2> QED
    BY <2>3, FileFacts DEF SInv
<1> QED
  BY <1>1, <1>3, <1>4 DEF SInv, KnownEnds

\* The columns of one table.
LEMMA TableColumns ==
  ASSUME TInv, SInv, Inv, EdgesKnown, WellFormed, UsedOneWay, create_pgsql_for_entity, tables' # tables
  PROVE  \E t : /\ tables' = Append(tables, t)
                /\ t.columns = [i \in DOMAIN Entity(t).attrs |-> ColumnOf(Entity(t).attrs[i])]
<1> DEFINE id == res[pos]
           as == entities[id].attrs
           B  == {k \in 1 .. Len(as) : Endless(as[k]) \/ Nameless(as[k]) \/ Invalid(as[k])}
           t  == [id |-> id, columns |-> [i \in DOMAIN as |-> typecast_express_to_sql(as[i])]]
<1>1. /\ pc = "emit" /\ pos <= Len(res) /\ id # 0
      /\ (IF B # {} THEN Min(B) ELSE 0) = 0
      /\ tables' = Append(tables, t)
  BY DEF create_pgsql_for_entity, Goto, SelectInSeq
<1>2. id \in DOMAIN entities
  <2>1. pos \in DOMAIN res
    BY <1>1 DEF SInv, SchemaTypes, Inv, GraphTypeOK
  <2> QED
    BY <1>1, <2>1, OrderedDescriptors
<1>w. Plain /\ Closed
  BY DEF WellFormed
<1>3. PICK i \in DOMAIN file : file[i].kind = "entity" /\ file[i].name = entities[id].name
  BY <1>w, <1>2 DEF SInv, Listed
<1>4. AttrsOf(id, file[i])
  <2>1. Past /\ Parsed(i)
    BY <1>1, <1>3 DEF Past, Parsed
  <2> QED
    BY <2>1, <1>w, <1>2, <1>3 DEF TInv, AttrsFilled
<1>5. B = {}
  <2>1. 0 \notin B /\ B \in SUBSET Nat
    OBVIOUS
  <2> HIDE DEF B
  <2>2. B # {} => Min(B) \in B
    BY <2>1, MinOf
  <2> QED
    BY <1>1, <2>1, <2>2
<1>6. /\ DOMAIN as = DOMAIN file[i].attrs /\ as \in Seq(Elements(as))
      /\ \A j \in DOMAIN file[i].attrs : AttrOf(as[j], file[i].attrs[j])
  BY <1>4 DEF AttrsOf
<1>7. Entity(t) = file[i]
  <2>1. t.id = id
    OBVIOUS
  <2> HIDE DEF t, id
  <2>2. Entity(t) = DeclaredBy(id)
    BY <2>1 DEF Entity, DeclaredBy
  <2>3. file[i] \in Declared("entity") /\ DeclaredBy(id) \in Declared("entity")
        /\ DeclaredBy(id).name = entities[id].name
    BY <1>w, <1>1, <1>2, <1>3, DeclaredItems, DeclaredFacts
  <2> QED
    BY <2>2, <2>3, <1>3, <1>w, DeclaredItems
<1>8. ASSUME NEW j \in DOMAIN as
      PROVE  typecast_express_to_sql(as[j]) = ColumnOf(file[i].attrs[j])
  <2>1. Len(as) \in Nat /\ DOMAIN as = 1 .. Len(as)
    <3> HIDE DEF as
    <3> QED
      BY <1>6, SeqFacts
  <2>2. ~Endless(as[j]) /\ ~Invalid(as[j])
    BY <1>5, <2>1, <1>8
  <2> HIDE DEF as, B, id
  <2>3. j \in DOMAIN file[i].attrs /\ AttrOf(as[j], file[i].attrs[j])
    BY <1>6, <1>8
  <2> QED
    BY <1>w, <1>1, <1>3, <2>2, <2>3, ColumnLemma
<1>9. t.columns = [j \in DOMAIN file[i].attrs |-> ColumnOf(file[i].attrs[j])]
  <2>1. t.columns = [j \in DOMAIN as |-> typecast_express_to_sql(as[j])]
    OBVIOUS
  <2> HIDE DEF t, as
  <2> QED
    BY <2>1, <1>6, <1>8
<1> HIDE DEF t
<1> QED
  BY <1>1, <1>7, <1>9

LEMMA ColumnsNext ==
  ASSUME ColumnsAsDeclared, TInv, SInv, Inv, EdgesKnown, [Next]_vars
  PROVE  ColumnsAsDeclared'
<1>1. CASE UNCHANGED <<file, entities, tables>>
  <2>1. (WellFormed' <=> WellFormed) /\ (UsedOneWay' <=> UsedOneWay)
    BY <1>1, FileKept
  <2>2. \A k : Declared(k)' = Declared(k)
    BY <1>1 DEF Declared
  <2>3. \A k : Names(k)' = Names(k)
    BY <2>2 DEF Names
  <2>4. \A t : Derivation(t)' = Derivation(t)
    BY <2>2 DEF Derivation
  <2>5. \A a : ColumnOf(a)' = ColumnOf(a)
    BY <2>2, <2>3, <2>4 DEF ColumnOf
  <2>6. \A t : Entity(t)' = Entity(t)
    BY <1>1, <2>2 DEF Entity
  <2>7. ColumnsDeclared' <=> ColumnsDeclared
    BY <1>1, <2>5, <2>6 DEF ColumnsDeclared
  <2> QED
    BY <1>1, <2>1, <2>7 DEF ColumnsAsDeclared
<1>2. CASE scan_item \/ init_entity
  <2>1. tables' = tables /\ pc \in {"preprocess", "parse"}
    BY <1>2 DEF scan_item, init_entity
  <2>2. tables' = <<>>
    BY <2>1 DEF SInv, Emitted
  <2> QED
    BY <2>2 DEF ColumnsAsDeclared
<1>3. CASE create_pgsql_for_entity /\ tables' # tables
  <2> SUFFICES ASSUME WellFormed', UsedOneWay' PROVE ColumnsDeclared'
    BY DEF ColumnsAsDeclared
  <2>0. UNCHANGED <<file, entities>> /\ pc = "emit"
    BY <1>3 DEF create_pgsql_for_entity
  <2>1. WellFormed /\ UsedOneWay
    BY <2>0, FileKept
  <2>2. PICK t : /\ tables' = Append(tables, t)
                 /\ t.columns = [i \in DOMAIN Entity(t).attrs |-> ColumnOf(Entity(t).attrs[i])]
    BY <1>3, <2>1, TableColumns
  <2>3. tables \in Seq(Elements(tables))
    BY <2>0 DEF SInv, Emitted
  <2>4. Elements(Append(tables, t)) = Elements(tables) \cup {t}
    <3>1. /\ DOMAIN Append(tables, t) = 1 .. (Len(tables) + 1)
          /\ Len(tables) \in Nat /\ DOMAIN tables = 1 .. Len(tables)
          /\ \A i \in 1 .. Len(tables) : Append(tables, t)[i] = tables[i]
          /\ Append(tables, t)[Len(tables) + 1] = t
      BY <2>3, AppendAny
    <3>2. DOMAIN Append(tables, t) = DOMAIN tables \cup {Len(tables) + 1}
      BY <3>1
    <3> QED
      BY <3>1, <3>2 DEF Elements
  <2>5. \A s \in Elements(tables) :
          s.columns = [i \in DOMAIN Entity(s).attrs |-> ColumnOf(Entity(s).attrs[i])]
    <3>1. CASE tables = <<>>
      BY <3>1, ElementsEmpty
    <3>2. CASE tables # <<>>
      BY <3>2, <2>1 DEF ColumnsAsDeclared, ColumnsDeclared
    <3> QED
      BY <3>1, <3>2
  <2>6. \A s \in Elements(tables') :
          s.columns = [i \in DOMAIN Entity(s).attrs |-> ColumnOf(Entity(s).attrs[i])]
    <3>1. Elements(tables') = Elements(tables) \cup {t}
      BY <2>2, <2>4
    <3> QED
      BY <3>1, <2>2, <2>5
  <2>7. \A k : Declared(k)' = Declared(k)
    BY <2>0 DEF Declared
  <2>8. \A k : Names(k)' = Names(k)
    BY <2>7 DEF Names
  <2>9. \A s : Derivation(s)' = Derivation(s)
    BY <2>7 DEF Derivation
  <2>10. \A a : ColumnOf(a)' = ColumnOf(a)
    BY <2>7, <2>8, <2>9 DEF ColumnOf
  <2>11. \A s : Entity(s)' = Entity(s)
    BY <2>0, <2>7 DEF Entity
  <2> QED
    BY <2>6, <2>10, <2>11 DEF ColumnsDeclared
<1>4. CASE ~(scan_item \/ init_entity \/ (create_pgsql_for_entity /\ tables' # tables))
  <2>1. UNCHANGED <<file, entities, tables>>
    <3>1. CASE scan_error \/ end_scan \/ init_type \/ skip_item \/ end_parse
      BY <3>1 DEF scan_error, end_scan, init_type, skip_item, end_parse
    <3>2. CASE Shows \/ sql \/ link \/ next_entity
      BY <3>2, ShowsFacts DEF Still, sql, link, next_entity
    <3>3. CASE start_sort \/ sort \/ check_first \/ write_file
      BY <3>3 DEF start_sort, sort, check_first, write_file, fileVars
    <3>4. CASE create_pgsql_for_entity /\ tables' = tables
      BY <3>4 DEF create_pgsql_for_entity
    <3>5. CASE UNCHANGED vars
      BY <3>5 DEF vars, fileVars
    <3> QED
      BY <1>4, <3>1, <3>2, <3>3, <3>4, <3>5 DEF Next, Shows
  <2> QED
    BY <1>1, <2>1
<1> QED
  BY <1>2, <1>3, <1>4

\* What the columns rest on: descriptors of types and attributes are as the text
\* declares them, for any text that meets FilesAssumption.
THEOREM TypesInvariant == Spec => []TInv
<1>1. TInv /\ SInv /\ Inv /\ [Next]_vars => TInv'
  BY NextTInv
<1> QED
  BY <1>1, InitTInv, SchemaInvariant, PTL DEF Spec

\* On every well-formed schema whose types are used one way, whatever its size,
\* every column of every table has the type that its attribute is declared with.
THEOREM ColumnsAsDeclaredHolds == Spec => []ColumnsAsDeclared
<1>1. Init => ColumnsAsDeclared
  BY DEF Init, ColumnsAsDeclared
<1>2. ColumnsAsDeclared /\ TInv /\ SInv /\ Inv /\ EdgesKnown /\ [Next]_vars => ColumnsAsDeclared'
  BY ColumnsNext
<1>3. GraphSpec => [](EdgesKnown /\ Complete /\ LoopsEnd)
  BY GraphInvariant, CompleteInit, CompleteNext, PTL DEF GraphSpec
<1> QED
  BY <1>1, <1>2, <1>3, TypesInvariant, SchemaInvariant, SchemaImplementsGraph, PTL DEF Spec

=============================================================================
