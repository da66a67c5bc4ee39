---------------------------- MODULE ProjectGraph ----------------------------
(***************************************************************************)
(* What the evidence repository promises its callers: one graph per        *)
(* project, replaced whole, and only by what the last one grew into.       *)
(***************************************************************************)
EXTENDS EvidenceGraph

CONSTANT Seed  \* the graph a project starts from, not empty

VARIABLE graph

Init == graph = NoGraph

\* A project without a graph is seeded, and one with a graph may be reset.
Reset == graph' = Seed

GrowNode(n) == graph.nodes # {} /\ graph' = AddNode(graph, n)

GrowEdge(e) == MayAddEdge(graph, e) /\ graph' = AddEdge(graph, e)

\* Erasure, which a failure may leave half done: the edges go first.
Erase == graph' \in {NoGraph, [graph EXCEPT !.edges = {}]}

Next ==
  \/ Reset \/ Erase
  \/ \E n \in Node : GrowNode(n)
  \/ \E e \in Edge : GrowEdge(e)

Spec == Init /\ [][Next]_graph
=============================================================================
