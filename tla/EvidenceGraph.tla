--------------------------- MODULE EvidenceGraph ---------------------------
(***************************************************************************)
(* The evidence graph of one project and the two ways it grows             *)
(* (packages/evidence-graph/src/graph.ts).  Operators only.                *)
(*                                                                         *)
(* A node is its content: its id is a digest of it.  An edge points at a   *)
(* node or, when it names an author or a tool, at a name that some node    *)
(* carries.  The list of edges is a set here: no property tells a repeated *)
(* edge from a single one.                                                 *)
(***************************************************************************)
CONSTANTS Node,     \* contents
          Name,     \* authors, and tools: an edge to one has the type for it
          Carries,  \* the names each node's content carries
          Edge      \* the edges anybody may ask for

ASSUME CarriesAssumption == Carries \in [Node -> SUBSET Name]
ASSUME EdgeAssumption == Edge \subseteq [from : Node, to : Node \cup Name]
\* No author and no tool goes by a node's digest.
ASSUME NameAssumption == Node \cap Name = {}

Graph == [nodes : SUBSET Node, edges : SUBSET Edge]

NoGraph == [nodes |-> {}, edges |-> {}]

\* S is closed under the edges of g that lead to a node of g.
Closed(g, S) ==
  \A e \in g.edges : e.from \in S /\ e.to \in g.nodes => e.to \in S

\* hasPath: y is in everything closed that holds x.
HasPath(g, x, y) == \A S \in SUBSET (Node \cup Name) : x \in S /\ Closed(g, S) => y \in S

TargetExists(g, e) == e.to \in g.nodes \/ \E n \in g.nodes : e.to \in Carries[n]

\* Mutant of MayAddEdge: only an edge onto itself is refused.
MayAddEdgeOntoOther(g, e) ==
  /\ e.from \in g.nodes
  /\ TargetExists(g, e)
  /\ e.from # e.to

\* The throws addEdge does not take.
MayAddEdge(g, e) ==
  /\ e.from \in g.nodes
  /\ TargetExists(g, e)
  /\ e.from # e.to
  /\ ~HasPath(g, e.to, e.from)

AddEdge(g, e) == [g EXCEPT !.edges = @ \cup {e}]

\* addNode: the same content is the same node.
AddNode(g, n) == [g EXCEPT !.nodes = @ \cup {n}]

-----------------------------------------------------------------------------
\* "The graph's DAG invariant": no edge closes a path back to its own source.
Acyclic(g) == \A e \in g.edges : e.to \in g.nodes => ~HasPath(g, e.to, e.from)

\* Every edge starts at a node and ends at a node or at a name one carries.
Grounded(g) == \A e \in g.edges : e.from \in g.nodes /\ TargetExists(g, e)
=============================================================================
