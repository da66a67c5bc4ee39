------------------------ MODULE EvidenceStore_proofs ------------------------
(***************************************************************************)
(* EvidenceStore for any number of requests at once, on any graphs, and     *)
(* whatever statement fails.                                                *)
(***************************************************************************)
EXTENDS EvidenceStore, FiniteSetTheorems, TLAPS

-----------------------------------------------------------------------------
(* What addNode and addEdge keep, for graphs of any size *)

\* A path that exists is still there, or newly there, only through the new
\* edge: adding f makes y reachable from x only where it was, or where f.from
\* was reachable from x and y from f.to.
LEMMA PathsThroughNewEdge ==
  ASSUME NEW g, NEW f, g \in Graph, f \in Edge,
         NEW x \in Node \cup Name, NEW y \in Node \cup Name,
         HasPath(AddEdge(g, f), x, y)
  PROVE  \/ HasPath(g, x, y)
         \/ HasPath(g, x, f.from) /\ f.to \in g.nodes /\ HasPath(g, f.to, y)
PROOF
  <1> DEFINE G == AddEdge(g, f)
             R(a) == {z \in Node \cup Name : HasPath(g, a, z)}
  <1>1. G.edges = g.edges \cup {f} /\ G.nodes = g.nodes
    BY DEF AddEdge, Graph
  <1>2. f.from \in Node \cup Name /\ f.to \in Node \cup Name
    BY EdgeAssumption
  <1>3. \A e \in g.edges : e.from \in Node \cup Name /\ e.to \in Node \cup Name
    BY EdgeAssumption DEF Graph
  <1>4. \A a \in Node \cup Name : a \in R(a) /\ Closed(g, R(a))
    BY <1>3 DEF HasPath, Closed
  <1> HIDE DEF R
  <1>5. \A a, z \in Node \cup Name : z \in R(a) <=> HasPath(g, a, z)
    BY DEF R
  <1>6. \A a : R(a) \in SUBSET (Node \cup Name)
    BY DEF R
  <1>7. CASE f.from \in R(x) /\ f.to \in g.nodes
    <2>1. Closed(G, R(x) \cup R(f.to))
      BY <1>1, <1>2, <1>4 DEF Closed
    <2>2. y \in R(x) \cup R(f.to)
      BY <2>1, <1>2, <1>4, <1>6 DEF HasPath
    <2> QED
      BY <2>2, <1>5, <1>7, <1>2
  <1>8. CASE ~(f.from \in R(x) /\ f.to \in g.nodes)
    <2>1. Closed(G, R(x))
      BY <1>1, <1>4, <1>8 DEF Closed
    <2>2. y \in R(x)
      BY <2>1, <1>4, <1>6 DEF HasPath
    <2> QED
      BY <2>2, <1>5
  <1> QED
    BY <1>7, <1>8

\* Reachability composes.
LEMMA PathsCompose ==
  ASSUME NEW g, NEW x, NEW y, NEW z, HasPath(g, x, y), HasPath(g, y, z)
  PROVE  HasPath(g, x, z)
BY DEF HasPath

\* An edge is itself a path to its target, when that is a node.
LEMMA EdgeIsPath ==
  ASSUME NEW g, NEW e \in g.edges, e.to \in g.nodes
  PROVE  HasPath(g, e.from, e.to)
BY DEF HasPath, Closed

\* addEdge preserves "the graph's DAG invariant": an edge that it does not
\* refuse closes no cycle, through however many nodes.
THEOREM AddEdgeKeepsAcyclic ==
  ASSUME NEW g \in Graph, NEW f \in Edge, Acyclic(g), MayAddEdge(g, f)
  PROVE  Acyclic(AddEdge(g, f))
PROOF
  <1> DEFINE G == AddEdge(g, f)
  <1>1. G.edges = g.edges \cup {f} /\ G.nodes = g.nodes
    BY DEF AddEdge, Graph
  <1>2. SUFFICES ASSUME NEW e \in G.edges, e.to \in G.nodes, HasPath(G, e.to, e.from)
                 PROVE  FALSE
    BY DEF Acyclic
  <1>3. e \in Edge /\ e.to \in Node \cup Name /\ e.from \in Node \cup Name
    BY <1>1, EdgeAssumption DEF Graph
  <1>4. ~HasPath(g, f.to, f.from)
    BY DEF MayAddEdge
  <1>5. \/ HasPath(g, e.to, e.from)
        \/ HasPath(g, e.to, f.from) /\ f.to \in g.nodes /\ HasPath(g, f.to, e.from)
    BY <1>2, <1>3, PathsThroughNewEdge
  <1>6. CASE e = f
    BY <1>4, <1>5, <1>6
  <1>7. CASE e \in g.edges
    <2>1. ~HasPath(g, e.to, e.from)
      BY <1>1, <1>2, <1>7 DEF Acyclic
    <2>2. HasPath(g, e.from, e.to)
      BY <1>1, <1>2, <1>7, EdgeIsPath
    <2>3. HasPath(g, f.to, e.from) /\ HasPath(g, e.to, f.from)
      BY <1>5, <2>1
    <2>4. HasPath(g, f.to, e.to)
      BY <2>2, <2>3, PathsCompose
    <2>5. HasPath(g, f.to, f.from)
      BY <2>3, <2>4, PathsCompose
    <2> QED
      BY <2>5, <1>4
  <1> QED
    BY <1>1, <1>6, <1>7

\* addEdge leaves no edge dangling.
THEOREM AddEdgeKeepsGrounded ==
  ASSUME NEW g \in Graph, NEW f \in Edge, Grounded(g), MayAddEdge(g, f)
  PROVE  Grounded(AddEdge(g, f))
BY DEF Grounded, MayAddEdge, AddEdge, TargetExists, Graph

\* addNode closes no path either, in a graph without dangling edges: what an
\* edge of it names is a node already, or no node at all.
THEOREM AddNodeKeepsWellFormed ==
  ASSUME NEW g \in Graph, NEW n \in Node, Acyclic(g), Grounded(g)
  PROVE  Acyclic(AddNode(g, n)) /\ Grounded(AddNode(g, n))
PROOF
  <1> DEFINE G == AddNode(g, n)
  <1>1. G.edges = g.edges /\ G.nodes = g.nodes \cup {n}
    BY DEF AddNode, Graph
  <1>2. \A e \in g.edges : e.to \in G.nodes <=> e.to \in g.nodes
    <2>1. SUFFICES ASSUME NEW e \in g.edges, e.to \in Node, e.to \notin g.nodes
                   PROVE  FALSE
      BY <1>1 DEF Graph
    <2> QED
      BY <2>1, CarriesAssumption, NameAssumption DEF Grounded, TargetExists, Graph
  <1>3. \A S : Closed(G, S) <=> Closed(g, S)
    BY <1>1, <1>2 DEF Closed
  <1>4. \A x, y : HasPath(G, x, y) <=> HasPath(g, x, y)
    BY <1>3 DEF HasPath
  <1>5. Acyclic(G)
    BY <1>1, <1>2, <1>4 DEF Acyclic
  <1>6. Grounded(G)
    BY <1>1 DEF Grounded, TargetExists
  <1> QED
    BY <1>5, <1>6

-----------------------------------------------------------------------------
(* Types *)

LEMMA AddNodeType == ASSUME NEW g \in Graph, NEW n \in Node PROVE AddNode(g, n) \in Graph
BY DEF Graph, AddNode

LEMMA AddEdgeType == ASSUME NEW g \in Graph, NEW e \in Edge PROVE AddEdge(g, e) \in Graph
BY DEF Graph, AddEdge

LEMMA NoGraphType == NoGraph \in Graph
BY DEF Graph, NoGraph

LEMMA JobType ==
  /\ [op |-> "load"] \in Job
  /\ \A j \in Job : /\ j.op = "addNode" => j.node \in Node
                    /\ j.op = "addEdge" => j.edge \in Edge
BY DEF Job

-----------------------------------------------------------------------------
\* What the connection and one request do, apart: the steps of Next are each
\* one of these on either side.

LEMMA ReturnType ==
  ASSUME TypeOK, NEW p \in Proc, Return(p)
  PROVE  /\ job' \in [Proc -> Job] /\ pc' \in [Proc -> Step]
         /\ memory' \in [Proc -> Graph] /\ todo' \in [Proc -> Graph]
         /\ seeding' \in [Proc -> BOOLEAN]
BY NoGraphType, JobType DEF TypeOK, Return, Goto, Step

LEMMA ChangeType ==
  ASSUME TypeOK, NEW p \in Proc, NEW g \in Graph, Change(p, g)
  PROVE  /\ job' \in [Proc -> Job] /\ pc' \in [Proc -> Step]
         /\ memory' \in [Proc -> Graph] /\ todo' \in [Proc -> Graph]
         /\ seeding' \in [Proc -> BOOLEAN]
PROOF
  <1>1. job[p] \in Job
    BY DEF TypeOK
  <1>2. CASE /\ job[p].op = "addNode"
             /\ memory' = [memory EXCEPT ![p] = AddNode(g, job[p].node)]
             /\ Goto(p, "begin")
             /\ seeding' = [seeding EXCEPT ![p] = FALSE]
             /\ UNCHANGED <<job, todo>>
    <2>1. AddNode(g, job[p].node) \in Graph
      BY <1>1, <1>2, JobType, AddNodeType
    <2> QED
      BY <1>2, <2>1 DEF TypeOK, Goto, Step
  <1>3. CASE /\ job[p].op = "addEdge"
             /\ memory' = [memory EXCEPT ![p] = AddEdge(g, job[p].edge)]
             /\ Goto(p, "begin")
             /\ seeding' = [seeding EXCEPT ![p] = FALSE]
             /\ UNCHANGED <<job, todo>>
    <2>1. AddEdge(g, job[p].edge) \in Graph
      BY <1>1, <1>3, JobType, AddEdgeType
    <2> QED
      BY <1>3, <2>1 DEF TypeOK, Goto, Step
  <1>4. CASE Return(p)
    BY <1>4, ReturnType
  <1> QED
    BY <1>2, <1>3, <1>4 DEF Change

LEMMA AbortType ==
  ASSUME TypeOK, Abort
  PROVE  /\ rows' \in Graph /\ base' \in Graph
         /\ tx' \in {"none", "open", "failed"}
         /\ tx' = "none" => base' = NoGraph
BY DEF TypeOK, Abort

LEMMA EndTxType ==
  ASSUME NEW g \in Graph, EndTx(g)
  PROVE  /\ rows' \in Graph /\ base' \in Graph
         /\ tx' \in {"none", "open", "failed"}
         /\ tx' = "none" => base' = NoGraph
BY NoGraphType DEF EndTx

-----------------------------------------------------------------------------
LEMMA TypeKept == ASSUME TypeOK, [Next]_vars PROVE TypeOK'
PROOF
  <1> USE DEF TypeOK, Goto, Step, Saving, Erasing, connection, request
  <1>1. ASSUME NEW p \in Proc, Start(p) PROVE TypeOK'
    BY <1>1, SeedAssumption, NoGraphType DEF Start
  <1>2. ASSUME NEW p \in Proc, ReadNodes(p) PROVE TypeOK'
    <2>1. [nodes |-> rows.nodes, edges |-> {}] \in Graph
      BY DEF Graph
    <2>2. CASE Fail /\ Return(p)
      BY <2>2, AbortType, ReturnType DEF Fail
    <2>3. CASE /\ Run(p, rows, IF rows.nodes = {} THEN "saveProject" ELSE "readEdges")
               /\ memory' = [memory EXCEPT ![p] =
                    IF rows.nodes = {} THEN Seed ELSE [nodes |-> rows.nodes, edges |-> {}]]
               /\ seeding' = [seeding EXCEPT ![p] = rows.nodes = {}]
               /\ UNCHANGED <<job, todo>>
      <3>1. seeding' \in [Proc -> BOOLEAN]
        BY <2>3
      <3> QED
        BY <2>1, <2>3, <3>1, SeedAssumption DEF Run
    <2> QED
      BY <1>2, <2>2, <2>3 DEF ReadNodes
  <1>3. ASSUME NEW p \in Proc, ReadEdges(p) PROVE TypeOK'
    <2>1. [memory[p] EXCEPT !.edges = rows.edges] \in Graph
      BY DEF Graph
    <2> QED
      BY <1>3, <2>1, AbortType, ReturnType, ChangeType DEF ReadEdges, Fail
  <1>4. ASSUME NEW p \in Proc, SaveProject(p) PROVE TypeOK'
    BY <1>4, AbortType, ReturnType DEF SaveProject, Fail, Run
  <1>5. ASSUME NEW p \in Proc, Begin(p) PROVE TypeOK'
    BY <1>5, AbortType, ReturnType DEF Begin, Fail
  <1>6. ASSUME NEW p \in Proc, DeleteEdges(p) PROVE TypeOK'
    <2>1. [rows EXCEPT !.edges = {}] \in Graph
      BY DEF Graph
    <2> QED
      BY <1>6, <2>1, AbortType DEF DeleteEdges, Fail, Run, Throw
  <1>7. ASSUME NEW p \in Proc, DeleteNodes(p) PROVE TypeOK'
    <2>1. [rows EXCEPT !.nodes = {}] \in Graph
      BY DEF Graph
    <2> QED
      BY <1>7, <2>1, AbortType DEF DeleteNodes, Fail, Run, Throw
  <1>8. ASSUME NEW p \in Proc, InsertNode(p) PROVE TypeOK'
    <2>1. todo[p] \in Graph
      OBVIOUS
    <2>2. ASSUME NEW n \in todo[p].nodes
          PROVE  /\ [rows EXCEPT !.nodes = @ \cup {n}] \in Graph
                 /\ [todo EXCEPT ![p].nodes = @ \ {n}] \in [Proc -> Graph]
      BY <2>1 DEF Graph
    <2>3. CASE UNCHANGED <<connection, request>> /\ Goto(p, "insertEdges")
      BY <2>3
    <2>4. CASE \E n \in todo[p].nodes :
                 /\ Run(p, [rows EXCEPT !.nodes = @ \cup {n}], "insertNodes")
                 /\ todo' = [todo EXCEPT ![p].nodes = @ \ {n}]
                 /\ UNCHANGED <<job, memory, seeding>>
      <3>1. PICK n \in todo[p].nodes :
              /\ Run(p, [rows EXCEPT !.nodes = @ \cup {n}], "insertNodes")
              /\ todo' = [todo EXCEPT ![p].nodes = @ \ {n}]
              /\ UNCHANGED <<job, memory, seeding>>
        BY <2>4
      <3>2. rows' \in Graph /\ todo' \in [Proc -> Graph]
        BY <2>2, <3>1 DEF Run
      <3>3. pc' \in [Proc -> Step]
        BY <3>1 DEF Run
      <3> QED
        BY <3>1, <3>2, <3>3 DEF Run
    <2>5. CASE Abort /\ Throw(p)
      BY <2>5, AbortType DEF Throw
    <2> QED
      BY <1>8, <2>3, <2>4, <2>5 DEF InsertNode, Fail
  <1>9. ASSUME NEW p \in Proc, InsertEdge(p) PROVE TypeOK'
    <2>1. todo[p] \in Graph
      OBVIOUS
    <2>2. ASSUME NEW e \in todo[p].edges
          PROVE  /\ [rows EXCEPT !.edges = @ \cup {e}] \in Graph
                 /\ [todo EXCEPT ![p].edges = @ \ {e}] \in [Proc -> Graph]
      BY <2>1 DEF Graph
    <2>3. CASE UNCHANGED <<connection, request>> /\ Goto(p, "commit")
      BY <2>3
    <2>4. CASE \E e \in todo[p].edges :
                 /\ Run(p, [rows EXCEPT !.edges = @ \cup {e}], "insertEdges")
                 /\ todo' = [todo EXCEPT ![p].edges = @ \ {e}]
                 /\ UNCHANGED <<job, memory, seeding>>
      <3>1. PICK e \in todo[p].edges :
              /\ Run(p, [rows EXCEPT !.edges = @ \cup {e}], "insertEdges")
              /\ todo' = [todo EXCEPT ![p].edges = @ \ {e}]
              /\ UNCHANGED <<job, memory, seeding>>
        BY <2>4
      <3>2. rows' \in Graph /\ todo' \in [Proc -> Graph]
        BY <2>2, <3>1 DEF Run
      <3>3. pc' \in [Proc -> Step]
        BY <3>1 DEF Run
      <3> QED
        BY <3>1, <3>2, <3>3 DEF Run
    <2>5. CASE Abort /\ Throw(p)
      BY <2>5, AbortType DEF Throw
    <2> QED
      BY <1>9, <2>3, <2>4, <2>5 DEF InsertEdge, Fail
  <1>10. ASSUME NEW p \in Proc, Commit(p) PROVE TypeOK'
    BY <1>10, EndTxType, ReturnType, ChangeType DEF Commit
  <1>11. ASSUME NEW p \in Proc, Rollback(p) PROVE TypeOK'
    BY <1>11, EndTxType, ReturnType DEF Rollback
  <1>12. ASSUME NEW p \in Proc, EraseEdges(p) PROVE TypeOK'
    <2>1. [rows EXCEPT !.edges = {}] \in Graph
      BY DEF Graph
    <2> QED
      BY <1>12, <2>1, AbortType, ReturnType DEF EraseEdges, Fail, Run
  <1>13. ASSUME NEW p \in Proc, EraseNodes(p) PROVE TypeOK'
    <2>1. [rows EXCEPT !.nodes = {}] \in Graph
      BY DEF Graph
    <2> QED
      BY <1>13, <2>1, AbortType, ReturnType DEF EraseNodes, Fail, Run
  <1>14. ASSUME NEW p \in Proc, EraseProject(p) PROVE TypeOK'
    BY <1>14, AbortType, ReturnType DEF EraseProject, Fail
  <1>15. CASE Restart
    BY <1>15, EndTxType, NoGraphType, JobType DEF Restart
  <1>16. CASE UNCHANGED vars
    BY <1>16 DEF vars
  <1> QED
    BY <1>1, <1>2, <1>3, <1>4, <1>5, <1>6, <1>7, <1>8, <1>9, <1>10, <1>11,
       <1>12, <1>13, <1>14, <1>15, <1>16 DEF Next

LEMMA TypeInit == Init => TypeOK
BY NoGraphType, JobType DEF Init, TypeOK, Step

\* The tables, the requests and what they remember have their types throughout.
THEOREM TypeCorrect == Spec => []TypeOK
BY TypeInit, TypeKept, PTL DEF Spec

-----------------------------------------------------------------------------
(* QuietConnection is inductive as it stands, beside the type: a request    *)
(* that has begun leaves saveGraph only through COMMIT or ROLLBACK, each of *)
(* which ends the connection's transaction whoever began it.                *)

InSave(p) == pc[p] \in Saving \cup {"rollback"}

\* A step of p that stays inside saveGraph, or that begins outside of it, and
\* that opens no transaction, leaves the connection as quiet as it was.
LEMMA OtherStepQuiet ==
  ASSUME TypeOK, QuietConnection, NEW p \in Proc, NEW s, Goto(p, s),
         tx' # "none" => tx # "none",
         ~InSave(p) \/ s \in Saving \cup {"rollback"}
  PROVE  QuietConnection'
BY DEF TypeOK, QuietConnection, Goto, InSave, Step, Saving, Erasing

LEMMA QuietKept == ASSUME TypeOK, QuietConnection, [Next]_vars PROVE QuietConnection'
PROOF
  <1> USE DEF InSave, Saving, Erasing
  <1>1. ASSUME NEW p \in Proc, Start(p) PROVE QuietConnection'
    <2>1. PICK s : Goto(p, s)
      BY <1>1 DEF Start
    <2> QED
      BY <1>1, <2>1, OtherStepQuiet DEF Start, connection
  <1>2. ASSUME NEW p \in Proc, ReadNodes(p) PROVE QuietConnection'
    BY <1>2, OtherStepQuiet DEF ReadNodes, Run, Fail, Abort, Return
  <1>3. ASSUME NEW p \in Proc, ReadEdges(p) PROVE QuietConnection'
    BY <1>3, OtherStepQuiet DEF ReadEdges, Fail, Abort, Return, Change, connection
  <1>4. ASSUME NEW p \in Proc, SaveProject(p) PROVE QuietConnection'
    BY <1>4, OtherStepQuiet DEF SaveProject, Run, Fail, Abort, Return
  <1>5. ASSUME NEW p \in Proc, Begin(p) PROVE QuietConnection'
    <2>1. CASE Goto(p, "deleteEdges")
      <3>1. pc'[p] = "deleteEdges"
        BY <2>1 DEF Goto, TypeOK
      <3> QED
        BY <3>1 DEF QuietConnection
    <2>2. CASE Return(p) /\ (Fail \/ UNCHANGED connection)
      BY <1>5, <2>2, OtherStepQuiet DEF Begin, Fail, Abort, Return, connection
    <2> QED
      BY <1>5, <2>1, <2>2 DEF Begin
  <1>6. ASSUME NEW p \in Proc, DeleteEdges(p) PROVE QuietConnection'
    BY <1>6, OtherStepQuiet DEF DeleteEdges, Run, Fail, Abort, Throw
  <1>7. ASSUME NEW p \in Proc, DeleteNodes(p) PROVE QuietConnection'
    BY <1>7, OtherStepQuiet DEF DeleteNodes, Run, Fail, Abort, Throw
  <1>8. ASSUME NEW p \in Proc, InsertNode(p) PROVE QuietConnection'
    BY <1>8, OtherStepQuiet DEF InsertNode, Run, Fail, Abort, Throw, connection
  <1>9. ASSUME NEW p \in Proc, InsertEdge(p) PROVE QuietConnection'
    BY <1>9, OtherStepQuiet DEF InsertEdge, Run, Fail, Abort, Throw, connection
  <1>10. ASSUME NEW p \in Proc, Commit(p) PROVE QuietConnection'
    BY <1>10 DEF Commit, EndTx, QuietConnection
  <1>11. ASSUME NEW p \in Proc, Rollback(p) PROVE QuietConnection'
    BY <1>11 DEF Rollback, EndTx, QuietConnection
  <1>12. ASSUME NEW p \in Proc, EraseEdges(p) PROVE QuietConnection'
    BY <1>12, OtherStepQuiet DEF EraseEdges, Run, Fail, Abort, Return
  <1>13. ASSUME NEW p \in Proc, EraseNodes(p) PROVE QuietConnection'
    BY <1>13, OtherStepQuiet DEF EraseNodes, Run, Fail, Abort, Return
  <1>14. ASSUME NEW p \in Proc, EraseProject(p) PROVE QuietConnection'
    BY <1>14, OtherStepQuiet DEF EraseProject, Fail, Abort, Return, connection
  <1>15. CASE Restart
    BY <1>15 DEF Restart, EndTx, QuietConnection
  <1>16. CASE UNCHANGED vars
    BY <1>16 DEF vars, connection, QuietConnection
  <1> QED
    BY <1>1, <1>2, <1>3, <1>4, <1>5, <1>6, <1>7, <1>8, <1>9, <1>10, <1>11,
       <1>12, <1>13, <1>14, <1>15, <1>16 DEF Next

LEMMA QuietInit == Init => QuietConnection
BY DEF Init, QuietConnection

\* However many requests share the connection, and however they interleave, it
\* is never left inside a transaction that no request is there to end.
THEOREM ConnectionIsQuiet == Spec => []QuietConnection
BY TypeInit, TypeKept, QuietInit, QuietKept, PTL DEF Spec
-----------------------------------------------------------------------------
(* One request at a time.  Then what is stored is well formed and a save    *)
(* that returns has stored its graph, for graphs of any size, whichever     *)
(* statement fails and whenever the process dies.  StoreInv says, for each  *)
(* statement a request may be about to send, what the connection and the    *)
(* request hold: without it neither is inductive, for what COMMIT stores    *)
(* was put together over all the statements since BEGIN.                    *)

Sound(g) == Acyclic(g) /\ Grounded(g)

OthersIdle(p) == \A q \in Proc : q # p => pc[q] = "idle"

\* The connection is in a transaction exactly while p saves, and in a failed
\* one only until p rolls it back.
Paired(p) ==
  /\ tx # "none" => InSave(p)
  /\ tx = "failed" => pc[p] = "rollback"
  /\ pc[p] \in Saving => tx = "open"

\* What p carries is sound, and what it read is what is there.
Carried(p) ==
  /\ pc[p] \in {"saveProject", "begin"} \cup Saving => Sound(memory[p])
  /\ pc[p] = "readEdges" => memory[p].nodes = rows.nodes

\* How far a save or an erasure has come, at each of its statements.
Progress(p) ==
  /\ pc[p] \in {"deleteEdges", "deleteNodes"} => todo[p] = memory[p]
  /\ pc[p] \in {"deleteNodes", "insertNodes", "eraseNodes"} => rows.edges = {}
  /\ pc[p] = "insertNodes" => /\ rows.nodes \cup todo[p].nodes = memory[p].nodes
                              /\ todo[p].edges = memory[p].edges
  /\ pc[p] = "insertEdges" => /\ rows.nodes = memory[p].nodes
                              /\ rows.edges \cup todo[p].edges = memory[p].edges
  /\ pc[p] = "commit" => rows = memory[p]

Local(p) == Paired(p) /\ Carried(p) /\ Progress(p)

\* Either nobody is there, or one request is and all is as it left it.
StoreInv ==
  /\ WellFormed
  /\ \/ tx = "none" /\ \A p \in Proc : pc[p] = "idle"
     \/ \E p \in Proc : OthersIdle(p) /\ Local(p)

LEMMA NoEdgesSound == ASSUME NEW g, g.edges = {} PROVE Sound(g)
BY DEF Sound, Acyclic, Grounded

LEMMA SameStored == ASSUME WellFormed, Committed' = Committed PROVE WellFormed'
BY DEF WellFormed

LEMMA NowStored == ASSUME Sound(Committed') PROVE WellFormed'
BY DEF WellFormed, Sound

LEMMA ChangeSound ==
  ASSUME TypeOK, NEW p \in Proc, NEW g \in Graph, Sound(g), Change(p, g)
  PROVE  \/ pc'[p] = "begin" /\ Sound(memory'[p])
         \/ pc'[p] = "idle"
PROOF
  <1>1. job[p] \in Job
    BY DEF TypeOK
  <1>2. CASE /\ job[p].op = "addNode"
             /\ memory' = [memory EXCEPT ![p] = AddNode(g, job[p].node)]
             /\ Goto(p, "begin")
    BY <1>1, <1>2, JobType, AddNodeKeepsWellFormed DEF Sound, TypeOK, Goto
  <1>3. CASE /\ job[p].op = "addEdge" /\ MayAddEdge(g, job[p].edge)
             /\ memory' = [memory EXCEPT ![p] = AddEdge(g, job[p].edge)]
             /\ Goto(p, "begin")
    <2>1. Sound(AddEdge(g, job[p].edge))
      BY <1>1, <1>3, JobType, AddEdgeKeepsAcyclic, AddEdgeKeepsGrounded DEF Sound
    <2> QED
      BY <1>3, <2>1 DEF TypeOK, Goto
  <1>4. CASE Return(p)
    BY <1>4 DEF Return, Goto, TypeOK
  <1> QED
    BY <1>2, <1>3, <1>4 DEF Change

\* A request that ends, or rolls back, outside of a transaction, or ends one.
LEMMA EndKeeps ==
  ASSUME TypeOK, NEW p \in Proc, OthersIdle(p), Return(p), tx' = "none"
  PROVE  OthersIdle(p)' /\ Local(p)'
BY DEF TypeOK, OthersIdle, Return, Goto, Local, Paired, Carried, Progress, InSave, Saving

\* A statement of saveGraph that throws leaves what was stored as it was.
LEMMA ThrowKeeps ==
  ASSUME TypeOK, WellFormed, NEW p \in Proc, OthersIdle(p), Local(p),
         pc[p] \in Saving, Abort, Throw(p)
  PROVE  WellFormed' /\ OthersIdle(p)' /\ Local(p)'
PROOF
  <1>1. tx = "open" /\ tx' = "failed" /\ UNCHANGED <<rows, base>>
    BY DEF Local, Paired, Abort
  <1>2. WellFormed'
    BY <1>1, SameStored DEF Committed
  <1> QED
    BY <1>1, <1>2 DEF TypeOK, OthersIdle, Throw, Goto, Local, Paired, Carried,
       Progress, InSave, Saving

-----------------------------------------------------------------------------
\* The steps of a request that is in memory, or outside of saveGraph's try.
LEMMA OutsideKeeps ==
  ASSUME TypeOK, StoreInv, Sound(Seed), NEW p \in Proc, OthersIdle(p), Local(p),
         ReadNodes(p) \/ ReadEdges(p) \/ SaveProject(p) \/ Begin(p)
  PROVE  WellFormed' /\ OthersIdle(p)' /\ Local(p)'
PROOF
  <1> USE DEF Saving, InSave
  <1>1. tx = "none" /\ pc[p] \notin Saving \cup {"rollback"}
    BY DEF ReadNodes, ReadEdges, SaveProject, Begin, Local, Paired, TypeOK
  <1>2. Sound(rows)
    BY <1>1 DEF StoreInv, WellFormed, Committed, Sound
  <1>3. ASSUME rows' = rows, tx' = "none" \/ base' = rows PROVE WellFormed'
    BY <1>1, <1>3, SameStored DEF Committed, StoreInv
  <1>4. CASE Return(p) /\ (Fail \/ UNCHANGED connection)
    <2>1. rows' = rows /\ tx' = "none"
      BY <1>1, <1>4 DEF Fail, Abort, connection
    <2> QED
      BY <1>3, <1>4, <2>1, EndKeeps
  <1>5. CASE /\ Run(p, rows, IF rows.nodes = {} THEN "saveProject" ELSE "readEdges")
             /\ memory' = [memory EXCEPT ![p] =
                  IF rows.nodes = {} THEN Seed ELSE [nodes |-> rows.nodes, edges |-> {}]]
    <2>1. /\ rows' = rows /\ tx' = tx
          /\ pc' = [pc EXCEPT ![p] = IF rows.nodes = {} THEN "saveProject" ELSE "readEdges"]
      BY <1>5 DEF Run, Goto
    <2>2. OthersIdle(p)' /\ Local(p)'
      BY <1>1, <1>5, <2>1 DEF TypeOK, OthersIdle, Local, Paired, Carried, Progress
    <2> QED
      BY <1>1, <1>3, <2>1, <2>2
  <1>6. CASE ReadEdges(p) /\ Change(p, [memory[p] EXCEPT !.edges = rows.edges])
                          /\ UNCHANGED connection
    <2>1. [memory[p] EXCEPT !.edges = rows.edges] = rows
      BY <1>6 DEF ReadEdges, Local, Carried, TypeOK, Graph
    <2>2. \/ pc'[p] = "begin" /\ Sound(memory'[p])
          \/ pc'[p] = "idle"
      BY <1>2, <1>6, <2>1, ChangeSound DEF TypeOK
    <2>3. OthersIdle(p)'
      BY <1>6 DEF OthersIdle, TypeOK, Change, Goto, Return
    <2>4. Local(p)'
      BY <1>1, <1>6, <2>2 DEF Local, Paired, Carried, Progress, connection
    <2> QED
      BY <1>1, <1>3, <1>6, <2>3, <2>4 DEF connection
  <1>7. CASE SaveProject(p) /\ Run(p, rows, "begin") /\ UNCHANGED request
    <2>1. OthersIdle(p)' /\ Local(p)'
      BY <1>1, <1>7 DEF SaveProject, Run, Goto, request, TypeOK, OthersIdle, Local,
         Paired, Carried, Progress
    <2> QED
      BY <1>1, <1>3, <1>7, <2>1 DEF Run
  <1>8. CASE /\ Begin(p)
             /\ tx' = "open" /\ base' = rows /\ rows' = rows
             /\ Goto(p, "deleteEdges")
             /\ todo' = [todo EXCEPT ![p] = memory[p]]
             /\ memory' = memory
    <2>1. OthersIdle(p)' /\ Local(p)'
      BY <1>1, <1>8 DEF Begin, Goto, TypeOK, OthersIdle, Local, Paired, Carried, Progress
    <2> QED
      BY <1>3, <1>8, <2>1
  <1> QED
    BY <1>1, <1>4, <1>5, <1>6, <1>7, <1>8 DEF ReadNodes, ReadEdges, SaveProject, Begin

\* The statements of saveGraph's try, up to COMMIT: what is stored stays.
LEMMA SavingKeeps ==
  ASSUME TypeOK, WellFormed, NEW p \in Proc, OthersIdle(p), Local(p),
         DeleteEdges(p) \/ DeleteNodes(p) \/ InsertNode(p) \/ InsertEdge(p)
  PROVE  WellFormed' /\ OthersIdle(p)' /\ Local(p)'
PROOF
  <1> USE DEF Saving, InSave
  <1>1. pc[p] \in Saving /\ tx = "open" /\ Sound(memory[p])
    BY DEF DeleteEdges, DeleteNodes, InsertNode, InsertEdge, Local, Paired, Carried
  <1>2. rows \in Graph /\ memory[p] \in Graph /\ todo[p] \in Graph
    BY DEF TypeOK
  <1>3. CASE Abort /\ Throw(p)
    BY <1>1, <1>3, ThrowKeeps
  <1>4. ASSUME base' = base, tx' = tx PROVE WellFormed'
    BY <1>1, <1>4, SameStored DEF Committed
  <1>5. CASE DeleteEdges(p) /\ Run(p, [rows EXCEPT !.edges = {}], "deleteNodes")
                            /\ UNCHANGED request
    <2>1. rows'.edges = {}
      BY <1>2, <1>5 DEF Run, Graph
    <2> QED
      BY <1>1, <1>4, <1>5, <2>1 DEF DeleteEdges, Run, Goto, request, TypeOK, OthersIdle,
         Local, Paired, Carried, Progress
  <1>6. CASE DeleteNodes(p) /\ Run(p, [rows EXCEPT !.nodes = {}], "insertNodes")
                            /\ UNCHANGED request
    <2>1. rows'.edges = rows.edges /\ rows'.nodes = {}
      BY <1>2, <1>6 DEF Run, Graph
    <2> QED
      BY <1>1, <1>4, <1>6, <2>1 DEF DeleteNodes, Run, Goto, request, TypeOK, OthersIdle,
         Local, Paired, Carried, Progress
  <1>7. CASE InsertNode(p) /\ todo[p].nodes = {} /\ Goto(p, "insertEdges")
                           /\ UNCHANGED <<connection, request>>
    BY <1>1, <1>4, <1>7 DEF InsertNode, Goto, connection, request, TypeOK, OthersIdle,
       Local, Paired, Carried, Progress
  <1>8. CASE InsertNode(p) /\ \E n \in todo[p].nodes :
               /\ Run(p, [rows EXCEPT !.nodes = @ \cup {n}], "insertNodes")
               /\ todo' = [todo EXCEPT ![p].nodes = @ \ {n}]
               /\ UNCHANGED <<job, memory, seeding>>
    <2>1. PICK n \in todo[p].nodes :
            /\ Run(p, [rows EXCEPT !.nodes = @ \cup {n}], "insertNodes")
            /\ todo' = [todo EXCEPT ![p].nodes = @ \ {n}]
            /\ UNCHANGED <<job, memory, seeding>>
      BY <1>8
    <2>2. /\ rows'.nodes = rows.nodes \cup {n} /\ rows'.edges = rows.edges
          /\ todo'[p].nodes = todo[p].nodes \ {n} /\ todo'[p].edges = todo[p].edges
      BY <1>2, <2>1 DEF Run, Graph, TypeOK
    <2>3. rows'.nodes \cup todo'[p].nodes = rows.nodes \cup todo[p].nodes
      BY <2>1, <2>2
    <2>4. pc[p] = "insertNodes" /\ pc' = [pc EXCEPT ![p] = "insertNodes"]
          /\ UNCHANGED <<base, tx, memory>>
      BY <1>8, <2>1 DEF InsertNode, Run, Goto
    <2>5. OthersIdle(p)' /\ Local(p)'
      BY <1>1, <2>2, <2>3, <2>4 DEF TypeOK, OthersIdle, Local, Paired, Carried, Progress
    <2> QED
      BY <1>4, <2>4, <2>5
  <1>9. CASE InsertEdge(p) /\ todo[p].edges = {} /\ Goto(p, "commit")
                           /\ UNCHANGED <<connection, request>>
    <2>1. rows = memory[p]
      BY <1>2, <1>9 DEF InsertEdge, Local, Progress, Graph
    <2> QED
      BY <1>1, <1>4, <1>9, <2>1 DEF InsertEdge, Goto, connection, request, TypeOK,
         OthersIdle, Local, Paired, Carried, Progress
  <1>10. CASE InsertEdge(p) /\ \E e \in todo[p].edges :
               /\ Run(p, [rows EXCEPT !.edges = @ \cup {e}], "insertEdges")
               /\ todo' = [todo EXCEPT ![p].edges = @ \ {e}]
               /\ UNCHANGED <<job, memory, seeding>>
    <2>1. PICK e \in todo[p].edges :
            /\ Run(p, [rows EXCEPT !.edges = @ \cup {e}], "insertEdges")
            /\ todo' = [todo EXCEPT ![p].edges = @ \ {e}]
            /\ UNCHANGED <<job, memory, seeding>>
      BY <1>10
    <2>2. /\ rows'.edges = rows.edges \cup {e} /\ rows'.nodes = rows.nodes
          /\ todo'[p].edges = todo[p].edges \ {e}
      BY <1>2, <2>1 DEF Run, Graph, TypeOK
    <2>3. rows'.edges \cup todo'[p].edges = rows.edges \cup todo[p].edges
      BY <2>1, <2>2
    <2>4. pc[p] = "insertEdges" /\ pc' = [pc EXCEPT ![p] = "insertEdges"]
          /\ UNCHANGED <<base, tx, memory>>
      BY <1>10, <2>1 DEF InsertEdge, Run, Goto
    <2>5. OthersIdle(p)' /\ Local(p)'
      BY <1>1, <2>2, <2>3, <2>4 DEF TypeOK, OthersIdle, Local, Paired, Carried, Progress
    <2> QED
      BY <1>4, <2>4, <2>5
  <1> QED
    BY <1>3, <1>5, <1>6, <1>7, <1>8, <1>9, <1>10
       DEF DeleteEdges, DeleteNodes, InsertNode, InsertEdge, Fail

\* COMMIT stores the graph the request was given; ROLLBACK, what was there.
LEMMA EndOfSaveKeeps ==
  ASSUME TypeOK, WellFormed, NEW p \in Proc, OthersIdle(p), Local(p),
         Commit(p) \/ Rollback(p)
  PROVE  WellFormed' /\ OthersIdle(p)' /\ Local(p)'
PROOF
  <1>1. CASE Commit(p)
    <2>1. tx = "open" /\ rows = memory[p] /\ Sound(memory[p])
      BY <1>1 DEF Commit, Local, Paired, Carried, Progress, Saving
    <2>2. rows' = memory[p] /\ tx' = "none"
      BY <1>1, <2>1 DEF Commit, EndTx
    <2>3. WellFormed'
      BY <2>1, <2>2, NowStored DEF Committed
    <2>4. CASE Return(p)
      BY <2>2, <2>3, <2>4, EndKeeps
    <2>5. CASE Change(p, memory[p])
      <3>1. \/ pc'[p] = "begin" /\ Sound(memory'[p])
            \/ pc'[p] = "idle"
        BY <2>1, <2>5, ChangeSound DEF TypeOK
      <3>2. OthersIdle(p)'
        BY <2>5 DEF OthersIdle, TypeOK, Change, Goto, Return
      <3> QED
        BY <2>2, <2>3, <3>1, <3>2 DEF Local, Paired, Carried, Progress, Saving
    <2> QED
      BY <1>1, <2>4, <2>5 DEF Commit
  <1>2. CASE Rollback(p)
    <2>1. tx' = "none" /\ Committed' = Committed /\ Return(p)
      BY <1>2 DEF Rollback, EndTx, Committed
    <2> QED
      BY <2>1, EndKeeps, SameStored
  <1> QED
    BY <1>1, <1>2

LEMMA ErasingKeeps ==
  ASSUME TypeOK, WellFormed, NEW p \in Proc, OthersIdle(p), Local(p),
         EraseEdges(p) \/ EraseNodes(p) \/ EraseProject(p)
  PROVE  WellFormed' /\ OthersIdle(p)' /\ Local(p)'
PROOF
  <1> USE DEF Saving, InSave
  <1>1. tx = "none" /\ pc[p] \notin Saving \cup {"rollback"}
    BY DEF EraseEdges, EraseNodes, EraseProject, Local, Paired, TypeOK
  <1>2. CASE Return(p) /\ (Fail \/ UNCHANGED connection)
    <2>1. tx' = "none" /\ Committed' = Committed
      BY <1>1, <1>2 DEF Fail, Abort, connection, Committed
    <2> QED
      BY <1>2, <2>1, EndKeeps, SameStored
  <1>3. ASSUME NEW s, Run(p, rows', s), rows'.edges = {}, s \in {"eraseNodes", "eraseProject"}
        PROVE  WellFormed' /\ OthersIdle(p)' /\ Local(p)'
    <2>1. Committed' = rows' /\ tx' = "none"
      BY <1>1, <1>3 DEF Run, Committed
    <2>2. WellFormed'
      BY <1>3, <2>1, NoEdgesSound, NowStored
    <2>3. pc' = [pc EXCEPT ![p] = s]
      BY <1>3 DEF Run, Goto
    <2> QED
      BY <1>3, <2>1, <2>2, <2>3 DEF TypeOK, OthersIdle, Local, Paired, Carried, Progress
  <1>4. CASE EraseEdges(p) /\ Run(p, [rows EXCEPT !.edges = {}], "eraseNodes")
    <2>1. rows' = [rows EXCEPT !.edges = {}] /\ rows'.edges = {}
      BY <1>4 DEF Run, TypeOK, Graph
    <2> QED
      BY <1>3, <1>4, <2>1 DEF Run
  <1>5. CASE EraseNodes(p) /\ Run(p, [rows EXCEPT !.nodes = {}], "eraseProject")
    <2>1. rows' = [rows EXCEPT !.nodes = {}] /\ rows'.edges = rows.edges
      BY <1>5 DEF Run, TypeOK, Graph
    <2>2. rows.edges = {}
      BY <1>5 DEF EraseNodes, Local, Progress
    <2> QED
      BY <1>3, <1>5, <2>1, <2>2 DEF Run
  <1> QED
    BY <1>2, <1>4, <1>5 DEF EraseEdges, EraseNodes, EraseProject

-----------------------------------------------------------------------------
\* With room for one request only, one starts when nobody is there.
LEMMA StartsAlone ==
  ASSUME IsFiniteSet(Proc), MaxActive <= 1, NEW p \in Proc, Start(p)
  PROVE  Active = {}
PROOF
  <1>1. IsFiniteSet(Active)
    BY FS_Subset DEF Active
  <1>2. Cardinality(Active) \in Nat /\ Cardinality(Active) < 1
    BY <1>1, FS_CardinalityType, MaxActiveAssumption DEF Start
  <1> QED
    BY <1>1, <1>2, FS_EmptySet

LEMMA StartKeeps ==
  ASSUME TypeOK, StoreInv, Sound(Seed), IsFiniteSet(Proc), MaxActive <= 1,
         NEW p \in Proc, Start(p)
  PROVE  StoreInv'
PROOF
  <1>1. \A q \in Proc : pc[q] = "idle"
    BY StartsAlone DEF Active
  <1>2. tx = "none"
    BY <1>1 DEF StoreInv, Local, Paired, InSave, Saving
  <1>3. tx' = "none" /\ rows' = rows
    BY <1>2 DEF Start, connection
  <1>4. WellFormed'
    BY <1>2, <1>3, SameStored DEF StoreInv, Committed
  <1>5. PICK j \in Job :
          /\ Goto(p, CASE j.op = "reset" -> "saveProject"
                       [] j.op = "erase" -> "eraseEdges"
                       [] OTHER          -> "readNodes")
          /\ memory' = [memory EXCEPT ![p] = IF j.op = "reset" THEN Seed ELSE NoGraph]
    BY DEF Start
  <1>6. OthersIdle(p)' /\ Local(p)'
    BY <1>1, <1>3, <1>5 DEF TypeOK, Goto, OthersIdle, Local, Paired, Carried, Progress,
       InSave, Saving
  <1> QED
    BY <1>4, <1>6 DEF StoreInv

LEMMA StoreKept ==
  ASSUME TypeOK, StoreInv, [Next]_vars, Sound(Seed), IsFiniteSet(Proc), MaxActive <= 1
  PROVE  StoreInv'
PROOF
  <1>1. CASE \E p \in Proc : Start(p)
    BY <1>1, StartKeeps
  <1>2. CASE Restart
    <2>1. Committed' = Committed /\ tx' = "none" /\ \A p \in Proc : pc'[p] = "idle"
      BY <1>2 DEF Restart, EndTx, Committed
    <2> QED
      BY <2>1, SameStored DEF StoreInv
  <1>3. CASE UNCHANGED vars
    <2>1. Committed' = Committed
      BY <1>3 DEF vars, connection, Committed
    <2>2. WellFormed'
      BY <2>1, SameStored DEF StoreInv
    <2> QED
      BY <1>3, <2>2 DEF vars, connection, request, StoreInv, OthersIdle, Local, Paired,
         Carried, Progress, InSave
  <1>4. ASSUME NEW p \in Proc,
               \/ ReadNodes(p) \/ ReadEdges(p) \/ SaveProject(p) \/ Begin(p)
               \/ DeleteEdges(p) \/ DeleteNodes(p) \/ InsertNode(p) \/ InsertEdge(p)
               \/ Commit(p) \/ Rollback(p)
               \/ EraseEdges(p) \/ EraseNodes(p) \/ EraseProject(p)
        PROVE  StoreInv'
    <2>1. pc[p] # "idle"
      BY <1>4 DEF ReadNodes, ReadEdges, SaveProject, Begin, DeleteEdges, DeleteNodes,
         InsertNode, InsertEdge, Commit, Rollback, EraseEdges, EraseNodes, EraseProject
    <2>2. OthersIdle(p) /\ Local(p) /\ WellFormed
      BY <2>1 DEF StoreInv, OthersIdle
    <2>3. WellFormed' /\ OthersIdle(p)' /\ Local(p)'
      BY <1>4, <2>2, OutsideKeeps, SavingKeeps, EndOfSaveKeeps, ErasingKeeps
    <2> QED
      BY <2>3 DEF StoreInv
  <1> QED
    BY <1>1, <1>2, <1>3, <1>4 DEF Next

LEMMA StoreInit == Init => StoreInv
PROOF
  <1>1. ASSUME Init PROVE Sound(Committed)
    BY <1>1, NoEdgesSound DEF Init, Committed, NoGraph
  <1> QED
    BY <1>1 DEF Init, StoreInv, WellFormed, Sound

\* One request at a time, what is stored is always a graph the domain could
\* have built: acyclic and with nothing dangling.
THEOREM StoredIsWellFormed ==
  ASSUME Sound(Seed), IsFiniteSet(Proc), MaxActive <= 1
  PROVE  Spec => []WellFormed
PROOF
  <1>1. StoreInv => WellFormed
    BY DEF StoreInv
  <1> QED
    BY <1>1, TypeInit, TypeKept, StoreInit, StoreKept, PTL DEF Spec

\* One request at a time, "saveGraph replaces the whole graph atomically":
\* a save that returns has stored the graph it was given.
THEOREM SaveIsWhole ==
  ASSUME Sound(Seed), IsFiniteSet(Proc), MaxActive <= 1
  PROVE  Spec => SavedWhole
PROOF
  <1>1. ASSUME StoreInv PROVE \A p \in Proc : Commit(p) => rows' = memory[p]
    <2>1. SUFFICES ASSUME NEW p \in Proc, Commit(p) PROVE rows' = memory[p]
      OBVIOUS
    <2>2. Local(p)
      BY <1>1, <2>1 DEF Commit, StoreInv, OthersIdle
    <2>3. tx = "open" /\ rows = memory[p]
      BY <2>1, <2>2 DEF Commit, Local, Paired, Progress, Saving
    <2> QED
      BY <2>1, <2>3 DEF Commit, EndTx
  <1> QED
    BY <1>1, TypeInit, TypeKept, StoreInit, StoreKept, PTL DEF Spec, SavedWhole
-----------------------------------------------------------------------------
(***************************************************************************)
(* The refinement: one request at a time, EvidenceStore implements          *)
(* ProjectGraph.  What would be left if the process died changes by whole   *)
(* domain operations only.                                                  *)
(***************************************************************************)

\* What a request is to save is the seed, or what is stored grown by one step.
Grown(p) ==
  pc[p] \in {"saveProject", "begin"} \cup Saving =>
    \/ memory[p] = Seed
    \/ /\ Committed.nodes # {}
       /\ \E n \in Node : memory[p] = AddNode(Committed, n)
    \/ \E e \in Edge : MayAddEdge(Committed, e) /\ memory[p] = AddEdge(Committed, e)

\* Edges are read only of a graph that has nodes.
ReadSome(p) == pc[p] = "readEdges" => rows.nodes # {}

GrownInv == \A p \in Proc : Grown(p) /\ ReadSome(p)

\* What may be saved over g has nodes.
LEMMA GrownHasNodes ==
  ASSUME TypeOK, NEW p \in Proc, Grown(p), pc[p] \in {"saveProject", "begin"} \cup Saving
  PROVE  memory[p].nodes # {}
PROOF
  <1>1. Committed \in Graph
    BY DEF TypeOK, Committed
  <1> QED
    BY <1>1, SeedAssumption DEF Grown, AddNode, AddEdge, MayAddEdge, Graph

LEMMA ChangeGrows ==
  ASSUME TypeOK, NEW p \in Proc, NEW g \in Graph, Change(p, g), g.nodes # {},
         Committed' = g
  PROVE  (Grown(p) /\ ReadSome(p))'
PROOF
  <1>1. job[p] \in Job
    BY DEF TypeOK
  <1>2. CASE job[p].op = "addNode" /\ Goto(p, "begin")
             /\ memory' = [memory EXCEPT ![p] = AddNode(g, job[p].node)]
    BY <1>1, <1>2, JobType DEF TypeOK, Goto, Grown, ReadSome
  <1>3. CASE job[p].op = "addEdge" /\ Goto(p, "begin") /\ MayAddEdge(g, job[p].edge)
             /\ memory' = [memory EXCEPT ![p] = AddEdge(g, job[p].edge)]
    BY <1>1, <1>3, JobType DEF TypeOK, Goto, Grown, ReadSome
  <1>4. CASE Return(p)
    BY <1>4 DEF Return, TypeOK, Goto, Grown, ReadSome, Saving
  <1> QED
    BY <1>2, <1>3, <1>4 DEF Change

\* A request that is idle, or rolls back, or erases, is to save nothing.
LEMMA NothingToSave ==
  ASSUME NEW p \in Proc, pc'[p] \notin {"readEdges", "saveProject", "begin"} \cup Saving
  PROVE  (Grown(p) /\ ReadSome(p))'
BY DEF Grown, ReadSome

\* ProjectGraph's operators are those of EvidenceGraph: the constants are.
LEMMA SameOperators ==
  /\ \A g, n : Promise!AddNode(g, n) = AddNode(g, n)
  /\ \A g, e : Promise!AddEdge(g, e) = AddEdge(g, e)
  /\ \A g, e : Promise!MayAddEdge(g, e) <=> MayAddEdge(g, e)
BY DEF AddNode, AddEdge, MayAddEdge, TargetExists, HasPath, Closed,
   Promise!AddNode, Promise!AddEdge, Promise!MayAddEdge, Promise!TargetExists,
   Promise!HasPath, Promise!Closed

\* A step of p alone, as StoreInv has it: the invariant after it, and the step
\* of ProjectGraph that it is.
LEMMA StepRefines ==
  ASSUME TypeOK, WellFormed, GrownInv, NEW p \in Proc, OthersIdle(p), Local(p),
         \/ ReadNodes(p) \/ ReadEdges(p) \/ SaveProject(p) \/ Begin(p)
         \/ DeleteEdges(p) \/ DeleteNodes(p) \/ InsertNode(p) \/ InsertEdge(p)
         \/ Commit(p) \/ Rollback(p)
         \/ EraseEdges(p) \/ EraseNodes(p) \/ EraseProject(p)
  PROVE  (Grown(p) /\ ReadSome(p))' /\ [Promise!Next]_Committed
PROOF
  <1> USE DEF Saving, InSave
  <1>1. rows \in Graph /\ memory[p] \in Graph /\ Grown(p) /\ ReadSome(p)
    BY DEF TypeOK, GrownInv
  <1>2. pc[p] \notin Saving \cup {"rollback"} => tx = "none" /\ Committed = rows
    BY DEF Local, Paired, TypeOK, Committed
  <1>3. ASSUME Return(p) \/ Throw(p), rows' = rows, base' = base, tx' = "none" <=> tx = "none"
        PROVE  (Grown(p) /\ ReadSome(p))' /\ [Promise!Next]_Committed
    <2>1. pc'[p] \in {"idle", "rollback"}
      BY <1>3 DEF Return, Throw, Goto, TypeOK
    <2> QED
      BY <1>3, <2>1, NothingToSave DEF Committed
  <1>4. ASSUME Abort PROVE rows' = rows /\ base' = base /\ (tx' = "none" <=> tx = "none")
    BY <1>4 DEF Abort
  <1>5. CASE (Return(p) \/ Throw(p)) /\ (Abort \/ UNCHANGED connection)
    BY <1>3, <1>4, <1>5 DEF connection
  <1>6. CASE /\ ReadNodes(p)
             /\ Run(p, rows, IF rows.nodes = {} THEN "saveProject" ELSE "readEdges")
             /\ memory' = [memory EXCEPT ![p] =
                  IF rows.nodes = {} THEN Seed ELSE [nodes |-> rows.nodes, edges |-> {}]]
    BY <1>6 DEF Run, Goto, TypeOK, Grown, ReadSome, Committed
  <1>7. CASE ReadEdges(p) /\ Change(p, [memory[p] EXCEPT !.edges = rows.edges])
                          /\ UNCHANGED connection
    <2>1. [memory[p] EXCEPT !.edges = rows.edges] = rows /\ rows.nodes # {}
      BY <1>1, <1>7 DEF ReadEdges, Local, Carried, Graph, ReadSome
    <2>2. Committed = rows /\ Committed' = rows
      BY <1>2, <1>7 DEF ReadEdges, connection, Committed
    <2> QED
      BY <1>1, <1>7, <2>1, <2>2, ChangeGrows
  <1>8. CASE SaveProject(p) /\ Run(p, rows, "begin") /\ UNCHANGED request
    <2>1. Committed' = Committed /\ memory' = memory
      BY <1>8 DEF Run, request, Committed
    <2>2. (Grown(p) /\ ReadSome(p))'
      BY <1>1, <1>8, <2>1 DEF SaveProject, Run, Goto, TypeOK, Grown, ReadSome
    <2> QED
      BY <2>1, <2>2
  <1>9. CASE /\ Begin(p) /\ Goto(p, "deleteEdges")
             /\ tx' = "open" /\ base' = (IF tx = "none" THEN rows ELSE base)
             /\ memory' = memory
    <2>1. Committed' = Committed
      BY <1>9 DEF Committed
    <2>2. (Grown(p) /\ ReadSome(p))'
      BY <1>1, <1>9, <2>1 DEF Begin, Goto, TypeOK, Grown, ReadSome
    <2> QED
      BY <2>1, <2>2
  <1>10. ASSUME NEW s \in Saving, pc[p] \in Saving, Goto(p, s), memory' = memory,
                base' = base, tx' = tx
         PROVE  (Grown(p) /\ ReadSome(p))' /\ [Promise!Next]_Committed
    <2>1. tx = "open"
      BY <1>10 DEF Local, Paired
    <2>2. Committed' = Committed
      BY <1>10, <2>1 DEF Committed
    <2>3. (Grown(p) /\ ReadSome(p))'
      BY <1>1, <1>10, <2>2 DEF Goto, TypeOK, Grown, ReadSome
    <2> QED
      BY <2>2, <2>3
  <1>11. CASE DeleteEdges(p) \/ DeleteNodes(p)
    BY <1>5, <1>10, <1>11 DEF DeleteEdges, DeleteNodes, Run, Fail, request
  <1>12. CASE InsertNode(p)
    BY <1>5, <1>10, <1>12 DEF InsertNode, Run, Fail, request, connection
  <1>13. CASE InsertEdge(p)
    BY <1>5, <1>10, <1>13 DEF InsertEdge, Run, Fail, request, connection
  <1>14. CASE Commit(p)
    <2>1. tx = "open" /\ rows = memory[p] /\ pc[p] = "commit"
      BY <1>14 DEF Commit, Local, Paired, Progress
    <2>2. Committed' = memory[p]
      BY <1>14, <2>1 DEF Commit, EndTx, Committed
    <2>3. Promise!Next
      BY <1>1, <2>1, <2>2, SameOperators DEF Grown, Promise!Next, Promise!Reset,
         Promise!GrowNode, Promise!GrowEdge
    <2>4. (Grown(p) /\ ReadSome(p))'
      <3>1. CASE Return(p)
        BY <3>1, NothingToSave DEF Return, Goto, TypeOK
      <3>2. CASE Change(p, memory[p])
        BY <1>1, <2>1, <2>2, <3>2, GrownHasNodes, ChangeGrows
      <3> QED
        BY <1>14, <3>1, <3>2 DEF Commit
    <2> QED
      BY <2>3, <2>4
  <1>15. CASE Rollback(p)
    <2>1. Committed' = Committed
      BY <1>15 DEF Rollback, EndTx, Committed
    <2>2. pc'[p] = "idle"
      BY <1>15 DEF Rollback, Return, Goto, TypeOK
    <2> QED
      BY <2>1, <2>2, NothingToSave
  <1>16. CASE EraseEdges(p) /\ Run(p, [rows EXCEPT !.edges = {}], "eraseNodes")
    <2>1. Committed' = [Committed EXCEPT !.edges = {}]
      BY <1>2, <1>16 DEF EraseEdges, Run, Committed
    <2>2. Promise!Next
      BY <2>1 DEF Promise!Next, Promise!Erase
    <2>3. pc'[p] = "eraseNodes"
      BY <1>16 DEF Run, Goto, TypeOK
    <2> QED
      BY <2>2, <2>3, NothingToSave
  <1>17. CASE EraseNodes(p) /\ Run(p, [rows EXCEPT !.nodes = {}], "eraseProject")
    <2>1. Committed' = [rows EXCEPT !.nodes = {}] /\ rows.edges = {}
      BY <1>2, <1>17 DEF EraseNodes, Run, Committed, Local, Progress
    <2>2. Committed' = NoGraph
      BY <1>1, <2>1 DEF Graph, NoGraph
    <2>3. Promise!Next
      BY <2>2 DEF Promise!Next, Promise!Erase, Promise!NoGraph, NoGraph
    <2>4. pc'[p] = "eraseProject"
      BY <1>17 DEF Run, Goto, TypeOK
    <2> QED
      BY <2>3, <2>4, NothingToSave
  <1> QED
    BY <1>5, <1>6, <1>7, <1>8, <1>9, <1>11, <1>12, <1>13, <1>14, <1>15, <1>16, <1>17
       DEF ReadNodes, ReadEdges, SaveProject, Begin, EraseEdges, EraseNodes, EraseProject, Fail

-----------------------------------------------------------------------------
LEMMA NextRefines ==
  ASSUME TypeOK, StoreInv, GrownInv, [Next]_vars,
         Sound(Seed), IsFiniteSet(Proc), MaxActive <= 1
  PROVE  GrownInv' /\ [Promise!Next]_Committed
PROOF
  <1> USE DEF Saving
  <1>1. CASE \E p \in Proc : Start(p)
    <2>1. PICK p \in Proc : Start(p)
      BY <1>1
    <2>2. \A q \in Proc : pc[q] = "idle"
      BY <2>1, StartsAlone DEF Active
    <2>3. Committed' = Committed
      BY <2>1 DEF Start, connection, Committed
    <2>4. pc'[p] = "saveProject" => memory'[p] = Seed
      BY <2>1 DEF Start, Goto, TypeOK
    <2>5. pc'[p] \in {"saveProject", "eraseEdges", "readNodes"}
      BY <2>1 DEF Start, Goto, TypeOK
    <2>6. \A q \in Proc : q # p => pc'[q] = "idle"
      BY <2>1, <2>2 DEF Start, Goto, TypeOK
    <2> QED
      BY <2>3, <2>4, <2>5, <2>6 DEF GrownInv, Grown, ReadSome
  <1>2. CASE Restart
    BY <1>2 DEF Restart, EndTx, Committed, GrownInv, Grown, ReadSome
  <1>3. CASE UNCHANGED vars
    BY <1>3 DEF vars, connection, request, Committed, GrownInv, Grown, ReadSome
  <1>4. ASSUME NEW p \in Proc,
               \/ ReadNodes(p) \/ ReadEdges(p) \/ SaveProject(p) \/ Begin(p)
               \/ DeleteEdges(p) \/ DeleteNodes(p) \/ InsertNode(p) \/ InsertEdge(p)
               \/ Commit(p) \/ Rollback(p)
               \/ EraseEdges(p) \/ EraseNodes(p) \/ EraseProject(p)
        PROVE  GrownInv' /\ [Promise!Next]_Committed
    <2>1. pc[p] # "idle"
      BY <1>4 DEF ReadNodes, ReadEdges, SaveProject, Begin, DeleteEdges, DeleteNodes,
         InsertNode, InsertEdge, Commit, Rollback, EraseEdges, EraseNodes, EraseProject
    <2>2. OthersIdle(p) /\ Local(p) /\ WellFormed
      BY <2>1 DEF StoreInv, OthersIdle
    <2>3. (Grown(p) /\ ReadSome(p))' /\ [Promise!Next]_Committed
      BY <1>4, <2>2, StepRefines
    <2>4. OthersIdle(p)'
      BY <1>4, <2>2, OutsideKeeps, SavingKeeps, EndOfSaveKeeps, ErasingKeeps
    <2> QED
      BY <2>3, <2>4 DEF GrownInv, Grown, ReadSome, OthersIdle
  <1> QED
    BY <1>1, <1>2, <1>3, <1>4 DEF Next

\* The repository and its client, one request at a time, implement ProjectGraph:
\* whichever statement but COMMIT and ROLLBACK fails and whenever the process dies,
\* what is stored is replaced whole, and only by what the last graph grew into.
THEOREM StoreKeepsGraph ==
  ASSUME Sound(Seed), IsFiniteSet(Proc), MaxActive <= 1
  PROVE  Spec => KeepsGraph
PROOF
  <1>1. Init => GrownInv /\ Promise!Init
    BY DEF Init, GrownInv, Grown, ReadSome, Saving, Promise!Init, Committed,
       NoGraph, Promise!NoGraph
  <1> QED
    BY <1>1, TypeInit, TypeKept, StoreInit, StoreKept, NextRefines, PTL
       DEF Spec, KeepsGraph, Promise!Spec
=============================================================================
