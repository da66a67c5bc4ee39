--------------------------- MODULE EvidenceStore ---------------------------
(***************************************************************************)
(* The evidence repository on SQL (adapters/evidence-repo-postgres) and    *)
(* the read-modify-write of its client (apps/evidence-explorer,            *)
(* components/project-store.ts), statement by statement.                   *)
(*                                                                         *)
(* The client holds one pglite database for the whole process, which is    *)
(* one connection: every request's statements go through it, in whatever   *)
(* order the awaits of the requests resolve.  A transaction belongs to the *)
(* connection and not to the request that began it.  The statements follow *)
(* PostgreSQL: BEGIN inside a transaction does nothing, an error inside    *)
(* one fails it, a failed one refuses everything but its end, and its      *)
(* COMMIT is a rollback that reports no error.  COMMIT and ROLLBACK        *)
(* themselves do not throw: the database is in the process, and there is   *)
(* no connection to it that could be lost.                                 *)
(***************************************************************************)
EXTENDS EvidenceGraph, FiniteSets, Naturals

CONSTANTS Seed,      \* the tiny-runner-v1 graph
          Ops,       \* the operations anybody calls
          Proc,      \* requests alive at one time
          MaxActive, \* bound: requests running at one time
          Faults     \* may a statement, but COMMIT and ROLLBACK, fail with nothing
                     \* wrong with it?

ASSUME SeedAssumption == Seed \in Graph /\ Seed.nodes # {}
ASSUME MaxActiveAssumption == MaxActive \in Nat
ASSUME FaultsAssumption == Faults \in BOOLEAN

VARIABLES
  rows,     \* the tables nodes and edges, as the connection sees them
  base,     \* what a rollback would restore, or NoGraph
  tx,       \* the connection's transaction
  job,      \* per request: what it was asked
  pc,       \* per request: the statement it is about to send
  memory,   \* per request: the graph it read, then the one it is saving
  todo,     \* per request: the rows it has yet to insert
  seeding   \* per request: it is saving the seed, its own change still to come

connection == <<rows, base, tx>>
request    == <<job, memory, todo, seeding>>
vars       == <<connection, request, pc>>

Job ==
  [op : {"load", "reset", "erase"}]
    \cup [op : {"addNode"}, node : Node] \cup [op : {"addEdge"}, edge : Edge]

\* Where a request is within saveGraph's try.
Saving == {"deleteEdges", "deleteNodes", "insertNodes", "insertEdges", "commit"}
Erasing == {"eraseEdges", "eraseNodes", "eraseProject"}
Step == {"idle", "readNodes", "readEdges", "saveProject", "begin", "rollback"}
          \cup Saving \cup Erasing

Init ==
  /\ rows = NoGraph /\ base = NoGraph /\ tx = "none"
  /\ job = [p \in Proc |-> [op |-> "load"]]
  /\ pc = [p \in Proc |-> "idle"]
  /\ memory = [p \in Proc |-> NoGraph]
  /\ todo = [p \in Proc |-> NoGraph]
  /\ seeding = [p \in Proc |-> FALSE]

Goto(p, next) == pc' = [pc EXCEPT ![p] = next]

\* The request is answered, and nothing of it stays in memory.
Return(p) ==
  /\ Goto(p, "idle")
  /\ job' = [job EXCEPT ![p] = [op |-> "load"]]
  /\ memory' = [memory EXCEPT ![p] = NoGraph]
  /\ todo' = [todo EXCEPT ![p] = NoGraph]
  /\ seeding' = [seeding EXCEPT ![p] = FALSE]

-----------------------------------------------------------------------------
(* The request, in memory *)

Active == {p \in Proc : pc[p] # "idle"}

\* loadProject, addNodeToStore, addEdgeToStore, resetProject; deleteGraph.
Start(p) ==
  /\ pc[p] = "idle"
  /\ Cardinality(Active) < MaxActive
  /\ \E j \in {i \in Job : i.op \in Ops} :
       /\ job' = [job EXCEPT ![p] = j]
       /\ Goto(p, CASE j.op = "reset" -> "saveProject"
                    [] j.op = "erase" -> "eraseEdges"
                    [] OTHER          -> "readNodes")
       /\ memory' = [memory EXCEPT ![p] = IF j.op = "reset" THEN Seed ELSE NoGraph]
  /\ UNCHANGED <<connection, todo, seeding>>

\* applyAddNode and applyAddEdge on the graph g the request now holds: the new
\* graph is to be saved, or the request ends, refused or only a load.
Change(p, g) ==
  \/ /\ job[p].op = "addNode"
     /\ memory' = [memory EXCEPT ![p] = AddNode(g, job[p].node)]
     /\ Goto(p, "begin")
     /\ seeding' = [seeding EXCEPT ![p] = FALSE]
     /\ UNCHANGED <<job, todo>>
  \/ /\ job[p].op = "addEdge"
     /\ MayAddEdge(g, job[p].edge)
     /\ memory' = [memory EXCEPT ![p] = AddEdge(g, job[p].edge)]
     /\ Goto(p, "begin")
     /\ seeding' = [seeding EXCEPT ![p] = FALSE]
     /\ UNCHANGED <<job, todo>>
  \/ /\ job[p].op = "addEdge" => ~MayAddEdge(g, job[p].edge)
     /\ Return(p)

-----------------------------------------------------------------------------
(* Statements.  Each is sent by request p, which goes on at next. *)

Run(p, newRows, next) ==
  /\ tx # "failed"
  /\ rows' = newRows
  /\ Goto(p, next)
  /\ UNCHANGED <<base, tx>>

\* A statement throws.  Inside a transaction that fails it, and in a failed
\* one every statement throws.
Abort == tx' = (IF tx = "open" THEN "failed" ELSE tx) /\ UNCHANGED <<rows, base>>

Fail == (Faults \/ tx = "failed") /\ Abort

\* Within saveGraph's try, the catch comes next.
Throw(p) == Goto(p, "rollback") /\ UNCHANGED request

\* getGraph: no node, no graph, and the caller seeds the project first.
ReadNodes(p) ==
  /\ pc[p] = "readNodes"
  /\ \/ /\ Run(p, rows, IF rows.nodes = {} THEN "saveProject" ELSE "readEdges")
        /\ memory' = [memory EXCEPT ![p] =
             IF rows.nodes = {} THEN Seed ELSE [nodes |-> rows.nodes, edges |-> {}]]
        /\ seeding' = [seeding EXCEPT ![p] = rows.nodes = {}]
        /\ UNCHANGED <<job, todo>>
     \/ Fail /\ Return(p)

\* The edges, one await later, and the change made to what was read.
ReadEdges(p) ==
  /\ pc[p] = "readEdges"
  /\ \/ /\ tx # "failed"
        /\ Change(p, [memory[p] EXCEPT !.edges = rows.edges])
        /\ UNCHANGED connection
     \/ Fail /\ Return(p)

\* seedProject: the project row first, which touches neither table.
SaveProject(p) ==
  /\ pc[p] = "saveProject"
  /\ \/ Run(p, rows, "begin") /\ UNCHANGED request
     \/ Fail /\ Return(p)

\* BEGIN, of a graph that passed assertNoObviousPii, or a refusal by it.
Begin(p) ==
  /\ pc[p] = "begin"
  /\ \/ /\ tx # "failed"
        /\ tx' = "open" /\ base' = (IF tx = "none" THEN rows ELSE base)
        /\ Goto(p, "deleteEdges")
        /\ todo' = [todo EXCEPT ![p] = memory[p]]
        /\ UNCHANGED <<rows, job, memory, seeding>>
     \/ Return(p) /\ (Fail \/ UNCHANGED connection)

\* Mutant of DeleteEdges: the old edges stay.
DeleteEdgesNever(p) ==
  /\ pc[p] = "deleteEdges"
  /\ \/ Run(p, rows, "deleteNodes") /\ UNCHANGED request
     \/ Fail /\ Throw(p)

DeleteEdges(p) ==
  /\ pc[p] = "deleteEdges"
  /\ \/ Run(p, [rows EXCEPT !.edges = {}], "deleteNodes") /\ UNCHANGED request
     \/ Fail /\ Throw(p)

DeleteNodes(p) ==
  /\ pc[p] = "deleteNodes"
  /\ \/ Run(p, [rows EXCEPT !.nodes = {}], "insertNodes") /\ UNCHANGED request
     \/ Fail /\ Throw(p)

\* Mutant of InsertNode: an error is passed on without a rollback.
InsertNodeThrowing(p) ==
  /\ pc[p] = "insertNodes"
  /\ \/ /\ todo[p].nodes = {} /\ Goto(p, "insertEdges")
        /\ UNCHANGED <<connection, request>>
     \/ \E n \in todo[p].nodes :
          /\ n \notin rows.nodes
          /\ Run(p, [rows EXCEPT !.nodes = @ \cup {n}], "insertNodes")
          /\ todo' = [todo EXCEPT ![p].nodes = @ \ {n}]
          /\ UNCHANGED <<job, memory, seeding>>
     \/ todo[p].nodes # {} /\ Fail /\ Return(p)

\* One INSERT per node.  A node already in the table violates its primary key.
InsertNode(p) ==
  /\ pc[p] = "insertNodes"
  /\ \/ /\ todo[p].nodes = {} /\ Goto(p, "insertEdges")
        /\ UNCHANGED <<connection, request>>
     \/ \E n \in todo[p].nodes :
          /\ n \notin rows.nodes
          /\ Run(p, [rows EXCEPT !.nodes = @ \cup {n}], "insertNodes")
          /\ todo' = [todo EXCEPT ![p].nodes = @ \ {n}]
          /\ UNCHANGED <<job, memory, seeding>>
     \/ todo[p].nodes # {} /\ Fail /\ Throw(p)
     \/ todo[p].nodes \cap rows.nodes # {} /\ Abort /\ Throw(p)

\* One INSERT per edge; the table has no key.
InsertEdge(p) ==
  /\ pc[p] = "insertEdges"
  /\ \/ /\ todo[p].edges = {} /\ Goto(p, "commit")
        /\ UNCHANGED <<connection, request>>
     \/ \E e \in todo[p].edges :
          /\ Run(p, [rows EXCEPT !.edges = @ \cup {e}], "insertEdges")
          /\ todo' = [todo EXCEPT ![p].edges = @ \ {e}]
          /\ UNCHANGED <<job, memory, seeding>>
     \/ todo[p].edges # {} /\ Fail /\ Throw(p)

\* The end of the connection's transaction, whoever began it.
EndTx(newRows) == rows' = newRows /\ base' = NoGraph /\ tx' = "none"

\* COMMIT.  The seed saved, a request goes on to its own change.
Commit(p) ==
  /\ pc[p] = "commit"
  /\ EndTx(IF tx = "failed" THEN base ELSE rows)
  /\ IF seeding[p] THEN Change(p, memory[p]) ELSE Return(p)

\* Mutant of Rollback: what was done is kept.
RollbackKeeping(p) == pc[p] = "rollback" /\ EndTx(rows) /\ Return(p)

\* The mutant that forgets to forget: base outlives its transaction.
RollbackHolding(p) ==
  /\ pc[p] = "rollback"
  /\ rows' = (IF tx = "none" THEN rows ELSE base) /\ tx' = "none"
  /\ UNCHANGED base
  /\ Return(p)

\* ROLLBACK, and the error passed on.
Rollback(p) ==
  /\ pc[p] = "rollback"
  /\ EndTx(IF tx = "none" THEN rows ELSE base)
  /\ Return(p)

\* deleteGraph: the edges, the nodes, then the project row and the blobs, each
\* a statement of its own.  The last two touch neither table.
EraseEdges(p) ==
  /\ pc[p] = "eraseEdges"
  /\ \/ Run(p, [rows EXCEPT !.edges = {}], "eraseNodes") /\ UNCHANGED request
     \/ Fail /\ Return(p)

EraseNodes(p) ==
  /\ pc[p] = "eraseNodes"
  /\ \/ Run(p, [rows EXCEPT !.nodes = {}], "eraseProject") /\ UNCHANGED request
     \/ Fail /\ Return(p)

EraseProject(p) ==
  /\ pc[p] = "eraseProject"
  /\ Return(p)
  /\ (tx # "failed" /\ UNCHANGED connection) \/ Fail

\* The process dies and starts again on the same directory.
Restart ==
  /\ EndTx(IF tx = "none" THEN rows ELSE base)
  /\ pc' = [p \in Proc |-> "idle"]
  /\ job' = [p \in Proc |-> [op |-> "load"]]
  /\ memory' = [p \in Proc |-> NoGraph]
  /\ todo' = [p \in Proc |-> NoGraph]
  /\ seeding' = [p \in Proc |-> FALSE]

Next ==
  \/ \E p \in Proc :
       \/ Start(p) \/ ReadNodes(p) \/ ReadEdges(p) \/ SaveProject(p) \/ Begin(p)
       \/ DeleteEdges(p) \/ DeleteNodes(p) \/ InsertNode(p) \/ InsertEdge(p)
       \/ Commit(p) \/ Rollback(p) \/ EraseEdges(p) \/ EraseNodes(p)
       \/ EraseProject(p)
  \/ Restart

Spec == Init /\ [][Next]_vars

-----------------------------------------------------------------------------
(* Properties *)

TypeOK ==
  /\ rows \in Graph /\ base \in Graph
  /\ tx \in {"none", "open", "failed"}
  /\ tx = "none" => base = NoGraph
  /\ job \in [Proc -> Job]
  /\ pc \in [Proc -> Step]
  /\ memory \in [Proc -> Graph] /\ todo \in [Proc -> Graph]
  /\ seeding \in [Proc -> BOOLEAN]

\* What outlives the process now.
Committed == IF tx = "none" THEN rows ELSE base

\* What is stored is a graph the domain could have built: acyclic, and every
\* edge on something that is there.
WellFormed == Acyclic(Committed) /\ Grounded(Committed)

\* "saveGraph replaces the whole graph atomically": when it returns without an
\* error, what is stored is the graph it was given.
SavedWhole == [][\A p \in Proc : Commit(p) => rows' = memory[p]]_vars

\* The connection is in a transaction only while some request is in saveGraph:
\* none is left open for the next request to work inside of.
QuietConnection == tx # "none" => \E p \in Proc : pc[p] \in Saving \cup {"rollback"}

\* One request at a time, the store is ProjectGraph: every change of what is
\* stored is one domain operation on what was stored, done whole or not at all,
\* whichever statement but COMMIT and ROLLBACK fails and whenever the process dies.
Promise == INSTANCE ProjectGraph WITH graph <- Committed

KeepsGraph == Promise!Spec
=============================================================================
