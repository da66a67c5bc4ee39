---------------------------- MODULE EvidenceSink ----------------------------
(***************************************************************************)
(* The one seam between the studio and the evidence graph                  *)
(* (adapters/project-evidence-sink): record takes a journey to a graph,    *)
(* entry by entry, and leaves out an entry that would throw.               *)
(*                                                                         *)
(* The journey is what a browser's storage held or a request carried, and  *)
(* of its entries nothing is checked: two may bear one id, an entry may    *)
(* refer to any, its kind may be one nobody knows, a field may not be what *)
(* the mapping takes it for, and an entry may be null.                     *)
(***************************************************************************)
EXTENDS Journey

CONSTANTS EventId,      \* ids an entry may bear or refer to
          UnknownKind,
          Toxic,        \* in place of its refs: some field of the entry makes the
                        \* mapping throw (refs that are no list, a tool that is null)
          NullEvent,    \* an entry that is null
          MaxRefs,      \* bound: refs of one entry
          MaxJourney    \* bound: entries

JourneyEntry ==
  [id : EventId, kind : WorkEventKind \cup {UnknownKind}, stuck : BOOLEAN,
   refs : Seq(EventId) \cup {Toxic}]

ASSUME SinkAssumption ==
  /\ MaxRefs \in Nat /\ MaxJourney \in Nat
  /\ UnknownKind \notin WorkEventKind
  /\ Toxic \notin Seq(EventId) /\ NullEvent \notin JourneyEntry
\* A plan tells a reference to an entry from a name (PlanRef's kind).
ASSUME RefAssumption == EventId \cap {<<"child">>, <<"model">>, <<"studio">>, <<"tool">>} = {}

VARIABLE journey

-----------------------------------------------------------------------------
(* The graph a plan is made into.  A node is its content, which holds the id  *)
(* of its entry; here it is that id and the entry's place.  Two entries alike *)
(* in everything are one node there and two here, the earlier without edges.  *)

Places(j) == {<<j[i].id, i>> : i \in DOMAIN j}
Names(e)  == {Author(e)} \cup Tools(e)

\* nodeIdByEventId: of the entries that bear an id, the last one's node.
At(j, id) == <<id, Max({i \in DOMAIN j : j[i].id = id})>>

\* resolveRef
Resolved(j, ref) == IF ref \in EventId THEN At(j, ref) ELSE ref

Edges(j) ==
  {[from |-> Resolved(j, e.from), to |-> Resolved(j, e.to)] :
     e \in UNION {PlannedEdges(j, i) : i \in DOMAIN j}}

G(j) == INSTANCE EvidenceGraph
          WITH Node    <- Places(j),
               Name    <- UNION {Names(j[i]) : i \in DOMAIN j},
               Carries <- [n \in Places(j) |-> Names(j[n[2]])],
               Edge    <- Edges(j)

\* materialize: every node, then edge by edge, up to the first that throws.  With it
\* goes the graph built so far, so that no order is observed: one throws just if
\* there is one that may not be added to the others.
Materialize(j) ==
  LET with(edges) == [nodes |-> Places(j), edges |-> edges]
  IN  [nodes |-> Places(j), edges |-> Edges(j),
       threw |-> \E e \in Edges(j) : ~G(j)!MayAddEdge(with(Edges(j) \ {e}), e)]

\* One turn of record's loop: an entry of a known kind is kept if, with those kept
\* before, nothing throws.
KeptSafe(safe, e) ==
  IF e.kind \in WorkEventKind /\ e.refs # Toxic /\ ~Materialize(Append(safe, e)).threw
  THEN Append(safe, e) ELSE safe

Safe(j) ==
  LET safe[i \in 0..Len(j)] == IF i = 0 THEN <<>> ELSE KeptSafe(safe[i - 1], j[i])
  IN  safe[Len(j)]

\* record: the kind of an entry that is null is read outside the loop's try.
Record(j) ==
  IF NullEvent \in ToSet(j) THEN [nodes |-> {}, edges |-> {}, threw |-> TRUE]
  ELSE Materialize(Safe(j))

-----------------------------------------------------------------------------
SinkInit == journey = <<>>

\* One more entry, whatever it is.
Grow(e) ==
  /\ Len(journey) < MaxJourney
  /\ journey' = Append(journey, e)

SinkNext ==
  \/ Grow(NullEvent)
  \/ \E e \in [id : EventId, kind : WorkEventKind \cup {UnknownKind}, stuck : {FALSE},
               refs : BoundedSeq(EventId, MaxRefs) \cup {Toxic}] : Grow(e)

SinkSpec == SinkInit /\ [][SinkNext]_journey

-----------------------------------------------------------------------------
(* Properties *)

SinkTypeOK == journey \in Seq(JourneyEntry \cup {NullEvent}) /\ Len(journey) <= MaxJourney

\* Of a known kind, and every field what the mapping takes it for.
Intact(e) == e # NullEvent /\ e.kind \in WorkEventKind /\ e.refs # Toxic

\* "Leaving the well-formed events intact" (index.ts:32-35): whatever malformed entries
\* a journey holds, short of null, and whatever its entries refer to, record does not
\* throw, its graph is acyclic with nothing dangling, and an intact entry is dropped
\* only if it bears the id of one kept before: no two of the edges that entries with
\* ids of their own earn close a cycle (plan.ts:134, 192-198), so the fail-safe never
\* costs a child work that the studio itself logged.  (A null entry does cost the
\* journey, though a malformed event is to be "SKIPPED, never thrown": see Record.)
IntactEntriesKept ==
  NullEvent \notin ToSet(journey) =>
    /\ LET graph == Record(journey)
       IN  /\ ~graph.threw
           /\ G(Safe(journey))!Acyclic(graph) /\ G(Safe(journey))!Grounded(graph)
    /\ journey # <<>> /\ Intact(Last(journey)) =>
         LET kept == Safe(Front(journey))
         IN  (\A k \in DOMAIN kept : kept[k].id # Last(journey).id)
               => Safe(journey) = Append(kept, Last(journey))
=============================================================================
