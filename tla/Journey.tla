------------------------------ MODULE Journey ------------------------------
(***************************************************************************)
(* A project's journey and what is read off it (packages/project-workspace:*)
(* project, thinness, plan).  Operators only.                              *)
(*                                                                         *)
(* A journey is a sequence of entries.  An entry's id is a digest of its   *)
(* project, its place and its content: here its project and its place.     *)
(* What else an entry says (text, time, title) is left out.                *)
(***************************************************************************)
EXTENDS Integers, Sequences, SequencesExt

CONSTANT EffortExpected   \* EFFORT_EXPECTED (2)

ASSUME EffortAssumption == EffortExpected \in Nat

\* WORK_EVENT_KINDS.  Left out: a session and a decision, which are read as a
\* reflection is, a revision, as a stuck outcome, and a milestone, as another outcome.
WorkEventKind == {"attempt", "outcome", "artifact", "reflection", "ai_help", "showcase"}

\* logEvent: a new journey, the entry at its end.
LogEvent(project, journey, kind, stuck, refs) ==
  Append(journey, [id |-> <<project, Len(journey)>>, kind |-> kind, stuck |-> stuck, refs |-> refs])

-----------------------------------------------------------------------------
(* Thinness *)

IsEffort(e) == e.kind = "attempt" \/ (e.kind = "outcome" /\ e.stuck)

\* The last entry is an artefact with too little behind it (thinnessOf's last).
EndsThin(journey) ==
  /\ journey # <<>>
  /\ Last(journey).kind = "artifact"
  /\ Len(SelectSeq(journey, IsEffort)) < EffortExpected

-----------------------------------------------------------------------------
(* The plan of its evidence *)

\* inputEventIds: the refs among the ids of the entries before it.
Inputs(journey, i) ==
  {ref \in ToSet(journey[i].refs) : \E k \in 1..(i - 1) : journey[k].id = ref}

\* actorFor, and the tool of a declared help: names, which no id is equal to.
Author(e) ==
  CASE e.kind = "ai_help"  -> <<"model">>
    [] e.kind = "showcase" -> <<"studio">>
    [] OTHER -> <<"child">>

Tools(e) == IF e.kind = "ai_help" THEN {<<"tool">>} ELSE {}

AuthoredByChild == {"attempt", "artifact", "reflection"}

\* Mutant of DerivedFromRefs: a showcase, too, is derived from what it shows.
DerivedFromAnyRefs == {"outcome", "artifact", "showcase"}

DerivedFromRefs == {"outcome", "artifact"}

EdgesTo(e, ends)   == [from : {e.id}, to : ends]
EdgesFrom(e, ends) == [from : ends, to : {e.id}]

\* The edges the i-th entry earns, their types and their order left out: derived_from,
\* contradicts and validates are one edge, as are the two of a showcase.
PlannedEdges(journey, i) ==
  LET e == journey[i]
  IN  UNION {IF e.kind \in AuthoredByChild THEN EdgesTo(e, {Author(e)}) ELSE {},
             IF e.kind \in DerivedFromRefs THEN EdgesTo(e, Inputs(journey, i)) ELSE {},
             IF e.kind = "outcome" THEN EdgesTo(e, Inputs(journey, i)) ELSE {},
             EdgesTo(e, Tools(e)),
             IF e.kind = "showcase" THEN EdgesFrom(e, Inputs(journey, i)) ELSE {}}
=============================================================================
