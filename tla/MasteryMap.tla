----------------------------- MODULE MasteryMap -----------------------------
(***************************************************************************)
(* A mastery map (packages/mastery-map): the milestones of a domain, what  *)
(* each requires, the checks a map must pass before anybody uses it, the   *)
(* correction a guide may make, and the order and reach in which it is     *)
(* read against a child.  Operators only.                                  *)
(*                                                                         *)
(* A milestone is its place in the order of ids; 0 is an id no milestone   *)
(* of the map has.  A text is the set of its content words.  A map holds   *)
(* one milestone per id (E10).  The title is left out: no rule reads it.   *)
(***************************************************************************)
EXTENDS Integers, Sequences, FiniteSets

CONSTANTS MilestoneCount, Word

ASSUME MilestoneAssumption == MilestoneCount \in Nat \ {0}

Milestone == 1..MilestoneCount
Text  == SUBSET Word
Field == {"capability", "demonstration"}
Floor == 1..4
Status == {"draft", "published", "withdrawn"}

\* What a generator proposes.  `sound` stands for the rules on what no edit can
\* touch (sources, resources, modes, banned names, forecasts: E4, E5, E7 to E9);
\* `fresh` for the age of its resources, by the clock the reader is given.
Proposal == [requires : [Milestone -> SUBSET (0..MilestoneCount)],
             floor : [Milestone -> Floor],
             text : [Milestone -> [Field -> Text]],
             sound : BOOLEAN, fresh : BOOLEAN]

Edit == [milestone : Milestone, field : Field, before : Text, after : Text]

Problem == {"E1_DANGLING", "E1_CYCLE", "E3_NO_ARTEFACT", "E6_FLOOR_ORDER", "other",
            "UNVALIDATED_SINCE_EDIT"} \X (0..MilestoneCount)

-----------------------------------------------------------------------------
(* The prerequisite graph *)

Inside(map, m) == map.requires[m] \cap Milestone

\* reachSets: everything m can reach by following `requires`.
Reach(map, m) ==
  {x \in Milestone :
     \A S \in SUBSET Milestone :
       (Inside(map, m) \subseteq S /\ \A y \in S : Inside(map, y) \subseteq S) => x \in S}

\* The edges that are not part of a cycle.
Forward(map, m) == {d \in Inside(map, m) : m \notin Reach(map, d)}

\* depthsOf: the longest way from m back to the start of the map.  Behind[n] are
\* the milestones at least n steps behind it.
Depth(map, m) ==
  LET Behind[n \in 0..MilestoneCount] ==
        IF n = 0 THEN Milestone
                 ELSE {x \in Milestone : \E d \in Forward(map, x) : d \in Behind[n - 1]}
  IN  Cardinality({n \in 1..MilestoneCount : m \in Behind[n]})

-----------------------------------------------------------------------------
(* The validator *)

\* E3, and E2 with it: the capability names something the demonstration shows.
NamesArtefact(map, m) == map.text[m]["capability"] \cap map.text[m]["demonstration"] # {}

\* Mutant of ValidateMap: floors are left to the author.
ValidateMapWithoutFloors(map) ==
  {<<"E1_DANGLING", m>> : m \in {x \in Milestone : 0 \in map.requires[x]}}
  \cup {<<"E1_CYCLE", 0>> : m \in {x \in Milestone : x \in Reach(map, x)}}
  \cup {<<"E3_NO_ARTEFACT", m>> : m \in {x \in Milestone : ~NamesArtefact(map, x)}}
  \cup {<<"other", 0>> : b \in {map.sound} \cap {FALSE}}

\* The errors of a map as it stands.  Warnings block nothing.
ValidateMap(map) ==
  {<<"E1_DANGLING", m>> : m \in {x \in Milestone : 0 \in map.requires[x]}}
  \cup {<<"E1_CYCLE", 0>> : m \in {x \in Milestone : x \in Reach(map, x)}}
  \cup {<<"E3_NO_ARTEFACT", m>> : m \in {x \in Milestone : ~NamesArtefact(map, x)}}
  \cup {<<"E6_FLOOR_ORDER", m>> :
          m \in {x \in Milestone : \E d \in Inside(map, x) : map.floor[d] > map.floor[x]}}
  \cup {<<"other", 0>> : b \in {map.sound} \cap {FALSE}}

\* The gate on use: the record the map carries, and the age of its resources.
CanPublish(map) == map.validation = {} /\ map.fresh

-----------------------------------------------------------------------------
(* The lifecycle *)

\* buildStubMap: a proposal becomes a draft of version 1 with the record it earns.
Generated(p) ==
  [requires |-> p.requires, floor |-> p.floor, text |-> p.text, sound |-> p.sound,
   fresh |-> p.fresh, version |-> 1, edits |-> <<>>, validation |-> ValidateMap(p),
   status |-> "draft"]

Unvalidated == {<<"UNVALIDATED_SINCE_EDIT", 0>>}

ApplyEdit(map, m, field, value) ==
  [map EXCEPT !.version = @ + 1,
              !.text[m][field] = value,
              !.edits = Append(@, [milestone |-> m, field |-> field,
                                   before |-> map.text[m][field], after |-> value]),
              !.validation = Unvalidated,
              !.status = "draft"]

-----------------------------------------------------------------------------
(* Reading a map against a child *)

\* The order of readMap.
Before(map, a, b) ==
  \/ map.floor[a] < map.floor[b]
  \/ /\ map.floor[a] = map.floor[b]
     /\ \/ Depth(map, a) < Depth(map, b)
        \/ Depth(map, a) = Depth(map, b) /\ a < b

\* Whether m could be offered next: every prerequisite has an artefact or an
\* override (`satisfied`), and its floor is no higher than the child's stage.
Reachable(map, m, satisfied, stage) ==
  map.requires[m] \subseteq satisfied /\ map.floor[m] <= stage
=============================================================================
