----------------------------- MODULE MapReview -----------------------------
(***************************************************************************)
(* The review of one mastery map: it is generated into a MapStore, several *)
(* guides open it, correct it, have it checked, put it into use or take it *)
(* out, and write it back.  The store takes a map only at the version      *)
(* after its own; a guide it refuses re-reads and re-applies.  What a plan *)
(* is given is what `get` lets through.                                    *)
(*                                                                         *)
(* The open map of a guide is the state of a MapsPanel, and goes when the  *)
(* drawer closes.  The console has no call of `put` yet: SaveMap is the    *)
(* port as its contract has it used (ports.ts:44).                         *)
(***************************************************************************)
EXTENDS MasteryMap

CONSTANTS Reviewer,    \* the guides with a panel open
          Proposals,   \* what the generator may propose
          MaxVersion,  \* bound: versions of the map
          NoMap

ASSUME ReviewAssumption ==
  /\ Proposals \subseteq Proposal /\ MaxVersion \in Nat \ {0}

VARIABLES
  proposed,   \* what the generator proposed (history)
  storedMap,  \* the map in the store
  sheet       \* per guide: the map in the open panel

review == <<proposed, storedMap, sheet>>

MasteryMap ==
  [requires : [Milestone -> SUBSET (0..MilestoneCount)], floor : [Milestone -> Floor],
   text : [Milestone -> [Field -> Text]], sound : BOOLEAN, fresh : BOOLEAN,
   version : Nat, edits : Seq(Edit), validation : SUBSET Problem, status : Status]

-----------------------------------------------------------------------------
ReviewInit ==
  /\ proposed = NoMap /\ storedMap = NoMap
  /\ sheet = [r \in Reviewer |-> NoMap]

\* The first write of a map: version 1.
GenerateMap ==
  /\ storedMap = NoMap
  /\ proposed' \in Proposals
  /\ storedMap' = Generated(proposed')
  /\ UNCHANGED sheet

\* getForReview, which filters nothing, as the panel mounts.
OpenReview(r) ==
  /\ sheet[r] = NoMap /\ storedMap # NoMap
  /\ sheet' = [sheet EXCEPT ![r] = storedMap]
  /\ UNCHANGED <<proposed, storedMap>>

CloseReview(r) ==
  /\ sheet[r] # NoMap
  /\ sheet' = [sheet EXCEPT ![r] = NoMap]
  /\ UNCHANGED <<proposed, storedMap>>

SetSheet(r, map) ==
  /\ sheet' = [sheet EXCEPT ![r] = map]
  /\ UNCHANGED <<proposed, storedMap>>

\* The one correction the console offers, of a sentence to another that is not
\* blank.
EditCapability(r) ==
  /\ sheet[r] # NoMap /\ sheet[r].version < MaxVersion
  /\ \E m \in Milestone, value \in Text :
       /\ value # sheet[r].text[m]["capability"]
       /\ SetSheet(r, ApplyEdit(sheet[r], m, "capability", value))

\* A caller puts the record the validator earns now on the map.
Recheck(r) ==
  /\ sheet[r] # NoMap
  /\ SetSheet(r, [sheet[r] EXCEPT !.validation = ValidateMap(sheet[r])])

\* The button asks the check of the text as it stands, not the record.
PutIntoUse(r) ==
  /\ sheet[r] # NoMap /\ sheet[r].status # "published"
  /\ CanPublish([sheet[r] EXCEPT !.validation = ValidateMap(sheet[r])])
  /\ SetSheet(r, [sheet[r] EXCEPT !.status = "published"])

WithdrawMap(r) ==
  /\ sheet[r] # NoMap /\ sheet[r].status # "withdrawn"
  /\ SetSheet(r, [sheet[r] EXCEPT !.status = "withdrawn"])

\* Mutant of SaveMap: a stale map is rebased, its sentences over the stored edits.
SaveMapRebased(r) ==
  /\ sheet[r] # NoMap
  /\ \/ /\ sheet[r].version = storedMap.version + 1
        /\ storedMap' = sheet[r]
     \/ /\ sheet[r].version > 1 /\ sheet[r].version = storedMap.version
        /\ storedMap' = [sheet[r] EXCEPT !.version = @ + 1,
                                         !.edits = Append(storedMap.edits, @[Len(@)])]
  /\ UNCHANGED <<proposed, sheet>>

\* put: the version after the stored one, or a refusal.  Refused, the caller
\* reads the stored map again.
SaveMap(r) ==
  /\ sheet[r] # NoMap
  /\ IF sheet[r].version = storedMap.version + 1
       THEN storedMap' = sheet[r] /\ UNCHANGED sheet
       ELSE sheet' = [sheet EXCEPT ![r] = storedMap] /\ UNCHANGED storedMap
  /\ UNCHANGED proposed

ReviewNext ==
  \/ GenerateMap
  \/ \E r \in Reviewer :
       OpenReview(r) \/ CloseReview(r) \/ EditCapability(r) \/ Recheck(r) \/ PutIntoUse(r)
         \/ WithdrawMap(r) \/ SaveMap(r)

ReviewSpec == ReviewInit /\ [][ReviewNext]_review

\* get: the map a plan is given.
Served == IF storedMap # NoMap /\ CanPublish(storedMap) THEN storedMap ELSE NoMap

-----------------------------------------------------------------------------
(* Properties *)

ReviewTypeOK ==
  /\ proposed \in Proposals \cup {NoMap}
  /\ storedMap \in MasteryMap \cup {NoMap}
  /\ sheet \in [Reviewer -> MasteryMap \cup {NoMap}]

\* No correction a guide got into the store is lost to another guide's write ("Two
\* guides editing the same map is a real case, and last-write-wins would silently
\* discard one of them", ports.ts:45).
EditsKept ==
  [][storedMap # NoMap =>
       /\ Len(storedMap'.edits) >= Len(storedMap.edits)
       /\ \A i \in 1..Len(storedMap.edits) : storedMap'.edits[i] = storedMap.edits[i]]_review

EditsOf(map, m, f) ==
  {i \in 1..Len(map.edits) : map.edits[i].milestone = m /\ map.edits[i].field = f}

\* The edits of a sentence are a chain from what was proposed to what the map says.
EditChain(map, m, f) ==
  LET E == EditsOf(map, m, f)
  IN  /\ E = {} => map.text[m][f] = proposed.text[m][f]
      /\ \A i \in E :
           /\ (\A j \in E : j <= i) => map.edits[i].after = map.text[m][f]
           /\ (\A j \in E : j >= i) => map.edits[i].before = proposed.text[m][f]
           /\ \A j \in E : (j < i /\ \A k \in E : k <= j \/ k >= i) =>
                map.edits[i].before = map.edits[j].after

\* What the model proposed can always be told from what guides made of it: in the
\* stored map the recorded edits lead, both sides of each, from the proposal to
\* the text, whoever wrote it and over whatever refused writes (edit.ts:71).
EditsReplay == storedMap # NoMap => \A m \in Milestone, f \in Field : EditChain(storedMap, m, f)

\* A map in use, or given to a plan, passes the checks with the text it has now,
\* and reads in order: a prerequisite comes before what it unlocks, and is never
\* gated above a child who is offered what comes after it (edit.ts:104-110,
\* select.ts:267, validate.ts:256).
Readable(map) ==
  \A m \in Milestone : \A d \in map.requires[m] :
    /\ d \in Milestone /\ Before(map, d, m)
    /\ \A satisfied \in SUBSET Milestone, s \in Floor :
         Reachable(map, m, satisfied, s) => map.floor[d] <= s
InUse == {storedMap, Served} \cup {sheet[r] : r \in Reviewer}
FitForUse ==
  \A map \in InUse \ {NoMap} :
    map = Served \/ map.status = "published" =>
      ValidateMap(map) = {} /\ Readable(map)
=============================================================================
