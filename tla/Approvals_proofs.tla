-------------------------- MODULE Approvals_proofs --------------------------
(***************************************************************************)
(* What holds where a grown-up stands between the system and a child, for  *)
(* every value of the constants: the access tab of the guide's console     *)
(* (AccessDesk), the review of a mastery map (MapReview) and the pages a   *)
(* concierge finds (Concierge).  The three share no state.                 *)
(***************************************************************************)
EXTENDS AccessDesk, MapReview, Concierge, Induction

(***************************************************************************)
(* The access tab: any matches, pilot logs, windows and thresholds         *)
(***************************************************************************)

-----------------------------------------------------------------------------
(* Types *)

LEMMA DeskTypeStarts ==
  ASSUME DeskInit
  PROVE  DeskTypeOK
<1>1. played \in Log
  BY DEF DeskInit, Log
<1>2. QED
  BY <1>1 DEF DeskInit, DeskTypeOK, Lifecycle, NoHandoffs, NoConsent, HandoffState

\* Days the child stayed away, and the day it came.
LEMMA LongerLog ==
  ASSUME NEW log \in Log, NEW idle \in Nat, NEW d \in Day
  PROVE  log \o [i \in 1..idle |-> [play |-> "none", depth |-> "none"]] \o <<d>> \in Log
<1> DEFINE away == [i \in 1..idle |-> [play |-> "none", depth |-> "none"]]
<1>1. [play |-> "none", depth |-> "none"] \in Day
  BY DEF Day
<1>2. away \in Seq(Day)
  BY <1>1
<1>3. <<d>> \in Seq(Day)
  OBVIOUS
<1>4. log \o away \in Seq(Day)
  BY <1>2 DEF Log
<1>5. QED
  BY <1>3, <1>4 DEF Log

LEMMA StepKeepsDeskTypes ==
  ASSUME DeskTypeOK, [DeskNext]_desk
  PROVE  DeskTypeOK'
<1> USE DEF DeskTypeOK
<1>1. NoHandoffs \in [Match -> HandoffState] /\ NoConsent \in [Match -> BOOLEAN]
  BY DEF NoHandoffs, NoConsent, HandoffState
<1>2. CASE PickPilotChild
  BY <1>2, SeedAssumption DEF PickPilotChild
<1>3. CASE IngestPlay
  <2>1. PICK idle \in 0..(MaxDays - Len(played) - 1), d \in Day :
          played' = played \o [i \in 1..idle |-> [play |-> "none", depth |-> "none"]] \o <<d>>
    BY <1>3 DEF IngestPlay
  <2>2. idle \in Nat
    OBVIOUS
  <2>3. played' \in Log
    BY <2>1, <2>2, LongerLog
  <2>4. stored' \in Lifecycle
    BY <1>3 DEF IngestPlay
  <2>5. QED
    BY <1>3, <2>3, <2>4 DEF IngestPlay
<1>4. CASE LoadDesk
  BY <1>1, <1>4 DEF LoadDesk, Unmounted
<1>5. CASE CloseDesk
  BY <1>1, <1>5 DEF CloseDesk, Unmounted
<1>6. CASE Decide
  BY <1>1, <1>6 DEF Decide, Unmounted
<1>7. CASE ShowPlan
  BY <1>7 DEF ShowPlan
<1>8. CASE LeavePlan
  BY <1>1, <1>8 DEF LeavePlan, Unmounted
<1>9. ASSUME NEW m \in Match, Propose(m) PROVE DeskTypeOK'
  BY <1>9 DEF Propose, SetHandoff, HandoffState
<1>10. ASSUME NEW m \in Match, TickConsent(m) PROVE DeskTypeOK'
  BY <1>10 DEF TickConsent
<1>11. ASSUME NEW m \in Match, Approve(m) PROVE DeskTypeOK'
  BY <1>11 DEF Approve, SetHandoff, HandoffState
<1>12. ASSUME NEW m \in Match, AdvanceHandoff(m) PROVE DeskTypeOK'
  BY <1>12 DEF AdvanceHandoff, SetHandoff, HandoffState, HandoffOrder
<1>13. ASSUME NEW m \in Match, DeclineMatch(m) PROVE DeskTypeOK'
  BY <1>13 DEF DeclineMatch, SetHandoff, HandoffState
<1>14. CASE UNCHANGED desk
  BY <1>14 DEF desk
<1>15. QED
  BY <1>2, <1>3, <1>4, <1>5, <1>6, <1>7, <1>8, <1>9, <1>10, <1>11, <1>12, <1>13, <1>14
  DEF DeskNext

-----------------------------------------------------------------------------
(* Steps of the desk and steps of a row *)

\* Whatever happens around the rows leaves the handoffs as they were, or takes
\* them all away with their consents; and what leaves them leaves the child's
\* profile, and the card if any stands on it.
AroundRows ==
  \/ /\ brokerage' = NoHandoffs /\ consent' = NoConsent
  \/ /\ UNCHANGED <<brokerage, consent>>
     /\ live # None => UNCHANGED <<synthetic, played, stored>>
     /\ CardShown => CardShown'

\* A step of one row, seen from its ladder.
RowStep(m) ==
  /\ m \in Rows
  /\ UNCHANGED <<synthetic, played, stored, live, onPlan>>
  /\ \/ /\ brokerage[m] = "proposed"
        /\ consent' = [consent EXCEPT ![m] = ~@] /\ UNCHANGED brokerage
     \/ /\ UNCHANGED consent
        /\ \E s \in HandoffState \ {"none"} :
             /\ brokerage' = [brokerage EXCEPT ![m] = s]
             /\ s \in NextRung(brokerage[m])
             /\ s \in {"approved", "introduced", "active", "transferred"} =>
                  \/ consent[m]
                  \/ brokerage[m] \in {"approved", "introduced", "active", "transferred"}

LEMMA DeskSteps ==
  ASSUME DeskTypeOK, [DeskNext]_desk
  PROVE  AroundRows \/ \E m \in Match : RowStep(m)
<1> USE DEF DeskTypeOK
<1> None \notin PlannableStates
  BY NoPageAssumption DEF PlannableStates, Lifecycle
<1>1. CASE PickPilotChild
  <2>1. live = None /\ ~CardShown /\ UNCHANGED <<brokerage, consent>>
    BY <1>1 DEF PickPilotChild, CardShown, Planned
  <2>2. QED
    BY <2>1 DEF AroundRows
<1>2. CASE IngestPlay
  <2>1. live = None /\ ~CardShown /\ UNCHANGED <<brokerage, consent>>
    BY <1>2 DEF IngestPlay, CardShown, Planned
  <2>2. QED
    BY <2>1 DEF AroundRows
<1>3. CASE LoadDesk
  BY <1>3 DEF LoadDesk, AroundRows, Unmounted
<1>4. CASE CloseDesk
  BY <1>4 DEF CloseDesk, AroundRows, Unmounted
<1>5. CASE Decide
  <2>1. CASE Unmounted
    BY <2>1 DEF AroundRows, Unmounted
  <2>2. CASE /\ onPlan /\ Planned(played, live')
             /\ UNCHANGED <<brokerage, consent, synthetic, played, stored, onPlan>>
    <3>1. CardShown'
      BY <2>2 DEF CardShown
    <3>2. QED
      BY <2>2, <3>1 DEF AroundRows
  <2>3. QED
    BY <1>5, <2>1, <2>2 DEF Decide
<1>6. CASE ShowPlan
  <2>1. ~CardShown /\ UNCHANGED <<brokerage, consent, synthetic, played, stored>>
    BY <1>6 DEF ShowPlan, CardShown
  <2>2. QED
    BY <2>1 DEF AroundRows
<1>7. CASE LeavePlan
  BY <1>7 DEF LeavePlan, AroundRows, Unmounted
<1>8. ASSUME NEW m \in Match, Propose(m) PROVE RowStep(m)
  <2>1. "proposed" \in NextRung("none") /\ "proposed" \in HandoffState \ {"none"}
    BY DEF NextRung, HandoffState
  <2>2. QED
    BY <1>8, <2>1 DEF Propose, SetHandoff, RowStep
<1>9. ASSUME NEW m \in Match, TickConsent(m) PROVE RowStep(m)
  BY <1>9 DEF TickConsent, RowStep
<1>10. ASSUME NEW m \in Match, Approve(m) PROVE RowStep(m)
  <2>1. "approved" \in NextRung("proposed") /\ "approved" \in HandoffState \ {"none"}
    BY DEF NextRung, HandoffState
  <2>2. QED
    BY <1>10, <2>1 DEF Approve, SetHandoff, RowStep
<1>11. ASSUME NEW m \in Match, AdvanceHandoff(m) PROVE RowStep(m)
  <2>1. PICK k \in 1..3 :
          m \in Rows /\ brokerage[m] = HandoffOrder[k] /\ SetHandoff(m, HandoffOrder[k + 1])
    BY <1>11 DEF AdvanceHandoff
  <2>2. /\ HandoffOrder[k + 1] \in NextRung(HandoffOrder[k])
        /\ HandoffOrder[k + 1] \in HandoffState \ {"none"}
        /\ HandoffOrder[k] \in {"approved", "introduced", "active", "transferred"}
    <3>1. k = 1 \/ k = 2 \/ k = 3
      OBVIOUS
    <3>2. QED
      BY <3>1 DEF HandoffOrder, NextRung, HandoffState
  <2>3. QED
    BY <2>1, <2>2 DEF SetHandoff, RowStep
<1>12. ASSUME NEW m \in Match, DeclineMatch(m) PROVE RowStep(m)
  <2>1. "declined" \in NextRung(brokerage[m]) /\ "declined" \in HandoffState \ {"none"}
    <3>1. brokerage[m] \in {"proposed", "approved", "introduced", "active"}
      BY <1>12 DEF DeclineMatch, HandoffState
    <3>2. QED
      BY <3>1 DEF NextRung, HandoffState
  <2>2. QED
    BY <1>12, <2>1 DEF DeclineMatch, SetHandoff, RowStep
<1>13. CASE UNCHANGED desk
  BY <1>13 DEF desk, AroundRows, CardShown
<1>14. QED
  BY <1>1, <1>2, <1>3, <1>4, <1>5, <1>6, <1>7, <1>8, <1>9, <1>10, <1>11, <1>12, <1>13
  DEF DeskNext

-----------------------------------------------------------------------------
(* The invariants *)

LEMMA StepKeepsConsent ==
  ASSUME DeskTypeOK, ConsentBehindHandoff, [DeskNext]_desk
  PROVE  ConsentBehindHandoff'
<1> USE DEF DeskTypeOK
<1>1. CASE AroundRows
  BY <1>1 DEF AroundRows, ConsentBehindHandoff, NoHandoffs
<1>2. ASSUME NEW m \in Match, RowStep(m) PROVE ConsentBehindHandoff'
  BY <1>2 DEF RowStep, ConsentBehindHandoff
<1>3. QED
  BY <1>1, <1>2, DeskSteps

LEMMA StepKeepsFit ==
  ASSUME DeskTypeOK, HandoffsFitThePlan, [DeskNext]_desk
  PROVE  HandoffsFitThePlan'
<1> USE DEF DeskTypeOK
<1>1. CASE AroundRows
  <2>1. CASE brokerage' = NoHandoffs
    BY <2>1 DEF HandoffsFitThePlan, NoHandoffs
  <2>2. CASE brokerage' = brokerage /\ ~(\E m \in Match : brokerage[m] # "none")
    BY <2>2 DEF HandoffsFitThePlan
  <2>3. CASE /\ UNCHANGED <<brokerage, consent>>
             /\ live # None => UNCHANGED <<synthetic, played, stored>>
             /\ CardShown => CardShown'
             /\ \E m \in Match : brokerage[m] # "none"
    <3>1. CardShown /\ CardShown'
      BY <2>3 DEF HandoffsFitThePlan
    <3>2. live # None
      BY <3>1, NoPageAssumption DEF CardShown, Planned, PlannableStates, Lifecycle
    <3>3. UNCHANGED <<synthetic, played, stored, brokerage>>
      BY <2>3, <3>2
    <3>4. ReadForKid' = ReadForKid
      BY <3>3 DEF ReadForKid
    <3>5. QED
      BY <3>1, <3>3, <3>4 DEF HandoffsFitThePlan
  <2>4. QED
    BY <1>1, <2>1, <2>2, <2>3 DEF AroundRows
<1>2. ASSUME NEW m \in Match, RowStep(m) PROVE HandoffsFitThePlan'
  <2>1. UNCHANGED <<synthetic, played, stored, live, onPlan>>
    BY <1>2 DEF RowStep
  <2>2. ReadForKid' = ReadForKid /\ CardShown' = CardShown
    BY <2>1 DEF ReadForKid, CardShown
  <2>3. \A n \in Match \ {m} : brokerage'[n] = brokerage[n]
    BY <1>2 DEF RowStep
  <2>4. m \in Rows
    BY <1>2 DEF RowStep
  <2>5. CardShown
    BY <2>4 DEF Rows
  <2>6. ~Strained(ReadForKid)
    BY <2>4, <2>5 DEF Rows, Surfaced
  <2>7. KindOf[m] = "audience" => PlanStage(played, ReadForKid) > 1
    BY <2>4, <2>5, <2>6 DEF Rows, Surfaced, CatalogFor
  <2>8. QED
    BY <2>1, <2>2, <2>3, <2>5, <2>6, <2>7 DEF HandoffsFitThePlan
<1>3. QED
  BY <1>1, <1>2, DeskSteps

LEMMA StepKeepsLadder ==
  ASSUME DeskTypeOK, [DeskNext]_desk
  PROVE  brokerage' = NoHandoffs \/ \A m \in Match : brokerage'[m] \in NextRung(brokerage[m])
<1> USE DEF DeskTypeOK
<1>1. \A m \in Match : brokerage[m] \in NextRung(brokerage[m])
  BY DEF NextRung, HandoffState
<1>2. CASE AroundRows
  BY <1>1, <1>2 DEF AroundRows
<1>3. ASSUME NEW m \in Match, RowStep(m)
      PROVE  \A n \in Match : brokerage'[n] \in NextRung(brokerage[n])
  BY <1>1, <1>3 DEF RowStep
<1>4. QED
  BY <1>2, <1>3, DeskSteps

-----------------------------------------------------------------------------
(* The desk *)

LEMMA DeskAlwaysTyped == DeskSpec => []DeskTypeOK
BY DeskTypeStarts, StepKeepsDeskTypes, PTL DEF DeskSpec

\* The type invariant, for any log and any catalog.
THEOREM DeskTypeCorrect == DeskSpec => []DeskTypeOK
BY DeskAlwaysTyped

\* Nobody is approved, introduced or handed over without a consent that still
\* stands, whatever the guide ticks and unticks, and in whatever order.
THEOREM ConsentStands == DeskSpec => []ConsentBehindHandoff
<1>1. DeskInit => ConsentBehindHandoff
  BY DEF DeskInit, ConsentBehindHandoff, NoHandoffs
<1>2. QED
  BY <1>1, DeskAlwaysTyped, StepKeepsConsent, PTL DEF DeskSpec

\* No handoff outlives the plan and the read it was surfaced for, for whatever
\* windows and thresholds these go by.
THEOREM HandoffsFit == DeskSpec => []HandoffsFitThePlan
<1>1. DeskInit => HandoffsFitThePlan
  BY DEF DeskInit, HandoffsFitThePlan, NoHandoffs
<1>2. QED
  BY <1>1, DeskAlwaysTyped, StepKeepsFit, PTL DEF DeskSpec

\* A handoff moves rung by rung and stays where it ends, until the panel goes.
THEOREM LadderIsKept == DeskSpec => LadderKept
BY DeskAlwaysTyped, StepKeepsLadder, PTL DEF DeskSpec, LadderKept

(***************************************************************************)
(* The review of a map: any milestones and words, any number of guides     *)
(***************************************************************************)

-----------------------------------------------------------------------------
(* One map *)

LEMMA ValidateMapType ==
  ASSUME NEW map
  PROVE  ValidateMap(map) \in SUBSET Problem
<1> USE MilestoneAssumption DEF Milestone
<1>1. {<<"E1_DANGLING", m>> : m \in {x \in Milestone : 0 \in map.requires[x]}} \subseteq Problem
  BY DEF Problem
<1>2. {<<"E1_CYCLE", 0>> : m \in {x \in Milestone : x \in Reach(map, x)}} \subseteq Problem
  BY DEF Problem
<1>3. {<<"E3_NO_ARTEFACT", m>> : m \in {x \in Milestone : ~NamesArtefact(map, x)}} \subseteq Problem
  BY DEF Problem
<1>4. {<<"E6_FLOOR_ORDER", m>> :
          m \in {x \in Milestone : \E d \in Inside(map, x) : map.floor[d] > map.floor[x]}}
        \subseteq Problem
  BY DEF Problem
<1>5. {<<"other", 0>> : b \in {map.sound} \cap {FALSE}} \subseteq Problem
  BY DEF Problem
<1>6. QED
  BY <1>1, <1>2, <1>3, <1>4, <1>5 DEF ValidateMap

LEMMA GeneratedType ==
  ASSUME NEW p \in Proposal
  PROVE  Generated(p) \in MasteryMap
<1>1. /\ ValidateMap(p) \in SUBSET Problem
      /\ <<>> \in Seq(Edit)
      /\ "draft" \in Status
  BY ValidateMapType DEF Status
<1>2. QED
  BY <1>1 DEF Generated, MasteryMap, Proposal

\* applyEdit changes one sentence, says so, and takes the record and the status back.
LEMMA ApplyEditIs ==
  ASSUME NEW map \in MasteryMap, NEW m \in Milestone, NEW field \in Field, NEW value \in Text
  PROVE  LET e == [milestone |-> m, field |-> field, before |-> map.text[m][field],
                   after |-> value]
             next == ApplyEdit(map, m, field, value)
         IN  /\ e \in Edit
             /\ next \in MasteryMap
             /\ next.edits = Append(map.edits, e)
             /\ next.text[m][field] = value
             /\ \A x \in Milestone, f \in Field :
                  <<x, f>> # <<m, field>> => next.text[x][f] = map.text[x][f]
             /\ next.validation = Unvalidated
             /\ next.status = "draft"
<1> DEFINE e == [milestone |-> m, field |-> field, before |-> map.text[m][field], after |-> value]
           next == ApplyEdit(map, m, field, value)
           text == [map.text EXCEPT ![m][field] = value]
<1>1. map.text \in [Milestone -> [Field -> Text]] /\ map.edits \in Seq(Edit) /\ map.version \in Nat
  BY DEF MasteryMap
<1>2. e \in Edit
  BY <1>1 DEF Edit
<1>3. /\ text \in [Milestone -> [Field -> Text]]
      /\ text[m][field] = value
      /\ \A x \in Milestone, f \in Field : <<x, f>> # <<m, field>> => text[x][f] = map.text[x][f]
  BY <1>1
<1>4. Append(map.edits, e) \in Seq(Edit)
  BY <1>1, <1>2
<1>5. Unvalidated \in SUBSET Problem /\ "draft" \in Status
  BY MilestoneAssumption DEF Unvalidated, Problem, Status
<1>6. next = [map EXCEPT !.version = map.version + 1, !.text = text,
                         !.edits = Append(map.edits, e), !.validation = Unvalidated,
                         !.status = "draft"]
  BY DEF ApplyEdit, MasteryMap
<1> HIDE DEF next, text, e
<1>7. /\ next.edits = Append(map.edits, e) /\ next.text = text
      /\ next.validation = Unvalidated /\ next.status = "draft"
  BY <1>6 DEF MasteryMap
<1>8. next \in MasteryMap
  <2>1. map.version + 1 \in Nat
    BY <1>1
  <2>2. QED
    BY <1>3, <1>4, <1>5, <1>6, <2>1 DEF MasteryMap
<1>9. QED
  BY <1>2, <1>3, <1>7, <1>8 DEF next, e

LEMMA ApplyEditResets ==
  ASSUME NEW map \in MasteryMap, NEW m \in Milestone, NEW field \in Field, NEW value \in Text
  PROVE  /\ ApplyEdit(map, m, field, value).validation = Unvalidated
         /\ ApplyEdit(map, m, field, value).status = "draft"
<1> DEFINE text == [map.text EXCEPT ![m][field] = value]
           edits == Append(map.edits, [milestone |-> m, field |-> field,
                                       before |-> map.text[m][field], after |-> value])
<1>1. ApplyEdit(map, m, field, value)
        = [map EXCEPT !.version = map.version + 1, !.text = text, !.edits = edits,
                      !.validation = Unvalidated, !.status = "draft"]
  BY DEF ApplyEdit, MasteryMap
<1> HIDE DEF text, edits
<1>2. QED
  BY <1>1 DEF MasteryMap

-----------------------------------------------------------------------------
(* Types *)

LEMMA ReviewTypeStarts ==
  ASSUME ReviewInit
  PROVE  ReviewTypeOK
BY DEF ReviewInit, ReviewTypeOK

LEMMA StepKeepsReviewTypes ==
  ASSUME ReviewTypeOK, [ReviewNext]_review
  PROVE  ReviewTypeOK'
<1> USE DEF ReviewTypeOK
<1>1. CASE GenerateMap
  BY <1>1, ReviewAssumption, GeneratedType DEF GenerateMap
<1>2. ASSUME NEW r \in Reviewer, OpenReview(r) PROVE ReviewTypeOK'
  BY <1>2 DEF OpenReview
<1>3. ASSUME NEW r \in Reviewer, CloseReview(r) PROVE ReviewTypeOK'
  BY <1>3 DEF CloseReview
<1>4. ASSUME NEW r \in Reviewer, EditCapability(r) PROVE ReviewTypeOK'
  <2>1. PICK m \in Milestone, value \in Text :
          SetSheet(r, ApplyEdit(sheet[r], m, "capability", value))
    BY <1>4 DEF EditCapability
  <2>2. sheet[r] \in MasteryMap /\ "capability" \in Field
    BY <1>4 DEF EditCapability, Field
  <2>3. ApplyEdit(sheet[r], m, "capability", value) \in MasteryMap
    BY <2>2, ApplyEditIs
  <2>4. QED
    BY <2>1, <2>3 DEF SetSheet
<1>5. ASSUME NEW r \in Reviewer, Recheck(r) PROVE ReviewTypeOK'
  <2>1. sheet[r] \in MasteryMap /\ ValidateMap(sheet[r]) \in SUBSET Problem
    BY <1>5, ValidateMapType DEF Recheck
  <2>2. [sheet[r] EXCEPT !.validation = ValidateMap(sheet[r])] \in MasteryMap
    BY <2>1 DEF MasteryMap
  <2>3. QED
    BY <1>5, <2>2 DEF Recheck, SetSheet
<1>6. ASSUME NEW r \in Reviewer, NEW s \in Status, sheet[r] # NoMap,
             SetSheet(r, [sheet[r] EXCEPT !.status = s])
      PROVE  ReviewTypeOK'
  <2>1. [sheet[r] EXCEPT !.status = s] \in MasteryMap
    BY <1>6 DEF MasteryMap
  <2>2. QED
    BY <1>6, <2>1 DEF SetSheet
<1>7. ASSUME NEW r \in Reviewer, PutIntoUse(r) \/ WithdrawMap(r) PROVE ReviewTypeOK'
  BY <1>6, <1>7 DEF PutIntoUse, WithdrawMap, Status
<1>8. ASSUME NEW r \in Reviewer, SaveMap(r) PROVE ReviewTypeOK'
  BY <1>8 DEF SaveMap
<1>9. CASE UNCHANGED review
  BY <1>9 DEF review
<1>10. QED
  BY <1>1, <1>2, <1>3, <1>4, <1>5, <1>7, <1>8, <1>9 DEF ReviewNext

-----------------------------------------------------------------------------
(* The edits *)

Replays(map) == \A m \in Milestone, f \in Field : EditChain(map, m, f)

\* Of a map only the edits and the text count.
LEMMA SameTextReplays ==
  ASSUME NEW a, NEW b, Replays(a), b.edits = a.edits, b.text = a.text
  PROVE  Replays(b)
<1>1. ASSUME NEW m \in Milestone, NEW f \in Field PROVE EditChain(b, m, f)
  <2>1. EditChain(a, m, f)
    BY DEF Replays
  <2>2. QED
    BY <2>1 DEF EditChain, EditsOf
<1>2. QED
  BY <1>1 DEF Replays

LEMMA EditReplays ==
  ASSUME NEW map \in MasteryMap, Replays(map),
         NEW m \in Milestone, NEW field \in Field, NEW value \in Text
  PROVE  Replays(ApplyEdit(map, m, field, value))
<1> DEFINE e == [milestone |-> m, field |-> field, before |-> map.text[m][field], after |-> value]
           next == ApplyEdit(map, m, field, value)
           n == Len(map.edits)
<1>1. /\ next.edits = Append(map.edits, e)
      /\ next.text[m][field] = value
      /\ \A x \in Milestone, f \in Field :
           <<x, f>> # <<m, field>> => next.text[x][f] = map.text[x][f]
  BY ApplyEditIs
<1>2. map.edits \in Seq(Edit) /\ n \in Nat
  BY DEF MasteryMap
<1>3. /\ Len(next.edits) = n + 1
      /\ next.edits[n + 1] = e
      /\ \A i \in 1..n : next.edits[i] = map.edits[i]
  BY <1>1, <1>2
<1> HIDE DEF next
<1>4. ASSUME NEW x \in Milestone, NEW f \in Field, <<x, f>> # <<m, field>>
      PROVE  EditChain(next, x, f)
  <2>1. EditsOf(next, x, f) = EditsOf(map, x, f)
    BY <1>2, <1>3, <1>4 DEF EditsOf
  <2>2. next.text[x][f] = map.text[x][f] /\ EditChain(map, x, f)
    BY <1>1, <1>4 DEF Replays
  <2>3. \A i \in EditsOf(map, x, f) : next.edits[i] = map.edits[i]
    BY <1>3 DEF EditsOf
  <2>4. QED
    BY <2>1, <2>2, <2>3 DEF EditChain
<1>5. EditChain(next, m, field)
  <2> DEFINE E == EditsOf(map, m, field)
             F == EditsOf(next, m, field)
  <2>1. F = E \cup {n + 1} /\ E \subseteq 1..n
    BY <1>2, <1>3 DEF EditsOf
  <2>2. EditChain(map, m, field)
    BY DEF Replays
  <2>3. e.before = map.text[m][field] /\ e.after = value
    OBVIOUS
  <2>4. \A i \in E : next.edits[i] = map.edits[i] /\ i < n + 1 /\ i \in Int
    BY <1>2, <1>3, <2>1
  <2> HIDE DEF E, F, e
  <2>5. \A i \in F : (\A j \in F : j <= i) => next.edits[i].after = next.text[m][field]
    <3>1. SUFFICES ASSUME NEW i \in F, \A j \in F : j <= i PROVE i = n + 1
      BY <1>1, <1>3, <2>3
    <3>2. QED
      BY <1>2, <2>1, <2>4, <3>1
  <2>6. \A i \in F : (\A j \in F : j >= i) => next.edits[i].before = proposed.text[m][field]
    <3>1. SUFFICES ASSUME NEW i \in F, \A j \in F : j >= i
                   PROVE  next.edits[i].before = proposed.text[m][field]
      OBVIOUS
    <3>2. CASE i \in E
      BY <2>1, <2>2, <2>4, <3>1, <3>2 DEF EditChain, E
    <3>3. CASE i = n + 1
      <4>1. E = {}
        BY <2>1, <2>4, <3>1, <3>3
      <4>2. QED
        BY <1>3, <2>2, <2>3, <3>3, <4>1 DEF EditChain, E
    <3>4. QED
      BY <2>1, <3>2, <3>3
  <2>7. \A i \in F : \A j \in F : (j < i /\ \A k \in F : k <= j \/ k >= i) =>
          next.edits[i].before = next.edits[j].after
    <3>1. SUFFICES ASSUME NEW i \in F, NEW j \in F, j < i, \A k \in F : k <= j \/ k >= i
                   PROVE  next.edits[i].before = next.edits[j].after
      OBVIOUS
    <3>2. j \in E
      BY <1>2, <2>1, <2>4, <3>1
    <3>3. CASE i \in E
      <4>1. \A k \in E : k <= j \/ k >= i
        BY <2>1, <3>1
      <4>2. map.edits[i].before = map.edits[j].after
        BY <2>2, <3>1, <3>2, <3>3, <4>1 DEF EditChain, E
      <4>3. QED
        BY <2>4, <3>2, <3>3, <4>2
    <3>4. CASE i = n + 1
      <4>1. \A k \in E : k <= j
        BY <1>2, <2>1, <2>4, <3>1, <3>4
      <4>2. map.edits[j].after = map.text[m][field]
        BY <2>2, <3>2, <4>1 DEF EditChain, E
      <4>3. QED
        BY <1>3, <2>3, <2>4, <3>2, <3>4, <4>2
    <3>5. QED
      BY <2>1, <3>3, <3>4
  <2>8. QED
    BY <2>1, <2>5, <2>6, <2>7 DEF EditChain, F
<1>6. \A x \in Milestone, f \in Field : EditChain(next, x, f)
  BY <1>4, <1>5
<1>7. QED
  BY <1>6 DEF Replays, next

\* Every map about, stored or open, replays; and none is open before one is stored.
AllReplay ==
  /\ storedMap # NoMap => Replays(storedMap)
  /\ \A r \in Reviewer : sheet[r] # NoMap => storedMap # NoMap /\ Replays(sheet[r])

LEMMA AllReplayStarts ==
  ASSUME ReviewInit
  PROVE  AllReplay
BY DEF ReviewInit, AllReplay

\* While the proposal stands, what replays keeps replaying.
LEMMA OpenMapReplays ==
  ASSUME UNCHANGED proposed, NEW map, Replays(map), NEW r \in Reviewer, sheet'[r] = map
  PROVE  Replays(sheet[r])'
BY DEF Replays, EditChain, EditsOf

LEMMA StoredMapReplays ==
  ASSUME UNCHANGED proposed, NEW map, Replays(map), storedMap' = map
  PROVE  Replays(storedMap)'
BY DEF Replays, EditChain, EditsOf

\* A step that changes open maps only, into ones that replay.
LEMMA SheetsReplay ==
  ASSUME ReviewTypeOK, AllReplay, NEW r \in Reviewer, NEW map,
         map # NoMap => storedMap # NoMap /\ Replays(map), SetSheet(r, map)
  PROVE  AllReplay'
<1>1. UNCHANGED <<proposed, storedMap>> /\ sheet' = [sheet EXCEPT ![r] = map]
  BY DEF SetSheet
<1>2. storedMap # NoMap => Replays(storedMap)'
  BY <1>1, StoredMapReplays DEF AllReplay
<1>3. ASSUME NEW q \in Reviewer, sheet'[q] # NoMap
      PROVE  storedMap # NoMap /\ Replays(sheet'[q])
  BY <1>1, <1>3 DEF ReviewTypeOK, AllReplay
<1>4. ASSUME NEW q \in Reviewer, sheet'[q] # NoMap PROVE Replays(sheet[q])'
  BY <1>1, <1>3, <1>4, OpenMapReplays
<1>5. QED
  BY <1>1, <1>2, <1>3, <1>4 DEF AllReplay

LEMMA StepKeepsAllReplay ==
  ASSUME ReviewTypeOK, AllReplay, [ReviewNext]_review
  PROVE  AllReplay'
<1>1. CASE GenerateMap
  <2>1. /\ \A r \in Reviewer : sheet'[r] = NoMap
        /\ storedMap' = Generated(proposed')
    BY <1>1 DEF GenerateMap, AllReplay
  <2>2. storedMap'.edits = <<>> /\ storedMap'.text = proposed'.text
    BY <2>1 DEF Generated
  <2>3. \A m \in Milestone, f \in Field : EditChain(storedMap, m, f)'
    BY <2>2 DEF EditChain, EditsOf
  <2>4. Replays(storedMap)'
    BY <2>3 DEF Replays
  <2>5. QED
    BY <2>1, <2>4 DEF AllReplay
<1>2. ASSUME NEW r \in Reviewer, OpenReview(r) PROVE AllReplay'
  BY <1>2, SheetsReplay DEF OpenReview, SetSheet, AllReplay
<1>3. ASSUME NEW r \in Reviewer, CloseReview(r) PROVE AllReplay'
  BY <1>3, SheetsReplay DEF CloseReview, SetSheet
<1>4. ASSUME NEW r \in Reviewer, EditCapability(r) PROVE AllReplay'
  <2>1. PICK m \in Milestone, value \in Text :
          SetSheet(r, ApplyEdit(sheet[r], m, "capability", value))
    BY <1>4 DEF EditCapability
  <2>2. /\ sheet[r] \in MasteryMap /\ "capability" \in Field
        /\ storedMap # NoMap /\ Replays(sheet[r])
    BY <1>4 DEF EditCapability, Field, ReviewTypeOK, AllReplay
  <2>3. Replays(ApplyEdit(sheet[r], m, "capability", value))
    BY <2>2, EditReplays
  <2>4. QED
    BY <2>1, <2>2, <2>3, SheetsReplay
<1>5. ASSUME NEW r \in Reviewer, NEW v, sheet[r] # NoMap,
             \/ SetSheet(r, [sheet[r] EXCEPT !.validation = v])
             \/ SetSheet(r, [sheet[r] EXCEPT !.status = v])
      PROVE  AllReplay'
  <2>1. sheet[r] \in MasteryMap /\ storedMap # NoMap /\ Replays(sheet[r])
    BY <1>5 DEF ReviewTypeOK, AllReplay
  <2>2. ASSUME NEW map, map.edits = sheet[r].edits, map.text = sheet[r].text PROVE Replays(map)
    BY <2>1, <2>2, SameTextReplays
  <2>3. Replays([sheet[r] EXCEPT !.validation = v]) /\ Replays([sheet[r] EXCEPT !.status = v])
    BY <2>1, <2>2 DEF MasteryMap
  <2>4. QED
    BY <1>5, <2>1, <2>3, SheetsReplay
<1>6. ASSUME NEW r \in Reviewer, Recheck(r) \/ PutIntoUse(r) \/ WithdrawMap(r) PROVE AllReplay'
  BY <1>5, <1>6 DEF Recheck, PutIntoUse, WithdrawMap
<1>7. ASSUME NEW r \in Reviewer, SaveMap(r) PROVE AllReplay'
  <2>1. storedMap # NoMap /\ Replays(storedMap) /\ Replays(sheet[r])
    BY <1>7 DEF SaveMap, AllReplay
  <2>2. CASE sheet[r].version = storedMap.version + 1
    <3>1. storedMap' = sheet[r] /\ UNCHANGED <<proposed, sheet>> /\ sheet[r] # NoMap
      BY <1>7, <2>2 DEF SaveMap
    <3>2. Replays(storedMap)'
      BY <2>1, <3>1, StoredMapReplays
    <3>3. ASSUME NEW q \in Reviewer, sheet[q] # NoMap PROVE Replays(sheet[q])'
      BY <3>1, <3>3, OpenMapReplays DEF AllReplay
    <3>4. QED
      BY <3>1, <3>2, <3>3 DEF AllReplay
  <2>3. CASE sheet[r].version # storedMap.version + 1
    BY <1>7, <2>1, <2>3, SheetsReplay DEF SaveMap, SetSheet
  <2>4. QED
    BY <2>2, <2>3
<1>8. CASE UNCHANGED review
  BY <1>8 DEF review, AllReplay, Replays, EditChain, EditsOf
<1>9. QED
  BY <1>1, <1>2, <1>3, <1>4, <1>6, <1>7, <1>8 DEF ReviewNext

-----------------------------------------------------------------------------
(* The checks *)

\* A record that says nothing is wrong tells the truth, and so does the status.
Honest(map) ==
  map.validation = {} \/ map.status = "published" => ValidateMap(map) = {}

AllHonest ==
  /\ storedMap # NoMap => Honest(storedMap)
  /\ \A r \in Reviewer : sheet[r] # NoMap => storedMap # NoMap /\ Honest(sheet[r])

\* The validator reads neither the record nor the status of a map.
LEMMA SameChecks ==
  ASSUME NEW a, NEW b, b.requires = a.requires, b.floor = a.floor, b.text = a.text,
         b.sound = a.sound
  PROVE  ValidateMap(b) = ValidateMap(a)
<1>1. \A m : Inside(b, m) = Inside(a, m)
  BY DEF Inside
<1>2. \A m : Reach(b, m) = Reach(a, m)
  BY <1>1 DEF Reach
<1>3. \A m : NamesArtefact(b, m) = NamesArtefact(a, m)
  BY DEF NamesArtefact
<1>4. QED
  BY <1>1, <1>2, <1>3 DEF ValidateMap

LEMMA ValidateReads ==
  ASSUME NEW map \in MasteryMap, NEW v
  PROVE  /\ ValidateMap([map EXCEPT !.validation = v]) = ValidateMap(map)
         /\ ValidateMap([map EXCEPT !.status = v]) = ValidateMap(map)
BY SameChecks DEF MasteryMap

LEMMA SheetsHonest ==
  ASSUME ReviewTypeOK, AllHonest, NEW r \in Reviewer, NEW map,
         map # NoMap => storedMap # NoMap /\ Honest(map), SetSheet(r, map)
  PROVE  AllHonest'
<1>1. UNCHANGED storedMap /\ sheet' = [sheet EXCEPT ![r] = map]
  BY DEF SetSheet
<1>2. ASSUME NEW q \in Reviewer, sheet'[q] # NoMap
      PROVE  storedMap # NoMap /\ Honest(sheet'[q])
  BY <1>1, <1>2 DEF ReviewTypeOK, AllHonest
<1>3. QED
  BY <1>1, <1>2 DEF AllHonest, Honest

LEMMA StepKeepsAllHonest ==
  ASSUME ReviewTypeOK, AllHonest, [ReviewNext]_review
  PROVE  AllHonest'
<1>1. CASE GenerateMap
  <2>1. PICK p \in Proposals : storedMap' = Generated(p)
    BY <1>1 DEF GenerateMap
  <2>2. \A r \in Reviewer : sheet'[r] = NoMap
    BY <1>1 DEF GenerateMap, AllHonest
  <2> DEFINE map == Generated(p)
  <2>3. /\ map.requires = p.requires /\ map.floor = p.floor /\ map.text = p.text
        /\ map.sound = p.sound /\ map.validation = ValidateMap(p) /\ map.status = "draft"
    BY DEF Generated
  <2>4. ValidateMap(map) = ValidateMap(p)
    BY <2>3, SameChecks
  <2>5. Honest(map)
    BY <2>3, <2>4 DEF Honest
  <2>6. QED
    BY <2>1, <2>2, <2>5 DEF AllHonest, Honest
<1>2. ASSUME NEW r \in Reviewer, OpenReview(r) PROVE AllHonest'
  BY <1>2, SheetsHonest DEF OpenReview, SetSheet, AllHonest
<1>3. ASSUME NEW r \in Reviewer, CloseReview(r) PROVE AllHonest'
  BY <1>3, SheetsHonest DEF CloseReview, SetSheet
<1>4. ASSUME NEW r \in Reviewer, EditCapability(r) PROVE AllHonest'
  <2>1. PICK m \in Milestone, value \in Text :
          SetSheet(r, ApplyEdit(sheet[r], m, "capability", value))
    BY <1>4 DEF EditCapability
  <2>2. sheet[r] \in MasteryMap /\ "capability" \in Field /\ storedMap # NoMap
    BY <1>4 DEF EditCapability, Field, ReviewTypeOK, AllHonest
  <2>3. Honest(ApplyEdit(sheet[r], m, "capability", value))
    <3>1. /\ ApplyEdit(sheet[r], m, "capability", value).validation = Unvalidated
          /\ ApplyEdit(sheet[r], m, "capability", value).status = "draft"
      BY <2>2, ApplyEditResets
    <3>2. Unvalidated # {} /\ "draft" # "published"
      BY DEF Unvalidated
    <3>3. QED
      BY <3>1, <3>2 DEF Honest
  <2>4. QED
    BY <2>1, <2>2, <2>3, SheetsHonest
<1>5. ASSUME NEW r \in Reviewer, Recheck(r) PROVE AllHonest'
  <2>1. sheet[r] \in MasteryMap /\ storedMap # NoMap /\ Honest(sheet[r])
    BY <1>5 DEF Recheck, ReviewTypeOK, AllHonest
  <2> DEFINE map == [sheet[r] EXCEPT !.validation = ValidateMap(sheet[r])]
  <2>2. ValidateMap(map) = ValidateMap(sheet[r])
    BY <2>1, ValidateReads
  <2>3. map.validation = ValidateMap(sheet[r]) /\ map.status = sheet[r].status
    BY <2>1 DEF MasteryMap
  <2>4. Honest(map) /\ SetSheet(r, map)
    BY <1>5, <2>1, <2>2, <2>3 DEF Honest, Recheck
  <2>5. QED
    BY <2>1, <2>4, SheetsHonest
<1>6. ASSUME NEW r \in Reviewer, PutIntoUse(r) PROVE AllHonest'
  <2>1. sheet[r] \in MasteryMap /\ storedMap # NoMap
    BY <1>6 DEF PutIntoUse, ReviewTypeOK, AllHonest
  <2>2. ValidateMap(sheet[r]) = {}
    BY <1>6, <2>1 DEF PutIntoUse, CanPublish, MasteryMap
  <2> DEFINE map == [sheet[r] EXCEPT !.status = "published"]
  <2>3. ValidateMap(map) = {} /\ SetSheet(r, map)
    BY <1>6, <2>1, <2>2, ValidateReads DEF PutIntoUse
  <2>4. QED
    BY <2>1, <2>3, SheetsHonest DEF Honest
<1>7. ASSUME NEW r \in Reviewer, WithdrawMap(r) PROVE AllHonest'
  <2>1. sheet[r] \in MasteryMap /\ storedMap # NoMap /\ Honest(sheet[r])
    BY <1>7 DEF WithdrawMap, ReviewTypeOK, AllHonest
  <2> DEFINE map == [sheet[r] EXCEPT !.status = "withdrawn"]
  <2>2. ValidateMap(map) = ValidateMap(sheet[r]) /\ SetSheet(r, map)
    BY <1>7, <2>1, ValidateReads DEF WithdrawMap
  <2>3. map.validation = sheet[r].validation /\ map.status = "withdrawn"
    BY <2>1 DEF MasteryMap
  <2>4. QED
    BY <2>1, <2>2, <2>3, SheetsHonest DEF Honest
<1>8. ASSUME NEW r \in Reviewer, SaveMap(r) PROVE AllHonest'
  <2>1. storedMap # NoMap /\ Honest(storedMap) /\ sheet[r] # NoMap /\ Honest(sheet[r])
    BY <1>8 DEF SaveMap, AllHonest
  <2>2. CASE sheet[r].version = storedMap.version + 1
    BY <1>8, <2>1, <2>2 DEF SaveMap, AllHonest, Honest
  <2>3. CASE sheet[r].version # storedMap.version + 1
    BY <1>8, <2>1, <2>3, SheetsHonest DEF SaveMap, SetSheet
  <2>4. QED
    BY <2>2, <2>3
<1>9. CASE UNCHANGED review
  BY <1>9 DEF review, AllHonest, Honest
<1>10. QED
  BY <1>1, <1>2, <1>3, <1>4, <1>5, <1>6, <1>7, <1>8, <1>9 DEF ReviewNext

\* What a milestone of the map requires is there and never gated above it.
Checked(map) ==
  \A m \in Milestone : \A d \in map.requires[m] : d \in Milestone /\ map.floor[d] <= map.floor[m]

LEMMA NothingWrong ==
  ASSUME NEW map \in MasteryMap, ValidateMap(map) = {}
  PROVE  Checked(map)
<1>1. SUFFICES ASSUME NEW m \in Milestone, NEW d \in map.requires[m]
               PROVE  d \in Milestone /\ map.floor[d] <= map.floor[m]
  BY DEF Checked
<1>2. d \in 0..MilestoneCount
  BY DEF MasteryMap
<1>3. d # 0
  <2>1. <<"E1_DANGLING", m>> \notin ValidateMap(map)
    OBVIOUS
  <2>2. QED
    BY <2>1, <1>1 DEF ValidateMap
<1>4. d \in Milestone
  BY <1>2, <1>3, MilestoneAssumption DEF Milestone
<1>5. ~(map.floor[d] > map.floor[m])
  <2>1. <<"E6_FLOOR_ORDER", m>> \notin ValidateMap(map)
    OBVIOUS
  <2>2. d \in Inside(map, m)
    BY <1>1, <1>4 DEF Inside
  <2>3. QED
    BY <2>1, <2>2 DEF ValidateMap
<1>6. map.floor[d] \in Int /\ map.floor[m] \in Int
  BY <1>4 DEF MasteryMap, Floor
<1>7. QED
  BY <1>4, <1>5, <1>6

-----------------------------------------------------------------------------
(* The order in which a map is read *)

\* What follows from a milestone's prerequisite follows from the milestone.
LEMMA ReachCloses ==
  ASSUME NEW map, NEW x \in Milestone, NEW d \in Inside(map, x)
  PROVE  /\ d \in Milestone /\ d \in Reach(map, x)
         /\ Reach(map, d) \subseteq Reach(map, x)
BY DEF Reach, Inside

Acyclic(map) == \A x \in Milestone : x \notin Reach(map, x)

\* Without a cycle every edge leads forward.
LEMMA AllForward ==
  ASSUME NEW map, Acyclic(map), NEW x \in Milestone
  PROVE  Forward(map, x) = Inside(map, x)
BY ReachCloses DEF Forward, Acyclic

\* One step back: the milestones with an edge into S.
OneBack(map, S) == {x \in Milestone : \E d \in Forward(map, x) : d \in S}

IsBehind(map, B) ==
  B = [n \in 0..MilestoneCount |-> IF n = 0 THEN Milestone ELSE OneBack(map, B[n - 1])]

LEMMA BehindExists ==
  ASSUME NEW map
  PROVE  \E B : IsBehind(map, B)
<1> DEFINE V == SUBSET Milestone
           step == [n \in 1..MilestoneCount |-> [S \in V |-> OneBack(map, S)]]
<1>1. Milestone \in V /\ step \in [1..MilestoneCount -> [V -> V]] /\ MilestoneCount \in Nat
  BY MilestoneAssumption DEF OneBack
<1>2. \A n \in 1..MilestoneCount, S \in V : step[n][S] = OneBack(map, S)
  OBVIOUS
<1> HIDE DEF V, step
<1>3. PICK B \in [0..MilestoneCount -> V] : IsIteration(MilestoneCount, Milestone, step, B)
  BY <1>1, IterationExists
<1>4. ASSUME NEW n \in 0..MilestoneCount
      PROVE  B[n] = IF n = 0 THEN Milestone ELSE OneBack(map, B[n - 1])
  <2>1. CASE n = 0
    BY <1>3, <2>1 DEF IsIteration
  <2>2. CASE n # 0
    <3>1. n \in 1..MilestoneCount /\ n - 1 \in 0..MilestoneCount
      BY <1>1, <2>2
    <3>2. B[n - 1] \in V
      BY <1>3, <3>1
    <3>3. QED
      BY <1>2, <1>3, <2>2, <3>1, <3>2 DEF IsIteration
  <2>3. QED
    BY <2>1, <2>2
<1>5. B = [n \in 0..MilestoneCount |-> B[n]]
  BY <1>3
<1>6. IsBehind(map, B)
  BY <1>4, <1>5 DEF IsBehind
<1>7. QED
  BY <1>6

\* B[n] are the milestones at least n steps behind which the map goes on.
StepsBack(map, B) ==
  B[0] = Milestone /\ \A n \in 1..MilestoneCount : B[n] = OneBack(map, B[n - 1])

\* The depth counts the steps that can be made back from a milestone.
LEMMA DepthCounts ==
  ASSUME NEW map
  PROVE  \E B : /\ StepsBack(map, B)
                /\ \A m : Depth(map, m) = Cardinality({n \in 1..MilestoneCount : m \in B[n]})
<1> DEFINE B == CHOOSE C : IsBehind(map, C)
<1>1. IsBehind(map, B)
  BY BehindExists
<1>2. \A m : Depth(map, m) = Cardinality({n \in 1..MilestoneCount : m \in B[n]})
  BY DEF Depth, IsBehind, OneBack
<1> HIDE DEF B
<1>3. \A n \in 0..MilestoneCount : B[n] = IF n = 0 THEN Milestone ELSE OneBack(map, B[n - 1])
  BY <1>1 DEF IsBehind
<1>4. StepsBack(map, B)
  BY <1>3, MilestoneAssumption DEF StepsBack
<1>5. QED
  BY <1>2, <1>4

LEMMA MilestonesFinite ==
  IsFiniteSet(Milestone) /\ Cardinality(Milestone) = MilestoneCount /\ MilestoneCount \in Nat \ {0}
BY FS_Interval, MilestoneAssumption DEF Milestone

\* A milestone with n steps behind it reaches n others.
LEMMA StepsNeedMilestones ==
  ASSUME NEW map, Acyclic(map), NEW B, StepsBack(map, B)
  PROVE  \A n \in 0..MilestoneCount : \A x \in B[n] : Cardinality(Reach(map, x)) >= n
<1> DEFINE S == {n \in Nat : \A x \in B[n] : Cardinality(Reach(map, x)) >= n}
<1>0. \A x \in Milestone : IsFiniteSet(Reach(map, x)) /\ Cardinality(Reach(map, x)) \in Nat
  <2>1. \A x : Reach(map, x) \in SUBSET Milestone
    BY DEF Reach
  <2>2. QED
    BY <2>1, MilestonesFinite, FS_Subset, FS_CardinalityType
<1>1. 0 \in S
  BY <1>0 DEF StepsBack
<1>2. ASSUME NEW n \in 0..(MilestoneCount - 1), n \in S
      PROVE  n + 1 \in S
  <2>1. n + 1 \in 1..MilestoneCount /\ (n + 1) - 1 = n
    BY MilestonesFinite
  <2>2. ASSUME NEW x \in B[n + 1] PROVE Cardinality(Reach(map, x)) >= n + 1
    <3>1. PICK d \in Forward(map, x) : x \in Milestone /\ d \in B[n]
      BY <2>1 DEF StepsBack, OneBack
    <3>2. d \in Inside(map, x)
      BY DEF Forward
    <3>3. d \in Milestone /\ d \in Reach(map, x) /\ Reach(map, d) \subseteq Reach(map, x)
      BY <3>1, <3>2, ReachCloses
    <3>4. d \notin Reach(map, d)
      BY <3>3 DEF Acyclic
    <3>5. Cardinality(Reach(map, d)) <= Cardinality(Reach(map, x))
            /\ Cardinality(Reach(map, d)) # Cardinality(Reach(map, x))
      BY <1>0, <3>1, <3>3, <3>4, FS_Subset
    <3>6. Cardinality(Reach(map, d)) >= n
      BY <1>2, <3>1
    <3>7. QED
      BY <1>0, <3>1, <3>3, <3>5, <3>6
  <2>3. QED
    BY <2>2
<1>3. 0..MilestoneCount \subseteq S
  <2> HIDE DEF S
  <2>1. QED
    BY <1>1, <1>2, MilestonesFinite, BoundedSetInduction
<1>4. QED
  BY <1>3

\* In a map without a cycle what a milestone requires is less deep than it is.
LEMMA DeeperThanRequired ==
  ASSUME NEW map, Acyclic(map), NEW m \in Milestone, NEW d \in Inside(map, m)
  PROVE  Depth(map, d) \in Nat /\ Depth(map, m) \in Nat /\ Depth(map, d) < Depth(map, m)
<1>1. PICK B : /\ StepsBack(map, B)
               /\ \A x : Depth(map, x) = Cardinality({n \in 1..MilestoneCount : x \in B[n]})
  BY DepthCounts
<1> DEFINE At(x) == {n \in 1..MilestoneCount : x \in B[n]}
<1>2. d \in Milestone /\ d \in Forward(map, m)
  BY ReachCloses, AllForward
<1>3. \A x : IsFiniteSet(At(x)) /\ Cardinality(At(x)) \in Nat
  <2>1. IsFiniteSet(1..MilestoneCount)
    BY MilestonesFinite DEF Milestone
  <2>2. \A x : At(x) \in SUBSET (1..MilestoneCount)
    OBVIOUS
  <2>3. QED
    BY <2>1, <2>2, FS_Subset, FS_CardinalityType
<1>4. \A n \in 0..(MilestoneCount - 1) : d \in B[n] => m \in B[n + 1]
  <2>1. SUFFICES ASSUME NEW n \in 0..(MilestoneCount - 1), d \in B[n] PROVE m \in B[n + 1]
    OBVIOUS
  <2>2. n + 1 \in 1..MilestoneCount /\ (n + 1) - 1 = n
    BY MilestonesFinite
  <2>3. QED
    BY <1>1, <1>2, <2>1, <2>2 DEF StepsBack, OneBack
<1>5. B[MilestoneCount] = {}
  <2>1. SUFFICES ASSUME NEW x \in B[MilestoneCount] PROVE FALSE
    OBVIOUS
  <2>2. x \in Milestone
    BY <1>1, <2>1, MilestonesFinite DEF StepsBack, OneBack
  <2>3. Cardinality(Reach(map, x)) >= MilestoneCount
    <3>1. MilestoneCount \in 0..MilestoneCount
      BY MilestonesFinite
    <3>2. \A n \in 0..MilestoneCount : \A y \in B[n] : Cardinality(Reach(map, y)) >= n
      BY <1>1, StepsNeedMilestones
    <3>3. QED
      BY <2>1, <3>1, <3>2
  <2>4. Reach(map, x) \in SUBSET Milestone /\ x \notin Reach(map, x)
    BY <2>2 DEF Reach, Acyclic
  <2>5. Cardinality(Reach(map, x)) <= Cardinality(Milestone)
          /\ Cardinality(Reach(map, x)) # Cardinality(Milestone)
    BY <2>2, <2>4, MilestonesFinite, FS_Subset
  <2>6. Cardinality(Reach(map, x)) \in Nat
    BY <2>4, MilestonesFinite, FS_Subset, FS_CardinalityType
  <2>7. QED
    BY <2>3, <2>5, <2>6, MilestonesFinite
<1>6. \A n \in 1..MilestoneCount : B[n] \subseteq B[n - 1]
  <2> DEFINE S == {n \in Nat : n + 1 <= MilestoneCount => B[n + 1] \subseteq B[n]}
  <2>1. 0 \in S
    BY <1>1, MilestonesFinite DEF StepsBack, OneBack
  <2>2. ASSUME NEW n \in 0..(MilestoneCount - 1), n \in S PROVE n + 1 \in S
    <3>1. SUFFICES ASSUME (n + 1) + 1 <= MilestoneCount, NEW x \in B[(n + 1) + 1]
                   PROVE  x \in B[n + 1]
      BY <2>2
    <3>2. /\ (n + 1) + 1 \in 1..MilestoneCount /\ ((n + 1) + 1) - 1 = n + 1
          /\ n + 1 \in 1..MilestoneCount /\ (n + 1) - 1 = n
      BY <3>1, MilestonesFinite
    <3>3. PICK e \in Forward(map, x) : x \in Milestone /\ e \in B[n + 1]
      BY <1>1, <3>1, <3>2 DEF StepsBack, OneBack
    <3>4. e \in B[n]
      BY <2>2, <3>2, <3>3
    <3>5. QED
      BY <1>1, <3>2, <3>3, <3>4 DEF StepsBack, OneBack
  <2>3. 0..MilestoneCount \subseteq S
    <3> HIDE DEF S
    <3>1. QED
      BY <2>1, <2>2, MilestonesFinite, BoundedSetInduction
  <2>4. QED
    <3>1. SUFFICES ASSUME NEW n \in 1..MilestoneCount PROVE B[n] \subseteq B[n - 1]
      OBVIOUS
    <3>2. n - 1 \in 0..MilestoneCount /\ (n - 1) + 1 = n /\ n <= MilestoneCount
      BY MilestonesFinite
    <3>3. n - 1 \in S
      BY <2>3, <3>2
    <3>4. QED
      BY <3>2, <3>3
<1>7. At(d) \subseteq At(m)
  <2>1. SUFFICES ASSUME NEW n \in 1..MilestoneCount, d \in B[n] PROVE m \in B[n]
    OBVIOUS
  <2>2. n - 1 \in 0..(MilestoneCount - 1) /\ (n - 1) + 1 = n
    BY MilestonesFinite
  <2>3. d \in B[n - 1]
    BY <1>6, <2>1
  <2>4. QED
    BY <1>4, <2>2, <2>3
<1>8. At(d) # At(m)
  <2> DEFINE T == {n \in 0..MilestoneCount : d \in B[n]}
  <2>1. 0 \in T
    BY <1>1, <1>2, MilestonesFinite DEF StepsBack
  <2>2. PICK n \in T : \A k \in T : k <= n
    <3>1. T \in SUBSET (0..MilestoneCount) /\ T # {}
      BY <2>1
    <3> HIDE DEF T
    <3>2. QED
      BY <3>1, MilestonesFinite, GreatestOf
  <2>3. n # MilestoneCount
    BY <1>5, <2>2
  <2>4. n \in 0..(MilestoneCount - 1) /\ n + 1 \in 1..MilestoneCount /\ n + 1 \in 0..MilestoneCount
    BY <2>2, <2>3, MilestonesFinite
  <2>5. m \in B[n + 1]
    BY <1>4, <2>2, <2>4
  <2>6. d \notin B[n + 1]
    BY <2>2, <2>4
  <2>7. QED
    BY <2>4, <2>5, <2>6
<1>9. Cardinality(At(d)) <= Cardinality(At(m)) /\ Cardinality(At(d)) # Cardinality(At(m))
  <2> HIDE DEF At
  <2>1. QED
    BY <1>3, <1>7, <1>8, FS_Subset
<1>10. Depth(map, d) = Cardinality(At(d)) /\ Depth(map, m) = Cardinality(At(m))
  BY <1>1
<1>11. QED
  <2> HIDE DEF At
  <2>1. QED
    BY <1>3, <1>9, <1>10

\* A map nothing is wrong with reads in order.
LEMMA NothingWrongReads ==
  ASSUME NEW map \in MasteryMap, ValidateMap(map) = {}
  PROVE  Readable(map)
<1>1. Acyclic(map)
  <2>1. SUFFICES ASSUME NEW x \in Milestone, x \in Reach(map, x) PROVE FALSE
    BY DEF Acyclic
  <2>2. <<"E1_CYCLE", 0>> \in ValidateMap(map)
    BY <2>1 DEF ValidateMap
  <2>3. QED
    BY <2>2
<1>2. SUFFICES ASSUME NEW m \in Milestone, NEW d \in map.requires[m]
               PROVE  /\ d \in Milestone /\ Before(map, d, m)
                      /\ \A satisfied \in SUBSET Milestone, s \in Floor :
                           Reachable(map, m, satisfied, s) => map.floor[d] <= s
  BY DEF Readable
<1>3. d \in Milestone /\ map.floor[d] <= map.floor[m]
  BY NothingWrong DEF Checked
<1>4. map.floor[d] \in Int /\ map.floor[m] \in Int
  BY <1>3 DEF MasteryMap, Floor
<1>5. Depth(map, d) < Depth(map, m)
  BY <1>1, <1>3, DeeperThanRequired DEF Inside
<1>6. QED
  BY <1>3, <1>4, <1>5 DEF Before, Reachable, Floor

-----------------------------------------------------------------------------
(* The review *)

LEMMA ReviewAlways == ReviewSpec => [](ReviewTypeOK /\ AllReplay /\ AllHonest)
<1>1. ReviewInit => ReviewTypeOK /\ AllReplay /\ AllHonest
  BY ReviewTypeStarts, AllReplayStarts DEF ReviewInit, AllHonest
<1>2. ReviewTypeOK /\ AllReplay /\ AllHonest /\ [ReviewNext]_review
        => (ReviewTypeOK /\ AllReplay /\ AllHonest)'
  BY StepKeepsReviewTypes, StepKeepsAllReplay, StepKeepsAllHonest
<1>3. QED
  BY <1>1, <1>2, PTL DEF ReviewSpec

\* The type invariant, for any map and any number of guides.
THEOREM ReviewTypeCorrect == ReviewSpec => []ReviewTypeOK
BY ReviewAlways, PTL

\* However many guides edit, save and are refused, the edits of the stored map lead
\* from what was proposed to what it says.
THEOREM StoredEditsReplay == ReviewSpec => []EditsReplay
<1>1. AllReplay => EditsReplay
  BY DEF AllReplay, EditsReplay, Replays
<1>2. QED
  BY <1>1, ReviewAlways, PTL

\* A map in use, or given to a plan, passes the checks with the text it has now and
\* reads in order: however deep the map, each prerequisite comes before what it
\* unlocks and is never gated above a child who is offered what comes after it.
THEOREM MapsInUseAreFit == ReviewSpec => []FitForUse
<1>1. ReviewTypeOK /\ AllHonest => FitForUse
  <2>1. SUFFICES ASSUME ReviewTypeOK, AllHonest, NEW map \in InUse, map # NoMap,
                        map = Served \/ map.status = "published"
                 PROVE  ValidateMap(map) = {} /\ Readable(map)
    BY DEF FitForUse
  <2>2. Served # NoMap => Served = storedMap /\ storedMap.validation = {}
    BY DEF Served, CanPublish
  <2>3. map \in {storedMap} \cup {sheet[r] : r \in Reviewer}
    BY <2>1, <2>2 DEF InUse
  <2>4. map \in MasteryMap /\ Honest(map)
    BY <2>1, <2>3 DEF ReviewTypeOK, AllHonest
  <2>5. ValidateMap(map) = {}
    BY <2>1, <2>2, <2>4 DEF Honest
  <2>6. QED
    BY <2>4, <2>5, NothingWrongReads
<1>2. QED
  BY <1>1, ReviewAlways, PTL

(***************************************************************************)
(* The concierge: any children, pages and tiers, whatever its ports answer *)
(***************************************************************************)

Passes(p, tier) == p \in Reputable /\ p \in SafeFor[tier]

\* What waits for a person, and what a person let in, passed at the tier it was
\* served at.
ScreenedBefore ==
  /\ \A x \in queue : Passes(x.page, x.tier)
  /\ \A x \in approved : Passes(x[1], x[2])

\* The library holds, for a tier, what was seeded or vetted for it.
LibraryVetted == \A r \in library : \A tier \in r.tiers : Vetted(r.page, tier)

\* The pages being drawn on are screened, and those of an answer fit.
SourcesFit ==
  \A c \in Child : \A p \in sources[c] :
    /\ request[c].stage = "generating" => Passes(p, TierOf[c])
    /\ request[c].stage = "answered" => Vetted(p, TierOf[c]) \/ Passes(p, TierOf[c])

ConciergeInv == ScreenedBefore /\ LibraryVetted /\ SourcesFit

-----------------------------------------------------------------------------
(* What a request may come to at once *)

LEMMA AskSteps ==
  ASSUME NEW c \in Child, Ask(c)
  PROVE  \E query, workingOn \in Topic \cup {NoTopic}, stage \in Stage \ {"generating"} :
           /\ request' = [request EXCEPT ![c] =
                             [stage |-> stage, query |-> query, workingOn |-> workingOn]]
           /\ sources' = [sources EXCEPT ![c] =
                             IF stage = "answered"
                               THEN {r.page : r \in Matching(TierOf[c], query, workingOn)} ELSE {}]
<1>1. \A curated : {"escalated", "refused", IF curated = {} THEN "retrieving" ELSE "answered"}
                     \subseteq Stage \ {"generating"}
  BY DEF Stage
<1>2. QED
  BY <1>1 DEF Ask

-----------------------------------------------------------------------------
(* Types *)

LEMMA ConciergeTypeStarts ==
  ASSUME ConciergeInit
  PROVE  ConciergeTypeOK
BY ConciergeAssumption DEF ConciergeInit, ConciergeTypeOK, Idle, Stage

LEMMA StepKeepsConciergeTypes ==
  ASSUME ConciergeTypeOK, [ConciergeNext]_concierge
  PROVE  ConciergeTypeOK'
<1> USE ConciergeAssumption DEF ConciergeTypeOK
<1>1. ASSUME NEW c \in Child, Ask(c) PROVE ConciergeTypeOK'
  <2>1. PICK query \in Topic \cup {NoTopic}, workingOn \in Topic \cup {NoTopic} :
          \E stage \in Stage, pages \in SUBSET Page :
            /\ request' = [request EXCEPT ![c] =
                              [stage |-> stage, query |-> query, workingOn |-> workingOn]]
            /\ sources' = [sources EXCEPT ![c] = pages]
    <3>1. \A q, w : {r.page : r \in Matching(TierOf[c], q, w)} \in SUBSET Page
      BY DEF Matching, Resource
    <3>2. QED
      BY <1>1, <3>1, AskSteps
  <2>2. QED
    BY <1>1, <2>1 DEF Ask
<1>2. ASSUME NEW c \in Child, Retrieved(c) PROVE ConciergeTypeOK'
  <2>1. \A docs \in SUBSET Page : Screened(docs, TierOf[c]) \in SUBSET Page
    BY DEF Screened
  <2>2. PICK stage \in Stage, pages \in SUBSET Page : To(c, stage, pages)
    BY <1>2, <2>1 DEF Retrieved, Stage
  <2>3. QED
    BY <2>2 DEF To
<1>3. ASSUME NEW c \in Child, GeneratedAnswer(c) PROVE ConciergeTypeOK'
  <2>1. CASE To(c, "refused", {})
    BY <2>1 DEF To, Stage
  <2>2. CASE ~To(c, "refused", {})
    <3>1. CacheEntries(c) \subseteq CacheEntry
      BY DEF CacheEntries, CacheEntry
    <3>2. /\ request' = [request EXCEPT ![c].stage = "answered"]
          /\ queue' = queue \cup CacheEntries(c)
          /\ UNCHANGED <<sources, library, approved>>
      BY <1>3, <2>2 DEF GeneratedAnswer
    <3>3. QED
      BY <3>1, <3>2 DEF Stage
  <2>3. QED
    BY <2>1, <2>2
<1>4. ASSUME NEW c \in Child, PortFails(c) PROVE ConciergeTypeOK'
  BY <1>4 DEF PortFails, To, Stage
<1>5. ASSUME NEW e \in queue, NEW approve \in BOOLEAN, PromoteEntry(e, approve)
      PROVE  ConciergeTypeOK'
  <2>1. e \in CacheEntry
    OBVIOUS
  <2>2. e.page \in Page /\ e.tier \in Tier /\ Place(e) \in Topic \cup {NoTopic}
    BY <2>1 DEF CacheEntry, Place
  <2>3. Place(e) # NoTopic => ToResource(e, Place(e)) \in Resource
    BY <2>2 DEF ToResource, Resource
  <2>4. QED
    BY <1>5, <2>2, <2>3 DEF PromoteEntry
<1>6. CASE UNCHANGED concierge
  BY <1>6 DEF concierge
<1>7. QED
  BY <1>1, <1>2, <1>3, <1>4, <1>5, <1>6 DEF ConciergeNext

-----------------------------------------------------------------------------
(* The invariant *)

LEMMA ConciergeInvStarts ==
  ASSUME ConciergeInit
  PROVE  ConciergeInv
BY ConciergeAssumption
DEF ConciergeInit, ConciergeInv, ScreenedBefore, LibraryVetted, SourcesFit, Vetted

\* Steps that touch neither the library nor the vetting.
LEMMA OnlySources ==
  ASSUME ConciergeInv, UNCHANGED <<library, queue, approved>>, SourcesFit'
  PROVE  ConciergeInv'
BY DEF ConciergeInv, ScreenedBefore, LibraryVetted, Vetted

LEMMA StepKeepsConciergeInv ==
  ASSUME ConciergeTypeOK, ConciergeInv, [ConciergeNext]_concierge
  PROVE  ConciergeInv'
<1> USE ConciergeAssumption DEF ConciergeTypeOK
<1>1. ASSUME NEW c \in Child, Ask(c) PROVE ConciergeInv'
  <2>1. UNCHANGED <<library, queue, approved>>
    BY <1>1 DEF Ask
  <2>2. PICK query \in Topic \cup {NoTopic}, workingOn \in Topic \cup {NoTopic}, stage \in Stage :
          /\ request' = [request EXCEPT ![c] =
                            [stage |-> stage, query |-> query, workingOn |-> workingOn]]
          /\ stage # "generating"
          /\ sources' = [sources EXCEPT ![c] =
                            IF stage = "answered"
                              THEN {r.page : r \in Matching(TierOf[c], query, workingOn)} ELSE {}]
    BY <1>1, AskSteps
  <2>3. \A p \in {r.page : r \in Matching(TierOf[c], query, workingOn)} : Vetted(p, TierOf[c])
    BY DEF Matching, ConciergeInv, LibraryVetted
  <2>4. \A p, tier : Vetted(p, tier)' <=> Vetted(p, tier)
    BY <2>1 DEF Vetted
  <2>5. ASSUME NEW d \in Child, NEW p \in sources'[d]
        PROVE  /\ request'[d].stage = "generating" => Passes(p, TierOf[d])
               /\ request'[d].stage = "answered" =>
                    Vetted(p, TierOf[d])' \/ Passes(p, TierOf[d])
    <3>1. CASE d = c
      BY <2>2, <2>3, <2>4, <2>5, <3>1
    <3>2. CASE d # c
      BY <2>2, <2>4, <2>5, <3>2 DEF ConciergeInv, SourcesFit
    <3>3. QED
      BY <3>1, <3>2
  <2>6. SourcesFit'
    BY <2>5 DEF SourcesFit
  <2>7. QED
    BY <2>1, <2>6, OnlySources
<1>2. ASSUME NEW c \in Child, NEW stage \in Stage, NEW pages \in SUBSET Page, To(c, stage, pages),
             stage # "answered", \A p \in pages : Passes(p, TierOf[c])
      PROVE  ConciergeInv'
  <2>1. UNCHANGED <<library, queue, approved>>
    BY <1>2 DEF To
  <2>2. \A p, tier : Vetted(p, tier)' <=> Vetted(p, tier)
    BY <2>1 DEF Vetted
  <2>3. ASSUME NEW d \in Child, NEW p \in sources'[d]
        PROVE  /\ request'[d].stage = "generating" => Passes(p, TierOf[d])
               /\ request'[d].stage = "answered" =>
                    Vetted(p, TierOf[d])' \/ Passes(p, TierOf[d])
    <3>1. CASE d = c
      BY <1>2, <2>3, <3>1 DEF To
    <3>2. CASE d # c
      BY <1>2, <2>2, <2>3, <3>2 DEF To, ConciergeInv, SourcesFit
    <3>3. QED
      BY <3>1, <3>2
  <2>4. SourcesFit'
    BY <2>3 DEF SourcesFit
  <2>5. QED
    BY <2>1, <2>4, OnlySources
<1>3. ASSUME NEW c \in Child, Retrieved(c) PROVE ConciergeInv'
  <2>1. PICK docs \in SUBSET Page :
          LET survivors == Screened(docs, TierOf[c])
          IN  IF survivors = {} THEN To(c, "refused", {}) ELSE To(c, "generating", survivors)
    BY <1>3 DEF Retrieved
  <2>2. Screened(docs, TierOf[c]) \in SUBSET Page
        /\ \A p \in Screened(docs, TierOf[c]) : Passes(p, TierOf[c])
    BY DEF Screened, Passes
  <2>3. "refused" \in Stage /\ "generating" \in Stage
    BY DEF Stage
  <2>4. QED
    BY <1>2, <2>1, <2>2, <2>3
<1>4. ASSUME NEW c \in Child, To(c, "refused", {}) PROVE ConciergeInv'
  <2>1. "refused" \in Stage
    BY DEF Stage
  <2>2. QED
    BY <1>2, <1>4, <2>1
<1>5. ASSUME NEW c \in Child, GeneratedAnswer(c), ~To(c, "refused", {}) PROVE ConciergeInv'
  <2>1. /\ request[c].stage = "generating"
        /\ request' = [request EXCEPT ![c].stage = "answered"]
        /\ queue' = queue \cup CacheEntries(c)
        /\ UNCHANGED <<sources, library, approved>>
    BY <1>5 DEF GeneratedAnswer
  <2>2. \A p \in sources[c] : Passes(p, TierOf[c])
    BY <2>1 DEF ConciergeInv, SourcesFit
  <2>3. \A x \in CacheEntries(c) : Passes(x.page, x.tier)
    BY <2>2 DEF CacheEntries
  <2>4. ScreenedBefore' /\ LibraryVetted'
    BY <2>1, <2>3 DEF ConciergeInv, ScreenedBefore, LibraryVetted, Vetted
  <2>5. \A p, tier : Vetted(p, tier)' <=> Vetted(p, tier)
    BY <2>1 DEF Vetted
  <2>6. SourcesFit'
    BY <2>1, <2>2, <2>5 DEF ConciergeInv, SourcesFit
  <2>7. QED
    BY <2>4, <2>6 DEF ConciergeInv
<1>6. ASSUME NEW e \in queue, NEW approve \in BOOLEAN, PromoteEntry(e, approve)
      PROVE  ConciergeInv'
  <2>1. /\ queue' \subseteq queue
        /\ UNCHANGED <<request, sources>>
        /\ \/ UNCHANGED <<library, approved>>
           \/ /\ library' = library \cup {ToResource(e, Place(e))}
              /\ approved' = approved \cup {<<e.page, e.tier>>}
    BY <1>6 DEF PromoteEntry
  <2>2. Passes(e.page, e.tier)
    BY DEF ConciergeInv, ScreenedBefore
  <2>3. ScreenedBefore'
    BY <2>1, <2>2 DEF ConciergeInv, ScreenedBefore
  <2>4. \A p, tier : Vetted(p, tier) => Vetted(p, tier)'
    BY <2>1 DEF Vetted
  <2>5. LibraryVetted'
    <3>1. CASE UNCHANGED <<library, approved>>
      BY <2>4, <3>1 DEF ConciergeInv, LibraryVetted
    <3>2. CASE /\ library' = library \cup {ToResource(e, Place(e))}
               /\ approved' = approved \cup {<<e.page, e.tier>>}
      <4>1. Vetted(e.page, e.tier)'
        BY <3>2 DEF Vetted
      <4>2. ToResource(e, Place(e)).page = e.page /\ ToResource(e, Place(e)).tiers = {e.tier}
        BY DEF ToResource
      <4>3. QED
        BY <2>4, <3>2, <4>1, <4>2 DEF ConciergeInv, LibraryVetted
    <3>3. QED
      BY <2>1, <3>1, <3>2
  <2>6. SourcesFit'
    BY <2>1, <2>4 DEF ConciergeInv, SourcesFit
  <2>7. QED
    BY <2>3, <2>5, <2>6 DEF ConciergeInv
<1>7. CASE UNCHANGED concierge
  BY <1>7 DEF concierge, ConciergeInv, ScreenedBefore, LibraryVetted, SourcesFit, Vetted
<1>8. QED
  BY <1>1, <1>3, <1>4, <1>5, <1>6, <1>7 DEF ConciergeNext, GeneratedAnswer, PortFails

-----------------------------------------------------------------------------
(* The concierge *)

LEMMA ConciergeAlways == ConciergeSpec => [](ConciergeTypeOK /\ ConciergeInv)
<1>1. ConciergeInit => ConciergeTypeOK /\ ConciergeInv
  BY ConciergeTypeStarts, ConciergeInvStarts
<1>2. ConciergeTypeOK /\ ConciergeInv /\ [ConciergeNext]_concierge => (ConciergeTypeOK /\ ConciergeInv)'
  BY StepKeepsConciergeTypes, StepKeepsConciergeInv
<1>3. QED
  BY <1>1, <1>2, PTL DEF ConciergeSpec

\* The type invariant, for any ports and any library shipped.
THEOREM ConciergeTypeCorrect == ConciergeSpec => []ConciergeTypeOK
BY ConciergeAlways, PTL

\* However many children of whatever tiers ask for the same pages, and in whatever
\* order these are vetted, each is answered from what is fit for its own tier.
THEOREM AnswersFitTheTier == ConciergeSpec => []AnswersAreForTheTier
<1>1. ConciergeInv => AnswersAreForTheTier
  BY DEF ConciergeInv, ScreenedBefore, SourcesFit, Passes, AnswersAreForTheTier
<1>2. QED
  BY <1>1, ConciergeAlways, PTL
=============================================================================
