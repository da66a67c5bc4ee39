---------------------------- MODULE AccessDesk -----------------------------
(***************************************************************************)
(* The Plan and access tab of the guide console (plan.ts, wellbeing.ts,    *)
(* access.ts, access-panel.tsx): for one child and one specialization, the *)
(* matches the broker surfaces and the handoff of each, which the guide    *)
(* proposes, approves behind a guardian's consent, and walks rung by rung. *)
(*                                                                         *)
(* The plan follows the store on screen; the wellbeing read beneath it     *)
(* follows the profile as it was saved.  The handoffs live in the panel    *)
(* and go when it leaves the screen.  What the child plays while a page is *)
(* open is seen at the next load, so it is counted before it.              *)
(***************************************************************************)
EXTENDS Hypothesis, SpikePlan

CONSTANTS Match,      \* the opportunities opportunitiesForCard writes
          KindOf,     \* of each: mentor or audience
          AgeBand,    \* CONSOLE_AGE_BAND
          Seeds,      \* states the pilot's profiles hold the hypothesis in
          PilotLogs,  \* logs of the synthetic children
          MaxDays     \* bound: days of an ingested child's log

ASSUME MatchAssumption == KindOf \in [Match -> {"mentor", "audience"}] /\ AgeBand \in 1..3
ASSUME NoPageAssumption == None \notin Lifecycle
ASSUME SeedAssumption == Seeds \subseteq Lifecycle /\ PilotLogs \subseteq Log /\ MaxDays \in Nat

HandoffOrder == <<"approved", "introduced", "active", "transferred">>
HandoffState == {"none", "proposed", "declined", "approved", "introduced", "active", "transferred"}

VARIABLES
  synthetic,  \* a child of the pilot fixtures, or one ingested from the game
  played,     \* the child's log, to the day the profile was written
  stored,     \* the hypothesis in the profile
  live,       \* the hypothesis in the store on screen, None while no page is open
  onPlan,     \* the tab shows this specialization's plan
  brokerage,  \* per match: the state of its handoff
  consent     \* per match: the guardian-consent box

desk == <<synthetic, played, stored, live, onPlan, brokerage, consent>>

NoHandoffs == [m \in Match |-> "none"]
NoConsent  == [m \in Match |-> FALSE]

-----------------------------------------------------------------------------
(* What the page derives *)

\* wellbeingForKid reads the saved state, against PILOT_CATALOG and ROSTER_NOW:
\* what an ingested child played resolves to nothing there.
ReadForKid ==
  LET seen == IF synthetic THEN played ELSE <<>>
  IN  WellbeingState(Signals(seen, {}), stored \in PlannableStates)

\* plansForKid, over the store on screen.
CardShown == onPlan /\ Planned(played, live)

\* opportunitiesForCard: each fits the plan it is written for, and an audience is
\* written only for a plan that has one.
CatalogFor(stage) ==
  [m \in {m \in Match : KindOf[m] = "audience" => stage > 1} |->
     [kind |-> KindOf[m], fills |-> stage, minStage |-> 1, ageTier |-> AgeBand, vetted |-> TRUE]]

\* accessForKid: the rows of the panel.  The stub brief always has a scaffold.
Rows ==
  IF CardShown
    THEN LET stage == PlanStage(played, ReadForKid)
         IN  Surfaced(CatalogFor(stage), stage, AgeBand, ReadForKid, TRUE)
    ELSE {}

-----------------------------------------------------------------------------
DeskInit ==
  /\ synthetic = FALSE /\ played = <<>> /\ stored = "EXPLORING"
  /\ live = None /\ onPlan = FALSE
  /\ brokerage = NoHandoffs /\ consent = NoConsent

Unmounted == brokerage' = NoHandoffs /\ consent' = NoConsent

\* Which child the desk is opened for.
PickPilotChild ==
  /\ live = None /\ played = <<>> /\ ~synthetic
  /\ synthetic' = TRUE
  /\ played' \in PilotLogs
  /\ stored' \in Seeds
  /\ UNCHANGED <<live, onPlan, brokerage, consent>>

\* POST /api/ingest: days of an ingested child, and the system's transitions.  Nothing
\* the game logs is prompted (log.ts:106, 138).
IngestPlay ==
  /\ live = None /\ ~synthetic
  /\ \E idle \in 0..(MaxDays - Len(played) - 1), d \in Day :
       /\ d.play = "voluntary"
       /\ played' = played \o [i \in 1..idle |-> [play |-> "none", depth |-> "none"]] \o <<d>>
  /\ stored' \in {stored} \cup {s \in Lifecycle : CanTransition(stored, s, "auto")}
  /\ UNCHANGED <<synthetic, live, onPlan, brokerage, consent>>

\* The page loads with the profile's state; the decisions it replays are Decide.
LoadDesk ==
  /\ live = None /\ played # <<>>
  /\ live' = stored
  /\ onPlan' = FALSE
  /\ Unmounted
  /\ UNCHANGED <<synthetic, played, stored>>

CloseDesk ==
  /\ live # None
  /\ live' = None /\ onPlan' = FALSE
  /\ Unmounted
  /\ UNCHANGED <<synthetic, played, stored>>

\* A promote, park, reopen or contest of the guide.  A card that goes takes its
\* handoffs with it.  When a promote is ripe is GuideConsole's subject.
Decide ==
  /\ live # None
  /\ live' \in {s \in Lifecycle : CanTransition(live, s, "human")}
  /\ IF onPlan /\ Planned(played, live') THEN UNCHANGED <<brokerage, consent>> ELSE Unmounted
  /\ UNCHANGED <<synthetic, played, stored, onPlan>>

\* Another tab, another specialization, another child and back.
ShowPlan ==
  /\ live # None /\ ~onPlan
  /\ onPlan' = TRUE
  /\ UNCHANGED <<synthetic, played, stored, live, brokerage, consent>>

LeavePlan ==
  /\ onPlan
  /\ onPlan' = FALSE
  /\ Unmounted
  /\ UNCHANGED <<synthetic, played, stored, live>>

-----------------------------------------------------------------------------
(* The rows of the panel *)

SetHandoff(m, s) ==
  /\ brokerage' = [brokerage EXCEPT ![m] = s]
  /\ UNCHANGED <<synthetic, played, stored, live, onPlan, consent>>

Propose(m) == m \in Rows /\ brokerage[m] = "none" /\ SetHandoff(m, "proposed")

\* The box may be ticked and unticked while the row asks for it.
TickConsent(m) ==
  /\ m \in Rows /\ brokerage[m] = "proposed"
  /\ consent' = [consent EXCEPT ![m] = ~@]
  /\ UNCHANGED <<synthetic, played, stored, live, onPlan, brokerage>>

\* Mutant of Approve: the button is not disabled.  approve would not stop it,
\* since onApprove hands it a literal true.
ApproveAnyway(m) == m \in Rows /\ brokerage[m] = "proposed" /\ SetHandoff(m, "approved")

Approve(m) == m \in Rows /\ brokerage[m] = "proposed" /\ consent[m] /\ SetHandoff(m, "approved")

\* advanceHandoff, by the one button the row shows.
AdvanceHandoff(m) ==
  \E k \in 1..3 :
    m \in Rows /\ brokerage[m] = HandoffOrder[k] /\ SetHandoff(m, HandoffOrder[k + 1])

\* Mutant of DeclineMatch: only the engine's own rule is left, and it has none.
DeclineAnything(m) == m \in Rows /\ brokerage[m] # "none" /\ SetHandoff(m, "declined")

\* declineMatch asks nothing; the row offers it until the end is reached.
DeclineMatch(m) ==
  /\ m \in Rows
  /\ brokerage[m] \notin {"none", "transferred", "declined"}
  /\ SetHandoff(m, "declined")

DeskNext ==
  \/ PickPilotChild \/ IngestPlay \/ LoadDesk \/ CloseDesk \/ Decide \/ ShowPlan \/ LeavePlan
  \/ \E m \in Match : Propose(m) \/ TickConsent(m) \/ Approve(m) \/ AdvanceHandoff(m) \/ DeclineMatch(m)

DeskSpec == DeskInit /\ [][DeskNext]_desk

-----------------------------------------------------------------------------
(* Properties *)

DeskTypeOK ==
  /\ synthetic \in BOOLEAN /\ played \in Log /\ stored \in Lifecycle
  /\ live \in Lifecycle \cup {None} /\ onPlan \in BOOLEAN
  /\ brokerage \in [Match -> HandoffState] /\ consent \in [Match -> BOOLEAN]

\* No handoff stands on a screen whose read asks for rest or a lighter load, nor
\* one to an audience while the plan is for the child alone: the guide's decisions
\* may take the card away and bring it back, but never change what a handoff
\* rests on beneath it (broker.ts:169, access-panel.tsx:224).
HandoffsFitThePlan ==
  \A m \in Match : brokerage[m] # "none" =>
    /\ CardShown /\ ~Strained(ReadForKid)
    /\ KindOf[m] = "audience" => PlanStage(played, ReadForKid) > 1

\* Whoever has been approved, introduced or handed over, has a guardian's consent
\* ticked on the same row, still (lifecycle.ts:59, access-panel.tsx:187).
ConsentBehindHandoff ==
  \A m \in Match :
    brokerage[m] \in {"approved", "introduced", "active", "transferred"} => consent[m]

\* A handoff moves one rung at a time, and one that is handed over or declined
\* stays so until the panel goes ("Terminal.", lifecycle.ts:89).
NextRung(s) ==
  CASE s = "none" -> {"none", "proposed"}
    [] s \in {"declined", "transferred"} -> {s}
    [] s = "proposed" -> {s, "approved", "declined"}
    [] s = "approved" -> {s, "introduced", "declined"}
    [] s = "introduced" -> {s, "active", "declined"}
    [] s = "active" -> {s, "transferred", "declined"}
LadderKept ==
  [][brokerage' = NoHandoffs \/ \A m \in Match : brokerage'[m] \in NextRung(brokerage[m])]_desk

\* A child who lately only comes when asked, after going deep by choice, is held
\* from new access in a specialization the console shows as certified (wellbeing.ts:34
\* "fires only once a spike is an active specialization (a human-gated
\* CANDIDATE/ACTIVE state)", broker.ts:169 "rest|backOff => HOLD all new access").
BurnoutHolds ==
  Rows # {} => ~Strained(WellbeingState(Signals(played, {}), live \in PlannableStates))
=============================================================================
