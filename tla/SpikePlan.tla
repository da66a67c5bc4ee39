----------------------------- MODULE SpikePlan -----------------------------
(***************************************************************************)
(* What the system makes of one child's play in one specialization: the    *)
(* events of the signal pipeline (packages/signal-pipeline), the wellbeing *)
(* read (packages/wellbeing), the stage and the plan                       *)
(* (packages/specialization-planner), and the mentors and audiences the    *)
(* broker would surface (packages/access-broker).  Operators only.         *)
(*                                                                         *)
(* A log has one entry a day: at most one engagement, with at most one     *)
(* depth signal.  The last day is the clock.  Wording, scores and the      *)
(* project brief are left out.                                             *)
(***************************************************************************)
EXTENDS Integers, Sequences, FiniteSets

CONSTANTS TrendWindow,   \* TREND_WINDOW_DAYS (21)
          GapDays,       \* GAP_DAYS (14)
          ReturnWindow,  \* RETURN_WINDOW_DAYS (90)
          DepthFor,      \* DEPTH_S2, _S3, _S4 (3, 8, 16)
          ReturnsFor     \* RETURN_S2, _S3, _S4 (4, 8, 12)

ASSUME WindowAssumption ==
  /\ TrendWindow \in Nat \ {0} /\ GapDays \in Nat \ {0} /\ ReturnWindow \in Nat \ {0}
  /\ DepthFor \in [2..4 -> Nat] /\ ReturnsFor \in [2..4 -> Nat]

\* A chosen challenge stands for stretch-seeking, an artifact for having made
\* something for others; both belong to the depth families.
Day == {d \in [play : {"none", "voluntary", "prompted"},
               depth : {"none", "chosen_challenge", "artifact_competence"}] :
          d.play = "none" => d.depth = "none"}
Log == Seq(Day)

-----------------------------------------------------------------------------
(* Events *)

\* classifyReturns: a voluntary engagement after one of an earlier day, prompted
\* or not, is a return.  The first ever is not.
CrossDayReturns(log) ==
  {i \in 1..Len(log) : log[i].play = "voluntary" /\ \E j \in 1..(i - 1) : log[j].play # "none"}

\* No skips among them: deriveWellbeingSignals hands the pipeline no surfaced log.
PromptedReturns(log) == {i \in 1..Len(log) : log[i].play = "prompted"}
DepthEvents(log)     == {i \in 1..Len(log) : log[i].depth # "none"}

\* The windows end today.
Recent(log, days) == {i \in days : Len(log) - i <= TrendWindow}
Older(log, days)  == {i \in days : Len(log) - i \in (TrendWindow + 1)..(2 * TrendWindow)}

-----------------------------------------------------------------------------
(* Wellbeing *)

Trend(log, days) ==
  LET now == Cardinality(Recent(log, days))
      before == Cardinality(Older(log, days))
  IN  IF now > before THEN "rising" ELSE IF now < before THEN "declining" ELSE "stable"

\* They went deep by choice before; lately they only came when asked to, and
\* went no deeper.
Devaluation(log) ==
  /\ Older(log, CrossDayReturns(log)) # {} /\ Older(log, DepthEvents(log)) # {}
  /\ Recent(log, PromptedReturns(log)) # {}
  /\ Recent(log, CrossDayReturns(log) \cup DepthEvents(log)) = {}

\* No voluntary return for GapDays, after one.
Missing(log) ==
  /\ CrossDayReturns(log) # {}
  /\ \A i \in CrossDayReturns(log) : Len(log) - i >= GapDays

\* deriveWellbeingSignals.  `reports` is what adults have told: the console
\* passes none.
Signals(log, reports) ==
  [returnTrend |-> Trend(log, CrossDayReturns(log)),
   depthTrend  |-> Trend(log, DepthEvents(log)),
   devaluation |-> Devaluation(log),
   missing     |-> Missing(log),
   exhaustion  |-> "worn-out" \in reports,
   stakesEvent |-> "stakes" \in reports]

\* assessWellbeing: the first match of the table wins.  Its three states of
\* challenge neither rest nor back off nor escalate, and are one here.
WellbeingState(s, pressureActive) ==
  IF ~pressureActive THEN "CHALLENGE"
  ELSE IF s.devaluation THEN "BURNOUT_TIP"
  ELSE IF s.exhaustion /\ s.depthTrend = "declining" /\ s.returnTrend = "declining"
    THEN "EARLY_BURNOUT"
  ELSE IF s.missing THEN "GAP"
  ELSE IF s.stakesEvent THEN "DANGER_WINDOW"
  ELSE "CHALLENGE"

Rest(state)     == state = "BURNOUT_TIP"
BackOff(state)  == state = "EARLY_BURNOUT"
Strained(state) == Rest(state) \/ BackOff(state)

-----------------------------------------------------------------------------
(* The plan *)

PlannableStates == {"CANDIDATE", "ACTIVE"}

\* deriveStage, on the returns of the window and on all the depth there ever was.
ReadinessStage(log) ==
  LET r == Cardinality({i \in CrossDayReturns(log) : Len(log) - i <= ReturnWindow})
      d == Cardinality(DepthEvents(log))
      reached(k) == d >= DepthFor[k] /\ r >= ReturnsFor[k]
      stretch == \E i \in 1..Len(log) : log[i].depth = "chosen_challenge"
      producer == \E i \in 1..Len(log) : log[i].depth = "artifact_competence"
  IN  IF producer /\ stretch /\ reached(4) THEN 4
      ELSE IF stretch /\ reached(3) THEN 3
      ELSE IF reached(2) THEN 2
      ELSE 1

DemoteOne(stage) == IF stage = 1 THEN 1 ELSE stage - 1

\* derivePlanInputs and derivePlanCore: the plan of a certified spike the child
\* came back to, under a read of its wellbeing.  The mentor's role and the
\* audience are those of the stage.
Planned(log, state) == state \in PlannableStates /\ CrossDayReturns(log) # {}
PlanStage(log, wellbeing) ==
  IF Strained(wellbeing) THEN DemoteOne(ReadinessStage(log)) ELSE ReadinessStage(log)

-----------------------------------------------------------------------------
(* The broker *)

\* An opportunity: what it is, the stage whose need it fills, and its gates.
Opportunities == [kind : {"mentor", "audience"}, fills : 1..4, minStage : 1..4,
                  ageTier : 1..3, vetted : BOOLEAN]

Fits(o, stage, ageBand) ==
  /\ o.vetted
  /\ ageBand >= o.ageTier
  /\ o.minStage <= stage
  /\ o.fills = stage

\* Mutant of Surfaced: a rest is not a reason to hold.
SurfacedAtRest(catalog, stage, ageBand, wellbeing, craft) ==
  IF BackOff(wellbeing) THEN {}
  ELSE {i \in DOMAIN catalog :
          /\ Fits(catalog[i], stage, ageBand)
          /\ catalog[i].kind = "audience" /\ stage > 1 => craft}

\* brokerAccess: nothing under strain.  Beyond the child's own circle (stage 1)
\* an audience needs a craft scaffold in the next project.
Surfaced(catalog, stage, ageBand, wellbeing, craft) ==
  IF Strained(wellbeing) THEN {}
  ELSE {i \in DOMAIN catalog :
          /\ Fits(catalog[i], stage, ageBand)
          /\ catalog[i].kind = "audience" /\ stage > 1 => craft}
=============================================================================
