-------------------------- MODULE SocraticDefense --------------------------
(***************************************************************************)
(* A child defends a project in an interview (packages/socratic-defense):  *)
(* runSession asks about one facet at a time, has each answer judged, and  *)
(* probes a thin answer again.  Each turn waits three times: for the       *)
(* interviewer, for the child and for the judge.  Any of the three may     *)
(* throw, and the promise of the session then rejects.                     *)
(*                                                                         *)
(* A facet is its place in FACET_ORDER.  A coverage of [0,1] is a rank     *)
(* between 0 and Top; Covered is the rank that COVERED (0.6) begins.       *)
(***************************************************************************)
EXTENDS Integers, Sequences, FiniteSets

CONSTANTS FacetCount,  \* facets in FACET_ORDER (six in the code)
          Top,         \* the best coverage a judge gives
          Covered,     \* from here on a facet is covered
          MaxTurns     \* MAX_TURNS (twelve in the code)

ASSUME FacetAssumption == FacetCount \in Nat \ {0}
ASSUME CoverageAssumption == Top \in Nat /\ Covered \in 1..Top
ASSUME TurnsAssumption == MaxTurns \in Nat \ {0}

Facet == 1..FacetCount
Level == {"emerging", "developing", "fluent"}
MaxFollowup == [l \in Level |-> IF l = "emerging" THEN 2 ELSE 1]

Turn == [facet : Facet, isFollowUp : BOOLEAN, coverage : 0..Top]

\* A judgment of the live tutor.  The judge says for itself whether an answer
\* is thin; one that cannot be parsed counts as no coverage and thin.
Judgment == [coverage : 0..Top, thin : BOOLEAN]

VARIABLES
  interview,     \* what the session waits for, or how it ended
  level,         \* the child's readiness level
  cov,           \* coverageByFacet
  turns,         \* the transcript
  followups,     \* per facet: follow-ups asked so far
  targetFacet,   \* the facet of the question at hand
  isFollowUp,    \* whether it probes the same facet again
  record         \* the evidence record of a session that returned: its gaps

defense == <<interview, level, cov, turns, followups, targetFacet, isFollowUp, record>>

-----------------------------------------------------------------------------
(* The scaffold *)

\* Mutant of UpdateCoverage: the last judgment wins.
UpdateCoverageLast(c, f, judged) == [c EXCEPT ![f] = judged]

UpdateCoverage(c, f, judged) == [c EXCEPT ![f] = IF judged > @ THEN judged ELSE @]

\* The least covered facet; the earliest in FACET_ORDER of several.
SelectNextFacet(c) ==
  CHOOSE f \in Facet : \A g \in Facet : c[f] < c[g] \/ (c[f] = c[g] /\ f <= g)

IsComplete(c, turnCount) == turnCount >= MaxTurns \/ \A f \in Facet : c[f] >= Covered

ComputeGaps(c) == {f \in Facet : c[f] < Covered}

-----------------------------------------------------------------------------
(* The session *)

DefenseInit ==
  /\ interview = "none" /\ level = "emerging"
  /\ cov = [f \in Facet |-> 0]
  /\ turns = <<>>
  /\ followups = [f \in Facet |-> 0]
  /\ targetFacet = 1 /\ isFollowUp = FALSE
  /\ record = {}

\* runSession, to its first question.
StartSession ==
  /\ interview = "none"
  /\ interview' = "asking"
  /\ level' \in Level
  /\ targetFacet' = SelectNextFacet(cov)
  /\ UNCHANGED <<cov, turns, followups, isFollowUp, record>>

Asked ==
  /\ interview = "asking"
  /\ interview' = "answering"
  /\ UNCHANGED <<level, cov, turns, followups, targetFacet, isFollowUp, record>>

\* Mutant of Answered: a blank answer is asked for again, outside any turn.
AnsweredOrAgain ==
  /\ interview = "answering"
  /\ interview' \in {"judging", "asking"}
  /\ UNCHANGED <<level, cov, turns, followups, targetFacet, isFollowUp, record>>

Answered ==
  /\ interview = "answering"
  /\ interview' = "judging"
  /\ UNCHANGED <<level, cov, turns, followups, targetFacet, isFollowUp, record>>

\* Mutant of Proceed: the follow-ups of a facet are counted afresh at each probe.
ProceedRecounting(j, c) ==
  IF j.thin
    THEN /\ followups' = [followups EXCEPT ![targetFacet] = 1]
         /\ isFollowUp' = TRUE
         /\ UNCHANGED targetFacet
    ELSE /\ isFollowUp' = FALSE
         /\ targetFacet' = SelectNextFacet(c)
         /\ UNCHANGED followups

\* Where the interview goes on: the same facet again while a thin answer has
\* follow-ups left, the least covered one else.  The count of a facet is never
\* reset, so a facet that comes back has none left.
Proceed(j, c) ==
  IF j.thin /\ followups[targetFacet] < MaxFollowup[level]
    THEN /\ followups' = [followups EXCEPT ![targetFacet] = @ + 1]
         /\ isFollowUp' = TRUE
         /\ UNCHANGED targetFacet
    ELSE /\ isFollowUp' = FALSE
         /\ targetFacet' = SelectNextFacet(c)
         /\ UNCHANGED followups

\* The judgment arrives: the turn is over, and perhaps the session.
Judged ==
  /\ interview = "judging"
  /\ \E j \in Judgment :
       LET c == UpdateCoverage(cov, targetFacet, j.coverage)
       IN  /\ cov' = c
           /\ turns' = Append(turns, [facet |-> targetFacet, isFollowUp |-> isFollowUp,
                                      coverage |-> c[targetFacet]])
           /\ IF IsComplete(c, Len(turns) + 1)
                THEN /\ interview' = "complete"
                     /\ record' = ComputeGaps(c)
                     /\ UNCHANGED <<followups, targetFacet, isFollowUp>>
                ELSE /\ interview' = "asking"
                     /\ Proceed(j, c)
                     /\ UNCHANGED record
  /\ UNCHANGED level

Waiting == interview \in {"asking", "answering", "judging"}

\* A port throws: the turns before it go with the promise.
PortThrows ==
  /\ Waiting
  /\ interview' = "failed"
  /\ turns' = <<>> /\ cov' = [f \in Facet |-> 0]
  /\ UNCHANGED <<level, followups, targetFacet, isFollowUp, record>>

DefenseNext == StartSession \/ Asked \/ Answered \/ Judged \/ PortThrows

\* Each port answers or throws at last; the child is not made to begin.
DefenseFairness == WF_defense(Asked \/ Answered \/ Judged \/ PortThrows)

DefenseSpec == DefenseInit /\ [][DefenseNext]_defense /\ DefenseFairness

-----------------------------------------------------------------------------
(* Properties *)

DefenseTypeOK ==
  /\ interview \in {"none", "asking", "answering", "judging", "complete", "failed"}
  /\ level \in Level
  /\ cov \in [Facet -> 0..Top]
  /\ turns \in Seq(Turn) /\ Len(turns) <= MaxTurns
  /\ followups \in [Facet -> 0..2]
  /\ targetFacet \in Facet
  /\ isFollowUp \in BOOLEAN
  /\ record \subseteq Facet

TurnsOn(f) == {i \in 1..Len(turns) : turns[i].facet = f}

\* The gaps an evidence record names are the facets that no turn of its
\* transcript covered: a later, weaker answer takes nothing back, and a session
\* stops short of a facet only when its turns are used up (session.ts:67-96,
\* evidence.ts:4-22).
GapsFromTurns ==
  interview = "complete" =>
    /\ record = {f \in Facet : \A i \in TurnsOn(f) : turns[i].coverage < Covered}
    /\ record # {} => Len(turns) = MaxTurns

Probes(f) == {i \in TurnsOn(f) : turns[i].isFollowUp}

\* Over a whole session, however often its coverage brings a facet back, a child
\* is probed again on it at most MAX_FOLLOWUP times, and always right after a
\* turn on the same facet (session.ts:79-86).
ProbesCapped ==
  \A f \in Facet :
    /\ Cardinality(Probes(f)) <= MaxFollowup[level]
    /\ \A i \in Probes(f) : i > 1 /\ turns[i - 1].facet = f

\* A session that begins comes to its record or to a rejection (session.ts:41).
SessionEnds == (interview = "asking") ~> (interview \in {"complete", "failed"})
=============================================================================
