------------------------------ MODULE Holdout ------------------------------
(***************************************************************************)
(* What a session owes a child (packages/surfacing, selectHoldOut): each   *)
(* domain the child was once shown is owed MinExposures spaced occasions   *)
(* before it may be dropped, or anything new be offered.  The policy reads *)
(* the surfaced log of the profile (offer-next.ts), where the showings of  *)
(* each tablet arrive when it is next online, in any order between them.   *)
(*                                                                         *)
(* The clock counts days.  The probe and the new cabin, which depend on    *)
(* beliefs, are left out.                                                  *)
(***************************************************************************)
EXTENDS Integers, FiniteSets

CONSTANTS Domain,        \* domain paths
          Taxonomy,      \* those within CABINS
          MinExposures,  \* minExposures (4)
          Spacing,       \* spacingDays (1)
          Tablet,        \* devices a child plays on
          LastDay        \* bound: days

Days == 1..LastDay

ASSUME HoldoutAssumption ==
  /\ Taxonomy \subseteq Domain
  /\ MinExposures \in Nat \ {0} /\ Spacing \in Nat \ {0} /\ LastDay \in Nat \ {0}

VARIABLES
  today,
  shown,     \* per tablet: showings not delivered yet, <<domain, day>>
  surfaced   \* the profile's surfaced log

holdout == <<today, shown, surfaced>>

-----------------------------------------------------------------------------
(* The policy *)

\* Mutant of Occasions: a day counts when it is far enough from the day before it.
OccasionsByGap(history, d) ==
  LET days == {t \in Days : <<d, t>> \in history}
  IN  Cardinality({t \in days : \A u \in days : u < t => t - u >= Spacing})

\* occasionsByDomain: from the first day on, each day far enough from the last one
\* counted.
Occasions(history, d) ==
  LET days == {t \in Days : <<d, t>> \in history}
      Counted[t \in 0..LastDay] ==
        IF t = 0 THEN {}
        ELSE IF t \in days /\ \A u \in Counted[t - 1] : t - u >= Spacing
          THEN Counted[t - 1] \cup {t} ELSE Counted[t - 1]
  IN  Cardinality(Counted[LastDay])

Triggered(history) == {d \in Domain : Occasions(history, d) > 0}

\* The debts of the slate.  One outside the taxonomy cannot be offered.
Owed(history) ==
  {d \in Triggered(history) \cap Taxonomy : Occasions(history, d) < MinExposures}

-----------------------------------------------------------------------------
HoldoutInit ==
  /\ today = 1
  /\ shown = [t \in Tablet |-> {}]
  /\ surfaced = {}

NextDay ==
  /\ today < LastDay
  /\ today' = today + 1
  /\ UNCHANGED <<shown, surfaced>>

\* The child is shown a domain: one the slate names, or one it went to by itself.
Show(t, d) ==
  /\ shown' = [shown EXCEPT ![t] = @ \cup {<<d, today>>}]
  /\ UNCHANGED <<today, surfaced>>

\* A tablet's showings reach the profile (SignalIngest).
ReachesProfile(t) ==
  /\ shown[t] # {}
  /\ surfaced' = surfaced \cup shown[t]
  /\ shown' = [shown EXCEPT ![t] = {}]
  /\ UNCHANGED today

HoldoutNext == NextDay \/ \E t \in Tablet : ReachesProfile(t) \/ \E d \in Domain : Show(t, d)

HoldoutSpec == HoldoutInit /\ [][HoldoutNext]_holdout

-----------------------------------------------------------------------------
(* Properties *)

HoldoutTypeOK ==
  /\ today \in Days
  /\ shown \in [Tablet -> SUBSET (Domain \X Days)]
  /\ surfaced \subseteq Domain \X Days

\* A domain joins the debts when the child is first shown it and leaves them once
\* paid: no later or late-arriving showing, of whatever tablet, takes an occasion
\* back or brings a paid debt up again (holdout.ts:91-119, 133-143).
DebtsOnlyShrink ==
  [][\A d \in Triggered(surfaced) :
       /\ Occasions(surfaced', d) >= Occasions(surfaced, d)
       /\ d \in Owed(surfaced') => d \in Owed(surfaced)]_holdout
=============================================================================
