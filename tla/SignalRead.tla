---------------------------- MODULE SignalRead ----------------------------
(***************************************************************************)
(* What the signal pipeline holds against a cell (packages/signal-pipeline,*)
(* deriveSkips, with the resolving and the novelty it rests on): a cell a  *)
(* visit put on offer, took nothing from and had seen long enough before.  *)
(* The read is derived anew from the whole log, whose records arrive as    *)
(* the uplink of each tablet delivers them: those of one visit in their    *)
(* order, those of different visits in any.                                *)
(*                                                                         *)
(* One child.  A cell is a domain and a work mode; every artifact is one   *)
(* the catalog knows.  The returns are SpikePlan's.                        *)
(***************************************************************************)
EXTENDS Integers, Sequences, SequencesExt

CONSTANTS Artifact,
          Linked,       \* those reached by a link, never put on offer themselves
          Topics,       \* artifact.domainPath, per artifact
          Affords,      \* artifact.affordedModes, per artifact
          Verb,         \* action types; "open" has no mode, "follow-source" is of a link
          ModesOf,      \* ACTION_MODE_RULES: the modes of a verb, preferred first
          Visit,        \* session ids, one per page load
          VisitDays,    \* the days each lasts
          NoveltyDays,  \* noveltyWindowDays (3)
          MaxActs,      \* bound: interactions
          MaxOffers     \* bound: surfacings

ASSUME SignalAssumption ==
  /\ Linked \subseteq Artifact /\ {"open", "follow-source"} \subseteq Verb
  /\ \A a \in Artifact : IsFiniteSet(Affords[a])
  /\ ModesOf \in [Verb -> Seq(UNION {Affords[a] : a \in Artifact})]
  /\ VisitDays \in [Visit -> SUBSET Nat]
  /\ NoveltyDays \in Nat /\ MaxActs \in Nat /\ MaxOffers \in Nat

VARIABLES
  acts,    \* profile.interactions
  offers   \* profile.surfaced

signals == <<acts, offers>>

-----------------------------------------------------------------------------
(* Resolving *)

\* resolveEngagedModes: the modes of the verb that the artifact affords.
Kept(a, v) == SelectSeq(ModesOf[v], LAMBDA m : m \in Affords[a])

\* Built: an action that is a way of working, not presence, and resolves.
Engages(r) == r.verb # "open" /\ Kept(r.artifact, r.verb) # <<>>

\* The cell of its primary mode.
EngagedCell(r) == <<Topics[r.artifact], Head(Kept(r.artifact, r.verb))>>

Engaged(records) == {EngagedCell(r) : r \in {r \in records : Engages(r)}}
During(log, s)   == {r \in ToSet(log) : r.visit = s}

\* offeredCells: what was engaged through it, and what it affords.
Offered(a) ==
  Engaged({r \in ToSet(acts) : r.artifact = a}) \cup {<<Topics[a], m>> : m \in Affords[a]}

\* engagedBySession: what was engaged in a visit, and all that was offered by what
\* was only opened.
Taken(s) ==
  Engaged(During(acts, s))
    \cup UNION {Offered(r.artifact) : r \in {r \in During(acts, s) : r.verb = "open"}}

-----------------------------------------------------------------------------
(* Novelty *)

\* The days a cell was engaged or on offer.
Exposures(c) ==
  {r.day : r \in {r \in ToSet(acts) : Engages(r) /\ EngagedCell(r) = c}}
    \cup {o.day : o \in {o \in ToSet(offers) : c \in Offered(o.artifact)}}

\* Mutant of FirstExposure: the first to be read, not the earliest.
FirstRead(c) ==
  Head(SelectSeq(acts, LAMBDA r : Engages(r) /\ EngagedCell(r) = c)
         \o SelectSeq(offers, LAMBDA o : c \in Offered(o.artifact))).day

FirstExposure(c) == CHOOSE d \in Exposures(c) : \A e \in Exposures(c) : d <= e

\* isNovelty
Novel(c, day) == day - FirstExposure(c) <= NoveltyDays

-----------------------------------------------------------------------------
(* The read *)

\* The cells of an offer that were not taken and are not new any more.
PassedBy(o) == {c \in Offered(o.artifact) : c \notin Taken(o.visit) /\ ~Novel(c, o.day)}

\* Mutant of Counting: the last offer of a cell counts, not the first.
Recounting(passed, o) ==
  [c \in DOMAIN passed \cup PassedBy(o) |-> IF c \in PassedBy(o) THEN o.day ELSE passed[c]]

\* One more offer: the cells not counted yet are counted from its day.
Counting(passed, o) ==
  [c \in DOMAIN passed \cup PassedBy(o) |-> IF c \in DOMAIN passed THEN passed[c] ELSE o.day]

NothingPassed == [c \in {} |-> 0]

\* The cells a visit passed over, each with the day it is counted from.  A visit that
\* took nothing is silent.
NotChosen(s) ==
  LET passed[i \in 0..Len(offers)] ==
        IF i = 0 THEN NothingPassed
        ELSE IF offers[i].visit = s THEN Counting(passed[i - 1], offers[i])
        ELSE passed[i - 1]
  IN  IF Taken(s) = {} THEN NothingPassed ELSE passed[Len(offers)]

\* deriveSkips: a known cell is skipped, one never engaged is declined.
HeldAgainst ==
  UNION {LET passed == NotChosen(s)
         IN  {[cell |-> c, visit |-> s, day |-> passed[c],
               kind |-> IF c \in Engaged(ToSet(acts)) THEN "skip" ELSE "decline",
               choiceSetSize |-> Cardinality(DOMAIN passed)] : c \in DOMAIN passed}
         : s \in Visit}

-----------------------------------------------------------------------------
SignalsInit == acts = <<>> /\ offers = <<>>

\* The days a further record of a visit may bear.
DaysLeft(s) ==
  {d \in VisitDays[s] : \A r \in During(acts, s) \cup During(offers, s) : r.day <= d}

ShownIn(s) == {o.artifact : o \in During(offers, s)}

\* recordSurfaced: once per visit and artifact.
OfferArrives(s, a) ==
  /\ Len(offers) < MaxOffers
  /\ a \notin Linked \cup ShownIn(s)
  /\ \E d \in DaysLeft(s) : offers' = Append(offers, [artifact |-> a, visit |-> s, day |-> d])
  /\ UNCHANGED acts

Acted(s, a, v) ==
  /\ Len(acts) < MaxActs
  /\ \E d \in DaysLeft(s) :
       acts' = Append(acts, [artifact |-> a, verb |-> v, visit |-> s, day |-> d])
  /\ UNCHANGED offers

\* recordOpen, recordAction: of what is on screen.
ActArrives(s, a, v) == a \in ShownIn(s) /\ v # "follow-source" /\ Acted(s, a, v)

\* recordSourceFollow
FollowArrives(s, a) == a \in Linked /\ Acted(s, a, "follow-source")

SignalsNext ==
  \E s \in Visit, a \in Artifact :
    \/ OfferArrives(s, a)
    \/ \E v \in Verb : ActArrives(s, a, v)
    \/ FollowArrives(s, a)

SignalsSpec == SignalsInit /\ [][SignalsNext]_signals

-----------------------------------------------------------------------------
(* Properties *)

SignalsTypeOK ==
  /\ acts \in Seq([artifact : Artifact, verb : Verb, visit : Visit, day : Nat])
  /\ offers \in Seq([artifact : Artifact \ Linked, visit : Visit, day : Nat])

\* The days a visit offered a cell known longer than the novelty window.
KnownOffers(s, c) ==
  {o.day : o \in {o \in During(offers, s) :
             /\ c \in Offered(o.artifact)
             /\ \E e \in Exposures(c) : o.day > e + NoveltyDays}}

PassedOver(s) ==
  {c \in UNION {Offered(a) : a \in ShownIn(s)} :
     Taken(s) # {} /\ c \notin Taken(s) /\ KnownOffers(s, c) # {}}

\* In whatever order the visits arrived, the read is one of what was recorded: of a
\* visit that took something, each cell offered in it, not taken, and known longer
\* than the novelty window, once, from the first such offer on, sharing one choice
\* with the others (skips.ts:32-49, 158-196).
ReadsTheRecord ==
  \A s \in Visit :
    LET held == {e \in HeldAgainst : e.visit = s}
    IN  /\ {e.cell : e \in held} = PassedOver(s)
        /\ Cardinality(held) = Cardinality(PassedOver(s))
        /\ \A e \in held :
             /\ e.day \in KnownOffers(s, e.cell)
             /\ \A d \in KnownOffers(s, e.cell) : e.day <= d
             /\ e.choiceSetSize = Cardinality(PassedOver(s))

\* A record that arrives late takes back what a visit holds against a cell only by
\* showing that the visit took it, and a known love, once skipped, never passes for
\* something the child has not tried (skips.ts:77-113, 189).
HeldUntilTaken ==
  [][\A e \in HeldAgainst :
       \/ e.cell \in Taken(e.visit)'
       \/ \E f \in HeldAgainst' :
            /\ f.cell = e.cell /\ f.visit = e.visit /\ f.day <= e.day
            /\ e.kind = "skip" => f.kind = "skip"]_signals
=============================================================================
